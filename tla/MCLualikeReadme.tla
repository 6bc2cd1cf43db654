---- MODULE MCLualikeReadme ----
(***************************************************************************)
(* The program of the README, `return 1 + 2 * 3`, and the line that prints *)
(* its result.                                                             *)
(***************************************************************************)
EXTENDS LualikeInterpreter

Num(i) == [kind |-> "Literal", value |-> <<"Int", i>>]
Bin(op, e, f) ==
    [kind |-> "Binary", op |-> op, lhs |-> e, rhs |-> f, span |-> 1]

Product == Bin("Multiply", Num(2), Num(3))
Sum == Bin("Add", Num(1), Product)
Return == [kind |-> "ReturnStatement", expression |-> <<Sum>>]

MCNames == {}
MCExpressions == {Num(1), Num(2), Num(3), Product, Sum}
MCStatements == {Return}
MCPrograms == {<<Return>>}

(* README.md says of std::cout << "Result: " << result->value().ToString() *)
(* that it prints "7": the text of the result is the number alone.         *)
PrintsSeven ==
    Finished => ret[1] = "return" /\ ToString(ret[2]) = <<<<"Int", 7>>>>
====
