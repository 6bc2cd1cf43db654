---- MODULE MCLualikeAstDump ----
(***************************************************************************)
(* Blocks of up to two statements, with every kind of node, operators that *)
(* nest on either side, and ifs within ifs.                                *)
(***************************************************************************)
EXTENDS LualikeAstDump

Constant(v) == [kind |-> "Literal", value |-> v]
Literal == Constant(<<"Int", 1>>)
Variable == [kind |-> "Variable", name |-> "x"]
Leaves == {Variable} \cup {Constant(v) : v \in LualikeValues}

Neg(e) == [kind |-> "Unary", op |-> "Negate", rhs |-> e]
Minus(a, b) == [kind |-> "Binary", op |-> "Subtract", lhs |-> a, rhs |-> b]
Call(f, es) == [kind |-> "FunctionCall", callee |-> f, arguments |-> es]

Nested ==
    {Neg(Neg(Variable)), Neg(Minus(Variable, Literal)),
     Minus(Neg(Variable), Literal), Minus(Minus(Literal, Literal), Variable),
     Minus(Literal, Minus(Literal, Variable)), Call(Variable, <<>>),
     Call(Variable, <<Literal, Neg(Literal)>>), Call(Call(Variable, <<Literal>>), <<>>)}
AllBinary ==
    {[kind |-> "Binary", op |-> op, lhs |-> Literal, rhs |-> Variable] : op \in
        {"Or", "And", "LessThan", "GreaterThan", "LessThanEqual", "GreaterThanEqual",
         "NotEqual", "Equal", "Add", "Multiply", "Divide", "FloorDivide", "Modulo", "Power"}}
AllUnary == {[kind |-> "Unary", op |-> op, rhs |-> Literal] : op \in {"Negate", "Not"}}

Eval(e) == [kind |-> "ExpressionStatement", expression |-> <<e>>]
Return(es) == [kind |-> "ReturnStatement", expression |-> es]
Decl(es) == [kind |-> "VariableDeclaration", name |-> "x", initializer |-> es]
Assign(e) == [kind |-> "Assignment", variable |-> Variable, value |-> e]
If(e, b, c) == [kind |-> "IfStatement", condition |-> e, then |-> b, else |-> c]
Function(ps, b) == [kind |-> "FunctionDeclaration", name |-> "f", params |-> ps, body |-> b]

Simple == {Eval(Literal), Return(<<>>), Return(<<Variable>>), Decl(<<>>),
           Decl(<<Literal>>), Assign(Literal)}
Bodies == {<<>>} \cup {<<s>> : s \in Simple}
Compound == {If(Literal, b, <<>>) : b \in Bodies}
            \cup {If(Literal, b, <<c>>) : b \in Bodies, c \in Bodies}
            \cup {Function(ps, b) : ps \in {<<>>, <<"x">>}, b \in Bodies}
Deep == {If(Literal, <<s>> \o c, <<>>) : s \in Compound, c \in {<<>>, <<Return(<<>>)>>}}

MCTrees == {<<Eval(e)>> : e \in Leaves \cup Nested \cup AllBinary \cup AllUnary}
           \cup {<<s>> : s \in Simple \cup Compound \cup Deep}
           \cup {<<s, t>> : s \in Compound, t \in {Return(<<>>), Eval(Variable)}}
====
