---- MODULE MCLualikePrograms ----
(***************************************************************************)
(* Programs of nested blocks over two names: a statement, then an if that  *)
(* takes either branch, itself with a nested if in one family, then a      *)
(* return that looks at a name.  Every position of a program has its own   *)
(* span.  (The values given to the constants are aliases, so that TLC      *)
(* builds each set only once.)                                             *)
(***************************************************************************)
EXTENDS LualikeSemantics

CONSTANTS x, y

MCNames == {x, y}

One == [kind |-> "Literal", value |-> <<"Int", 1>>]
False == [kind |-> "Literal", value |-> Bool(FALSE)]
Var(n, p) == [kind |-> "Variable", name |-> n, span |-> p]

Decl(n, e) == [kind |-> "VariableDeclaration", name |-> n, initializer |-> e]
Assign(n, e, p) == [kind |-> "Assignment", name |-> n, expr |-> e, span |-> p]
Ret(e) == [kind |-> "ReturnStatement", expression |-> e]
Eval(e) == [kind |-> "ExpressionStatement", expression |-> <<e>>]
FunDecl == [kind |-> "FunctionDeclaration"]
If(e, b, c) ==
    [kind |-> "IfStatement", condition |-> e, then |-> b, else |-> c]

(* x = 1   x = nil   y = x   x := 1   y   return   return x                *)
Simple(p) ==
    {Decl(x, <<One>>), Decl(x, <<>>), Decl(y, <<Var(x, p)>>),
     Assign(x, One, p), Eval(Var(y, p)), Ret(<<>>), Ret(<<Var(x, p)>>)}

UpToTwo == {<<>>} \cup {<<s>> : s \in Simple(2) \cup {FunDecl}}
                  \cup {<<s, t>> : s \in Simple(2), t \in Simple(3)}

(* The branch taken is the first, the second, or depends on x.             *)
Shallow ==
    {If(One, b, <<>>) : b \in UpToTwo} \cup {If(False, <<>>, <<b>>) : b \in UpToTwo}
    \cup {If(Var(x, 4), b, <<<<Decl(y, <<One>>)>>>>) : b \in UpToTwo}

Inner == {If(One, <<s>>, <<>>) : s \in Simple(3)}
Nested ==
    {If(One, <<s, i, t>>, <<>>) : s \in Simple(2), i \in Inner, t \in Simple(4)}

LastLooks(p) == {Ret(<<Var(x, p)>>), Ret(<<Var(y, p)>>)}

AllStatements ==
    Simple(1) \cup Simple(2) \cup Simple(3) \cup Simple(4) \cup {FunDecl}
        \cup {Decl(y, <<One>>)} \cup Shallow \cup Inner \cup Nested
        \cup LastLooks(5)
MCStatements == AllStatements

AllExpressions ==
    {One, False} \cup {Var(n, p) : n \in MCNames, p \in 1..5}
MCExpressions == AllExpressions

AllPrograms ==
    {<<s, i, r>> : s \in Simple(1), i \in Shallow \cup Nested, r \in LastLooks(5)}
MCPrograms == AllPrograms
====
