---- MODULE LualikeAstDump ----
(***************************************************************************)
(* The text form of the AST (ast.cc), which tests and failure messages     *)
(* show instead of the tree.  A text is a sequence of lines, and a line an *)
(* indentation and what it says.  Nodes are as in LualikeInterpreter, with *)
(* all the fields of ast.h but the spans, which are not printed.           *)
(***************************************************************************)
EXTENDS LualikeValue

CONSTANT Trees      \* blocks, without line breaks in their strings

VARIABLES tree, other
vars == <<tree, other>>

Sequence == INSTANCE SequencesExt

----------------------------------------------------------------------------
UnaryOperatorToString(op) == CASE op = "Negate" -> "-" [] op = "Not" -> "not"

BinaryOperatorToString(op) ==
    CASE op = "Or" -> "or"             [] op = "And" -> "and"
      [] op = "LessThan" -> "<"        [] op = "GreaterThan" -> ">"
      [] op = "LessThanEqual" -> "<="  [] op = "GreaterThanEqual" -> ">="
      [] op = "NotEqual" -> "~="       [] op = "Equal" -> "=="
      [] op = "Add" -> "+"             [] op = "Subtract" -> "-"
      [] op = "Multiply" -> "*"        [] op = "Divide" -> "/"
      [] op = "FloorDivide" -> "//"    [] op = "Modulo" -> "%"
      [] op = "Power" -> "^"

(* AppendIndent, and the rest of the line.                                 *)
Line(indent, words) == <<[indent |-> indent, words |-> words]>>

(* Faulty: the parts of a node are printed at its own depth.               *)
FaultyDeeper(indent) == indent

Deeper(indent) == indent + 1

RECURSIVE PrintExpression(_, _), PrintStatement(_, _), PrintBlock(_, _)

Arguments(es, indent) ==
    Sequence!FlattenSeq([i \in DOMAIN es |-> PrintExpression(es[i], indent)])

PrintExpression(e, indent) ==
    LET in == Deeper(indent)
    IN  CASE e.kind = "Literal" -> Line(indent, <<"LiteralExpression">> \o ToString(e.value))
          [] e.kind = "Variable" -> Line(indent, <<"VariableExpression", e.name>>)
          [] e.kind = "Unary" ->
                Line(indent, <<"UnaryExpression", UnaryOperatorToString(e.op)>>)
                \o PrintExpression(e.rhs, in)
          [] e.kind = "Binary" ->
                Line(indent, <<"BinaryExpression", BinaryOperatorToString(e.op)>>)
                \o PrintExpression(e.lhs, in) \o PrintExpression(e.rhs, in)
          [] e.kind = "FunctionCall" ->
                Line(indent, <<"FunctionCallExpression">>)
                \o Line(in, <<"Callee">>) \o PrintExpression(e.callee, Deeper(in))
                \o Line(in, <<"Arguments">>) \o Arguments(e.arguments, Deeper(in))

PrintStatement(s, indent) ==
    LET in == Deeper(indent)
    IN  CASE s.kind = "ExpressionStatement" ->
                Line(indent, <<s.kind>>) \o Arguments(s.expression, in)
          [] s.kind = "ReturnStatement" ->
                Line(indent, <<s.kind>>) \o Arguments(s.expression, in)
          [] s.kind = "VariableDeclaration" ->
                Line(indent, <<s.kind, s.name>>) \o Arguments(s.initializer, in)
          [] s.kind = "Assignment" ->
                Line(indent, <<s.kind>>) \o PrintExpression(s.variable, in)
                \o PrintExpression(s.value, in)
          [] s.kind = "IfStatement" ->
                Line(indent, <<s.kind>>)
                \o Line(in, <<"Condition">>) \o PrintExpression(s.condition, Deeper(in))
                \o Line(in, <<"Then">>) \o PrintBlock(s.then, Deeper(in))
                \o (IF s.else = <<>> THEN <<>>
                    ELSE Line(in, <<"Else">>) \o PrintBlock(s.else[1], Deeper(in)))
          [] s.kind = "FunctionDeclaration" ->
                Line(indent, <<s.kind, s.name>> \o s.params) \o PrintBlock(s.body, in)

PrintBlock(b, indent) ==
    Line(indent, <<"Block">>)
    \o Sequence!FlattenSeq([i \in DOMAIN b |-> PrintStatement(b[i], Deeper(indent))])

(* ToString, and PrintTo without an indentation.                           *)
TextOf(block) == PrintBlock(block, 0)

----------------------------------------------------------------------------
(* Two trees are compared by their texts, as a failing test shows them.    *)
Init == tree \in Trees /\ other = tree
Compare == other = tree /\ other' \in Trees \ {tree} /\ UNCHANGED tree
Next == Compare
Spec == Init /\ [][Next]_vars

(* Different trees have different texts: the indentation alone tells where *)
(* the branch of an if, the body of a function, or the operands of an      *)
(* operation end.                                                          *)
TextDeterminesTree == TextOf(tree) = TextOf(other) => tree = other
====
