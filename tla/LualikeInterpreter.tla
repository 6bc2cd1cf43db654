---- MODULE LualikeInterpreter ----
(***************************************************************************)
(* The tree-walking evaluator (interpreter.h).  The mutually recursive C++ *)
(* functions VisitBlock, StmtVisitor and ExprVisitor become one machine    *)
(* with an explicit stack: a frame per active call, and in ret what the    *)
(* call that just ended gave back.                                         *)
(*                                                                         *)
(*   <<"call">>       the top frame has just been called                   *)
(*   <<"value", v>>   an expression's value                                *)
(*   <<"done">>       std::nullopt: the statement or block gave no value   *)
(*   <<"return", v>>  a return statement's value, on its way out           *)
(*   <<"throw", e>>   an Error, on its way out                             *)
(*                                                                         *)
(* An AST node is a record with a kind; an optional part is a sequence of  *)
(* at most one node; a span is the number of the source range.  The parser *)
(* builds no Assignment, FunctionCall or FunctionDeclaration, but the      *)
(* visitors accept every node of ast.h, and so does the machine.           *)
(***************************************************************************)
EXTENDS LualikeValue, LualikeScope, FiniteSets

CONSTANTS
    Expressions, Statements,    \* the AST nodes that can occur in a program
    Programs                    \* the programs, each a block

UnaryOperators == {"Negate", "Not"}
ArithmeticOperators ==
    {"Add", "Subtract", "Multiply", "Divide", "FloorDivide", "Modulo", "Power"}
ComparisonOperators == {"Equal", "NotEqual", "LessThan", "LessThanEqual",
                        "GreaterThan", "GreaterThanEqual"}
BinaryOperators == ArithmeticOperators \cup ComparisonOperators \cup {"And", "Or"}

(* ast::Block.                                                             *)
Blocks == Seq(Statements)

ExpressionIsWellFormed(e) ==
    \/ e.kind = "Literal" /\ e.value \in LualikeValues
    \/ e.kind = "Variable" /\ e.name \in Names /\ e.span \in Nat
    \/ e.kind = "Unary" /\ e.op \in UnaryOperators /\ e.rhs \in Expressions
                        /\ e.span \in Nat
    \/ e.kind = "Binary" /\ e.op \in BinaryOperators /\ e.lhs \in Expressions
                         /\ e.rhs \in Expressions /\ e.span \in Nat
    \/ e.kind = "FunctionCall" /\ e.span \in Nat

StatementIsWellFormed(s) ==
    \/ s.kind = "VariableDeclaration" /\ s.name \in Names
                                      /\ s.initializer \in Seq(Expressions)
    \/ s.kind = "Assignment" /\ s.name \in Names /\ s.expr \in Expressions
                             /\ s.span \in Nat
    \/ s.kind = "IfStatement" /\ s.condition \in Expressions
                              /\ s.then \in Blocks /\ s.else \in Seq(Blocks)
    \/ s.kind = "ReturnStatement" /\ s.expression \in Seq(Expressions)
    \/ s.kind = "ExpressionStatement" /\ s.expression \in Seq(Expressions)
                                      /\ s.expression # <<>>
    \/ s.kind = "FunctionDeclaration"

ASSUME AstAssumption ==
    /\ \A e \in Expressions : ExpressionIsWellFormed(e)
    /\ \A s \in Statements : StatementIsWellFormed(s)
    /\ Programs \subseteq Blocks

ASSUME ScopeValuesAssumption == Values = LualikeValues

VARIABLES
    program,    \* the block being interpreted
    stack,      \* the active calls, innermost last
    scopes,     \* the live scopes, innermost last
    ret         \* what the last call that ended gave back

vars == <<program, stack, scopes, ret>>

----------------------------------------------------------------------------
ErrorKinds == OpErrKinds \cup {"UnknownVariable", "UnimplementedExpression"}

(* The Error thrown: its cause, and the span of the node it is blamed on.  *)
ErrorAt(kind, span) == <<"throw", [kind |-> kind, span |-> span]>>

BlockFrame(b) == [fn |-> "VisitBlock", rest |-> b]
StmtFrame(s) == [fn |-> "StmtVisitor", node |-> s]
ExprFrame(e) == [fn |-> "ExprVisitor", node |-> e, lhs |-> <<>>]

Top == stack[Len(stack)]
Below == SubSeq(stack, 1, Len(stack) - 1)

In(fn) == stack # <<>> /\ Top.fn = fn
AtExpr(kind) == In("ExprVisitor") /\ Top.node.kind = kind
AtStmt(kind) == In("StmtVisitor") /\ Top.node.kind = kind

Called == ret = <<"call">>
GotValue == ret[1] = "value"

(* The call on top ends and gives back r.                                  *)
Answer(r) == stack' = Below /\ ret' = r

(* The call on top calls another function, or ends by calling it.          *)
Call(frame) == stack' = Append(stack, frame) /\ ret' = <<"call">>
TailCall(frame) == stack' = Append(Below, frame) /\ ret' = <<"call">>

(* An operator's outcome: its value, or the LualikeValueOpErr wrapped by   *)
(* ExecuteWithForeignExceptionContext with the operation's own span.       *)
OutcomeAt(outcome, span) ==
    IF outcome[1] = "Throw" THEN ErrorAt(outcome[2], span)
    ELSE <<"value", outcome>>

IsTruthy(v) == v # Nil /\ v # Bool(FALSE)

----------------------------------------------------------------------------
(* ExprVisitor                                                             *)
UnaryOutcomes(op, v) == IF op = "Negate" THEN Negate(v) ELSE LogicalNot(v)

BinaryOutcomes(op, a, b) ==
    CASE op = "Add"              -> Add(a, b)
      [] op = "Subtract"         -> Subtract(a, b)
      [] op = "Multiply"         -> Multiply(a, b)
      [] op = "Divide"           -> Divide(a, b)
      [] op = "FloorDivide"      -> FloorDivide(a, b)
      [] op = "Modulo"           -> Modulo(a, b)
      [] op = "Power"            -> Exponentiate(a, b)
      [] op = "Equal"            -> {Bool(Equal(a, b))}
      [] op = "NotEqual"         -> {Bool(~Equal(a, b))}
      [] op = "LessThan"         -> {Bool(Less(a, b))}
      [] op = "LessThanEqual"    -> {Bool(LessOrEqual(a, b))}
      [] op = "GreaterThan"      -> {Bool(Less(b, a))}
      [] op = "GreaterThanEqual" -> {Bool(LessOrEqual(b, a))}

EvalLiteral ==
    /\ AtExpr("Literal") /\ Called
    /\ Answer(<<"value", Top.node.value>>)
    /\ UNCHANGED <<program, scopes>>

EvalVariable ==
    /\ AtExpr("Variable") /\ Called
    /\ LET v == Get(scopes, Top.node.name) IN
       Answer(IF v # Absent THEN <<"value", v>>
              ELSE ErrorAt("UnknownVariable", Top.node.span))
    /\ UNCHANGED <<program, scopes>>

(* Evaluates the operand of a unary, or the left operand of a binary.      *)
EvalFirstOperand ==
    /\ Called
    /\ \/ AtExpr("Unary") /\ Call(ExprFrame(Top.node.rhs))
       \/ AtExpr("Binary") /\ Call(ExprFrame(Top.node.lhs))
    /\ UNCHANGED <<program, scopes>>

ApplyUnary ==
    /\ AtExpr("Unary") /\ GotValue
    /\ \E outcome \in UnaryOutcomes(Top.node.op, ret[2]) :
           Answer(OutcomeAt(outcome, Top.node.span))
    /\ UNCHANGED <<program, scopes>>

(* Faulty: nil counts as true.                                             *)
FaultyDecides(op, v) ==
    IF op = "And" THEN v = Bool(FALSE) ELSE v # Bool(FALSE)

(* The operand that decides an `and` or an `or` on its own.                *)
Decides(op, v) == IF op = "And" THEN ~IsTruthy(v) ELSE IsTruthy(v)

IsLogical(op) == op \in {"And", "Or"}

ShortCircuit ==
    /\ AtExpr("Binary") /\ IsLogical(Top.node.op) /\ GotValue
    /\ IF Decides(Top.node.op, ret[2])
       THEN Answer(ret)
       ELSE TailCall(ExprFrame(Top.node.rhs))
    /\ UNCHANGED <<program, scopes>>

EvalRhs ==
    /\ AtExpr("Binary") /\ ~IsLogical(Top.node.op) /\ GotValue
    /\ Top.lhs = <<>>
    /\ stack' = Append(Append(Below, [Top EXCEPT !.lhs = <<ret[2]>>]),
                       ExprFrame(Top.node.rhs))
    /\ ret' = <<"call">>
    /\ UNCHANGED <<program, scopes>>

ApplyBinary ==
    /\ AtExpr("Binary") /\ ~IsLogical(Top.node.op) /\ GotValue
    /\ Top.lhs # <<>>
    /\ \E outcome \in BinaryOutcomes(Top.node.op, Top.lhs[1], ret[2]) :
           Answer(OutcomeAt(outcome, Top.node.span))
    /\ UNCHANGED <<program, scopes>>

(* Function calls are in the AST but have no visitor.                      *)
EvalUnimplemented ==
    /\ AtExpr("FunctionCall") /\ Called
    /\ Answer(ErrorAt("UnimplementedExpression", Top.node.span))
    /\ UNCHANGED <<program, scopes>>
----------------------------------------------------------------------------
(* StmtVisitor                                                             *)

(* The expression a statement evaluates before anything else, if any.      *)
FirstExpression(s) ==
    CASE s.kind = "VariableDeclaration" -> s.initializer
      [] s.kind = "Assignment"          -> <<s.expr>>
      [] s.kind = "IfStatement"         -> <<s.condition>>
      [] s.kind = "ReturnStatement"     -> s.expression
      [] s.kind = "ExpressionStatement" -> s.expression
      [] s.kind = "FunctionDeclaration" -> <<>>

EvalStatementExpression ==
    /\ In("StmtVisitor") /\ Called
    /\ FirstExpression(Top.node) # <<>>
    /\ Call(ExprFrame(FirstExpression(Top.node)[1]))
    /\ UNCHANGED <<program, scopes>>

(* `local x` and `x` alone: a default-constructed value is nil.            *)
DeclareNil ==
    /\ AtStmt("VariableDeclaration") /\ Called
    /\ Top.node.initializer = <<>>
    /\ scopes' = Set(scopes, Top.node.name, Nil)
    /\ Answer(<<"done">>)
    /\ UNCHANGED program

(* Faulty: a declaration goes to the root scope.                           *)
FaultyDeclare ==
    /\ AtStmt("VariableDeclaration") /\ GotValue
    /\ scopes' = [scopes EXCEPT ![1][Top.node.name] = ret[2]]
    /\ Answer(<<"done">>)
    /\ UNCHANGED program

Declare ==
    /\ AtStmt("VariableDeclaration") /\ GotValue
    /\ scopes' = Set(scopes, Top.node.name, ret[2])
    /\ Answer(<<"done">>)
    /\ UNCHANGED program

AssignExisting ==
    /\ AtStmt("Assignment") /\ GotValue
    /\ Get(scopes, Top.node.name) # Absent
    /\ scopes' = Set(scopes, Top.node.name, ret[2])
    /\ Answer(<<"done">>)
    /\ UNCHANGED program

AssignUnknown ==
    /\ AtStmt("Assignment") /\ GotValue
    /\ Get(scopes, Top.node.name) = Absent
    /\ Answer(ErrorAt("UnknownVariable", Top.node.span))
    /\ UNCHANGED <<program, scopes>>

(* The block that runs for a condition, if any.                            *)
Branch(s, condition) ==
    IF IsTruthy(condition) THEN <<s.then>> ELSE s.else

(* What the branch gives back is what the if statement gives back, so the  *)
(* branch's frame takes the place of the statement's.  VisitBlock makes    *)
(* its scope first.                                                        *)
RunBranch ==
    /\ AtStmt("IfStatement") /\ GotValue
    /\ LET branch == Branch(Top.node, ret[2]) IN
       \/ /\ branch # <<>>
          /\ stack' = Append(Below, BlockFrame(branch[1]))
          /\ scopes' = Enter(scopes)
          /\ ret' = <<"done">>
       \/ /\ branch = <<>>
          /\ Answer(<<"done">>)
          /\ UNCHANGED scopes
    /\ UNCHANGED program

(* A return without an expression gives back nullopt, exactly like a       *)
(* statement that is not a return.                                         *)
ReturnNothing ==
    /\ AtStmt("ReturnStatement") /\ Called
    /\ Top.node.expression = <<>>
    /\ Answer(<<"done">>)
    /\ UNCHANGED <<program, scopes>>

ReturnValue ==
    /\ AtStmt("ReturnStatement") /\ GotValue
    /\ Answer(<<"return", ret[2]>>)
    /\ UNCHANGED <<program, scopes>>

DiscardValue ==
    /\ AtStmt("ExpressionStatement") /\ GotValue
    /\ Answer(<<"done">>)
    /\ UNCHANGED <<program, scopes>>

SkipFunctionDeclaration ==
    /\ AtStmt("FunctionDeclaration") /\ Called
    /\ Answer(<<"done">>)
    /\ UNCHANGED <<program, scopes>>

----------------------------------------------------------------------------
(* VisitBlock, and Interpret around it                                     *)

(* Interpret visits the program with a new root scope; VisitBlock makes    *)
(* the inner scope that the statements run in.                             *)
StartProgram ==
    /\ stack = <<>> /\ Called
    /\ stack' = <<BlockFrame(program)>>
    /\ scopes' = Enter(scopes)
    /\ ret' = <<"done">>
    /\ UNCHANGED program

(* Faulty: a value given back by a statement does not stop the block.      *)
FaultyBlockGoesOn == ret[1] \in {"done", "return"}

(* A block goes on while its statements give back nullopt.                 *)
BlockGoesOn == ret = <<"done">>

(* Faulty: the loop over the statements does not advance.                  *)
FaultyNextStatement ==
    /\ In("VisitBlock") /\ BlockGoesOn
    /\ Top.rest # <<>>
    /\ Call(StmtFrame(Head(Top.rest)))
    /\ UNCHANGED <<program, scopes>>

NextStatement ==
    /\ In("VisitBlock") /\ BlockGoesOn
    /\ Top.rest # <<>>
    /\ stack' = Append(Append(Below, BlockFrame(Tail(Top.rest))),
                       StmtFrame(Head(Top.rest)))
    /\ ret' = <<"call">>
    /\ UNCHANGED <<program, scopes>>

BlockEnds ==
    \/ ret[1] \in {"return", "throw"}
    \/ ret = <<"done">> /\ Top.rest = <<>>

(* Faulty: the scope goes only when the block runs out of statements.      *)
FaultyEndBlock ==
    /\ In("VisitBlock") /\ BlockEnds
    /\ scopes' = IF ret = <<"done">> THEN Leave(scopes) ELSE scopes
    /\ Answer(ret)
    /\ UNCHANGED program

(* However the block ends, its scope goes.                                 *)
EndBlock ==
    /\ In("VisitBlock") /\ BlockEnds
    /\ scopes' = Leave(scopes)
    /\ Answer(ret)
    /\ UNCHANGED program

(* An Error thrown by a callee leaves the visitors at once and as it is:   *)
(* only operators run under ExecuteWithForeignExceptionContext, and it     *)
(* throws an Error on unchanged.                                           *)
Unwind ==
    /\ In("ExprVisitor") \/ In("StmtVisitor")
    /\ ret[1] = "throw"
    /\ Answer(ret)
    /\ UNCHANGED <<program, scopes>>

Finished == stack = <<>> /\ ~Called

(* Interpret has returned; nothing more happens.                           *)
Terminated == Finished /\ UNCHANGED vars

Init ==
    /\ program \in Programs
    /\ stack = <<>>
    /\ scopes = <<EmptyScope>>
    /\ ret = <<"call">>

ExprStep ==
    \/ EvalLiteral \/ EvalVariable \/ EvalFirstOperand \/ ApplyUnary
    \/ ShortCircuit \/ EvalRhs \/ ApplyBinary \/ EvalUnimplemented

StmtStep ==
    \/ EvalStatementExpression \/ DeclareNil \/ Declare
    \/ AssignExisting \/ AssignUnknown \/ RunBranch
    \/ ReturnNothing \/ ReturnValue \/ DiscardValue \/ SkipFunctionDeclaration

BlockStep == StartProgram \/ NextStatement \/ EndBlock

Next == ExprStep \/ StmtStep \/ BlockStep \/ Unwind \/ Terminated

Spec == Init /\ [][Next]_vars

(* The program is sequential: a C++ function that can go on does.          *)
FairSpec == Spec /\ WF_vars(Next)

----------------------------------------------------------------------------
(* Every register and every frame holds what its C++ counterpart can.      *)
Results ==
    {<<"call">>, <<"done">>}
        \cup ({"value", "return"} \X LualikeValues)
        \cup ({"throw"} \X [kind : ErrorKinds, span : Nat])

Frames ==
    [fn : {"VisitBlock"}, rest : Blocks]
        \cup [fn : {"StmtVisitor"}, node : Statements]
        \cup [fn : {"ExprVisitor"}, node : Expressions, lhs : Seq(LualikeValues)]

TypeOK ==
    /\ program \in Programs
    /\ stack \in Seq(Frames)
    /\ scopes \in Seq(Bindings)
    /\ ret \in Results

(* One scope is alive for the root and one for every active VisitBlock,    *)
(* also while an error or a returned value is on its way out.              *)
BlockFrames == {i \in 1..Len(stack) : stack[i].fn = "VisitBlock"}

ScopeDiscipline == Len(scopes) = 1 + Cardinality(BlockFrames)

(* A returned value and an error go straight out: no further statement or  *)
(* operand runs, the value or error is not replaced, and the variables of  *)
(* the scopes that survive are not touched.                                *)
ReturnAndThrowAreFinal ==
    [][ret[1] \in {"return", "throw"} =>
           /\ ret' = ret
           /\ stack' = Below
           /\ scopes' = SubSeq(scopes, 1, Len(scopes'))]_vars

(* The evaluator uses the scopes only as LualikeScopeChain allows.         *)
Chain == INSTANCE LualikeScopeChain WITH chain <- scopes

UsesScopeChain == Chain!Spec

(* The language has no loops and no calls: every program ends.             *)
Termination == <>Finished
====
