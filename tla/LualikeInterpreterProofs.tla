---- MODULE LualikeInterpreterProofs ----
(***************************************************************************)
(* Theorems of LualikeInterpreter for every program over every set of      *)
(* names and every width of the number types.  The scopes are those of     *)
(* LualikeScopeChain, so its invariant holds of them as soon as each step  *)
(* is a step of the chain; that in turn needs the call stack to be rooted  *)
(* in a block (no statement runs in the root scope) and the values to be   *)
(* closed under the operators.  The results are those of the rules of      *)
(* LualikeSemantics: every state is an unfinished derivation by them.      *)
(***************************************************************************)
EXTENDS LualikeSemantics, LualikeValueProofs, FiniteSetTheorems,
        SequenceTheorems

Scoping == INSTANCE LualikeScopeProofs WITH chain <- scopes

----------------------------------------------------------------------------
(* Stacks as values.                                                       *)
BlocksOf(s) == {i \in 1..Len(s) : s[i].fn = "VisitBlock"}
Pop(s) == SubSeq(s, 1, Len(s) - 1)
Last(s) == s[Len(s)]

(* Below every statement and expression there is a block.                  *)
StackOK(s) == s \in Seq(Frames) /\ (s # <<>> => s[1].fn = "VisitBlock")

LEMMA BlocksOfFinite ==
    ASSUME NEW s \in Seq(Frames)
    PROVE  /\ IsFiniteSet(BlocksOf(s))
           /\ Cardinality(BlocksOf(s)) \in Nat
<1>1. IsFiniteSet(1..Len(s))
  BY FS_Interval
<1>2. IsFiniteSet(BlocksOf(s))
  BY <1>1, FS_Subset DEF BlocksOf
<1> QED
  BY <1>2, FS_CardinalityType

(* A call pushes its frame.                                                *)
LEMMA PushFrame ==
    ASSUME NEW s, StackOK(s), NEW f \in Frames,
           s = <<>> => f.fn = "VisitBlock"
    PROVE  /\ StackOK(Append(s, f))
           /\ Append(s, f) # <<>>
           /\ f.fn # "VisitBlock" => BlocksOf(Append(s, f)) = BlocksOf(s)
           /\ f.fn = "VisitBlock" =>
                Cardinality(BlocksOf(Append(s, f))) = Cardinality(BlocksOf(s)) + 1
<1> DEFINE t == Append(s, f)
<1>1. /\ s \in Seq(Frames)
      /\ Len(s) \in Nat
  BY DEF StackOK
<1>2. /\ t \in Seq(Frames)
      /\ Len(t) = Len(s) + 1
      /\ \A i \in 1..Len(s) : t[i] = s[i]
      /\ t[Len(s) + 1] = f
  BY <1>1
<1> HIDE DEF t
<1>3. t[1].fn = "VisitBlock"
  BY <1>1, <1>2 DEF StackOK
<1>4. f.fn # "VisitBlock" => BlocksOf(t) = BlocksOf(s)
  BY <1>1, <1>2 DEF BlocksOf
<1>5. ASSUME f.fn = "VisitBlock"
      PROVE  Cardinality(BlocksOf(t)) = Cardinality(BlocksOf(s)) + 1
  <2>1. BlocksOf(t) = BlocksOf(s) \cup {Len(s) + 1}
    BY <1>1, <1>2, <1>5 DEF BlocksOf
  <2>2. Len(s) + 1 \notin BlocksOf(s)
    BY <1>1 DEF BlocksOf
  <2> QED
    BY <1>1, <2>1, <2>2, BlocksOfFinite, FS_AddElement
<1>6. t # <<>>
  BY <1>1, <1>2
<1> QED
  BY <1>2, <1>3, <1>4, <1>5, <1>6 DEF StackOK, t

(* All but the last element of a sequence.                                 *)
LEMMA PopSequence ==
    ASSUME NEW S, NEW s \in Seq(S), Len(s) > 0
    PROVE  /\ Pop(s) \in Seq(S)
           /\ Len(Pop(s)) = Len(s) - 1
           /\ \A i \in 1..(Len(s) - 1) : Pop(s)[i] = s[i]
<1> DEFINE n == Len(s) - 1
<1>1. 1 \in Int /\ n \in Nat /\ \A i \in 1..n : s[i] \in S
  OBVIOUS
<1>2. Pop(s) = SubSeq(s, 1, n)
  BY DEF Pop
<1> HIDE DEF n
<1>3. /\ SubSeq(s, 1, n) \in Seq(S)
      /\ Len(SubSeq(s, 1, n)) = IF 1 <= n THEN n - 1 + 1 ELSE 0
      /\ \A i \in 1..n - 1 + 1 : SubSeq(s, 1, n)[i] = s[1 + i - 1]
  BY <1>1, SubSeqProperties
<1>4. Len(Pop(s)) = n
  BY <1>1, <1>2, <1>3
<1>5. \A i \in 1..n : Pop(s)[i] = s[i]
  BY <1>1, <1>2, <1>3
<1> QED
  BY <1>2, <1>3, <1>4, <1>5 DEF n

(* The end of a call drops its frame.                                      *)
LEMMA PopFrame ==
    ASSUME NEW s, StackOK(s), s # <<>>
    PROVE  /\ StackOK(Pop(s))
           /\ Last(s) \in Frames
           /\ Last(s).fn # "VisitBlock" =>
                Pop(s) # <<>> /\ BlocksOf(Pop(s)) = BlocksOf(s)
           /\ Last(s).fn = "VisitBlock" =>
                Cardinality(BlocksOf(s)) = Cardinality(BlocksOf(Pop(s))) + 1
<1> DEFINE t == Pop(s)
<1>1. /\ s \in Seq(Frames)
      /\ Len(s) \in Nat
      /\ Len(s) > 0
  BY DEF StackOK
<1>2. /\ t \in Seq(Frames)
      /\ Len(t) = Len(s) - 1
      /\ \A i \in 1..(Len(s) - 1) : t[i] = s[i]
  BY <1>1, PopSequence
<1> HIDE DEF t
<1>3. t # <<>> => t[1].fn = "VisitBlock"
  BY <1>1, <1>2 DEF StackOK
<1>4. Last(s) \in Frames
  BY <1>1 DEF Last
<1>5. ASSUME Last(s).fn # "VisitBlock"
      PROVE  t # <<>> /\ BlocksOf(t) = BlocksOf(s)
  <2>1. Len(s) # 1
    BY <1>1, <1>5 DEF StackOK, Last
  <2>2. t # <<>>
    BY <1>1, <1>2, <2>1
  <2> QED
    BY <1>1, <1>2, <1>5, <2>2 DEF BlocksOf, Last
<1>6. ASSUME Last(s).fn = "VisitBlock"
      PROVE  Cardinality(BlocksOf(s)) = Cardinality(BlocksOf(t)) + 1
  <2>1. BlocksOf(s) = BlocksOf(t) \cup {Len(s)}
    BY <1>1, <1>2, <1>6 DEF BlocksOf, Last
  <2>2. Len(s) \notin BlocksOf(t)
    BY <1>1, <1>2 DEF BlocksOf
  <2>3. IsFiniteSet(BlocksOf(t))
    BY <1>2, BlocksOfFinite
  <2> QED
    BY <2>1, <2>2, <2>3, FS_AddElement
<1> QED
  BY <1>2, <1>3, <1>4, <1>5, <1>6 DEF StackOK, t
----------------------------------------------------------------------------
(* Frames and results.                                                     *)
LEMMA FramesOfNodes ==
    /\ \A b \in Blocks : BlockFrame(b) \in Frames
    /\ \A s \in Statements : StmtFrame(s) \in Frames
    /\ \A e \in Expressions : ExprFrame(e) \in Frames
BY DEF BlockFrame, StmtFrame, ExprFrame, Frames

LEMMA PartsOfFrames ==
    ASSUME NEW f \in Frames
    PROVE  /\ f.fn = "VisitBlock" => f.rest \in Blocks
           /\ f.fn = "StmtVisitor" =>
                f.node \in Statements /\ StatementIsWellFormed(f.node)
           /\ f.fn = "ExprVisitor" =>
                /\ f.node \in Expressions /\ ExpressionIsWellFormed(f.node)
                /\ f.lhs \in Seq(LualikeValues)
                /\ \A v \in LualikeValues : [f EXCEPT !.lhs = <<v>>] \in Frames
<1>1. CASE f \in [fn : {"VisitBlock"}, rest : Blocks]
  BY <1>1
<1>2. CASE f \in [fn : {"StmtVisitor"}, node : Statements]
  BY <1>2, AstAssumption
<1>3. CASE f \in [fn : {"ExprVisitor"}, node : Expressions, lhs : Seq(LualikeValues)]
  <2>1. /\ f.fn = "ExprVisitor"
        /\ f.node \in Expressions
        /\ f.lhs \in Seq(LualikeValues)
    BY <1>3
  <2>2. ExpressionIsWellFormed(f.node)
    BY <2>1, AstAssumption
  <2>3. ASSUME NEW v \in LualikeValues
        PROVE  [f EXCEPT !.lhs = <<v>>] \in Frames
    <3>1. <<v>> \in Seq(LualikeValues)
      OBVIOUS
    <3> QED
      BY <1>3, <3>1 DEF Frames
  <2> QED
    BY <2>1, <2>2, <2>3
<1> QED
  BY <1>1, <1>2, <1>3 DEF Frames

LEMMA ResultsOfEachKind ==
    /\ <<"call">> \in Results /\ <<"done">> \in Results
    /\ \A v \in LualikeValues : <<"value", v>> \in Results
    /\ \A v \in LualikeValues : <<"return", v>> \in Results
    /\ \A k \in ErrorKinds : \A p \in Nat : ErrorAt(k, p) \in Results
BY DEF Results, ErrorAt

LEMMA ValueOfResult ==
    ASSUME NEW r \in Results, r[1] = "value"
    PROVE  r[2] \in LualikeValues
BY DEF Results

LEMMA OutcomeIsResult ==
    ASSUME NEW o \in Outcomes, NEW p \in Nat
    PROVE  OutcomeAt(o, p) \in Results
<1>1. CASE o[1] = "Throw"
  <2>1. o[2] \in ErrorKinds
    BY <1>1, OutcomeKinds DEF ErrorKinds
  <2> QED
    BY <1>1, <2>1, ResultsOfEachKind DEF OutcomeAt
<1>2. CASE o[1] # "Throw"
  BY <1>2, OutcomeKinds, ResultsOfEachKind DEF OutcomeAt
<1> QED
  BY <1>1, <1>2

(* What an operation of the AST can give.                                  *)
LEMMA UnaryOutcomesClosed ==
    ASSUME NEW op \in UnaryOperators, NEW v \in LualikeValues
    PROVE  UnaryOutcomes(op, v) \subseteq Outcomes
BY UnaryOperatorOutcomes DEF UnaryOutcomes, UnaryOperators

LEMMA ComparisonsClosed ==
    ASSUME NEW p \in BOOLEAN
    PROVE  {Bool(p)} \subseteq Outcomes
BY PartsOfValues DEF Bool, Bools, Outcomes

LEMMA BinaryOutcomesClosed ==
    ASSUME NEW op \in BinaryOperators, ~IsLogical(op),
           NEW a \in LualikeValues, NEW b \in LualikeValues
    PROVE  BinaryOutcomes(op, a, b) \subseteq Outcomes
<1>1. CASE op \in ArithmeticOperators
  BY <1>1, RingOutcomes, DivisionOutcomes DEF BinaryOutcomes, ArithmeticOperators
<1>2. CASE op \in ComparisonOperators
  <2>1. /\ Equal(a, b) \in BOOLEAN
        /\ (~Equal(a, b)) \in BOOLEAN
        /\ Less(a, b) \in BOOLEAN
        /\ LessOrEqual(a, b) \in BOOLEAN
        /\ Less(b, a) \in BOOLEAN
        /\ LessOrEqual(b, a) \in BOOLEAN
    BY DEF Equal, Less, LessOrEqual
  <2>2. /\ {Bool(Equal(a, b))} \subseteq Outcomes
        /\ {Bool(~Equal(a, b))} \subseteq Outcomes
        /\ {Bool(Less(a, b))} \subseteq Outcomes
        /\ {Bool(LessOrEqual(a, b))} \subseteq Outcomes
        /\ {Bool(Less(b, a))} \subseteq Outcomes
        /\ {Bool(LessOrEqual(b, a))} \subseteq Outcomes
    BY <2>1, ComparisonsClosed
  <2> QED
    BY <1>2, <2>2 DEF BinaryOutcomes, ComparisonOperators
<1> QED
  BY <1>1, <1>2 DEF BinaryOperators, IsLogical

----------------------------------------------------------------------------
(* The inductive invariant.                                                *)
BlockCount(s) == Cardinality(BlocksOf(s))

InterpreterInv ==
    /\ TypeOK
    /\ StackOK(stack)
    /\ ScopeDiscipline
    /\ Scoping!ScopeInv

(* The scope operators mean the same in the module of the scope theorems.  *)
LEMMA SameOperators ==
    /\ Scoping!Bindings = Bindings
    /\ Scoping!EmptyScope = EmptyScope
    /\ \A c, n : Scoping!Holders(c, n) = Holders(c, n)
    /\ \A c, n : Scoping!Nearest(c, n) = Nearest(c, n)
    /\ \A c, n : Scoping!SetIndex(c, n) = SetIndex(c, n)
    /\ \A c, n, v : Scoping!Set(c, n, v) = Set(c, n, v)
    /\ \A c : Scoping!Enter(c) = Enter(c)
    /\ \A c : Scoping!Leave(c) = Leave(c)
<1>1. /\ Scoping!Bindings = Bindings
      /\ Scoping!EmptyScope = EmptyScope
  BY DEF Scoping!Bindings, Bindings, Scoping!EmptyScope, EmptyScope
<1>2. \A c, n : Scoping!Holders(c, n) = Holders(c, n)
  BY DEF Scoping!Holders, Holders
<1>3. \A c, n : Scoping!Nearest(c, n) = Nearest(c, n)
  BY DEF Scoping!Nearest, Nearest, Scoping!Holders, Holders
<1>4. \A c, n : Scoping!SetIndex(c, n) = SetIndex(c, n)
  BY <1>2, <1>3 DEF Scoping!SetIndex, SetIndex
<1>5. \A c, n, v : Scoping!Set(c, n, v) = Set(c, n, v)
  BY <1>4 DEF Scoping!Set, Set
<1>6. \A c : Scoping!Enter(c) = Enter(c)
  BY <1>1 DEF Scoping!Enter, Enter
<1>7. \A c : Scoping!Leave(c) = Leave(c)
  BY DEF Scoping!Leave, Leave
<1> QED
  BY <1>1, <1>2, <1>3, <1>4, <1>5, <1>6, <1>7

(* What the invariant of the chain says of the scopes.                     *)
LEMMA ScopesFacts ==
    ASSUME InterpreterInv
    PROVE  /\ scopes \in Seq(Bindings)
           /\ Len(scopes) > 0
           /\ Scoping!OneHolder(scopes)
BY SameOperators
   DEF InterpreterInv, Scoping!ScopeInv, Scoping!TypeOK, Scoping!SingleBinding,
       Scoping!OneHolder

(* A name that is bound is bound to a value.                               *)
LEMMA GetGivesValue ==
    ASSUME InterpreterInv, NEW n \in Names, Get(scopes, n) # Absent
    PROVE  Get(scopes, n) \in LualikeValues
<1>1. PICK i \in Holders(scopes, n) : TRUE
  BY DEF Get
<1>2. Nearest(scopes, n) = i
  <2>1. Scoping!OneHolder(scopes)
    BY ScopesFacts
  <2>2. i \in Scoping!Holders(scopes, n)
    BY <1>1, SameOperators
  <2>3. Scoping!Nearest(scopes, n) = i
    BY <2>1, <2>2, Scoping!NearestIsTheHolder, AbsentAssumption
  <2> QED
    BY <2>3, SameOperators
<1>3. scopes[i] \in Bindings
  BY <1>1, ScopesFacts DEF Holders
<1>4. scopes[i][n] \in Values
  BY <1>1, <1>3 DEF Bindings, Holders
<1> QED
  BY <1>1, <1>2, <1>4, ScopeValuesAssumption DEF Get

(* A statement or expression runs in a scope that is not the root.         *)
LEMMA RunsInABlock ==
    ASSUME InterpreterInv, stack # <<>>
    PROVE  Len(scopes) > 1 /\ BlockCount(stack) > 0
<1>1. 1 \in BlocksOf(stack)
  BY DEF InterpreterInv, StackOK, BlocksOf
<1>2. BlockCount(stack) # 0 /\ BlockCount(stack) \in Nat
  BY <1>1, BlocksOfFinite, FS_EmptySet DEF InterpreterInv, StackOK, BlockCount
<1>3. Len(scopes) = 1 + BlockCount(stack)
  BY DEF InterpreterInv, ScopeDiscipline, BlockFrames, BlockCount, BlocksOf
<1> QED
  BY <1>2, <1>3

----------------------------------------------------------------------------
(* What every step does, as far as the invariant is concerned.             *)
VisitorStep ==
    /\ StackOK(stack')
    /\ BlockCount(stack') = BlockCount(stack)

StepShape ==
    /\ program' = program
    /\ StackOK(stack')
    /\ ret' \in Results
    /\ \/ /\ BlockCount(stack') = BlockCount(stack)
          /\ \/ scopes' = scopes
             \/ \E n \in Names, v \in Values : Scoping!Assign(n, v)
       \/ /\ BlockCount(stack') = BlockCount(stack) + 1
          /\ Scoping!EnterBlock
       \/ /\ BlockCount(stack) = BlockCount(stack') + 1
          /\ Scoping!LeaveBlock

Visitors == {"ExprVisitor", "StmtVisitor"}

(* The frame of a visitor, and what is below it.                           *)
LEMMA VisitorOnTop ==
    ASSUME StackOK(stack), NEW fn \in Visitors, In(fn)
    PROVE  /\ stack # <<>>
           /\ Top \in Frames
           /\ Top.fn = fn
           /\ StackOK(Below)
           /\ Below # <<>>
           /\ BlockCount(Below) = BlockCount(stack)
<1>1. stack # <<>> /\ Top.fn = fn /\ fn # "VisitBlock"
  BY DEF In, Visitors
<1>2. Top = Last(stack) /\ Below = Pop(stack)
  BY DEF Top, Below, Last, Pop
<1>3. Last(stack) \in Frames /\ Last(stack).fn # "VisitBlock"
  BY <1>1, <1>2, PopFrame
<1> QED
  BY <1>1, <1>2, <1>3, PopFrame DEF BlockCount

(* Visitors end, call other visitors and are replaced by them.             *)
LEMMA PushVisitor ==
    ASSUME NEW s, StackOK(s), s # <<>>, NEW f \in Frames, f.fn \in Visitors
    PROVE  /\ StackOK(Append(s, f))
           /\ Append(s, f) # <<>>
           /\ BlockCount(Append(s, f)) = BlockCount(s)
BY PushFrame DEF BlockCount, Visitors

LEMMA VisitorMoves ==
    ASSUME StackOK(stack), NEW fn \in Visitors, In(fn),
           NEW f \in Frames, f.fn \in Visitors,
           NEW g \in Frames, g.fn \in Visitors,
           \/ stack' = Below
           \/ stack' = Append(stack, f)
           \/ stack' = Append(Below, f)
           \/ stack' = Append(Append(Below, f), g)
    PROVE  VisitorStep
BY VisitorOnTop, PushVisitor DEF VisitorStep

LEMMA ExprFrameOf ==
    ASSUME NEW e \in Expressions
    PROVE  ExprFrame(e) \in Frames /\ ExprFrame(e).fn \in Visitors
BY FramesOfNodes DEF ExprFrame, Visitors

LEMMA VisitorAnswers ==
    ASSUME StackOK(stack), NEW fn \in Visitors, In(fn), stack' = Below
    PROVE  VisitorStep
BY VisitorOnTop DEF VisitorStep

LEMMA VisitorCalls ==
    ASSUME StackOK(stack), NEW fn \in Visitors, In(fn), NEW e \in Expressions,
           \/ stack' = Append(stack, ExprFrame(e))
           \/ stack' = Append(Below, ExprFrame(e))
    PROVE  VisitorStep
BY VisitorOnTop, PushVisitor, ExprFrameOf DEF VisitorStep

----------------------------------------------------------------------------
(* The steps of ExprVisitor.                                               *)
LEMMA ExprStepShape ==
    ASSUME InterpreterInv, ExprStep
    PROVE  StepShape
<1> DEFINE Fits == VisitorStep /\ ret' \in Results
<1>1. StackOK(stack) /\ ret \in Results
  BY DEF InterpreterInv, TypeOK
<1>2. UNCHANGED <<program, scopes>>
  BY DEF ExprStep, EvalLiteral, EvalVariable, EvalFirstOperand, ApplyUnary,
         ShortCircuit, EvalRhs, ApplyBinary, EvalUnimplemented
<1>3. In("ExprVisitor") /\ "ExprVisitor" \in Visitors
  BY DEF ExprStep, EvalLiteral, EvalVariable, EvalFirstOperand, ApplyUnary,
         ShortCircuit, EvalRhs, ApplyBinary, EvalUnimplemented, AtExpr, Visitors
<1>4. /\ Top \in Frames
      /\ Top.fn = "ExprVisitor"
      /\ Top.node \in Expressions
      /\ ExpressionIsWellFormed(Top.node)
      /\ Top.lhs \in Seq(LualikeValues)
      /\ \A v \in LualikeValues : [Top EXCEPT !.lhs = <<v>>] \in Frames
  BY <1>1, <1>3, VisitorOnTop, PartsOfFrames
<1>5. GotValue => ret[2] \in LualikeValues
  BY <1>1, ValueOfResult DEF GotValue
<1>6. <<"call">> \in Results
  BY ResultsOfEachKind
<1>7. ASSUME EvalLiteral PROVE Fits
  <2>1. stack' = Below /\ ret' = <<"value", Top.node.value>>
    BY <1>7 DEF EvalLiteral, Answer
  <2>2. Top.node.value \in LualikeValues
    BY <1>4, <1>7 DEF EvalLiteral, AtExpr, ExpressionIsWellFormed
  <2> QED
    BY <1>1, <1>3, <2>1, <2>2, VisitorAnswers, ResultsOfEachKind
<1>8. ASSUME EvalVariable PROVE Fits
  <2> DEFINE v == Get(scopes, Top.node.name)
  <2>1. /\ stack' = Below
        /\ ret' = IF v # Absent THEN <<"value", v>>
                  ELSE ErrorAt("UnknownVariable", Top.node.span)
    BY <1>8 DEF EvalVariable, Answer
  <2>2. Top.node.name \in Names /\ Top.node.span \in Nat
    BY <1>4, <1>8 DEF EvalVariable, AtExpr, ExpressionIsWellFormed
  <2>3. v # Absent => v \in LualikeValues
    BY <2>2, GetGivesValue
  <2>4. ErrorAt("UnknownVariable", Top.node.span) \in Results
    BY <2>2, ResultsOfEachKind DEF ErrorKinds
  <2> HIDE DEF v
  <2>5. ret' \in Results
    BY <2>1, <2>3, <2>4, ResultsOfEachKind
  <2> QED
    BY <1>1, <1>3, <2>1, <2>5, VisitorAnswers
<1>9. ASSUME EvalFirstOperand PROVE Fits
  <2>1. PICK e \in Expressions :
            stack' = Append(stack, ExprFrame(e)) /\ ret' = <<"call">>
    BY <1>4, <1>9 DEF EvalFirstOperand, AtExpr, Call, ExpressionIsWellFormed
  <2> QED
    BY <1>1, <1>3, <1>6, <2>1, VisitorCalls
<1>10. ASSUME ApplyUnary PROVE Fits
  <2>1. /\ Top.node.op \in UnaryOperators
        /\ Top.node.span \in Nat
        /\ ret[2] \in LualikeValues
    BY <1>4, <1>5, <1>10 DEF ApplyUnary, AtExpr, ExpressionIsWellFormed
  <2>2. PICK o \in UnaryOutcomes(Top.node.op, ret[2]) :
            stack' = Below /\ ret' = OutcomeAt(o, Top.node.span)
    BY <1>10 DEF ApplyUnary, Answer
  <2>3. o \in Outcomes
    BY <2>1, <2>2, UnaryOutcomesClosed
  <2>4. ret' \in Results
    BY <2>1, <2>2, <2>3, OutcomeIsResult
  <2> QED
    BY <1>1, <1>3, <2>2, <2>4, VisitorAnswers
<1>11. ASSUME ShortCircuit PROVE Fits
  <2>1. CASE stack' = Below /\ ret' = ret
    BY <1>1, <1>3, <2>1, VisitorAnswers
  <2>2. CASE stack' = Append(Below, ExprFrame(Top.node.rhs)) /\ ret' = <<"call">>
    <3>1. Top.node.rhs \in Expressions
      BY <1>4, <1>11 DEF ShortCircuit, AtExpr, ExpressionIsWellFormed
    <3> QED
      BY <1>1, <1>3, <1>6, <2>2, <3>1, VisitorCalls
  <2> QED
    BY <1>11, <2>1, <2>2 DEF ShortCircuit, Answer, TailCall
<1>12. ASSUME EvalRhs PROVE Fits
  <2> DEFINE f == [Top EXCEPT !.lhs = <<ret[2]>>]
             g == ExprFrame(Top.node.rhs)
  <2>1. stack' = Append(Append(Below, f), g) /\ ret' = <<"call">>
    BY <1>12 DEF EvalRhs
  <2>2. f \in Frames
    BY <1>4, <1>5, <1>12 DEF EvalRhs
  <2>3. f.fn = Top.fn
    BY <1>4 DEF Frames
  <2>4. Top.node.rhs \in Expressions
    BY <1>4, <1>12 DEF EvalRhs, AtExpr, ExpressionIsWellFormed
  <2>5. g \in Frames /\ g.fn \in Visitors
    BY <2>4, ExprFrameOf
  <2> HIDE DEF f, g
  <2>6. f.fn \in Visitors
    BY <1>3, <1>4, <2>3
  <2> QED
    BY <1>1, <1>3, <1>6, <2>1, <2>2, <2>5, <2>6, VisitorMoves
<1>13. ASSUME ApplyBinary PROVE Fits
  <2>1. /\ Top.node.op \in BinaryOperators
        /\ ~IsLogical(Top.node.op)
        /\ Top.node.span \in Nat
        /\ ret[2] \in LualikeValues
    BY <1>4, <1>5, <1>13 DEF ApplyBinary, AtExpr, ExpressionIsWellFormed
  <2>2. Top.lhs # <<>>
    BY <1>13 DEF ApplyBinary
  <2>3. Top.lhs[1] \in LualikeValues
    BY <1>4, <2>2
  <2>4. PICK o \in BinaryOutcomes(Top.node.op, Top.lhs[1], ret[2]) :
            stack' = Below /\ ret' = OutcomeAt(o, Top.node.span)
    BY <1>13 DEF ApplyBinary, Answer
  <2>5. o \in Outcomes
    BY <2>1, <2>3, <2>4, BinaryOutcomesClosed
  <2>6. ret' \in Results
    BY <2>1, <2>4, <2>5, OutcomeIsResult
  <2> QED
    BY <1>1, <1>3, <2>4, <2>6, VisitorAnswers
<1>14. ASSUME EvalUnimplemented PROVE Fits
  <2>1. stack' = Below /\ ret' = ErrorAt("UnimplementedExpression", Top.node.span)
    BY <1>14 DEF EvalUnimplemented, Answer
  <2>2. Top.node.span \in Nat
    BY <1>4, <1>14 DEF EvalUnimplemented, AtExpr, ExpressionIsWellFormed
  <2>3. ret' \in Results
    BY <2>1, <2>2, ResultsOfEachKind DEF ErrorKinds
  <2> QED
    BY <1>1, <1>3, <2>1, <2>3, VisitorAnswers
<1>15. Fits
  BY <1>7, <1>8, <1>9, <1>10, <1>11, <1>12, <1>13, <1>14 DEF ExprStep
<1> QED
  BY <1>2, <1>15 DEF StepShape, VisitorStep

----------------------------------------------------------------------------
(* The steps of StmtVisitor.                                               *)
LEMMA FirstExpressionInExpressions ==
    ASSUME NEW s \in Statements, FirstExpression(s) # <<>>
    PROVE  FirstExpression(s)[1] \in Expressions
<1>1. StatementIsWellFormed(s)
  BY AstAssumption
<1>2. FirstExpression(s) \in Seq(Expressions)
  BY <1>1 DEF StatementIsWellFormed, FirstExpression
<1> QED
  BY <1>2

(* A statement that writes a name takes a step of the chain.               *)
LEMMA WriteStep ==
    ASSUME InterpreterInv, stack # <<>>,
           NEW n \in Names, NEW v \in LualikeValues, scopes' = Set(scopes, n, v)
    PROVE  \E m \in Names, w \in Values : Scoping!Assign(m, w)
<1>1. Len(scopes) > 1
  BY RunsInABlock
<1>2. scopes' = Scoping!Set(scopes, n, v)
  BY SameOperators
<1>3. Scoping!Assign(n, v)
  BY <1>1, <1>2 DEF Scoping!Assign
<1> QED
  BY <1>3, ScopeValuesAssumption

LEMMA EnterStep ==
    ASSUME scopes' = Enter(scopes)
    PROVE  Scoping!EnterBlock
BY SameOperators DEF Scoping!EnterBlock

LEMMA StmtStepShape ==
    ASSUME InterpreterInv, StmtStep
    PROVE  StepShape
<1>1. StackOK(stack) /\ ret \in Results
  BY DEF InterpreterInv, TypeOK
<1>2. program' = program
  BY DEF StmtStep, EvalStatementExpression, DeclareNil, Declare, AssignExisting,
         AssignUnknown, RunBranch, ReturnNothing, ReturnValue, DiscardValue,
         SkipFunctionDeclaration
<1>3. In("StmtVisitor") /\ "StmtVisitor" \in Visitors
  BY DEF StmtStep, EvalStatementExpression, DeclareNil, Declare, AssignExisting,
         AssignUnknown, RunBranch, ReturnNothing, ReturnValue, DiscardValue,
         SkipFunctionDeclaration, AtStmt, Visitors
<1>4. /\ stack # <<>>
      /\ Top.node \in Statements
      /\ StatementIsWellFormed(Top.node)
      /\ StackOK(Below)
      /\ Below # <<>>
      /\ BlockCount(Below) = BlockCount(stack)
  BY <1>1, <1>3, VisitorOnTop, PartsOfFrames
<1>5. GotValue => ret[2] \in LualikeValues
  BY <1>1, ValueOfResult DEF GotValue
<1>6. <<"call">> \in Results /\ <<"done">> \in Results
  BY ResultsOfEachKind
<1>7. Nil \in LualikeValues
  BY PartsOfValues
<1>8. ASSUME EvalStatementExpression PROVE StepShape
  <2> DEFINE e == FirstExpression(Top.node)[1]
  <2>1. /\ stack' = Append(stack, ExprFrame(e))
        /\ ret' = <<"call">>
        /\ scopes' = scopes
    BY <1>8 DEF EvalStatementExpression, Call
  <2>2. e \in Expressions
    BY <1>4, <1>8, FirstExpressionInExpressions DEF EvalStatementExpression
  <2> HIDE DEF e
  <2>3. VisitorStep
    BY <1>1, <1>3, <2>1, <2>2, VisitorCalls
  <2> QED
    BY <1>2, <1>6, <2>1, <2>3 DEF StepShape, VisitorStep
<1>9. ASSUME DeclareNil \/ Declare \/ AssignExisting PROVE StepShape
  <2>1. PICK v \in LualikeValues : scopes' = Set(scopes, Top.node.name, v)
    BY <1>5, <1>7, <1>9 DEF DeclareNil, Declare, AssignExisting
  <2>2. Top.node.name \in Names
    BY <1>4, <1>9 DEF DeclareNil, Declare, AssignExisting, AtStmt,
                      StatementIsWellFormed
  <2>3. stack' = Below /\ ret' = <<"done">>
    BY <1>9 DEF DeclareNil, Declare, AssignExisting, Answer
  <2>4. \E m \in Names, w \in Values : Scoping!Assign(m, w)
    BY <1>4, <2>1, <2>2, WriteStep
  <2>5. VisitorStep
    BY <1>1, <1>3, <2>3, VisitorAnswers
  <2> QED
    BY <1>2, <1>6, <2>3, <2>4, <2>5 DEF StepShape, VisitorStep
<1>10. ASSUME AssignUnknown PROVE StepShape
  <2>1. /\ stack' = Below
        /\ ret' = ErrorAt("UnknownVariable", Top.node.span)
        /\ scopes' = scopes
    BY <1>10 DEF AssignUnknown, Answer
  <2>2. Top.node.span \in Nat
    BY <1>4, <1>10 DEF AssignUnknown, AtStmt, StatementIsWellFormed
  <2>3. ret' \in Results
    BY <2>1, <2>2, ResultsOfEachKind DEF ErrorKinds
  <2>4. VisitorStep
    BY <1>1, <1>3, <2>1, VisitorAnswers
  <2> QED
    BY <1>2, <2>1, <2>3, <2>4 DEF StepShape, VisitorStep
<1>11. ASSUME RunBranch PROVE StepShape
  <2> DEFINE branch == Branch(Top.node, ret[2])
  <2>1. branch \in Seq(Blocks)
    BY <1>4, <1>11
       DEF RunBranch, AtStmt, StatementIsWellFormed, Branch
  <2>2. CASE /\ branch # <<>>
             /\ stack' = Append(Below, BlockFrame(branch[1]))
             /\ scopes' = Enter(scopes)
             /\ ret' = <<"done">>
    <3>1. branch[1] \in Blocks
      BY <2>1, <2>2
    <3> HIDE DEF branch
    <3>2. /\ BlockFrame(branch[1]) \in Frames
          /\ BlockFrame(branch[1]).fn = "VisitBlock"
      BY <3>1, FramesOfNodes DEF BlockFrame
    <3>3. /\ StackOK(stack')
          /\ BlockCount(stack') = BlockCount(Below) + 1
      BY <1>4, <2>2, <3>2, PushFrame DEF BlockCount
    <3> QED
      BY <1>2, <1>4, <1>6, <2>2, <3>3, EnterStep DEF StepShape
  <2>3. CASE stack' = Below /\ ret' = <<"done">> /\ scopes' = scopes
    <3>1. VisitorStep
      BY <1>1, <1>3, <2>3, VisitorAnswers
    <3> QED
      BY <1>2, <1>6, <2>3, <3>1 DEF StepShape, VisitorStep
  <2> QED
    BY <1>11, <2>2, <2>3 DEF RunBranch, Answer
<1>12. ASSUME ReturnNothing \/ ReturnValue \/ DiscardValue \/ SkipFunctionDeclaration
       PROVE  StepShape
  <2>1. /\ stack' = Below
        /\ scopes' = scopes
        /\ ret' = <<"done">> \/ (GotValue /\ ret' = <<"return", ret[2]>>)
    BY <1>12 DEF ReturnNothing, ReturnValue, DiscardValue,
                 SkipFunctionDeclaration, Answer
  <2>2. ret' \in Results
    BY <1>5, <1>6, <2>1, ResultsOfEachKind
  <2>3. VisitorStep
    BY <1>1, <1>3, <2>1, VisitorAnswers
  <2> QED
    BY <1>2, <2>1, <2>2, <2>3 DEF StepShape, VisitorStep
<1> QED
  BY <1>8, <1>9, <1>10, <1>11, <1>12 DEF StmtStep

----------------------------------------------------------------------------
(* The steps of VisitBlock and Interpret.                                  *)
LEMMA BlockOnTop ==
    ASSUME StackOK(stack), In("VisitBlock")
    PROVE  /\ stack # <<>>
           /\ Top.rest \in Blocks
           /\ StackOK(Below)
           /\ BlockCount(stack) = BlockCount(Below) + 1
<1>1. stack # <<>> /\ Top.fn = "VisitBlock"
  BY DEF In
<1>2. Top = Last(stack) /\ Below = Pop(stack)
  BY DEF Top, Below, Last, Pop
<1>3. Top \in Frames
  BY <1>1, <1>2, PopFrame
<1> QED
  BY <1>1, <1>2, <1>3, PopFrame, PartsOfFrames DEF BlockCount

LEMMA BlockStepShape ==
    ASSUME InterpreterInv, BlockStep
    PROVE  StepShape
<1>1. StackOK(stack) /\ ret \in Results /\ program \in Blocks
  BY AstAssumption DEF InterpreterInv, TypeOK
<1>2. <<"call">> \in Results /\ <<"done">> \in Results
  BY ResultsOfEachKind
<1>3. CASE StartProgram
  <2> DEFINE f == BlockFrame(program)
  <2>1. /\ stack = <<>>
        /\ stack' = Append(stack, f)
        /\ scopes' = Enter(scopes)
        /\ ret' = <<"done">>
        /\ program' = program
    BY <1>3 DEF StartProgram
  <2>2. f \in Frames /\ f.fn = "VisitBlock"
    BY <1>1, FramesOfNodes DEF BlockFrame
  <2> HIDE DEF f
  <2>3. StackOK(stack') /\ BlockCount(stack') = BlockCount(stack) + 1
    BY <1>1, <2>1, <2>2, PushFrame DEF BlockCount
  <2> QED
    BY <1>2, <2>1, <2>3, EnterStep DEF StepShape
<1>4. CASE NextStatement
  <2> DEFINE f == BlockFrame(Tail(Top.rest))
             g == StmtFrame(Head(Top.rest))
  <2>1. /\ In("VisitBlock")
        /\ Top.rest # <<>>
        /\ stack' = Append(Append(Below, f), g)
        /\ ret' = <<"call">>
        /\ UNCHANGED <<program, scopes>>
    BY <1>4 DEF NextStatement
  <2>2. /\ StackOK(Below)
        /\ BlockCount(stack) = BlockCount(Below) + 1
        /\ Top.rest \in Blocks
    BY <1>1, <2>1, BlockOnTop
  <2>3. Tail(Top.rest) \in Blocks /\ Head(Top.rest) \in Statements
    BY <2>1, <2>2 DEF Blocks
  <2>4. /\ f \in Frames /\ f.fn = "VisitBlock"
        /\ g \in Frames /\ g.fn \in Visitors
    BY <2>3, FramesOfNodes DEF BlockFrame, StmtFrame, Visitors
  <2> HIDE DEF f, g
  <2>5. /\ StackOK(Append(Below, f))
        /\ Append(Below, f) # <<>>
        /\ BlockCount(Append(Below, f)) = BlockCount(stack)
    BY <2>2, <2>4, PushFrame DEF BlockCount
  <2>6. StackOK(stack') /\ BlockCount(stack') = BlockCount(stack)
    BY <2>1, <2>4, <2>5, PushVisitor
  <2> QED
    BY <1>2, <2>1, <2>6 DEF StepShape
<1>5. CASE EndBlock
  <2>1. /\ In("VisitBlock")
        /\ scopes' = Leave(scopes)
        /\ stack' = Below
        /\ ret' = ret
        /\ program' = program
    BY <1>5 DEF EndBlock, Answer
  <2>2. /\ stack # <<>>
        /\ StackOK(stack')
        /\ BlockCount(stack) = BlockCount(stack') + 1
    BY <1>1, <2>1, BlockOnTop
  <2>3. Len(scopes) > 1
    BY <2>2, RunsInABlock
  <2>4. Scoping!LeaveBlock
    BY <2>1, <2>3, SameOperators DEF Scoping!LeaveBlock
  <2> QED
    BY <1>1, <2>1, <2>2, <2>4 DEF StepShape
<1> QED
  BY <1>3, <1>4, <1>5 DEF BlockStep

LEMMA UnwindShape ==
    ASSUME InterpreterInv, Unwind
    PROVE  StepShape
<1>1. StackOK(stack) /\ ret \in Results
  BY DEF InterpreterInv, TypeOK
<1>2. PICK fn \in Visitors : In(fn)
  BY DEF Unwind, Visitors
<1>3. stack' = Below /\ ret' = ret /\ UNCHANGED <<program, scopes>>
  BY DEF Unwind, Answer
<1>4. VisitorStep
  BY <1>1, <1>2, <1>3, VisitorAnswers
<1> QED
  BY <1>1, <1>3, <1>4 DEF StepShape, VisitorStep

LEMMA EveryStepShape ==
    ASSUME InterpreterInv, [Next]_vars
    PROVE  StepShape
<1>1. CASE UNCHANGED vars
  BY <1>1 DEF StepShape, vars, InterpreterInv, TypeOK
<1>2. CASE Terminated
  BY <1>1, <1>2 DEF Terminated
<1> QED
  BY <1>1, <1>2, ExprStepShape, StmtStepShape, BlockStepShape, UnwindShape DEF Next

----------------------------------------------------------------------------
(* Every step is a step of the scope chain, or leaves it alone.            *)
LEMMA StepOfChain ==
    ASSUME InterpreterInv, [Next]_vars
    PROVE  [Scoping!Next]_scopes
BY EveryStepShape DEF StepShape, Scoping!Next

(* The number of scopes follows the number of active blocks.               *)
LEMMA StepKeepsDiscipline ==
    ASSUME InterpreterInv, StepShape
    PROVE  Len(scopes') = 1 + BlockCount(stack')
<1>1. /\ Len(scopes) = 1 + BlockCount(stack)
      /\ BlockCount(stack) \in Nat
      /\ BlockCount(stack') \in Nat
  BY BlocksOfFinite
     DEF InterpreterInv, StackOK, ScopeDiscipline, BlockFrames, BlockCount,
         BlocksOf, StepShape
<1>2. /\ scopes \in Seq(Scoping!Bindings)
      /\ Len(scopes) > 0
      /\ Scoping!OneHolder(scopes)
  BY ScopesFacts, SameOperators
<1>3. CASE scopes' = scopes /\ BlockCount(stack') = BlockCount(stack)
  BY <1>1, <1>3
<1>4. ASSUME NEW n \in Names, NEW v \in Values, Scoping!Assign(n, v),
             BlockCount(stack') = BlockCount(stack)
      PROVE  Len(scopes') = 1 + BlockCount(stack')
  <2>1. Len(Scoping!Set(scopes, n, v)) = Len(scopes)
    BY <1>2, Scoping!SetShape, AbsentAssumption
  <2> QED
    BY <1>1, <1>4, <2>1 DEF Scoping!Assign
<1>5. CASE Scoping!EnterBlock /\ BlockCount(stack') = BlockCount(stack) + 1
  <2>1. Len(Scoping!Enter(scopes)) = Len(scopes) + 1
    BY <1>2, Scoping!EnterShape, AbsentAssumption
  <2> QED
    BY <1>1, <1>5, <2>1 DEF Scoping!EnterBlock
<1>6. CASE Scoping!LeaveBlock /\ BlockCount(stack) = BlockCount(stack') + 1
  <2>1. Len(scopes) > 1
    BY <1>6 DEF Scoping!LeaveBlock
  <2>2. Len(Scoping!Leave(scopes)) = Len(scopes) - 1
    BY <1>2, <2>1, Scoping!LeaveShape, AbsentAssumption
  <2> QED
    BY <1>1, <1>6, <2>2 DEF Scoping!LeaveBlock
<1> QED
  BY <1>3, <1>4, <1>5, <1>6 DEF StepShape

LEMMA InitInterpreterInv == Init => InterpreterInv
<1> SUFFICES ASSUME Init PROVE InterpreterInv
  OBVIOUS
<1>1. EmptyScope \in Bindings
  BY DEF EmptyScope, Bindings
<1>2. <<"call">> \in Results
  BY ResultsOfEachKind
<1>3. TypeOK
  BY <1>1, <1>2 DEF Init, TypeOK
<1>4. StackOK(stack)
  BY DEF Init, StackOK
<1>5. ScopeDiscipline
  <2>1. BlockFrames = {}
    BY DEF Init, BlockFrames
  <2>2. Cardinality(BlockFrames) = 0
    BY <2>1, FS_EmptySet
  <2> QED
    BY <2>2 DEF Init, ScopeDiscipline
<1>6. Scoping!ScopeInv
  <2>1. Scoping!Init
    BY SameOperators DEF Init, Scoping!Init
  <2> QED
    BY <2>1, Scoping!InitScopeInv, AbsentAssumption
<1> QED
  BY <1>3, <1>4, <1>5, <1>6 DEF InterpreterInv

LEMMA StepInterpreterInv == InterpreterInv /\ [Next]_vars => InterpreterInv'
<1> SUFFICES ASSUME InterpreterInv, [Next]_vars PROVE InterpreterInv'
  OBVIOUS
<1>1. StepShape
  BY EveryStepShape
<1>2. Scoping!ScopeInv'
  <2>1. Scoping!ScopeInv /\ [Scoping!Next]_scopes
    BY StepOfChain DEF InterpreterInv
  <2> QED
    BY <2>1, Scoping!StepScopeInv, AbsentAssumption
<1>3. scopes' \in Seq(Bindings)
  BY <1>2, SameOperators DEF Scoping!ScopeInv, Scoping!TypeOK
<1>4. TypeOK'
  BY <1>1, <1>3 DEF InterpreterInv, TypeOK, StepShape, StackOK
<1>5. StackOK(stack)'
  BY <1>1 DEF StepShape, StackOK
<1>6. ScopeDiscipline'
  BY <1>1, StepKeepsDiscipline
     DEF ScopeDiscipline, BlockFrames, BlockCount, BlocksOf
<1> QED
  BY <1>2, <1>4, <1>5, <1>6 DEF InterpreterInv

(* Every reachable state satisfies the inductive invariant.                *)
THEOREM InterpreterInvariant == Spec => []InterpreterInv
<1> QED
  BY InitInterpreterInv, StepInterpreterInv, PTL DEF Spec

(* Whatever the program: the result of every expression is a value, the    *)
(* scopes bind names to values, and the stack holds frames of its nodes.   *)
THEOREM InterpreterTypeCorrect == Spec => []TypeOK
<1>1. InterpreterInv => TypeOK
  BY DEF InterpreterInv
<1> QED
  BY <1>1, InterpreterInvariant, PTL

(* One scope per active VisitBlock and the root, on every way out.         *)
THEOREM ScopesMatchBlocks == Spec => []ScopeDiscipline
<1>1. InterpreterInv => ScopeDiscipline
  BY DEF InterpreterInv
<1> QED
  BY <1>1, InterpreterInvariant, PTL

(* In no program does a variable hide another one.                         *)
THEOREM NoShadowingInPrograms == Spec => []Chain!SingleBinding
<1>1. InterpreterInv => Chain!SingleBinding
  BY DEF InterpreterInv, Scoping!ScopeInv, Scoping!SingleBinding,
         Scoping!Holders, Chain!SingleBinding, Chain!Holders
<1> QED
  BY <1>1, InterpreterInvariant, PTL

----------------------------------------------------------------------------
(* The chain of LualikeScopeProofs and the one of UsesScopeChain.          *)
LEMMA SameChain ==
    /\ Scoping!Init => Chain!Init
    /\ [Scoping!Next]_scopes => [Chain!Next]_scopes
BY DEF Scoping!Init, Chain!Init, Scoping!EmptyScope, Chain!EmptyScope,
       Scoping!Next, Chain!Next, Scoping!EnterBlock, Chain!EnterBlock,
       Scoping!LeaveBlock, Chain!LeaveBlock, Scoping!Assign, Chain!Assign,
       Scoping!Enter, Chain!Enter, Scoping!Leave, Chain!Leave,
       Scoping!Set, Chain!Set, Scoping!SetIndex, Chain!SetIndex,
       Scoping!Nearest, Chain!Nearest, Scoping!Holders, Chain!Holders

(* The evaluator uses its scopes only as the chain allows, so what is      *)
(* proved of the chain, the flat store included, holds for every program.  *)
THEOREM InterpreterUsesScopeChain == Spec => UsesScopeChain
<1>1. Init => Chain!Init
  BY SameChain, SameOperators DEF Init, Scoping!Init
<1>2. InterpreterInv /\ [Next]_vars => [Chain!Next]_scopes
  BY StepOfChain, SameChain
<1> QED
  BY <1>1, <1>2, InterpreterInvariant, PTL DEF Spec, UsesScopeChain, Chain!Spec

(* A returned value or an error is handed on unchanged, by dropping one    *)
(* frame at a time, and touches no variable of a scope that survives.      *)
LEMMA StepIsFinal ==
    ASSUME InterpreterInv, Next, ret[1] \in {"return", "throw"}
    PROVE  \/ /\ ret' = ret
              /\ stack' = Below
              /\ scopes' = SubSeq(scopes, 1, Len(scopes'))
           \/ UNCHANGED vars
<1>1. /\ ~GotValue /\ ~Called /\ ret # <<"done">>
  BY DEF GotValue, Called
<1>2. scopes \in Seq(Bindings)
  BY ScopesFacts
<1>3. CASE EndBlock
  <2>1. ret' = ret /\ stack' = Below /\ scopes' = Leave(scopes)
    BY <1>3 DEF EndBlock, Answer
  <2>2. stack # <<>>
    BY <1>3 DEF EndBlock, In
  <2>3. Len(scopes) > 1
    BY <2>2, RunsInABlock
  <2>4. scopes' = Pop(scopes)
    BY <2>1 DEF Leave, Pop
  <2>5. Len(scopes') = Len(scopes) - 1
    BY <1>2, <2>3, <2>4, PopSequence
  <2> QED
    BY <2>1, <2>4, <2>5 DEF Pop
<1>4. CASE Unwind
  <2>1. ret' = ret /\ stack' = Below /\ scopes' = scopes
    BY <1>4 DEF Unwind, Answer
  <2>2. SubSeq(scopes, 1, Len(scopes)) = scopes
    BY <1>2, SubSeqFull
  <2> QED
    BY <2>1, <2>2
<1>5. CASE Terminated
  BY <1>5 DEF Terminated
<1>6. ~ExprStep
  BY <1>1 DEF ExprStep, EvalLiteral, EvalVariable, EvalFirstOperand, ApplyUnary,
              ShortCircuit, EvalRhs, ApplyBinary, EvalUnimplemented
<1>7. ~StmtStep
  BY <1>1 DEF StmtStep, EvalStatementExpression, DeclareNil, Declare,
              AssignExisting, AssignUnknown, RunBranch, ReturnNothing,
              ReturnValue, DiscardValue, SkipFunctionDeclaration
<1>8. ~StartProgram /\ ~NextStatement
  BY <1>1 DEF StartProgram, NextStatement, BlockGoesOn
<1> QED
  BY <1>3, <1>4, <1>5, <1>6, <1>7, <1>8 DEF Next, BlockStep

(* What a return gives back and what is thrown reach the caller unchanged, *)
(* past every frame, and leave the surviving scopes as they were.          *)
THEOREM ReturnAndThrowPassEverything == Spec => ReturnAndThrowAreFinal
<1>1. InterpreterInv /\ [Next]_vars =>
        [ret[1] \in {"return", "throw"} =>
            /\ ret' = ret
            /\ stack' = Below
            /\ scopes' = SubSeq(scopes, 1, Len(scopes'))]_vars
  BY StepIsFinal
<1> QED
  BY <1>1, InterpreterInvariant, PTL DEF Spec, ReturnAndThrowAreFinal

----------------------------------------------------------------------------
(* A result is one the rules allow: the derivation that leads to it.  What *)
(* follows holds of every M that obeys the rules: in the end, of Meaning.  *)
RulesIn(M, q) == Rules(LAMBDA p : M[p], q)

Obeys(M) == \A q \in Phrases : RulesIn(M, q) \subseteq M[q]

LEMMA PhrasesOfNodes ==
    ASSUME NEW env \in Bindings
    PROVE  /\ \A e \in Expressions : <<"expr", e, env>> \in Phrases
           /\ \A s \in Statements : <<"stmt", s, env>> \in Phrases
           /\ \A b \in Blocks : <<"sequence", b, env>> \in Phrases
           /\ \A b \in Blocks : <<"block", b, env>> \in Phrases
BY DEF Phrases

(* The rule for each kind of phrase.                                       *)
LEMMA RuleOfLeaf ==
    ASSUME NEW M, NEW e, NEW env
    PROVE  /\ e.kind = "Literal" =>
                RulesIn(M, <<"expr", e, env>>) = {<<"value", e.value>>}
           /\ e.kind = "Variable" =>
                RulesIn(M, <<"expr", e, env>>) =
                    {IF env[e.name] = Absent THEN ErrorAt("UnknownVariable", e.span)
                     ELSE <<"value", env[e.name]>>}
           /\ e.kind = "FunctionCall" =>
                RulesIn(M, <<"expr", e, env>>) =
                    {ErrorAt("UnimplementedExpression", e.span)}
BY DEF RulesIn, Rules, ExprResults

LEMMA RuleOfUnary ==
    ASSUME NEW M, NEW e, NEW env, e.kind = "Unary"
    PROVE  RulesIn(M, <<"expr", e, env>>) =
               UNION {UnaryResults(e, r) : r \in M[<<"expr", e.rhs, env>>]}
BY DEF RulesIn, Rules, ExprResults

LEMMA RuleOfBinary ==
    ASSUME NEW M, NEW e, NEW env, e.kind = "Binary"
    PROVE  RulesIn(M, <<"expr", e, env>>) =
               UNION {BinaryResults(e, r, M[<<"expr", e.rhs, env>>]) :
                          r \in M[<<"expr", e.lhs, env>>]}
BY DEF RulesIn, Rules, ExprResults

StmtGives(M, s, env, r) == StmtResultsOn(LAMBDA p : M[p], s, env, r)

LEMMA RuleOfStatementAlone ==
    ASSUME NEW M, NEW s, NEW env, FirstExpression(s) = <<>>
    PROVE  RulesIn(M, <<"stmt", s, env>>) = {EffectAlone(s, env)}
BY DEF RulesIn, Rules, StmtResults

LEMMA RuleOfEvaluating ==
    ASSUME NEW M, NEW s, NEW env, FirstExpression(s) # <<>>
    PROVE  RulesIn(M, <<"stmt", s, env>>) =
               UNION {StmtGives(M, s, env, r) :
                          r \in M[<<"expr", FirstExpression(s)[1], env>>]}
BY DEF RulesIn, Rules, StmtResults, StmtGives

LEMMA RuleOfNoStatements ==
    ASSUME NEW M, NEW env
    PROVE  RulesIn(M, <<"sequence", <<>>, env>>) = {Ended(env, <<"done">>)}
BY DEF RulesIn, Rules, SequenceResults

LEMMA RuleOfSequence ==
    ASSUME NEW M, NEW b, NEW env, b # <<>>
    PROVE  RulesIn(M, <<"sequence", b, env>>) =
               UNION {IF x.ret = <<"done">> THEN M[<<"sequence", Tail(b), x.env>>]
                      ELSE {x} : x \in M[<<"stmt", Head(b), env>>]}
BY DEF RulesIn, Rules, SequenceResults

LEMMA RuleOfBlock ==
    ASSUME NEW M, NEW b, NEW env
    PROVE  RulesIn(M, <<"block", b, env>>) =
               {Behind(env, x) : x \in M[<<"sequence", b, env>>]}
BY DEF RulesIn, Rules

(* What an error makes of an operation, and of a statement.                *)
LEMMA ErrorOfUnary ==
    ASSUME NEW e, NEW r, r[1] # "value"
    PROVE  UnaryResults(e, r) = {r}
BY DEF UnaryResults, OnValue

LEMMA ErrorOfLeft ==
    ASSUME NEW e, NEW S, NEW r, r[1] # "value"
    PROVE  BinaryResults(e, r, S) = {r}
BY DEF BinaryResults, OnValue

LEMMA ErrorOfRight ==
    ASSUME NEW e, NEW a, NEW r, r[1] # "value"
    PROVE  OperatorResults(e, a, r) = {r}
BY DEF OperatorResults, OnValue

LEMMA ErrorOfStatement ==
    ASSUME NEW M, NEW s, NEW env, NEW r, r[1] # "value"
    PROVE  StmtGives(M, s, env, r) = {Ended(env, r)}
BY DEF StmtGives, StmtResultsOn

(* What comes behind the first statement of some.                          *)
LEMMA RuleOfSequenceGoesOn ==
    ASSUME NEW M, NEW b, NEW env, b # <<>>,
           NEW x \in M[<<"stmt", Head(b), env>>], x.ret = <<"done">>
    PROVE  M[<<"sequence", Tail(b), x.env>>] \subseteq RulesIn(M, <<"sequence", b, env>>)
<1> DEFINE G(y) == IF y.ret = <<"done">> THEN M[<<"sequence", Tail(b), y.env>>] ELSE {y}
           T == M[<<"stmt", Head(b), env>>]
<1>1. RulesIn(M, <<"sequence", b, env>>) = UNION {G(y) : y \in T}
  BY RuleOfSequence
<1>2. G(x) = M[<<"sequence", Tail(b), x.env>>] /\ x \in T
  OBVIOUS
<1> HIDE DEF G, T
<1> QED
  BY <1>1, <1>2

LEMMA RuleOfSequenceStops ==
    ASSUME NEW M, NEW b, NEW env, b # <<>>,
           NEW x \in M[<<"stmt", Head(b), env>>], x.ret # <<"done">>
    PROVE  x \in RulesIn(M, <<"sequence", b, env>>)
<1> DEFINE G(y) == IF y.ret = <<"done">> THEN M[<<"sequence", Tail(b), y.env>>] ELSE {y}
           T == M[<<"stmt", Head(b), env>>]
<1>1. RulesIn(M, <<"sequence", b, env>>) = UNION {G(y) : y \in T}
  BY RuleOfSequence
<1>2. G(x) = {x} /\ x \in T
  OBVIOUS
<1> HIDE DEF G, T
<1> QED
  BY <1>1, <1>2

----------------------------------------------------------------------------
(* The chain of scopes, seen as the one environment of the rules.          *)
Flat(c) == [n \in Names |-> Get(c, n)]
HeldBy(c, i) == {n \in Names : \E k \in 1..i : c[k][n] # Absent}

(* A chain as the interpreter's scopes are.                                *)
IsChain(c) == c \in Seq(Bindings) /\ Len(c) > 0 /\ Scoping!OneHolder(c)

LEMMA SameGet == \A c, n : Scoping!Get(c, n) = Get(c, n)
BY SameOperators DEF Scoping!Get, Get

LEMMA GetOfHolder ==
    ASSUME NEW c, IsChain(c), NEW n \in Names
    PROVE  /\ Get(c, n) = Absent <=> Holders(c, n) = {}
           /\ \A k \in Holders(c, n) : Nearest(c, n) = k /\ Get(c, n) = c[k][n]
<1>1. ASSUME NEW k \in Holders(c, n)
      PROVE  Nearest(c, n) = k /\ Get(c, n) = c[k][n] /\ Get(c, n) # Absent
  <2>1. Scoping!OneHolder(c) /\ k \in Scoping!Holders(c, n)
    BY SameOperators DEF IsChain
  <2>2. Scoping!Nearest(c, n) = k
    BY <2>1, Scoping!NearestIsTheHolder, AbsentAssumption
  <2> QED
    BY <2>2, SameOperators DEF Get, Holders
<1> QED
  BY <1>1 DEF Get

LEMMA FlatIsBindings ==
    ASSUME NEW c, IsChain(c)
    PROVE  Flat(c) \in Bindings
<1>1. ASSUME NEW n \in Names PROVE Get(c, n) \in Values \cup {Absent}
  <2>1. CASE Holders(c, n) = {}
    BY <2>1 DEF Get
  <2>2. ASSUME NEW k \in Holders(c, n) PROVE Get(c, n) \in Values \cup {Absent}
    <3>1. c[k] \in Bindings
      BY DEF Holders, IsChain
    <3> QED
      BY <3>1, GetOfHolder DEF Bindings
  <2> QED
    BY <2>1, <2>2
<1> QED
  BY <1>1 DEF Flat, Bindings

LEMMA FlatAfterSet ==
    ASSUME NEW c, IsChain(c), NEW n \in Names, NEW v \in Values
    PROVE  /\ Len(Set(c, n, v)) = Len(c)
           /\ Flat(Set(c, n, v)) = [Flat(c) EXCEPT ![n] = v]
           /\ \A i \in Nat : i < Len(c) => HeldBy(Set(c, n, v), i) = HeldBy(c, i)
<1> DEFINE d == Set(c, n, v)
<1>1. /\ c \in Seq(Scoping!Bindings) /\ Len(c) > 0 /\ Scoping!OneHolder(c)
      /\ Len(c) \in Nat
  BY SameOperators DEF IsChain
<1>2. /\ Len(d) = Len(c)
      /\ \A i \in 1..Len(c) : \A m \in Names :
            d[i][m] = IF i = SetIndex(c, n) /\ m = n THEN v ELSE c[i][m]
  BY <1>1, Scoping!SetShape, SameOperators, AbsentAssumption
<1>3. \A m \in Names : Get(d, m) = IF m = n THEN v ELSE Get(c, m)
  BY <1>1, Scoping!GetAfterSet, SameOperators, SameGet, AbsentAssumption
<1> HIDE DEF d
<1>4. Flat(d) = [Flat(c) EXCEPT ![n] = v]
  BY <1>3 DEF Flat
<1>5. ASSUME NEW k \in 1..Len(c), k < Len(c), NEW m \in Names
      PROVE  d[k][m] # Absent <=> c[k][m] # Absent
  <2>1. CASE k = SetIndex(c, n) /\ m = n
    <3>1. Holders(c, n) # {} /\ k = Nearest(c, n)
      BY <1>1, <1>5, <2>1 DEF SetIndex
    <3>2. k \in Holders(c, n)
      BY <3>1, GetOfHolder
    <3>3. c[k][m] # Absent
      BY <2>1, <3>2 DEF Holders
    <3> QED
      BY <1>2, <2>1, <3>3, AbsentAssumption
  <2>2. CASE ~(k = SetIndex(c, n) /\ m = n)
    BY <1>2, <2>2
  <2> QED
    BY <2>1, <2>2
<1>6. ASSUME NEW i \in Nat, i < Len(c) PROVE HeldBy(d, i) = HeldBy(c, i)
  <2>1. \A k \in 1..i : k \in 1..Len(c) /\ k < Len(c)
    BY <1>1, <1>6
  <2> QED
    BY <1>5, <2>1 DEF HeldBy
<1> QED
  BY <1>2, <1>4, <1>6 DEF d

LEMMA FlatAfterEnter ==
    ASSUME NEW c, IsChain(c)
    PROVE  /\ Len(Enter(c)) = Len(c) + 1
           /\ Flat(Enter(c)) = Flat(c)
           /\ \A i \in Nat : i <= Len(c) => HeldBy(Enter(c), i) = HeldBy(c, i)
           /\ HeldBy(c, Len(c)) = {n \in Names : Flat(c)[n] # Absent}
<1>1. /\ c \in Seq(Scoping!Bindings) /\ Len(c) > 0 /\ Scoping!OneHolder(c)
      /\ Len(c) \in Nat
  BY SameOperators DEF IsChain
<1>2. /\ Len(Enter(c)) = Len(c) + 1
      /\ \A i \in 1..Len(c) : Enter(c)[i] = c[i]
  BY <1>1, Scoping!EnterShape, SameOperators, AbsentAssumption
<1>3. \A m \in Names : Get(Enter(c), m) = Get(c, m)
  BY <1>1, Scoping!GetAfterEnter, SameOperators, SameGet, AbsentAssumption
<1>4. Flat(Enter(c)) = Flat(c)
  BY <1>3 DEF Flat
<1>5. ASSUME NEW i \in Nat, i <= Len(c) PROVE HeldBy(Enter(c), i) = HeldBy(c, i)
  <2>1. \A k \in 1..i : Enter(c)[k] = c[k]
    BY <1>1, <1>2, <1>5
  <2> QED
    BY <2>1 DEF HeldBy
<1>6. ASSUME NEW n \in Names
      PROVE  Flat(c)[n] # Absent <=> \E k \in 1..Len(c) : c[k][n] # Absent
  BY GetOfHolder DEF Flat, Holders
<1> QED
  BY <1>2, <1>4, <1>5, <1>6 DEF HeldBy

LEMMA FlatAfterLeave ==
    ASSUME NEW c, IsChain(c), Len(c) > 1
    PROVE  /\ Len(Leave(c)) = Len(c) - 1
           /\ Flat(Leave(c)) = [n \in Names |-> IF n \in HeldBy(c, Len(c) - 1)
                                                THEN Flat(c)[n] ELSE Absent]
           /\ \A i \in Nat : i < Len(c) => HeldBy(Leave(c), i) = HeldBy(c, i)
<1>1. /\ c \in Seq(Scoping!Bindings) /\ Len(c) > 0 /\ Scoping!OneHolder(c)
      /\ Len(c) \in Nat
  BY SameOperators DEF IsChain
<1>2. /\ Len(Leave(c)) = Len(c) - 1
      /\ \A i \in 1..(Len(c) - 1) : Leave(c)[i] = c[i]
  BY <1>1, Scoping!LeaveShape, SameOperators, AbsentAssumption
<1>3. ASSUME NEW m \in Names
      PROVE  Get(Leave(c), m) = IF m \in HeldBy(c, Len(c) - 1) THEN Get(c, m) ELSE Absent
  <2>1. Get(Leave(c), m) =
            IF Scoping!OwnerOf(c, m) = Len(c) THEN Absent ELSE Get(c, m)
    BY <1>1, Scoping!GetAfterLeave, SameOperators, SameGet, AbsentAssumption
  <2>2. Scoping!OwnerOf(c, m) = IF Holders(c, m) = {} THEN 0 ELSE Nearest(c, m)
    BY SameOperators DEF Scoping!OwnerOf
  <2>3. CASE Holders(c, m) = {}
    <3>1. m \notin HeldBy(c, Len(c) - 1)
      BY <1>1, <2>3 DEF HeldBy, Holders
    <3> QED
      BY <2>1, <2>2, <2>3, <3>1, <1>1, GetOfHolder
  <2>4. ASSUME NEW k \in Holders(c, m)
        PROVE  Get(Leave(c), m) =
                   IF m \in HeldBy(c, Len(c) - 1) THEN Get(c, m) ELSE Absent
    <3>1. Nearest(c, m) = k /\ k \in 1..Len(c) /\ Holders(c, m) # {}
      BY <2>4, GetOfHolder DEF Holders
    <3>2. m \in HeldBy(c, Len(c) - 1) <=> k # Len(c)
      <4>1. \A j \in Holders(c, m) : j = k
        BY <3>1, GetOfHolder
      <4>2. c[k][m] # Absent
        BY DEF Holders
      <4> QED
        BY <1>1, <3>1, <4>1, <4>2 DEF HeldBy, Holders
    <3> QED
      BY <2>1, <2>2, <3>1, <3>2
  <2> QED
    BY <2>3, <2>4
<1>4. Flat(Leave(c)) = [n \in Names |-> IF n \in HeldBy(c, Len(c) - 1)
                                        THEN Flat(c)[n] ELSE Absent]
  BY <1>3 DEF Flat
<1>5. ASSUME NEW i \in Nat, i < Len(c) PROVE HeldBy(Leave(c), i) = HeldBy(c, i)
  <2>1. \A k \in 1..i : Leave(c)[k] = c[k]
    BY <1>1, <1>2, <1>5
  <2> QED
    BY <2>1 DEF HeldBy
<1> QED
  BY <1>2, <1>4, <1>5

----------------------------------------------------------------------------
(* A derivation under construction: P[i] is all that frame i can end with  *)
(* by M, and what the call above it can end with leads to nothing else.    *)
(* A block ended as x says; names outside S were not bound before it.      *)
Kept(S, x) == Ended([n \in Names |-> IF n \in S THEN x.env[n] ELSE Absent], x.ret)

(* What frame i can still end with, if the call above it ends with x.      *)
ExprGoesOn(M, f, env, r) ==
    IF f.node.kind = "Unary" THEN UnaryResults(f.node, r)
    ELSE IF f.lhs = <<>>
    THEN BinaryResults(f.node, r, M[<<"expr", f.node.rhs, env>>])
    ELSE OperatorResults(f.node, f.lhs[1], r)

Remaining(M, b, x) ==
    IF x.ret = <<"done">> THEN M[<<"sequence", b, x.env>>] ELSE {x}

GoesOn(M, c, i, f, x) ==
    IF f.fn = "ExprVisitor" THEN ExprGoesOn(M, f, Flat(c), x)
    ELSE IF f.fn = "StmtVisitor" THEN StmtGives(M, f.node, Flat(c), x)
    ELSE {Kept(HeldBy(c, i), y) : y \in Remaining(M, f.rest, x)}

(* What a visitor that has just been called can end with.                  *)
Starts(M, c, f) ==
    IF f.fn = "ExprVisitor" THEN M[<<"expr", f.node, Flat(c)>>]
    ELSE M[<<"stmt", f.node, Flat(c)>>]

(* Blocks, each with its scope, then a statement, then expressions.        *)
FrameShape(s, d) ==
    /\ d <= Len(s) + 1
    /\ \A i \in 1..Len(s) :
           s[i].fn = IF i < d THEN "VisitBlock"
                     ELSE IF i = d THEN "StmtVisitor" ELSE "ExprVisitor"

(* Only an operator of two values has kept one.                            *)
OperandKept(f) ==
    f.fn = "ExprVisitor" /\ f.lhs # <<>>
        => f.node.kind = "Binary" /\ ~IsLogical(f.node.op)

(* What the call that has just ended gave back.                            *)
AnswerOf(s, c, r) == IF Len(s) < Len(c) THEN Ended(Flat(c), r) ELSE r

(* Frame i goes on with all that the call above it can end with.           *)
LinksUpTo(M, P, s, c, k) ==
    \A i \in 1..k : \A x \in P[i + 1] : GoesOn(M, c, i, s[i], x) \subseteq P[i]

(* P leads from program p to the running, or the ended, call on top of s.  *)
Derives(M, P, p, s, c, r) ==
    /\ P[1] = M[<<"block", p, EmptyScope>>]
    /\ FrameShape(s, Len(c))
    /\ \A i \in 1..Len(s) : OperandKept(s[i])
    /\ LinksUpTo(M, P, s, c, Len(s) - 1)
    /\ r = <<"call">> /\ s # <<>> =>
           /\ Starts(M, c, s[Len(s)]) \subseteq P[Len(s)]
           /\ s[Len(s)].fn = "ExprVisitor" => s[Len(s)].lhs = <<>>
    /\ r # <<"call">> =>
           /\ LinksUpTo(M, P, s, c, Len(s))
           /\ AnswerOf(s, c, r) \in P[Len(s) + 1]

LEMMA LinksKept ==
    ASSUME NEW M, NEW P, NEW Q, NEW s, NEW t, NEW c, NEW d, NEW k \in Nat,
           LinksUpTo(M, P, s, c, k),
           \A i \in 1..(k + 1) : Q[i] = P[i],
           \A i \in 1..k : t[i] = s[i],
           \A i \in 1..k : \/ Flat(d) = Flat(c) /\ HeldBy(d, i) = HeldBy(c, i)
                           \/ s[i].fn = "VisitBlock" /\ HeldBy(d, i) = HeldBy(c, i)
    PROVE  LinksUpTo(M, Q, t, d, k)
<1> SUFFICES ASSUME NEW i \in 1..k
             PROVE  \A x \in Q[i + 1] : GoesOn(M, d, i, t[i], x) \subseteq Q[i]
  BY DEF LinksUpTo
<1>1. i \in 1..(k + 1) /\ i + 1 \in 1..(k + 1)
  OBVIOUS
<1>2. Q[i] = P[i] /\ Q[i + 1] = P[i + 1] /\ t[i] = s[i]
  BY <1>1
<1>3. \A x : GoesOn(M, d, i, s[i], x) = GoesOn(M, c, i, s[i], x)
  BY DEF GoesOn
<1>4. \A x \in P[i + 1] : GoesOn(M, c, i, s[i], x) \subseteq P[i]
  BY DEF LinksUpTo
<1> QED
  BY <1>2, <1>3, <1>4

LEMMA ReplacedTop ==
    ASSUME NEW s \in Seq(Frames), s # <<>>, NEW f \in Frames, NEW g \in Frames
    PROVE  /\ Pop(s) \in Seq(Frames)
           /\ Len(Pop(s)) = Len(s) - 1
           /\ \A i \in 1..(Len(s) - 1) : Pop(s)[i] = s[i]
           /\ Len(Append(Pop(s), f)) = Len(s)
           /\ \A i \in 1..(Len(s) - 1) : Append(Pop(s), f)[i] = s[i]
           /\ Append(Pop(s), f)[Len(s)] = f
           /\ Len(Append(Append(Pop(s), f), g)) = Len(s) + 1
           /\ \A i \in 1..(Len(s) - 1) : Append(Append(Pop(s), f), g)[i] = s[i]
           /\ Append(Append(Pop(s), f), g)[Len(s)] = f
           /\ Append(Append(Pop(s), f), g)[Len(s) + 1] = g
           /\ Append(Pop(s), Last(s)) = s
<1>1. Len(s) \in Nat /\ Len(s) > 0
  OBVIOUS
<1>2. /\ Pop(s) \in Seq(Frames)
      /\ Len(Pop(s)) = Len(s) - 1
      /\ \A i \in 1..(Len(s) - 1) : Pop(s)[i] = s[i]
  BY <1>1, PopSequence
<1>3. /\ Append(Pop(s), f) \in Seq(Frames)
      /\ Len(Append(Pop(s), f)) = Len(s)
      /\ \A i \in 1..(Len(s) - 1) : Append(Pop(s), f)[i] = s[i]
      /\ Append(Pop(s), f)[Len(s)] = f
  BY <1>1, <1>2
<1>4. /\ Len(Append(Append(Pop(s), f), g)) = Len(s) + 1
      /\ \A i \in 1..Len(s) : Append(Append(Pop(s), f), g)[i] = Append(Pop(s), f)[i]
      /\ Append(Append(Pop(s), f), g)[Len(s) + 1] = g
  BY <1>1, <1>3
<1>5. Append(Pop(s), Last(s)) = s
  <2>1. Last(s) \in Frames
    BY <1>1 DEF Last
  <2>2. /\ Append(Pop(s), Last(s)) \in Seq(Frames)
        /\ Len(Append(Pop(s), Last(s))) = Len(s)
        /\ \A i \in 1..(Len(s) - 1) : Append(Pop(s), Last(s))[i] = s[i]
        /\ Append(Pop(s), Last(s))[Len(s)] = s[Len(s)]
    BY <1>1, <1>2, <2>1 DEF Last
  <2>3. \A i \in 1..Len(s) : Append(Pop(s), Last(s))[i] = s[i]
    BY <1>1, <2>2
  <2> QED
    BY <2>2, <2>3, SeqEqual
<1>6. \A i \in 1..(Len(s) - 1) : Append(Append(Pop(s), f), g)[i] = s[i]
  BY <1>1, <1>3, <1>4
<1>7. Append(Append(Pop(s), f), g)[Len(s)] = f
  BY <1>1, <1>3, <1>4
<1> QED
  BY <1>2, <1>3, <1>4, <1>5, <1>6, <1>7

LEMMA ShapeOfPopped ==
    ASSUME NEW s, NEW n \in Nat, n > 0, Len(s) = n, NEW d \in Nat, d <= n,
           FrameShape(s, d), \A i \in 1..n : OperandKept(s[i]),
           NEW t, Len(t) = n - 1, \A i \in 1..(n - 1) : t[i] = s[i]
    PROVE  FrameShape(t, d) /\ \A i \in 1..Len(t) : OperandKept(t[i])
<1>1. \A i \in 1..(n - 1) : i \in 1..n
  OBVIOUS
<1>2. d <= Len(t) + 1
  OBVIOUS
<1>3. ASSUME NEW i \in 1..(n - 1)
      PROVE  /\ OperandKept(t[i])
             /\ t[i].fn = IF i < d THEN "VisitBlock"
                          ELSE IF i = d THEN "StmtVisitor" ELSE "ExprVisitor"
  BY <1>1 DEF FrameShape
<1> QED
  BY <1>2, <1>3 DEF FrameShape

(* An expression ends.                                                     *)
LEMMA ExprEnds ==
    ASSUME NEW M, NEW P, NEW p, NEW s \in Seq(Frames), NEW c, IsChain(c), NEW r,
           Derives(M, P, p, s, c, r),
           s # <<>>, Last(s).fn = "ExprVisitor",
           NEW w, w # <<"call">>, w \in P[Len(s)]
    PROVE  Derives(M, P, p, Pop(s), c, w)
<1> DEFINE n == Len(s)
           t == Pop(s)
<1>1. n \in Nat /\ n > 0 /\ Len(c) \in Nat
  BY DEF IsChain
<1>2. /\ Len(t) = n - 1
      /\ \A i \in 1..(n - 1) : t[i] = s[i]
  BY <1>1, PopSequence
<1>3. n > Len(c)
  BY <1>1 DEF Derives, FrameShape, Last
<1> HIDE DEF n, t
<1>4. FrameShape(t, Len(c)) /\ \A i \in 1..Len(t) : OperandKept(t[i])
  <2>1. FrameShape(s, Len(c)) /\ \A i \in 1..n : OperandKept(s[i])
    BY DEF Derives, n
  <2>2. Len(c) <= n /\ Len(s) = n
    BY <1>1, <1>3 DEF n
  <2> QED
    BY <1>1, <1>2, <2>1, <2>2, ShapeOfPopped
<1>5. LinksUpTo(M, P, s, c, n - 1)
  BY DEF Derives, n
<1>6. LinksUpTo(M, P, t, c, n - 1)
  BY <1>1, <1>2, <1>5, LinksKept
<1>7. LinksUpTo(M, P, t, c, n - 2)
  BY <1>1, <1>6 DEF LinksUpTo
<1>8. AnswerOf(t, c, w) = w /\ w \in P[Len(t) + 1]
  BY <1>1, <1>2, <1>3 DEF AnswerOf, n
<1>9. P[1] = M[<<"block", p, EmptyScope>>]
  BY DEF Derives
<1> QED
  BY <1>1, <1>2, <1>4, <1>6, <1>7, <1>8, <1>9 DEF Derives, t

(* A statement ends; what it has bound is not in an enclosing scope.       *)
LEMMA StmtEnds ==
    ASSUME NEW M, NEW P, NEW p, NEW s \in Seq(Frames), NEW c, IsChain(c), NEW r,
           Derives(M, P, p, s, c, r),
           s # <<>>, Last(s).fn = "StmtVisitor",
           NEW d, Len(d) = Len(c),
           \A i \in Nat : i < Len(c) => HeldBy(d, i) = HeldBy(c, i),
           NEW w, w # <<"call">>, Ended(Flat(d), w) \in P[Len(s)]
    PROVE  Derives(M, P, p, Pop(s), d, w)
<1> DEFINE n == Len(s)
           t == Pop(s)
<1>1. n \in Nat /\ n > 0 /\ Len(c) \in Nat
  BY DEF IsChain
<1>2. /\ Len(t) = n - 1
      /\ \A i \in 1..(n - 1) : t[i] = s[i]
  BY <1>1, PopSequence
<1>3. n = Len(c)
  BY <1>1 DEF Derives, FrameShape, Last
<1> HIDE DEF n, t
<1>4. FrameShape(t, Len(d)) /\ \A i \in 1..Len(t) : OperandKept(t[i])
  <2>1. FrameShape(s, Len(d)) /\ \A i \in 1..n : OperandKept(s[i])
    BY DEF Derives, n
  <2>2. Len(d) <= n /\ Len(d) \in Nat /\ Len(s) = n
    BY <1>1, <1>3 DEF n
  <2> QED
    BY <1>1, <1>2, <2>1, <2>2, ShapeOfPopped
<1>5. LinksUpTo(M, P, s, c, n - 1)
  BY DEF Derives, n
<1>6. \A i \in 1..(n - 1) : s[i].fn = "VisitBlock" /\ HeldBy(d, i) = HeldBy(c, i)
  BY <1>1, <1>3 DEF Derives, FrameShape, n
<1>7. LinksUpTo(M, P, t, d, n - 1)
  BY <1>1, <1>2, <1>5, <1>6, LinksKept
<1>8. LinksUpTo(M, P, t, d, n - 2)
  BY <1>1, <1>7 DEF LinksUpTo
<1>9. AnswerOf(t, d, w) = Ended(Flat(d), w) /\ Ended(Flat(d), w) \in P[Len(t) + 1]
  BY <1>1, <1>2, <1>3 DEF AnswerOf, n
<1>10. P[1] = M[<<"block", p, EmptyScope>>]
  BY DEF Derives
<1> QED
  BY <1>1, <1>2, <1>4, <1>7, <1>8, <1>9, <1>10 DEF Derives, t

(* The top frame becomes f and calls g.                                    *)
LEMMA FrameCalls ==
    ASSUME NEW M, NEW P, NEW p, NEW s \in Seq(Frames), NEW c, IsChain(c), NEW r,
           Derives(M, P, p, s, c, r), s # <<>>,
           NEW f \in Frames, f.fn = Last(s).fn, OperandKept(f),
           NEW g \in Frames, g.fn = "ExprVisitor" => g.lhs = <<>>,
           \/ g.fn = "ExprVisitor" /\ f.fn # "VisitBlock"
           \/ g.fn = "StmtVisitor" /\ f.fn = "VisitBlock" /\ Len(s) + 1 = Len(c),
           \A x \in Starts(M, c, g) : GoesOn(M, c, Len(s), f, x) \subseteq P[Len(s)]
    PROVE  \E Q : Derives(M, Q, p, Append(Append(Pop(s), f), g), c, <<"call">>)
<1> DEFINE n == Len(s)
           t == Append(Append(Pop(s), f), g)
           Q == [i \in Nat |-> IF i = n + 1 THEN Starts(M, c, g) ELSE P[i]]
<1>1. n \in Nat /\ n > 0 /\ Len(c) \in Nat
  BY DEF IsChain
<1>2. /\ Len(t) = n + 1
      /\ \A i \in 1..(n - 1) : t[i] = s[i]
      /\ t[n] = f
      /\ t[n + 1] = g
  BY ReplacedTop
<1>3. Q[n + 1] = Starts(M, c, g) /\ \A i \in 1..n : Q[i] = P[i]
  BY <1>1
<1> HIDE DEF n, t, Q
<1>4. FrameShape(t, Len(c))
  <2>1. /\ Len(c) <= n + 1
        /\ \A i \in 1..n :
               s[i].fn = IF i < Len(c) THEN "VisitBlock"
                         ELSE IF i = Len(c) THEN "StmtVisitor" ELSE "ExprVisitor"
    BY DEF Derives, FrameShape, n
  <2>2. f.fn = s[n].fn
    BY DEF Last, n
  <2>3. g.fn = IF n + 1 = Len(c) THEN "StmtVisitor" ELSE "ExprVisitor"
    BY <1>1, <2>1, <2>2 DEF n
  <2>4. \A i \in 1..(n + 1) :
            t[i].fn = IF i < Len(c) THEN "VisitBlock"
                      ELSE IF i = Len(c) THEN "StmtVisitor" ELSE "ExprVisitor"
    <3>1. \A i \in 1..n : t[i].fn = s[i].fn
      BY <1>1, <1>2, <2>2
    <3>2. \A i \in 1..(n + 1) : i \in 1..n \/ i = n + 1
      BY <1>1
    <3> QED
      BY <1>1, <1>2, <2>1, <2>3, <3>1, <3>2
  <2> QED
    BY <1>1, <1>2, <2>1, <2>4 DEF FrameShape
<1>5. \A i \in 1..Len(t) : OperandKept(t[i])
  <2>1. OperandKept(g)
    BY DEF OperandKept
  <2> QED
    BY <1>1, <1>2, <2>1 DEF Derives, n
<1>6. LinksUpTo(M, P, s, c, n - 1)
  BY DEF Derives, n
<1>7. LinksUpTo(M, Q, t, c, n - 1)
  BY ONLY <1>1, <1>2, <1>3, <1>6, LinksKept
<1>8. \A x \in Q[n + 1] : GoesOn(M, c, n, t[n], x) \subseteq Q[n]
  BY <1>1, <1>2, <1>3 DEF n
<1>9. LinksUpTo(M, Q, t, c, Len(t) - 1)
  BY <1>1, <1>2, <1>7, <1>8 DEF LinksUpTo
<1>10. Q[1] = M[<<"block", p, EmptyScope>>]
  BY <1>1, <1>3 DEF Derives
<1>11. Starts(M, c, t[Len(t)]) \subseteq Q[Len(t)]
  BY <1>2, <1>3
<1>12. t[Len(t)].fn = "ExprVisitor" => t[Len(t)].lhs = <<>>
  BY <1>2
<1>13. Derives(M, Q, p, t, c, <<"call">>)
  BY <1>4, <1>5, <1>9, <1>10, <1>11, <1>12 DEF Derives
<1> QED
  BY <1>13 DEF t

(* The top frame ends by calling g.                                        *)
LEMMA FrameTailCalls ==
    ASSUME NEW M, NEW P, NEW p, NEW s \in Seq(Frames), NEW c, IsChain(c), NEW r,
           Derives(M, P, p, s, c, r), s # <<>>, Last(s).fn = "ExprVisitor",
           NEW g \in Frames, g.fn = "ExprVisitor", g.lhs = <<>>,
           Starts(M, c, g) \subseteq P[Len(s)]
    PROVE  Derives(M, P, p, Append(Pop(s), g), c, <<"call">>)
<1> DEFINE n == Len(s)
           t == Append(Pop(s), g)
<1>1. n \in Nat /\ n > 0 /\ Len(c) \in Nat
  BY DEF IsChain
<1>2. /\ Len(t) = n
      /\ \A i \in 1..(n - 1) : t[i] = s[i]
      /\ t[n] = g
  BY ReplacedTop
<1> HIDE DEF n, t
<1>4. FrameShape(t, Len(c))
  <2>1. FrameShape(s, Len(c)) /\ s[n].fn = "ExprVisitor" /\ n \in 1..n
    BY <1>1 DEF Derives, Last, n
  <2>2. Len(c) < n
    BY <1>1, <2>1 DEF FrameShape, n
  <2>3. \A i \in 1..(n - 1) : i \in 1..n /\ t[i].fn = s[i].fn
    BY <1>1, <1>2
  <2>4. t[n].fn = s[n].fn
    BY <1>2, <2>1
  <2>5. \A i \in 1..n : t[i].fn = s[i].fn
    BY <1>1, <2>3, <2>4
  <2> QED
    BY <1>1, <1>2, <2>1, <2>2, <2>5 DEF FrameShape, n
<1>5. \A i \in 1..Len(t) : OperandKept(t[i])
  <2>1. OperandKept(g)
    BY DEF OperandKept
  <2> QED
    BY <1>1, <1>2, <2>1 DEF Derives, n
<1>6. LinksUpTo(M, P, s, c, n - 1)
  BY DEF Derives, n
<1>7. LinksUpTo(M, P, t, c, n - 1)
  BY ONLY <1>1, <1>2, <1>6, LinksKept
<1>8. P[1] = M[<<"block", p, EmptyScope>>]
  BY DEF Derives
<1>9. Starts(M, c, t[Len(t)]) \subseteq P[Len(t)] /\ t[Len(t)].lhs = <<>>
  BY <1>2 DEF n
<1>10. Derives(M, P, p, t, c, <<"call">>)
  BY <1>2, <1>4, <1>5, <1>7, <1>8, <1>9 DEF Derives
<1> QED
  BY <1>10 DEF t

----------------------------------------------------------------------------
(* The derivation goes on with every step.                                 *)
Deriving(M, P) == Derives(M, P, program, stack, scopes, ret)

LEMMA ChainOfScopes ==
    ASSUME InterpreterInv
    PROVE  /\ IsChain(scopes)
           /\ Flat(scopes) \in Bindings
           /\ stack \in Seq(Frames)
BY ScopesFacts, FlatIsBindings DEF IsChain, InterpreterInv, TypeOK

(* What a derivation says of the visitor on top.                           *)
LEMMA ExprOnTop ==
    ASSUME NEW M, Obeys(M), NEW P, InterpreterInv, In("ExprVisitor"), Deriving(M, P)
    PROVE  /\ stack # <<>> /\ Last(stack) = Top /\ Below = Pop(stack)
           /\ Top \in Frames /\ Top.fn = "ExprVisitor"
           /\ Top.node \in Expressions /\ ExpressionIsWellFormed(Top.node)
           /\ Top.lhs \in Seq(LualikeValues)
           /\ \A v \in LualikeValues : [Top EXCEPT !.lhs = <<v>>] \in Frames
           /\ OperandKept(Top)
           /\ Called => /\ Top.lhs = <<>>
                        /\ RulesIn(M, <<"expr", Top.node, Flat(scopes)>>)
                               \subseteq P[Len(stack)]
           /\ ~Called => ExprGoesOn(M, Top, Flat(scopes), ret) \subseteq P[Len(stack)]
<1> DEFINE n == Len(stack)
<1>1. stack # <<>> /\ Top.fn = "ExprVisitor"
  BY DEF In
<1>2. /\ IsChain(scopes) /\ Flat(scopes) \in Bindings
      /\ StackOK(stack) /\ stack \in Seq(Frames)
  BY ChainOfScopes DEF InterpreterInv
<1>3. Last(stack) = Top /\ Below = Pop(stack) /\ stack[n] = Top
  BY DEF Top, Below, Last, Pop
<1>4. Top \in Frames
  BY <1>1, <1>2, <1>3, PopFrame
<1>5. /\ Top.node \in Expressions /\ ExpressionIsWellFormed(Top.node)
      /\ Top.lhs \in Seq(LualikeValues)
      /\ \A v \in LualikeValues : [Top EXCEPT !.lhs = <<v>>] \in Frames
  BY <1>1, <1>4, PartsOfFrames
<1>6. n \in Nat /\ n > 0 /\ n \in 1..n
  BY <1>1, <1>2
<1>7. OperandKept(Top)
  BY <1>3, <1>6 DEF Deriving, Derives
<1>8. ASSUME Called
      PROVE  /\ Top.lhs = <<>>
             /\ RulesIn(M, <<"expr", Top.node, Flat(scopes)>>) \subseteq P[n]
  <2>1. Starts(M, scopes, Top) \subseteq P[n] /\ Top.lhs = <<>>
    BY <1>1, <1>3, <1>8 DEF Deriving, Derives, Called
  <2>2. RulesIn(M, <<"expr", Top.node, Flat(scopes)>>)
            \subseteq M[<<"expr", Top.node, Flat(scopes)>>]
    BY <1>2, <1>5, PhrasesOfNodes DEF Obeys
  <2> QED
    BY <1>1, <2>1, <2>2 DEF Starts
<1>9. ASSUME ~Called
      PROVE  ExprGoesOn(M, Top, Flat(scopes), ret) \subseteq P[n]
  <2>1. /\ LinksUpTo(M, P, stack, scopes, n)
        /\ AnswerOf(stack, scopes, ret) \in P[n + 1]
    BY <1>9 DEF Deriving, Derives, Called
  <2>2. Len(scopes) \in Nat
    BY <1>2 DEF IsChain
  <2>3. ~(n < Len(scopes))
    BY <1>1, <1>3, <1>6, <2>2 DEF Deriving, Derives, FrameShape
  <2>4. ret \in P[n + 1]
    BY <2>1, <2>3 DEF AnswerOf
  <2>5. GoesOn(M, scopes, n, Top, ret) \subseteq P[n]
    BY <1>3, <1>6, <2>1, <2>4 DEF LinksUpTo
  <2> QED
    BY <1>1, <2>5 DEF GoesOn
<1> QED
  BY <1>1, <1>3, <1>4, <1>5, <1>7, <1>8, <1>9

LEMMA StmtOnTop ==
    ASSUME NEW M, Obeys(M), NEW P, InterpreterInv, In("StmtVisitor"), Deriving(M, P)
    PROVE  /\ stack # <<>> /\ Last(stack) = Top /\ Below = Pop(stack)
           /\ Top \in Frames /\ Top.fn = "StmtVisitor" /\ OperandKept(Top)
           /\ Top.node \in Statements /\ StatementIsWellFormed(Top.node)
           /\ Len(scopes) = Len(stack)
           /\ Called => RulesIn(M, <<"stmt", Top.node, Flat(scopes)>>)
                            \subseteq P[Len(stack)]
           /\ ~Called => StmtGives(M, Top.node, Flat(scopes), ret) \subseteq P[Len(stack)]
<1> DEFINE n == Len(stack)
<1>1. stack # <<>> /\ Top.fn = "StmtVisitor"
  BY DEF In
<1>2. /\ IsChain(scopes) /\ Flat(scopes) \in Bindings
      /\ StackOK(stack) /\ stack \in Seq(Frames)
  BY ChainOfScopes DEF InterpreterInv
<1>3. Last(stack) = Top /\ Below = Pop(stack) /\ stack[n] = Top
  BY DEF Top, Below, Last, Pop
<1>4. Top \in Frames
  BY <1>1, <1>2, <1>3, PopFrame
<1>5. Top.node \in Statements /\ StatementIsWellFormed(Top.node)
  BY <1>1, <1>4, PartsOfFrames
<1>6. n \in Nat /\ n > 0 /\ n \in 1..n
  BY <1>1, <1>2
<1>7. OperandKept(Top)
  BY <1>1 DEF OperandKept
<1>8. Len(scopes) \in Nat
  BY <1>2 DEF IsChain
<1>9. Len(scopes) = n
  BY <1>1, <1>3, <1>6, <1>8 DEF Deriving, Derives, FrameShape
<1>10. ASSUME Called
       PROVE  RulesIn(M, <<"stmt", Top.node, Flat(scopes)>>) \subseteq P[n]
  <2>1. Starts(M, scopes, Top) \subseteq P[n]
    BY <1>1, <1>3, <1>10 DEF Deriving, Derives, Called
  <2>2. RulesIn(M, <<"stmt", Top.node, Flat(scopes)>>)
            \subseteq M[<<"stmt", Top.node, Flat(scopes)>>]
    BY <1>2, <1>5, PhrasesOfNodes DEF Obeys
  <2> QED
    BY <1>1, <2>1, <2>2 DEF Starts
<1>11. ASSUME ~Called
       PROVE  StmtGives(M, Top.node, Flat(scopes), ret) \subseteq P[n]
  <2>1. /\ LinksUpTo(M, P, stack, scopes, n)
        /\ AnswerOf(stack, scopes, ret) \in P[n + 1]
    BY <1>11 DEF Deriving, Derives, Called
  <2>2. ~(n < Len(scopes))
    BY <1>6, <1>9
  <2>3. ret \in P[n + 1]
    BY <2>1, <2>2 DEF AnswerOf
  <2>4. GoesOn(M, scopes, n, Top, ret) \subseteq P[n]
    BY <1>3, <1>6, <2>1, <2>3 DEF LinksUpTo
  <2> QED
    BY <1>1, <2>4 DEF GoesOn
<1> QED
  BY <1>1, <1>3, <1>4, <1>5, <1>7, <1>9, <1>10, <1>11

LEMMA BlockOnTopDerives ==
    ASSUME NEW M, NEW P, InterpreterInv, In("VisitBlock"), ~Called, Deriving(M, P)
    PROVE  /\ stack # <<>> /\ Last(stack) = Top /\ Below = Pop(stack)
           /\ Top \in Frames /\ Top.fn = "VisitBlock" /\ Top.rest \in Blocks
           /\ Len(scopes) = Len(stack) + 1
           /\ \A y \in Remaining(M, Top.rest, Ended(Flat(scopes), ret)) :
                  Kept(HeldBy(scopes, Len(stack)), y) \in P[Len(stack)]
<1> DEFINE n == Len(stack)
<1>1. stack # <<>> /\ Top.fn = "VisitBlock"
  BY DEF In
<1>2. /\ IsChain(scopes) /\ StackOK(stack) /\ stack \in Seq(Frames)
  BY ChainOfScopes DEF InterpreterInv
<1>3. Last(stack) = Top /\ Below = Pop(stack) /\ stack[n] = Top
  BY DEF Top, Below, Last, Pop
<1>4. Top \in Frames
  BY <1>1, <1>2, <1>3, PopFrame
<1>5. Top.rest \in Blocks
  BY <1>1, <1>4, PartsOfFrames
<1>6. n \in Nat /\ n > 0 /\ n \in 1..n /\ Len(scopes) \in Nat
  BY <1>1, <1>2 DEF IsChain
<1>7. Len(scopes) = n + 1
  BY <1>1, <1>3, <1>6 DEF Deriving, Derives, FrameShape
<1>8. /\ LinksUpTo(M, P, stack, scopes, n)
      /\ AnswerOf(stack, scopes, ret) \in P[n + 1]
  BY DEF Deriving, Derives, Called
<1>9. Ended(Flat(scopes), ret) \in P[n + 1]
  BY <1>6, <1>7, <1>8 DEF AnswerOf
<1>10. GoesOn(M, scopes, n, Top, Ended(Flat(scopes), ret)) \subseteq P[n]
  BY <1>3, <1>6, <1>8, <1>9 DEF LinksUpTo
<1> QED
  BY <1>1, <1>3, <1>4, <1>5, <1>7, <1>10 DEF GoesOn

----------------------------------------------------------------------------
(* The steps of ExprVisitor.                                               *)
LEMMA ExprStepDerives ==
    ASSUME NEW M, Obeys(M), NEW P, InterpreterInv, ExprStep, Deriving(M, P)
    PROVE  \E Q : Deriving(M, Q)'
<1> DEFINE env == Flat(scopes)
           n == Len(stack)
<1>1. UNCHANGED <<program, scopes>>
  BY DEF ExprStep, EvalLiteral, EvalVariable, EvalFirstOperand, ApplyUnary,
         ShortCircuit, EvalRhs, ApplyBinary, EvalUnimplemented
<1>2. In("ExprVisitor")
  BY DEF ExprStep, EvalLiteral, EvalVariable, EvalFirstOperand, ApplyUnary,
         ShortCircuit, EvalRhs, ApplyBinary, EvalUnimplemented, AtExpr
<1>3. /\ stack # <<>> /\ Last(stack) = Top /\ Below = Pop(stack)
      /\ Top \in Frames /\ Top.fn = "ExprVisitor"
      /\ Top.node \in Expressions /\ ExpressionIsWellFormed(Top.node)
      /\ Top.lhs \in Seq(LualikeValues)
      /\ \A v \in LualikeValues : [Top EXCEPT !.lhs = <<v>>] \in Frames
      /\ OperandKept(Top)
  BY <1>2, ExprOnTop
<1>4. Called => /\ Top.lhs = <<>>
                /\ RulesIn(M, <<"expr", Top.node, env>>) \subseteq P[n]
  BY <1>2, ExprOnTop
<1>5. ~Called => ExprGoesOn(M, Top, env, ret) \subseteq P[n]
  BY <1>2, ExprOnTop
<1>6. IsChain(scopes) /\ stack \in Seq(Frames) /\ Append(Pop(stack), Top) = stack
  BY <1>3, ChainOfScopes, ReplacedTop
<1>7. GotValue => ~Called /\ ret[1] = "value" /\ ret[2] \in LualikeValues
  BY ValueOfResult DEF GotValue, Called, InterpreterInv, TypeOK
<1> HIDE DEF env, n
(* A value or an error that the expression can end with.                   *)
<1>8. ASSUME NEW w, Answer(w), w # <<"call">>, w \in P[n]
      PROVE  \E Q : Deriving(M, Q)'
  <2>1. Derives(M, P, program, Pop(stack), scopes, w)
    BY <1>3, <1>6, <1>8, ExprEnds DEF Deriving, n
  <2> QED
    BY <1>1, <1>3, <1>8, <2>1 DEF Deriving, Answer
(* A call of g by what the frame has become, f.                            *)
<1>9. ASSUME NEW f \in Frames, f.fn = "ExprVisitor", OperandKept(f),
             NEW e \in Expressions,
             stack' = Append(Append(Below, f), ExprFrame(e)), ret' = <<"call">>,
             \A x \in M[<<"expr", e, env>>] : ExprGoesOn(M, f, env, x) \subseteq P[n]
      PROVE  \E Q : Deriving(M, Q)'
  <2> DEFINE g == ExprFrame(e)
  <2>1. g \in Frames /\ g.fn = "ExprVisitor" /\ g.lhs = <<>> /\ g.node = e
    BY FramesOfNodes DEF ExprFrame
  <2> HIDE DEF g
  <2>2. \A x \in Starts(M, scopes, g) : GoesOn(M, scopes, n, f, x) \subseteq P[n]
    BY <1>9, <2>1 DEF Starts, GoesOn, env
  <2>3. \E Q : Derives(M, Q, program, Append(Append(Pop(stack), f), g), scopes, <<"call">>)
    BY <1>3, <1>6, <1>9, <2>1, <2>2, FrameCalls DEF Deriving, n
  <2> QED
    BY <1>1, <1>3, <1>9, <2>3 DEF Deriving, g
<1>10. ASSUME EvalLiteral PROVE \E Q : Deriving(M, Q)'
  <2> DEFINE w == <<"value", Top.node.value>>
  <2>1. Called /\ Top.node.kind = "Literal" /\ Answer(w) /\ w # <<"call">>
    BY <1>10 DEF EvalLiteral, AtExpr
  <2>2. w \in RulesIn(M, <<"expr", Top.node, env>>)
    BY <2>1, RuleOfLeaf
  <2> QED
    BY <1>4, <1>8, <2>1, <2>2
<1>11. ASSUME EvalVariable PROVE \E Q : Deriving(M, Q)'
  <2> DEFINE name == Top.node.name
             w == IF Get(scopes, name) # Absent THEN <<"value", Get(scopes, name)>>
                  ELSE ErrorAt("UnknownVariable", Top.node.span)
  <2>1. Called /\ Top.node.kind = "Variable" /\ Answer(w)
    BY <1>11 DEF EvalVariable, AtExpr
  <2>2. w # <<"call">>
    BY DEF ErrorAt
  <2>3. name \in Names
    BY <1>3, <2>1 DEF ExpressionIsWellFormed
  <2>4. env[name] = Get(scopes, name)
    BY <2>3 DEF env, Flat
  <2>5. w \in RulesIn(M, <<"expr", Top.node, env>>)
    BY <2>1, <2>4, RuleOfLeaf
  <2> QED
    BY <1>4, <1>8, <2>1, <2>2, <2>5
<1>12. ASSUME EvalFirstOperand PROVE \E Q : Deriving(M, Q)'
  <2>1. Called
    BY <1>12 DEF EvalFirstOperand
  <2>2. CASE Top.node.kind = "Unary" /\ Call(ExprFrame(Top.node.rhs))
    <3>1. Top.node.rhs \in Expressions
      BY <1>3, <2>2 DEF ExpressionIsWellFormed
    <3>2. \A x \in M[<<"expr", Top.node.rhs, env>>] :
              UnaryResults(Top.node, x) \subseteq RulesIn(M, <<"expr", Top.node, env>>)
      BY <2>2, RuleOfUnary
    <3>3. \A x \in M[<<"expr", Top.node.rhs, env>>] :
              ExprGoesOn(M, Top, env, x) \subseteq P[n]
      BY <1>4, <2>1, <2>2, <3>2 DEF ExprGoesOn
    <3> QED
      BY <1>3, <1>6, <1>9, <2>2, <3>1, <3>3 DEF Call
  <2>3. CASE Top.node.kind = "Binary" /\ Call(ExprFrame(Top.node.lhs))
    <3>1. Top.node.lhs \in Expressions
      BY <1>3, <2>3 DEF ExpressionIsWellFormed
    <3>2. \A x \in M[<<"expr", Top.node.lhs, env>>] :
              BinaryResults(Top.node, x, M[<<"expr", Top.node.rhs, env>>])
                  \subseteq RulesIn(M, <<"expr", Top.node, env>>)
      BY <2>3, RuleOfBinary
    <3>3. \A x \in M[<<"expr", Top.node.lhs, env>>] :
              ExprGoesOn(M, Top, env, x) \subseteq P[n]
      BY <1>4, <2>1, <2>3, <3>2 DEF ExprGoesOn
    <3> QED
      BY <1>3, <1>6, <1>9, <2>3, <3>1, <3>3 DEF Call
  <2> QED
    BY <1>12, <2>2, <2>3 DEF EvalFirstOperand, AtExpr
<1>13. ASSUME ApplyUnary PROVE \E Q : Deriving(M, Q)'
  <2>1. Top.node.kind = "Unary" /\ GotValue
    BY <1>13 DEF ApplyUnary, AtExpr
  <2>2. PICK o \in UnaryOutcomes(Top.node.op, ret[2]) :
            Answer(OutcomeAt(o, Top.node.span))
    BY <1>13 DEF ApplyUnary
  <2>3. OutcomeAt(o, Top.node.span) \in UnaryResults(Top.node, ret)
    BY <1>7, <2>1, <2>2 DEF UnaryResults, OnValue
  <2>4. OutcomeAt(o, Top.node.span) \in P[n]
    BY <1>5, <1>7, <2>1, <2>3 DEF ExprGoesOn
  <2>5. OutcomeAt(o, Top.node.span) # <<"call">>
    BY DEF OutcomeAt, ErrorAt
  <2> QED
    BY <1>8, <2>2, <2>4, <2>5
<1>14. ASSUME ShortCircuit PROVE \E Q : Deriving(M, Q)'
  <2> DEFINE rhs == M[<<"expr", Top.node.rhs, env>>]
  <2>1. Top.node.kind = "Binary" /\ IsLogical(Top.node.op) /\ GotValue
    BY <1>14 DEF ShortCircuit, AtExpr
  <2>2. Top.lhs = <<>>
    BY <1>3, <2>1 DEF OperandKept
  <2>3. BinaryResults(Top.node, ret, rhs) \subseteq P[n]
    BY <1>5, <1>7, <2>1, <2>2 DEF ExprGoesOn
  <2>4. BinaryResults(Top.node, ret, rhs) =
            IF Decides(Top.node.op, ret[2]) THEN {ret} ELSE rhs
    BY <1>7, <2>1 DEF BinaryResults, OnValue, Decides, IsLogical
  <2>5. CASE Decides(Top.node.op, ret[2])
    <3>1. Answer(ret) /\ ret \in P[n] /\ ret # <<"call">>
      BY <1>7, <1>14, <2>1, <2>3, <2>4, <2>5 DEF ShortCircuit, Called
    <3> QED
      BY <1>8, <3>1
  <2>6. CASE ~Decides(Top.node.op, ret[2])
    <3> DEFINE g == ExprFrame(Top.node.rhs)
    <3>1. TailCall(g)
      BY <1>14, <2>6 DEF ShortCircuit
    <3>2. Top.node.rhs \in Expressions
      BY <1>3, <2>1 DEF ExpressionIsWellFormed
    <3>3. /\ g \in Frames /\ g.fn = "ExprVisitor" /\ g.lhs = <<>>
          /\ g.node = Top.node.rhs
      BY <3>2, FramesOfNodes DEF ExprFrame
    <3> HIDE DEF g
    <3>4. Starts(M, scopes, g) \subseteq P[n]
      BY <2>3, <2>4, <2>6, <3>3 DEF Starts, env
    <3>5. Derives(M, P, program, Append(Pop(stack), g), scopes, <<"call">>)
      BY <1>3, <1>6, <3>3, <3>4, FrameTailCalls DEF Deriving, n
    <3> QED
      BY <1>1, <1>3, <3>1, <3>5 DEF Deriving, TailCall
  <2> QED
    BY <2>5, <2>6
<1>15. ASSUME EvalRhs PROVE \E Q : Deriving(M, Q)'
  <2> DEFINE rhs == M[<<"expr", Top.node.rhs, env>>]
             f == [Top EXCEPT !.lhs = <<ret[2]>>]
  <2>1. /\ Top.node.kind = "Binary" /\ ~IsLogical(Top.node.op) /\ GotValue
        /\ Top.lhs = <<>>
    BY <1>15 DEF EvalRhs, AtExpr
  <2>2. BinaryResults(Top.node, ret, rhs) \subseteq P[n]
    BY <1>5, <1>7, <2>1 DEF ExprGoesOn
  <2>3. \A x \in rhs : OperatorResults(Top.node, ret[2], x) \subseteq P[n]
    <3>1. BinaryResults(Top.node, ret, rhs) =
              UNION {OperatorResults(Top.node, ret[2], x) : x \in rhs}
      BY <1>7, <2>1 DEF BinaryResults, OnValue, IsLogical
    <3> QED
      BY <2>2, <3>1
  <2>4. /\ f \in Frames /\ f.fn = "ExprVisitor" /\ f.node = Top.node
        /\ f.lhs = <<ret[2]>>
    BY <1>3, <1>7, <2>1 DEF Frames
  <2>5. Top.node.rhs \in Expressions
    BY <1>3, <2>1 DEF ExpressionIsWellFormed
  <2>6. stack' = Append(Append(Below, f), ExprFrame(Top.node.rhs)) /\ ret' = <<"call">>
    BY <1>15 DEF EvalRhs
  <2> HIDE DEF f
  <2>7. OperandKept(f)
    BY <2>1, <2>4 DEF OperandKept
  <2>8. \A x \in rhs : ExprGoesOn(M, f, env, x) \subseteq P[n]
    BY <2>1, <2>3, <2>4 DEF ExprGoesOn
  <2> QED
    BY <1>9, <2>4, <2>5, <2>6, <2>7, <2>8
<1>16. ASSUME ApplyBinary PROVE \E Q : Deriving(M, Q)'
  <2>1. /\ Top.node.kind = "Binary" /\ ~IsLogical(Top.node.op) /\ GotValue
        /\ Top.lhs # <<>>
    BY <1>16 DEF ApplyBinary, AtExpr
  <2>2. PICK o \in BinaryOutcomes(Top.node.op, Top.lhs[1], ret[2]) :
            Answer(OutcomeAt(o, Top.node.span))
    BY <1>16 DEF ApplyBinary
  <2>3. OutcomeAt(o, Top.node.span) \in OperatorResults(Top.node, Top.lhs[1], ret)
    BY <1>7, <2>1, <2>2 DEF OperatorResults, OnValue
  <2>4. OutcomeAt(o, Top.node.span) \in P[n]
    BY <1>5, <1>7, <2>1, <2>3 DEF ExprGoesOn
  <2>5. OutcomeAt(o, Top.node.span) # <<"call">>
    BY DEF OutcomeAt, ErrorAt
  <2> QED
    BY <1>8, <2>2, <2>4, <2>5
<1>17. ASSUME EvalUnimplemented PROVE \E Q : Deriving(M, Q)'
  <2> DEFINE w == ErrorAt("UnimplementedExpression", Top.node.span)
  <2>1. Called /\ Top.node.kind = "FunctionCall" /\ Answer(w)
    BY <1>17 DEF EvalUnimplemented, AtExpr
  <2>2. w # <<"call">>
    BY DEF ErrorAt
  <2>3. w \in RulesIn(M, <<"expr", Top.node, env>>)
    BY <2>1, RuleOfLeaf
  <2> QED
    BY <1>4, <1>8, <2>1, <2>2, <2>3
<1> QED
  BY <1>10, <1>11, <1>12, <1>13, <1>14, <1>15, <1>16, <1>17 DEF ExprStep

(* The steps of StmtVisitor.                                               *)

(* What a statement does with the value of its expression.                 *)
LEMMA DeclarationGives ==
    ASSUME NEW M, NEW s, NEW env, NEW r, r[1] = "value",
           s.kind = "VariableDeclaration"
    PROVE  StmtGives(M, s, env, r) = {Bind(env, s.name, r[2])}
BY DEF StmtGives, StmtResultsOn, Effects

LEMMA AssignmentGives ==
    ASSUME NEW M, NEW s, NEW env, NEW r, r[1] = "value", s.kind = "Assignment"
    PROVE  StmtGives(M, s, env, r) =
               {IF env[s.name] = Absent
                THEN Ended(env, ErrorAt("UnknownVariable", s.span))
                ELSE Bind(env, s.name, r[2])}
BY DEF StmtGives, StmtResultsOn, Effects

LEMMA IfGives ==
    ASSUME NEW M, NEW s, NEW env, NEW r, r[1] = "value", s.kind = "IfStatement"
    PROVE  /\ Branch(s, r[2]) # <<>> =>
                StmtGives(M, s, env, r) = M[<<"block", Branch(s, r[2])[1], env>>]
           /\ Branch(s, r[2]) = <<>> =>
                StmtGives(M, s, env, r) = {Ended(env, <<"done">>)}
BY DEF StmtGives, StmtResultsOn, Effects, Branch

LEMMA ReturnGives ==
    ASSUME NEW M, NEW s, NEW env, NEW r, r[1] = "value", s.kind = "ReturnStatement"
    PROVE  StmtGives(M, s, env, r) = {Ended(env, <<"return", r[2]>>)}
BY DEF StmtGives, StmtResultsOn, Effects

LEMMA DiscardGives ==
    ASSUME NEW M, NEW s, NEW env, NEW r, r[1] = "value", s.kind = "ExpressionStatement"
    PROVE  StmtGives(M, s, env, r) = {Ended(env, <<"done">>)}
BY DEF StmtGives, StmtResultsOn, Effects

(* A block runs behind the statements that are still to come.              *)
LEMMA BlockRuns ==
    ASSUME NEW M, Obeys(M), NEW env \in Bindings, NEW b \in Blocks,
           NEW S, S = {m \in Names : env[m] # Absent}
    PROVE  \A y \in Remaining(M, b, Ended(env, <<"done">>)) :
               Kept(S, y) \in M[<<"block", b, env>>]
<1> SUFFICES ASSUME NEW y \in Remaining(M, b, Ended(env, <<"done">>))
             PROVE  Kept(S, y) \in M[<<"block", b, env>>]
  OBVIOUS
<1>1. y \in M[<<"sequence", b, env>>]
  BY DEF Remaining, Ended
<1>2. Kept(S, y) = Behind(env, y)
  <2>1. [m \in Names |-> IF m \in S THEN y.env[m] ELSE Absent]
            = [m \in Names |-> IF env[m] = Absent THEN Absent ELSE y.env[m]]
    OBVIOUS
  <2> QED
    BY <2>1 DEF Kept, Behind
<1>3. Behind(env, y) \in RulesIn(M, <<"block", b, env>>)
  BY <1>1, RuleOfBlock
<1>4. RulesIn(M, <<"block", b, env>>) \subseteq M[<<"block", b, env>>]
  BY PhrasesOfNodes DEF Obeys
<1> QED
  BY <1>2, <1>3, <1>4

LEMMA StmtStepDerives ==
    ASSUME NEW M, Obeys(M), NEW P, InterpreterInv, StmtStep, Deriving(M, P)
    PROVE  \E Q : Deriving(M, Q)'
<1> DEFINE env == Flat(scopes)
           n == Len(stack)
<1>1. program' = program
  BY DEF StmtStep, EvalStatementExpression, DeclareNil, Declare, AssignExisting,
         AssignUnknown, RunBranch, ReturnNothing, ReturnValue, DiscardValue,
         SkipFunctionDeclaration
<1>2. In("StmtVisitor")
  BY DEF StmtStep, EvalStatementExpression, DeclareNil, Declare, AssignExisting,
         AssignUnknown, RunBranch, ReturnNothing, ReturnValue, DiscardValue,
         SkipFunctionDeclaration, AtStmt
<1>3. /\ stack # <<>> /\ Last(stack) = Top /\ Below = Pop(stack)
      /\ Top \in Frames /\ Top.fn = "StmtVisitor" /\ OperandKept(Top)
      /\ Top.node \in Statements /\ StatementIsWellFormed(Top.node)
      /\ Len(scopes) = n
  BY <1>2, StmtOnTop
<1>4. Called => RulesIn(M, <<"stmt", Top.node, env>>) \subseteq P[n]
  BY <1>2, StmtOnTop
<1>5. ~Called => StmtGives(M, Top.node, env, ret) \subseteq P[n]
  BY <1>2, StmtOnTop
<1>6. /\ IsChain(scopes) /\ stack \in Seq(Frames) /\ Append(Pop(stack), Top) = stack
      /\ env \in Bindings
  BY <1>3, ChainOfScopes, ReplacedTop
<1>7. GotValue => ~Called /\ ret[1] = "value" /\ ret[2] \in LualikeValues
  BY ValueOfResult DEF GotValue, Called, InterpreterInv, TypeOK
<1>8. \A m \in Names : env[m] = Get(scopes, m)
  BY DEF env, Flat
<1> HIDE DEF env, n
(* The statement ends, and the scopes are as they were ...                 *)
<1>9. ASSUME NEW w, Answer(w), scopes' = scopes, w # <<"call">>, Ended(env, w) \in P[n]
      PROVE  \E Q : Deriving(M, Q)'
  <2>1. Derives(M, P, program, Pop(stack), scopes, w)
    BY <1>3, <1>6, <1>9, StmtEnds DEF Deriving, n, env
  <2> QED
    BY <1>1, <1>3, <1>9, <2>1 DEF Deriving, Answer
(* ... or have a value for a name.                                         *)
<1>10. ASSUME NEW m \in Names, NEW v \in LualikeValues, scopes' = Set(scopes, m, v),
              Answer(<<"done">>), Bind(env, m, v) \in P[n]
       PROVE  \E Q : Deriving(M, Q)'
  <2> DEFINE d == Set(scopes, m, v)
  <2>1. /\ Len(d) = Len(scopes)
        /\ Flat(d) = [env EXCEPT ![m] = v]
        /\ \A i \in Nat : i < Len(scopes) => HeldBy(d, i) = HeldBy(scopes, i)
    BY <1>6, <1>10, FlatAfterSet, ScopeValuesAssumption DEF env
  <2> HIDE DEF d
  <2>2. Ended(Flat(d), <<"done">>) \in P[n]
    BY <1>10, <2>1 DEF Bind, Ended
  <2>3. Derives(M, P, program, Pop(stack), d, <<"done">>)
    BY <1>3, <1>6, <2>1, <2>2, StmtEnds DEF Deriving, n
  <2> QED
    BY <1>1, <1>3, <1>10, <2>3 DEF Deriving, Answer, d
<1>11. ASSUME EvalStatementExpression PROVE \E Q : Deriving(M, Q)'
  <2> DEFINE e == FirstExpression(Top.node)[1]
             g == ExprFrame(e)
  <2>1. /\ Called /\ FirstExpression(Top.node) # <<>>
        /\ Call(g) /\ scopes' = scopes
    BY <1>11 DEF EvalStatementExpression
  <2>2. e \in Expressions
    BY <1>3, <2>1, FirstExpressionInExpressions
  <2>3. g \in Frames /\ g.fn = "ExprVisitor" /\ g.lhs = <<>> /\ g.node = e
    BY <2>2, FramesOfNodes DEF ExprFrame
  <2>4. RulesIn(M, <<"stmt", Top.node, env>>) =
            UNION {StmtGives(M, Top.node, env, x) : x \in M[<<"expr", e, env>>]}
    BY <2>1, RuleOfEvaluating
  <2>5. \A x \in M[<<"expr", e, env>>] : StmtGives(M, Top.node, env, x) \subseteq P[n]
    BY <1>4, <2>1, <2>4
  <2> HIDE DEF e, g
  <2>6. \A x \in Starts(M, scopes, g) : GoesOn(M, scopes, n, Top, x) \subseteq P[n]
    BY <1>3, <2>3, <2>5 DEF Starts, GoesOn, env
  <2>7. \E Q : Derives(M, Q, program, Append(Append(Pop(stack), Top), g), scopes, <<"call">>)
    BY <1>3, <1>6, <2>3, <2>6, FrameCalls DEF Deriving, n
  <2> QED
    BY <1>1, <1>3, <1>6, <2>1, <2>7 DEF Deriving, Call
<1>12. ASSUME DeclareNil PROVE \E Q : Deriving(M, Q)'
  <2>1. /\ Called /\ Top.node.kind = "VariableDeclaration"
        /\ Top.node.initializer = <<>>
        /\ scopes' = Set(scopes, Top.node.name, Nil) /\ Answer(<<"done">>)
    BY <1>12 DEF DeclareNil, AtStmt
  <2>2. Top.node.name \in Names /\ Nil \in LualikeValues
    BY <1>3, <2>1, PartsOfValues DEF StatementIsWellFormed
  <2>3. FirstExpression(Top.node) = <<>>
    BY <2>1 DEF FirstExpression
  <2>4. Bind(env, Top.node.name, Nil) \in RulesIn(M, <<"stmt", Top.node, env>>)
    BY <2>1, <2>3, RuleOfStatementAlone DEF EffectAlone
  <2> QED
    BY <1>4, <1>10, <2>1, <2>2, <2>4
<1>13. ASSUME Declare PROVE \E Q : Deriving(M, Q)'
  <2>1. /\ GotValue /\ Top.node.kind = "VariableDeclaration"
        /\ scopes' = Set(scopes, Top.node.name, ret[2]) /\ Answer(<<"done">>)
    BY <1>13 DEF Declare, AtStmt
  <2>2. Top.node.name \in Names
    BY <1>3, <2>1 DEF StatementIsWellFormed
  <2>3. Bind(env, Top.node.name, ret[2]) \in P[n]
    BY <1>5, <1>7, <2>1, DeclarationGives
  <2> QED
    BY <1>7, <1>10, <2>1, <2>2, <2>3
<1>14. ASSUME AssignExisting PROVE \E Q : Deriving(M, Q)'
  <2>1. /\ GotValue /\ Top.node.kind = "Assignment"
        /\ Get(scopes, Top.node.name) # Absent
        /\ scopes' = Set(scopes, Top.node.name, ret[2]) /\ Answer(<<"done">>)
    BY <1>14 DEF AssignExisting, AtStmt
  <2>2. Top.node.name \in Names
    BY <1>3, <2>1 DEF StatementIsWellFormed
  <2>3. StmtGives(M, Top.node, env, ret) = {Bind(env, Top.node.name, ret[2])}
    BY <1>7, <1>8, <2>1, <2>2, AssignmentGives
  <2> QED
    BY <1>5, <1>7, <1>10, <2>1, <2>2, <2>3
<1>15. ASSUME AssignUnknown PROVE \E Q : Deriving(M, Q)'
  <2> DEFINE w == ErrorAt("UnknownVariable", Top.node.span)
  <2>1. /\ GotValue /\ Top.node.kind = "Assignment"
        /\ Get(scopes, Top.node.name) = Absent
        /\ scopes' = scopes /\ Answer(w)
    BY <1>15 DEF AssignUnknown, AtStmt
  <2>2. Top.node.name \in Names
    BY <1>3, <2>1 DEF StatementIsWellFormed
  <2>3. StmtGives(M, Top.node, env, ret) = {Ended(env, w)}
    BY <1>7, <1>8, <2>1, <2>2, AssignmentGives
  <2>4. w # <<"call">>
    BY DEF ErrorAt
  <2> QED
    BY <1>5, <1>7, <1>9, <2>1, <2>3, <2>4
<1>16. ASSUME RunBranch PROVE \E Q : Deriving(M, Q)'
  <2> DEFINE branch == Branch(Top.node, ret[2])
  <2>1. GotValue /\ Top.node.kind = "IfStatement"
    BY <1>16 DEF RunBranch, AtStmt
  <2>2. branch \in Seq(Blocks)
    BY <1>3, <2>1 DEF StatementIsWellFormed, Branch
  <2>3. /\ branch # <<>> =>
             StmtGives(M, Top.node, env, ret) = M[<<"block", branch[1], env>>]
        /\ branch = <<>> => StmtGives(M, Top.node, env, ret) = {Ended(env, <<"done">>)}
    BY <1>7, <2>1, IfGives
  <2>4. \/ /\ branch # <<>>
           /\ stack' = Append(Below, BlockFrame(branch[1]))
           /\ scopes' = Enter(scopes)
           /\ ret' = <<"done">>
        \/ branch = <<>> /\ Answer(<<"done">>) /\ scopes' = scopes
    BY <1>16 DEF RunBranch
  <2> HIDE DEF branch
  <2>5. CASE branch = <<>> /\ Answer(<<"done">>) /\ scopes' = scopes
    BY <1>5, <1>7, <1>9, <2>1, <2>3, <2>5
  <2>6. CASE /\ branch # <<>>
             /\ stack' = Append(Below, BlockFrame(branch[1]))
             /\ scopes' = Enter(scopes)
             /\ ret' = <<"done">>
    <3> DEFINE b == branch[1]
               f == BlockFrame(b)
               t == Append(Pop(stack), f)
               d == Enter(scopes)
               Q == [i \in Nat |-> IF i = n + 1 THEN {Ended(env, <<"done">>)} ELSE P[i]]
    <3>1. b \in Blocks
      BY <2>2, <2>6
    <3>2. f \in Frames /\ f.fn = "VisitBlock" /\ f.rest = b
      BY <3>1, FramesOfNodes DEF BlockFrame
    <3> HIDE DEF f
    <3>3. n \in Nat /\ n > 0 /\ Len(scopes) \in Nat
      BY <1>3, <1>6 DEF n, IsChain
    <3>4. /\ Len(t) = n
          /\ \A i \in 1..(n - 1) : t[i] = stack[i]
          /\ t[n] = f
      BY <1>3, <1>6, <3>2, ReplacedTop DEF n
    <3>5. /\ Len(d) = n + 1
          /\ Flat(d) = env
          /\ \A i \in Nat : i <= n => HeldBy(d, i) = HeldBy(scopes, i)
          /\ HeldBy(scopes, n) = {m \in Names : env[m] # Absent}
      BY <1>3, <1>6, FlatAfterEnter DEF env
    <3>6. Q[n + 1] = {Ended(env, <<"done">>)} /\ \A i \in 1..n : Q[i] = P[i]
      BY <3>3
    <3> HIDE DEF b, t, d, Q
    <3>7. FrameShape(t, Len(d))
      BY <1>3, <3>2, <3>3, <3>4, <3>5 DEF Deriving, Derives, FrameShape, n
    <3>8. \A i \in 1..Len(t) : OperandKept(t[i])
      <4>1. OperandKept(f)
        BY <3>2 DEF OperandKept
      <4> QED
        BY <3>3, <3>4, <4>1 DEF Deriving, Derives, n
    <3>9. LinksUpTo(M, P, stack, scopes, n - 1)
      BY DEF Deriving, Derives, n
    <3>10. \A i \in 1..(n - 1) :
               stack[i].fn = "VisitBlock" /\ HeldBy(d, i) = HeldBy(scopes, i)
      BY <1>3, <3>3, <3>5 DEF Deriving, Derives, FrameShape, n
    <3>11. LinksUpTo(M, Q, t, d, n - 1)
      BY <3>3, <3>4, <3>6, <3>9, <3>10, LinksKept
    <3>12. \A x \in Q[n + 1] : GoesOn(M, d, n, t[n], x) \subseteq Q[n]
      <4>1. HeldBy(d, n) = {m \in Names : env[m] # Absent}
        BY <3>3, <3>5
      <4>2. \A y \in Remaining(M, b, Ended(env, <<"done">>)) :
                Kept(HeldBy(d, n), y) \in M[<<"block", b, env>>]
        BY <1>6, <3>1, <4>1, BlockRuns
      <4>3. M[<<"block", b, env>>] \subseteq P[n]
        BY <1>5, <1>7, <2>1, <2>3, <2>6 DEF b
      <4>4. Q[n] = P[n]
        BY <3>3, <3>6
      <4> QED
        BY <3>2, <3>4, <3>6, <4>2, <4>3, <4>4 DEF GoesOn
    <3>13. LinksUpTo(M, Q, t, d, Len(t)) /\ LinksUpTo(M, Q, t, d, Len(t) - 1)
      BY <3>3, <3>4, <3>11, <3>12 DEF LinksUpTo
    <3>14. Q[1] = M[<<"block", program, EmptyScope>>]
      BY <3>3, <3>6 DEF Deriving, Derives
    <3>15. AnswerOf(t, d, <<"done">>) \in Q[Len(t) + 1]
      BY <3>3, <3>4, <3>5, <3>6 DEF AnswerOf
    <3>16. Derives(M, Q, program, t, d, <<"done">>)
      BY <3>7, <3>8, <3>13, <3>14, <3>15 DEF Derives
    <3> QED
      BY <1>1, <1>3, <2>6, <3>16 DEF Deriving, t, d, f, b
  <2> QED
    BY <2>4, <2>5, <2>6
<1>17. ASSUME ReturnNothing \/ SkipFunctionDeclaration PROVE \E Q : Deriving(M, Q)'
  <2>1. /\ Called /\ scopes' = scopes /\ Answer(<<"done">>)
        /\ Top.node.kind \in {"ReturnStatement", "FunctionDeclaration"}
        /\ Top.node.kind = "ReturnStatement" => Top.node.expression = <<>>
    BY <1>17 DEF ReturnNothing, SkipFunctionDeclaration, AtStmt
  <2>2. FirstExpression(Top.node) = <<>>
    BY <2>1 DEF FirstExpression
  <2>3. Ended(env, <<"done">>) \in RulesIn(M, <<"stmt", Top.node, env>>)
    BY <2>1, <2>2, RuleOfStatementAlone DEF EffectAlone
  <2> QED
    BY <1>4, <1>9, <2>1, <2>3
<1>18. ASSUME ReturnValue PROVE \E Q : Deriving(M, Q)'
  <2>1. /\ GotValue /\ scopes' = scopes /\ Answer(<<"return", ret[2]>>)
        /\ Top.node.kind = "ReturnStatement"
    BY <1>18 DEF ReturnValue, AtStmt
  <2>2. Ended(env, <<"return", ret[2]>>) \in P[n]
    BY <1>5, <1>7, <2>1, ReturnGives
  <2> QED
    BY <1>9, <2>1, <2>2
<1>19. ASSUME DiscardValue PROVE \E Q : Deriving(M, Q)'
  <2>1. /\ GotValue /\ scopes' = scopes /\ Answer(<<"done">>)
        /\ Top.node.kind = "ExpressionStatement"
    BY <1>19 DEF DiscardValue, AtStmt
  <2>2. Ended(env, <<"done">>) \in P[n]
    BY <1>5, <1>7, <2>1, DiscardGives
  <2> QED
    BY <1>9, <2>1, <2>2
<1> QED
  BY <1>11, <1>12, <1>13, <1>14, <1>15, <1>16, <1>17, <1>18, <1>19 DEF StmtStep

(* The steps of VisitBlock and Interpret.                                  *)
LEMMA StartDerives ==
    ASSUME NEW M, Obeys(M), NEW P, InterpreterInv, StartProgram, Deriving(M, P)
    PROVE  \E Q : Deriving(M, Q)'
<1> DEFINE f == BlockFrame(program)
           t == <<f>>
           c == scopes
           d == Enter(scopes)
           Q == [i \in Nat |-> IF i = 2 THEN {Ended(EmptyScope, <<"done">>)} ELSE P[i]]
<1>1. /\ stack = <<>> /\ stack' = t /\ scopes' = d /\ ret' = <<"done">>
      /\ program' = program
  BY DEF StartProgram
<1>2. program \in Blocks
  BY AstAssumption DEF InterpreterInv, TypeOK
<1>3. f.fn = "VisitBlock" /\ f.rest = program
  BY DEF BlockFrame
<1>4. IsChain(scopes) /\ Flat(scopes) \in Bindings
  BY ChainOfScopes
<1>5. Len(scopes) = 1
  <2>1. BlockFrames = {}
    BY <1>1 DEF BlockFrames
  <2> QED
    BY <2>1, FS_EmptySet DEF InterpreterInv, ScopeDiscipline
<1>6. Flat(scopes) = EmptyScope
  <2>1. scopes[1] = EmptyScope
    BY SameOperators DEF InterpreterInv, Scoping!ScopeInv, Scoping!RootStaysEmpty
  <2>2. \A n \in Names : Holders(scopes, n) = {}
    BY <1>5, <2>1 DEF Holders, EmptyScope
  <2> QED
    BY <2>2 DEF Flat, EmptyScope, Get
<1>7. /\ Len(d) = 2
      /\ Flat(d) = EmptyScope
      /\ HeldBy(d, 1) = {n \in Names : EmptyScope[n] # Absent}
  <2>1. /\ Len(d) = Len(scopes) + 1
        /\ Flat(d) = Flat(scopes)
        /\ \A i \in Nat : i <= Len(scopes) => HeldBy(d, i) = HeldBy(scopes, i)
        /\ HeldBy(scopes, Len(scopes)) = {n \in Names : Flat(scopes)[n] # Absent}
    BY <1>4, FlatAfterEnter
  <2> QED
    BY <1>5, <1>6, <2>1
<1>8. Len(t) = 1 /\ t[1] = f /\ Q[2] = {Ended(EmptyScope, <<"done">>)} /\ Q[1] = P[1]
  OBVIOUS
<1> HIDE DEF f, t, d, Q
<1>9. P[1] = M[<<"block", program, EmptyScope>>]
  BY DEF Deriving, Derives
<1>10. FrameShape(t, Len(d)) /\ \A i \in 1..Len(t) : OperandKept(t[i])
  BY <1>3, <1>7, <1>8 DEF FrameShape, OperandKept
<1>11. \A x \in Q[2] : GoesOn(M, d, 1, t[1], x) \subseteq Q[1]
  <2>1. \A y \in Remaining(M, program, Ended(EmptyScope, <<"done">>)) :
            Kept(HeldBy(d, 1), y) \in M[<<"block", program, EmptyScope>>]
    BY <1>2, <1>4, <1>6, <1>7, BlockRuns
  <2> QED
    BY <1>3, <1>8, <1>9, <2>1 DEF GoesOn
<1>12. LinksUpTo(M, Q, t, d, 1) /\ LinksUpTo(M, Q, t, d, 0)
  BY <1>11 DEF LinksUpTo
<1>13. AnswerOf(t, d, <<"done">>) \in Q[Len(t) + 1]
  BY <1>7, <1>8 DEF AnswerOf
<1>14. Derives(M, Q, program, t, d, <<"done">>)
  BY <1>8, <1>9, <1>10, <1>12, <1>13 DEF Derives
<1> QED
  BY <1>1, <1>14 DEF Deriving

LEMMA NextStatementDerives ==
    ASSUME NEW M, Obeys(M), NEW P, InterpreterInv, NextStatement, Deriving(M, P)
    PROVE  \E Q : Deriving(M, Q)'
<1> DEFINE env == Flat(scopes)
           n == Len(stack)
           f == BlockFrame(Tail(Top.rest))
           g == StmtFrame(Head(Top.rest))
<1>1. /\ In("VisitBlock") /\ ret = <<"done">> /\ Top.rest # <<>>
      /\ stack' = Append(Append(Below, f), g) /\ ret' = <<"call">>
      /\ UNCHANGED <<program, scopes>>
  BY DEF NextStatement, BlockGoesOn
<1>2. ~Called
  BY <1>1 DEF Called
<1>3. /\ stack # <<>> /\ Last(stack) = Top /\ Below = Pop(stack)
      /\ Top \in Frames /\ Top.fn = "VisitBlock" /\ Top.rest \in Blocks
      /\ Len(scopes) = n + 1
      /\ \A y \in Remaining(M, Top.rest, Ended(env, ret)) :
             Kept(HeldBy(scopes, n), y) \in P[n]
  BY <1>1, <1>2, BlockOnTopDerives
<1>4. IsChain(scopes) /\ env \in Bindings /\ stack \in Seq(Frames)
  BY ChainOfScopes
<1>5. Tail(Top.rest) \in Blocks /\ Head(Top.rest) \in Statements
  BY <1>1, <1>3 DEF Blocks
<1>6. /\ f \in Frames /\ f.fn = "VisitBlock" /\ f.rest = Tail(Top.rest)
      /\ g \in Frames /\ g.fn = "StmtVisitor" /\ g.node = Head(Top.rest)
  BY <1>5, FramesOfNodes DEF BlockFrame, StmtFrame
<1>7. OperandKept(f)
  BY <1>6 DEF OperandKept
<1> HIDE DEF f, g, env, n
<1>8. RulesIn(M, <<"sequence", Top.rest, env>>) \subseteq M[<<"sequence", Top.rest, env>>]
  BY <1>3, <1>4, PhrasesOfNodes DEF Obeys
<1>9. \A y \in M[<<"sequence", Top.rest, env>>] : Kept(HeldBy(scopes, n), y) \in P[n]
  BY <1>1, <1>3 DEF Remaining, Ended
<1>10. ASSUME NEW x \in Starts(M, scopes, g)
       PROVE  GoesOn(M, scopes, n, f, x) \subseteq P[n]
  <2>1. x \in M[<<"stmt", Head(Top.rest), env>>]
    BY <1>6 DEF Starts, env
  <2>2. Remaining(M, Tail(Top.rest), x) \subseteq RulesIn(M, <<"sequence", Top.rest, env>>)
    <3>1. CASE x.ret = <<"done">>
      BY <1>1, <2>1, <3>1, RuleOfSequenceGoesOn DEF Remaining
    <3>2. CASE x.ret # <<"done">>
      BY <1>1, <2>1, <3>2, RuleOfSequenceStops DEF Remaining
    <3> QED
      BY <3>1, <3>2
  <2> QED
    BY <1>6, <1>8, <1>9, <2>2 DEF GoesOn
<1>11. \E Q : Derives(M, Q, program, Append(Append(Pop(stack), f), g), scopes, <<"call">>)
  BY <1>3, <1>4, <1>6, <1>7, <1>10, FrameCalls DEF Deriving, n
<1> QED
  BY <1>1, <1>3, <1>11 DEF Deriving

LEMMA EndBlockDerives ==
    ASSUME NEW M, Obeys(M), NEW P, InterpreterInv, EndBlock, Deriving(M, P)
    PROVE  Deriving(M, P)'
<1> DEFINE env == Flat(scopes)
           n == Len(stack)
           t == Pop(stack)
           d == Leave(scopes)
<1>1. /\ In("VisitBlock") /\ BlockEnds
      /\ stack' = Below /\ ret' = ret /\ scopes' = d /\ program' = program
  BY DEF EndBlock, Answer
<1>2. ~Called
  BY <1>1 DEF BlockEnds, Called
<1>3. /\ stack # <<>> /\ Last(stack) = Top /\ Below = Pop(stack)
      /\ Top \in Frames /\ Top.fn = "VisitBlock" /\ Top.rest \in Blocks
      /\ Len(scopes) = n + 1
      /\ \A y \in Remaining(M, Top.rest, Ended(env, ret)) :
             Kept(HeldBy(scopes, n), y) \in P[n]
  BY <1>1, <1>2, BlockOnTopDerives
<1>4. IsChain(scopes) /\ env \in Bindings /\ stack \in Seq(Frames)
  BY ChainOfScopes
<1>5. n \in Nat /\ n > 0
  BY <1>3, <1>4
<1>6. /\ Len(t) = n - 1
      /\ \A i \in 1..(n - 1) : t[i] = stack[i]
  BY <1>4, <1>5, PopSequence
<1>7. /\ Len(d) = n
      /\ Flat(d) = [m \in Names |-> IF m \in HeldBy(scopes, n) THEN env[m] ELSE Absent]
      /\ \A i \in Nat : i < n + 1 => HeldBy(d, i) = HeldBy(scopes, i)
  <2>1. Len(scopes) > 1 /\ Len(scopes) - 1 = n
    BY <1>3, <1>5
  <2> QED
    BY <1>3, <1>4, <2>1, FlatAfterLeave
<1> HIDE DEF env, n, t, d
<1>8. Ended(env, ret) \in Remaining(M, Top.rest, Ended(env, ret))
  <2>1. CASE ret = <<"done">> /\ Top.rest = <<>>
    <3>1. Ended(env, <<"done">>) \in RulesIn(M, <<"sequence", Top.rest, env>>)
      BY <2>1, RuleOfNoStatements
    <3>2. RulesIn(M, <<"sequence", Top.rest, env>>)
              \subseteq M[<<"sequence", Top.rest, env>>]
      BY <1>3, <1>4, PhrasesOfNodes DEF Obeys
    <3> QED
      BY <2>1, <3>1, <3>2 DEF Remaining, Ended
  <2>2. CASE ret[1] \in {"return", "throw"}
    <3>1. ret # <<"done">>
      BY <2>2
    <3> QED
      BY <3>1 DEF Remaining, Ended
  <2> QED
    BY <1>1, <2>1, <2>2 DEF BlockEnds
<1>9. Ended(Flat(d), ret) \in P[n]
  <2>1. Kept(HeldBy(scopes, n), Ended(env, ret)) = Ended(Flat(d), ret)
    BY <1>7 DEF Kept, Ended
  <2> QED
    BY <1>3, <1>8, <2>1
<1>10. FrameShape(t, Len(d)) /\ \A i \in 1..Len(t) : OperandKept(t[i])
  BY <1>3, <1>5, <1>6, <1>7 DEF Deriving, Derives, FrameShape, n
<1>11. LinksUpTo(M, P, stack, scopes, n - 1)
  BY DEF Deriving, Derives, n
<1>12. \A i \in 1..(n - 1) : stack[i].fn = "VisitBlock" /\ HeldBy(d, i) = HeldBy(scopes, i)
  BY <1>3, <1>5, <1>7 DEF Deriving, Derives, FrameShape, n
<1>13. LinksUpTo(M, P, t, d, n - 1)
  BY <1>5, <1>6, <1>11, <1>12, LinksKept
<1>14. LinksUpTo(M, P, t, d, n - 2)
  BY <1>5, <1>13 DEF LinksUpTo
<1>15. AnswerOf(t, d, ret) \in P[Len(t) + 1]
  BY <1>5, <1>6, <1>7, <1>9 DEF AnswerOf
<1>16. P[1] = M[<<"block", program, EmptyScope>>]
  BY DEF Deriving, Derives
<1>17. Derives(M, P, program, t, d, ret)
  BY <1>2, <1>5, <1>6, <1>10, <1>13, <1>14, <1>15, <1>16 DEF Derives, Called
<1> QED
  BY <1>1, <1>3, <1>17 DEF Deriving, t

(* An error that goes through a visitor is what the rules give, too.       *)
LEMMA UnwindDerives ==
    ASSUME NEW M, Obeys(M), NEW P, InterpreterInv, Unwind, Deriving(M, P)
    PROVE  Deriving(M, P)'
<1>1. /\ ret[1] = "throw" /\ Answer(ret) /\ UNCHANGED <<program, scopes>>
      /\ In("ExprVisitor") \/ In("StmtVisitor")
  BY DEF Unwind
<1>2. ~Called /\ ret[1] # "value" /\ ret # <<"call">>
  BY <1>1 DEF Called
<1>3. IsChain(scopes) /\ stack \in Seq(Frames)
  BY ChainOfScopes
<1>4. CASE In("ExprVisitor")
  <2>1. /\ stack # <<>> /\ Last(stack) = Top /\ Below = Pop(stack)
        /\ Top.fn = "ExprVisitor"
        /\ ExprGoesOn(M, Top, Flat(scopes), ret) \subseteq P[Len(stack)]
    BY <1>2, <1>4, ExprOnTop
  <2>2. ret \in P[Len(stack)]
    BY <1>2, <2>1, ErrorOfUnary, ErrorOfLeft, ErrorOfRight DEF ExprGoesOn
  <2>3. Derives(M, P, program, Pop(stack), scopes, ret)
    BY <1>2, <1>3, <2>1, <2>2, ExprEnds DEF Deriving
  <2> QED
    BY <1>1, <2>1, <2>3 DEF Deriving, Answer
<1>5. CASE In("StmtVisitor")
  <2>1. /\ stack # <<>> /\ Last(stack) = Top /\ Below = Pop(stack)
        /\ Top.fn = "StmtVisitor"
        /\ StmtGives(M, Top.node, Flat(scopes), ret) \subseteq P[Len(stack)]
    BY <1>2, <1>5, StmtOnTop
  <2>2. Ended(Flat(scopes), ret) \in P[Len(stack)]
    BY <1>2, <2>1, ErrorOfStatement
  <2>3. Derives(M, P, program, Pop(stack), scopes, ret)
    BY <1>2, <1>3, <2>1, <2>2, StmtEnds DEF Deriving
  <2> QED
    BY <1>1, <2>1, <2>3 DEF Deriving, Answer
<1> QED
  BY <1>1, <1>4, <1>5

----------------------------------------------------------------------------
(* The inductive invariant.  There is no bound on the depth of the calls,  *)
(* and M is any relation that is closed under the rules.                   *)
UnfinishedDerivation(M) == InterpreterInv /\ \E P : Deriving(M, P)

LEMMA InitDerives ==
    ASSUME NEW M, Init
    PROVE  \E P : Deriving(M, P)
<1> DEFINE P == [i \in {1} |-> M[<<"block", program, EmptyScope>>]]
<1>1. stack = <<>> /\ scopes = <<EmptyScope>> /\ ret = <<"call">>
  BY DEF Init
<1>2. P[1] = M[<<"block", program, EmptyScope>>]
  OBVIOUS
<1> HIDE DEF P
<1>3. Len(scopes) = 1 /\ Len(stack) = 0
  BY <1>1
<1>4. FrameShape(stack, Len(scopes))
  BY <1>3 DEF FrameShape
<1>5. LinksUpTo(M, P, stack, scopes, Len(stack) - 1)
  BY <1>3 DEF LinksUpTo
<1>6. Deriving(M, P)
  BY <1>1, <1>2, <1>3, <1>4, <1>5 DEF Deriving, Derives
<1> QED
  BY <1>6

LEMMA StepDerives ==
    ASSUME NEW M, Obeys(M), UnfinishedDerivation(M), [Next]_vars
    PROVE  UnfinishedDerivation(M)'
<1>1. InterpreterInv'
  BY StepInterpreterInv DEF UnfinishedDerivation
<1>2. PICK P : Deriving(M, P)
  BY DEF UnfinishedDerivation
<1>3. InterpreterInv
  BY DEF UnfinishedDerivation
<1>4. CASE UNCHANGED vars
  BY <1>1, <1>2, <1>4 DEF Deriving, vars, UnfinishedDerivation
<1>5. CASE Terminated
  BY <1>4, <1>5 DEF Terminated
<1>6. CASE ExprStep
  BY <1>1, <1>2, <1>3, <1>6, ExprStepDerives DEF UnfinishedDerivation
<1>7. CASE StmtStep
  BY <1>1, <1>2, <1>3, <1>7, StmtStepDerives DEF UnfinishedDerivation
<1>8. CASE BlockStep
  BY <1>1, <1>2, <1>3, <1>8, StartDerives, NextStatementDerives, EndBlockDerives
     DEF BlockStep, UnfinishedDerivation
<1>9. CASE Unwind
  BY <1>1, <1>2, <1>3, <1>9, UnwindDerives DEF UnfinishedDerivation
<1> QED
  BY <1>4, <1>5, <1>6, <1>7, <1>8, <1>9 DEF Next

(* A derivation that is finished is one of the program's result.           *)
LEMMA FinishedDerivation ==
    ASSUME NEW M, UnfinishedDerivation(M), Finished
    PROVE  ret \in {x.ret : x \in M[<<"block", program, EmptyScope>>]}
<1>1. PICK P : Deriving(M, P)
  BY DEF UnfinishedDerivation
<1>2. stack = <<>> /\ ret # <<"call">> /\ Len(stack) = 0
  BY DEF Finished, Called
<1>3. IsChain(scopes)
  BY ChainOfScopes DEF UnfinishedDerivation
<1>4. AnswerOf(stack, scopes, ret) \in P[1] /\ P[1] = M[<<"block", program, EmptyScope>>]
  BY <1>1, <1>2 DEF Deriving, Derives
<1>5. AnswerOf(stack, scopes, ret) = Ended(Flat(scopes), ret)
  BY <1>2, <1>3 DEF AnswerOf, IsChain
<1>6. Ended(Flat(scopes), ret).ret = ret
  BY DEF Ended
<1> QED
  BY <1>4, <1>5, <1>6

ResultIsIn(M) == Finished => ret \in {x.ret : x \in M[<<"block", program, EmptyScope>>]}

(* Whatever the program, what Interpret gives back or throws is in every   *)
(* relation that is closed under the rules: it is derived by them, and not *)
(* only consistent with them.                                              *)
THEOREM ResultsObeyTheRules ==
    ASSUME NEW M, Obeys(M)
    PROVE  Spec => []ResultIsIn(M)
<1>1. Init => UnfinishedDerivation(M)
  BY InitDerives, InitInterpreterInv DEF UnfinishedDerivation
<1>2. UnfinishedDerivation(M) /\ [Next]_vars => UnfinishedDerivation(M)'
  BY StepDerives
<1>3. UnfinishedDerivation(M) => ResultIsIn(M)
  BY FinishedDerivation DEF ResultIsIn
<1> QED
  BY <1>1, <1>2, <1>3, PTL DEF Spec

----------------------------------------------------------------------------
(* The rules are monotone and give only results of the right type, so they *)
(* have a least solution, and the equation that defines Meaning holds.     *)
Universe(q) == IF q[1] = "expr" THEN Results ELSE [env : Bindings, ret : Results]
Typed(M) == \A q \in Phrases : M[q] \subseteq Universe(q)
Within(M, N) == \A q \in Phrases : M[q] \subseteq N[q]

LEMMA PhraseIsOfAKind ==
    ASSUME NEW q \in Phrases
    PROVE  \/ \E e \in Expressions, env \in Bindings : q = <<"expr", e, env>>
           \/ \E s \in Statements, env \in Bindings : q = <<"stmt", s, env>>
           \/ \E b \in Blocks, env \in Bindings : q = <<"sequence", b, env>>
           \/ \E b \in Blocks, env \in Bindings : q = <<"block", b, env>>
BY DEF Phrases

LEMMA WithinOfNodes ==
    ASSUME NEW M, NEW N, Within(M, N), NEW env \in Bindings
    PROVE  /\ \A e \in Expressions : M[<<"expr", e, env>>] \subseteq N[<<"expr", e, env>>]
           /\ \A s \in Statements : M[<<"stmt", s, env>>] \subseteq N[<<"stmt", s, env>>]
           /\ \A b \in Blocks : M[<<"sequence", b, env>>] \subseteq N[<<"sequence", b, env>>]
           /\ \A b \in Blocks : M[<<"block", b, env>>] \subseteq N[<<"block", b, env>>]
BY PhrasesOfNodes DEF Within

LEMMA TypedExpression ==
    ASSUME NEW M, Typed(M), NEW e \in Expressions, NEW env \in Bindings
    PROVE  M[<<"expr", e, env>>] \subseteq Results
BY PhrasesOfNodes DEF Typed, Universe

LEMMA TypedStatement ==
    ASSUME NEW M, Typed(M), NEW s \in Statements, NEW env \in Bindings
    PROVE  M[<<"stmt", s, env>>] \subseteq [env : Bindings, ret : Results]
BY PhrasesOfNodes DEF Typed, Universe

LEMMA TypedSequence ==
    ASSUME NEW M, Typed(M), NEW b \in Blocks, NEW env \in Bindings
    PROVE  M[<<"sequence", b, env>>] \subseteq [env : Bindings, ret : Results]
BY PhrasesOfNodes DEF Typed, Universe

LEMMA TypedBlock ==
    ASSUME NEW M, Typed(M), NEW b \in Blocks, NEW env \in Bindings
    PROVE  M[<<"block", b, env>>] \subseteq [env : Bindings, ret : Results]
BY PhrasesOfNodes DEF Typed, Universe

LEMMA PartsOfOperators ==
    ASSUME NEW e \in Expressions
    PROVE  /\ e.kind \in {"Literal", "Variable", "Unary", "Binary", "FunctionCall"}
           /\ e.kind \in {"Unary", "Binary"} => e.rhs \in Expressions /\ e.span \in Nat
           /\ e.kind = "Unary" => e.op \in UnaryOperators
           /\ e.kind = "Binary" => e.lhs \in Expressions /\ e.op \in BinaryOperators
BY AstAssumption DEF ExpressionIsWellFormed

LEMMA PartsOfStatements ==
    ASSUME NEW s \in Statements
    PROVE  /\ FirstExpression(s) # <<>> => FirstExpression(s)[1] \in Expressions
           /\ FirstExpression(s) # <<>> =>
                  s.kind \in {"VariableDeclaration", "Assignment", "IfStatement",
                              "ReturnStatement", "ExpressionStatement"}
           /\ s.kind \in {"VariableDeclaration", "Assignment"} => s.name \in Names
           /\ s.kind = "Assignment" => s.span \in Nat
           /\ s.kind = "IfStatement" => s.then \in Blocks
           /\ s.kind = "IfStatement" /\ s.else # <<>> => s.else[1] \in Blocks
<1>1. StatementIsWellFormed(s)
  BY AstAssumption
<1>2. \A t \in Seq(Expressions) : t # <<>> => t[1] \in Expressions
  OBVIOUS
<1>3. \A t \in Seq(Blocks) : t # <<>> => t[1] \in Blocks
  OBVIOUS
<1>4. CASE s.kind = "VariableDeclaration"
  BY <1>1, <1>2, <1>4 DEF StatementIsWellFormed, FirstExpression
<1>5. CASE s.kind = "Assignment"
  BY <1>1, <1>5 DEF StatementIsWellFormed, FirstExpression
<1>6. CASE s.kind = "IfStatement"
  <2>1. s.condition \in Expressions /\ s.then \in Blocks /\ s.else \in Seq(Blocks)
    BY <1>1, <1>6 DEF StatementIsWellFormed
  <2>2. s.else # <<>> => s.else[1] \in Blocks
    BY <2>1, <1>3
  <2> QED
    BY <1>6, <2>1, <2>2 DEF FirstExpression
<1>7. CASE s.kind = "ReturnStatement"
  BY <1>1, <1>2, <1>7 DEF StatementIsWellFormed, FirstExpression
<1>8. CASE s.kind = "ExpressionStatement"
  BY <1>1, <1>2, <1>8 DEF StatementIsWellFormed, FirstExpression
<1>9. CASE s.kind = "FunctionDeclaration"
  BY <1>1, <1>9 DEF FirstExpression
<1> QED
  BY <1>1, <1>4, <1>5, <1>6, <1>7, <1>8, <1>9 DEF StatementIsWellFormed

(* Monotone in the results of the parts.                                   *)
LEMMA ExpressionRuleMonotone ==
    ASSUME NEW M, NEW N, Within(M, N), NEW e \in Expressions, NEW env \in Bindings
    PROVE  RulesIn(M, <<"expr", e, env>>) \subseteq RulesIn(N, <<"expr", e, env>>)
<1>1. CASE e.kind \in {"Literal", "Variable", "FunctionCall"}
  BY <1>1, RuleOfLeaf
<1>2. CASE e.kind = "Unary"
  <2>1. M[<<"expr", e.rhs, env>>] \subseteq N[<<"expr", e.rhs, env>>]
    BY <1>2, PartsOfOperators, WithinOfNodes
  <2> QED
    BY <1>2, <2>1, RuleOfUnary
<1>3. CASE e.kind = "Binary"
  <2> DEFINE A == M[<<"expr", e.lhs, env>>]
             B == M[<<"expr", e.rhs, env>>]
             C == N[<<"expr", e.lhs, env>>]
             D == N[<<"expr", e.rhs, env>>]
  <2>1. A \subseteq C /\ B \subseteq D
    BY <1>3, PartsOfOperators, WithinOfNodes
  <2>2. /\ RulesIn(M, <<"expr", e, env>>) = UNION {BinaryResults(e, r, B) : r \in A}
        /\ RulesIn(N, <<"expr", e, env>>) = UNION {BinaryResults(e, r, D) : r \in C}
    BY <1>3, RuleOfBinary
  <2> HIDE DEF A, B, C, D
  <2>3. ASSUME NEW r
        PROVE  BinaryResults(e, r, B) \subseteq BinaryResults(e, r, D)
    <3>1. UNION {OperatorResults(e, r[2], b) : b \in B}
              \subseteq UNION {OperatorResults(e, r[2], b) : b \in D}
      BY <2>1
    <3>2. CASE e.op = "And"
      BY <2>1, <3>2 DEF BinaryResults, OnValue
    <3>3. CASE e.op = "Or"
      BY <2>1, <3>3 DEF BinaryResults, OnValue
    <3>4. CASE e.op \notin {"And", "Or"}
      BY <3>1, <3>4 DEF BinaryResults, OnValue
    <3> QED
      BY <3>2, <3>3, <3>4
  <2> QED
    BY <2>1, <2>2, <2>3
<1> QED
  BY <1>1, <1>2, <1>3, PartsOfOperators

LEMMA StatementRuleMonotone ==
    ASSUME NEW M, NEW N, Within(M, N), NEW s \in Statements, NEW env \in Bindings
    PROVE  RulesIn(M, <<"stmt", s, env>>) \subseteq RulesIn(N, <<"stmt", s, env>>)
<1>1. CASE FirstExpression(s) = <<>>
  BY <1>1, RuleOfStatementAlone
<1>2. CASE FirstExpression(s) # <<>>
  <2> DEFINE A == M[<<"expr", FirstExpression(s)[1], env>>]
             C == N[<<"expr", FirstExpression(s)[1], env>>]
  <2>1. A \subseteq C
    BY <1>2, PartsOfStatements, WithinOfNodes
  <2>2. /\ RulesIn(M, <<"stmt", s, env>>) = UNION {StmtGives(M, s, env, r) : r \in A}
        /\ RulesIn(N, <<"stmt", s, env>>) = UNION {StmtGives(N, s, env, r) : r \in C}
    BY <1>2, RuleOfEvaluating
  <2> HIDE DEF A, C
  <2>3. ASSUME NEW r
        PROVE  StmtGives(M, s, env, r) \subseteq StmtGives(N, s, env, r)
    <3>1. CASE r[1] # "value"
      BY <3>1, ErrorOfStatement
    <3>2. CASE r[1] = "value" /\ s.kind = "IfStatement"
      <4>1. M[<<"block", s.then, env>>] \subseteq N[<<"block", s.then, env>>]
        BY <3>2, PartsOfStatements, WithinOfNodes
      <4>2. s.else # <<>> =>
              M[<<"block", s.else[1], env>>] \subseteq N[<<"block", s.else[1], env>>]
        BY <3>2, PartsOfStatements, WithinOfNodes
      <4> QED
        BY <3>2, <4>1, <4>2 DEF StmtGives, StmtResultsOn, Effects
    <3>3. CASE r[1] = "value" /\ s.kind # "IfStatement"
      BY <1>2, <3>3, PartsOfStatements DEF StmtGives, StmtResultsOn, Effects
    <3> QED
      BY <3>1, <3>2, <3>3
  <2> QED
    BY <2>1, <2>2, <2>3
<1> QED
  BY <1>1, <1>2

LEMMA SequenceRuleMonotone ==
    ASSUME NEW M, NEW N, Within(M, N), Typed(M), NEW b \in Blocks, NEW env \in Bindings
    PROVE  RulesIn(M, <<"sequence", b, env>>) \subseteq RulesIn(N, <<"sequence", b, env>>)
<1>1. CASE b = <<>>
  BY <1>1, RuleOfNoStatements
<1>2. CASE b # <<>>
  <2> DEFINE A == M[<<"stmt", Head(b), env>>]
             C == N[<<"stmt", Head(b), env>>]
             G(x) == IF x.ret = <<"done">> THEN M[<<"sequence", Tail(b), x.env>>] ELSE {x}
             H(x) == IF x.ret = <<"done">> THEN N[<<"sequence", Tail(b), x.env>>] ELSE {x}
  <2>1. Head(b) \in Statements /\ Tail(b) \in Blocks
    BY <1>2 DEF Blocks
  <2>2. A \subseteq C /\ A \subseteq [env : Bindings, ret : Results]
    BY <2>1, WithinOfNodes, TypedStatement
  <2>3. ASSUME NEW x \in A
        PROVE  G(x) \subseteq H(x)
    <3>1. x.env \in Bindings
      BY <2>2
    <3>2. M[<<"sequence", Tail(b), x.env>>] \subseteq N[<<"sequence", Tail(b), x.env>>]
      BY <2>1, <3>1, WithinOfNodes
    <3> QED
      BY <3>2
  <2>4. /\ RulesIn(M, <<"sequence", b, env>>) = UNION {G(x) : x \in A}
        /\ RulesIn(N, <<"sequence", b, env>>) = UNION {H(x) : x \in C}
    BY <1>2, RuleOfSequence
  <2> HIDE DEF A, C, G, H
  <2> QED
    BY <2>2, <2>3, <2>4
<1> QED
  BY <1>1, <1>2

LEMMA RulesMonotone ==
    ASSUME NEW M, NEW N, Within(M, N), Typed(M), NEW q \in Phrases
    PROVE  RulesIn(M, q) \subseteq RulesIn(N, q)
<1>1. ASSUME NEW b \in Blocks, NEW env \in Bindings
      PROVE  RulesIn(M, <<"block", b, env>>) \subseteq RulesIn(N, <<"block", b, env>>)
  <2> DEFINE A == M[<<"sequence", b, env>>]
             C == N[<<"sequence", b, env>>]
  <2>1. A \subseteq C
    BY WithinOfNodes
  <2>2. /\ RulesIn(M, <<"block", b, env>>) = {Behind(env, x) : x \in A}
        /\ RulesIn(N, <<"block", b, env>>) = {Behind(env, x) : x \in C}
    BY RuleOfBlock
  <2> HIDE DEF A, C
  <2> QED
    BY <2>1, <2>2
<1> QED
  BY <1>1, PhraseIsOfAKind, ExpressionRuleMonotone, StatementRuleMonotone,
     SequenceRuleMonotone

(* Results of the right type, from such results of the parts.              *)
LEMMA OutcomesAreResults ==
    ASSUME NEW S, S \subseteq Outcomes, NEW p \in Nat
    PROVE  {OutcomeAt(o, p) : o \in S} \subseteq Results
BY OutcomeIsResult

LEMMA UnaryRuleTyped ==
    ASSUME NEW e \in Expressions, e.kind = "Unary", NEW r \in Results
    PROVE  UnaryResults(e, r) \subseteq Results
<1>1. CASE r[1] = "value"
  <2>1. UnaryOutcomes(e.op, r[2]) \subseteq Outcomes
    BY <1>1, ValueOfResult, PartsOfOperators, UnaryOutcomesClosed
  <2>2. {OutcomeAt(o, e.span) : o \in UnaryOutcomes(e.op, r[2])} \subseteq Results
    BY <2>1, PartsOfOperators, OutcomesAreResults
  <2> QED
    BY <1>1, <2>2 DEF UnaryResults, OnValue
<1>2. CASE r[1] # "value"
  BY <1>2, ErrorOfUnary
<1> QED
  BY <1>1, <1>2

LEMMA OperatorRuleTyped ==
    ASSUME NEW e \in Expressions, e.kind = "Binary", ~IsLogical(e.op),
           NEW a \in LualikeValues, NEW r \in Results
    PROVE  OperatorResults(e, a, r) \subseteq Results
<1>1. CASE r[1] = "value"
  <2>1. BinaryOutcomes(e.op, a, r[2]) \subseteq Outcomes
    BY <1>1, ValueOfResult, PartsOfOperators, BinaryOutcomesClosed
  <2>2. {OutcomeAt(o, e.span) : o \in BinaryOutcomes(e.op, a, r[2])} \subseteq Results
    BY <2>1, PartsOfOperators, OutcomesAreResults
  <2> QED
    BY <1>1, <2>2 DEF OperatorResults, OnValue
<1>2. CASE r[1] # "value"
  BY <1>2, ErrorOfRight
<1> QED
  BY <1>1, <1>2

LEMMA BinaryRuleTyped ==
    ASSUME NEW e \in Expressions, e.kind = "Binary", NEW r \in Results,
           NEW B, B \subseteq Results
    PROVE  BinaryResults(e, r, B) \subseteq Results
<1>1. CASE r[1] # "value"
  BY <1>1, ErrorOfLeft
<1>2. CASE r[1] = "value" /\ e.op \in {"And", "Or"}
  BY <1>2 DEF BinaryResults, OnValue
<1>3. CASE r[1] = "value" /\ e.op \notin {"And", "Or"}
  <2>1. ~IsLogical(e.op)
    BY <1>3 DEF IsLogical
  <2>2. r[2] \in LualikeValues
    BY <1>3, ValueOfResult
  <2>3. \A b \in B : OperatorResults(e, r[2], b) \subseteq Results
    BY <2>1, <2>2, OperatorRuleTyped
  <2>4. BinaryResults(e, r, B) = UNION {OperatorResults(e, r[2], b) : b \in B}
    BY <1>3 DEF BinaryResults, OnValue
  <2> QED
    BY <2>3, <2>4
<1> QED
  BY <1>1, <1>2, <1>3

LEMMA ExpressionRuleTyped ==
    ASSUME NEW M, Typed(M), NEW e \in Expressions, NEW env \in Bindings
    PROVE  RulesIn(M, <<"expr", e, env>>) \subseteq Results
<1>1. ExpressionIsWellFormed(e)
  BY AstAssumption
<1>2. CASE e.kind = "Literal"
  <2>1. e.value \in LualikeValues
    BY <1>1, <1>2 DEF ExpressionIsWellFormed
  <2> QED
    BY <1>2, <2>1, RuleOfLeaf, ResultsOfEachKind
<1>3. CASE e.kind = "Variable"
  <2>1. e.name \in Names /\ e.span \in Nat
    BY <1>1, <1>3 DEF ExpressionIsWellFormed
  <2>2. env[e.name] \in LualikeValues \cup {Absent}
    BY <2>1, ScopeValuesAssumption DEF Bindings
  <2>3. ErrorAt("UnknownVariable", e.span) \in Results
    BY <2>1, ResultsOfEachKind DEF ErrorKinds
  <2>4. env[e.name] # Absent => <<"value", env[e.name]>> \in Results
    BY <2>2, ResultsOfEachKind
  <2> QED
    BY <1>3, <2>3, <2>4, RuleOfLeaf
<1>4. CASE e.kind = "FunctionCall"
  <2>1. e.span \in Nat
    BY <1>1, <1>4 DEF ExpressionIsWellFormed
  <2>2. ErrorAt("UnimplementedExpression", e.span) \in Results
    BY <2>1, ResultsOfEachKind DEF ErrorKinds
  <2> QED
    BY <1>4, <2>2, RuleOfLeaf
<1>5. CASE e.kind = "Unary"
  <2> DEFINE A == M[<<"expr", e.rhs, env>>]
  <2>1. A \subseteq Results
    BY <1>5, PartsOfOperators, TypedExpression
  <2>2. RulesIn(M, <<"expr", e, env>>) = UNION {UnaryResults(e, r) : r \in A}
    BY <1>5, RuleOfUnary
  <2> HIDE DEF A
  <2>3. \A r \in A : UnaryResults(e, r) \subseteq Results
    BY <1>5, <2>1, UnaryRuleTyped
  <2> QED
    BY <2>2, <2>3
<1>6. CASE e.kind = "Binary"
  <2> DEFINE A == M[<<"expr", e.lhs, env>>]
             B == M[<<"expr", e.rhs, env>>]
  <2>1. A \subseteq Results /\ B \subseteq Results
    BY <1>6, PartsOfOperators, TypedExpression
  <2>2. RulesIn(M, <<"expr", e, env>>) = UNION {BinaryResults(e, r, B) : r \in A}
    BY <1>6, RuleOfBinary
  <2> HIDE DEF A, B
  <2>3. \A r \in A : BinaryResults(e, r, B) \subseteq Results
    BY <1>6, <2>1, BinaryRuleTyped
  <2> QED
    BY <2>2, <2>3
<1> QED
  BY <1>2, <1>3, <1>4, <1>5, <1>6, PartsOfOperators

LEMMA EndsAreTyped ==
    ASSUME NEW env \in Bindings
    PROVE  /\ \A r \in Results : Ended(env, r) \in [env : Bindings, ret : Results]
           /\ \A n \in Names, v \in LualikeValues :
                  Bind(env, n, v) \in [env : Bindings, ret : Results]
<1>1. ASSUME NEW n \in Names, NEW v \in LualikeValues
      PROVE  Bind(env, n, v) \in [env : Bindings, ret : Results]
  <2>1. [env EXCEPT ![n] = v] \in Bindings
    BY ScopeValuesAssumption DEF Bindings
  <2> QED
    BY <2>1, ResultsOfEachKind DEF Bind
<1> QED
  BY <1>1 DEF Ended

LEMMA EffectsAreTyped ==
    ASSUME NEW M, Typed(M), NEW s \in Statements, NEW env \in Bindings,
           FirstExpression(s) # <<>>, NEW r \in Results, r[1] = "value"
    PROVE  StmtGives(M, s, env, r) \subseteq [env : Bindings, ret : Results]
<1>1. r[2] \in LualikeValues
  BY ValueOfResult
<1>2. s.kind \in {"VariableDeclaration", "Assignment", "IfStatement",
                  "ReturnStatement", "ExpressionStatement"}
  BY PartsOfStatements
<1>3. CASE s.kind = "VariableDeclaration"
  <2>1. Bind(env, s.name, r[2]) \in [env : Bindings, ret : Results]
    BY <1>1, <1>3, PartsOfStatements, EndsAreTyped
  <2> QED
    BY <1>3, <2>1 DEF StmtGives, StmtResultsOn, Effects
<1>4. CASE s.kind = "Assignment"
  <2>1. Bind(env, s.name, r[2]) \in [env : Bindings, ret : Results]
    BY <1>1, <1>4, PartsOfStatements, EndsAreTyped
  <2>2. ErrorAt("UnknownVariable", s.span) \in Results
    BY <1>4, PartsOfStatements, ResultsOfEachKind DEF ErrorKinds
  <2>3. Ended(env, ErrorAt("UnknownVariable", s.span)) \in [env : Bindings, ret : Results]
    BY <2>2, EndsAreTyped
  <2> QED
    BY <1>4, <2>1, <2>3 DEF StmtGives, StmtResultsOn, Effects
<1>5. CASE s.kind = "IfStatement"
  <2>1. M[<<"block", s.then, env>>] \subseteq [env : Bindings, ret : Results]
    BY <1>5, PartsOfStatements, TypedBlock
  <2>2. s.else # <<>> =>
          M[<<"block", s.else[1], env>>] \subseteq [env : Bindings, ret : Results]
    BY <1>5, PartsOfStatements, TypedBlock
  <2>3. Ended(env, <<"done">>) \in [env : Bindings, ret : Results]
    BY ResultsOfEachKind, EndsAreTyped
  <2> QED
    BY <1>5, <2>1, <2>2, <2>3 DEF StmtGives, StmtResultsOn, Effects
<1>6. CASE s.kind = "ReturnStatement"
  <2>1. Ended(env, <<"return", r[2]>>) \in [env : Bindings, ret : Results]
    BY <1>1, ResultsOfEachKind, EndsAreTyped
  <2> QED
    BY <1>6, <2>1 DEF StmtGives, StmtResultsOn, Effects
<1>7. CASE s.kind = "ExpressionStatement"
  <2>1. Ended(env, <<"done">>) \in [env : Bindings, ret : Results]
    BY ResultsOfEachKind, EndsAreTyped
  <2> QED
    BY <1>7, <2>1 DEF StmtGives, StmtResultsOn, Effects
<1> QED
  BY <1>2, <1>3, <1>4, <1>5, <1>6, <1>7

LEMMA StatementRuleTyped ==
    ASSUME NEW M, Typed(M), NEW s \in Statements, NEW env \in Bindings
    PROVE  RulesIn(M, <<"stmt", s, env>>) \subseteq [env : Bindings, ret : Results]
<1>1. CASE FirstExpression(s) = <<>>
  <2>1. Ended(env, <<"done">>) \in [env : Bindings, ret : Results]
    BY ResultsOfEachKind, EndsAreTyped
  <2>2. s.kind = "VariableDeclaration" =>
          Bind(env, s.name, Nil) \in [env : Bindings, ret : Results]
    BY PartsOfStatements, EndsAreTyped, PartsOfValues
  <2>3. EffectAlone(s, env) \in [env : Bindings, ret : Results]
    BY <2>1, <2>2 DEF EffectAlone
  <2> QED
    BY <1>1, <2>3, RuleOfStatementAlone
<1>2. CASE FirstExpression(s) # <<>>
  <2> DEFINE A == M[<<"expr", FirstExpression(s)[1], env>>]
  <2>1. A \subseteq Results
    BY <1>2, PartsOfStatements, TypedExpression
  <2>2. ASSUME NEW r \in Results
        PROVE  StmtGives(M, s, env, r) \subseteq [env : Bindings, ret : Results]
    <3>1. CASE r[1] = "value"
      BY <1>2, <3>1, EffectsAreTyped
    <3>2. CASE r[1] # "value"
      BY <3>2, ErrorOfStatement, EndsAreTyped
    <3> QED
      BY <3>1, <3>2
  <2>3. RulesIn(M, <<"stmt", s, env>>) = UNION {StmtGives(M, s, env, r) : r \in A}
    BY <1>2, RuleOfEvaluating
  <2> HIDE DEF A
  <2> QED
    BY <2>1, <2>2, <2>3
<1> QED
  BY <1>1, <1>2

LEMMA SequenceRuleTyped ==
    ASSUME NEW M, Typed(M), NEW b \in Blocks, NEW env \in Bindings
    PROVE  RulesIn(M, <<"sequence", b, env>>) \subseteq [env : Bindings, ret : Results]
<1>1. CASE b = <<>>
  <2>1. Ended(env, <<"done">>) \in [env : Bindings, ret : Results]
    BY ResultsOfEachKind, EndsAreTyped
  <2> QED
    BY <1>1, <2>1, RuleOfNoStatements
<1>2. CASE b # <<>>
  <2> DEFINE A == M[<<"stmt", Head(b), env>>]
             G(x) == IF x.ret = <<"done">> THEN M[<<"sequence", Tail(b), x.env>>] ELSE {x}
  <2>1. Head(b) \in Statements /\ Tail(b) \in Blocks
    BY <1>2 DEF Blocks
  <2>2. A \subseteq [env : Bindings, ret : Results]
    BY <2>1, TypedStatement
  <2>3. ASSUME NEW x \in A
        PROVE  G(x) \subseteq [env : Bindings, ret : Results]
    <3>1. x \in [env : Bindings, ret : Results] /\ x.env \in Bindings
      BY <2>2
    <3>2. M[<<"sequence", Tail(b), x.env>>] \subseteq [env : Bindings, ret : Results]
      BY <2>1, <3>1, TypedSequence
    <3> QED
      BY <3>1, <3>2
  <2>4. RulesIn(M, <<"sequence", b, env>>) = UNION {G(x) : x \in A}
    BY <1>2, RuleOfSequence
  <2> HIDE DEF A, G
  <2> QED
    BY <2>3, <2>4
<1> QED
  BY <1>1, <1>2

LEMMA BlockRuleTyped ==
    ASSUME NEW M, Typed(M), NEW b \in Blocks, NEW env \in Bindings
    PROVE  RulesIn(M, <<"block", b, env>>) \subseteq [env : Bindings, ret : Results]
<1>1. ASSUME NEW x \in M[<<"sequence", b, env>>]
      PROVE  Behind(env, x) \in [env : Bindings, ret : Results]
  <2>1. x \in [env : Bindings, ret : Results]
    BY TypedSequence
  <2>2. [n \in Names |-> IF env[n] = Absent THEN Absent ELSE x.env[n]] \in Bindings
    BY <2>1 DEF Bindings
  <2> QED
    BY <2>1, <2>2, EndsAreTyped DEF Behind
<1> QED
  BY <1>1, RuleOfBlock

LEMMA RulesTyped ==
    ASSUME NEW M, Typed(M), NEW q \in Phrases
    PROVE  RulesIn(M, q) \subseteq Universe(q)
BY PhraseIsOfAKind, ExpressionRuleTyped, StatementRuleTyped, SequenceRuleTyped,
   BlockRuleTyped DEF Universe

----------------------------------------------------------------------------
(* The least solution: what is in everything that obeys the rules.         *)
Least == [q \in Phrases |-> {r \in Universe(q) : \A f : Obeys(f) => r \in f[q]}]

LEMMA LeastIsTyped == Typed(Least)
BY DEF Typed, Least

LEMMA LeastIsLeast ==
    ASSUME NEW f, Obeys(f)
    PROVE  Within(Least, f)
BY DEF Within, Least

LEMMA LeastObeys == Obeys(Least)
<1>1. ASSUME NEW q \in Phrases, NEW r \in RulesIn(Least, q)
      PROVE  r \in Least[q]
  <2>1. r \in Universe(q)
    BY LeastIsTyped, RulesTyped
  <2>2. ASSUME NEW f, Obeys(f)
        PROVE  r \in f[q]
    <3>1. RulesIn(Least, q) \subseteq RulesIn(f, q)
      BY <2>2, LeastIsLeast, LeastIsTyped, RulesMonotone
    <3>2. RulesIn(f, q) \subseteq f[q]
      BY <2>2 DEF Obeys
    <3> QED
      BY <3>1, <3>2
  <2>3. Least[q] = {x \in Universe(q) : \A f : Obeys(f) => x \in f[q]}
    BY DEF Least
  <2> QED
    BY <2>1, <2>2, <2>3
<1> QED
  BY <1>1 DEF Obeys

LEMMA LeastIsASolution == Least = [q \in Phrases |-> RulesIn(Least, q)]
<1> DEFINE G == [q \in Phrases |-> RulesIn(Least, q)]
<1>1. \A q \in Phrases : G[q] = RulesIn(Least, q)
  OBVIOUS
<1> HIDE DEF G
<1>2. Within(G, Least)
  BY <1>1, LeastObeys DEF Obeys, Within
<1>3. Typed(G)
  BY <1>1, LeastIsTyped, RulesTyped DEF Typed
<1>4. Obeys(G)
  BY <1>1, <1>2, <1>3, RulesMonotone DEF Obeys
<1>5. Within(Least, G)
  BY <1>4, LeastIsLeast
<1>6. \A q \in Phrases : Least[q] = RulesIn(Least, q)
  BY <1>1, <1>2, <1>5 DEF Within
<1>7. Least = [q \in Phrases |-> Least[q]]
  BY DEF Least
<1> QED
  BY <1>6, <1>7

LEMMA MeaningIsASolution == Meaning = [q \in Phrases |-> RulesIn(Meaning, q)]
<1>1. Meaning = CHOOSE f : f = [q \in Phrases |-> RulesIn(f, q)]
  BY Zenon DEF Meaning, RulesIn
<1>2. \E f : f = [q \in Phrases |-> RulesIn(f, q)]
  BY LeastIsASolution
<1> QED
  BY <1>1, <1>2, Zenon

LEMMA MeaningObeys == Obeys(Meaning)
BY MeaningIsASolution, Zenon DEF Obeys

(* For every program, of any depth and length: the machine with its chain  *)
(* of scopes, its calls and its exceptions ends with a result that the     *)
(* rules give the program: what each name means, what is evaluated and in  *)
(* which order, where execution stops and which node an error is blamed on.*)
THEOREM EvaluatorAgreesWithSemantics == Spec => []AgreesWithSemantics
<1>1. Init => UnfinishedDerivation(Meaning)
  BY InitDerives, InitInterpreterInv DEF UnfinishedDerivation
<1>2. UnfinishedDerivation(Meaning) /\ [Next]_vars => UnfinishedDerivation(Meaning)'
  BY MeaningObeys, StepDerives
<1>3. UnfinishedDerivation(Meaning) => AgreesWithSemantics
  BY FinishedDerivation DEF AgreesWithSemantics, ProgramResults
<1> QED
  BY <1>1, <1>2, <1>3, PTL DEF Spec
====
