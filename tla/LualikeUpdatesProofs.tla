---- MODULE LualikeUpdatesProofs ----
(***************************************************************************)
(* The operators of LualikeValue, called by reference on variables that    *)
(* may be the same, implement operations on values that take effect at     *)
(* once or not at all.  The values they are called on are ordered, and the *)
(* ints among them that are doubles divide exactly.                        *)
(***************************************************************************)
EXTENDS LualikeUpdates, LualikeValueProofs

CallsInProgress ==
    [op : BinaryOps, lhs : Vars \cup {Copy}, rhs : Vars, to : Vars,
     left : LualikeValues, right : LualikeValues,
     at : {"lhs", "rhs", "store", "return"}]

(* A call has looked at its operands in order, and what it saw is still    *)
(* what the caller gave it; x is the variable the left operand came from.  *)
IsAt(c, x) ==
    /\ c \in CallsInProgress
    /\ c.lhs \in {x, Copy}
    /\ \/ c.at = "lhs" /\ values[c.lhs] = values[x]
       \/ c.at = "rhs" /\ c.left = values[x] /\ Takes(c.op, c.left)
       \/ /\ c.at = "store"
          /\ c.left = values[x] /\ Takes(c.op, c.left)
          /\ c.right = values[c.rhs] /\ Takes(c.op, c.right)
       \/ /\ c.at = "return" /\ c.lhs = Copy
          /\ values[Copy] \in ResultsOf(c.op, values[x], values[c.rhs])
          /\ values[Copy] \notin Throws

(* The inductive invariant.                                                *)
UpdatesInv ==
    /\ values \in [Vars \cup {Copy} -> LualikeValues]
    /\ call # <<>> => \E x \in Vars : call = <<Run>> /\ IsAt(Run, x)

----------------------------------------------------------------------------
LEMMA ValuesAreNotThrows ==
    ASSUME NEW v \in LualikeValues
    PROVE  v \notin Throws
  BY DEF LualikeValues, Nil, Bools, Ints, Floats, Infs, NaN, Strings, Throws

LEMMA LogicalOfBools ==
    ASSUME NEW a \in LualikeValues, NEW b \in LualikeValues, IsBool(a), IsBool(b)
    PROVE  LogicalOr(a, b) \subseteq LualikeValues /\ LogicalAnd(a, b) \subseteq LualikeValues
  <1>1. a[2] \in BOOLEAN /\ b[2] \in BOOLEAN BY BoolOfValue
  <1>2. Bool(a[2] \/ b[2]) \in Bools /\ Bool(a[2] /\ b[2]) \in Bools
    BY DEF Bool, Bools
  <1> QED BY <1>2, PartsOfValues DEF LogicalOr, LogicalAnd, PerformBoolBinOp

(* An operator that takes both operands gives values; otherwise it throws, *)
(* for the left operand if it can.                                         *)
LEMMA ResultsOfTaken ==
    ASSUME NEW op \in BinaryOps, NEW a \in LualikeValues, NEW b \in LualikeValues,
           Takes(op, a), Takes(op, b)
    PROVE  ResultsOf(op, a, b) \subseteq LualikeValues
  <1>1. CASE op \in LogicalOps
    BY <1>1, LogicalOfBools DEF LogicalOps, Takes, ResultsOf
  <1>2. CASE op \in ArithmeticOps
    BY <1>2, RingOfNumbers, DivisionOfNumbers DEF ArithmeticOps, LogicalOps, Takes, ResultsOf
  <1>3. CASE op \in FloatOps
    BY <1>3, DivisionOfNumbers DEF FloatOps, LogicalOps, Takes, ResultsOf
  <1> QED BY <1>1, <1>2, <1>3 DEF BinaryOps

LEMMA ResultsOfRefused ==
    ASSUME NEW op \in BinaryOps, NEW a, NEW b
    PROVE  /\ ~Takes(op, a) => ResultsOf(op, a, b) = {Throw(LhsErrKind(op))}
           /\ Takes(op, a) /\ ~Takes(op, b) => ResultsOf(op, a, b) = {Throw(RhsErrKind(op))}
  <1>1. CASE op \in LogicalOps
    BY <1>1 DEF LogicalOps, Takes, ResultsOf, LhsErrKind, RhsErrKind,
                LogicalOr, LogicalAnd, PerformBoolBinOp
  <1>2. CASE op \in ArithmeticOps
    BY <1>2 DEF ArithmeticOps, LogicalOps, Takes, ResultsOf, LhsErrKind, RhsErrKind,
                Add, Subtract, Multiply, Modulo, PerformArithmeticBinOp
  <1>3. CASE op \in FloatOps
    BY <1>3 DEF FloatOps, LogicalOps, Takes, ResultsOf, LhsErrKind, RhsErrKind,
                Divide, FloorDivide, Exponentiate, PerformFloatBinOp
  <1> QED BY <1>1, <1>2, <1>3 DEF BinaryOps

LEMMA ErrKinds ==
    ASSUME NEW op
    PROVE  /\ Throw(LhsErrKind(op)) \in Throws /\ Throw(LhsErrKind(op))[2] = LhsErrKind(op)
           /\ Throw(RhsErrKind(op)) \in Throws /\ Throw(RhsErrKind(op))[2] = RhsErrKind(op)
  BY DEF Throw, Throws, OpErrKinds, LhsErrKind, RhsErrKind

----------------------------------------------------------------------------
LEMMA NilIsAValue == Nil \in LualikeValues
  BY DEF LualikeValues

(* Every step keeps the invariant.                                         *)
LEMMA CallKeepsInv ==
    ASSUME UpdatesInv, NEW op \in BinaryOps, NEW x \in Vars, NEW y \in Vars, NEW z \in Vars,
           CallAssignment(op, x, y) \/ CallOperator(op, x, y, z) \/ CallLogical(op, x, y, z)
    PROVE  UpdatesInv'
  <1> USE CopyAssumption
  <1>1. CASE CallAssignment(op, x, y)
    <2>1. call' = Calls(op, x, y, x) /\ values' = values BY <1>1 DEF CallAssignment
    <2>2. IsAt(Run, x)' BY <2>1, NilIsAValue DEF Calls, Run, IsAt, CallsInProgress
    <2> QED BY <2>1, <2>2 DEF UpdatesInv, Calls, Run
  <1>2. CASE CallOperator(op, x, y, z)
    <2>1. /\ call' = Calls(op, Copy, y, z)
          /\ values' = [values EXCEPT ![Copy] = values[x]]
      BY <1>2 DEF CallOperator
    <2>2. /\ values' \in [Vars \cup {Copy} -> LualikeValues]
          /\ values'[Copy] = values[x] /\ values'[x] = values[x]
      BY <2>1 DEF UpdatesInv
    <2>3. IsAt(Run, x)' BY <2>1, <2>2, NilIsAValue DEF Calls, Run, IsAt, CallsInProgress
    <2> QED BY <2>1, <2>2, <2>3 DEF UpdatesInv, Calls, Run
  <1>3. CASE CallLogical(op, x, y, z)
    <2>1. call' = Calls(op, x, y, z) /\ values' = values BY <1>3 DEF CallLogical
    <2>2. IsAt(Run, x)' BY <2>1, NilIsAValue DEF Calls, Run, IsAt, CallsInProgress
    <2> QED BY <2>1, <2>2 DEF UpdatesInv, Calls, Run
  <1> QED BY <1>1, <1>2, <1>3

LEMMA GiveUpKeepsInv ==
    ASSUME UpdatesInv, NEW kind, GiveUp(kind)
    PROVE  UpdatesInv'
  BY NilIsAValue DEF UpdatesInv, GiveUp

(* A look at an operand changes the place of the call, and what it keeps.  *)
LEMMA LookKeepsInv ==
    ASSUME UpdatesInv, LookAtLhs \/ LookAtRhs
    PROVE  UpdatesInv'
  <1>1. PICK x \in Vars : call = <<Run>> /\ IsAt(Run, x)
    BY DEF UpdatesInv, LookAtLhs, LookAtRhs, Running
  <1>2. values' = values BY DEF LookAtLhs, LookAtRhs
  <1>3. values[Run.lhs] \in LualikeValues /\ values[Run.rhs] \in LualikeValues
    BY <1>1 DEF UpdatesInv, IsAt, CallsInProgress
  <1>4. CASE LookAtLhs
    <2>1. /\ call' = <<Run'>> /\ Run' = [Run EXCEPT !.left = values[Run.lhs], !.at = "rhs"]
          /\ Run.at = "lhs" /\ Takes(Run.op, values[Run.lhs])
      BY <1>4 DEF LookAtLhs, Run, Running
    <2>2. Run' \in CallsInProgress /\ Run'.lhs \in {x, Copy} /\ Run'.op = Run.op
      BY <1>1, <1>3, <2>1 DEF IsAt, CallsInProgress
    <2>3. Run'.at = "rhs" /\ Run'.left = values[x] /\ Takes(Run'.op, Run'.left)
      BY <1>1, <2>1, <2>2 DEF IsAt, CallsInProgress
    <2>4. IsAt(Run, x)' BY <1>2, <2>2, <2>3 DEF IsAt
    <2> QED BY <1>2, <2>1, <2>4 DEF UpdatesInv
  <1>5. CASE LookAtRhs
    <2>1. /\ call' = <<Run'>> /\ Run' = [Run EXCEPT !.right = values[Run.rhs], !.at = "store"]
          /\ Run.at = "rhs" /\ Takes(Run.op, values[Run.rhs])
      BY <1>5 DEF LookAtRhs, Run, Running
    <2>2. /\ Run' \in CallsInProgress /\ Run'.lhs \in {x, Copy} /\ Run'.op = Run.op
          /\ Run'.left = Run.left /\ Run'.rhs = Run.rhs
      BY <1>1, <1>3, <2>1 DEF IsAt, CallsInProgress
    <2>3. Run.left = values[x] /\ Takes(Run.op, Run.left)
      BY <1>1, <2>1 DEF IsAt
    <2>4. Run'.at = "store" /\ Run'.right = values[Run.rhs]
      BY <1>1, <2>1 DEF IsAt, CallsInProgress
    <2>5. IsAt(Run, x)' BY <1>2, <2>1, <2>2, <2>3, <2>4 DEF IsAt
    <2> QED BY <1>2, <2>1, <2>5 DEF UpdatesInv
  <1> QED BY <1>4, <1>5

LEMMA StoreKeepsInv ==
    ASSUME UpdatesInv, Store
    PROVE  UpdatesInv'
  <1> USE CopyAssumption
  <1>1. PICK x \in Vars : call = <<Run>> /\ IsAt(Run, x)
    BY DEF UpdatesInv, Store, Running
  <1>2. /\ Run.at = "store" /\ Run.left = values[x] /\ Run.right = values[Run.rhs]
        /\ Takes(Run.op, Run.left) /\ Takes(Run.op, Run.right)
    BY <1>1 DEF Store, Running, Run, IsAt
  <1>3. /\ Run \in CallsInProgress /\ Run.op \in BinaryOps /\ Run.to \in Vars /\ Run.rhs \in Vars
        /\ Run.left \in LualikeValues /\ Run.right \in LualikeValues
    BY <1>1 DEF IsAt, CallsInProgress
  <1>4. PICK o \in ResultsOf(Run.op, Run.left, Run.right) :
            values' = [values EXCEPT ![IF Run.lhs = Copy THEN Copy ELSE Run.to] = o]
    BY DEF Store
  <1>5. o \in LualikeValues /\ o \notin Throws
    BY <1>2, <1>3, <1>4, ResultsOfTaken, ValuesAreNotThrows
  <1>6. values' \in [Vars \cup {Copy} -> LualikeValues]
    BY <1>3, <1>4, <1>5 DEF UpdatesInv
  <1>7. CASE Run.lhs = Copy
    <2>1. call' = <<Run'>> /\ Run' = [Run EXCEPT !.at = "return"]
      BY <1>7 DEF Store, Run
    <2>2. /\ Run' \in CallsInProgress /\ Run'.lhs = Copy /\ Run'.at = "return"
          /\ Run'.op = Run.op /\ Run'.rhs = Run.rhs
      BY <1>3, <1>7, <2>1 DEF CallsInProgress
    <2>3. values'[Copy] = o /\ values'[x] = values[x] /\ values'[Run.rhs] = values[Run.rhs]
      BY <1>3, <1>4, <1>7 DEF UpdatesInv
    <2>4. values'[Copy] \in ResultsOf(Run'.op, values'[x], values'[Run'.rhs])
      BY <1>2, <1>4, <2>2, <2>3
    <2>5. IsAt(Run, x)' BY <1>5, <2>2, <2>3, <2>4 DEF IsAt
    <2> QED BY <1>6, <2>1, <2>5 DEF UpdatesInv
  <1>8. CASE Run.lhs # Copy
    BY <1>6, <1>8 DEF UpdatesInv, Store
  <1> QED BY <1>7, <1>8

LEMMA ReturnKeepsInv ==
    ASSUME UpdatesInv, Return
    PROVE  UpdatesInv'
  <1>1. PICK x \in Vars : call = <<Run>> /\ IsAt(Run, x)
    BY DEF UpdatesInv, Return, Running
  <1>2. values' \in [Vars \cup {Copy} -> LualikeValues]
    BY <1>1, NilIsAValue DEF UpdatesInv, Return, IsAt, CallsInProgress
  <1> QED BY <1>2 DEF UpdatesInv, Return

LEMMA StepKeepsInv ==
    ASSUME UpdatesInv, [Next]_vars
    PROVE  UpdatesInv'
  <1>1. CASE UNCHANGED vars
    BY <1>1 DEF vars, UpdatesInv, IsAt, Run
  <1>2. ASSUME NEW op \in ArithmeticOps \cup FloatOps, NEW x \in Vars, NEW y \in Vars,
               CallAssignment(op, x, y) \/ \E z \in Vars : CallOperator(op, x, y, z)
        PROVE  UpdatesInv'
    BY <1>2, CallKeepsInv DEF BinaryOps
  <1>3. ASSUME NEW op \in LogicalOps, NEW x \in Vars, NEW y \in Vars, NEW z \in Vars,
               CallLogical(op, x, y, z)
        PROVE  UpdatesInv'
    BY <1>3, CallKeepsInv DEF BinaryOps
  <1>4. CASE LookAtLhs \/ LookAtRhs BY <1>4, LookKeepsInv
  <1>5. CASE LhsThrows \/ RhsThrows
    BY <1>5, GiveUpKeepsInv DEF LhsThrows, RhsThrows
  <1>6. CASE Store BY <1>6, StoreKeepsInv
  <1>7. CASE Return BY <1>7, ReturnKeepsInv
  <1> QED BY <1>1, <1>2, <1>3, <1>4, <1>5, <1>6, <1>7 DEF Next

----------------------------------------------------------------------------
(* A step of a call that stores or throws is an operation on values; every *)
(* other step changes nothing that the abstract specification sees.        *)
Held == [v \in Vars |-> values[v]]

LEMMA OtherStepsStutter ==
    ASSUME UpdatesInv, NEW op, NEW x, NEW y, NEW z,
           \/ CallAssignment(op, x, y) \/ CallOperator(op, x, y, z) \/ CallLogical(op, x, y, z)
           \/ LookAtLhs \/ LookAtRhs
    PROVE  UNCHANGED <<Held, raised>>
  <1>1. raised' = raised /\ \A v \in Vars : values'[v] = values[v]
    BY CopyAssumption DEF UpdatesInv, CallAssignment, CallOperator, CallLogical,
                          LookAtLhs, LookAtRhs
  <1> QED BY <1>1 DEF Held

LEMMA ThrowIsAnOperation ==
    ASSUME UpdatesInv, LhsThrows \/ RhsThrows
    PROVE  Updates!Next
  <1>1. PICK x \in Vars : call = <<Run>> /\ IsAt(Run, x)
    BY DEF UpdatesInv, LhsThrows, RhsThrows, Running
  <1>2. Run.op \in BinaryOps /\ Run.rhs \in Vars BY <1>1 DEF IsAt, CallsInProgress
  <1>3. Held[x] = values[x] /\ Held[Run.rhs] = values[Run.rhs] BY <1>2 DEF Held
  <1>4. PICK kind : /\ GiveUp(kind) /\ Throw(kind) \in Throws /\ Throw(kind)[2] = kind
                    /\ ResultsOf(Run.op, values[x], values[Run.rhs]) = {Throw(kind)}
    <2>1. CASE LhsThrows
      <3>1. values[Run.lhs] = values[x] /\ ~Takes(Run.op, values[x])
        BY <1>1, <2>1 DEF LhsThrows, Running, Run, IsAt
      <3> QED BY <1>2, <2>1, <3>1, ResultsOfRefused, ErrKinds DEF LhsThrows
    <2>2. CASE RhsThrows
      <3>1. Takes(Run.op, values[x]) /\ ~Takes(Run.op, values[Run.rhs])
        BY <1>1, <2>2 DEF RhsThrows, Running, Run, IsAt
      <3> QED BY <1>2, <2>2, <3>1, ResultsOfRefused, ErrKinds DEF RhsThrows
    <2> QED BY <2>1, <2>2
  <1>5. raised' = <<Throw(kind)[2]>> /\ \A v \in Vars : values'[v] = values[v]
    BY <1>4, CopyAssumption DEF UpdatesInv, GiveUp
  <1>6. UNCHANGED Held BY <1>5 DEF Held
  <1>7. Updates!Operate(Run.op, x, Run.rhs, x)
    BY <1>3, <1>4, <1>5, <1>6 DEF Updates!Operate, Held
  <1> QED BY <1>2, <1>7 DEF Updates!Next

LEMMA StoreIsAnOperation ==
    ASSUME UpdatesInv, Store
    PROVE  Updates!Next \/ UNCHANGED <<Held, raised>>
  <1>1. PICK x \in Vars : call = <<Run>> /\ IsAt(Run, x)
    BY DEF UpdatesInv, Store, Running
  <1>2. /\ Run.op \in BinaryOps /\ Run.rhs \in Vars /\ Run.to \in Vars
        /\ Run.left \in LualikeValues /\ Run.right \in LualikeValues
    BY <1>1 DEF IsAt, CallsInProgress
  <1>3. /\ Run.left = values[x] /\ Run.right = values[Run.rhs]
        /\ Takes(Run.op, Run.left) /\ Takes(Run.op, Run.right)
    BY <1>1 DEF Store, Running, Run, IsAt
  <1>4. PICK o \in ResultsOf(Run.op, Run.left, Run.right) :
            values' = [values EXCEPT ![IF Run.lhs = Copy THEN Copy ELSE Run.to] = o]
    BY DEF Store
  <1>5. CASE Run.lhs = Copy
    <2>1. raised' = raised /\ \A v \in Vars : values'[v] = values[v]
      BY <1>4, <1>5, CopyAssumption DEF Store, UpdatesInv
    <2> QED BY <2>1 DEF Held
  <1>6. CASE Run.lhs # Copy
    <2>1. o \notin Throws BY <1>2, <1>3, ResultsOfTaken, ValuesAreNotThrows
    <2>2. raised' = <<>> /\ values' = [values EXCEPT ![Run.to] = o]
      BY <1>4, <1>6 DEF Store
    <2>3. Held' = [Held EXCEPT ![Run.to] = o]
      BY <1>2, <2>2 DEF Held, UpdatesInv
    <2>4. Held[x] = values[x] /\ Held[Run.rhs] = values[Run.rhs] BY <1>2 DEF Held
    <2>5. PICK op \in BinaryOps, y \in Vars, z \in Vars : op = Run.op /\ y = Run.rhs /\ z = Run.to
      BY <1>2
    <2>6. Updates!Operate(op, x, y, z)
      BY <1>3, <2>1, <2>2, <2>3, <2>4, <2>5 DEF Updates!Operate, Held
    <2> QED BY <2>6 DEF Updates!Next
  <1> QED BY <1>5, <1>6

LEMMA ReturnIsAnOperation ==
    ASSUME UpdatesInv, Return
    PROVE  Updates!Next
  <1>1. PICK x \in Vars : call = <<Run>> /\ IsAt(Run, x)
    BY DEF UpdatesInv, Return, Running
  <1>2. Run.op \in BinaryOps /\ Run.rhs \in Vars /\ Run.to \in Vars
    BY <1>1 DEF IsAt, CallsInProgress
  <1>3. values[Copy] \in ResultsOf(Run.op, values[x], values[Run.rhs]) /\ values[Copy] \notin Throws
    BY <1>1 DEF Return, Running, Run, IsAt
  <1>4. raised' = <<>> /\ values' = [values EXCEPT ![Run.to] = values[Copy], ![Copy] = Nil]
    BY DEF Return
  <1>5. Held' = [Held EXCEPT ![Run.to] = values[Copy]]
    BY <1>2, <1>4, CopyAssumption DEF Held, UpdatesInv
  <1>6. Held[x] = values[x] /\ Held[Run.rhs] = values[Run.rhs] BY <1>2 DEF Held
  <1>7. PICK op \in BinaryOps, y \in Vars, z \in Vars : op = Run.op /\ y = Run.rhs /\ z = Run.to
    BY <1>2
  <1>8. Updates!Operate(op, x, y, z)
    BY <1>3, <1>4, <1>5, <1>6, <1>7 DEF Updates!Operate, Held
  <1> QED BY <1>8 DEF Updates!Next

LEMMA StepRefines ==
    ASSUME UpdatesInv, [Next]_vars
    PROVE  [Updates!Next]_(Updates!vars)
  <1> USE DEF Updates!vars
  <1>1. CASE UNCHANGED vars BY <1>1 DEF vars
  <1>2. ASSUME NEW op, NEW x, NEW y,
               CallAssignment(op, x, y) \/ \E z \in Vars : CallOperator(op, x, y, z)
        PROVE  UNCHANGED Updates!vars
    BY <1>2, OtherStepsStutter DEF Held
  <1>3. ASSUME NEW op, NEW x, NEW y, NEW z, CallLogical(op, x, y, z)
        PROVE  UNCHANGED Updates!vars
    BY <1>3, OtherStepsStutter DEF Held
  <1>4. CASE LookAtLhs \/ LookAtRhs BY <1>4, OtherStepsStutter DEF Held
  <1>5. CASE LhsThrows \/ RhsThrows BY <1>5, ThrowIsAnOperation
  <1>6. CASE Store BY <1>6, StoreIsAnOperation DEF Held
  <1>7. CASE Return BY <1>7, ReturnIsAnOperation
  <1> QED BY <1>1, <1>2, <1>3, <1>4, <1>5, <1>6, <1>7 DEF Next

(* Operations through references to C++ variables are operations on values *)
(* that take effect at once, or not at all when they throw, for every set  *)
(* of variables: x op= x and x = y op x are what they look like.           *)
THEOREM UpdatesImplementValueUpdates == Spec => ImplementsValueUpdates
  <1>1. Init => UpdatesInv BY DEF Init, UpdatesInv
  <1>2. UpdatesInv /\ [Next]_vars => UpdatesInv' BY StepKeepsInv
  <1>3. Init => Updates!Init BY DEF Init, Updates!Init
  <1>4. UpdatesInv /\ [Next]_vars => [Updates!Next]_(Updates!vars) BY StepRefines
  <1> QED BY <1>1, <1>2, <1>3, <1>4, PTL DEF Spec, ImplementsValueUpdates, Updates!Spec

----------------------------------------------------------------------------
(* The comparisons.  Every value but NaN has a rank among those of its     *)
(* kind, and the order is that of kinds and ranks.                         *)
Rank(v) ==
    CASE v[1] \in {"Int", "String", "Float"} -> v[2]
      [] v[1] = "Inf" -> IF v[2] > 0 THEN FloatLimit + 1 ELSE -FloatLimit - 1
      [] v[1] = "Bool" -> IF v[2] THEN 1 ELSE 0
      [] v[1] = "Nil" -> 0

LEMMA KindsOfValues ==
    ASSUME NEW v \in LualikeValues
    PROVE  \/ v = Nil /\ v[1] = "Nil" /\ TypeIndex(v) = 0
           \/ v \in Bools /\ v[1] = "Bool" /\ TypeIndex(v) = 1
           \/ v \in Ints /\ v[1] = "Int" /\ TypeIndex(v) = 2
           \/ v \in Floats /\ IsFloat(v) /\ TypeIndex(v) = 3
           \/ v \in Strings /\ v[1] = "String" /\ TypeIndex(v) = 4
  <1>1. CASE v = Nil BY <1>1 DEF Nil, TypeIndex, IsFloat
  <1>2. CASE v \in Bools BY <1>2 DEF Bools, TypeIndex, IsFloat
  <1>3. CASE v \in Ints BY <1>3 DEF Ints, TypeIndex, IsFloat
  <1>4. CASE v \in Floats
    <2>1. v[1] \in {"Float", "Inf", "NaN"} BY <1>4 DEF Floats, Infs, NaN
    <2> QED BY <1>4, <2>1 DEF TypeIndex, IsFloat
  <1>5. CASE v \in Strings BY <1>5 DEF Strings, TypeIndex, IsFloat
  <1> QED BY <1>1, <1>2, <1>3, <1>4, <1>5 DEF LualikeValues

LEMMA RanksOfBools ==
    ASSUME NEW a \in Bools, NEW b \in Bools
    PROVE  /\ Rank(a) \in Int
           /\ PayloadLess(a, b) <=> Rank(a) < Rank(b)
           /\ a = b <=> Rank(a) = Rank(b)
  <1>1. /\ a[1] = "Bool" /\ a[2] \in BOOLEAN /\ a = <<"Bool", a[2]>>
        /\ b[1] = "Bool" /\ b[2] \in BOOLEAN /\ b = <<"Bool", b[2]>>
    BY DEF Bools
  <1>2. /\ Rank(a) = IF a[2] THEN 1 ELSE 0
        /\ Rank(b) = IF b[2] THEN 1 ELSE 0
    BY <1>1 DEF Rank
  <1>3. PayloadLess(a, b) <=> ~a[2] /\ b[2] BY <1>1 DEF PayloadLess, IsBool, IsFloat
  <1>4. a = b <=> (a[2] <=> b[2]) BY <1>1
  <1> QED BY <1>2, <1>3, <1>4

LEMMA RanksOfIntsAndStrings ==
    ASSUME NEW K \in {Ints, Strings}, NEW a \in K, NEW b \in K
    PROVE  /\ Rank(a) \in Int
           /\ PayloadLess(a, b) <=> Rank(a) < Rank(b)
           /\ a = b <=> Rank(a) = Rank(b)
  <1>1. /\ a[1] \in {"Int", "String"} /\ a[2] \in Int /\ a = <<a[1], a[2]>>
        /\ b[1] \in {"Int", "String"} /\ b[2] \in Int /\ b = <<b[1], b[2]>>
        /\ a[1] = b[1]
    BY ValueAssumption DEF Ints, Strings
  <1>2. Rank(a) = a[2] /\ Rank(b) = b[2] BY <1>1 DEF Rank
  <1>3. PayloadLess(a, b) <=> a[2] < b[2] BY <1>1 DEF PayloadLess, IsBool, IsFloat
  <1> QED BY <1>1, <1>2, <1>3

LEMMA RanksOfFloats ==
    ASSUME NEW a \in Floats \ {NaN}, NEW b \in Floats \ {NaN}
    PROVE  /\ Rank(a) \in Int
           /\ PayloadLess(a, b) <=> Rank(a) < Rank(b)
           /\ a = b <=> Rank(a) = Rank(b)
  <1>1. FloatLimit \in Nat BY ConstantsOfDoubles
  <1>2. \A f \in Floats \ {NaN} :
            \/ f = <<"Float", f[2]>> /\ f[1] = "Float" /\ f[2] \in -FloatLimit..FloatLimit
            \/ f = <<"Inf", 1>> /\ f[1] = "Inf" /\ f[2] = 1
            \/ f = <<"Inf", -1>> /\ f[1] = "Inf" /\ f[2] = -1
    BY <1>1, FiniteDoublesAreBounded DEF Floats, Infs, NaN
  <1>3. \A f \in Floats \ {NaN} :
            /\ f[1] = "Float" => Rank(f) = f[2] /\ f \notin Infs
            /\ f[1] = "Inf" /\ f[2] = 1 => Rank(f) = FloatLimit + 1 /\ f \in Infs
            /\ f[1] = "Inf" /\ f[2] = -1 => Rank(f) = -FloatLimit - 1 /\ f \in Infs
    BY <1>1, <1>2 DEF Rank, Infs
  <1>4. PayloadLess(a, b) <=> FloatLess(a, b)
    <2>1. a[1] \in {"Float", "Inf"} BY <1>2
    <2> QED BY <2>1 DEF PayloadLess, IsBool, IsFloat
  <1>5. CASE a[1] = "Float" /\ b[1] = "Float"
    <2>1. FloatLess(a, b) <=> a[2] < b[2] BY <1>3, <1>5 DEF FloatLess
    <2>2. Rank(a) = a[2] /\ Rank(b) = b[2] BY <1>3, <1>5
    <2>3. a[2] \in Int BY <1>1, <1>2, <1>5
    <2>4. a = b <=> a[2] = b[2] BY <1>2, <1>5
    <2> QED BY <1>4, <2>1, <2>2, <2>3, <2>4
  <1>6. CASE a[1] = "Inf" \/ b[1] = "Inf"
    <2>1. FloatLess(a, b) <=> a # b /\ (a = <<"Inf", -1>> \/ b = <<"Inf", 1>>)
      BY <1>2, <1>3, <1>6 DEF FloatLess
    <2> QED BY <1>1, <1>2, <1>3, <1>4, <1>6, <2>1
  <1> QED BY <1>2, <1>5, <1>6

LEMMA RanksOfValues ==
    ASSUME NEW a \in LualikeValues \ {NaN}, NEW b \in LualikeValues \ {NaN},
           TypeIndex(a) = TypeIndex(b)
    PROVE  /\ Rank(a) \in Int
           /\ PayloadLess(a, b) <=> Rank(a) < Rank(b)
           /\ a = b <=> Rank(a) = Rank(b)
  <1>1. CASE a = Nil /\ b = Nil
    <2>1. a[1] = "Nil" BY <1>1 DEF Nil
    <2> QED BY <1>1, <2>1 DEF PayloadLess, Rank, IsBool, IsFloat
  <1>2. CASE a \in Bools /\ b \in Bools BY <1>2, RanksOfBools
  <1>3. CASE a \in Ints /\ b \in Ints BY <1>3, RanksOfIntsAndStrings
  <1>4. CASE a \in Floats /\ b \in Floats BY <1>4, RanksOfFloats
  <1>5. CASE a \in Strings /\ b \in Strings BY <1>5, RanksOfIntsAndStrings
  <1>6. PICK i, j : i = TypeIndex(a) /\ j = TypeIndex(b) OBVIOUS
  <1>7. \/ i = 0 /\ a = Nil
        \/ i = 1 /\ a \in Bools
        \/ i = 2 /\ a \in Ints
        \/ i = 3 /\ a \in Floats
        \/ i = 4 /\ a \in Strings
    BY <1>6, KindsOfValues
  <1>8. \/ j = 0 /\ b = Nil
        \/ j = 1 /\ b \in Bools
        \/ j = 2 /\ b \in Ints
        \/ j = 3 /\ b \in Floats
        \/ j = 4 /\ b \in Strings
    BY <1>6, KindsOfValues
  <1> QED BY <1>1, <1>2, <1>3, <1>4, <1>5, <1>6, <1>7, <1>8

LEMMA NaNIsNotLess ==
    ASSUME NEW a \in LualikeValues, NEW b \in LualikeValues,
           TypeIndex(a) = TypeIndex(b), NaN \in {a, b}
    PROVE  ~PayloadLess(a, b)
  <1>1. TypeIndex(NaN) = 3 BY DEF TypeIndex, IsFloat, NaN
  <1>2. PICK i : i = TypeIndex(a) OBVIOUS
  <1>3. i = 3 BY <1>1, <1>2
  <1>4. IsFloat(a) BY <1>2, <1>3, KindsOfValues
  <1>5. ~IsBool(a) /\ a[1] \notin {"Int", "String"} BY <1>4 DEF IsFloat, IsBool
  <1> QED BY <1>5 DEF PayloadLess, FloatLess

LEMMA LessIsLexicographic ==
    ASSUME NEW a \in LualikeValues, NEW b \in LualikeValues
    PROVE  /\ TypeIndex(a) \in Int
           /\ Less(a, b) <=> \/ TypeIndex(a) < TypeIndex(b)
                             \/ /\ TypeIndex(a) = TypeIndex(b) /\ NaN \notin {a, b}
                                /\ Rank(a) < Rank(b)
  <1>1. PICK i : i = TypeIndex(a) OBVIOUS
  <1>2. i \in Int BY <1>1, KindsOfValues
  <1> QED BY <1>1, <1>2, RanksOfValues, NaNIsNotLess DEF Less

LEMMA ValuesAreOrdered ==
    ASSUME NEW a \in LualikeValues, NEW b \in LualikeValues
    PROVE  /\ NaN \notin {a, b} =>
                  /\ Less(a, b) \/ Less(b, a) \/ Equal(a, b)
                  /\ LessOrEqual(a, b) <=> ~Less(b, a)
           /\ ~(Less(a, b) /\ (Less(b, a) \/ Equal(a, b)))
           /\ \A c \in LualikeValues : Less(a, b) /\ Less(b, c) => Less(a, c)
  <1>1. Equal(a, b) <=> a = b /\ a # NaN BY DEF Equal
  <1>2. NaN \notin {a, b} =>
            /\ Less(a, b) \/ Less(b, a) \/ a = b
            /\ ~(Less(b, a) /\ (Less(a, b) \/ a = b))
    BY LessIsLexicographic, RanksOfValues
  <1>3. ~(Less(a, b) /\ (Less(b, a) \/ a = b))
    BY LessIsLexicographic, RanksOfValues
  <1>4. ASSUME NEW c \in LualikeValues, Less(a, b), Less(b, c) PROVE Less(a, c)
    <2>1. TypeIndex(a) \in Int /\ TypeIndex(b) \in Int /\ TypeIndex(c) \in Int
      BY LessIsLexicographic
    <2>2. CASE TypeIndex(a) < TypeIndex(b) \/ TypeIndex(b) < TypeIndex(c)
      <3>1. TypeIndex(a) < TypeIndex(c)
        BY <1>4, <2>1, <2>2, LessIsLexicographic
      <3> QED BY <3>1 DEF Less
    <2>3. CASE TypeIndex(a) = TypeIndex(b) /\ TypeIndex(b) = TypeIndex(c)
      <3>1. NaN \notin {a, b, c} /\ Rank(a) < Rank(b) /\ Rank(b) < Rank(c)
        BY <1>4, <2>1, <2>3, LessIsLexicographic
      <3>2. Rank(a) \in Int /\ Rank(b) \in Int /\ Rank(c) \in Int
        BY <2>3, <3>1, RanksOfValues
      <3>3. Rank(a) < Rank(c) BY <3>1, <3>2
      <3> QED BY <2>3, <3>1, <3>3, LessIsLexicographic
    <2> QED BY <1>4, <2>1, <2>2, <2>3, LessIsLexicographic
  <1> QED BY <1>1, <1>2, <1>3, <1>4 DEF LessOrEqual

THEOREM UpdatesInvariant == Spec => []UpdatesInv
  <1>1. Init => UpdatesInv BY DEF Init, UpdatesInv
  <1>2. UpdatesInv /\ [Next]_vars => UpdatesInv' BY StepKeepsInv
  <1> QED BY <1>1, <1>2, PTL DEF Spec

(* The values that C++ code holds in its variables are ordered, but for    *)
(* NaN: whatever was done to them, for numbers of any width.               *)
THEOREM ValuesAreAnOrder == Spec => []ComparisonIsAnOrder
  <1>1. ASSUME UpdatesInv PROVE ComparisonIsAnOrder
    <2>1. \A v \in Vars : values[v] \in LualikeValues BY <1>1 DEF UpdatesInv
    <2> QED BY <2>1, ValuesAreOrdered DEF ComparisonIsAnOrder
  <1> QED BY <1>1, UpdatesInvariant, PTL

----------------------------------------------------------------------------
(* A remainder differs from the dividend by a multiple of the divisor, and *)
(* lies on the dividend's side of 0.                                       *)
LEMMA RemainderIs ==
    ASSUME NEW h \in Int, NEW g \in Int \ {0}, NEW m \in Int
    PROVE  IsRemainder(m, h, g) <=>
               /\ \E u \in Int : h - m = Magnitude(g) * u
               /\ -Magnitude(g) < m /\ m < Magnitude(g)
               /\ h > 0 => m >= 0
               /\ h < 0 => m <= 0
  <1>1. PICK n \in Nat \ {0} : n = Magnitude(g) BY MagnitudeOf
  <1>2. (h - m) % n = 0 <=> \E u \in Int : h - m = n * u
    <2>1. h - m \in Int OBVIOUS
    <2>2. ASSUME (h - m) % n = 0 PROVE \E u \in Int : h - m = n * u
      <3>1. PICK q \in Int : h - m = n * q + ((h - m) % n) BY <2>1, DivisionWithRest
      <3>2. h - m = n * q BY <2>2, <3>1
      <3> QED BY <3>2
    <2>3. ASSUME NEW u \in Int, h - m = n * u PROVE (h - m) % n = 0
      <3>1. PICK q \in Int, w \in 0..(n - 1) : h - m = n * q + w /\ w = (h - m) % n
        BY <2>1, DivisionWithRest
      <3>2. n * (u - q) = w
        <4>1. n * (u - q) = n * u - n * q OBVIOUS
        <4> QED BY <2>3, <3>1, <4>1
      <3>3. n * (u - q) = 0 BY <3>1, <3>2, MultiplesApart
      <3> QED BY <3>1, <3>2, <3>3
    <2> QED BY <2>2, <2>3
  <1>3. Magnitude(m) < n <=> -n < m /\ m < n BY <1>1 DEF Magnitude
  <1>4. m * h >= 0 <=> (h > 0 => m >= 0) /\ (h < 0 => m <= 0)
    <2>1. CASE h = 0 BY <2>1
    <2>2. CASE h > 0 BY <2>2, SignOfProduct
    <2>3. CASE h < 0 BY <2>3, SignOfProduct
    <2> QED BY <2>1, <2>2, <2>3
  <1> QED BY <1>1, <1>2, <1>3, <1>4 DEF IsRemainder

LEMMA OneRemainder ==
    ASSUME NEW h \in Int, NEW g \in Int \ {0}, NEW m \in Int, NEW r \in Int,
           IsRemainder(m, h, g), IsRemainder(r, h, g)
    PROVE  m = r
  <1>1. PICK n \in Nat \ {0} : n = Magnitude(g) BY MagnitudeOf
  <1>2. PICK u \in Int : h - m = n * u BY <1>1, RemainderIs
  <1>3. PICK v \in Int : h - r = n * v BY <1>1, RemainderIs
  <1>4. /\ -n < m /\ m < n /\ -n < r /\ r < n
        /\ h > 0 => m >= 0 /\ r >= 0
        /\ h < 0 => m <= 0 /\ r <= 0
    BY <1>1, RemainderIs
  <1>5. n * (v - u) = m - r
    <2>1. n * (v - u) = n * v - n * u OBVIOUS
    <2> QED BY <1>2, <1>3, <2>1
  <1>6. CASE h # 0
    <2>1. n * (v - u) = 0 BY <1>4, <1>5, <1>6, MultiplesApart
    <2> QED BY <1>5, <2>1
  <1>7. CASE h = 0
    <2>1. n * u = -m /\ n * v = -r BY <1>2, <1>3, <1>7
    <2>2. n * u = 0 /\ n * v = 0 BY <1>4, <2>1, MultiplesApart
    <2> QED BY <2>1, <2>2
  <1> QED BY <1>6, <1>7

(* std::fmod gives the remainder.                                          *)
LEMMA FmodIsTheRemainder ==
    ASSUME NEW h \in Int, NEW g \in Int \ {0}
    PROVE  \E r \in Int :
               /\ FloatFmod(<<"Float", h>>, <<"Float", g>>) = <<"Float", r>>
               /\ IsRemainder(r, h, g)
               /\ Magnitude(r) <= Magnitude(h)
  <1> DEFINE s == Sign(<<"Float", h>>)
             t == Sign(<<"Float", g>>)
             r == h - g * s * t * ((s * h) \div (t * g))
  <1>1. FloatFmod(<<"Float", h>>, <<"Float", g>>) = <<"Float", r>>
    <2>1. <<"Float", h>> # NaN /\ <<"Float", g>> # NaN BY DEF NaN
    <2>2. <<"Float", h>> \notin Infs /\ <<"Float", g>> \notin Infs BY DEF Infs
    <2>3. t # 0 BY DEF Sign
    <2> QED BY <2>1, <2>2, <2>3 DEF FloatFmod
  <1>2. /\ s = IF h > 0 THEN 1 ELSE IF h < 0 THEN -1 ELSE 0
        /\ t = IF g > 0 THEN 1 ELSE -1
    BY DEF Sign
  <1>3. PICK n \in Nat \ {0} : n = Magnitude(g) BY MagnitudeOf
  <1>4. t * g = n /\ g * t = n BY <1>2, <1>3, MagnitudeOf
  <1>5. PICK x \in Nat : x = Magnitude(h) BY MagnitudeOf
  <1>6. s * h = x BY <1>2, <1>5, MagnitudeOf
  <1>7. PICK q \in Int, w \in 0..(n - 1) : q = x \div n /\ x = n * q + w
    BY DivisionWithRest
  <1>8. PICK z \in Int : z = n * q /\ x = z + w
    <2>1. n * q \in Int OBVIOUS
    <2> QED BY <1>7, <2>1
  <1>9. r = h - s * z
    <2>1. s \in Int /\ t \in Int BY <1>2
    <2>2. r = h - g * s * t * q BY <1>4, <1>6, <1>7
    <2>3. g * s * t * q = s * ((g * t) * q) BY <2>1
    <2> QED BY <1>4, <1>8, <2>2, <2>3
  <1>10. z >= 0
    <2>1. q <= -1 => n * (-1 - q) >= 0 BY SignOfProduct
    <2>2. n * (-1 - q) = -n - n * q OBVIOUS
    <2>3. q >= 0 BY <1>8, <2>1, <2>2
    <2> QED BY <1>8, <2>3, SignOfProduct
  <1> HIDE DEF r, s, t
  <1>11. /\ h > 0 => r = w /\ h - r = z
         /\ h < 0 => r = -w /\ h - r = -z
         /\ h = 0 => r = 0 /\ h - r = 0
    <2>1. CASE h > 0
      <3>1. s = 1 /\ x = h BY <1>2, <1>5, <2>1, MagnitudeOf
      <3>2. s * z = z BY <3>1
      <3> QED BY <1>8, <1>9, <2>1, <3>1, <3>2
    <2>2. CASE h < 0
      <3>1. s = -1 /\ x = -h BY <1>2, <1>5, <2>2, MagnitudeOf
      <3>2. s * z = -z BY <3>1
      <3> QED BY <1>8, <1>9, <2>2, <3>1, <3>2
    <2>3. CASE h = 0
      <3>1. s * z = 0 BY <1>2, <2>3
      <3> QED BY <1>9, <2>3, <3>1
    <2> QED BY <2>1, <2>2, <2>3
  <1>12. r \in Int /\ -n < r /\ r < n /\ (h > 0 => r >= 0) /\ (h < 0 => r <= 0)
    BY <1>11
  <1>13. \E u \in Int : h - r = n * u
    <2>1. n * (-q) = -z /\ n * 0 = 0 BY <1>8
    <2>2. CASE h > 0
      <3> WITNESS q \in Int
      <3> QED BY <1>8, <1>11, <2>2
    <2>3. CASE h < 0
      <3> WITNESS -q \in Int
      <3> QED BY <1>11, <2>1, <2>3
    <2>4. CASE h = 0
      <3> WITNESS 0 \in Int
      <3> QED BY <1>11, <2>1, <2>4
    <2> QED BY <2>2, <2>3, <2>4
  <1>14. IsRemainder(r, h, g) BY <1>3, <1>12, <1>13, RemainderIs
  <1>15. Magnitude(r) <= x
    <2>1. w <= x BY <1>8, <1>10
    <2> QED BY <1>11, <2>1 DEF Magnitude
  <1> QED BY <1>1, <1>5, <1>12, <1>14, <1>15

(* There is one quotient rounded down, and \div gives it.                  *)
LEMMA OneFloor ==
    ASSUME NEW h \in Int, NEW g \in Int \ {0}, NEW k \in Int, NEW l \in Int,
           IsFloor(k, h, g), IsFloor(l, h, g)
    PROVE  k = l
  <1>1. k * g \in Int /\ l * g \in Int /\ (k + 1) * g = k * g + g /\ (l + 1) * g = l * g + g
    OBVIOUS
  <1>2. CASE g > 0
    <2>1. g * (k - l) = k * g - l * g OBVIOUS
    <2>2. -g < g * (k - l) /\ g * (k - l) < g BY <1>1, <1>2, <2>1 DEF IsFloor
    <2>3. g \in Nat \ {0} /\ k - l \in Int BY <1>2
    <2>4. k - l = 0 BY <2>2, <2>3, MultiplesApart
    <2> QED BY <2>4
  <1>3. CASE g < 0
    <2>1. PICK n \in Nat \ {0} : n = -g BY <1>3
    <2>2. n * (k - l) = l * g - k * g BY <2>1
    <2>3. -n < n * (k - l) /\ n * (k - l) < n BY <1>1, <1>3, <2>1, <2>2 DEF IsFloor
    <2>4. k - l \in Int OBVIOUS
    <2>5. k - l = 0 BY <2>3, <2>4, MultiplesApart
    <2> QED BY <2>5
  <1> QED BY <1>2, <1>3

(* k is the quotient rounded down if the dividend is less than one divisor *)
(* away from k divisors.                                                   *)
LEMMA FloorIs ==
    ASSUME NEW h \in Int, NEW g \in Int \ {0}, NEW k \in Int
    PROVE  \E x \in Int :
               /\ x = Sign(<<"Float", g>>) * h /\ Magnitude(x) = Magnitude(h)
               /\ IsFloor(k, h, g) <=> k * Magnitude(g) <= x /\ x < (k + 1) * Magnitude(g)
  <1>1. CASE g > 0
    <2>1. Sign(<<"Float", g>>) = 1 /\ Magnitude(g) = g BY <1>1, MagnitudeOf DEF Sign
    <2>2. 1 * h = h OBVIOUS
    <2> QED BY <1>1, <2>1, <2>2 DEF IsFloor
  <1>2. CASE g < 0
    <2>1. PICK n \in Nat \ {0} : n = -g BY <1>2
    <2>2. Sign(<<"Float", g>>) = -1 /\ Magnitude(g) = n BY <1>2, <2>1, MagnitudeOf DEF Sign
    <2>3. PICK x \in Int : x = -h OBVIOUS
    <2>4. (-1) * h = x /\ Magnitude(x) = Magnitude(h) BY <2>3 DEF Magnitude
    <2>5. k * g = -(k * n) /\ (k + 1) * g = -((k + 1) * n) /\ k * n \in Int /\ (k + 1) * n \in Int
      BY <2>1
    <2>6. IsFloor(k, h, g) <=> k * n <= x /\ x < (k + 1) * n BY <1>2, <2>3, <2>5 DEF IsFloor
    <2> QED BY <2>2, <2>4, <2>6
  <1> QED BY <1>1, <1>2

LEMMA SomeFloor ==
    ASSUME NEW h \in Int, NEW g \in Int \ {0}
    PROVE  \E k \in Int : IsFloor(k, h, g)
  <1>1. PICK n \in Nat \ {0} : n = Magnitude(g) BY MagnitudeOf
  <1>2. PICK x \in Int : x = Sign(<<"Float", g>>) * h BY FloorIs
  <1>3. PICK k \in Int, w \in 0..(n - 1) : x = n * k + w BY DivisionWithRest
  <1>4. k * n = n * k /\ (k + 1) * n = n * k + n /\ n * k \in Int OBVIOUS
  <1>5. k * n <= x /\ x < (k + 1) * n BY <1>3, <1>4
  <1> QED BY <1>1, <1>2, <1>5, FloorIs

LEMMA FloorIsSmall ==
    ASSUME NEW h \in Int, NEW g \in Int \ {0}, NEW k \in Int, IsFloor(k, h, g)
    PROVE  Magnitude(k) <= Magnitude(h)
  <1>1. k * g \in Int /\ (k + 1) * g \in Int OBVIOUS
  <1>2. CASE g > 0
    <2>1. k * g <= h /\ h < (k + 1) * g BY <1>2 DEF IsFloor
    <2>2. k >= 0 => k * (g - 1) >= 0 BY <1>2, SignOfProduct
    <2>3. k < 0 => (k + 1) * (g - 1) <= 0
      <3>1. k < 0 => (-k - 1) * (g - 1) >= 0 BY <1>2, SignOfProduct
      <3>2. (-k - 1) * (g - 1) = -((k + 1) * (g - 1)) OBVIOUS
      <3> QED BY <3>1, <3>2
    <2>4. k * (g - 1) = k * g - k /\ (k + 1) * (g - 1) = (k + 1) * g - k - 1 OBVIOUS
    <2> QED BY <1>1, <2>1, <2>2, <2>3, <2>4 DEF Magnitude
  <1>3. CASE g < 0
    <2>1. PICK n \in Nat \ {0} : n = -g BY <1>3
    <2>2. k * g = -(k * n) /\ (k + 1) * g = -((k + 1) * n) /\ k * n \in Int /\ (k + 1) * n \in Int
      BY <2>1
    <2>3. k * n <= -h /\ -h < (k + 1) * n BY <1>3, <2>2 DEF IsFloor
    <2>4. k >= 0 => k * (n - 1) >= 0 BY SignOfProduct
    <2>5. k < 0 => (-k - 1) * (n - 1) >= 0 BY SignOfProduct
    <2>6. (-k - 1) * (n - 1) = -((k + 1) * n) + k + 1 /\ k * (n - 1) = k * n - k OBVIOUS
    <2> QED BY <2>2, <2>3, <2>4, <2>5, <2>6 DEF Magnitude
  <1> QED BY <1>2, <1>3

(* Of two ints, the quotient that is rounded down and the remainder that   *)
(* is not fit together just where rounding down and to 0 are the same.     *)
LEMMA IntsFit ==
    ASSUME NEW i \in Int, NEW j \in Int \ {0}, NEW m \in Int, NEW k \in Int,
           IsRemainder(m, i, j), IsFloor(k, i, j)
    PROVE  i = k * j + m <=> m = 0 \/ (i > 0 <=> j > 0)
  <1>1. PICK n \in Nat \ {0} : n = Magnitude(j) BY MagnitudeOf
  <1>2. PICK u \in Int : i - m = n * u BY <1>1, RemainderIs
  <1>3. -n < m /\ m < n /\ (i > 0 => m >= 0) /\ (i < 0 => m <= 0) BY <1>1, RemainderIs
  <1>4. PICK w \in Int : w = i - k * j OBVIOUS
  <1>5. /\ j > 0 => n = j /\ 0 <= w /\ w < n
        /\ j < 0 => n = -j /\ -n < w /\ w <= 0
    <2>1. (k + 1) * j = k * j + j /\ k * j \in Int OBVIOUS
    <2>2. (j > 0 => n = j) /\ (j < 0 => n = -j) BY <1>1, MagnitudeOf
    <2> QED BY <1>4, <2>1, <2>2 DEF IsFloor
  <1>6. \E v \in Int : m - w = n * v
    <2>1. CASE j > 0
      <3>1. m - w = n * (k - u) BY <1>2, <1>4, <1>5, <2>1
      <3> WITNESS k - u \in Int
      <3> QED BY <3>1
    <2>2. CASE j < 0
      <3>1. j = -n BY <1>5, <2>2
      <3>2. m - w = n * (-k - u) BY <1>2, <1>4, <3>1
      <3> WITNESS -k - u \in Int
      <3> QED BY <3>2
    <2> QED BY <2>1, <2>2
  <1>7. PICK v \in Int : m - w = n * v BY <1>6
  <1>8. -n < m - w /\ m - w < n => m = w BY <1>7, MultiplesApart
  <1>9. i = 0 => m = 0
    <2>1. i = 0 => m = n * (-u) BY <1>2
    <2> QED BY <1>3, <2>1, MultiplesApart
  <1>10. i = k * j + m <=> m = w
    <2>1. k * j \in Int OBVIOUS
    <2> QED BY <1>4, <2>1
  <1>11. m = w <=> m = 0 \/ (i > 0 <=> j > 0) BY <1>3, <1>5, <1>8, <1>9
  <1> QED BY <1>10, <1>11

LEMMA RemainderOfDoubles ==
    ASSUME NEW h \in -FloatLimit..FloatLimit, NEW g \in Int \ {0}
    PROVE  /\ Remainder(h, g) \in Int /\ IsRemainder(Remainder(h, g), h, g)
           /\ Magnitude(Remainder(h, g)) <= Magnitude(h)
  <1>1. FloatLimit \in Nat /\ h \in Int BY ConstantsOfDoubles
  <1>2. PICK r \in Int : IsRemainder(r, h, g) /\ Magnitude(r) <= Magnitude(h)
    BY <1>1, FmodIsTheRemainder
  <1>3. r \in -FloatLimit..FloatLimit BY <1>1, <1>2 DEF Magnitude
  <1>4. Remainder(h, g) \in -FloatLimit..FloatLimit /\ IsRemainder(Remainder(h, g), h, g)
    BY <1>2, <1>3 DEF Remainder
  <1>5. PICK m \in Int : m = Remainder(h, g) BY <1>1, <1>4
  <1>6. m = r BY <1>1, <1>2, <1>4, <1>5, OneRemainder
  <1> QED BY <1>2, <1>5, <1>6

LEMMA FloorOfDoubles ==
    ASSUME NEW h \in -FloatLimit..FloatLimit, NEW g \in Int \ {0}
    PROVE  /\ FloorOfQuotient(h, g) \in Int /\ IsFloor(FloorOfQuotient(h, g), h, g)
  <1>1. FloatLimit \in Nat /\ h \in Int BY ConstantsOfDoubles
  <1>2. PICK k \in Int : IsFloor(k, h, g) BY <1>1, SomeFloor
  <1>3. Magnitude(k) <= Magnitude(h) BY <1>1, <1>2, FloorIsSmall
  <1>4. k \in -FloatLimit..FloatLimit BY <1>1, <1>3 DEF Magnitude
  <1>5. /\ FloorOfQuotient(h, g) \in -FloatLimit..FloatLimit
        /\ IsFloor(FloorOfQuotient(h, g), h, g)
    BY <1>2, <1>4 DEF FloorOfQuotient
  <1> QED BY <1>1, <1>5

LEMMA DivisionBetween ==
    ASSUME NEW y \in Int, NEW o \in Nat \ {0}, NEW k \in Int, k * o <= y, y < (k + 1) * o
    PROVE  y \div o = k
  <1>1. y \div o \in Int /\ y % o \in 0..(o - 1) /\ y = o * (y \div o) + (y % o)
    BY ONLY y \in Int, o \in Nat \ {0}, DivisionWithRest
  <1>2. PICK f \in Int, w \in 0..(o - 1) : f = y \div o /\ y = o * f + w BY <1>1
  <1>3. f - k <= -1 => (k - f - 1) * o >= 0 BY SignOfProduct
  <1>4. f - k >= 1 => (f - k - 1) * o >= 0 BY SignOfProduct
  <1>5. PICK p \in Int, q \in Int : p = k * o /\ q = o * f OBVIOUS
  <1>6. /\ (k - f - 1) * o = p - q - o /\ (f - k - 1) * o = q - p - o
        /\ (k + 1) * o = p + o
    BY <1>5
  <1>7. f = k BY <1>2, <1>3, <1>4, <1>5, <1>6
  <1> QED BY <1>2, <1>7

(* The rounded quotient lies between the same two whole numbers.           *)
LEMMA QuotientsOfDoubles ==
    ASSUME NEW i \in Int, NEW j \in Int \ {0}, NEW k \in -Significands..(Significands - 1),
           IsFloor(k, i, j)
    PROVE  \E y \in Int :
               /\ Double(Sign(<<"Float", j>>) * i * UnitsInOne, Magnitude(j)) = <<"Float", y>>
               /\ y \div UnitsInOne \in {k, k + 1}
  <1>1. Significands \in Nat \ {0} /\ UnitsInOne \in Nat \ {0} /\ UnitsInOne \in Ulps
    BY ConstantsOfDoubles
  <1>2. k \in Int /\ -Significands <= k /\ k + 1 <= Significands BY <1>1
  <1>3. PICK d \in Nat \ {0} : d = Magnitude(j) BY MagnitudeOf
  <1>4. PICK x \in Int : /\ x = Sign(<<"Float", j>>) * i
                         /\ k * d <= x /\ x < (k + 1) * d
    BY <1>2, <1>3, FloorIs
  <1>5. PICK n \in Int : n = x * UnitsInOne BY <1>1
  <1>6. PICK c \in Nat \ {0} : c = d * UnitsInOne BY <1>1, ReachesMeans
  <1>7. k * c <= n /\ n <= (k + 1) * c
    <2>1. PICK p \in Int, q \in Int : p = k * d /\ q = (k + 1) * d BY <1>2
    <2>2. (x - p) * UnitsInOne >= 0 /\ (q - x) * UnitsInOne >= 0
      BY <1>1, <1>4, <2>1, SignOfProduct
    <2>3. (x - p) * UnitsInOne = n - k * c /\ (q - x) * UnitsInOne = (k + 1) * c - n
      BY <1>1, <1>2, <1>5, <1>6, <2>1
    <2>4. k * c \in Int /\ (k + 1) * c \in Int BY <1>2
    <2> QED BY <2>2, <2>3, <2>4
  <1>8. Reaches(UnitsInOne, n, d)
    <2>1. (k + Significands) * c >= 0 /\ (Significands - (k + 1)) * c >= 0
      BY <1>1, <1>2, SignOfProduct
    <2>2. /\ (k + Significands) * c = k * c + Significands * c
          /\ (Significands - (k + 1)) * c = Significands * c - (k + 1) * c
          /\ k * c \in Int /\ (k + 1) * c \in Int /\ Significands * c \in Int
      BY <1>1, <1>2
    <2>3. -(Significands * c) <= n /\ n <= Significands * c BY <1>7, <2>1, <2>2
    <2> QED BY <1>1, <1>6, <2>3, ReachesMeans
  <1>9. PICK u \in Ulps, m \in Int :
            /\ Double(n, d) = <<"Float", u * m>>
            /\ \A l \in Int : /\ n <= l * (d * UnitsInOne) => u * m <= l * UnitsInOne
                              /\ n >= l * (d * UnitsInOne) => u * m >= l * UnitsInOne
    BY <1>8, DoubleKeepsBounds
  <1>10. u \in Nat \ {0} BY UlpsAreNatural
  <1>11. PICK y \in Int : y = u * m BY <1>10
  <1>12. k * UnitsInOne <= y /\ y <= (k + 1) * UnitsInOne
    <2>1. k + 1 \in Int BY <1>2
    <2> QED BY <1>2, <1>6, <1>7, <1>9, <1>11, <2>1
  <1>13. y \div UnitsInOne \in {k, k + 1}
    <2>1. CASE y < (k + 1) * UnitsInOne BY <1>1, <1>2, <1>12, <2>1, DivisionBetween
    <2>2. CASE ~(y < (k + 1) * UnitsInOne)
      <3>1. PICK l \in Int, p \in Int : l = k + 1 /\ p = l * UnitsInOne BY <1>1, <1>2
      <3>2. (l + 1) * UnitsInOne = p + UnitsInOne BY <1>1, <3>1
      <3>3. y = p BY <1>12, <2>2, <3>1
      <3>4. l * UnitsInOne <= y /\ y < (l + 1) * UnitsInOne BY <1>1, <3>1, <3>2, <3>3
      <3>5. y \div UnitsInOne = l BY <1>1, <3>4, DivisionBetween
      <3> QED BY <3>1, <3>5
    <2> QED BY <2>1, <2>2
  <1> QED BY <1>3, <1>4, <1>5, <1>9, <1>11, <1>13

(* Ints of no more bits than a significand are far enough from each other: *)
(* the quotient is not rounded up to a whole number.                       *)
LEMMA QuotientsOfInts ==
    ASSUME NEW a \in Int, NEW b \in Int \ {0}, NEW k \in Int,
           Magnitude(a) <= Significands, Magnitude(b) <= Significands, IsFloor(k, a, b)
    PROVE  \E y \in Int :
               /\ Double(Sign(<<"Float", b * UnitsInOne>>) * (a * UnitsInOne) * UnitsInOne,
                         Magnitude(b * UnitsInOne)) = <<"Float", y>>
               /\ y \div UnitsInOne = k
  <1>1. /\ Significands \in Nat \ {0} /\ UnitsInOne \in Nat \ {0} /\ UnitsInOne \in Ulps
        /\ Significands <= UnitsInOne
    BY ConstantsOfDoubles, ValueAssumption
  <1>2. PICK o \in Nat \ {0}, e \in Nat \ {0} : o = UnitsInOne /\ e = Significands BY <1>1
  <1>3. PICK c \in Nat \ {0} : c = Magnitude(b) /\ c <= e BY <1>2, MagnitudeOf
  <1>4. PICK x \in Int : /\ x = Sign(<<"Float", b>>) * a /\ Magnitude(x) = Magnitude(a)
                         /\ k * c <= x /\ x < (k + 1) * c
    BY <1>3, FloorIs
  <1>5. -e <= x /\ x <= e BY <1>2, <1>4 DEF Magnitude
  <1>6. PICK d \in Nat \ {0} : d = c * o /\ d = Magnitude(b * o) /\ o <= d
    <2>1. (c - 1) * o >= 0 /\ c * o \in Nat BY SignOfProduct
    <2>2. (c - 1) * o = c * o - o OBVIOUS
    <2>3. Magnitude(b * o) = c * o
      <3>1. CASE b > 0 BY <1>3, <3>1, SignOfProduct, MagnitudeOf
      <3>2. CASE b < 0
        <4>1. b * o \in Int /\ b * o < 0 BY <3>2, SignOfProduct
        <4>2. c = -b BY <1>3, <3>2, MagnitudeOf
        <4>3. -(b * o) = c * o BY <4>2
        <4> QED BY <4>1, <4>3, MagnitudeOf
      <3> QED BY <3>1, <3>2
    <2>4. c * o \in Nat \ {0} BY <2>1, <2>2
    <2> QED BY <2>1, <2>2, <2>3, <2>4
  <1>7. PICK n \in Int : n = x * o * o OBVIOUS
  <1>8. Sign(<<"Float", b * UnitsInOne>>) * (a * UnitsInOne) * UnitsInOne = n
    <2>1. b * o > 0 <=> b > 0 BY SignOfProduct
    <2>2. b * o < 0 <=> b < 0 BY SignOfProduct
    <2>3. Sign(<<"Float", b * o>>) = Sign(<<"Float", b>>) BY <2>1, <2>2 DEF Sign
    <2>4. PICK s \in Int : s = Sign(<<"Float", b>>) BY DEF Sign
    <2>5. s * (a * o) * o = (s * a) * o * o BY <2>4
    <2> QED BY <1>2, <1>4, <1>7, <2>3, <2>4, <2>5
  <1>9. PICK z \in Nat : z = o * o BY SignOfProduct
  <1>10. n = x * z BY <1>7, <1>9
  <1>11. k * (d * o) <= n
    <2>1. PICK p \in Int : p = k * c OBVIOUS
    <2>2. (x - p) * z >= 0 BY <1>4, <1>9, <2>1, SignOfProduct
    <2>3. (x - p) * z = n - k * (d * o)
      <3>1. k * (d * o) = p * z BY <1>6, <1>9, <2>1
      <3>2. (x - p) * z = x * z - p * z OBVIOUS
      <3> QED BY <1>10, <3>1, <3>2
    <2>4. k * (d * o) \in Int OBVIOUS
    <2> QED BY <2>2, <2>3, <2>4
  <1>12. Reaches(UnitsInOne, n, d)
    <2>1. (e - x) * z >= 0 /\ (e + x) * z >= 0 BY <1>5, SignOfProduct
    <2>2. (e - x) * z = e * z - n /\ (e + x) * z = e * z + n /\ e * z \in Int BY <1>10
    <2>3. PICK t \in Int : t = o * e BY <1>2
    <2>4. (d - o) * t >= 0 BY <1>6, <2>3, SignOfProduct
    <2>5. (d - o) * t = e * (d * o) - e * z /\ e * (d * o) \in Int BY <1>9, <2>3
    <2>6. -(e * (d * o)) <= n /\ n <= e * (d * o) BY <2>1, <2>2, <2>4, <2>5
    <2> QED BY <1>1, <1>2, <2>6, ReachesMeans
  <1>13. PICK u \in Ulps, m \in Int :
            /\ m = RoundToEven(n, d * u) /\ Double(n, d) = <<"Float", u * m>>
            /\ \A v \in Ulps : Reaches(v, n, d) => u <= v
            /\ \A l \in Int : n >= l * (d * UnitsInOne) => u * m >= l * UnitsInOne
    BY <1>12, DoubleKeepsBounds
  <1>14. u \in Nat \ {0} BY UlpsAreNatural
  <1>15. PICK y \in Int : y = u * m /\ y >= k * o BY <1>2, <1>11, <1>13, <1>14
  <1>16. y < (k + 1) * o
    <2>1. SUFFICES ASSUME y >= (k + 1) * o PROVE FALSE BY <1>15
    <2>2. PICK r \in Int : r = (k + 1) * c - x /\ r >= 1
      <3>1. (k + 1) * c \in Int OBVIOUS
      <3> QED BY <1>4, <3>1
    <2>3. 2 * (m * (d * u) - n) <= d * u
      <3>1. PICK f \in Nat \ {0} : f = d * u BY ReachesMeans
      <3>2. -f <= 2 * (n - m * f) BY <1>13, <3>1, RoundToEvenIsNear
      <3>3. m * f \in Int OBVIOUS
      <3> QED BY <3>1, <3>2, <3>3
    <2>4. 2 * (r * z) <= d * u
      <3>1. (y - (k + 1) * o) * d >= 0
        <4>1. (k + 1) * o \in Int OBVIOUS
        <4> QED BY <2>1, <4>1, SignOfProduct
      <3>2. (y - (k + 1) * o) * d = y * d - (k + 1) * (o * d) OBVIOUS
      <3>3. m * (d * u) = y * d BY <1>14, <1>15
      <3>4. (k + 1) * (o * d) - n = r * z
        <4>1. PICK p \in Int : p = (k + 1) * c OBVIOUS
        <4>2. (k + 1) * (o * d) = p * z BY <1>6, <1>9, <4>1
        <4>3. r * z = p * z - x * z BY <2>2, <4>1
        <4> QED BY <1>10, <4>2, <4>3
      <3>5. y * d \in Int /\ (k + 1) * (o * d) \in Int /\ r * z \in Int /\ d * u \in Int
        BY <1>14
      <3> QED BY <2>3, <3>1, <3>2, <3>3, <3>4, <3>5
    <2>5. 2 * (r * o) <= c * u
      <3>1. PICK p \in Int, q \in Int : p = 2 * (r * o) /\ q = c * u BY <1>14
      <3>2. 2 * (r * z) = p * o /\ d * u = q * o BY <1>6, <1>9, <1>14, <3>1
      <3>3. (p - q) * o = p * o - q * o OBVIOUS
      <3>4. p > q => (p - q - 1) * o >= 0 BY SignOfProduct
      <3>5. (p - q - 1) * o = p * o - q * o - o /\ p * o \in Int /\ q * o \in Int OBVIOUS
      <3> QED BY <2>4, <3>1, <3>2, <3>4, <3>5
    <2>6. r * o >= o
      <3>1. (r - 1) * o >= 0 BY <2>2, SignOfProduct
      <3>2. (r - 1) * o = r * o - o OBVIOUS
      <3>3. r * o \in Int OBVIOUS
      <3> QED BY <3>1, <3>2, <3>3
    <2>7. CASE u = 1
      <3>1. c * u = c /\ r * o \in Int BY <2>7
      <3> QED BY <1>1, <1>2, <1>3, <2>5, <2>6, <3>1
    <2>8. ASSUME NEW v \in Ulps, u = 2 * v PROVE FALSE
      <3>1. v \in Nat \ {0} BY UlpsAreNatural
      <3>2. ~Reaches(v, n, d) BY <1>13, <1>14, <2>8, <3>1
      <3>3. PICK f \in Nat \ {0} : f = d * v BY <3>1, ReachesMeans
      <3>4. n > e * f \/ n < -(e * f)
        <4>1. ~(-(e * f) <= n /\ n <= e * f) BY <1>2, <3>2, <3>3, ReachesMeans
        <4>2. e * f \in Int OBVIOUS
        <4> QED BY <4>1, <4>2
      <3>5. PICK g \in Int : g = c * v /\ r * o <= g
        <4>1. c * u = 2 * (c * v) /\ c * v \in Int /\ r * o \in Int BY <2>8, <3>1
        <4> QED BY <2>5, <4>1
      <3>6. e * f = (e * g) * o BY <1>6, <3>1, <3>3, <3>5
      <3>7. e * g >= e * o
        <4>1. PICK p \in Int : p = r * o OBVIOUS
        <4>2. (g - o) * e >= 0 BY <2>6, <3>5, <4>1, SignOfProduct
        <4>3. (g - o) * e = e * g - e * o /\ e * g \in Int /\ e * o \in Int OBVIOUS
        <4> QED BY <4>2, <4>3
      <3>8. (e * g - e * o) * o >= 0
        <4>1. e * g - e * o \in Int /\ e * g - e * o >= 0 BY <3>7
        <4> QED BY <4>1, SignOfProduct
      <3>9. (e * g - e * o) * o = e * f - e * z
        <4>1. (e * g - e * o) * o = (e * g) * o - e * (o * o) OBVIOUS
        <4> QED BY <1>9, <3>6, <4>1
      <3>10. (e - x) * z >= 0 /\ (e + x) * z >= 0 BY <1>5, SignOfProduct
      <3>11. (e - x) * z = e * z - n /\ (e + x) * z = e * z + n /\ e * z \in Int BY <1>10
      <3>12. e * f \in Int OBVIOUS
      <3> QED BY <3>4, <3>8, <3>9, <3>10, <3>11, <3>12
    <2> QED BY <2>7, <2>8, UlpsAssumption
  <1>17. y \div o = k BY <1>15, <1>16, DivisionBetween
  <1> QED BY <1>2, <1>6, <1>8, <1>13, <1>15, <1>17

----------------------------------------------------------------------------
(* A number is a double first; an int of few bits is the same one.         *)
LEMMA NumbersAreDoubles ==
    ASSUME NEW v \in LualikeValues, v[1] \in {"Int", "Float"}
    PROVE  /\ IsNumeric(v) /\ CastToFloat(v) = <<"Float", SmallestDoubles(v)>>
           /\ SmallestDoubles(v) \in -FloatLimit..FloatLimit
           /\ IsInt(v) => v[2] \in -IntLimit..(IntLimit - 1)
           /\ Exact(v) => SmallestDoubles(v) = v[2] * UnitsInOne
  <1>1. IsNumeric(v) BY DEF IsNumeric, IsInt, IsFloat
  <1>2. ASSUME NEW k, CastToFloat(v) = <<"Float", k>>
        PROVE  /\ CastToFloat(v) = <<"Float", SmallestDoubles(v)>>
               /\ SmallestDoubles(v) \in -FloatLimit..FloatLimit
    <2>1. SmallestDoubles(v) = k BY <1>2 DEF SmallestDoubles
    <2>2. <<"Float", k>> \in Floats BY <1>1, <1>2, CastToFloatInFloats
    <2>3. k \in FiniteDoubles BY <2>2 DEF Floats, Infs, NaN
    <2> QED BY <1>2, <2>1, <2>3, FiniteDoublesAreBounded
  <1>3. CASE v[1] = "Int"
    <2>1. v \in Ints BY <1>3, KindsOfValues DEF IsFloat, Floats, Infs, NaN, Strings, Bools
    <2>2. v[2] \in -IntLimit..(IntLimit - 1) /\ IntLimit \in Nat \ {0}
      BY <2>1, ValueAssumption DEF Ints
    <2>3. PICK i \in Int, o \in Nat \ {0} : i = v[2] /\ o = UnitsInOne
      BY <2>2, ConstantsOfDoubles
    <2>4. PICK n \in Int : n = i * o OBVIOUS
    <2>5. CastToFloat(v) = Double(n, 1) BY <1>3, <2>3, <2>4 DEF CastToFloat, IsInt
    <2>6. \E k : Double(n, 1) = <<"Float", k>>
      <3>1. (IntLimit - i) * o >= 0 /\ (IntLimit + i) * o >= 0 BY <2>2, <2>3, SignOfProduct
      <3>2. /\ (IntLimit - i) * o = IntLimit * o - n /\ (IntLimit + i) * o = IntLimit * o + n
            /\ IntLimit * o \in Int
        BY <2>2, <2>4
      <3>3. IntLimit * o <= FloatLimit /\ FloatLimit \in Nat /\ FloatLimit * 1 = FloatLimit
        BY <2>3, ValueAssumption, ConstantsOfDoubles
      <3>4. -(FloatLimit * 1) <= n /\ n <= FloatLimit * 1 BY <3>1, <3>2, <3>3
      <3>5. 1 \in Nat \ {0} OBVIOUS
      <3> QED BY <3>4, <3>5, DoubleFits
    <2>7. ASSUME Exact(v) PROVE SmallestDoubles(v) = n
      <3>1. PICK e \in Nat \ {0} : e = Significands BY ConstantsOfDoubles
      <3>2. -e <= i /\ i <= e BY <2>3, <2>7, <3>1 DEF Exact, Magnitude
      <3>3. (e - i) * o >= 0 /\ (e + i) * o >= 0 BY <3>2, SignOfProduct
      <3>4. (e - i) * o = e * o - n /\ (e + i) * o = e * o + n /\ e * o \in Int /\ 1 * o = o
        BY <2>4
      <3>5. 1 \in Nat \ {0} /\ UnitsInOne \in Ulps BY ConstantsOfDoubles
      <3>6. Reaches(UnitsInOne, n, 1)
        <4>1. -(e * (1 * o)) <= n /\ n <= e * (1 * o) BY <3>3, <3>4
        <4> QED BY <2>3, <3>1, <3>5, <4>1, ReachesMeans
      <3>7. PICK u \in Ulps, m \in Int :
                /\ Double(n, 1) = <<"Float", u * m>>
                /\ \A k \in Int : /\ n <= k * (1 * UnitsInOne) => u * m <= k * UnitsInOne
                                  /\ n >= k * (1 * UnitsInOne) => u * m >= k * UnitsInOne
        BY <3>5, <3>6, DoubleKeepsBounds
      <3>8. PICK y \in Int : y = u * m BY UlpsAreNatural
      <3>9. i * (1 * UnitsInOne) = n /\ i * UnitsInOne = n BY <2>3, <2>4
      <3>10. y <= n /\ y >= n BY <3>7, <3>8, <3>9
      <3>11. y = n BY <3>10
      <3> QED BY <2>5, <3>7, <3>8, <3>11 DEF SmallestDoubles
    <2> QED BY <1>1, <1>2, <2>2, <2>3, <2>4, <2>5, <2>6, <2>7
  <1>4. CASE v[1] = "Float"
    <2>1. v \in Floats BY <1>4, KindsOfValues DEF Ints, Strings, Bools
    <2>2. v = <<"Float", v[2]>> BY <1>4, <2>1 DEF Floats, Infs, NaN
    <2>3. CastToFloat(v) = v /\ ~IsInt(v) BY <1>4 DEF CastToFloat, IsInt
    <2> QED BY <1>1, <1>2, <2>2, <2>3 DEF Exact
  <1> QED BY <1>3, <1>4

LEMMA ModuloGives ==
    ASSUME NEW a \in LualikeValues, NEW b \in LualikeValues,
           a[1] \in {"Int", "Float"}, b[1] \in {"Int", "Float"}, SmallestDoubles(b) # 0,
           NEW m \in Int, IsRemainder(m, SmallestDoubles(a), SmallestDoubles(b)),
           m \div UnitsInOne \in -IntLimit..(IntLimit - 1)
    PROVE  Modulo(a, b) = {<<"Int", m \div UnitsInOne>>}
  <1>1. PICK h, g : h = SmallestDoubles(a) /\ g = SmallestDoubles(b) OBVIOUS
  <1>2. /\ CastToFloat(a) = <<"Float", h>> /\ CastToFloat(b) = <<"Float", g>>
        /\ h \in -FloatLimit..FloatLimit /\ g \in -FloatLimit..FloatLimit
        /\ IsNumeric(a) /\ IsNumeric(b)
    BY <1>1, NumbersAreDoubles
  <1>3. h \in Int /\ g \in Int \ {0} BY <1>1, <1>2, ConstantsOfDoubles
  <1>4. PICK r \in Int :
            /\ FloatFmod(<<"Float", h>>, <<"Float", g>>) = <<"Float", r>>
            /\ IsRemainder(r, h, g)
    BY <1>3, FmodIsTheRemainder
  <1>5. m = r BY <1>1, <1>3, <1>4, OneRemainder
  <1>6. CastToInt(<<"Float", m>>) = {<<"Int", m \div UnitsInOne>>} BY DEF CastToInt
  <1>7. FmodAsInt(a, b) = {<<"Int", m \div UnitsInOne>>}
    BY <1>2, <1>4, <1>5, <1>6 DEF FmodAsInt
  <1> QED BY <1>2, <1>7 DEF Modulo, PerformArithmeticBinOp

LEMMA FloorDivideGives ==
    ASSUME NEW a \in LualikeValues, NEW b \in LualikeValues,
           a[1] \in {"Int", "Float"}, b[1] \in {"Int", "Float"}, SmallestDoubles(b) # 0,
           NEW y, Double(Sign(<<"Float", SmallestDoubles(b)>>) * SmallestDoubles(a) * UnitsInOne,
                         Magnitude(SmallestDoubles(b))) = <<"Float", y>>
    PROVE  FloorDivide(a, b) = {<<"Float", UnitsInOne * (y \div UnitsInOne)>>}
  <1>1. PICK h, g : h = SmallestDoubles(a) /\ g = SmallestDoubles(b) OBVIOUS
  <1>2. /\ CastToFloat(a) = <<"Float", h>> /\ CastToFloat(b) = <<"Float", g>>
        /\ h \in -FloatLimit..FloatLimit /\ g \in -FloatLimit..FloatLimit
        /\ IsNumeric(a) /\ IsNumeric(b)
    BY <1>1, NumbersAreDoubles
  <1>3. h \in Int /\ g \in Int \ {0} BY <1>1, <1>2, ConstantsOfDoubles
  <1>4. FloatDivide(<<"Float", h>>, <<"Float", g>>) = {<<"Float", y>>}
    <2>1. <<"Float", h>> # NaN /\ <<"Float", g>> # NaN BY DEF NaN
    <2>2. <<"Float", h>> \notin Infs /\ <<"Float", g>> \notin Infs BY DEF Infs
    <2>3. Sign(<<"Float", g>>) # 0 BY <1>3 DEF Sign
    <2> QED BY <1>1, <2>1, <2>2, <2>3 DEF FloatDivide
  <1>5. PICK q : q = UnitsInOne * (y \div UnitsInOne) OBVIOUS
  <1>6. FloatFloor(<<"Float", y>>) = <<"Float", q>> BY <1>5 DEF FloatFloor
  <1>7. {FloatFloor(z) : z \in FloatDivide(CastToFloat(a), CastToFloat(b))} = {<<"Float", q>>}
    <2>1. PICK x : x = <<"Float", y>> OBVIOUS
    <2>2. FloatDivide(CastToFloat(a), CastToFloat(b)) = {x} BY <1>2, <1>4, <2>1
    <2>3. {FloatFloor(z) : z \in {x}} = {FloatFloor(x)} OBVIOUS
    <2> QED BY <1>6, <2>1, <2>2, <2>3
  <1> QED BY <1>2, <1>5, <1>7 DEF FloorDivide, PerformFloatBinOp

LEMMA DoublesDivide ==
    ASSUME NEW a \in LualikeValues, NEW b \in LualikeValues,
           a[1] \in {"Int", "Float"}, b[1] \in {"Int", "Float"}, SmallestDoubles(b) # 0
    PROVE  FloatsDivide(a, b, Remainder(SmallestDoubles(a), SmallestDoubles(b)),
                              FloorOfQuotient(SmallestDoubles(a), SmallestDoubles(b)))
  <1>1. PICK h, g : h = SmallestDoubles(a) /\ g = SmallestDoubles(b) OBVIOUS
  <1>2. h \in -FloatLimit..FloatLimit /\ h \in Int /\ g \in Int \ {0}
    BY <1>1, NumbersAreDoubles, ConstantsOfDoubles
  <1>3. PICK m \in Int : m = Remainder(h, g) /\ IsRemainder(m, h, g)
    BY <1>2, RemainderOfDoubles
  <1>4. PICK k \in Int : k = FloorOfQuotient(h, g) /\ IsFloor(k, h, g)
    BY <1>2, FloorOfDoubles
  <1>5. m \div UnitsInOne \in -IntLimit..(IntLimit - 1)
            => Modulo(a, b) = {<<"Int", m \div UnitsInOne>>}
    BY <1>1, <1>3, ModuloGives
  <1>6. ASSUME k \in -Significands..(Significands - 1)
        PROVE  \E q \in {k, k + 1} : FloorDivide(a, b) = {<<"Float", q * UnitsInOne>>}
    <2>1. PICK y \in Int :
              /\ Double(Sign(<<"Float", g>>) * h * UnitsInOne, Magnitude(g)) = <<"Float", y>>
              /\ y \div UnitsInOne \in {k, k + 1}
      BY <1>2, <1>4, <1>6, QuotientsOfDoubles
    <2>2. FloorDivide(a, b) = {<<"Float", UnitsInOne * (y \div UnitsInOne)>>}
      BY <1>1, <2>1, FloorDivideGives
    <2>3. PICK q \in Int : q = y \div UnitsInOne /\ q \in {k, k + 1} BY <2>1
    <2>4. UnitsInOne * q = q * UnitsInOne BY ConstantsOfDoubles
    <2> QED BY <2>2, <2>3, <2>4
  <1>7. FloatsDivide(a, b, m, k) BY <1>5, <1>6 DEF FloatsDivide
  <1> QED BY <1>1, <1>3, <1>4, <1>7

LEMMA ExactIntsDivide ==
    ASSUME NEW a \in LualikeValues, NEW b \in LualikeValues,
           Exact(a), Exact(b), SmallestDoubles(b) # 0
    PROVE  IntsDivide(a, b, Remainder(a[2], b[2]), FloorOfQuotient(a[2], b[2]))
  <1>1. a[1] = "Int" /\ b[1] = "Int" BY DEF Exact, IsInt
  <1>2. PICK i, j : i = a[2] /\ j = b[2] OBVIOUS
  <1>3. PICK o \in Nat \ {0} : o = UnitsInOne BY ConstantsOfDoubles
  <1>4. /\ i \in -IntLimit..(IntLimit - 1) /\ j \in -IntLimit..(IntLimit - 1)
        /\ SmallestDoubles(a) = i * o /\ SmallestDoubles(b) = j * o
    BY <1>1, <1>2, <1>3, NumbersAreDoubles DEF IsInt
  <1>5. /\ IntLimit \in Nat \ {0} /\ FloatLimit \in Nat /\ IntLimit <= FloatLimit
        /\ i \in Int /\ j \in Int \ {0} /\ i \in -FloatLimit..FloatLimit
    <2>1. IntLimit \in Nat \ {0} /\ FloatLimit \in Nat /\ IntLimit * o <= FloatLimit
      BY <1>3, ValueAssumption, ConstantsOfDoubles
    <2>2. IntLimit * (o - 1) >= 0 BY <2>1, SignOfProduct
    <2>3. IntLimit * (o - 1) = IntLimit * o - IntLimit /\ IntLimit * o \in Int BY <2>1
    <2>4. j # 0
      <3>1. 0 * o = 0 OBVIOUS
      <3> QED BY <1>4, <3>1
    <2> QED BY <1>4, <2>1, <2>2, <2>3, <2>4
  <1>6. PICK m \in Int :
            m = Remainder(i, j) /\ IsRemainder(m, i, j) /\ Magnitude(m) <= Magnitude(i)
    BY <1>5, RemainderOfDoubles
  <1>7. PICK k \in Int : k = FloorOfQuotient(i, j) /\ IsFloor(k, i, j)
    BY <1>5, FloorOfDoubles
  <1>8. Modulo(a, b) = {<<"Int", m>>}
    <2>1. PICK p \in Int, h \in Int, g \in Int : p = m * o /\ h = i * o /\ g = j * o BY <1>5
    <2>2. IsRemainder(p, h, g)
      <3>1. PICK c \in Nat \ {0} : c = Magnitude(j) BY <1>5, MagnitudeOf
      <3>2. PICK u \in Int : i - m = c * u BY <1>5, <1>6, <3>1, RemainderIs
      <3>3. -c < m /\ m < c /\ (i > 0 => m >= 0) /\ (i < 0 => m <= 0)
        BY <1>5, <1>6, <3>1, RemainderIs
      <3>4. PICK d \in Int : d = c * o OBVIOUS
      <3>5. g # 0 /\ Magnitude(g) = d
        <4>1. CASE j > 0
          <5>1. j = c BY <1>5, <3>1, <4>1, MagnitudeOf
          <5>2. g > 0 BY <1>5, <2>1, <4>1, SignOfProduct
          <5>3. g = d BY <2>1, <3>4, <5>1
          <5> QED BY <5>2, <5>3, MagnitudeOf
        <4>2. CASE j < 0
          <5>1. g < 0 BY <1>5, <2>1, <4>2, SignOfProduct
          <5>2. j = -c BY <1>5, <3>1, <4>2, MagnitudeOf
          <5>3. d = -g BY <2>1, <3>4, <5>2
          <5> QED BY <5>1, <5>3, MagnitudeOf
        <4> QED BY <1>5, <4>1, <4>2
      <3>6. h - p = d * u
        <4>1. h - p = (i - m) * o BY <1>5, <2>1
        <4> QED BY <3>2, <3>4, <4>1
      <3>7. -d < p /\ p < d
        <4>1. (c - m - 1) * o >= 0 /\ (c + m - 1) * o >= 0 BY <3>3, SignOfProduct
        <4>2. (c - m - 1) * o = d - p - o /\ (c + m - 1) * o = d + p - o BY <2>1, <3>4
        <4> QED BY <4>1, <4>2
      <3>8. (h > 0 => p >= 0) /\ (h < 0 => p <= 0)
        <4>1. (h > 0 => i > 0) /\ (h < 0 => i < 0)
          <5>1. CASE i > 0 BY <1>5, <2>1, <5>1, SignOfProduct
          <5>2. CASE i < 0 BY <1>5, <2>1, <5>2, SignOfProduct
          <5>3. CASE i = 0 BY <2>1, <5>3
          <5> QED BY <1>5, <5>1, <5>2, <5>3
        <4>2. (m >= 0 => p >= 0) /\ (m <= 0 => p <= 0)
          <5>1. m <= 0 => (-m) * o >= 0 BY SignOfProduct
          <5>2. (-m) * o = -p BY <2>1
          <5> QED BY <2>1, <5>1, <5>2, SignOfProduct
        <4> QED BY <3>3, <4>1, <4>2
      <3>9. g \in Int \ {0} BY <3>5
      <3> QED BY <3>5, <3>6, <3>7, <3>8, <3>9, RemainderIs
    <2>3. p \div o = m
      <3>1. (m + 1) * o = p + o BY <2>1
      <3>2. m * o <= p /\ p < (m + 1) * o BY <2>1, <3>1
      <3> QED BY <3>2, DivisionBetween
    <2>4. m \in -IntLimit..(IntLimit - 1)
      <3>1. (i > 0 => m >= 0) /\ (i < 0 => m <= 0) BY <1>5, <1>6, RemainderIs
      <3> QED BY <1>4, <1>5, <1>6, <3>1 DEF Magnitude
    <2> QED BY <1>1, <1>3, <1>4, <2>1, <2>2, <2>3, <2>4, ModuloGives
  <1>9. FloorDivide(a, b) = {<<"Float", k * UnitsInOne>>}
    <2>1. Magnitude(i) <= Significands /\ Magnitude(j) <= Significands BY <1>2 DEF Exact
    <2>2. PICK y \in Int :
              /\ Double(Sign(<<"Float", j * UnitsInOne>>) * (i * UnitsInOne) * UnitsInOne,
                        Magnitude(j * UnitsInOne)) = <<"Float", y>>
              /\ y \div UnitsInOne = k
      BY <1>5, <1>7, <2>1, QuotientsOfInts
    <2>3. PICK h, g : h = i * UnitsInOne /\ g = j * UnitsInOne OBVIOUS
    <2>4. Double(Sign(<<"Float", g>>) * h * UnitsInOne, Magnitude(g)) = <<"Float", y>>
      BY <2>2, <2>3
    <2>5. h = SmallestDoubles(a) /\ g = SmallestDoubles(b) BY <1>3, <1>4, <2>3
    <2>6. FloorDivide(a, b) = {<<"Float", UnitsInOne * (y \div UnitsInOne)>>}
      BY <1>1, <2>4, <2>5, FloorDivideGives
    <2>7. UnitsInOne * k = k * UnitsInOne BY ConstantsOfDoubles
    <2> QED BY <2>2, <2>6, <2>7
  <1>10. i = k * j + m <=> m = 0 \/ (i > 0 <=> j > 0) BY <1>5, <1>6, <1>7, IntsFit
  <1> QED BY <1>2, <1>6, <1>7, <1>8, <1>9, <1>10 DEF IntsDivide

(* Whatever the numbers of bits, ints that are doubles divide exactly, and *)
(* fit together where they should, although // rounds its quotient before  *)
(* it rounds it down; other quotients are one too large at most.           *)
THEOREM IntsDivideExactly == Spec => []QuotientsAndRemainders
  <1>1. ASSUME UpdatesInv PROVE QuotientsAndRemainders
    <2>1. \A v \in Vars : values[v] \in LualikeValues BY <1>1 DEF UpdatesInv
    <2> QED BY <2>1, DoublesDivide, ExactIntsDivide DEF QuotientsAndRemainders
  <1> QED BY <1>1, UpdatesInvariant, PTL
====
