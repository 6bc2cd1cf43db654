---- MODULE LualikeUpdates ----
(***************************************************************************)
(* The operators of LualikeValue as C++ code calls them: x op= y takes both*)
(* by reference, and they may be one variable; x op y copies x and calls   *)
(* op= on the copy.  A call looks at its operands, one after the other,    *)
(* and stores its result last.                                             *)
(***************************************************************************)
EXTENDS LualikeValue

CONSTANTS
    Vars,       \* the variables of the calling code
    Copy        \* the parameter lhs of operator+ and its like

ASSUME CopyAssumption == Copy \notin Vars

VARIABLES
    values,     \* what the variables and the copy hold, Nil when there is none
    call,       \* the call that runs: a sequence of at most one
    raised      \* what the last call threw: a sequence of at most one kind

vars == <<values, call, raised>>

(* CastToFloat and TryAsBool take an operand, or what they throw.          *)
Takes(op, v) == IF op \in LogicalOps THEN IsBool(v) ELSE IsNumeric(v)
LhsErrKind(op) == IF op \in LogicalOps THEN "kLhsNotBool" ELSE "kLhsNotNumeric"
RhsErrKind(op) == IF op \in LogicalOps THEN "kRhsNotBool" ELSE "kRhsNotNumeric"

Running(at) == call # <<>> /\ call[1].at = at
Run == call[1]
Calls(op, lhs, rhs, to) ==
    <<[op |-> op, lhs |-> lhs, rhs |-> rhs, to |-> to, left |-> Nil, right |-> Nil,
       at |-> "lhs"]>>

----------------------------------------------------------------------------
Init ==
    /\ values \in [Vars \cup {Copy} -> LualikeValues] /\ values[Copy] = Nil
    /\ call = <<>> /\ raised = <<>>

(* operator+=, ..., ExponentiateAndAssign, FloorDivideAndAssign            *)
CallAssignment(op, x, y) ==
    /\ call = <<>> /\ call' = Calls(op, x, y, x)
    /\ UNCHANGED <<values, raised>>

(* operator+, ..., Exponentiate, FloorDivide                               *)
CallOperator(op, x, y, z) ==
    /\ call = <<>> /\ call' = Calls(op, Copy, y, z)
    /\ values' = [values EXCEPT ![Copy] = values[x]]
    /\ UNCHANGED raised

(* operator||, operator&&, which make a new value                          *)
CallLogical(op, x, y, z) ==
    /\ call = <<>> /\ call' = Calls(op, x, y, z)
    /\ UNCHANGED <<values, raised>>

GiveUp(kind) ==
    /\ call' = <<>> /\ raised' = <<kind>>
    /\ values' = [values EXCEPT ![Copy] = Nil]

(* Faulty: the left operand is converted in place.                         *)
FaultyLookAtLhs ==
    /\ Running("lhs") /\ Takes(Run.op, values[Run.lhs])
    /\ values' = IF Run.op \in FloatOps
                 THEN [values EXCEPT ![Run.lhs] = CastToFloat(values[Run.lhs])]
                 ELSE values
    /\ call' = <<[Run EXCEPT !.left = values[Run.lhs], !.at = "rhs"]>>
    /\ UNCHANGED raised

LookAtLhs ==
    /\ Running("lhs") /\ Takes(Run.op, values[Run.lhs])
    /\ call' = <<[Run EXCEPT !.left = values[Run.lhs], !.at = "rhs"]>>
    /\ UNCHANGED <<values, raised>>

LhsThrows ==
    Running("lhs") /\ ~Takes(Run.op, values[Run.lhs]) /\ GiveUp(LhsErrKind(Run.op))

LookAtRhs ==
    /\ Running("rhs") /\ Takes(Run.op, values[Run.rhs])
    /\ call' = <<[Run EXCEPT !.right = values[Run.rhs], !.at = "store"]>>
    /\ UNCHANGED <<values, raised>>

RhsThrows ==
    Running("rhs") /\ ~Takes(Run.op, values[Run.rhs]) /\ GiveUp(RhsErrKind(Run.op))

(* An operator that works on a copy has still to return it.                *)
Store ==
    /\ Running("store")
    /\ \E o \in ResultsOf(Run.op, Run.left, Run.right) :
           values' = [values EXCEPT ![IF Run.lhs = Copy THEN Copy ELSE Run.to] = o]
    /\ IF Run.lhs = Copy THEN call' = <<[Run EXCEPT !.at = "return"]>> /\ UNCHANGED raised
       ELSE call' = <<>> /\ raised' = <<>>

Return ==
    /\ Running("return")
    /\ values' = [values EXCEPT ![Run.to] = values[Copy], ![Copy] = Nil]
    /\ call' = <<>> /\ raised' = <<>>

Next ==
    \/ \E op \in ArithmeticOps \cup FloatOps, x, y \in Vars :
           CallAssignment(op, x, y) \/ \E z \in Vars : CallOperator(op, x, y, z)
    \/ \E op \in LogicalOps, x, y, z \in Vars : CallLogical(op, x, y, z)
    \/ LookAtLhs \/ LhsThrows \/ LookAtRhs \/ RhsThrows \/ Store \/ Return

Spec == Init /\ [][Next]_vars

----------------------------------------------------------------------------
(* Operations through references are operations on values: the result is   *)
(* that of the operands as they were at the call, also when they are one   *)
(* variable, no other variable changes, and none does when it throws.      *)
Updates == INSTANCE ValueUpdates WITH
    Values <- LualikeValues, Thrown <- Throws, Ops <- BinaryOps,
    held <- [v \in Vars |-> values[v]]
ImplementsValueUpdates == Updates!Spec

(* Of two whole numbers, the second not 0.                                 *)
IsRemainder(m, a, b) ==
    (a - m) % Magnitude(b) = 0 /\ Magnitude(m) < Magnitude(b) /\ m * a >= 0
IsFloor(k, a, b) ==
    IF b > 0 THEN k * b <= a /\ a < (k + 1) * b ELSE k * b >= a /\ a > (k + 1) * b

Remainder(a, b) == CHOOSE m \in -FloatLimit..FloatLimit : IsRemainder(m, a, b)
FloorOfQuotient(a, b) == CHOOSE k \in -FloatLimit..FloatLimit : IsFloor(k, a, b)

(* Two ints that are doubles too, up to 2^53, divide exactly: // rounds the*)
(* quotient down, to k, although it is rounded to a double first, and %    *)
(* leaves the remainder m that has the sign of the dividend.  So they fit  *)
(* together only if the division is exact or the signs agree.              *)
IntsDivide(a, b, m, k) ==
    /\ Modulo(a, b) = {<<"Int", m>>}
    /\ FloorDivide(a, b) = {<<"Float", k * UnitsInOne>>}
    /\ a[2] = k * b[2] + m <=> m = 0 \/ (a[2] > 0 <=> b[2] > 0)

(* Any other numbers are doubles first, and the quotient may be rounded up *)
(* to a whole number.  The remainder is exact, before it is rounded down.  *)
FloatsDivide(a, b, m, k) ==
    /\ m \div UnitsInOne \in -IntLimit..(IntLimit - 1)
           => Modulo(a, b) = {<<"Int", m \div UnitsInOne>>}
    /\ k \in -Significands..(Significands - 1)
           => \E q \in {k, k + 1} : FloorDivide(a, b) = {<<"Float", q * UnitsInOne>>}

Exact(v) == IsInt(v) /\ Magnitude(v[2]) <= Significands
SmallestDoubles(v) == CastToFloat(v)[2]

(* That is how numbers that the variables hold divide, unless by 0, or with*)
(* a result that is too large.                                             *)
QuotientsAndRemainders ==
    call = <<>> => \A x, y \in Vars :
        LET a == values[x]
            b == values[y]
            i == SmallestDoubles(a)
            j == SmallestDoubles(b)
        IN  a[1] \in {"Int", "Float"} /\ b[1] \in {"Int", "Float"} /\ j # 0 =>
                /\ FloatsDivide(a, b, Remainder(i, j), FloorOfQuotient(i, j))
                /\ Exact(a) /\ Exact(b) =>
                       IntsDivide(a, b, Remainder(a[2], b[2]), FloorOfQuotient(a[2], b[2]))

(* The order of values is total, but for NaN: an int and a float differ,   *)
(* even if they stand for the same number.                                 *)
ComparisonIsAnOrder ==
    call = <<>> => \A x, y \in Vars :
        LET a == values[x]
            b == values[y]
        IN  /\ NaN \notin {a, b} =>
                   /\ Less(a, b) \/ Less(b, a) \/ Equal(a, b)
                   /\ LessOrEqual(a, b) <=> ~Less(b, a)
            /\ ~(Less(a, b) /\ (Less(b, a) \/ Equal(a, b)))
            /\ \A c \in LualikeValues : Less(a, b) /\ Less(b, c) => Less(a, c)
====
