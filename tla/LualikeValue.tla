---- MODULE LualikeValue ----
(***************************************************************************)
(* LualikeValue (value.h, value.cc): the dynamically typed values and the  *)
(* operations on them.  A value is a tuple whose first component is a tag: *)
(*                                                                         *)
(*   <<"Nil">>   <<"Bool", b>>   <<"Int", i>>   <<"String", rank>>         *)
(*   <<"Float", k>>     <<"Inf", 1 or -1>>   <<"NaN", 0>>                  *)
(*                                                                         *)
(* A string is its rank in the lexicographic order.  Ints have the width   *)
(* given by IntLimit (2^63 in the code).  Doubles are those of IEEE 754    *)
(* with fewer bits: k smallest doubles, where k has a short significand.   *)
(* Results are rounded to the nearest one, also those of conversions.  The *)
(* sign of a zero is not kept, so a division by zero may give either       *)
(* infinity.  FuncT is left out: nothing in the interpreter makes one.     *)
(*                                                                         *)
(* Every operation returns the SET of its possible outcomes: values, or    *)
(* <<"Throw", kind>> for a LualikeValueOpErr.  The set has more than one   *)
(* member only where the C++ behaviour is undefined or left to the library.*)
(***************************************************************************)
EXTENDS Integers, Sequences

CONSTANTS
    IntLimit,       \* ints are -IntLimit .. IntLimit-1
    Significands,   \* significands are below it (2^53 in the code)
    Ulps,           \* the distances of a double to the next, in smallest doubles
    UnitsInOne,     \* the smallest doubles that make 1 (2^1074 in the code)
    StringCount     \* number of distinct strings

LargestUlp == CHOOSE u \in Ulps : \A v \in Ulps : v <= u
FloatLimit == (Significands - 1) * LargestUlp       \* the largest finite double

ASSUME ValueAssumption ==
    /\ IntLimit \in Nat \ {0} /\ StringCount \in Nat
    /\ Significands \in Nat \ {0} /\ Significands % 2 = 0
    /\ Ulps \subseteq Nat \ {0} /\ {1, UnitsInOne} \subseteq Ulps
    /\ Significands <= UnitsInOne           \* the parts of 1 are fine enough
    /\ IntLimit * UnitsInOne <= FloatLimit  \* CastToFloat fits
    /\ Significands * UnitsInOne <= FloatLimit

(* The ulps are 1, 2, 4, ... up to a largest one.                          *)
ASSUME UlpsAssumption ==
    /\ \E l \in Ulps : \A u \in Ulps : u <= l /\ (u = l \/ 2 * u \in Ulps)
    /\ \A u \in Ulps : u = 1 \/ \E v \in Ulps : u = 2 * v
    /\ \A u, v \in Ulps : u <= v => v % u = 0

Nil == <<"Nil">>
NaN == <<"NaN", 0>>
Bool(b) == <<"Bool", b>>

Bools == {"Bool"} \X BOOLEAN
Ints == {"Int"} \X (-IntLimit..IntLimit - 1)
FiniteDoubles == {m * u : m \in -(Significands - 1)..(Significands - 1), u \in Ulps}
Infs == {<<"Inf", 1>>, <<"Inf", -1>>}
Floats == ({"Float"} \X FiniteDoubles) \cup Infs \cup {NaN}
Strings == {"String"} \X (1..StringCount)

LualikeValues == {Nil} \cup Bools \cup Ints \cup Floats \cup Strings

OpErrKinds == {"kNotNumericOperand", "kNotBoolOperand", "kLhsNotNumeric",
               "kLhsNotBool", "kRhsNotNumeric", "kRhsNotBool"}
Throw(kind) == <<"Throw", kind>>
Throws == {"Throw"} \X OpErrKinds

IsInt(v) == v[1] = "Int"
IsBool(v) == v[1] = "Bool"
IsFloat(v) == v[1] \in {"Float", "Inf", "NaN"}
IsNumeric(v) == IsInt(v) \/ IsFloat(v)

----------------------------------------------------------------------------
(* Arithmetic of the two number types.                                     *)

(* Faulty: the width of the type is forgotten.                             *)
FaultyInt64(i) == <<"Int", i>>

(* Signed overflow is undefined in C++; the generated code wraps around.   *)
Int64(i) == <<"Int", ((i + IntLimit) % (2 * IntLimit)) - IntLimit>>

Magnitude(i) == IF i < 0 THEN -i ELSE i

(* n/d as a whole number: the nearest, and of two the even one.            *)
RoundToEven(n, d) ==
    LET q == n \div d
        rest == 2 * (n % d)
    IN  IF rest > d \/ (rest = d /\ q % 2 = 1) THEN q + 1 ELSE q

(* The ulp of n/d: the smallest with which its significand is not too long.*)
Reaches(u, n, d) == Magnitude(n) <= Significands * u * d
UlpOf(n, d) ==
    CHOOSE u \in Ulps : Reaches(u, n, d) /\ \A v \in Ulps : Reaches(v, n, d) => u <= v

(* n/d smallest doubles, rounded to a double.                              *)
Double(n, d) ==
    LET ulp == UlpOf(n, d)
        k == ulp * RoundToEven(n, d * ulp)
    IN  IF Reaches(LargestUlp, n, d) /\ Magnitude(k) <= FloatLimit THEN <<"Float", k>>
        ELSE <<"Inf", IF n > 0 THEN 1 ELSE -1>>

CastToFloat(v) == IF IsInt(v) THEN Double(v[2] * UnitsInOne, 1) ELSE v

FloatNegate(a) == <<a[1], -a[2]>>

FloatAdd(a, b) ==
    IF a = NaN \/ b = NaN THEN NaN
    ELSE IF a \in Infs /\ b \in Infs THEN IF a = b THEN a ELSE NaN
    ELSE IF a \in Infs THEN a
    ELSE IF b \in Infs THEN b
    ELSE Double(a[2] + b[2], 1)

Sign(a) == IF a[2] > 0 THEN 1 ELSE IF a[2] < 0 THEN -1 ELSE 0

FloatMultiply(a, b) ==
    IF a = NaN \/ b = NaN THEN NaN
    ELSE IF a \in Infs \/ b \in Infs
         THEN IF Sign(a) * Sign(b) = 0 THEN NaN
              ELSE <<"Inf", Sign(a) * Sign(b)>>
    ELSE Double(a[2] * b[2], UnitsInOne)

FloatDivide(a, b) ==
    IF a = NaN \/ b = NaN \/ (a \in Infs /\ b \in Infs) THEN {NaN}
    ELSE IF b \in Infs THEN {<<"Float", 0>>}
    ELSE IF Sign(b) = 0 THEN IF Sign(a) = 0 THEN {NaN} ELSE Infs
    ELSE IF a \in Infs THEN {<<"Inf", Sign(a) * Sign(b)>>}
    ELSE {Double(Sign(b) * a[2] * UnitsInOne, Magnitude(b[2]))}

FloatFloor(a) ==
    IF a[1] = "Float" THEN <<"Float", UnitsInOne * (a[2] \div UnitsInOne)>> ELSE a

(* std::fmod: the remainder has the sign of the dividend.                  *)
FloatFmod(a, b) ==
    IF a = NaN \/ b = NaN \/ a \in Infs \/ Sign(b) = 0 THEN NaN
    ELSE IF b \in Infs THEN a
    ELSE <<"Float", a[2] - b[2] * Sign(a) * Sign(b)
                              * ((Sign(a) * a[2]) \div (Sign(b) * b[2]))>>

(* static_cast<IntT>: undefined, so any int, for what does not fit.        *)
CastToInt(a) ==
    IF a[1] = "Float" /\ a[2] \div UnitsInOne \in -IntLimit..IntLimit - 1
    THEN {<<"Int", a[2] \div UnitsInOne>>}
    ELSE Ints

----------------------------------------------------------------------------
(* The two shapes of binary operation, given what the operator does to two *)
(* ints and to two floats.                                                 *)
PerformArithmeticBinOp(a, b, ofInts, ofFloats) ==
    IF ~IsNumeric(a) THEN {Throw("kLhsNotNumeric")}
    ELSE IF ~IsNumeric(b) THEN {Throw("kRhsNotNumeric")}
    ELSE IF IsInt(a) /\ IsInt(b) THEN ofInts
    ELSE ofFloats

PerformFloatBinOp(a, b, ofFloats) ==
    IF ~IsNumeric(a) THEN {Throw("kLhsNotNumeric")}
    ELSE IF ~IsNumeric(b) THEN {Throw("kRhsNotNumeric")}
    ELSE ofFloats

Add(a, b) ==
    PerformArithmeticBinOp(a, b, {Int64(a[2] + b[2])},
                           {FloatAdd(CastToFloat(a), CastToFloat(b))})

Subtract(a, b) ==
    PerformArithmeticBinOp(a, b, {Int64(a[2] - b[2])},
                           {FloatAdd(CastToFloat(a), FloatNegate(CastToFloat(b)))})

Multiply(a, b) ==
    PerformArithmeticBinOp(a, b, {Int64(a[2] * b[2])},
                           {FloatMultiply(CastToFloat(a), CastToFloat(b))})

(* Faulty: the remainder is that of the division that rounds down.         *)
FaultyFmodAsInt(a, b) ==
    LET c == CastToFloat(a)
        d == CastToFloat(b)
    IN  IF c[1] # "Float" \/ d[1] # "Float" \/ d[2] = 0 THEN CastToInt(FloatFmod(c, d))
        ELSE CastToInt(<<"Float", c[2] - d[2] * ((Sign(d) * c[2]) \div Magnitude(d[2]))>>)

(* Both types go through std::fmod on doubles and end as an int.           *)
FmodAsInt(a, b) == CastToInt(FloatFmod(CastToFloat(a), CastToFloat(b)))

Modulo(a, b) ==
    PerformArithmeticBinOp(a, b, FmodAsInt(a, b), FmodAsInt(a, b))

Divide(a, b) ==
    PerformFloatBinOp(a, b, FloatDivide(CastToFloat(a), CastToFloat(b)))

FloorDivide(a, b) ==
    PerformFloatBinOp(a, b,
        {FloatFloor(q) : q \in FloatDivide(CastToFloat(a), CastToFloat(b))})

(* std::pow is the library's: some double.                                 *)
Exponentiate(a, b) == PerformFloatBinOp(a, b, Floats)

Negate(v) ==
    IF IsInt(v) THEN {Int64(-v[2])}
    ELSE IF IsFloat(v) THEN {FloatNegate(v)}
    ELSE {Throw("kNotNumericOperand")}

LogicalNot(v) ==
    IF IsBool(v) THEN {Bool(~v[2])} ELSE {Throw("kNotBoolOperand")}

(* operator|| and operator&& convert both operands before they look at     *)
(* either (TryAsBool); the interpreter does not use them.                  *)
PerformBoolBinOp(a, b, ofBools) ==
    IF ~IsBool(a) THEN {Throw("kLhsNotBool")}
    ELSE IF ~IsBool(b) THEN {Throw("kRhsNotBool")}
    ELSE ofBools

LogicalOr(a, b) == PerformBoolBinOp(a, b, {Bool(a[2] \/ b[2])})
LogicalAnd(a, b) == PerformBoolBinOp(a, b, {Bool(a[2] /\ b[2])})

ArithmeticOps == {"+", "-", "*", "%"}
FloatOps == {"/", "//", "^"}
LogicalOps == {"||", "&&"}
BinaryOps == ArithmeticOps \cup FloatOps \cup LogicalOps

(* What each operator makes of two values.                                 *)
ResultsOf(op, a, b) ==
    CASE op = "+" -> Add(a, b)       [] op = "/" -> Divide(a, b)
      [] op = "-" -> Subtract(a, b)  [] op = "//" -> FloorDivide(a, b)
      [] op = "*" -> Multiply(a, b)  [] op = "^" -> Exponentiate(a, b)
      [] op = "%" -> Modulo(a, b)    [] op = "||" -> LogicalOr(a, b)
                                     [] op = "&&" -> LogicalAnd(a, b)

----------------------------------------------------------------------------
(* The defaulted comparisons compare the variants: the index of the held   *)
(* alternative first, then the payloads.  Int 1 and Float 1.0 differ.      *)
TypeIndex(v) ==
    CASE v[1] = "Nil"    -> 0
      [] v[1] = "Bool"   -> 1
      [] v[1] = "Int"    -> 2
      [] IsFloat(v)      -> 3
      [] v[1] = "String" -> 4

Equal(a, b) == a = b /\ a # NaN

FloatLess(a, b) ==
    /\ NaN \notin {a, b}
    /\ IF a \in Infs \/ b \in Infs
       THEN a # b /\ (a = <<"Inf", -1>> \/ b = <<"Inf", 1>>)
       ELSE a[2] < b[2]

PayloadLess(a, b) ==
    \/ IsBool(a) /\ ~a[2] /\ b[2]
    \/ IsFloat(a) /\ FloatLess(a, b)
    \/ a[1] \in {"Int", "String"} /\ a[2] < b[2]

(* Faulty: an int and a float are compared as numbers, by < alone.         *)
FaultyLess(a, b) ==
    IF IsNumeric(a) /\ IsNumeric(b) THEN PayloadLess(CastToFloat(a), CastToFloat(b))
    ELSE TypeIndex(a) < TypeIndex(b) \/ (TypeIndex(a) = TypeIndex(b) /\ PayloadLess(a, b))

Less(a, b) ==
    \/ TypeIndex(a) < TypeIndex(b)
    \/ TypeIndex(a) = TypeIndex(b) /\ PayloadLess(a, b)

LessOrEqual(a, b) == Less(a, b) \/ Equal(a, b)

(* ToString, as the pieces of the text in order.                           *)
ToString(v) ==
    CASE v = Nil          -> <<"Nil">>
      [] IsBool(v)        -> <<IF v[2] THEN "True" ELSE "False">>
      [] IsNumeric(v)     -> <<"Number <", v, ">">>
      [] v[1] = "String"  -> <<"String <", v, ">">>
====
