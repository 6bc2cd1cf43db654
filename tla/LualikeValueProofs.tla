---- MODULE LualikeValueProofs ----
(***************************************************************************)
(* The operators of LualikeValue are closed: applied to values they give   *)
(* values or one of the declared errors, whatever the width of the number  *)
(* types.  LualikeInterpreterProofs rests its type invariant on this.      *)
(***************************************************************************)
EXTENDS LualikeValue, NaturalsInduction, WellFoundedInduction, TLAPS

Outcomes == LualikeValues \cup Throws

----------------------------------------------------------------------------
(* Division of integers, and the sign of a product.                        *)
LEMMA DivisionWithRest ==
    ASSUME NEW a \in Int, NEW n \in Nat \ {0}
    PROVE  a \div n \in Int /\ a % n \in 0..(n - 1) /\ a = n * (a \div n) + (a % n)
  OBVIOUS

LEMMA SignOfProduct ==
    ASSUME NEW x \in Int, NEW y \in Int
    PROVE  /\ x * y \in Int
           /\ x >= 0 /\ y >= 0 => x * y >= 0
           /\ x > 0 /\ y < 0 => x * y < 0
           /\ x < 0 /\ y > 0 => x * y < 0
           /\ x <= 0 /\ y <= 0 => x * y >= 0
  OBVIOUS

(* No multiple of n but 0 lies between -n and n.                           *)
LEMMA MultiplesApart ==
    ASSUME NEW n \in Nat \ {0}, NEW u \in Int, -n < n * u, n * u < n
    PROVE  u = 0 /\ n * u = 0
  <1>1. u >= 1 => n * (u - 1) >= 0 BY SignOfProduct
  <1>2. u <= -1 => n * (-u - 1) >= 0 BY SignOfProduct
  <1>3. n * (u - 1) = n * u - n /\ n * (-u - 1) = -(n * u) - n /\ n * u \in Int OBVIOUS
  <1>4. u = 0 BY <1>1, <1>2, <1>3
  <1> QED BY <1>4

LEMMA MagnitudeOf ==
    ASSUME NEW g \in Int
    PROVE  /\ Magnitude(g) \in Nat
           /\ g # 0 => Magnitude(g) \in Nat \ {0}
           /\ g >= 0 => Magnitude(g) = g
           /\ g <= 0 => Magnitude(g) = -g
  BY DEF Magnitude

----------------------------------------------------------------------------
(* Doubles.  The ulps are a chain, each a multiple of those before it.     *)
LEMMA UlpsAreNatural == \A u \in Ulps : u \in Nat \ {0}
  BY ValueAssumption

LEMMA ConstantsOfDoubles ==
    /\ Significands \in Nat \ {0} /\ UnitsInOne \in Nat \ {0} /\ LargestUlp \in Nat \ {0}
    /\ FloatLimit \in Nat /\ FloatLimit = (Significands - 1) * LargestUlp
    /\ Significands * UnitsInOne \in Nat /\ Significands * UnitsInOne <= FloatLimit
    /\ UnitsInOne \in Ulps /\ LargestUlp \in Ulps
    /\ \A u \in Ulps : u <= LargestUlp /\ (u = LargestUlp \/ 2 * u \in Ulps)
<1>1. PICK l \in Ulps : \A u \in Ulps : u <= l /\ (u = l \/ 2 * u \in Ulps)
  BY UlpsAssumption
<1>2. LargestUlp \in Ulps /\ \A v \in Ulps : v <= LargestUlp
  BY <1>1 DEF LargestUlp
<1>3. LargestUlp = l
  <2>1. LargestUlp <= l /\ l <= LargestUlp
    BY <1>1, <1>2
  <2>2. LargestUlp \in Nat /\ l \in Nat
    BY <1>2, UlpsAreNatural
  <2> QED
    BY <2>1, <2>2
<1>4. Significands \in Nat \ {0} /\ UnitsInOne \in Ulps
  BY ValueAssumption
<1>5. LargestUlp \in Nat \ {0} /\ UnitsInOne \in Nat \ {0}
  BY <1>2, <1>4, UlpsAreNatural
<1>6. (Significands - 1) * LargestUlp \in Nat /\ Significands * UnitsInOne \in Nat
  <2>1. Significands - 1 >= 0 /\ Significands - 1 \in Int
    BY <1>4
  <2> QED
    BY <1>4, <1>5, <2>1, SignOfProduct
<1>7. FloatLimit = (Significands - 1) * LargestUlp
  BY DEF FloatLimit
<1>8. Significands * UnitsInOne <= FloatLimit
  BY ValueAssumption
<1> QED
  BY <1>1, <1>2, <1>3, <1>4, <1>5, <1>6, <1>7, <1>8

LEMMA UlpsDivide ==
    ASSUME NEW u \in Ulps, NEW v \in Ulps, u <= v
    PROVE  \E q \in Nat \ {0} : v = q * u
<1>1. u \in Nat \ {0} /\ v \in Nat \ {0} /\ v % u = 0
  BY UlpsAreNatural, UlpsAssumption
<1>2. v \div u \in Int /\ v = u * (v \div u) + (v % u)
  BY ONLY <1>1, DivisionWithRest
<1>3. PICK q \in Int : v = u * q + (v % u)
  BY <1>2
<1>4. v = u * q /\ u * q = q * u
  BY <1>1, <1>3
<1>5. q <= 0 => u * (-q) >= 0
  BY <1>1, SignOfProduct
<1>6. u * (-q) = -(u * q)
  BY <1>1
<1>7. q > 0
  BY <1>1, <1>4, <1>5, <1>6
<1> QED
  BY <1>4, <1>7

(* The nearest whole number is at most a half away, and on the same side of*)
(* every whole number as what it stands for.                               *)
LEMMA RoundToEvenIsNear ==
    ASSUME NEW n \in Int, NEW d \in Nat \ {0}
    PROVE  /\ RoundToEven(n, d) \in Int
           /\ -d <= 2 * (n - RoundToEven(n, d) * d)
           /\ 2 * (n - RoundToEven(n, d) * d) <= d
<1>1. PICK q \in Int, w \in 0..(d - 1) : q = n \div d /\ w = n % d /\ n = d * q + w
  BY DivisionWithRest
<1>2. RoundToEven(n, d) = IF 2 * w > d \/ (2 * w = d /\ q % 2 = 1) THEN q + 1 ELSE q
  BY <1>1 DEF RoundToEven
<1>3. PICK p \in Int : p = d * q
  OBVIOUS
<1>4. q * d = p /\ (q + 1) * d = p + d
  BY <1>3
<1>5. CASE 2 * w > d \/ (2 * w = d /\ q % 2 = 1)
  <2>1. RoundToEven(n, d) = q + 1 /\ 2 * w >= d
    BY <1>2, <1>5
  <2> QED
    BY <1>1, <1>3, <1>4, <2>1
<1>6. CASE ~(2 * w > d \/ (2 * w = d /\ q % 2 = 1))
  <2>1. RoundToEven(n, d) = q /\ 2 * w <= d
    BY <1>2, <1>6
  <2> QED
    BY <1>1, <1>3, <1>4, <2>1
<1> QED
  BY <1>5, <1>6

LEMMA RoundToEvenKeepsBounds ==
    ASSUME NEW n \in Int, NEW d \in Nat \ {0}, NEW b \in Int
    PROVE  /\ n <= b * d => RoundToEven(n, d) <= b
           /\ n >= b * d => RoundToEven(n, d) >= b
<1>1. PICK m \in Int : m = RoundToEven(n, d) /\ -d <= 2 * (n - m * d) /\ 2 * (n - m * d) <= d
  BY RoundToEvenIsNear
<1>2. PICK p \in Int, r \in Int : p = m * d /\ r = b * d
  OBVIOUS
<1>3. (m - b - 1) * d = p - r - d /\ (b - m - 1) * d = r - p - d
  BY <1>2
<1>4. ASSUME n <= r PROVE m <= b
  <2>1. m - b - 1 >= 0 => (m - b - 1) * d >= 0
    BY SignOfProduct
  <2> QED
    BY <1>1, <1>2, <1>3, <1>4, <2>1
<1>5. ASSUME n >= r PROVE m >= b
  <2>1. b - m - 1 >= 0 => (b - m - 1) * d >= 0
    BY SignOfProduct
  <2> QED
    BY <1>1, <1>2, <1>3, <1>5, <2>1
<1> QED
  BY <1>1, <1>2, <1>4, <1>5

----------------------------------------------------------------------------
(* The two number types.                                                   *)

(* Wrapping around stays within the width.                                 *)
LEMMA Int64InInts ==
    ASSUME NEW i \in Int
    PROVE  Int64(i) \in Ints
<1> DEFINE w == 2 * IntLimit
<1>1. IntLimit \in Int /\ IntLimit > 0
  BY ValueAssumption
<1>2. w \in Int /\ w > 0
  BY <1>1
<1>3. (i + IntLimit) % w \in 0..w - 1
  <2> HIDE DEF w
  <2> QED
    BY <1>1, <1>2
<1>4. ((i + IntLimit) % w) - IntLimit \in -IntLimit..IntLimit - 1
  BY <1>1, <1>3
<1> QED
  BY <1>4 DEF Int64, Ints


LEMMA SomeNumberIsLeast ==
    ASSUME NEW S, S \subseteq Nat, S # {}
    PROVE  \E x \in S : \A y \in S : x <= y
<1> DEFINE smaller == OpToRel(<, Nat)
<1>1. IsWellFoundedOn(smaller, Nat)
  BY NatLessThanWellFounded
<1>2. \A x, y \in Nat : <<x, y>> \in smaller <=> x < y
  BY DEF OpToRel
<1> HIDE DEF smaller
<1>3. PICK x \in S : \A y \in S : <<y, x>> \notin smaller
  BY <1>1, WFMin
<1>4. ASSUME NEW y \in S PROVE x <= y
  <2>1. x \in Nat /\ y \in Nat
    OBVIOUS
  <2>2. ~(y < x)
    BY <1>2, <1>3, <2>1
  <2> QED
    BY <2>1, <2>2
<1> QED
  BY <1>4

LEMMA UlpOfIsLeast ==
    ASSUME NEW n, NEW d, Reaches(LargestUlp, n, d)
    PROVE  /\ UlpOf(n, d) \in Ulps /\ Reaches(UlpOf(n, d), n, d)
           /\ \A v \in Ulps : Reaches(v, n, d) => UlpOf(n, d) <= v
<1> DEFINE S == {u \in Ulps : Reaches(u, n, d)}
<1>1. S \subseteq Nat /\ LargestUlp \in S
  BY UlpsAreNatural, ConstantsOfDoubles
<1>2. PICK u \in S : \A v \in S : u <= v
  BY <1>1, SomeNumberIsLeast
<1> QED
  BY <1>2 DEF UlpOf

LEMMA ReachesMeans ==
    ASSUME NEW n \in Int, NEW d \in Nat \ {0}, NEW u \in Ulps
    PROVE  /\ d * u \in Nat \ {0}
           /\ Significands * (d * u) \in Nat
           /\ Reaches(u, n, d) <=> -(Significands * (d * u)) <= n /\ n <= Significands * (d * u)
<1>1. u \in Nat \ {0} /\ Significands \in Nat \ {0}
  BY UlpsAreNatural, ConstantsOfDoubles
<1>2. d * u \in Nat \ {0}
  BY <1>1, SignOfProduct
<1>3. Significands * u * d = Significands * (d * u)
  BY <1>1
<1>4. PICK p \in Int : p = Significands * (d * u)
  BY <1>1
<1>5. p >= 0
  <2>1. PICK c \in Nat : c = d * u
    BY <1>2
  <2> QED
    BY <1>1, <1>4, <2>1, SignOfProduct
<1>6. Magnitude(n) <= p <=> -p <= n /\ n <= p
  BY <1>4, <1>5 DEF Magnitude
<1> QED
  BY <1>2, <1>3, <1>4, <1>5, <1>6 DEF Reaches

(* A double that is not too large is a multiple of the ulp.                *)
LEMMA DoubleIs ==
    ASSUME NEW n \in Int, NEW d \in Nat \ {0}, Reaches(LargestUlp, n, d)
    PROVE  \E u \in Ulps, m \in Int :
               /\ m = RoundToEven(n, d * u) /\ -Significands <= m /\ m <= Significands
               /\ \A v \in Ulps : Reaches(v, n, d) => u <= v
               /\ Double(n, d) = IF Magnitude(u * m) <= FloatLimit THEN <<"Float", u * m>>
                                 ELSE <<"Inf", IF n > 0 THEN 1 ELSE -1>>
<1>1. PICK u \in Ulps : u = UlpOf(n, d)
  BY UlpOfIsLeast
<1>2. Reaches(u, n, d) /\ \A v \in Ulps : Reaches(v, n, d) => u <= v
  BY <1>1, UlpOfIsLeast
<1>3. PICK m : m = RoundToEven(n, d * u)
  OBVIOUS
<1>4. PICK c \in Nat \ {0} : c = d * u
  BY ReachesMeans
<1>5. m \in Int
  BY <1>3, <1>4, RoundToEvenIsNear
<1>6. -Significands <= m /\ m <= Significands
  <2>1. -(Significands * c) <= n /\ n <= Significands * c
    BY <1>2, <1>4, ReachesMeans
  <2>2. PICK e \in Int : e = -Significands
    BY ConstantsOfDoubles
  <2>3. e * c = -(Significands * c) /\ Significands \in Int
    BY <2>2, ConstantsOfDoubles
  <2>4. n >= e * c
    BY <2>1, <2>3
  <2> QED
    BY <1>3, <1>4, <2>1, <2>2, <2>3, <2>4, RoundToEvenKeepsBounds
<1>7. Double(n, d) = IF Magnitude(u * m) <= FloatLimit THEN <<"Float", u * m>>
                     ELSE <<"Inf", IF n > 0 THEN 1 ELSE -1>>
  BY <1>1, <1>3 DEF Double
<1> QED
  BY <1>2, <1>3, <1>5, <1>6, <1>7

LEMMA DoubleInFloats ==
    ASSUME NEW n \in Int, NEW d \in Nat \ {0}
    PROVE  Double(n, d) \in Floats
<1>1. {<<"Inf", 1>>, <<"Inf", -1>>} \subseteq Floats
  BY DEF Floats, Infs
<1>2. CASE ~Reaches(LargestUlp, n, d)
  BY <1>1, <1>2 DEF Double
<1>3. CASE Reaches(LargestUlp, n, d)
  <2>1. PICK u \in Ulps, m \in Int :
            /\ -Significands <= m /\ m <= Significands
            /\ Double(n, d) = IF Magnitude(u * m) <= FloatLimit THEN <<"Float", u * m>>
                              ELSE <<"Inf", IF n > 0 THEN 1 ELSE -1>>
    BY <1>3, DoubleIs
  <2>2. ASSUME Magnitude(u * m) <= FloatLimit PROVE u * m \in FiniteDoubles
    <3>1. u \in Nat \ {0} /\ Significands \in Nat \ {0}
      BY UlpsAreNatural, ConstantsOfDoubles
    <3>2. u * m = m * u
      BY <3>1
    <3>3. CASE m \in -(Significands - 1)..(Significands - 1)
      BY <3>2, <3>3 DEF FiniteDoubles
    <3>4. CASE m \notin -(Significands - 1)..(Significands - 1)
      <4>1. m = Significands \/ m = -Significands
        BY <2>1, <3>1, <3>4
      <4>2. u # LargestUlp
        <5>1. ASSUME u = LargestUlp PROVE FALSE
          <6>1. FloatLimit = Significands * u - u
            BY <3>1, <5>1, ConstantsOfDoubles
          <6>2. PICK p \in Int : p = Significands * u
            BY <3>1
          <6>3. u * m = p \/ u * m = -p
            BY <3>1, <4>1, <6>2
          <6> QED
            BY <2>2, <3>1, <6>1, <6>2, <6>3 DEF Magnitude
        <5> QED
          BY <5>1
      <4>3. 2 * u \in Ulps
        BY <4>2, ConstantsOfDoubles
      <4>4. PICK e \in Int : Significands = 2 * e
        BY <3>1, ValueAssumption
      <4>5. e \in -(Significands - 1)..(Significands - 1) /\ -e \in -(Significands - 1)..(Significands - 1)
        BY <3>1, <4>4
      <4>6. u * m = e * (2 * u) \/ u * m = (-e) * (2 * u)
        BY <3>1, <4>1, <4>4
      <4> QED
        BY <4>3, <4>5, <4>6 DEF FiniteDoubles
    <3> QED
      BY <3>3, <3>4
  <2> QED
    BY <1>1, <2>1, <2>2 DEF Floats
<1> QED
  BY <1>2, <1>3

LEMMA FiniteDoublesAreBounded ==
    ASSUME NEW k \in FiniteDoubles
    PROVE  k \in -FloatLimit..FloatLimit
<1>1. PICK m \in -(Significands - 1)..(Significands - 1), u \in Ulps : k = m * u
  BY DEF FiniteDoubles
<1>2. Significands \in Nat \ {0} /\ LargestUlp \in Nat \ {0} /\ u \in Nat \ {0} /\ u <= LargestUlp
  BY UlpsAreNatural, ConstantsOfDoubles
<1>3. PICK s \in Nat : s = Significands - 1
  BY <1>2
<1>4. m \in Int /\ -s <= m /\ m <= s
  BY <1>2, <1>3
<1>5. FloatLimit = s * LargestUlp /\ FloatLimit \in Nat
  BY <1>3, ConstantsOfDoubles
<1>6. (s - m) * u >= 0 /\ (s + m) * u >= 0 /\ s * (LargestUlp - u) >= 0
  BY <1>2, <1>4, SignOfProduct
<1>7. /\ (s - m) * u = s * u - m * u /\ (s + m) * u = s * u + m * u
      /\ s * (LargestUlp - u) = s * LargestUlp - s * u
      /\ s * u \in Int /\ m * u \in Int /\ s * LargestUlp \in Int
  BY <1>2, <1>4
<1> QED
  BY <1>1, <1>5, <1>6, <1>7

(* What fits the doubles is not rounded out of them.                       *)
LEMMA DoubleFits ==
    ASSUME NEW n \in Int, NEW d \in Nat \ {0}, -(FloatLimit * d) <= n, n <= FloatLimit * d
    PROVE  \E u \in Ulps, m \in Int :
               /\ m = RoundToEven(n, d * u) /\ Double(n, d) = <<"Float", u * m>>
               /\ \A v \in Ulps : Reaches(v, n, d) => u <= v
<1>1. /\ Significands \in Nat \ {0} /\ LargestUlp \in Nat \ {0} /\ FloatLimit \in Nat
      /\ LargestUlp \in Ulps /\ FloatLimit = (Significands - 1) * LargestUlp
  BY ConstantsOfDoubles
<1>2. PICK s \in Nat : s = Significands - 1
  BY <1>1
<1>3. Reaches(LargestUlp, n, d)
  <2>1. PICK c \in Nat \ {0} : c = d * LargestUlp
    BY <1>1, ReachesMeans
  <2>2. FloatLimit * d = s * c
    BY <1>1, <1>2, <2>1
  <2>3. Significands * c = s * c + c /\ s * c \in Int
    BY <1>1, <1>2
  <2> QED
    BY <1>1, <2>1, <2>2, <2>3, ReachesMeans
<1>4. PICK u \in Ulps, m \in Int :
          /\ m = RoundToEven(n, d * u)
          /\ \A v \in Ulps : Reaches(v, n, d) => u <= v
          /\ Double(n, d) = IF Magnitude(u * m) <= FloatLimit THEN <<"Float", u * m>>
                            ELSE <<"Inf", IF n > 0 THEN 1 ELSE -1>>
  BY <1>3, DoubleIs
<1>5. u \in Nat \ {0}
  BY UlpsAreNatural
<1>6. PICK q \in Nat \ {0} : LargestUlp = q * u
  BY <1>1, ConstantsOfDoubles, UlpsDivide
<1>7. PICK b \in Nat : b = s * q /\ FloatLimit = b * u
  <2>1. s * q \in Nat
    BY SignOfProduct
  <2>2. s * LargestUlp = (s * q) * u
    BY <1>5, <1>6
  <2> QED
    BY <1>1, <1>2, <2>1, <2>2
<1>8. PICK c \in Nat \ {0} : c = d * u
  BY ReachesMeans
<1>9. FloatLimit * d = b * c /\ (-b) * c = -(b * c) /\ b * c \in Int
  BY <1>5, <1>7, <1>8
<1>10. m <= b /\ m >= -b
  <2>1. n <= b * c /\ n >= (-b) * c
    BY <1>9
  <2>2. -b \in Int
    OBVIOUS
  <2> QED
    BY <1>4, <1>8, <2>1, <2>2, RoundToEvenKeepsBounds
<1>11. Magnitude(u * m) <= FloatLimit
  <2>1. (b - m) * u >= 0 /\ (b + m) * u >= 0
    BY <1>5, <1>10, SignOfProduct
  <2>2. (b - m) * u = b * u - u * m /\ (b + m) * u = b * u + u * m /\ u * m \in Int /\ b * u \in Int
    BY <1>5
  <2> QED
    BY <1>7, <2>1, <2>2 DEF Magnitude
<1> QED
  BY <1>4, <1>11

(* Rounding keeps to the whole numbers that it lies between.               *)
LEMMA DoubleKeepsBounds ==
    ASSUME NEW n \in Int, NEW d \in Nat \ {0}, Reaches(UnitsInOne, n, d)
    PROVE  \E u \in Ulps, m \in Int :
               /\ m = RoundToEven(n, d * u) /\ Double(n, d) = <<"Float", u * m>>
               /\ \A v \in Ulps : Reaches(v, n, d) => u <= v
               /\ \A k \in Int : /\ n <= k * (d * UnitsInOne) => u * m <= k * UnitsInOne
                                 /\ n >= k * (d * UnitsInOne) => u * m >= k * UnitsInOne
<1>1. /\ Significands \in Nat \ {0} /\ UnitsInOne \in Nat \ {0} /\ UnitsInOne \in Ulps
      /\ Significands * UnitsInOne <= FloatLimit /\ FloatLimit \in Nat
  BY ConstantsOfDoubles
<1>2. -(FloatLimit * d) <= n /\ n <= FloatLimit * d
  <2>1. PICK p \in Nat : p = Significands * UnitsInOne
    BY ConstantsOfDoubles
  <2>2. Significands * (d * UnitsInOne) = p * d
    BY <1>1, <2>1
  <2>3. -(p * d) <= n /\ n <= p * d
    BY <1>1, <2>2, ReachesMeans
  <2>4. (FloatLimit - p) * d >= 0
    BY <1>1, <2>1, SignOfProduct
  <2>5. (FloatLimit - p) * d = FloatLimit * d - p * d /\ p * d \in Int /\ FloatLimit * d \in Int
    BY <1>1
  <2> QED
    BY <2>3, <2>4, <2>5
<1>3. PICK u \in Ulps, m \in Int :
          /\ m = RoundToEven(n, d * u) /\ Double(n, d) = <<"Float", u * m>>
          /\ \A v \in Ulps : Reaches(v, n, d) => u <= v
  BY <1>2, DoubleFits
<1>4. PICK q \in Nat \ {0} : UnitsInOne = q * u
  BY <1>1, <1>3, UlpsDivide
<1>5. u \in Nat \ {0}
  BY UlpsAreNatural
<1>6. ASSUME NEW k \in Int
      PROVE  /\ n <= k * (d * UnitsInOne) => u * m <= k * UnitsInOne
             /\ n >= k * (d * UnitsInOne) => u * m >= k * UnitsInOne
  <2>1. PICK c \in Nat \ {0} : c = d * u
    BY ReachesMeans
  <2>2. PICK b \in Int : b = k * q
    OBVIOUS
  <2>3. k * (d * UnitsInOne) = b * c /\ k * UnitsInOne = b * u
    BY <1>4, <1>5, <2>1, <2>2
  <2>4. (b - m) * u = b * u - u * m /\ (m - b) * u = u * m - b * u /\ u * m \in Int /\ b * u \in Int
    BY <1>5
  <2>5. ASSUME n <= b * c PROVE u * m <= b * u
    <3>1. b - m >= 0
      BY <1>3, <2>1, <2>5, RoundToEvenKeepsBounds
    <3>2. (b - m) * u >= 0
      BY <1>5, <3>1, SignOfProduct
    <3> QED
      BY <2>4, <3>2
  <2>6. ASSUME n >= b * c PROVE u * m >= b * u
    <3>1. m - b >= 0
      BY <1>3, <2>1, <2>6, RoundToEvenKeepsBounds
    <3>2. (m - b) * u >= 0
      BY <1>5, <3>1, SignOfProduct
    <3> QED
      BY <2>4, <3>2
  <2> QED
    BY <2>3, <2>5, <2>6
<1> QED
  BY <1>3, <1>6

(* What a float is made of.                                                *)
LEMMA FloatParts ==
    ASSUME NEW f \in Floats
    PROVE  /\ f[2] \in Int
           /\ \/ f[1] = "Float" /\ f[2] \in FiniteDoubles /\ f[2] \in -FloatLimit..FloatLimit
              \/ f \in Infs
              \/ f = NaN
<1>1. FloatLimit \in Nat
  BY ConstantsOfDoubles
<1>2. CASE f \in {"Float"} \X FiniteDoubles
  <2>1. f[1] = "Float" /\ f[2] \in FiniteDoubles
    BY <1>2
  <2>2. f[2] \in -FloatLimit..FloatLimit
    BY <2>1, FiniteDoublesAreBounded
  <2> QED
    BY <1>1, <2>1, <2>2
<1>3. CASE f \in Infs \cup {NaN}
  BY <1>3 DEF Infs, NaN
<1> QED
  BY <1>2, <1>3 DEF Floats

LEMMA ZeroInFloats == <<"Float", 0>> \in Floats
<1>1. Significands \in Nat \ {0} /\ UnitsInOne \in Nat \ {0} /\ UnitsInOne \in Ulps
  BY ConstantsOfDoubles
<1>2. 0 \in -(Significands - 1)..(Significands - 1) /\ 0 * UnitsInOne = 0
  BY <1>1
<1>3. 0 \in FiniteDoubles
  BY <1>1, <1>2 DEF FiniteDoubles
<1> QED
  BY <1>3 DEF Floats

LEMMA CastToFloatInFloats ==
    ASSUME NEW v \in LualikeValues, IsNumeric(v)
    PROVE  CastToFloat(v) \in Floats
<1>1. CASE IsInt(v)
  <2>1. v \in Ints
    BY <1>1 DEF LualikeValues, Nil, Bools, Floats, Infs, NaN, Strings, IsInt
  <2>2. v[2] \in Int
    BY <2>1, ValueAssumption DEF Ints
  <2>3. v[2] * UnitsInOne \in Int /\ 1 \in Nat \ {0}
    BY <2>2, ConstantsOfDoubles
  <2> QED
    BY <1>1, <2>3, DoubleInFloats DEF CastToFloat
<1>2. CASE ~IsInt(v)
  <2>1. v \in Floats
    BY <1>2 DEF LualikeValues, Nil, Bools, Ints, Strings, IsNumeric, IsInt, IsFloat
  <2> QED
    BY <1>2, <2>1 DEF CastToFloat
<1> QED
  BY <1>1, <1>2

LEMMA FloatNegateInFloats ==
    ASSUME NEW f \in Floats
    PROVE  FloatNegate(f) \in Floats
<1>1. CASE f[1] = "Float"
  <2>1. f[2] \in FiniteDoubles
    BY <1>1, FloatParts DEF Infs, NaN
  <2>2. PICK m \in -(Significands - 1)..(Significands - 1), u \in Ulps : f[2] = m * u
    BY <2>1 DEF FiniteDoubles
  <2>3. u \in Nat \ {0} /\ Significands \in Nat \ {0}
    BY UlpsAreNatural, ConstantsOfDoubles
  <2>4. -m \in -(Significands - 1)..(Significands - 1) /\ -f[2] = (-m) * u
    BY <2>2, <2>3
  <2>5. -f[2] \in FiniteDoubles
    BY <2>4 DEF FiniteDoubles
  <2> QED
    BY <1>1, <2>5 DEF FloatNegate, Floats
<1>2. CASE f \in Infs \cup {NaN}
  BY <1>2 DEF FloatNegate, Floats, Infs, NaN
<1> QED
  BY <1>1, <1>2, FloatParts

LEMMA FloatAddInFloats ==
    ASSUME NEW f \in Floats, NEW g \in Floats
    PROVE  FloatAdd(f, g) \in Floats
<1>1. NaN \in Floats
  BY DEF Floats
<1>2. f[2] + g[2] \in Int /\ 1 \in Nat \ {0}
  BY FloatParts
<1>3. Double(f[2] + g[2], 1) \in Floats
  BY <1>2, DoubleInFloats
<1> QED
  BY <1>1, <1>3 DEF FloatAdd

LEMMA SignOfFloat ==
    ASSUME NEW f \in Floats
    PROVE  Sign(f) \in {-1, 0, 1}
BY FloatParts DEF Sign

LEMMA FloatMultiplyInFloats ==
    ASSUME NEW f \in Floats, NEW g \in Floats
    PROVE  FloatMultiply(f, g) \in Floats
<1>1. NaN \in Floats
  BY DEF Floats
<1>2. f[2] * g[2] \in Int /\ UnitsInOne \in Nat \ {0}
  BY FloatParts, ConstantsOfDoubles
<1>3. Double(f[2] * g[2], UnitsInOne) \in Floats
  BY <1>2, DoubleInFloats
<1>4. ASSUME Sign(f) * Sign(g) # 0 PROVE <<"Inf", Sign(f) * Sign(g)>> \in Floats
  BY <1>4, SignOfFloat DEF Floats, Infs
<1> QED
  BY <1>1, <1>3, <1>4 DEF FloatMultiply

LEMMA FloatDivideInFloats ==
    ASSUME NEW f \in Floats, NEW g \in Floats
    PROVE  FloatDivide(f, g) \subseteq Floats
<1>1. NaN \in Floats /\ Infs \subseteq Floats /\ <<"Float", 0>> \in Floats
  BY ZeroInFloats DEF Floats
<1>2. ASSUME Sign(g) # 0
      PROVE  Double(Sign(g) * f[2] * UnitsInOne, Magnitude(g[2])) \in Floats
  <2>1. f[2] \in Int /\ g[2] \in Int /\ g[2] # 0 /\ Sign(g) \in Int
    BY <1>2, FloatParts, SignOfFloat DEF Sign
  <2>2. Sign(g) * f[2] * UnitsInOne \in Int
    BY <2>1, ConstantsOfDoubles
  <2>3. Magnitude(g[2]) \in Nat \ {0}
    BY <2>1, MagnitudeOf
  <2> QED
    BY <2>2, <2>3, DoubleInFloats
<1>3. ASSUME Sign(g) # 0, f \in Infs PROVE <<"Inf", Sign(f) * Sign(g)>> \in Floats
  BY <1>3, SignOfFloat DEF Floats, Infs, Sign
<1> QED
  BY <1>1, <1>2, <1>3 DEF FloatDivide

(* What is rounded down to a whole number needs no more bits for it.       *)
LEMMA FloatFloorInFloats ==
    ASSUME NEW f \in Floats
    PROVE  FloatFloor(f) \in Floats
<1>1. CASE f[1] = "Float"
  <2>1. f[2] \in FiniteDoubles
    BY <1>1, FloatParts DEF Infs, NaN
  <2>2. PICK m \in -(Significands - 1)..(Significands - 1), u \in Ulps : f[2] = m * u
    BY <2>1 DEF FiniteDoubles
  <2>3. /\ u \in Nat \ {0} /\ Significands \in Nat \ {0}
        /\ UnitsInOne \in Nat \ {0} /\ UnitsInOne \in Ulps
    BY UlpsAreNatural, ConstantsOfDoubles
  <2>4. PICK k \in Int : k = f[2]
    BY <2>2, <2>3
  <2>5. PICK j \in Int, w \in 0..(UnitsInOne - 1) : j = k \div UnitsInOne /\ k = UnitsInOne * j + w
    BY <2>3, DivisionWithRest
  <2>6. PICK p \in Int : p = UnitsInOne * j
    BY <2>3
  <2>7. p \in FiniteDoubles
    <3>1. CASE u >= UnitsInOne
      <4>1. PICK q \in Nat \ {0} : u = q * UnitsInOne
        BY <2>3, <3>1, UlpsDivide
      <4>2. PICK i \in Int : i = m * q - j
        BY <4>1
      <4>3. UnitsInOne * i = w
        <5>1. UnitsInOne * (m * q - j) = m * (q * UnitsInOne) - UnitsInOne * j
          BY <2>3, <4>1
        <5>2. m * (q * UnitsInOne) = k
          BY <2>2, <2>4, <4>1
        <5>3. UnitsInOne * i = k - p
          BY <2>6, <4>2, <5>1, <5>2
        <5> QED
          BY <2>3, <2>5, <2>6, <5>3
      <4>4. w = 0
        BY <2>3, <4>3, MultiplesApart
      <4> QED
        BY <2>1, <2>4, <2>5, <2>6, <4>4
    <3>2. CASE ~(u >= UnitsInOne)
      <4>1. u <= UnitsInOne
        BY <2>3, <3>2
      <4>2. PICK s \in Nat : s = Significands - 1
        BY <2>3
      <4>3. PICK r \in Int : r = s * UnitsInOne
        BY <2>3
      <4>4. -r <= k /\ k <= r
        <5>1. (s - m) * u >= 0 /\ (s + m) * u >= 0 /\ s * (UnitsInOne - u) >= 0
          BY <2>3, <4>1, <4>2, SignOfProduct
        <5>2. /\ (s - m) * u = s * u - m * u /\ (s + m) * u = s * u + m * u
              /\ s * (UnitsInOne - u) = s * UnitsInOne - s * u
              /\ s * u \in Int /\ m * u \in Int /\ s * UnitsInOne \in Int
          BY <2>3
        <5> QED
          BY <2>2, <2>4, <4>3, <5>1, <5>2
      <4>5. j <= s
        <5>1. j - s - 1 >= 0 => (j - s - 1) * UnitsInOne >= 0
          BY <2>3, SignOfProduct
        <5>2. (j - s - 1) * UnitsInOne = p - r - UnitsInOne
          BY <2>3, <2>6, <4>3
        <5> QED
          BY <2>3, <2>5, <2>6, <4>4, <5>1, <5>2
      <4>6. -s <= j
        <5>1. -s - j - 1 >= 0 => (-s - j - 1) * UnitsInOne >= 0
          BY <2>3, SignOfProduct
        <5>2. (-s - j - 1) * UnitsInOne = -r - p - UnitsInOne
          BY <2>3, <2>6, <4>3
        <5> QED
          BY <2>3, <2>5, <2>6, <4>4, <5>1, <5>2
      <4>7. j \in -(Significands - 1)..(Significands - 1) /\ p = j * UnitsInOne
        BY <2>3, <2>6, <4>2, <4>5, <4>6
      <4> QED
        BY <2>3, <4>7 DEF FiniteDoubles
    <3> QED
      BY <3>1, <3>2
  <2> QED
    BY <1>1, <2>4, <2>5, <2>6, <2>7 DEF FloatFloor, Floats
<1>2. CASE f[1] # "Float"
  BY <1>2 DEF FloatFloor
<1> QED
  BY <1>1, <1>2

LEMMA CastToIntInInts ==
    ASSUME NEW f
    PROVE  CastToInt(f) \subseteq Ints
BY DEF CastToInt, Ints

----------------------------------------------------------------------------
(* The operators.                                                          *)

LEMMA PartsOfValues ==
    /\ Ints \subseteq LualikeValues
    /\ Floats \subseteq LualikeValues
    /\ Bools \subseteq LualikeValues
    /\ Nil \in LualikeValues
BY DEF LualikeValues

LEMMA ThrowInThrows ==
    ASSUME NEW k \in OpErrKinds
    PROVE  Throw(k) \in Throws
BY DEF Throw, Throws

LEMMA IntOfValue ==
    ASSUME NEW v \in LualikeValues, IsInt(v)
    PROVE  v[2] \in Int
BY ValueAssumption
   DEF LualikeValues, Nil, Bools, Ints, Floats, Infs, NaN, Strings, IsInt

LEMMA FloatOfValue ==
    ASSUME NEW v \in LualikeValues, IsFloat(v)
    PROVE  v \in Floats
BY DEF LualikeValues, Nil, Bools, Ints, Strings, IsFloat

LEMMA BoolOfValue ==
    ASSUME NEW v \in LualikeValues, IsBool(v)
    PROVE  v[2] \in BOOLEAN
BY DEF LualikeValues, Nil, Bools, Ints, Floats, Infs, NaN, Strings, IsBool

(* + - * of two numbers are numbers again.                                 *)
LEMMA RingOfNumbers ==
    ASSUME NEW a \in LualikeValues, NEW b \in LualikeValues, IsNumeric(a), IsNumeric(b)
    PROVE  /\ Add(a, b) \subseteq LualikeValues
           /\ Subtract(a, b) \subseteq LualikeValues
           /\ Multiply(a, b) \subseteq LualikeValues
<1> DEFINE f == CastToFloat(a)
           g == CastToFloat(b)
<1>1. ASSUME IsInt(a), IsInt(b)
      PROVE  /\ {Int64(a[2] + b[2])} \subseteq LualikeValues
             /\ {Int64(a[2] - b[2])} \subseteq LualikeValues
             /\ {Int64(a[2] * b[2])} \subseteq LualikeValues
  <2>1. /\ a[2] + b[2] \in Int
        /\ a[2] - b[2] \in Int
        /\ a[2] * b[2] \in Int
    BY <1>1, IntOfValue
  <2> QED
    BY <2>1, Int64InInts, PartsOfValues
<1>2. /\ {FloatAdd(f, g)} \subseteq LualikeValues
      /\ {FloatAdd(f, FloatNegate(g))} \subseteq LualikeValues
      /\ {FloatMultiply(f, g)} \subseteq LualikeValues
  <2>1. f \in Floats /\ g \in Floats
    BY CastToFloatInFloats
  <2> HIDE DEF f, g
  <2>2. FloatNegate(g) \in Floats
    BY <2>1, FloatNegateInFloats
  <2> QED
    BY <2>1, <2>2, FloatAddInFloats, FloatMultiplyInFloats, PartsOfValues
<1>3. Add(a, b) \subseteq LualikeValues
  BY <1>1, <1>2 DEF Add, PerformArithmeticBinOp
<1>4. Subtract(a, b) \subseteq LualikeValues
  BY <1>1, <1>2 DEF Subtract, PerformArithmeticBinOp
<1>5. Multiply(a, b) \subseteq LualikeValues
  BY <1>1, <1>2 DEF Multiply, PerformArithmeticBinOp
<1> QED
  BY <1>3, <1>4, <1>5

(* So are / // and the two that leave their result to the library.         *)
LEMMA DivisionOfNumbers ==
    ASSUME NEW a \in LualikeValues, NEW b \in LualikeValues, IsNumeric(a), IsNumeric(b)
    PROVE  /\ Divide(a, b) \subseteq LualikeValues
           /\ FloorDivide(a, b) \subseteq LualikeValues
           /\ Modulo(a, b) \subseteq LualikeValues
           /\ Exponentiate(a, b) \subseteq LualikeValues
<1> DEFINE quotients == FloatDivide(CastToFloat(a), CastToFloat(b))
<1>1. /\ quotients \subseteq LualikeValues
      /\ {FloatFloor(q) : q \in quotients} \subseteq LualikeValues
  <2>1. CastToFloat(a) \in Floats /\ CastToFloat(b) \in Floats
    BY CastToFloatInFloats
  <2>2. quotients \subseteq Floats
    BY <2>1, FloatDivideInFloats
  <2> HIDE DEF quotients
  <2> QED
    BY <2>2, FloatFloorInFloats, PartsOfValues
<1>2. FmodAsInt(a, b) \subseteq LualikeValues
  BY CastToIntInInts, PartsOfValues DEF FmodAsInt
<1>3. Divide(a, b) \subseteq LualikeValues
  BY <1>1 DEF Divide, PerformFloatBinOp
<1>4. FloorDivide(a, b) \subseteq LualikeValues
  BY <1>1 DEF FloorDivide, PerformFloatBinOp
<1>5. Modulo(a, b) \subseteq LualikeValues
  BY <1>2 DEF Modulo, PerformArithmeticBinOp
<1>6. Exponentiate(a, b) \subseteq LualikeValues
  BY PartsOfValues DEF Exponentiate, PerformFloatBinOp
<1> QED
  BY <1>3, <1>4, <1>5, <1>6

(* What an operation throws depends on its operands' types, left one first.*)
LEMMA NotNumbers ==
    ASSUME NEW a, NEW b, NEW ofInts, NEW ofFloats
    PROVE  /\ ~IsNumeric(a) =>
                  PerformArithmeticBinOp(a, b, ofInts, ofFloats) = {Throw("kLhsNotNumeric")}
           /\ IsNumeric(a) /\ ~IsNumeric(b) =>
                  PerformArithmeticBinOp(a, b, ofInts, ofFloats) = {Throw("kRhsNotNumeric")}
BY DEF PerformArithmeticBinOp

LEMMA RingOutcomes ==
    ASSUME NEW a \in LualikeValues, NEW b \in LualikeValues
    PROVE  /\ Add(a, b) \subseteq Outcomes
           /\ Subtract(a, b) \subseteq Outcomes
           /\ Multiply(a, b) \subseteq Outcomes
<1>1. CASE IsNumeric(a) /\ IsNumeric(b)
  BY <1>1, RingOfNumbers DEF Outcomes
<1>2. CASE ~(IsNumeric(a) /\ IsNumeric(b))
  BY <1>2, NotNumbers, ThrowInThrows DEF Add, Subtract, Multiply, Outcomes, OpErrKinds
<1> QED
  BY <1>1, <1>2

LEMMA DivisionOutcomes ==
    ASSUME NEW a \in LualikeValues, NEW b \in LualikeValues
    PROVE  /\ Divide(a, b) \subseteq Outcomes
           /\ FloorDivide(a, b) \subseteq Outcomes
           /\ Modulo(a, b) \subseteq Outcomes
           /\ Exponentiate(a, b) \subseteq Outcomes
<1>1. CASE IsNumeric(a) /\ IsNumeric(b)
  BY <1>1, DivisionOfNumbers DEF Outcomes
<1>2. CASE ~(IsNumeric(a) /\ IsNumeric(b))
  <2>1. {Throw("kLhsNotNumeric"), Throw("kRhsNotNumeric")} \subseteq Outcomes
    BY ThrowInThrows DEF Outcomes, OpErrKinds
  <2>2. Divide(a, b) \subseteq Outcomes
    BY <1>2, <2>1 DEF Divide, PerformFloatBinOp
  <2>3. FloorDivide(a, b) \subseteq Outcomes
    BY <1>2, <2>1 DEF FloorDivide, PerformFloatBinOp
  <2>4. Modulo(a, b) \subseteq Outcomes
    BY <1>2, <2>1, NotNumbers DEF Modulo
  <2>5. Exponentiate(a, b) \subseteq Outcomes
    BY <1>2, <2>1 DEF Exponentiate, PerformFloatBinOp
  <2> QED
    BY <2>2, <2>3, <2>4, <2>5
<1> QED
  BY <1>1, <1>2

LEMMA UnaryOperatorOutcomes ==
    ASSUME NEW v \in LualikeValues
    PROVE  Negate(v) \subseteq Outcomes /\ LogicalNot(v) \subseteq Outcomes
<1>1. Negate(v) \subseteq Outcomes
  <2>1. CASE IsInt(v)
    <3>1. -v[2] \in Int
      BY <2>1, IntOfValue
    <3>2. Int64(-v[2]) \in Ints
      BY <3>1, Int64InInts
    <3> QED
      BY <2>1, <3>2, PartsOfValues DEF Negate, Outcomes
  <2>2. CASE ~IsInt(v) /\ IsFloat(v)
    <3>1. FloatNegate(v) \in Floats
      BY <2>2, FloatOfValue, FloatNegateInFloats
    <3> QED
      BY <2>2, <3>1, PartsOfValues DEF Negate, Outcomes
  <2>3. CASE ~IsInt(v) /\ ~IsFloat(v)
    <3>1. Throw("kNotNumericOperand") \in Throws
      BY ThrowInThrows DEF OpErrKinds
    <3> QED
      BY <2>3, <3>1 DEF Negate, Outcomes
  <2> QED
    BY <2>1, <2>2, <2>3
<1>2. LogicalNot(v) \subseteq Outcomes
  <2>1. CASE IsBool(v)
    <3>1. Bool(~v[2]) \in Bools
      BY DEF Bool, Bools
    <3> QED
      BY <2>1, <3>1, PartsOfValues DEF LogicalNot, Outcomes
  <2>2. CASE ~IsBool(v)
    <3>1. Throw("kNotBoolOperand") \in Throws
      BY ThrowInThrows DEF OpErrKinds
    <3> QED
      BY <2>2, <3>1 DEF LogicalNot, Outcomes
  <2> QED
    BY <2>1, <2>2
<1> QED
  BY <1>1, <1>2

(* A thrown error is never taken for a value, nor a value for an error.    *)
LEMMA OutcomeKinds ==
    ASSUME NEW o \in Outcomes
    PROVE  /\ o[1] = "Throw" => o \in Throws /\ o[2] \in OpErrKinds
           /\ o[1] # "Throw" => o \in LualikeValues
<1>1. CASE o \in Throws
  BY <1>1 DEF Throws
<1>2. CASE o \in LualikeValues
  BY <1>2 DEF LualikeValues, Nil, Bools, Ints, Floats, Infs, NaN, Strings
<1> QED
  BY <1>1, <1>2 DEF Outcomes
====
