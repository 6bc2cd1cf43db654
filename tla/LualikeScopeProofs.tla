---- MODULE LualikeScopeProofs ----
(***************************************************************************)
(* Theorems of LualikeScopeChain for every set of names and values and     *)
(* every depth.  The inductive invariant joins the three invariants: the   *)
(* search of Set finds the unique holder of a name only because no name    *)
(* has two, and the root stays empty only because a new name goes to the   *)
(* innermost scope, which is never the root.                               *)
(***************************************************************************)
EXTENDS LualikeScopeChain, TLAPS

ScopeInv == TypeOK /\ SingleBinding /\ RootStaysEmpty

(* A chain in which no name has two entries.                               *)
OneHolder(c) == \A n \in Names : \A i, j \in Holders(c, n) : i = j

----------------------------------------------------------------------------
(* The scope found by the climb of Get and Set is the only one that has    *)
(* the name.                                                               *)
LEMMA NearestIsTheHolder ==
    ASSUME NEW c, OneHolder(c), NEW n \in Names, NEW i \in Holders(c, n)
    PROVE  Nearest(c, n) = i
<1>1. Holders(c, n) = {i}
  BY DEF OneHolder
<1>2. i <= i
  BY DEF Holders
<1> QED
  BY <1>1, <1>2 DEF Nearest

(* Set always has a scope to write to.                                     *)
LEMMA SetIndexInChain ==
    ASSUME NEW c \in Seq(Bindings), Len(c) > 0, OneHolder(c), NEW n \in Names
    PROVE  SetIndex(c, n) \in 1..Len(c)
<1>1. CASE Holders(c, n) = {}
  BY <1>1 DEF SetIndex
<1>2. CASE Holders(c, n) # {}
  <2>1. PICK i \in Holders(c, n) : TRUE
    BY <1>2
  <2>2. Nearest(c, n) = i
    BY <2>1, NearestIsTheHolder
  <2> QED
    BY <1>2, <2>2 DEF SetIndex, Holders
<1> QED
  BY <1>1, <1>2

(* What Set returns: one entry changes, in one scope.                      *)
LEMMA SetShape ==
    ASSUME NEW c \in Seq(Bindings), Len(c) > 0, OneHolder(c),
           NEW n \in Names, NEW v \in Values
    PROVE  /\ Set(c, n, v) \in Seq(Bindings)
           /\ Len(Set(c, n, v)) = Len(c)
           /\ \A i \in 1..Len(c) : \A m \in Names :
                Set(c, n, v)[i][m] = IF i = SetIndex(c, n) /\ m = n
                                     THEN v ELSE c[i][m]
<1> DEFINE k == SetIndex(c, n)
<1>1. k \in 1..Len(c)
  BY SetIndexInChain
<1>2. \A i \in 1..Len(c) : c[i] \in Bindings
  OBVIOUS
<1>3. Set(c, n, v) = [c EXCEPT ![k] = [c[k] EXCEPT ![n] = v]]
  BY DEF Set
<1>4. [c[k] EXCEPT ![n] = v] \in Bindings
  BY <1>1, <1>2 DEF Bindings
<1>5. Set(c, n, v) \in Seq(Bindings) /\ Len(Set(c, n, v)) = Len(c)
  <2> HIDE DEF k
  <2> QED
    BY <1>1, <1>3, <1>4
<1>6. ASSUME NEW i \in 1..Len(c), NEW m \in Names
      PROVE  Set(c, n, v)[i][m] = IF i = k /\ m = n THEN v ELSE c[i][m]
  <2>1. c[i] \in Bindings
    BY <1>2
  <2> HIDE DEF k
  <2>2. CASE i = k
    BY <1>1, <1>3, <2>1, <2>2 DEF Bindings
  <2>3. CASE i # k
    BY <1>1, <1>3, <2>1, <2>3
  <2> QED
    BY <2>2, <2>3
<1> QED
  BY <1>5, <1>6

(* After Set the name is held where it was written and nowhere else; the   *)
(* holders of every other name are what they were.                         *)
LEMMA SetHolders ==
    ASSUME NEW c \in Seq(Bindings), Len(c) > 0, OneHolder(c),
           NEW n \in Names, NEW v \in Values, NEW m \in Names
    PROVE  Holders(Set(c, n, v), m) =
               IF m = n THEN {SetIndex(c, n)} ELSE Holders(c, m)
<1> DEFINE k == SetIndex(c, n)
<1>1. k \in 1..Len(c)
  BY SetIndexInChain
<1>2. Len(Set(c, n, v)) = Len(c)
  BY SetShape
<1>3. \A i \in 1..Len(c) :
          Set(c, n, v)[i][m] = IF i = k /\ m = n THEN v ELSE c[i][m]
  BY SetShape
<1>4. v # Absent
  BY AbsentAssumption
<1>5. \A i \in Holders(c, n) : i = k
  <2> SUFFICES ASSUME NEW i \in Holders(c, n) PROVE i = k
    OBVIOUS
  <2>1. Nearest(c, n) = i
    BY NearestIsTheHolder
  <2> QED
    BY <2>1 DEF SetIndex
<1>6. CASE m = n
  <2>1. Holders(Set(c, n, v), n) = {k}
    <3> HIDE DEF k
    <3> QED
      BY <1>1, <1>2, <1>3, <1>4, <1>5, <1>6 DEF Holders
  <2> QED
    BY <1>6, <2>1
<1>7. CASE m # n
  <2>1. Holders(Set(c, n, v), m) = Holders(c, m)
    BY <1>2, <1>3, <1>7 DEF Holders
  <2> QED
    BY <1>7, <2>1
<1> QED
  BY <1>6, <1>7

(* A fresh scope holds nothing.                                            *)
LEMMA EnterShape ==
    ASSUME NEW c \in Seq(Bindings)
    PROVE  /\ Enter(c) \in Seq(Bindings)
           /\ Len(Enter(c)) = Len(c) + 1
           /\ \A i \in 1..Len(c) : Enter(c)[i] = c[i]
           /\ \A n \in Names : Holders(Enter(c), n) = Holders(c, n)
<1>1. EmptyScope \in Bindings
  BY DEF EmptyScope, Bindings
<1>2. /\ Enter(c) \in Seq(Bindings)
      /\ Len(Enter(c)) = Len(c) + 1
      /\ \A i \in 1..Len(c) : Enter(c)[i] = c[i]
      /\ Enter(c)[Len(c) + 1] = EmptyScope
  BY <1>1 DEF Enter
<1>3. ASSUME NEW n \in Names PROVE Holders(Enter(c), n) = Holders(c, n)
  <2>1. EmptyScope[n] = Absent
    BY DEF EmptyScope
  <2>2. Len(c) \in Nat
    OBVIOUS
  <2> QED
    BY <1>2, <2>1, <2>2 DEF Holders
<1> QED
  BY <1>2, <1>3

(* Leaving a block drops the innermost scope and nothing else.             *)
LEMMA LeaveShape ==
    ASSUME NEW c \in Seq(Bindings), Len(c) > 1
    PROVE  /\ Leave(c) \in Seq(Bindings)
           /\ Len(Leave(c)) = Len(c) - 1
           /\ \A i \in 1..(Len(c) - 1) : Leave(c)[i] = c[i]
           /\ \A n \in Names : Holders(Leave(c), n) = Holders(c, n) \ {Len(c)}
<1>1. /\ Leave(c) \in Seq(Bindings)
      /\ Len(Leave(c)) = Len(c) - 1
      /\ \A i \in 1..(Len(c) - 1) : Leave(c)[i] = c[i]
  BY DEF Leave
<1>2. ASSUME NEW n \in Names
      PROVE  Holders(Leave(c), n) = Holders(c, n) \ {Len(c)}
  <2>1. Len(c) \in Nat
    OBVIOUS
  <2> QED
    BY <1>1, <2>1 DEF Holders
<1> QED
  BY <1>1, <1>2

----------------------------------------------------------------------------
(* The inductive invariant.                                                *)
LEMMA InitScopeInv == Init => ScopeInv
<1> SUFFICES ASSUME Init PROVE ScopeInv
  OBVIOUS
<1>1. EmptyScope \in Bindings
  BY DEF EmptyScope, Bindings
<1>2. TypeOK
  BY <1>1 DEF Init, TypeOK
<1>3. SingleBinding
  BY DEF Init, SingleBinding, Holders
<1>4. RootStaysEmpty
  BY DEF Init, RootStaysEmpty
<1> QED
  BY <1>2, <1>3, <1>4 DEF ScopeInv

LEMMA StepScopeInv == ScopeInv /\ [Next]_chain => ScopeInv'
<1> SUFFICES ASSUME ScopeInv, [Next]_chain PROVE ScopeInv'
  OBVIOUS
<1>0. /\ chain \in Seq(Bindings)
      /\ Len(chain) > 0
      /\ OneHolder(chain)
      /\ chain[1] = EmptyScope
  BY DEF ScopeInv, TypeOK, SingleBinding, RootStaysEmpty, OneHolder
<1>1. CASE EnterBlock
  <2>1. /\ chain' \in Seq(Bindings)
        /\ Len(chain') = Len(chain) + 1
        /\ \A i \in 1..Len(chain) : chain'[i] = chain[i]
        /\ \A n \in Names : Holders(chain', n) = Holders(chain, n)
    BY <1>0, <1>1, EnterShape DEF EnterBlock
  <2>2. TypeOK'
    BY <1>0, <2>1 DEF TypeOK
  <2>3. SingleBinding'
    BY <1>0, <2>1 DEF SingleBinding, OneHolder
  <2>4. RootStaysEmpty'
    BY <1>0, <2>1 DEF RootStaysEmpty
  <2> QED
    BY <2>2, <2>3, <2>4 DEF ScopeInv
<1>2. CASE LeaveBlock
  <2>1. /\ Len(chain) > 1
        /\ chain' \in Seq(Bindings)
        /\ Len(chain') = Len(chain) - 1
        /\ \A i \in 1..(Len(chain) - 1) : chain'[i] = chain[i]
        /\ \A n \in Names : Holders(chain', n) \subseteq Holders(chain, n)
    BY <1>0, <1>2, LeaveShape DEF LeaveBlock
  <2>2. TypeOK'
    BY <1>0, <2>1 DEF TypeOK
  <2>3. SingleBinding'
    BY <1>0, <2>1 DEF SingleBinding, OneHolder
  <2>4. RootStaysEmpty'
    BY <1>0, <2>1 DEF RootStaysEmpty
  <2> QED
    BY <2>2, <2>3, <2>4 DEF ScopeInv
<1>3. CASE \E n \in Names, v \in Values : Assign(n, v)
  <2>1. PICK n \in Names, v \in Values : Assign(n, v)
    BY <1>3
  <2>2. Len(chain) > 1 /\ chain' = Set(chain, n, v)
    BY <2>1 DEF Assign
  <2>3. TypeOK'
    BY <1>0, <2>2, SetShape DEF TypeOK
  <2>4. SingleBinding'
    <3> SUFFICES ASSUME NEW m \in Names, NEW i \in Holders(chain', m),
                        NEW j \in Holders(chain', m)
                 PROVE  i = j
      BY DEF SingleBinding
    <3>1. CASE m = n
      <4>1. Holders(chain', m) = {SetIndex(chain, n)}
        BY <1>0, <2>2, <3>1, SetHolders
      <4> QED
        BY <4>1
    <3>2. CASE m # n
      <4>1. Holders(chain', m) = Holders(chain, m)
        BY <1>0, <2>2, <3>2, SetHolders
      <4> QED
        BY <1>0, <4>1 DEF OneHolder
    <3> QED
      BY <3>1, <3>2
  <2>5. RootStaysEmpty'
    <3>1. SetIndex(chain, n) # 1
      <4>1. CASE Holders(chain, n) = {}
        <5>1. SetIndex(chain, n) = Len(chain)
          BY <4>1 DEF SetIndex
        <5>2. Len(chain) \in Nat
          BY <1>0
        <5> QED
          BY <2>2, <5>1, <5>2
      <4>2. CASE Holders(chain, n) # {}
        <5>1. PICK i \in Holders(chain, n) : TRUE
          BY <4>2
        <5>2. Nearest(chain, n) = i
          BY <1>0, <5>1, NearestIsTheHolder
        <5>3. 1 \notin Holders(chain, n)
          <6>1. chain[1][n] = Absent
            BY <1>0 DEF EmptyScope
          <6> QED
            BY <6>1 DEF Holders
        <5> QED
          BY <4>2, <5>1, <5>2, <5>3 DEF SetIndex, Holders
      <4> QED
        BY <4>1, <4>2
    <3>2. \A m \in Names : chain'[1][m] = chain[1][m]
      BY <1>0, <2>2, <3>1, SetShape
    <3>3. chain'[1] \in Bindings
      BY <1>0, <2>2, SetShape
    <3> QED
      BY <1>0, <3>2, <3>3 DEF RootStaysEmpty, EmptyScope, Bindings
  <2> QED
    BY <2>3, <2>4, <2>5 DEF ScopeInv
<1>4. CASE UNCHANGED chain
  BY <1>4 DEF ScopeInv, TypeOK, SingleBinding, RootStaysEmpty
<1> QED
  BY <1>1, <1>2, <1>3, <1>4 DEF Next

(* Every reachable chain satisfies the inductive invariant.                *)
THEOREM ScopeInvariant == Spec => []ScopeInv
<1>1. Init => ScopeInv
  BY InitScopeInv
<1>2. ScopeInv /\ [Next]_chain => ScopeInv'
  BY StepScopeInv
<1> QED
  BY <1>1, <1>2, PTL DEF Spec

(* The chain is always a nonempty sequence of scopes.                      *)
THEOREM ScopeTypeCorrect == Spec => []TypeOK
<1>1. ScopeInv => TypeOK
  BY DEF ScopeInv
<1> QED
  BY <1>1, ScopeInvariant, PTL

(* No name is ever bound in two live scopes: there is no shadowing.        *)
THEOREM NoShadowing == Spec => []SingleBinding
<1>1. ScopeInv => SingleBinding
  BY DEF ScopeInv
<1> QED
  BY <1>1, ScopeInvariant, PTL

(* The root scope that Interpret creates never receives a binding.         *)
THEOREM RootScopeUnused == Spec => []RootStaysEmpty
<1>1. ScopeInv => RootStaysEmpty
  BY DEF ScopeInv
<1> QED
  BY <1>1, ScopeInvariant, PTL

----------------------------------------------------------------------------
(* The action property.                                                    *)
LEMMA StepEnclosingNames ==
    ASSUME ScopeInv, [Next]_chain
    PROVE  [\A i \in 1..Len(chain) :
                i < Len(chain) /\ i <= Len(chain')
                    => BoundNames(chain'[i]) = BoundNames(chain[i])]_chain
<1> SUFFICES ASSUME Next, NEW i \in 1..Len(chain),
                    i < Len(chain), i <= Len(chain')
             PROVE  BoundNames(chain'[i]) = BoundNames(chain[i])
  OBVIOUS
<1>0. /\ chain \in Seq(Bindings)
      /\ Len(chain) > 0
      /\ OneHolder(chain)
  BY DEF ScopeInv, TypeOK, SingleBinding, OneHolder
<1>1. CASE EnterBlock
  BY <1>0, <1>1, EnterShape DEF EnterBlock
<1>2. CASE LeaveBlock
  BY <1>0, <1>2, LeaveShape DEF LeaveBlock
<1>3. CASE \E n \in Names, v \in Values : Assign(n, v)
  <2>1. PICK n \in Names, v \in Values : Assign(n, v)
    BY <1>3
  <2>2. chain' = Set(chain, n, v)
    BY <2>1 DEF Assign
  <2>3. ASSUME NEW m \in Names
        PROVE  chain'[i][m] # Absent <=> chain[i][m] # Absent
    <3>1. chain'[i][m] = IF i = SetIndex(chain, n) /\ m = n
                         THEN v ELSE chain[i][m]
      BY <1>0, <2>2, SetShape
    <3>2. CASE i = SetIndex(chain, n) /\ m = n
      <4>1. Holders(chain, n) # {}
        <5>1. SetIndex(chain, n) # Len(chain)
          BY <3>2
        <5> QED
          BY <5>1 DEF SetIndex
      <4>2. PICK j \in Holders(chain, n) : TRUE
        BY <4>1
      <4>3. i = j
        BY <1>0, <3>2, <4>1, <4>2, NearestIsTheHolder DEF SetIndex
      <4>4. chain[i][m] # Absent
        BY <3>2, <4>2, <4>3 DEF Holders
      <4> QED
        BY <3>1, <3>2, <4>4, AbsentAssumption
    <3>3. CASE ~(i = SetIndex(chain, n) /\ m = n)
      BY <3>1, <3>3
    <3> QED
      BY <3>2, <3>3
  <2> QED
    BY <2>3 DEF BoundNames
<1> QED
  BY <1>1, <1>2, <1>3 DEF Next

(* What happens inside a block never adds a name to an enclosing scope and *)
(* never takes one away.                                                   *)
THEOREM EnclosingScopesKeepTheirNames == Spec => EnclosingNamesStable
<1>1. ScopeInv /\ [Next]_chain
        => [\A i \in 1..Len(chain) :
                i < Len(chain) /\ i <= Len(chain')
                    => BoundNames(chain'[i]) = BoundNames(chain[i])]_chain
  BY StepEnclosingNames
<1> QED
  BY <1>1, ScopeInvariant, PTL DEF Spec, EnclosingNamesStable

----------------------------------------------------------------------------
(* Refinement.                                                             *)
OwnerOf(c, n) == IF Holders(c, n) = {} THEN 0 ELSE Nearest(c, n)

(* An assignment is seen by every later read of the name, from whichever   *)
(* scope, and by no read of another name.                                  *)
LEMMA GetAfterSet ==
    ASSUME NEW c \in Seq(Bindings), Len(c) > 0, OneHolder(c),
           NEW n \in Names, NEW v \in Values, NEW m \in Names
    PROVE  /\ Get(Set(c, n, v), m) = IF m = n THEN v ELSE Get(c, m)
           /\ OwnerOf(Set(c, n, v), m) =
                  IF m = n THEN SetIndex(c, n) ELSE OwnerOf(c, m)
<1> DEFINE d == Set(c, n, v)
           k == SetIndex(c, n)
<1>1. Holders(d, m) = IF m = n THEN {k} ELSE Holders(c, m)
  BY SetHolders
<1>2. \A i \in 1..Len(c) :
          d[i][m] = IF i = k /\ m = n THEN v ELSE c[i][m]
  BY SetShape
<1>3. k \in 1..Len(c)
  BY SetIndexInChain
<1>4. k <= k
  BY <1>3
<1> HIDE DEF d, k
<1>5. CASE m = n
  <2>1. Nearest(d, m) = k
    BY <1>1, <1>4, <1>5 DEF Nearest
  <2> QED
    BY <1>1, <1>2, <1>3, <1>5, <2>1 DEF Get, OwnerOf, d, k
<1>6. CASE m # n
  <2>1. Holders(d, m) = Holders(c, m)
    BY <1>1, <1>6
  <2>2. Nearest(d, m) = Nearest(c, m)
    BY <2>1 DEF Nearest
  <2>3. CASE Holders(c, m) = {}
    BY <1>6, <2>1, <2>3 DEF Get, OwnerOf, d, k
  <2>4. CASE Holders(c, m) # {}
    <3>1. PICK i \in Holders(c, m) : TRUE
      BY <2>4
    <3>2. Nearest(c, m) = i
      BY <3>1, NearestIsTheHolder
    <3>3. i \in 1..Len(c)
      BY <3>1 DEF Holders
    <3>4. d[i][m] = c[i][m]
      BY <1>2, <1>6, <3>3
    <3> QED
      BY <1>6, <2>1, <2>2, <2>4, <3>2, <3>4 DEF Get, OwnerOf, d, k
  <2> QED
    BY <2>3, <2>4
<1> QED
  BY <1>5, <1>6 DEF d, k

(* Entering a block changes what no name means.                            *)
LEMMA GetAfterEnter ==
    ASSUME NEW c \in Seq(Bindings), OneHolder(c), NEW m \in Names
    PROVE  /\ Get(Enter(c), m) = Get(c, m)
           /\ OwnerOf(Enter(c), m) = OwnerOf(c, m)
<1>1. Holders(Enter(c), m) = Holders(c, m)
  BY EnterShape
<1>2. Nearest(Enter(c), m) = Nearest(c, m)
  BY <1>1 DEF Nearest
<1>3. CASE Holders(c, m) = {}
  BY <1>1, <1>3 DEF Get, OwnerOf
<1>4. CASE Holders(c, m) # {}
  <2>1. PICK i \in Holders(c, m) : TRUE
    BY <1>4
  <2>2. Nearest(c, m) = i
    BY <2>1, NearestIsTheHolder
  <2>3. Enter(c)[i] = c[i]
    <3>1. i \in 1..Len(c)
      BY <2>1 DEF Holders
    <3> QED
      BY <3>1, EnterShape
  <2> QED
    BY <1>1, <1>2, <1>4, <2>2, <2>3 DEF Get, OwnerOf
<1> QED
  BY <1>3, <1>4

(* Leaving a block unbinds the names that block owned and no other.        *)
LEMMA GetAfterLeave ==
    ASSUME NEW c \in Seq(Bindings), Len(c) > 1, OneHolder(c), NEW m \in Names
    PROVE  /\ Get(Leave(c), m) =
                  IF OwnerOf(c, m) = Len(c) THEN Absent ELSE Get(c, m)
           /\ OwnerOf(Leave(c), m) =
                  IF OwnerOf(c, m) = Len(c) THEN 0 ELSE OwnerOf(c, m)
<1>1. Holders(Leave(c), m) = Holders(c, m) \ {Len(c)}
  BY LeaveShape
<1>2. Len(c) \in Nat
  OBVIOUS
<1>3. CASE Holders(c, m) = {}
  <2>1. Holders(Leave(c), m) = {}
    BY <1>1, <1>3
  <2>2. Len(c) # 0
    BY <1>2
  <2> QED
    BY <1>3, <2>1, <2>2 DEF Get, OwnerOf
<1>4. CASE Holders(c, m) # {}
  <2>1. PICK i \in Holders(c, m) : TRUE
    BY <1>4
  <2>2. Nearest(c, m) = i /\ Holders(c, m) = {i} /\ i \in 1..Len(c)
    BY <2>1, NearestIsTheHolder DEF OneHolder, Holders
  <2>3. OwnerOf(c, m) = i
    BY <1>4, <2>2 DEF OwnerOf
  <2>4. CASE i = Len(c)
    <3>1. Holders(Leave(c), m) = {}
      BY <1>1, <2>2, <2>4
    <3> QED
      BY <2>3, <2>4, <3>1 DEF Get, OwnerOf
  <2>5. CASE i # Len(c)
    <3>1. Holders(Leave(c), m) = Holders(c, m)
      BY <1>1, <2>2, <2>5
    <3>2. Nearest(Leave(c), m) = i
      BY <2>2, <3>1 DEF Nearest
    <3>3. i \in 1..(Len(c) - 1)
      BY <1>2, <2>2, <2>5
    <3>4. Leave(c)[i] = c[i]
      BY <3>3, LeaveShape
    <3> QED
      BY <1>4, <2>2, <2>3, <2>5, <3>1, <3>2, <3>4 DEF Get, OwnerOf
  <2> QED
    BY <2>4, <2>5
<1> QED
  BY <1>3, <1>4

LEMMA InitRefines == Init => Flat!FlatInit
<1> SUFFICES ASSUME Init PROVE Flat!FlatInit
  OBVIOUS
<1>1. Len(chain) = 1 /\ \A n \in Names : Holders(chain, n) = {}
  BY DEF Init, Holders, EmptyScope
<1>2. StoreView = [n \in Names |-> Absent]
  BY <1>1 DEF StoreView, Get
<1>3. OwnerView = [n \in Names |-> 0]
  BY <1>1 DEF OwnerView
<1> QED
  BY <1>1, <1>2, <1>3 DEF Flat!FlatInit

LEMMA StepRefines == ScopeInv /\ [Next]_chain => [Flat!FlatNext]_(Flat!flatVars)
<1> SUFFICES ASSUME ScopeInv, [Next]_chain
             PROVE  [Flat!FlatNext]_(Flat!flatVars)
  OBVIOUS
<1>0. /\ chain \in Seq(Bindings)
      /\ Len(chain) > 0
      /\ OneHolder(chain)
  BY DEF ScopeInv, TypeOK, SingleBinding, OneHolder
<1>1. /\ StoreView = [m \in Names |-> Get(chain, m)]
      /\ OwnerView = [m \in Names |-> OwnerOf(chain, m)]
      /\ StoreView' = [m \in Names |-> Get(chain', m)]
      /\ OwnerView' = [m \in Names |-> OwnerOf(chain', m)]
  BY DEF StoreView, OwnerView, OwnerOf
<1>2. CASE EnterBlock
  <2>1. chain' = Enter(chain) /\ Len(chain') = Len(chain) + 1
    BY <1>0, <1>2, EnterShape DEF EnterBlock
  <2>2. StoreView' = StoreView /\ OwnerView' = OwnerView
    BY <1>0, <1>1, <2>1, GetAfterEnter
  <2>3. Flat!FlatEnter
    BY <2>1, <2>2 DEF Flat!FlatEnter
  <2> QED
    BY <2>3 DEF Flat!FlatNext
<1>3. CASE LeaveBlock
  <2>1. Len(chain) > 1 /\ chain' = Leave(chain) /\ Len(chain') = Len(chain) - 1
    BY <1>0, <1>3, LeaveShape DEF LeaveBlock
  <2>2. StoreView' = [m \in Names |-> IF OwnerView[m] = Len(chain)
                                       THEN Absent ELSE StoreView[m]]
    BY <1>0, <1>1, <2>1, GetAfterLeave
  <2>3. OwnerView' = [m \in Names |-> IF OwnerView[m] = Len(chain)
                                       THEN 0 ELSE OwnerView[m]]
    BY <1>0, <1>1, <2>1, GetAfterLeave
  <2>4. Flat!FlatLeave
    BY <2>1, <2>2, <2>3 DEF Flat!FlatLeave
  <2> QED
    BY <2>4 DEF Flat!FlatNext
<1>4. CASE \E n \in Names, v \in Values : Assign(n, v)
  <2>1. PICK n \in Names, v \in Values : Assign(n, v)
    BY <1>4
  <2>2. Len(chain) > 1 /\ chain' = Set(chain, n, v) /\ Len(chain') = Len(chain)
    BY <1>0, <2>1, SetShape DEF Assign
  <2>3. \A m \in Names :
          /\ Get(chain', m) = IF m = n THEN v ELSE Get(chain, m)
          /\ OwnerOf(chain', m) = IF m = n THEN SetIndex(chain, n)
                                           ELSE OwnerOf(chain, m)
    BY <1>0, <2>2, GetAfterSet
  <2>4. SetIndex(chain, n) = IF Get(chain, n) = Absent
                             THEN Len(chain) ELSE OwnerOf(chain, n)
    <3>1. CASE Holders(chain, n) = {}
      BY <3>1 DEF Get, SetIndex
    <3>2. CASE Holders(chain, n) # {}
      <4>1. PICK i \in Holders(chain, n) : TRUE
        BY <3>2
      <4>2. Nearest(chain, n) = i
        BY <1>0, <4>1, NearestIsTheHolder
      <4>3. chain[i][n] # Absent
        BY <4>1 DEF Holders
      <4> QED
        BY <3>2, <4>2, <4>3 DEF Get, SetIndex, OwnerOf
    <3> QED
      BY <3>1, <3>2
  <2>5. StoreView' = [StoreView EXCEPT ![n] = v]
    BY <1>1, <2>3
  <2>6. OwnerView' = [OwnerView EXCEPT ![n] = IF StoreView[n] = Absent
                                              THEN Len(chain) ELSE @]
    BY <1>1, <2>3, <2>4
  <2>7. Flat!FlatWrite(n, v)
    BY <2>2, <2>5, <2>6 DEF Flat!FlatWrite
  <2> QED
    BY <2>7 DEF Flat!FlatNext
<1>5. CASE UNCHANGED chain
  BY <1>5 DEF Flat!flatVars, StoreView, OwnerView, Get, Holders, Nearest
<1> QED
  BY <1>2, <1>3, <1>4, <1>5 DEF Next

(* The chain of scopes implements the flat store: seen through Get, a name *)
(* is one variable owned by the block that assigned it first.              *)
THEOREM ScopeChainImplementsFlatStore == Spec => ImplementsFlatStore
<1>1. Init => Flat!FlatInit
  BY InitRefines
<1>2. ScopeInv /\ [Next]_chain => [Flat!FlatNext]_(Flat!flatVars)
  BY StepRefines
<1> QED
  BY <1>1, <1>2, ScopeInvariant, PTL DEF Spec, ImplementsFlatStore, Flat!FlatSpec
====
