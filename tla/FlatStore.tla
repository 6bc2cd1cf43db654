---- MODULE FlatStore ----
(***************************************************************************)
(* What the chain of scopes promises to the interpreter: every name is ONE *)
(* variable.  It belongs to the block that assigned it first, every block  *)
(* inside that one reads and writes the same variable, and it disappears   *)
(* when its block is left.  There is no shadowing, so no chain to search.  *)
(***************************************************************************)
EXTENDS Naturals

CONSTANTS Names, Values, Absent

VARIABLES
    store,      \* the value of each name, or Absent
    owner,      \* the depth of the block a bound name belongs to, else 0
    depth       \* the nesting depth; 1 is the root, which owns nothing

flatVars == <<store, owner, depth>>

FlatInit ==
    /\ store = [n \in Names |-> Absent]
    /\ owner = [n \in Names |-> 0]
    /\ depth = 1

FlatEnter ==
    /\ depth' = depth + 1
    /\ UNCHANGED <<store, owner>>

FlatLeave ==
    /\ depth > 1
    /\ depth' = depth - 1
    /\ store' = [n \in Names |-> IF owner[n] = depth THEN Absent ELSE store[n]]
    /\ owner' = [n \in Names |-> IF owner[n] = depth THEN 0 ELSE owner[n]]

FlatWrite(n, v) ==
    /\ depth > 1
    /\ store' = [store EXCEPT ![n] = v]
    /\ owner' = [owner EXCEPT ![n] = IF store[n] = Absent THEN depth ELSE @]
    /\ UNCHANGED depth

FlatNext ==
    \/ FlatEnter
    \/ FlatLeave
    \/ \E n \in Names, v \in Values : FlatWrite(n, v)

FlatSpec == FlatInit /\ [][FlatNext]_flatVars
====
