---- MODULE LualikeScopeChain ----
(***************************************************************************)
(* The scope chain as a state machine: every sequence of scope operations  *)
(* that the interpreter could perform, whatever the program.  The flat     *)
(* store (FlatStore) is what it has to look like from outside.             *)
(***************************************************************************)
EXTENDS LualikeScope

VARIABLE chain

Init == chain = <<EmptyScope>>

(* VisitBlock, on the way in.                                              *)
EnterBlock == chain' = Enter(chain)

(* VisitBlock, on the way out: by running out of statements, by a return   *)
(* value or by an exception.                                               *)
LeaveBlock ==
    /\ Len(chain) > 1
    /\ chain' = Leave(chain)

(* A declaration or assignment.  Every statement runs under some           *)
(* VisitBlock, so the scope Set is called on is never the root.            *)
Assign(n, v) ==
    /\ Len(chain) > 1
    /\ chain' = Set(chain, n, v)

Next ==
    \/ EnterBlock
    \/ LeaveBlock
    \/ \E n \in Names, v \in Values : Assign(n, v)

Spec == Init /\ [][Next]_chain

----------------------------------------------------------------------------
(* The chain is a nonempty sequence of scopes.                             *)
TypeOK == chain \in Seq(Bindings) /\ Len(chain) > 0

(* Shadowing is impossible: Set searches the whole chain before it makes   *)
(* an entry, so at most one live scope has an entry for a given name.      *)
SingleBinding ==
    \A n \in Names : \A i, j \in Holders(chain, n) : i = j

(* The scope Interpret creates stays empty: no variable outlives the       *)
(* outermost block, whatever the program assigned.                         *)
RootStaysEmpty == chain[1] = EmptyScope

(* While a block is open, what happens inside it can change the values of  *)
(* the enclosing scopes' variables but neither add a name to an enclosing  *)
(* scope nor take one away.                                                *)
BoundNames(scope) == {n \in Names : scope[n] # Absent}

EnclosingNamesStable ==
    [][\A i \in 1..Len(chain) :
           i < Len(chain) /\ i <= Len(chain')
               => BoundNames(chain'[i]) = BoundNames(chain[i])]_chain

(* The chain implements the flat store.                                    *)
StoreView == [n \in Names |-> Get(chain, n)]
OwnerView ==
    [n \in Names |-> IF Holders(chain, n) = {} THEN 0 ELSE Nearest(chain, n)]

Flat == INSTANCE FlatStore
            WITH store <- StoreView, owner <- OwnerView, depth <- Len(chain)

ImplementsFlatStore == Flat!FlatSpec
====
