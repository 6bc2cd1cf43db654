---- MODULE LualikeScope ----
(***************************************************************************)
(* The chain of class Scope (interpreter.h): names_ maps names to values,  *)
(* parent_scope_ points at the enclosing scope.  Scopes are shared through *)
(* shared_ptr, but nothing keeps one beyond the VisitBlock that made it,   *)
(* so the live scopes form a stack.  It is written here as a sequence: the *)
(* root scope made by Interpret first, the innermost scope last.  This     *)
(* module has operators only; LualikeScopeChain and LualikeInterpreter use *)
(* them as actions.                                                        *)
(***************************************************************************)
EXTENDS Naturals, Sequences

CONSTANTS
    Names,      \* identifiers of the interpreted program
    Values,     \* values a name can be bound to
    Absent      \* "this scope has no entry for the name"

ASSUME AbsentAssumption == Absent \notin Values

(* names_ of one scope.                                                    *)
Bindings == [Names -> Values \cup {Absent}]

(* A freshly constructed Scope.                                            *)
EmptyScope == [n \in Names |-> Absent]

(* The scopes of the chain with an entry for n.                            *)
Holders(chain, n) == {i \in 1..Len(chain) : chain[i][n] # Absent}

(* Get and Set climb from the innermost scope to the root and stop at the  *)
(* first scope with an entry for the name.                                 *)
Nearest(chain, n) ==
    CHOOSE i \in Holders(chain, n) : \A j \in Holders(chain, n) : j <= i

(* Faulty lookup: only the innermost scope is consulted.                   *)
FaultyGet(chain, n) == chain[Len(chain)][n]

(* Scope::Get called on the innermost scope; Absent is nullopt.            *)
Get(chain, n) ==
    IF Holders(chain, n) = {} THEN Absent ELSE chain[Nearest(chain, n)][n]

(* Faulty choices of the scope to write to: without looking at the parents; *)
(* a new name made global, as Lua does; a new name made in the parent.      *)
FaultyIndexInnermost(chain, n) == Len(chain)
FaultyIndexRoot(chain, n) ==
    IF Holders(chain, n) = {} THEN 1 ELSE Nearest(chain, n)
FaultyIndexParent(chain, n) ==
    IF Holders(chain, n) = {} THEN Len(chain) - 1 ELSE Nearest(chain, n)

(* The scope Set writes to: the nearest one that has the name, else the    *)
(* innermost one.                                                          *)
SetIndex(chain, n) ==
    IF Holders(chain, n) = {} THEN Len(chain) ELSE Nearest(chain, n)

(* Scope::Set called on the innermost scope.                               *)
Set(chain, n, v) == [chain EXCEPT ![SetIndex(chain, n)][n] = v]

(* VisitBlock makes an inner scope ...                                     *)
Enter(chain) == Append(chain, EmptyScope)

(* Faulty exit: the enclosing scope goes too.                              *)
FaultyLeaveTwo(chain) == SubSeq(chain, 1, Len(chain) - 2)

(* ... and drops it, with its entries, when it returns or unwinds.         *)
Leave(chain) == SubSeq(chain, 1, Len(chain) - 1)
====
