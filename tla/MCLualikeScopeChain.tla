---- MODULE MCLualikeScopeChain ----
(***************************************************************************)
(* Small instance of LualikeScopeChain: names and values are model values, *)
(* and MaxDepth bounds the number of scopes alive at the same time.        *)
(***************************************************************************)
EXTENDS LualikeScopeChain

CONSTANTS x, y, v1, v2, MaxDepth

MCNames == {x, y}
MCValues == {v1, v2}

MCNext ==
    \/ Len(chain) < MaxDepth /\ EnterBlock
    \/ LeaveBlock
    \/ \E n \in Names, v \in Values : Assign(n, v)

MCSpec == Init /\ [][MCNext]_chain
====
