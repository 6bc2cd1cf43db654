---- MODULE MCLualikeUpdates ----
(***************************************************************************)
(* Two variables, so that operands and result can be the same or differ,   *)
(* with every pair of values of small number types.                        *)
(***************************************************************************)
EXTENDS LualikeUpdates

CONSTANTS x, y
MCVars == {x, y}

T == INSTANCE TLC
MCSymmetry == T!Permutations(MCVars)
====
