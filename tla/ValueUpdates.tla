---- MODULE ValueUpdates ----
(***************************************************************************)
(* What binary operators promise to C++ code that holds values in          *)
(* variables: an operation takes effect at once or, if it throws, not at   *)
(* all, whichever variables its operands and its result share.             *)
(***************************************************************************)
CONSTANTS
    Vars,
    Values,
    Thrown,                 \* the results that stand for an exception
    Ops,
    ResultsOf(_, _, _)      \* what an operator may make of two values

VARIABLES
    held,       \* the value of each variable
    raised      \* what the last operation threw: at most one kind

vars == <<held, raised>>

Init == held \in [Vars -> Values] /\ raised = <<>>

(* z = x op y; x op= y is the case z = x.                                  *)
Operate(op, x, y, z) ==
    \E o \in ResultsOf(op, held[x], held[y]) :
        IF o \in Thrown THEN raised' = <<o[2]>> /\ UNCHANGED held
        ELSE raised' = <<>> /\ held' = [held EXCEPT ![z] = o]

Next == \E op \in Ops, x, y, z \in Vars : Operate(op, x, y, z)

Spec == Init /\ [][Next]_vars
====
