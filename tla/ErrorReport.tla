---- MODULE ErrorReport ----
(***************************************************************************)
(* What an Error promises, without its cache: an object is a chain and a   *)
(* source text, and what() tells the whole chain as it is at the call, or, *)
(* when memory is short, its first message alone.                          *)
(***************************************************************************)
EXTENDS LualikeErrorChain

CONSTANTS Handles, Nodes, SourceTexts, MaxChain
VARIABLES
    reports,    \* the objects: a sequence of at most one for each handle
    told        \* what the last call of what() returned

vars == <<reports, told>>

Report(chain, text) == <<[chain |-> chain, text |-> text]>>
Nothing == Report(<<>>, <<>>)

Init == reports = [h \in Handles |-> <<>>] /\ told = <<>>

New(h, report) == reports' = [reports EXCEPT ![h] = report] /\ UNCHANGED told

Create(h) ==
    /\ reports[h] = <<>>
    /\ \E n \in Nodes : New(h, Report(<<n>>, <<>>))

Wrap(h) ==
    /\ reports[h] # <<>> /\ Len(reports[h][1].chain) < MaxChain
    /\ \E n \in Nodes :
           /\ n.foreign = <<>>
           /\ New(h, Report(<<n>> \o reports[h][1].chain, reports[h][1].text))

(* The first text given is the one that stays.                             *)
AttachSourceText(h) ==
    /\ reports[h] # <<>>
    /\ \E t \in SourceTexts :
           New(h, Report(reports[h][1].chain,
                         IF reports[h][1].text = <<>> THEN t ELSE reports[h][1].text))

(* Construction and assignment, by copy and by move.                       *)
Copy(g, h) == reports[g] # <<>> /\ New(h, reports[g])

Move(g, h) ==
    /\ g # h /\ reports[g] # <<>>
    /\ reports' = [reports EXCEPT ![h] = reports[g], ![g] = Nothing]
    /\ UNCHANGED told

Destroy(h) == reports[h] # <<>> /\ New(h, <<>>)

Tell(h, texts) == told' = texts /\ UNCHANGED reports

What(h) == reports[h] # <<>> /\ Tell(h, BuildWhat(reports[h][1].chain))

WhatWithoutMemory(h) ==
    /\ reports[h] # <<>>
    /\ Tell(h, IF reports[h][1].chain = <<>> THEN <<"unknown error">>
               ELSE <<reports[h][1].chain[1].message>>)

Next ==
    \/ \E h \in Handles :
           \/ Create(h) \/ Wrap(h) \/ AttachSourceText(h) \/ Destroy(h)
           \/ What(h) \/ WhatWithoutMemory(h)
    \/ \E g, h \in Handles : Copy(g, h) \/ Move(g, h)

Spec == Init /\ [][Next]_vars
====
