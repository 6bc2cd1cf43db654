---- MODULE MCLualikeError ----
(***************************************************************************)
(* Two Errors, chains of up to two nodes, the leaf of some with a foreign  *)
(* exception, and two source texts.                                        *)
(***************************************************************************)
EXTENDS LualikeError

CONSTANTS e1, e2
MCHandles == {e1, e2}
Plain(message) == ContextError(message, <<>>, <<>>, <<>>)
MCNodes == {Plain("m1"), Plain("m2"),
            ContextError("m1", <<>>, <<>>, <<"std::bad_alloc">>)}
MCSourceTexts == {<<"a">>, <<"b">>, <<>>}
MCSymmetry == {[h \in MCHandles |-> h], [h \in MCHandles |-> IF h = e1 THEN e2 ELSE e1]}
====
