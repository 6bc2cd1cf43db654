---- MODULE MCLualikeRendering ----
(***************************************************************************)
(* Every text of up to MaxText characters, spans that end and begin before *)
(* and behind its end, and chains of two.                                  *)
(***************************************************************************)
EXTENDS LualikeRendering

CONSTANT MaxText
MCCharacters == {"x", "\n"}
MCTexts == UNION {[1..n -> MCCharacters] : n \in 0..MaxText}
MCOffsets == 0..(MaxText + 1)
MCMessages == {"m1", "m2"}
MCCallStacks == {<<>>, <<"f", "g">>}
MCForeigns == {<<>>, <<"std::bad_alloc">>}
====
