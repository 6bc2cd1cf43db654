---- MODULE MCLualikeLexer ----
(***************************************************************************)
(* Every text of up to MaxShort characters that stand for the classes the  *)
(* lexer tells apart, and longer texts put together from three pieces, of  *)
(* one token, a blank or a comment each.                                   *)
(***************************************************************************)
EXTENDS LualikeLexer, TLC

CONSTANT MaxShort     \* the longest of the short texts

MCAlphabetic == {"i", "f", "x"}
MCNumeric == {"1"}
MCSpaces == {" ", "\n"}
MCOthers == {"?"}
MCKeywords == <<"i", "f">> :> "if"

Chars == {"i", "f", "1", ".", " ", "\n", "-", "'", "=", "/", "~", "?"}
ShortTexts == UNION {[1..n -> Chars] : n \in 0..MaxShort}

Pieces == {<<"i", "f">>, <<"x", "1">>, <<"1", ",", "1">>, <<".">>, <<"'", "-", "'">>,
           <<"\"", "'", "\"">>, <<"-", "-", "x">>, <<"<", "=">>, <<"\n">>, <<"_">>}

Flatten3(p) == p[1] \o p[2] \o p[3]
LongTexts == {Flatten3(p) : p \in [1..3 -> Pieces]}
MCTexts == ShortTexts \cup LongTexts
====
