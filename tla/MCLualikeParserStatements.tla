---- MODULE MCLualikeParserStatements ----
(***************************************************************************)
(* Every sequence of up to MaxPhrases phrases.  A phrase is a token, or    *)
(* some that have little of interest between them, so that short sequences *)
(* reach nested ifs, statements that run into each other, a block cut off  *)
(* anywhere, and the lexer's error one token ahead of the parser.          *)
(***************************************************************************)
EXTENDS LualikeGrammar, SequencesExt

CONSTANT MaxPhrases

Phrases == {
    <<"Name">>, <<"Name", "=", "Int">>, <<"local", "Name">>, <<"Int">>,
    <<"return">>, <<";">>, <<"if", "Int">>, <<"if", "Int", "then">>,
    <<"then">>, <<"else">>, <<"end">>, <<"-">>, <<"(">>, <<"Bad">>, <<"HugeInt">> }

PhraseSequences == {FlattenSeq(s) : s \in BoundedSeq(Phrases, MaxPhrases)}
MCSources == PhraseSequences
====
