---- MODULE MCLualikeParserExpressions ----
(***************************************************************************)
(* `return` followed by every sequence of up to MaxTokens tokens: all      *)
(* short expressions, right or wrong, with one operator per kind of        *)
(* associativity and precedence that the parser tells apart.  Then longer  *)
(* ones that are right: three operators between operands that may have a   *)
(* unary minus.                                                            *)
(***************************************************************************)
EXTENDS LualikeGrammar, SequencesExt

CONSTANT MaxTokens

Tokens == {"Int", "-", "*", "^", "(", ")"}

Short == BoundedSeq(Tokens, MaxTokens)

Operators == {<<"<">>, <<"-">>, <<"*">>, <<"^">>}
OperandPhrases == {<<"Name">>, <<"-", "Int">>}

Chains ==
    {a \o o \o b \o p \o c \o q \o d :
        a, b, c, d \in OperandPhrases, o, p, q \in Operators}

ReturnOf == {<<"return">> \o s : s \in Short \cup Chains}
MCSources == ReturnOf
====
