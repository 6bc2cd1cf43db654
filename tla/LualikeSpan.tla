---- MODULE LualikeSpan ----
(***************************************************************************)
(* token::SourceSpan (token.h): a half-open range of the source.           *)
(***************************************************************************)
EXTENDS Naturals

Span(b, e) == [begin |-> b, end |-> e]
Spans == [begin : Nat, end : Nat]

(* SourceSpan::empty                                                       *)
IsEmptySpan(s) == s.begin >= s.end

Smaller(a, b) == IF a <= b THEN a ELSE b
Larger(a, b) == IF a >= b THEN a ELSE b

(* Faulty: the result starts where the right-hand span does.               *)
FaultyMergeSourceSpans(lhs, rhs) == Span(rhs.begin, rhs.end)

(* The smallest span that covers both; an empty span covers nothing.       *)
MergeSourceSpans(lhs, rhs) ==
    IF IsEmptySpan(lhs) THEN rhs
    ELSE IF IsEmptySpan(rhs) THEN lhs
    ELSE Span(Smaller(lhs.begin, rhs.begin), Larger(lhs.end, rhs.end))
====
