---- MODULE LualikeRendering ----
(***************************************************************************)
(* One Error on its way up: it is wrapped once for each function that adds *)
(* what it was doing, and may be rendered over a source text at any time.  *)
(***************************************************************************)
EXTENDS LualikeErrorChain

CONSTANTS
    Characters,     \* what source texts consist of
    Texts,          \* source texts
    MessageTexts,   \* messages
    Offsets,        \* the offsets spans are made of, some beyond the texts
    CallStacks, Foreigns,
    MaxChain        \* how often an Error is wrapped

ASSUME RenderingAssumption == Texts \subseteq Seq(Characters) /\ Offsets \subseteq Nat

VARIABLES text, chain
vars == <<text, chain>>

OptionalSpans == {<<>>} \cup {<<Span(b, e)>> : b \in Offsets, e \in Offsets}

(* Error::Message, Context and FromException.                              *)
Init ==
    /\ text \in Texts
    /\ \E m \in MessageTexts, s \in OptionalSpans, c \in CallStacks, f \in Foreigns :
           chain = <<ContextError(m, s, c, f)>>

Wrap ==
    /\ Len(chain) < MaxChain
    /\ \E m \in MessageTexts, s \in OptionalSpans, c \in CallStacks :
           chain' = <<ContextError(m, s, c, <<>>)>> \o chain
    /\ UNCHANGED text

Next == Wrap
Spec == Init /\ [][Next]_vars

----------------------------------------------------------------------------
(* The carets under a line mark the part of the span, cut to the text,     *)
(* that is on the line it begins on, and one place where there is none;    *)
(* the line is a whole line of the text.  A subtraction of offsets that    *)
(* went below zero would mark 2^64 places.                                 *)
CaretsMarkTheSpan ==
    \A i \in 1..Len(chain) : (IsSpanned(chain[i]) /\ text # <<>>) =>
        LET s == Clamp(chain[i].span[1], Len(text))
            r == RenderSpanSnippet(text, chain[i].span[1])
            lineBegin == s.begin - r.indent
            lineEnd == lineBegin + Len(r.line)
            onLine == {k \in s.begin..(s.end - 1) : k < lineEnd}
        IN  /\ lineBegin..(lineBegin + r.indent + r.carets - 1) \ lineBegin..(s.begin - 1)
                   = IF onLine = {} THEN {s.begin} ELSE onLine
            /\ s.begin \in lineBegin..lineEnd
            /\ r.line = SubSeq(text, lineBegin + 1, lineEnd)
            /\ LineBreaks(text, lineBegin, lineEnd) = {}
            /\ lineBegin = 0 \/ text[lineBegin] = "\n"
            /\ lineEnd = Len(text) \/ text[lineEnd + 1] = "\n"
            /\ r.number = 1 + Cardinality(LineBreaks(text, 0, lineBegin))

(* A snippet quotes the source: the text over the carets is the part of    *)
(* GetContext before its first line break.                                 *)
SnippetQuotesTheContext ==
    \A i \in 1..Len(chain) : GetContext(text, chain[i]) \notin {<<>>, <<<<>>>>} =>
        LET context == GetContext(text, chain[i])[1]
            r == RenderSpanSnippet(text, chain[i].span[1])
            quoted == SubSeq(r.line, r.indent + 1,
                             Smaller(r.indent + r.carets, Len(r.line)))
        IN  /\ IsPrefix(quoted, context)
            /\ quoted = context \/ context[Len(quoted) + 1] = "\n"

(* The lines a rendering holds, and how often it holds each.               *)
Says(r) == [i \in 1..Len(r.context) |-> r.context[i].says]
           \o [i \in 1..Len(r.lines) |-> r.lines[i].says]
SameLines(s, t) ==
    \A x \in Range(s) \cup Range(t) :
        Cardinality({i \in DOMAIN s : s[i] = x}) = Cardinality({i \in DOMAIN t : t[i] = x})

(* No message and no call stack is lost or said twice, whatever nodes have *)
(* spans, and the foreign exception of the leaf is reported by every text  *)
(* made of the chain.                                                      *)
RenderingsAreComplete ==
    LET lines == [i \in 1..Len(chain) |-> Line(chain[i])]
    IN  /\ SameLines(Says(RenderPretty(text, chain)), lines)
        /\ Says(RenderPlain(chain)) = lines
        /\ \A r \in {RenderPretty(text, chain), RenderPlain(chain)} :
               r.foreign = chain[Len(chain)].foreign
        /\ BuildWhat(chain) = Messages(chain) \o chain[Len(chain)].foreign
====
