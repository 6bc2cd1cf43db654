---- MODULE LualikeRenderingProofs ----
(***************************************************************************)
(* Theorems of LualikeRendering for texts of any length and any spans.     *)
(* What a snippet shows is arithmetic on offsets, all of it unsigned: the  *)
(* lemmas say where the line that is located lies, and from that follows   *)
(* that no subtraction goes below zero.                                    *)
(***************************************************************************)
EXTENDS LualikeRendering, FiniteSetTheorems, SequenceTheorems, TLAPS

----------------------------------------------------------------------------
(* Sets of offsets have a first and, when bounded, a last one.             *)
Smallness == OpToRel(<, Nat)

LEMMA SomeOffsetIsFirst ==
    ASSUME NEW S, S \subseteq Nat, S # {}
    PROVE  \E x \in S : \A y \in S : x <= y
  <1>1. IsWellFoundedOn(Smallness, Nat) BY NatLessThanWellFounded DEF Smallness
  <1>2. \A x, y \in Nat : <<x, y>> \in Smallness <=> x < y BY DEF Smallness, OpToRel
  <1>3. PICK x \in S : \A y \in S : <<y, x>> \notin Smallness BY <1>1, WFMin
  <1>4. ASSUME NEW y \in S PROVE x <= y
    <2>1. x \in Nat /\ y \in Nat OBVIOUS
    <2>2. ~(y < x) BY <1>2, <1>3, <2>1
    <2> QED BY <2>1, <2>2
  <1> QED BY <1>4

LEMMA MinIsFirst ==
    ASSUME NEW S, S \subseteq Nat, S # {}
    PROVE  Min(S) \in S /\ \A y \in S : Min(S) <= y
  BY SomeOffsetIsFirst DEF Min

LEMMA MaxIsLast ==
    ASSUME NEW n \in Nat, NEW S, S \subseteq 0..n, S # {}
    PROVE  Max(S) \in S /\ \A y \in S : Max(S) >= y
  <1> DEFINE T == {n - x : x \in S}
  <1>1. \A x \in S : x \in Nat /\ x <= n /\ n - x \in Nat /\ n - x \in T OBVIOUS
  <1>2. T \subseteq Nat /\ T # {} BY <1>1
  <1>3. PICK t \in T : \A y \in T : t <= y BY <1>2, SomeOffsetIsFirst
  <1>4. PICK x \in S : t = n - x OBVIOUS
  <1>5. \A y \in S : x >= y BY <1>1, <1>3, <1>4
  <1> QED BY <1>5 DEF Max

----------------------------------------------------------------------------
(* The line an offset lies on: it begins behind the last line break before *)
(* the offset and ends at the first one from there on.                     *)
LEMMA LineOfOffset ==
    ASSUME NEW t \in Seq(Characters), NEW o \in 0..Len(t),
           NEW line, line = LocateLine(t, o)
    PROVE  /\ line.begin \in 0..o /\ line.end \in o..Len(t)
           /\ line.begin = 0 \/ t[line.begin] = "\n"
           /\ line.end = Len(t) \/ t[line.end + 1] = "\n"
           /\ LineBreaks(t, line.begin, line.end) = {}
           /\ line.number = 1 + Cardinality(LineBreaks(t, 0, line.begin))
  <1>1. PICK n \in Nat : n = Len(t) BY LenProperties
  <1>2. PICK before : before = LineBreaks(t, 0, o) OBVIOUS
  <1>3. PICK b : b = IF before = {} THEN 0 ELSE Max(before) + 1 OBVIOUS
  <1>4. PICK after : after = LineBreaks(t, b, n) OBVIOUS
  <1>5. PICK e : e = IF after = {} THEN n ELSE Min(after) OBVIOUS
  <1>6. Smaller(o, Len(t)) = o BY <1>1 DEF Smaller
  <1>7. line.number = Cardinality(before) + 1 /\ line.begin = b /\ line.end = e
    BY <1>1, <1>2, <1>3, <1>4, <1>5, <1>6 DEF LocateLine
  <1>8. before \subseteq 0..n /\ \A i \in before : i < o /\ t[i + 1] = "\n"
    BY <1>1, <1>2 DEF LineBreaks
  <1>9. /\ b \in 0..o /\ (b = 0 \/ t[b] = "\n")
        /\ \A i \in before : i < b
    <2>1. CASE before = {} BY <1>1, <1>3, <2>1
    <2>2. CASE before # {}
      <3>1. Max(before) \in before /\ \A i \in before : Max(before) >= i
        BY <1>8, <2>2, MaxIsLast
      <3>2. b = Max(before) + 1 /\ Max(before) \in 0..n BY <1>3, <1>8, <2>2, <3>1
      <3> QED BY <1>1, <1>8, <3>1, <3>2
    <2> QED BY <2>1, <2>2
  <1>10. \A i \in after : i \in b..(n - 1) /\ t[i + 1] = "\n"
    BY <1>4 DEF LineBreaks
  <1>11. \A i \in after : i >= o
    <2>1. SUFFICES ASSUME NEW i \in after, i < o PROVE FALSE
      BY <1>1, <1>9, <1>10
    <2>2. i \in before BY <1>2, <1>9, <1>10, <2>1 DEF LineBreaks
    <2> QED BY <1>9, <1>10, <2>2
  <1>12. e \in o..n /\ (e = n \/ t[e + 1] = "\n") /\ \A i \in after : i >= e
    <2>1. CASE after = {} BY <1>1, <1>5, <2>1
    <2>2. CASE after # {}
      <3>1. after \subseteq Nat BY <1>1, <1>9, <1>10
      <3>2. Min(after) \in after /\ \A i \in after : Min(after) <= i
        BY <2>2, <3>1, MinIsFirst
      <3> QED BY <1>1, <1>5, <1>9, <1>10, <1>11, <2>2, <3>1, <3>2
    <2> QED BY <2>1, <2>2
  <1>13. LineBreaks(t, b, e) = {}
    <2>1. SUFFICES ASSUME NEW i \in b..(e - 1), t[i + 1] = "\n" PROVE FALSE
      BY DEF LineBreaks
    <2>2. i \in after BY <1>1, <1>4, <1>9, <1>12, <2>1 DEF LineBreaks
    <2> QED BY <1>9, <1>12, <2>1, <2>2
  <1>14. LineBreaks(t, 0, b) = before
    <2>1. \A i \in before : i \in 0..(b - 1) BY <1>8, <1>9
    <2>2. \A i \in 0..(b - 1) : i \in 0..(o - 1) BY <1>9
    <2> QED BY <1>2, <1>8, <2>1, <2>2 DEF LineBreaks
  <1>15. Cardinality(before) \in Nat
    <2>1. IsFiniteSet(0..n) BY <1>1, FS_Interval
    <2>2. IsFiniteSet(before) BY <1>8, <2>1, FS_Subset
    <2> QED BY <2>2, FS_CardinalityType
  <1> QED BY <1>1, <1>7, <1>9, <1>12, <1>13, <1>14, <1>15

----------------------------------------------------------------------------
(* What RenderSpanSnippet makes of a span, as arithmetic of integers.      *)
LEMMA SnippetOfSpan ==
    ASSUME NEW t \in Seq(Characters), NEW span \in Spans
    PROVE  LET s == Clamp(span, Len(t))
               line == LocateLine(t, s.begin)
               r == RenderSpanSnippet(t, span)
           IN  /\ s.begin \in 0..Len(t) /\ s.end \in s.begin..Len(t)
               /\ line.begin \in 0..s.begin /\ line.end \in s.begin..Len(t)
               /\ r.indent = s.begin - line.begin
               /\ r.carets = Larger(Smaller(Larger(s.end, s.begin + 1), line.end) - s.begin, 1)
               /\ r.line = SubSeq(t, line.begin + 1, line.end)
               /\ Len(r.line) = line.end - line.begin
               /\ r.number = line.number
  <1> DEFINE s == Clamp(span, Len(t))
             line == LocateLine(t, s.begin)
             r == RenderSpanSnippet(t, span)
  <1>1. PICK n \in Nat : n = Len(t) BY LenProperties
  <1>2. span.begin \in Nat /\ span.end \in Nat BY DEF Spans
  <1>3. PICK b, e : b = s.begin /\ e = s.end OBVIOUS
  <1>4. b \in 0..n /\ e \in b..n
    BY <1>1, <1>2, <1>3 DEF Clamp, Span, Smaller, Larger
  <1>5. PICK p, q : p = line.begin /\ q = line.end OBVIOUS
  <1>6. p \in 0..b /\ q \in b..n BY <1>1, <1>3, <1>4, <1>5, LineOfOffset
  <1>7. PICK c : c = ColumnEnd(s, line) OBVIOUS
  <1>8. c = Smaller(Larger(e, b + 1), q) /\ c \in b..q
    BY <1>1, <1>3, <1>4, <1>5, <1>6, <1>7 DEF ColumnEnd, Smaller, Larger
  <1>9. /\ Minus(b, p) = b - p /\ Minus(c, p) = c - p
        /\ Minus(c - p, b - p) = c - b
    BY <1>1, <1>4, <1>6, <1>8 DEF Minus
  <1>10. /\ r.indent = Minus(b, p)
         /\ r.carets = Larger(Minus(Minus(c, p), Minus(b, p)), 1)
         /\ r.line = SubSeq(t, p + 1, q) /\ r.number = line.number
    BY <1>3, <1>5, <1>7 DEF RenderSpanSnippet
  <1>11. Len(SubSeq(t, p + 1, q)) = q - p
    <2>1. \A i \in (p + 1)..q : t[i] \in Characters
      BY <1>1, <1>4, <1>6, ElementOfSeq
    <2>2. p + 1 \in Int /\ q \in Int BY <1>1, <1>4, <1>6
    <2>3. Len(SubSeq(t, p + 1, q)) = IF p + 1 <= q THEN q - (p + 1) + 1 ELSE 0
      BY <2>1, <2>2, SubSeqProperties
    <2> QED BY <1>1, <1>4, <1>6, <2>3
  <1> QED BY <1>1, <1>3, <1>4, <1>5, <1>6, <1>8, <1>9, <1>10, <1>11

(* How far the carets reach: as far as the span does on this line, or one  *)
(* place.                                                                  *)
LEMMA CaretsReach ==
    ASSUME NEW t \in Seq(Characters), NEW span \in Spans
    PROVE  LET s == Clamp(span, Len(t))
               line == LocateLine(t, s.begin)
               r == RenderSpanSnippet(t, span)
               onLine == {k \in s.begin..(s.end - 1) : k < line.end}
           IN  s.begin..(s.begin + r.carets - 1) =
                   IF onLine = {} THEN {s.begin} ELSE onLine
  <1> DEFINE s == Clamp(span, Len(t))
             line == LocateLine(t, s.begin)
             r == RenderSpanSnippet(t, span)
             onLine == {k \in s.begin..(s.end - 1) : k < line.end}
  <1>1. PICK n \in Nat : n = Len(t) BY LenProperties
  <1>2. PICK b, e, q, c : b = s.begin /\ e = s.end /\ q = line.end /\ c = r.carets
    OBVIOUS
  <1>3. /\ b \in 0..n /\ e \in b..n /\ q \in b..n
        /\ c = Larger(Smaller(Larger(e, b + 1), q) - b, 1)
    BY <1>1, <1>2, SnippetOfSpan
  <1>4. onLine = {k \in b..(e - 1) : k < q} BY <1>2
  <1>5. CASE b < e /\ b < q
    <2>1. c = Smaller(e, q) - b BY <1>3, <1>5 DEF Smaller, Larger
    <2>2. b \in onLine BY <1>3, <1>4, <1>5
    <2>3. \A k : k \in b..(b + c - 1) <=> k \in b..(e - 1) /\ k < q
      BY <1>3, <1>5, <2>1 DEF Smaller
    <2> QED BY <1>2, <1>4, <2>2, <2>3
  <1>6. CASE ~(b < e /\ b < q)
    <2>1. c = 1 BY <1>3, <1>6 DEF Smaller, Larger
    <2>2. onLine = {} BY <1>3, <1>4, <1>6
    <2>3. b..(b + c - 1) = {b} BY <1>3, <2>1
    <2> QED BY <1>2, <2>2, <2>3
  <1> QED BY <1>5, <1>6

LEMMA CaretsOfSpan ==
    ASSUME NEW t \in Seq(Characters), NEW span \in Spans
    PROVE  LET s == Clamp(span, Len(t))
               r == RenderSpanSnippet(t, span)
               lineBegin == s.begin - r.indent
               lineEnd == lineBegin + Len(r.line)
               onLine == {k \in s.begin..(s.end - 1) : k < lineEnd}
           IN  /\ lineBegin..(lineBegin + r.indent + r.carets - 1) \ lineBegin..(s.begin - 1)
                      = IF onLine = {} THEN {s.begin} ELSE onLine
               /\ s.begin \in lineBegin..lineEnd
               /\ r.line = SubSeq(t, lineBegin + 1, lineEnd)
               /\ LineBreaks(t, lineBegin, lineEnd) = {}
               /\ lineBegin = 0 \/ t[lineBegin] = "\n"
               /\ lineEnd = Len(t) \/ t[lineEnd + 1] = "\n"
               /\ r.number = 1 + Cardinality(LineBreaks(t, 0, lineBegin))
  <1>1. PICK n \in Nat : n = Len(t) BY LenProperties
  <1>2. PICK s, r : s = Clamp(span, Len(t)) /\ r = RenderSpanSnippet(t, span) OBVIOUS
  <1>3. PICK line : line = LocateLine(t, s.begin) OBVIOUS
  <1>4. /\ s.begin \in 0..Len(t) /\ s.end \in s.begin..Len(t)
        /\ line.begin \in 0..s.begin /\ line.end \in s.begin..Len(t)
        /\ r.indent = s.begin - line.begin
        /\ r.carets = Larger(Smaller(Larger(s.end, s.begin + 1), line.end) - s.begin, 1)
        /\ r.line = SubSeq(t, line.begin + 1, line.end)
        /\ Len(r.line) = line.end - line.begin
        /\ r.number = line.number
    BY <1>2, <1>3, SnippetOfSpan
  <1>5. PICK p, q : p = s.begin - r.indent /\ q = p + Len(r.line) OBVIOUS
  <1>6. p = line.begin /\ q = line.end BY <1>1, <1>4, <1>5
  <1>7. PICK onLine : onLine = {k \in s.begin..(s.end - 1) : k < q} OBVIOUS
  <1>8. onLine = {k \in s.begin..(s.end - 1) : k < line.end} BY <1>6, <1>7
  <1>9. s.begin..(s.begin + r.carets - 1) = IF onLine = {} THEN {s.begin} ELSE onLine
    BY <1>2, <1>3, <1>8, CaretsReach
  <1>10. r.carets \in Nat BY <1>1, <1>4 DEF Smaller, Larger
  <1>11. p..(p + r.indent + r.carets - 1) \ p..(s.begin - 1)
             = s.begin..(s.begin + r.carets - 1)
    <2>1. PICK b, c, j : b = s.begin /\ c = r.carets /\ j = r.indent OBVIOUS
    <2>2. b \in Nat /\ c \in Nat /\ p \in 0..b /\ j = b - p
      BY <1>1, <1>4, <1>6, <1>10, <2>1
    <2>3. p..(p + j + c - 1) \ p..(b - 1) = b..(b + c - 1) BY <2>2
    <2> QED BY <2>1, <2>3
  <1>12. s.begin \in p..q BY <1>1, <1>4, <1>6
  <1>13. /\ p = 0 \/ t[p] = "\n"
         /\ q = Len(t) \/ t[q + 1] = "\n"
         /\ LineBreaks(t, p, q) = {}
         /\ r.number = 1 + Cardinality(LineBreaks(t, 0, p))
    BY <1>3, <1>4, <1>6, LineOfOffset
  <1>14. r.line = SubSeq(t, p + 1, q) BY <1>4, <1>6
  <1>15. /\ p..(p + r.indent + r.carets - 1) \ p..(s.begin - 1)
                = IF onLine = {} THEN {s.begin} ELSE onLine
         /\ s.begin \in p..q
    BY <1>9, <1>11, <1>12
  <1> QED BY <1>2, <1>5, <1>7, <1>13, <1>14, <1>15

(* What stands over the carets is the text of the span up to its first     *)
(* line break.                                                             *)
LEMMA QuoteOfSpan ==
    ASSUME NEW t \in Seq(Characters), NEW span \in Spans,
           span.begin < span.end, span.end <= Len(t)
    PROVE  LET context == SubSeq(t, span.begin + 1, span.end)
               r == RenderSpanSnippet(t, span)
               quoted == SubSeq(r.line, r.indent + 1,
                                Smaller(r.indent + r.carets, Len(r.line)))
           IN  /\ IsPrefix(quoted, context)
               /\ quoted = context \/ context[Len(quoted) + 1] = "\n"
  <1>1. PICK n \in Nat : n = Len(t) BY LenProperties
  <1>2. PICK b, e : b = span.begin /\ e = span.end OBVIOUS
  <1>3. b \in Nat /\ e \in Nat /\ b < e /\ e <= n BY <1>1, <1>2 DEF Spans
  <1>4. PICK s : s = Clamp(span, Len(t)) OBVIOUS
  <1>5. s.begin = b /\ s.end = e
    BY <1>1, <1>2, <1>3, <1>4 DEF Clamp, Span, Smaller, Larger
  <1>6. PICK line : line = LocateLine(t, b) OBVIOUS
  <1>7. PICK r : r = RenderSpanSnippet(t, span) OBVIOUS
  <1>8. PICK p, q : p = line.begin /\ q = line.end OBVIOUS
  <1>9. /\ p \in 0..b /\ q \in b..n
        /\ r.indent = b - p
        /\ r.carets = Larger(Smaller(Larger(e, b + 1), q) - b, 1)
        /\ r.line = SubSeq(t, p + 1, q) /\ Len(r.line) = q - p
    BY <1>1, <1>4, <1>5, <1>6, <1>7, <1>8, SnippetOfSpan
  <1>10. q = n \/ t[q + 1] = "\n" BY <1>1, <1>3, <1>6, <1>8, LineOfOffset
  <1>11. PICK m : m = Smaller(e, q) OBVIOUS
  <1>12. m \in b..e /\ m <= q /\ (m = e \/ m = q) BY <1>3, <1>9, <1>11 DEF Smaller
  <1>13. Smaller(r.indent + r.carets, Len(r.line)) = m - p
    BY <1>3, <1>9, <1>11 DEF Smaller, Larger
  <1>14. PICK quoted, context :
             /\ quoted = SubSeq(r.line, r.indent + 1,
                                Smaller(r.indent + r.carets, Len(r.line)))
             /\ context = SubSeq(t, span.begin + 1, span.end)
    OBVIOUS
  <1>15. quoted = SubSeq(SubSeq(t, p + 1, q), b - p + 1, m - p) BY <1>9, <1>13, <1>14
  <1>16. \A i \in 1..n : t[i] \in Characters BY <1>1, ElementOfSeq
  <1>17. /\ context \in Seq(Characters) /\ Len(context) = e - b
         /\ \A i \in 1..(e - b) : context[i] = t[b + i]
    <2>1. \A i \in (b + 1)..e : t[i] \in Characters BY <1>3, <1>16
    <2>2. b + 1 \in Int /\ e \in Int BY <1>3
    <2>3. context = SubSeq(t, b + 1, e) BY <1>2, <1>14
    <2>4. /\ context \in Seq(Characters)
          /\ Len(context) = IF b + 1 <= e THEN e - (b + 1) + 1 ELSE 0
          /\ \A i \in 1..(e - (b + 1) + 1) : context[i] = t[b + 1 + i - 1]
      BY <2>1, <2>2, <2>3, SubSeqProperties
    <2>5. \A i \in 1..(e - b) : i \in 1..(e - (b + 1) + 1) /\ b + 1 + i - 1 = b + i
      BY <1>3
    <2> QED BY <1>3, <2>4, <2>5
  <1>18. /\ quoted \in Seq(Characters) /\ Len(quoted) = m - b
         /\ \A i \in 1..(m - b) : quoted[i] = t[b + i]
    <2>1. PICK l : l = SubSeq(t, p + 1, q) OBVIOUS
    <2>2. \A i \in 1..(q - p) : l[i] = t[p + i] /\ l[i] \in Characters
      <3>1. \A i \in (p + 1)..q : t[i] \in Characters BY <1>3, <1>9, <1>16
      <3>2. p + 1 \in Int /\ q \in Int BY <1>3, <1>9
      <3>3. \A i \in 1..(q - (p + 1) + 1) : l[i] = t[p + 1 + i - 1]
        BY <2>1, <3>1, <3>2, SubSeqProperties
      <3>4. \A i \in 1..(q - p) :
                i \in 1..(q - (p + 1) + 1) /\ p + 1 + i - 1 = p + i /\ p + i \in (p + 1)..q
        BY <1>3, <1>9
      <3> QED BY <3>1, <3>3, <3>4
    <2>3. PICK x, y : x = b - p + 1 /\ y = m - p OBVIOUS
    <2>4. x \in Int /\ y \in Int /\ y - x + 1 = m - b /\ x \in 1..(q - p + 1) /\ y <= q - p
      BY <1>3, <1>9, <1>12, <2>3
    <2>5. \A i \in x..y : l[i] \in Characters BY <1>3, <1>9, <2>2, <2>4
    <2>6. /\ quoted \in Seq(Characters)
          /\ Len(quoted) = IF x <= y THEN y - x + 1 ELSE 0
          /\ \A i \in 1..(y - x + 1) : quoted[i] = l[x + i - 1]
      <3>1. quoted = SubSeq(l, x, y) BY <1>15, <2>1, <2>3
      <3>2. x \in Int /\ y \in Int BY <2>4
      <3> QED BY <2>5, <3>1, <3>2, SubSeqProperties
    <2>7. Len(quoted) = m - b BY <1>3, <1>9, <1>12, <2>3, <2>6
    <2>8. \A i \in 1..(m - b) :
              x + i - 1 \in 1..(q - p) /\ p + (x + i - 1) = b + i
      BY <1>3, <1>9, <1>12, <2>3
    <2> QED BY <2>2, <2>4, <2>6, <2>7, <2>8
  <1>19. Len(quoted) <= Len(context) /\ \A i \in 1..Len(quoted) : quoted[i] = context[i]
    BY <1>3, <1>12, <1>17, <1>18
  <1>20. IsPrefix(quoted, context)
    <2>1. SubSeq(quoted, 1, Len(quoted)) = quoted BY <1>18, SubSeqFull
    <2>2. \A i \in 1..Len(quoted) : context[i] \in Characters
      BY <1>18, <1>19, ElementOfSeq
    <2>3. PICK k \in Nat : k = Len(quoted) BY <1>18, LenProperties
    <2>4. /\ SubSeq(context, 1, k) \in Seq(Characters)
          /\ Len(SubSeq(context, 1, k)) = IF 1 <= k THEN k - 1 + 1 ELSE 0
          /\ \A i \in 1..(k - 1 + 1) : SubSeq(context, 1, k)[i] = context[1 + i - 1]
      BY <2>2, <2>3, SubSeqProperties
    <2>5. Len(SubSeq(context, 1, k)) = k BY <2>3, <2>4
    <2>6. \A i \in 1..k : SubSeq(context, 1, k)[i] = quoted[i]
      BY <1>19, <2>3, <2>4
    <2>7. SubSeq(context, 1, k) = quoted BY <1>18, <2>3, <2>4, <2>5, <2>6, SeqEqual
    <2> QED BY <1>19, <2>1, <2>3, <2>7 DEF IsPrefix
  <1>21. quoted = context \/ context[Len(quoted) + 1] = "\n"
    <2>1. CASE m = e
      <3>1. Len(quoted) = Len(context) BY <1>17, <1>18, <2>1
      <3> QED BY <1>17, <1>18, <1>19, <3>1, SeqEqual
    <2>2. CASE m # e
      <3>1. m = q /\ q < e /\ t[q + 1] = "\n" BY <1>3, <1>9, <1>10, <1>12, <2>2
      <3>2. Len(quoted) + 1 \in 1..(e - b) /\ b + (Len(quoted) + 1) = q + 1
        BY <1>3, <1>9, <1>18, <3>1
      <3> QED BY <1>17, <3>1, <3>2
    <2> QED BY <2>1, <2>2
  <1> QED BY <1>7, <1>14, <1>20, <1>21

----------------------------------------------------------------------------
(* The inductive invariant: what an Error says of the source are spans.    *)
Nodes ==
    [message : MessageTexts, span : OptionalSpans, callStack : CallStacks,
     foreign : Foreigns \cup {<<>>}]
ChainInv == text \in Seq(Characters) /\ chain \in Seq(Nodes)

LEMMA InitMakesChainInv == Init => ChainInv
  BY RenderingAssumption DEF Init, ChainInv, Nodes, ContextError

LEMMA WrapKeepsChainInv == ChainInv /\ [Next]_vars => ChainInv'
  <1> SUFFICES ASSUME ChainInv, [Next]_vars PROVE ChainInv' OBVIOUS
  <1>1. CASE Wrap
    <2>1. PICK m \in MessageTexts, s \in OptionalSpans, c \in CallStacks :
              chain' = <<ContextError(m, s, c, <<>>)>> \o chain
      BY <1>1 DEF Wrap
    <2>2. <<ContextError(m, s, c, <<>>)>> \in Seq(Nodes) BY DEF ContextError, Nodes
    <2>3. chain' \in Seq(Nodes) BY <2>1, <2>2, ConcatProperties DEF ChainInv
    <2> QED BY <1>1, <2>3 DEF ChainInv, Wrap
  <1>2. CASE UNCHANGED vars BY <1>2 DEF vars, ChainInv
  <1> QED BY <1>1, <1>2 DEF Next

LEMMA SpansOfChain ==
    ASSUME ChainInv, NEW i \in 1..Len(chain), IsSpanned(chain[i])
    PROVE  chain[i].span[1] \in Spans
  <1>1. chain[i] \in Nodes BY ElementOfSeq DEF ChainInv
  <1>2. chain[i].span \in OptionalSpans /\ chain[i].span # <<>>
    BY <1>1 DEF Nodes, IsSpanned
  <1>3. PICK b \in Offsets, e \in Offsets : chain[i].span = <<Span(b, e)>>
    BY <1>2 DEF OptionalSpans
  <1>4. Span(b, e) \in Spans BY RenderingAssumption DEF Span, Spans
  <1>5. PICK s : s = Span(b, e) OBVIOUS
  <1>6. chain[i].span = <<s>> /\ <<s>>[1] = s BY <1>3, <1>5
  <1> QED BY <1>4, <1>5, <1>6

THEOREM ChainInvariant == Spec => []ChainInv
  BY InitMakesChainInv, WrapKeepsChainInv, PTL DEF Spec

(* Under the line a snippet shows, the carets mark the span as far as it   *)
(* lies on that line, whatever the span and the text (RenderSpanSnippet).  *)
THEOREM CaretsAreRight == Spec => []CaretsMarkTheSpan
  <1>1. ASSUME ChainInv PROVE CaretsMarkTheSpan
    <2>1. text \in Seq(Characters) BY <1>1 DEF ChainInv
    <2>2. \A i \in 1..Len(chain) : IsSpanned(chain[i]) => chain[i].span[1] \in Spans
      BY <1>1, SpansOfChain
    <2> QED BY <2>1, <2>2, CaretsOfSpan DEF CaretsMarkTheSpan
  <1> QED BY <1>1, ChainInvariant, PTL

(* In every snippet, the text over the carets is the part of what          *)
(* GetContext returns before its first line break.                         *)
THEOREM SnippetsQuoteTheContext == Spec => []SnippetQuotesTheContext
  <1>1. ASSUME ChainInv PROVE SnippetQuotesTheContext
    <2>1. SUFFICES ASSUME NEW i \in 1..Len(chain),
                          GetContext(text, chain[i]) \notin {<<>>, <<<<>>>>}
                   PROVE  LET context == GetContext(text, chain[i])[1]
                              r == RenderSpanSnippet(text, chain[i].span[1])
                              quoted == SubSeq(r.line, r.indent + 1,
                                               Smaller(r.indent + r.carets, Len(r.line)))
                          IN  /\ IsPrefix(quoted, context)
                              /\ quoted = context \/ context[Len(quoted) + 1] = "\n"
      BY DEF SnippetQuotesTheContext
    <2>2. PICK span : span = chain[i].span[1] OBVIOUS
    <2>3. /\ IsSpanned(chain[i]) /\ span.begin <= span.end /\ span.end <= Len(text)
          /\ GetContext(text, chain[i]) = <<SubSeq(text, span.begin + 1, span.end)>>
      BY <2>1, <2>2 DEF GetContext, IsSpanned
    <2>4. span \in Spans BY <1>1, <2>2, <2>3, SpansOfChain
    <2>5. span.begin \in Nat /\ span.end \in Nat BY <2>4 DEF Spans
    <2>6. span.begin # span.end
      <3>1. SUFFICES ASSUME span.begin = span.end PROVE FALSE OBVIOUS
      <3>2. span.begin + 1 \in Int /\ span.end \in Int /\ span.end < span.begin + 1
        BY <2>5, <3>1
      <3>3. SubSeq(text, span.begin + 1, span.end) = <<>> BY <3>2, SubSeqEmpty
      <3> QED BY <2>1, <2>3, <3>3
    <2>7. span.begin < span.end BY <2>3, <2>5, <2>6
    <2>8. text \in Seq(Characters) BY <1>1 DEF ChainInv
    <2>9. GetContext(text, chain[i])[1] = SubSeq(text, span.begin + 1, span.end)
      <3>1. PICK c : c = SubSeq(text, span.begin + 1, span.end) OBVIOUS
      <3>2. GetContext(text, chain[i]) = <<c>> /\ <<c>>[1] = c BY <2>3, <3>1
      <3> QED BY <3>1, <3>2
    <2> QED BY <2>2, <2>3, <2>4, <2>7, <2>8, <2>9, QuoteOfSpan
  <1> QED BY <1>1, ChainInvariant, PTL
====
