---- MODULE LualikeErrorChain ----
(***************************************************************************)
(* The chain of ContextErrors an Error owns (error.cc) and the texts made  *)
(* of it.  A chain is a sequence whose first node is root_ and whose last  *)
(* one is the leaf; an optional is a sequence of at most one.  A text made *)
(* of a chain keeps what it says and in which order, not its punctuation.  *)
(*                                                                         *)
(* A foreign exception is known by what DescribeException makes of it,     *)
(* which never changes: nothing writes to an exception once it is caught.  *)
(***************************************************************************)
EXTENDS LualikeSpan, Integers, FiniteSetsExt, SequencesExt

CONSTANT SizeLimit      \* 2^64, the number of values of a size_t

(* ContextError                                                            *)
ContextError(message, span, callStack, foreign) ==
    [message |-> message, span |-> span, callStack |-> callStack, foreign |-> foreign]

(* The subtraction of two size_t.                                          *)
Minus(a, b) == IF a >= b THEN a - b ELSE SizeLimit - (b - a)

----------------------------------------------------------------------------
(* The line that holds an offset, as line number and range.                *)

LineBreaks(text, b, e) == {i \in b..(e - 1) : text[i + 1] = "\n"}

(* Faulty: the end of the line is looked for from the start of the text.   *)
FaultyLocateLine(text, offset) ==
    LET before == LineBreaks(text, 0, Smaller(offset, Len(text)))
        after == LineBreaks(text, 0, Len(text))
    IN  [number |-> Cardinality(before) + 1,
         begin |-> IF before = {} THEN 0 ELSE Max(before) + 1,
         end |-> IF after = {} THEN Len(text) ELSE Min(after)]

LocateLine(text, offset) ==
    LET before == LineBreaks(text, 0, Smaller(offset, Len(text)))
        begin == IF before = {} THEN 0 ELSE Max(before) + 1
        after == LineBreaks(text, begin, Len(text))
    IN  [number |-> Cardinality(before) + 1,
         begin |-> begin,
         end |-> IF after = {} THEN Len(text) ELSE Min(after)]

(* std::min and std::clamp at the head of RenderSpanSnippet.               *)
Clamp(span, size) ==
    LET begin == Smaller(span.begin, size)
    IN  Span(begin, Smaller(Larger(span.end, begin), size))

(* Faulty: a span may run on behind the end of its line.                   *)
FaultyColumnEnd(span, line) == Larger(span.end, span.begin + 1)

ColumnEnd(span, line) == Smaller(Larger(span.end, span.begin + 1), line.end)

(* The line a span begins on, and the carets under it.                     *)
RenderSpanSnippet(text, span) ==
    LET s == Clamp(span, Len(text))
        line == LocateLine(text, s.begin)
        columnBegin == Minus(s.begin, line.begin)
        columns == Minus(Minus(ColumnEnd(s, line), line.begin), columnBegin)
    IN  [number |-> line.number,
         line |-> SubSeq(text, line.begin + 1, line.end),
         indent |-> columnBegin,
         carets |-> Larger(columns, 1)]

(* The text of a span that lies within the source.                         *)
GetContext(text, node) ==
    IF node.span # <<>> /\ node.span[1].begin <= node.span[1].end
                        /\ node.span[1].end <= Len(text)
    THEN <<SubSeq(text, node.span[1].begin + 1, node.span[1].end)>>
    ELSE <<>>

----------------------------------------------------------------------------
(* The foreign exception of the leaf, the only node that can have one.     *)
Foreign(chain) == IF chain = <<>> THEN <<>> ELSE Last(chain).foreign

Messages(chain) == [i \in 1..Len(chain) |-> chain[i].message]

BuildWhat(chain) == Messages(chain) \o Foreign(chain)

(* What the innermost call was doing comes first.                          *)
AppendCallStack(node) == Reverse(node.callStack)

(* What both renderings say of a node.                                     *)
Line(node) == [message |-> node.message, callStack |-> AppendCallStack(node)]

(* A rendering: snippets of the source, lines without one, and the foreign *)
(* exception.                                                              *)
RenderPlain(chain) ==
    [context |-> <<>>,
     lines |-> [i \in 1..Len(chain) |->
                   [says |-> Line(chain[i]), span |-> chain[i].span]],
     foreign |-> Foreign(chain)]

IsSpanned(node) == node.span # <<>>

(* Faulty: a node with a call stack is not listed.                         *)
FaultyIsListed(node) == ~IsSpanned(node) /\ node.callStack = <<>>

(* The nodes of the section "Error chain".                                 *)
IsListed(node) == ~IsSpanned(node)

RenderPretty(text, chain) ==
    IF text = <<>> THEN RenderPlain(chain)
    ELSE LET shown == SelectSeq(chain, IsSpanned)
             listed == SelectSeq(chain, IsListed)
         IN  [context |-> [i \in 1..Len(shown) |->
                 [snippet |-> RenderSpanSnippet(text, shown[i].span[1]),
                  says |-> Line(shown[i])]],
              lines |-> [i \in 1..Len(listed) |->
                 [says |-> Line(listed[i]), span |-> <<>>]],
              foreign |-> Foreign(chain)]
====
