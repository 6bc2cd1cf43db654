---- MODULE LualikeParserProofs ----
(***************************************************************************)
(* Theorems of LualikeParser for every sequence of tokens.                 *)
(*                                                                         *)
(* First the bounds: how deep a function may lie in the stack is bounded   *)
(* for each function by itself, relative to the cursor; the bounds were    *)
(* found by following the calls.                                           *)
(*                                                                         *)
(* Then one half of the language: the calls in progress are a derivation,  *)
(* not finished yet, by any set of phrases that obeys the rules.           *)
(*                                                                         *)
(* Then the grammar of LualikeRules itself: its phrases are the least set  *)
(* that obeys the rules, so what all its phrases have in common follows by *)
(* the rules; in particular, how a phrase begins, read from the left.      *)
(*                                                                         *)
(* Last the other half: on a source the grammar generates, the calls in    *)
(* progress can all be finished with what is still to be read.             *)
(***************************************************************************)
EXTENDS LualikeRules, SequenceTheorems, WellFoundedInduction, TLAPS

(* By how much the depth of a function may exceed twice the cursor.  An if *)
(* statement has consumed its keyword when it is not called any more.      *)
Slack(fn, called) ==
    CASE fn = "ParseBlock" -> -1
      [] fn \in {"ParseStmt", "MakeStatement"} -> 0
      [] fn = "ParseIfStmt" -> IF called THEN 1 ELSE -1
      [] fn \in {"ParseVarDecl", "Initializer", "ParseRetStmt", "ParseExprStmt"} -> 1
      [] fn = "ParseExpr" -> 2
      [] fn \in {"ParsePrimExpr", "Unary", "Paren"} -> 3

(* What a frame holds; only an operator stands at or above precedence 0.   *)
FrameOK(f) ==
    /\ "fn" \in DOMAIN f /\ f.fn \in Functions
    /\ f.fn = "ParseExpr" => "min" \in DOMAIN f /\ f.min \in Nat

(* The frames of a stack lie where they may, when the cursor is at i.      *)
WellPlaced(s, i, called) ==
    /\ s \in Seq(Range(s))
    /\ \A k \in 1..Len(s) :
           /\ FrameOK(s[k])
           /\ k <= 2 * i + Slack(s[k].fn, called /\ k = Len(s))

(* What follows `return` and `if` is only looked at behind the keyword.    *)
AtKeyword ==
    Called /\ stack # <<>> /\ Top.fn \in {"ParseRetStmt", "ParseIfStmt"} => Kind(cur) # "EOF"

(* The inductive invariant.                                                *)
ParserInv == TypeOK /\ WellPlaced(stack, cur, Called) /\ AtKeyword

----------------------------------------------------------------------------
(* The operators that look for a token.                                    *)
Smallness == OpToRel(<, Nat)

LEMMA SomeTokenIsFirst ==
    ASSUME NEW S, S \subseteq Nat, S # {}
    PROVE  \E x \in S : \A y \in S : x <= y
  <1>1. IsWellFoundedOn(Smallness, Nat) BY NatLessThanWellFounded DEF Smallness
  <1>2. \A x, y \in Nat : <<x, y>> \in Smallness <=> x < y BY DEF Smallness, OpToRel
  <1>3. PICK x \in S : \A y \in S : <<y, x>> \notin Smallness BY <1>1, WFMin
  <1>4. ASSUME NEW y \in S PROVE x <= y
    <2>1. x \in Nat /\ y \in Nat OBVIOUS
    <2>2. ~(y < x) BY <1>2, <1>3, <2>1
    <2> QED BY <2>1, <2>2
  <1> QED BY <1>4

LEMMA TokensOfSource ==
    ASSUME TypeOK
    PROVE  /\ Len(source) \in Nat /\ cur \in 1..(Len(source) + 1)
           /\ \A i \in Nat : Kind(i) # "EOF" => i <= Len(source)
  <1>1. source \in Seq(STRING) BY SourcesAssumption DEF TypeOK
  <1> QED BY <1>1, LenProperties DEF TypeOK, Kind

(* ConsumeOptionalSemicolons stops at the first token that is none.        *)
LEMMA SemicolonsEnd ==
    ASSUME TypeOK, NEW i \in 1..(Len(source) + 1)
    PROVE  /\ AfterSemicolons(i) \in i..(Len(source) + 1) /\ Kind(AfterSemicolons(i)) # ";"
           /\ \A k \in i..(AfterSemicolons(i) - 1) : Kind(k) = ";"
  <1>1. PICK n \in Nat : n = Len(source) BY TokensOfSource
  <1>2. i \in Nat /\ i >= 1 /\ i <= n + 1 BY <1>1
  <1> DEFINE S == {k \in i..(n + 1) : Kind(k) # ";"}
  <1>3. n + 1 \in i..(n + 1) /\ ~(n + 1 <= n) BY <1>1, <1>2
  <1>4. Kind(n + 1) = "EOF" BY <1>1, <1>3 DEF Kind
  <1>5. S \subseteq Nat /\ S # {}
    <2>1. S \subseteq i..(n + 1) /\ n + 1 \in S BY <1>3, <1>4
    <2>2. i..(n + 1) \subseteq Nat BY <1>2
    <2> QED BY ONLY <2>1, <2>2
  <1>6. \E j \in S : \A k \in S : j <= k BY <1>5, SomeTokenIsFirst
  <1>7. PICK j : j \in i..(n + 1) /\ Kind(j) # ";" /\ \A k \in S : j <= k BY <1>6
  <1>8. ASSUME NEW k \in i..(j - 1) PROVE Kind(k) = ";"
    <2>1. j \in i..(n + 1) BY <1>7
    <2>2. k \in i..(n + 1) /\ ~(j <= k) BY <1>1, <1>2, <2>1
    <2> QED BY <1>7, <2>2
  <1>9. j \in i..(Len(source) + 1) /\ Kind(j) # ";" /\ \A k \in i..(j - 1) : Kind(k) = ";"
    BY <1>1, <1>2, <1>7, <1>8
  <1> QED BY <1>9 DEF AfterSemicolons

(* The token the lexer throws at comes after the current one.              *)
LEMMA BadTokenAhead ==
    ASSUME TypeOK, NEW i \in cur..(Len(source) + 1), ~Reads(i)
    PROVE  FirstBad(i) \in (cur + 1)..i
  <1> DEFINE S == {k \in (cur + 1)..i : Kind(k) = "Bad"}
  <1>1. PICK n \in Nat : n = Len(source) BY TokensOfSource
  <1>2. cur \in 1..(n + 1) BY <1>1, TokensOfSource
  <1>3. S \subseteq Nat /\ S # {} BY <1>1, <1>2 DEF Reads
  <1>4. PICK j \in S : \A k \in S : j <= k BY <1>3, SomeTokenIsFirst
  <1>5. ASSUME NEW k \in (cur + 1)..(j - 1) PROVE Kind(k) # "Bad"
    <2>1. k \in (cur + 1)..i /\ ~(j <= k) BY <1>1, <1>2, <1>4
    <2> QED BY <1>4, <2>1
  <1>6. j \in (cur + 1)..i /\ Kind(j) = "Bad" /\ \A k \in (cur + 1)..(j - 1) : Kind(k) # "Bad"
    BY <1>4, <1>5
  <1> QED BY <1>6 DEF FirstBad

----------------------------------------------------------------------------
(* What becomes of the stack's frames when one is popped or pushed.        *)
LEMMA SlackIsInt ==
    ASSUME NEW fn \in Functions, NEW called
    PROVE  /\ Slack(fn, called) \in -1..3
           /\ ~called \/ fn # "ParseIfStmt" => Slack(fn, called) = Slack(fn, FALSE)
  BY DEF Slack, Functions

LEMMA Popped ==
    ASSUME NEW s, NEW i \in Nat, NEW j \in Nat, NEW c,
           WellPlaced(s, i, c), s # <<>>, i <= j
    PROVE  /\ WellPlaced(SubSeq(s, 1, Len(s) - 1), j, FALSE)
           /\ Len(SubSeq(s, 1, Len(s) - 1)) = Len(s) - 1
           /\ Len(s) \in Nat \ {0}
  <1>1. s \in Seq(Range(s)) BY DEF WellPlaced
  <1>2. PICK n \in Nat \ {0} : n = Len(s) BY <1>1, LenProperties, EmptySeq
  <1>3. PICK t : t = SubSeq(s, 1, n - 1) OBVIOUS
  <1>4. t \in Seq(Range(s)) /\ Len(t) = n - 1 /\ \A k \in 1..(n - 1) : t[k] = s[k]
    <2>1. 1 \in Int /\ n - 1 \in Int OBVIOUS
    <2>2. \A k \in 1..(n - 1) : s[k] \in Range(s) BY <1>1, <1>2, ElementOfSeq
    <2>3. /\ t \in Seq(Range(s))
          /\ Len(t) = IF 1 <= n - 1 THEN n - 1 - 1 + 1 ELSE 0
          /\ \A k \in 1..(n - 1 - 1 + 1) : t[k] = s[1 + k - 1]
      BY <1>3, <2>1, <2>2, SubSeqProperties
    <2>4. \A k \in 1..(n - 1) : k \in 1..(n - 1 - 1 + 1) /\ 1 + k - 1 = k OBVIOUS
    <2> QED BY <2>3, <2>4
  <1>5. t \in Seq(Range(t)) BY <1>4, LenProperties DEF Range
  <1>6. ASSUME NEW k \in 1..(n - 1)
        PROVE  /\ FrameOK(t[k])
               /\ k <= 2 * j + Slack(t[k].fn, FALSE)
    <2>1. k \in 1..n /\ k # n OBVIOUS
    <2>2. PICK f, a : f = t[k].fn /\ a = Slack(f, FALSE) OBVIOUS
    <2>3. /\ FrameOK(s[k])
          /\ k <= 2 * i + Slack(s[k].fn, FALSE)
      BY <1>2, <2>1 DEF WellPlaced
    <2>4. f \in Functions /\ FrameOK(t[k]) /\ k <= 2 * i + a
      BY <1>4, <2>2, <2>3 DEF FrameOK
    <2>5. a \in -1..3 BY <2>2, <2>4, SlackIsInt
    <2>6. k <= 2 * j + a BY <2>4, <2>5
    <2> QED BY <2>2, <2>4, <2>6
  <1> QED BY <1>2, <1>3, <1>4, <1>5, <1>6 DEF WellPlaced

LEMMA Pushed ==
    ASSUME NEW s, NEW i \in Nat, WellPlaced(s, i, FALSE),
           NEW f, NEW c, FrameOK(f),
           Len(s) + 1 <= 2 * i + Slack(f.fn, c)
    PROVE  /\ WellPlaced(Append(s, f), i, c)
           /\ Len(Append(s, f)) = Len(s) + 1 /\ Append(s, f)[Len(s) + 1] = f
           /\ Append(s, f) # <<>>
  <1>1. s \in Seq(Range(s) \cup {f}) /\ f \in Range(s) \cup {f}
    BY SeqMonotonic DEF WellPlaced
  <1>2. PICK n \in Nat : n = Len(s) BY <1>1, LenProperties
  <1>3. PICK t : t = Append(s, f) OBVIOUS
  <1>4. /\ t \in Seq(Range(s) \cup {f}) /\ Len(t) = n + 1 /\ t[n + 1] = f
        /\ \A k \in 1..n : t[k] = s[k]
    BY <1>1, <1>2, <1>3, AppendProperties
  <1>5. t \in Seq(Range(t)) BY <1>4, LenProperties DEF Range
  <1>6. ASSUME NEW k \in 1..(n + 1)
        PROVE  /\ FrameOK(t[k])
               /\ k <= 2 * i + Slack(t[k].fn, c /\ k = n + 1)
    <2>1. CASE k = n + 1
      <3>1. t[k] = f /\ ((c /\ k = n + 1) <=> c) BY <1>4, <2>1
      <3> QED BY <1>2, <2>1, <3>1 DEF Slack
    <2>2. CASE k \in 1..n /\ k # n + 1
      <3>1. /\ FrameOK(s[k])
            /\ k <= 2 * i + Slack(s[k].fn, FALSE)
        BY <1>2, <2>2 DEF WellPlaced
      <3> QED BY <1>4, <2>2, <3>1
    <2> QED BY <2>1, <2>2
  <1>7. t # <<>> BY <1>2, <1>4
  <1> QED BY <1>2, <1>3, <1>4, <1>5, <1>6, <1>7 DEF WellPlaced

----------------------------------------------------------------------------
(* What a step makes of the invariant, given the stack it leaves.  r is    *)
(* what the last call that ended gave back.                                *)
Results == {"expr", "node", "stmt", "block"}

LEMMA MakeInv ==
    ASSUME ParserInv, source' = source, NEW s, NEW r, NEW i \in 1..(Len(source) + 1),
           NEW c \in BOOLEAN, stack' = s, ret' = r, cur' = i, c <=> r = <<"call">>,
           WellPlaced(s, i, c), r[1] \in Results \cup {"call", "throw"},
           c /\ s # <<>> /\ s[Len(s)].fn \in {"ParseRetStmt", "ParseIfStmt"}
               => Kind(i) # "EOF"
    PROVE  ParserInv'
  <1>1. WellPlaced(s, i, r = <<"call">>) BY DEF WellPlaced
  <1>2. \A k \in 1..Len(s) : s[k].fn \in Functions BY DEF WellPlaced, FrameOK
  <1>3. TypeOK' BY <1>2 DEF ParserInv, TypeOK, Results
  <1>4. AtKeyword' BY DEF AtKeyword, Called, Top, Kind
  <1>5. WellPlaced(stack, cur, Called)' BY <1>1 DEF Called, WellPlaced
  <1> QED BY <1>3, <1>4, <1>5 DEF ParserInv

LEMMA EmptyStack ==
    ASSUME NEW i, NEW c PROVE WellPlaced(<<>>, i, c)
  <1>1. <<>> \in Seq(Range(<<>>)) /\ Len(<<>>) = 0 OBVIOUS
  <1> QED BY <1>1 DEF WellPlaced

LEMMA StepsLeftOf ==
    ASSUME NEW s, NEW r
    PROVE  /\ r[1] = "throw" => StepsLeft(s, r) = 0
           /\ r[1] = "block" => StepsLeft(s, r) = 1
           /\ r[1] \in {"expr", "node", "stmt"} => StepsLeft(s, r) = 8 + Len(s)
           /\ r = <<"call">> => StepsLeft(s, r) = IF s = <<>> THEN 7 ELSE CallsLeft(s[Len(s)].fn)
  <1>1. r[1] # "call" => r # <<"call">> OBVIOUS
  <1>2. r = <<"call">> => r[1] = "call" OBVIOUS
  <1> QED BY <1>1, <1>2 DEF StepsLeft

LEMMA ThrownKeepsInv ==
    ASSUME ParserInv, source' = source, cur' \in cur..(Len(source) + 1),
           stack' = <<>>, ret'[1] = "throw",
           cur' > cur \/ StepsLeft(stack, ret) > 0
    PROVE  ParserInv' /\ Progress
  <1>1. PICK r, i, z : r = ret' /\ i = cur' /\ z = cur OBVIOUS
  <1>2. PICK n \in Nat : n = Len(source) BY TokensOfSource DEF ParserInv
  <1>3. z \in 1..(n + 1) /\ i \in z..(n + 1)
    BY <1>1, <1>2, TokensOfSource DEF ParserInv
  <1>4. i \in 1..(n + 1) BY <1>3
  <1>5. r # <<"call">> /\ r[1] = "throw" BY <1>1
  <1>6. ParserInv' BY <1>1, <1>2, <1>4, <1>5, EmptyStack, MakeInv
  <1>7. StepsLeft(stack', ret') = 0 BY StepsLeftOf
  <1>8. i > z \/ i = z BY <1>3
  <1> QED BY <1>1, <1>6, <1>7, <1>8 DEF Progress

(* Moving on reaches the token, or one before it that the lexer throws at. *)
LEMMA GoOnOutcome ==
    ASSUME ParserInv, NEW i \in cur..(Len(source) + 1), NEW s, NEW r, GoOn(i, s, r)
    PROVE  /\ source' = source
           /\ \/ cur' = i /\ stack' = s /\ ret' = r
              \/ ParserInv' /\ Progress
  <1>1. CASE Reads(i) BY <1>1 DEF GoOn
  <1>2. CASE ~Reads(i)
    <2>1. FirstBad(i) \in (cur + 1)..i BY <1>2, BadTokenAhead DEF ParserInv
    <2>2. cur' = FirstBad(i) /\ source' = source /\ stack' = <<>> /\ ret'[1] = "throw"
      BY <1>2 DEF GoOn, Throw
    <2>3. cur' \in cur..(Len(source) + 1) /\ cur' > cur
      BY <2>1, <2>2, TokensOfSource DEF ParserInv
    <2> QED BY <2>2, <2>3, ThrownKeepsInv
  <1> QED BY <1>1, <1>2

LEMMA StackTop ==
    ASSUME ParserInv, stack # <<>>
    PROVE  /\ Len(stack) \in Nat \ {0} /\ FrameOK(Top)
           /\ Len(stack) <= 2 * cur + Slack(Top.fn, Called)
           /\ cur \in Nat
  <1>1. stack \in Seq(Range(stack)) BY DEF ParserInv, WellPlaced
  <1>2. PICK n \in Nat \ {0} : n = Len(stack) BY <1>1, LenProperties, EmptySeq
  <1>3. n \in 1..n OBVIOUS
  <1>4. FrameOK(stack[n]) /\ n <= 2 * cur + Slack(stack[n].fn, Called)
    BY <1>2, <1>3 DEF ParserInv, WellPlaced, Slack
  <1> QED BY <1>2, <1>4, TokensOfSource DEF ParserInv, Top

LEMMA AnswerKeepsInv ==
    ASSUME ParserInv, stack # <<>>, NEW i \in cur..(Len(source) + 1), NEW r,
           Answer(i, r), r[1] \in Results,
           i > cur \/ StepsLeft(Below, r) < StepsLeft(stack, ret)
    PROVE  ParserInv' /\ Progress
  <1>1. PICK s, z : s = Below /\ z = cur OBVIOUS
  <1>2. CASE source' = source /\ cur' = i /\ stack' = s /\ ret' = r
    <2>1. i \in 1..(Len(source) + 1) /\ i \in Nat /\ z \in Nat /\ z <= i
      BY <1>1, TokensOfSource DEF ParserInv
    <2>2. WellPlaced(s, i, FALSE)
      <3>1. WellPlaced(stack, z, Called) BY <1>1 DEF ParserInv
      <3> QED BY <1>1, <2>1, <3>1, Popped DEF Below
    <2>3. r # <<"call">> BY DEF Results
    <2>4. ParserInv' BY <1>2, <2>1, <2>2, <2>3, MakeInv
    <2>5. Progress
      <3>1. i > z \/ i = z BY <2>1
      <3> QED BY <1>1, <1>2, <3>1 DEF Progress
    <2> QED BY <2>4, <2>5
  <1> QED BY <1>1, <1>2, GoOnOutcome DEF Answer

(* A step that pushes a frame on the stack s, and calls it.                *)
LEMMA PushKeepsInv ==
    ASSUME ParserInv, NEW i \in cur..(Len(source) + 1), NEW s, NEW callee,
           GoOn(i, Append(s, callee), <<"call">>),
           WellPlaced(s, i, FALSE), FrameOK(callee),
           Len(s) + 1 <= 2 * i + Slack(callee.fn, TRUE),
           callee.fn \in {"ParseRetStmt", "ParseIfStmt"} => Kind(i) # "EOF",
           i > cur \/ CallsLeft(callee.fn) < StepsLeft(stack, ret)
    PROVE  ParserInv' /\ Progress
  <1>1. PICK t, z : t = Append(s, callee) /\ z = cur OBVIOUS
  <1>2. CASE source' = source /\ cur' = i /\ stack' = t /\ ret' = <<"call">>
    <2>1. i \in 1..(Len(source) + 1) /\ i \in Nat /\ z \in Nat /\ z <= i
      BY <1>1, TokensOfSource DEF ParserInv
    <2>2. /\ WellPlaced(t, i, TRUE) /\ t # <<>>
          /\ t[Len(t)] = callee
      BY <1>1, <2>1, Pushed
    <2>3. ParserInv'
      <3>1. PICK r : r = <<"call">> OBVIOUS
      <3>2. r[1] = "call" BY <3>1
      <3> QED BY <1>2, <2>1, <2>2, <3>1, <3>2, MakeInv
    <2>4. Progress
      <3>1. i > z \/ i = z BY <2>1
      <3>2. StepsLeft(t, <<"call">>) = CallsLeft(callee.fn) BY <2>2, StepsLeftOf
      <3> QED BY <1>1, <1>2, <3>1, <3>2 DEF Progress
    <2> QED BY <2>3, <2>4
  <1> QED BY <1>1, <1>2, GoOnOutcome

(* The top function, as frame, calls callee.                               *)
LEMMA CallKeepsInv ==
    ASSUME ParserInv, stack # <<>>, NEW i \in cur..(Len(source) + 1),
           NEW frame, NEW callee,
           CallFrom(i, frame, callee), FrameOK(frame), FrameOK(callee),
           Len(stack) <= 2 * i + Slack(frame.fn, FALSE),
           Len(stack) + 1 <= 2 * i + Slack(callee.fn, TRUE),
           callee.fn \in {"ParseRetStmt", "ParseIfStmt"} => Kind(i) # "EOF",
           i > cur \/ CallsLeft(callee.fn) < StepsLeft(stack, ret)
    PROVE  ParserInv' /\ Progress
  <1>1. PICK s, t : s = Below /\ t = Append(s, frame) OBVIOUS
  <1>2. i \in Nat /\ cur \in Nat /\ cur <= i
    BY TokensOfSource DEF ParserInv
  <1>3. WellPlaced(s, i, FALSE) /\ Len(s) = Len(stack) - 1 /\ Len(stack) \in Nat \ {0}
    <2>1. WellPlaced(stack, cur, Called) BY DEF ParserInv
    <2> QED BY <1>1, <1>2, <2>1, Popped DEF Below
  <1>4. Len(s) + 1 = Len(stack) BY <1>3
  <1>5. WellPlaced(t, i, FALSE) /\ Len(t) = Len(stack)
    <2>1. Len(s) + 1 <= 2 * i + Slack(frame.fn, FALSE) BY <1>4
    <2>2. WellPlaced(t, i, FALSE) /\ Len(t) = Len(s) + 1
      BY <1>1, <1>2, <1>3, <2>1, Pushed
    <2> QED BY <1>4, <2>2
  <1>6. Len(t) + 1 <= 2 * i + Slack(callee.fn, TRUE) BY <1>5
  <1>7. GoOn(i, Append(t, callee), <<"call">>) BY <1>1 DEF CallFrom
  <1> QED BY <1>5, <1>6, <1>7, PushKeepsInv

LEMMA RefuseKeepsInv ==
    ASSUME ParserInv, NEW i \in cur..(Len(source) + 1), Refuse(i),
           i > cur \/ StepsLeft(stack, ret) > 0
    PROVE  ParserInv' /\ Progress
  <1>1. CASE Reads(i) BY <1>1, ThrownKeepsInv DEF Refuse, Throw
  <1>2. CASE ~Reads(i)
    <2>1. FirstBad(i) \in (cur + 1)..i BY <1>2, BadTokenAhead DEF ParserInv
    <2>2. cur' = FirstBad(i) /\ source' = source /\ stack' = <<>> /\ ret'[1] = "throw"
      BY <1>2 DEF Refuse, Throw
    <2>3. cur' \in cur..(Len(source) + 1) /\ cur' > cur
      BY <2>1, <2>2, TokensOfSource DEF ParserInv
    <2> QED BY <2>2, <2>3, ThrownKeepsInv
  <1> QED BY <1>1, <1>2

----------------------------------------------------------------------------
(* What the steps have in common.                                          *)
LEMMA NextToken ==
    ASSUME TypeOK, NEW i \in cur..(Len(source) + 1), Kind(i) # "EOF"
    PROVE  i + 1 \in cur..(Len(source) + 1) /\ i + 1 > cur
  <1>1. i \in Nat BY TokensOfSource
  <1>2. i <= Len(source) BY <1>1, TokensOfSource
  <1> QED BY <1>1, <1>2, TokensOfSource

LEMMA Frames ==
    /\ \A fn \in Functions \ {"ParseExpr"} : FrameOK(PlainFrame(fn)) /\ PlainFrame(fn).fn = fn
    /\ \A min \in Nat : FrameOK(ExprFrame(min)) /\ ExprFrame(min).fn = "ParseExpr"
    /\ \A ends : FrameOK(BlockFrame(ends)) /\ BlockFrame(ends).fn = "ParseBlock"
    /\ \A c, t : FrameOK(IfFrame(c, t)) /\ IfFrame(c, t).fn = "ParseIfStmt"
  BY DEF FrameOK, PlainFrame, ExprFrame, BlockFrame, IfFrame, Functions

LEMMA CursorIsHere ==
    ASSUME TypeOK PROVE cur \in Nat /\ cur \in cur..(Len(source) + 1)
  <1>1. PICK n \in Nat : n = Len(source) BY TokensOfSource
  <1>2. cur \in 1..(n + 1) BY <1>1, TokensOfSource
  <1> QED BY <1>1, <1>2

LEMMA BelowIsPlaced ==
    ASSUME ParserInv, stack # <<>>
    PROVE  /\ WellPlaced(Below, cur, FALSE)
           /\ Len(Below) = Len(stack) - 1 /\ Len(Below) + 1 = Len(stack)
  <1>1. PICK z \in Nat : z = cur BY CursorIsHere DEF ParserInv
  <1>2. PICK s : s = Below OBVIOUS
  <1>3. WellPlaced(stack, z, Called) /\ z <= z BY <1>1 DEF ParserInv
  <1>4. WellPlaced(s, z, FALSE) /\ Len(s) = Len(stack) - 1 /\ Len(stack) \in Nat \ {0}
    BY <1>2, <1>3, Popped DEF Below
  <1>5. Len(s) + 1 = Len(stack) BY <1>4
  <1> QED BY <1>1, <1>2, <1>4, <1>5

(* The step of a function that is called.                                  *)
LEMMA CalledFunction ==
    ASSUME ParserInv, NEW fn, In(fn), Called
    PROVE  /\ stack # <<>> /\ Top.fn = fn /\ FrameOK(Top) /\ fn \in Functions
           /\ Len(stack) \in Nat \ {0} /\ cur \in Nat
           /\ Len(stack) <= 2 * cur + Slack(fn, TRUE)
           /\ StepsLeft(stack, ret) = CallsLeft(fn)
           /\ cur \in cur..(Len(source) + 1)
  <1>1. stack # <<>> /\ Top.fn = fn BY DEF In
  <1>2. StepsLeft(stack, ret) = CallsLeft(fn)
    BY <1>1, StepsLeftOf DEF Called, Top
  <1>3. Len(stack) <= 2 * cur + Slack(fn, TRUE)
    BY <1>1, StackTop DEF Slack
  <1>4. fn \in Functions BY <1>1, StackTop DEF FrameOK
  <1>5. cur \in Nat /\ cur \in cur..(Len(source) + 1) BY CursorIsHere DEF ParserInv
  <1> QED BY <1>1, <1>2, <1>3, <1>4, <1>5, StackTop

(* The step of a function that has got something back.                     *)
LEMMA WaitingFunction ==
    ASSUME ParserInv, NEW fn, In(fn), NEW what \in Results, Got(what)
    PROVE  /\ stack # <<>> /\ Top.fn = fn /\ FrameOK(Top) /\ fn \in Functions
           /\ Len(stack) \in Nat \ {0} /\ cur \in Nat
           /\ Len(stack) <= 2 * cur + Slack(fn, FALSE)
           /\ StepsLeft(stack, ret) = IF what = "block" THEN 1 ELSE 8 + Len(stack)
           /\ cur \in cur..(Len(source) + 1)
  <1>1. stack # <<>> /\ Top.fn = fn BY DEF In
  <1>2. StepsLeft(stack, ret) = IF what = "block" THEN 1 ELSE 8 + Len(stack)
    BY StepsLeftOf DEF Got, Results
  <1>3. ~Called BY DEF Called, Got, Results
  <1>4. Len(stack) <= 2 * cur + Slack(fn, FALSE)
    BY <1>1, <1>3, StackTop DEF Slack
  <1>5. fn \in Functions BY <1>1, StackTop DEF FrameOK
  <1>6. cur \in Nat /\ cur \in cur..(Len(source) + 1) BY CursorIsHere DEF ParserInv
  <1> QED BY <1>1, <1>2, <1>4, <1>5, <1>6, StackTop

(* A function hands on what it has made of what it got.                    *)
LEMMA HandOnKeepsInv ==
    ASSUME ParserInv, NEW fn, In(fn), NEW what \in Results \ {"block"}, Got(what),
           NEW r, r[1] \in Results, Answer(cur, r)
    PROVE  ParserInv' /\ Progress
  <1>1. /\ stack # <<>> /\ StepsLeft(stack, ret) = 8 + Len(stack)
        /\ cur \in cur..(Len(source) + 1) /\ Len(stack) \in Nat \ {0}
    BY WaitingFunction
  <1>2. Len(Below) = Len(stack) - 1 BY <1>1, BelowIsPlaced
  <1>3. StepsLeft(Below, r) < StepsLeft(stack, ret)
    BY <1>1, <1>2, StepsLeftOf DEF Results
  <1> QED BY <1>1, <1>3, AnswerKeepsInv

----------------------------------------------------------------------------
(* The statements and blocks.                                              *)
LEMMA StartParseKeepsInv ==
    ASSUME ParserInv, StartParse PROVE ParserInv' /\ Progress
  <1>1. stack = <<>> /\ StepsLeft(stack, ret) = 7
    BY StepsLeftOf DEF StartParse, Called
  <1>2. cur \in 1..(Len(source) + 1) /\ cur \in cur..(Len(source) + 1) /\ cur' = cur /\ source' = source
    BY TokensOfSource DEF StartParse, ParserInv
  <1>3. CASE Kind(1) = "Bad"
    BY <1>1, <1>2, <1>3, ThrownKeepsInv DEF StartParse, Throw
  <1>4. CASE Kind(1) # "Bad"
    <2>1. PICK f, r, s : f = BlockFrame({}) /\ r = <<"call">> /\ s = <<f>> OBVIOUS
    <2>2. stack' = s /\ ret' = r BY <1>4, <2>1 DEF StartParse
    <2>3. FrameOK(f) /\ f.fn = "ParseBlock" BY <2>1, Frames
    <2>4. s \in Seq(Range(s)) /\ Len(s) = 1 /\ s[1] = f BY <2>1 DEF Range
    <2>5. WellPlaced(s, cur, TRUE)
      <3>1. 1 <= 2 * cur + Slack("ParseBlock", TRUE) BY <1>2 DEF Slack
      <3> QED BY <2>3, <2>4, <3>1 DEF WellPlaced, Slack
    <2>6. r[1] = "call" /\ s[Len(s)].fn = "ParseBlock" BY <2>1, <2>3, <2>4
    <2>7. ParserInv' BY <1>2, <2>1, <2>2, <2>5, <2>6, MakeInv
    <2>8. StepsLeft(s, r) = CallsLeft("ParseBlock") BY <2>1, <2>4, <2>6, StepsLeftOf
    <2> QED BY <1>1, <1>2, <2>2, <2>7, <2>8 DEF Progress, CallsLeft
  <1> QED BY <1>3, <1>4

LEMMA BlockEndsKeepsInv ==
    ASSUME ParserInv, BlockEnds PROVE ParserInv' /\ Progress
  <1>1. In("ParseBlock") /\ Called BY DEF BlockEnds
  <1>2. PICK i, r : i = AfterSemicolons(cur) /\ r = <<"block", Block(Top.stmts, i)>> OBVIOUS
  <1>3. Answer(i, r) BY <1>2 DEF BlockEnds
  <1>4. i \in cur..(Len(source) + 1)
    BY <1>2, SemicolonsEnd, TokensOfSource DEF ParserInv
  <1>5. r[1] = "block" BY <1>2
  <1>6. StepsLeft(stack, ret) = 6 /\ stack # <<>>
    <2>1. StepsLeft(stack, ret) = CallsLeft("ParseBlock") /\ stack # <<>>
      BY <1>1, CalledFunction
    <2> QED BY <2>1 DEF CallsLeft
  <1>7. StepsLeft(Below, r) = 1 BY <1>5, StepsLeftOf
  <1> QED BY <1>3, <1>4, <1>5, <1>6, <1>7, AnswerKeepsInv DEF Results

LEMMA BlockGoesOnKeepsInv ==
    ASSUME ParserInv, BlockGoesOn PROVE ParserInv' /\ Progress
  <1>1. In("ParseBlock") /\ Called BY DEF BlockGoesOn
  <1>2. PICK i, f, c : i = AfterSemicolons(cur) /\ f = Top /\ c = PlainFrame("ParseStmt")
    OBVIOUS
  <1>3. CallFrom(i, f, c) BY <1>2 DEF BlockGoesOn
  <1>4. i \in cur..(Len(source) + 1)
    BY <1>2, SemicolonsEnd, TokensOfSource DEF ParserInv
  <1>5. /\ StepsLeft(stack, ret) = 6 /\ stack # <<>> /\ Top.fn = "ParseBlock" /\ FrameOK(Top)
        /\ Len(stack) <= 2 * cur - 1 /\ Len(stack) \in Nat /\ cur \in Nat
    <2>1. /\ StepsLeft(stack, ret) = CallsLeft("ParseBlock") /\ stack # <<>>
          /\ Top.fn = "ParseBlock" /\ Len(stack) <= 2 * cur + Slack("ParseBlock", TRUE)
          /\ Len(stack) \in Nat /\ cur \in Nat /\ FrameOK(Top)
      BY <1>1, CalledFunction
    <2> QED BY <2>1 DEF CallsLeft, Slack
  <1>6. FrameOK(f) /\ f.fn = "ParseBlock" BY <1>2, <1>5
  <1>7. FrameOK(c) /\ c.fn = "ParseStmt" BY <1>2, Frames DEF Functions
  <1>8. /\ Len(stack) <= 2 * i + Slack(f.fn, FALSE)
        /\ Len(stack) + 1 <= 2 * i + Slack(c.fn, TRUE)
    BY <1>4, <1>5, <1>6, <1>7 DEF Slack
  <1>9. CallsLeft(c.fn) < StepsLeft(stack, ret) BY <1>5, <1>7 DEF CallsLeft
  <1> QED BY <1>3, <1>4, <1>5, <1>6, <1>7, <1>8, <1>9, CallKeepsInv

LEMMA BlockGotStatementKeepsInv ==
    ASSUME ParserInv, BlockGotStatement PROVE ParserInv' /\ Progress
  <1>1. In("ParseBlock") /\ Got("stmt") BY DEF BlockGotStatement
  <1>2. /\ StepsLeft(stack, ret) = 8 + Len(stack) /\ stack # <<>> /\ Top.fn = "ParseBlock"
        /\ Len(stack) <= 2 * cur - 1 /\ Len(stack) \in Nat \ {0} /\ cur \in Nat
        /\ FrameOK(Top) /\ cur \in cur..(Len(source) + 1)
    BY <1>1, WaitingFunction DEF Slack, Results
  <1>3. PICK stmts : stmts = Append(Top.stmts, ret[2]) OBVIOUS
  <1>4. CASE ret[2].node.kind = "ReturnStatement"
    <2>1. EnsureBlockEndsAfterReturn(stmts) BY <1>3, <1>4 DEF BlockGotStatement
    <2>2. PICK i, r : i = AfterSemicolons(cur) /\ r = <<"block", Block(stmts, i)>> OBVIOUS
    <2>3. i \in cur..(Len(source) + 1)
      BY <2>2, SemicolonsEnd, TokensOfSource DEF ParserInv
    <2>4. CASE Answer(i, r)
      <3>1. r[1] = "block" BY <2>2
      <3>2. StepsLeft(Below, r) = 1 BY <3>1, StepsLeftOf
      <3>3. StepsLeft(Below, r) < StepsLeft(stack, ret) BY <1>2, <3>2
      <3> QED BY <1>2, <2>3, <2>4, <3>1, <3>3, AnswerKeepsInv DEF Results
    <2>5. CASE cur' = i /\ Throw("TokenAfterReturn", TokenSpan(i)) /\ UNCHANGED source
      BY <1>2, <2>3, <2>5, ThrownKeepsInv DEF Throw
    <2> QED BY <2>1, <2>2, <2>4, <2>5 DEF EnsureBlockEndsAfterReturn
  <1>5. CASE ret[2].node.kind # "ReturnStatement"
    <2>1. PICK f : f = [Top EXCEPT !.stmts = stmts] OBVIOUS
    <2>2. GoOn(cur, Append(Below, f), <<"call">>)
      BY <1>3, <1>5, <2>1 DEF BlockGotStatement
    <2>3. FrameOK(f) /\ f.fn = "ParseBlock" BY <1>2, <2>1 DEF FrameOK
    <2>4. WellPlaced(Below, cur, FALSE) /\ Len(Below) + 1 = Len(stack)
      BY <1>2, BelowIsPlaced
    <2>5. Len(Below) + 1 <= 2 * cur + Slack(f.fn, TRUE) BY <1>2, <2>3, <2>4 DEF Slack
    <2>6. CallsLeft(f.fn) < StepsLeft(stack, ret) BY <1>2, <2>3 DEF CallsLeft
    <2> QED BY <1>2, <2>2, <2>3, <2>4, <2>5, <2>6, PushKeepsInv
  <1> QED BY <1>4, <1>5

LEMMA DispatchStatementKeepsInv ==
    ASSUME ParserInv, DispatchStatement PROVE ParserInv' /\ Progress
  <1>1. In("ParseStmt") /\ Called BY DEF DispatchStatement
  <1>2. /\ StepsLeft(stack, ret) = 5 /\ stack # <<>> /\ Len(stack) <= 2 * cur
        /\ Len(stack) \in Nat \ {0} /\ cur \in Nat /\ cur \in cur..(Len(source) + 1)
    <2>1. /\ StepsLeft(stack, ret) = CallsLeft("ParseStmt") /\ stack # <<>>
          /\ Len(stack) <= 2 * cur + Slack("ParseStmt", TRUE)
          /\ Len(stack) \in Nat \ {0} /\ cur \in Nat /\ cur \in cur..(Len(source) + 1)
      BY <1>1, CalledFunction
    <2> QED BY <2>1 DEF CallsLeft, Slack
  <1>3. PICK callee : callee = StatementParser(Kind(cur)) OBVIOUS
  <1>4. PICK early :
            CallFrom(cur, [fn |-> "MakeStatement", start |-> cur, early |-> early], callee)
    BY <1>3 DEF DispatchStatement
  <1>5. PICK f : f = [fn |-> "MakeStatement", start |-> cur, early |-> early] OBVIOUS
  <1>6. FrameOK(f) /\ f.fn = "MakeStatement" BY <1>5 DEF FrameOK, Functions
  <1>7. /\ FrameOK(callee)
        /\ callee.fn \in {"ParseVarDecl", "ParseRetStmt", "ParseExprStmt", "ParseIfStmt"}
        /\ callee.fn \in {"ParseRetStmt", "ParseIfStmt"} => Kind(cur) # "EOF"
    BY <1>3, Frames DEF StatementParser, Functions
  <1>8. /\ Len(stack) <= 2 * cur + Slack(f.fn, FALSE)
        /\ Len(stack) + 1 <= 2 * cur + Slack(callee.fn, TRUE)
    BY <1>2, <1>6, <1>7 DEF Slack
  <1>9. CallsLeft(callee.fn) < StepsLeft(stack, ret) BY <1>2, <1>7 DEF CallsLeft
  <1> QED BY <1>2, <1>4, <1>5, <1>6, <1>7, <1>8, <1>9, CallKeepsInv

LEMMA ParseVarDeclKeepsInv ==
    ASSUME ParserInv, ParseVarDecl PROVE ParserInv' /\ Progress
  <1>1. In("ParseVarDecl") /\ Called BY DEF ParseVarDecl
  <1>2. /\ StepsLeft(stack, ret) = 4 /\ stack # <<>> /\ Len(stack) <= 2 * cur + 1
        /\ Len(stack) \in Nat \ {0} /\ cur \in Nat /\ cur \in cur..(Len(source) + 1)
    <2>1. /\ StepsLeft(stack, ret) = CallsLeft("ParseVarDecl") /\ stack # <<>>
          /\ Len(stack) <= 2 * cur + Slack("ParseVarDecl", TRUE)
          /\ Len(stack) \in Nat \ {0} /\ cur \in Nat /\ cur \in cur..(Len(source) + 1)
      BY <1>1, CalledFunction
    <2> QED BY <2>1 DEF CallsLeft, Slack
  <1>3. PICK name : name = IF Kind(cur) = "local" THEN cur + 1 ELSE cur OBVIOUS
  <1>4. name \in cur..(Len(source) + 1)
    BY <1>2, <1>3, NextToken DEF ParserInv
  <1>5. CASE Kind(name) # "Name"
    <2>1. Refuse(name) BY <1>3, <1>5 DEF ParseVarDecl
    <2> QED BY <1>2, <1>4, <2>1, RefuseKeepsInv
  <1>6. CASE Kind(name) = "Name" /\ Kind(name + 1) = "="
    <2>1. PICK f, e : f = [fn |-> "Initializer", name |-> name] /\ e = ExprFrame(0) OBVIOUS
    <2>2. CallFrom(name + 2, f, e) BY <1>3, <1>6, <2>1 DEF ParseVarDecl
    <2>3. name + 1 \in cur..(Len(source) + 1) BY <1>4, <1>6, NextToken DEF ParserInv
    <2>4. name + 1 + 1 \in cur..(Len(source) + 1) /\ name + 1 + 1 > cur
      BY <1>6, <2>3, NextToken DEF ParserInv
    <2>5. PICK i : i = name + 2 OBVIOUS
    <2>6. i \in cur..(Len(source) + 1) /\ i > cur BY <1>2, <1>4, <2>4, <2>5
    <2>7. FrameOK(f) /\ f.fn = "Initializer" BY <2>1 DEF FrameOK, Functions
    <2>8. FrameOK(e) /\ e.fn = "ParseExpr" BY <2>1, Frames
    <2>9. /\ Len(stack) <= 2 * i + Slack(f.fn, FALSE)
          /\ Len(stack) + 1 <= 2 * i + Slack(e.fn, TRUE)
      BY <1>2, <2>6, <2>7, <2>8 DEF Slack
    <2> QED BY <1>2, <2>2, <2>5, <2>6, <2>7, <2>8, <2>9, CallKeepsInv
  <1>7. CASE Kind(name) = "Name" /\ Kind(name + 1) # "="
    <2>1. PICK r : r = <<"node", VarDecl(name, <<>>)>> OBVIOUS
    <2>2. Answer(name + 1, r) BY <1>3, <1>7, <2>1 DEF ParseVarDecl
    <2>3. PICK i : i = name + 1 OBVIOUS
    <2>4. i \in cur..(Len(source) + 1) BY <1>4, <1>7, <2>3, NextToken DEF ParserInv
    <2>5. i > cur BY <1>2, <1>4, <2>3
    <2>6. r[1] \in Results BY <2>1 DEF Results
    <2> QED BY <1>2, <2>2, <2>3, <2>4, <2>5, <2>6, AnswerKeepsInv
  <1> QED BY <1>5, <1>6, <1>7

LEMMA ParseRetStmtKeepsInv ==
    ASSUME ParserInv, ParseRetStmt PROVE ParserInv' /\ Progress
  <1>1. In("ParseRetStmt") /\ Called BY DEF ParseRetStmt
  <1>2. /\ stack # <<>> /\ Len(stack) <= 2 * cur + 1 /\ FrameOK(Top) /\ Top.fn = "ParseRetStmt"
        /\ Len(stack) \in Nat \ {0} /\ cur \in Nat /\ cur \in cur..(Len(source) + 1)
    BY <1>1, CalledFunction DEF Slack
  <1>3. PICK i : i = cur + 1 OBVIOUS
  <1>4. Kind(cur) # "EOF" BY <1>1, <1>2 DEF ParserInv, AtKeyword
  <1>5. i \in cur..(Len(source) + 1) /\ i > cur
    BY <1>2, <1>3, <1>4, NextToken DEF ParserInv
  <1>6. CASE Kind(cur + 1) \in {"EOF", ";"}
    <2>1. PICK r : r = <<"node", Return(<<>>)>> OBVIOUS
    <2>2. Answer(i, r) BY <1>3, <1>6, <2>1 DEF ParseRetStmt
    <2>3. r[1] \in Results BY <2>1 DEF Results
    <2> QED BY <1>2, <1>5, <2>2, <2>3, AnswerKeepsInv
  <1>7. CASE Kind(cur + 1) \notin {"EOF", ";"}
    <2>1. PICK f, e : f = Top /\ e = ExprFrame(0) OBVIOUS
    <2>2. CallFrom(i, f, e) BY <1>3, <1>7, <2>1 DEF ParseRetStmt
    <2>3. FrameOK(e) /\ e.fn = "ParseExpr" BY <2>1, Frames
    <2>4. FrameOK(f) /\ f.fn = "ParseRetStmt" BY <1>2, <2>1
    <2>5. /\ Len(stack) <= 2 * i + Slack(f.fn, FALSE)
          /\ Len(stack) + 1 <= 2 * i + Slack(e.fn, TRUE)
      BY <1>2, <1>5, <2>3, <2>4 DEF Slack
    <2> QED BY <1>2, <1>5, <2>2, <2>3, <2>4, <2>5, CallKeepsInv
  <1> QED BY <1>6, <1>7

LEMMA ParseExprStmtKeepsInv ==
    ASSUME ParserInv, ParseExprStmt PROVE ParserInv' /\ Progress
  <1>1. In("ParseExprStmt") /\ Called BY DEF ParseExprStmt
  <1>2. /\ stack # <<>> /\ Len(stack) <= 2 * cur + 1 /\ FrameOK(Top) /\ Top.fn = "ParseExprStmt"
        /\ StepsLeft(stack, ret) = CallsLeft("ParseExprStmt")
        /\ Len(stack) \in Nat \ {0} /\ cur \in Nat /\ cur \in cur..(Len(source) + 1)
    BY <1>1, CalledFunction DEF Slack
  <1>3. PICK f, e : f = Top /\ e = ExprFrame(0) OBVIOUS
  <1>4. CallFrom(cur, f, e) BY <1>3 DEF ParseExprStmt
  <1>5. FrameOK(e) /\ e.fn = "ParseExpr" BY <1>3, Frames
  <1>6. FrameOK(f) /\ f.fn = "ParseExprStmt" BY <1>2, <1>3
  <1>7. /\ Len(stack) <= 2 * cur + Slack(f.fn, FALSE)
        /\ Len(stack) + 1 <= 2 * cur + Slack(e.fn, TRUE)
    BY <1>2, <1>5, <1>6 DEF Slack
  <1>8. CallsLeft(e.fn) < StepsLeft(stack, ret) BY <1>2, <1>5 DEF CallsLeft
  <1> QED BY <1>2, <1>4, <1>5, <1>6, <1>7, <1>8, CallKeepsInv

LEMMA ParseIfStmtKeepsInv ==
    ASSUME ParserInv, ParseIfStmt PROVE ParserInv' /\ Progress
  <1>1. In("ParseIfStmt") /\ Called BY DEF ParseIfStmt
  <1>2. /\ stack # <<>> /\ Len(stack) <= 2 * cur + 1 /\ FrameOK(Top) /\ Top.fn = "ParseIfStmt"
        /\ Len(stack) \in Nat \ {0} /\ cur \in Nat /\ cur \in cur..(Len(source) + 1)
    BY <1>1, CalledFunction DEF Slack
  <1>3. PICK i, f, e : i = cur + 1 /\ f = Top /\ e = ExprFrame(0) OBVIOUS
  <1>4. Kind(cur) # "EOF" BY <1>1, <1>2 DEF ParserInv, AtKeyword
  <1>5. i \in cur..(Len(source) + 1) /\ i > cur
    BY <1>2, <1>3, <1>4, NextToken DEF ParserInv
  <1>6. CallFrom(i, f, e) BY <1>3 DEF ParseIfStmt
  <1>7. FrameOK(e) /\ e.fn = "ParseExpr" BY <1>3, Frames
  <1>8. FrameOK(f) /\ f.fn = "ParseIfStmt" BY <1>2, <1>3
  <1>9. /\ Len(stack) <= 2 * i + Slack(f.fn, FALSE)
        /\ Len(stack) + 1 <= 2 * i + Slack(e.fn, TRUE)
    BY <1>2, <1>3, <1>7, <1>8 DEF Slack
  <1> QED BY <1>2, <1>5, <1>6, <1>7, <1>8, <1>9, CallKeepsInv

(* An if waits with its keyword consumed; it goes on at `then` and `else`. *)
LEMMA IfCallsBlock ==
    ASSUME ParserInv, In("ParseIfStmt"), NEW what \in Results, Got(what),
           Kind(cur) # "EOF", NEW c, NEW t, NEW ends,
           CallFrom(cur + 1, IfFrame(c, t), BlockFrame(ends))
    PROVE  ParserInv' /\ Progress
  <1>1. /\ stack # <<>> /\ Len(stack) <= 2 * cur - 1
        /\ Len(stack) \in Nat \ {0} /\ cur \in Nat /\ cur \in cur..(Len(source) + 1)
    <2>1. /\ stack # <<>> /\ Len(stack) <= 2 * cur + Slack("ParseIfStmt", FALSE)
          /\ Len(stack) \in Nat \ {0} /\ cur \in Nat /\ cur \in cur..(Len(source) + 1)
      BY WaitingFunction
    <2> QED BY <2>1 DEF Slack
  <1>2. PICK i, f, b : i = cur + 1 /\ f = IfFrame(c, t) /\ b = BlockFrame(ends) OBVIOUS
  <1>3. i \in cur..(Len(source) + 1) /\ i > cur BY <1>1, <1>2, NextToken DEF ParserInv
  <1>4. /\ FrameOK(f) /\ f.fn = "ParseIfStmt" /\ FrameOK(b) /\ b.fn = "ParseBlock"
    BY <1>2, Frames
  <1>5. /\ Len(stack) <= 2 * i + Slack(f.fn, FALSE)
        /\ Len(stack) + 1 <= 2 * i + Slack(b.fn, TRUE)
    BY <1>1, <1>2, <1>4 DEF Slack
  <1> QED BY <1>1, <1>2, <1>3, <1>4, <1>5, CallKeepsInv

(* It ends at `end`, or with an error.                                     *)
LEMMA IfEnds ==
    ASSUME ParserInv, In("ParseIfStmt"), NEW what \in Results, Got(what),
           \/ Refuse(cur)
           \/ Kind(cur) # "EOF" /\ \E n : Answer(cur + 1, <<"node", n>>)
    PROVE  ParserInv' /\ Progress
  <1>1. /\ stack # <<>> /\ StepsLeft(stack, ret) > 0
        /\ cur \in Nat /\ cur \in cur..(Len(source) + 1)
    <2>1. /\ stack # <<>> /\ StepsLeft(stack, ret) = IF what = "block" THEN 1 ELSE 8 + Len(stack)
          /\ Len(stack) \in Nat \ {0} /\ cur \in Nat /\ cur \in cur..(Len(source) + 1)
      BY WaitingFunction
    <2> QED BY <2>1
  <1>2. CASE Refuse(cur) BY <1>1, <1>2, RefuseKeepsInv
  <1>3. CASE Kind(cur) # "EOF" /\ \E n : Answer(cur + 1, <<"node", n>>)
    <2>1. PICK n : Answer(cur + 1, <<"node", n>>) BY <1>3
    <2>2. PICK i, r : i = cur + 1 /\ r = <<"node", n>> OBVIOUS
    <2>3. i \in cur..(Len(source) + 1) /\ i > cur BY <1>1, <1>3, <2>2, NextToken DEF ParserInv
    <2>4. r[1] \in Results BY <2>2 DEF Results
    <2> QED BY <1>1, <2>1, <2>2, <2>3, <2>4, AnswerKeepsInv
  <1> QED BY <1>2, <1>3

LEMMA IfGotConditionKeepsInv ==
    ASSUME ParserInv, IfGotCondition PROVE ParserInv' /\ Progress
  <1>1. In("ParseIfStmt") /\ Got("expr") /\ "expr" \in Results
    BY DEF IfGotCondition, Results
  <1>2. CASE Kind(cur) = "then"
    <2>1. CallFrom(cur + 1, IfFrame(<<ret[2]>>, <<>>), BlockFrame({"else", "end"}))
      BY <1>2 DEF IfGotCondition
    <2> QED BY <1>1, <1>2, <2>1, IfCallsBlock
  <1>3. CASE Kind(cur) # "then"
    <2>1. Refuse(cur) BY <1>3 DEF IfGotCondition
    <2> QED BY <1>1, <2>1, IfEnds
  <1> QED BY <1>2, <1>3

LEMMA IfGotThenBranchKeepsInv ==
    ASSUME ParserInv, IfGotThenBranch PROVE ParserInv' /\ Progress
  <1>1. In("ParseIfStmt") /\ Got("block") /\ "block" \in Results
    BY DEF IfGotThenBranch, Results
  <1>2. CASE Kind(cur) = "else"
    <2>1. CallFrom(cur + 1, IfFrame(Top.cond, <<ret[2]>>), BlockFrame({"end"}))
      BY <1>2 DEF IfGotThenBranch
    <2> QED BY <1>1, <1>2, <2>1, IfCallsBlock
  <1>3. CASE Kind(cur) = "end"
    <2>1. Answer(cur + 1, <<"node", If(Top.cond[1], ret[2], <<>>)>>)
      BY <1>3 DEF IfGotThenBranch
    <2>2. Kind(cur) # "EOF" BY <1>3
    <2> QED BY <1>1, <2>1, <2>2, IfEnds
  <1>4. CASE Kind(cur) \notin {"else", "end"}
    <2>1. Refuse(cur) BY <1>4 DEF IfGotThenBranch
    <2> QED BY <1>1, <2>1, IfEnds
  <1> QED BY <1>2, <1>3, <1>4

LEMMA IfGotElseBranchKeepsInv ==
    ASSUME ParserInv, IfGotElseBranch PROVE ParserInv' /\ Progress
  <1>1. In("ParseIfStmt") /\ Got("block") /\ "block" \in Results
    BY DEF IfGotElseBranch, Results
  <1>2. CASE Kind(cur) = "end"
    <2>1. Answer(cur + 1, <<"node", If(Top.cond[1], Top.then[1], <<ret[2]>>)>>)
      BY <1>2 DEF IfGotElseBranch
    <2>2. Kind(cur) # "EOF" BY <1>2
    <2> QED BY <1>1, <2>1, <2>2, IfEnds
  <1>3. CASE Kind(cur) # "end"
    <2>1. Refuse(cur) BY <1>3 DEF IfGotElseBranch
    <2> QED BY <1>1, <2>1, IfEnds
  <1> QED BY <1>2, <1>3

(* The steps that hand on a node built from the one they got.              *)
LEMMA StatementsHandOn ==
    ASSUME ParserInv,
           MakeStatement \/ VarDeclInitialized \/ RetStmtGotExpr \/ ExprStmtGotExpr
    PROVE  ParserInv' /\ Progress
  <1>0. {"expr", "node", "stmt"} \subseteq Results \ {"block"} BY DEF Results
  <1>1. CASE MakeStatement
    <2>1. In("MakeStatement") /\ Got("node") BY <1>1 DEF MakeStatement
    <2>2. PICK r : r = <<"stmt", [node |-> ret[2], span |-> StatementSpan(Top)]>> OBVIOUS
    <2>3. Answer(cur, r) BY <1>1, <2>2 DEF MakeStatement
    <2>4. r[1] \in Results BY <2>2 DEF Results
    <2> QED BY <1>0, <2>1, <2>3, <2>4, HandOnKeepsInv
  <1>2. CASE VarDeclInitialized
    <2>1. In("Initializer") /\ Got("expr") BY <1>2 DEF VarDeclInitialized
    <2>2. PICK r : r = <<"node", VarDecl(Top.name, <<ret[2]>>)>> OBVIOUS
    <2>3. Answer(cur, r) BY <1>2, <2>2 DEF VarDeclInitialized
    <2>4. r[1] \in Results BY <2>2 DEF Results
    <2> QED BY <1>0, <2>1, <2>3, <2>4, HandOnKeepsInv
  <1>3. CASE RetStmtGotExpr
    <2>1. In("ParseRetStmt") /\ Got("expr") BY <1>3 DEF RetStmtGotExpr
    <2>2. PICK r : r = <<"node", Return(<<ret[2]>>)>> OBVIOUS
    <2>3. Answer(cur, r) BY <1>3, <2>2 DEF RetStmtGotExpr
    <2>4. r[1] \in Results BY <2>2 DEF Results
    <2> QED BY <1>0, <2>1, <2>3, <2>4, HandOnKeepsInv
  <1>4. CASE ExprStmtGotExpr
    <2>1. In("ParseExprStmt") /\ Got("expr") BY <1>4 DEF ExprStmtGotExpr
    <2>2. PICK r : r = <<"node", ExprStmt(ret[2])>> OBVIOUS
    <2>3. Answer(cur, r) BY <1>4, <2>2 DEF ExprStmtGotExpr
    <2>4. r[1] \in Results BY <2>2 DEF Results
    <2> QED BY <1>0, <2>1, <2>3, <2>4, HandOnKeepsInv
  <1> QED BY <1>1, <1>2, <1>3, <1>4

----------------------------------------------------------------------------
(* The expressions.                                                        *)
LEMMA ParseExprKeepsInv ==
    ASSUME ParserInv, ParseExpr PROVE ParserInv' /\ Progress
  <1>1. In("ParseExpr") /\ Called BY DEF ParseExpr
  <1>2. /\ stack # <<>> /\ Len(stack) <= 2 * cur + 2 /\ FrameOK(Top) /\ Top.fn = "ParseExpr"
        /\ StepsLeft(stack, ret) = CallsLeft("ParseExpr")
        /\ Len(stack) \in Nat \ {0} /\ cur \in Nat /\ cur \in cur..(Len(source) + 1)
    BY <1>1, CalledFunction DEF Slack
  <1>3. PICK f, e : f = Top /\ e = PlainFrame("ParsePrimExpr") OBVIOUS
  <1>4. CallFrom(cur, f, e) BY <1>3 DEF ParseExpr
  <1>5. FrameOK(e) /\ e.fn = "ParsePrimExpr" BY <1>3, Frames DEF Functions
  <1>6. FrameOK(f) /\ f.fn = "ParseExpr" BY <1>2, <1>3
  <1>7. /\ Len(stack) <= 2 * cur + Slack(f.fn, FALSE)
        /\ Len(stack) + 1 <= 2 * cur + Slack(e.fn, TRUE)
    BY <1>2, <1>5, <1>6 DEF Slack
  <1>8. CallsLeft(e.fn) < StepsLeft(stack, ret) BY <1>2, <1>5 DEF CallsLeft
  <1> QED BY <1>2, <1>4, <1>5, <1>6, <1>7, <1>8, CallKeepsInv

(* Only an operator binds, and its right operand's precedence is not       *)
(* negative either.                                                        *)
LEMMA OnlyOperatorsBind ==
    ASSUME NEW frame, frame.min \in Nat, NEW kind, Binds(frame, kind)
    PROVE  kind # "EOF" /\ RhsPrecedence(kind) \in Nat
  <1>1. kind \in BinaryKinds
    <2>1. kind \notin BinaryKinds => Precedence(kind) = -1 BY DEF Precedence
    <2> QED BY <2>1 DEF Binds
  <1>2. "EOF" \notin BinaryKinds BY DEF BinaryKinds, ComparisonKinds, FactorKinds
  <1>3. Precedence(kind) \in Nat
    BY <1>1 DEF Precedence, kBinOpsPrecedences, BinaryKinds, ComparisonKinds, FactorKinds
  <1> QED BY <1>1, <1>2, <1>3 DEF RhsPrecedence

LEMMA ParseExprContinuesKeepsInv ==
    ASSUME ParserInv, ParseExprContinues PROVE ParserInv' /\ Progress
  <1>1. In("ParseExpr") /\ Got("expr") /\ Binds(Top, Kind(cur)) BY DEF ParseExprContinues
  <1>2. /\ stack # <<>> /\ Len(stack) <= 2 * cur + 2 /\ FrameOK(Top) /\ Top.fn = "ParseExpr"
        /\ Len(stack) \in Nat \ {0} /\ cur \in Nat /\ cur \in cur..(Len(source) + 1)
    <2>1. "expr" \in Results BY DEF Results
    <2> QED BY <1>1, <2>1, WaitingFunction DEF Slack
  <1>3. "fn" \in DOMAIN Top /\ "min" \in DOMAIN Top /\ Top.min \in Nat BY <1>2 DEF FrameOK
  <1>4. Kind(cur) # "EOF" /\ RhsPrecedence(Kind(cur)) \in Nat
    BY <1>1, <1>3, OnlyOperatorsBind
  <1>5. PICK i, f, e : /\ i = cur + 1 /\ e = ExprFrame(RhsPrecedence(Kind(cur)))
                       /\ f = [Top EXCEPT !.lhs = <<Combined(Top, ret[2])>>, !.op = Kind(cur)]
    OBVIOUS
  <1>6. CallFrom(i, f, e) BY <1>5 DEF ParseExprContinues
  <1>7. FrameOK(e) /\ e.fn = "ParseExpr" BY <1>4, <1>5, Frames
  <1>8. FrameOK(f) /\ f.fn = "ParseExpr"
    <2>1. "fn" \in DOMAIN f /\ "min" \in DOMAIN f /\ f.fn = Top.fn /\ f.min = Top.min
      BY <1>3, <1>5
    <2> QED BY <1>2, <1>3, <2>1 DEF FrameOK
  <1>9. i \in cur..(Len(source) + 1) /\ i > cur
    BY <1>2, <1>4, <1>5, NextToken DEF ParserInv
  <1>10. /\ Len(stack) <= 2 * i + Slack(f.fn, FALSE)
         /\ Len(stack) + 1 <= 2 * i + Slack(e.fn, TRUE)
    BY <1>2, <1>5, <1>7, <1>8 DEF Slack
  <1> QED BY <1>2, <1>6, <1>7, <1>8, <1>9, <1>10, CallKeepsInv

LEMMA ExpressionsHandOn ==
    ASSUME ParserInv, ParseExprEnds \/ UnaryGotOperand
    PROVE  ParserInv' /\ Progress
  <1>0. "expr" \in Results /\ "expr" \in Results \ {"block"} BY DEF Results
  <1>1. CASE ParseExprEnds
    <2>1. In("ParseExpr") /\ Got("expr") BY <1>1 DEF ParseExprEnds
    <2>2. PICK r : r = <<"expr", Combined(Top, ret[2])>> OBVIOUS
    <2>3. Answer(cur, r) BY <1>1, <2>2 DEF ParseExprEnds
    <2>4. r[1] \in Results BY <1>0, <2>2
    <2> QED BY <1>0, <2>1, <2>3, <2>4, HandOnKeepsInv
  <1>2. CASE UnaryGotOperand
    <2>1. In("Unary") /\ Got("expr") BY <1>2 DEF UnaryGotOperand
    <2>2. PICK r : r = <<"expr", Unary(Kind(Top.at), ret[2],
                             MergeSourceSpans(TokenSpan(Top.at), ret[2].span))>>
      OBVIOUS
    <2>3. Answer(cur, r) BY <1>2, <2>2 DEF UnaryGotOperand
    <2>4. r[1] \in Results BY <1>0, <2>2
    <2> QED BY <1>0, <2>1, <2>3, <2>4, HandOnKeepsInv
  <1> QED BY <1>1, <1>2

LEMMA ParsePrimFailsKeepsInv ==
    ASSUME ParserInv, ParsePrimEnd \/ ParsePrimError
    PROVE  ParserInv' /\ Progress
  <1>1. In("ParsePrimExpr") /\ Called
    BY DEF ParsePrimEnd, ParsePrimError, PrimAt
  <1>2. StepsLeft(stack, ret) > 0 /\ cur \in cur..(Len(source) + 1)
    <2>1. StepsLeft(stack, ret) = CallsLeft("ParsePrimExpr") /\ cur \in cur..(Len(source) + 1)
      BY <1>1, CalledFunction
    <2> QED BY <2>1 DEF CallsLeft
  <1>3. CASE ParsePrimEnd
    BY <1>2, <1>3, ThrownKeepsInv DEF ParsePrimEnd, Throw
  <1>4. CASE ParsePrimError
    <2>1. Kind(cur) # "EOF" BY <1>4 DEF ParsePrimError
    <2>2. cur + 1 \in cur..(Len(source) + 1) /\ cur + 1 > cur
      BY <1>2, <2>1, NextToken DEF ParserInv
    <2>3. cur' = cur + 1 /\ source' = source /\ stack' = <<>> /\ ret'[1] = "throw"
      BY <1>4 DEF ParsePrimError, Throw
    <2> QED BY <2>2, <2>3, ThrownKeepsInv
  <1> QED BY <1>3, <1>4

LEMMA ParsePrimLeafKeepsInv ==
    ASSUME ParserInv, ParsePrimLeaf PROVE ParserInv' /\ Progress
  <1>1. In("ParsePrimExpr") /\ Called BY DEF ParsePrimLeaf
  <1>2. stack # <<>> /\ cur \in cur..(Len(source) + 1) BY <1>1, CalledFunction
  <1>3. Kind(cur) # "EOF" BY DEF ParsePrimLeaf, LiteralKinds
  <1>4. PICK i, r : /\ i = cur + 1
                    /\ r = <<"expr", Leaf(IF Kind(cur) = "Name" THEN "Variable" ELSE "Literal", cur)>>
    OBVIOUS
  <1>5. Answer(i, r) BY <1>4 DEF ParsePrimLeaf
  <1>6. i \in cur..(Len(source) + 1) /\ i > cur
    BY <1>2, <1>3, <1>4, NextToken DEF ParserInv
  <1>7. r[1] \in Results BY <1>4 DEF Results
  <1> QED BY <1>2, <1>5, <1>6, <1>7, AnswerKeepsInv

LEMMA ParsePrimPrefixKeepsInv ==
    ASSUME ParserInv, ParsePrimPrefix PROVE ParserInv' /\ Progress
  <1>1. In("ParsePrimExpr") /\ Called BY DEF ParsePrimPrefix
  <1>2. /\ stack # <<>> /\ Len(stack) <= 2 * cur + 3
        /\ Len(stack) \in Nat \ {0} /\ cur \in Nat /\ cur \in cur..(Len(source) + 1)
    BY <1>1, CalledFunction DEF Slack
  <1>3. Kind(cur) # "EOF" BY DEF ParsePrimPrefix, UnaryKinds
  <1>4. PICK i : i = cur + 1 OBVIOUS
  <1>5. PICK fn \in {"Unary", "Paren"}, min \in Nat :
            CallFrom(i, [fn |-> fn, at |-> cur], ExprFrame(min))
    <2>1. 0 \in Nat /\ UnaryPrecedence \in Nat BY DEF UnaryPrecedence
    <2> QED BY <1>4, <2>1 DEF ParsePrimPrefix
  <1>6. PICK f, e : f = [fn |-> fn, at |-> cur] /\ e = ExprFrame(min) OBVIOUS
  <1>7. FrameOK(f) /\ f.fn = fn BY <1>6 DEF FrameOK, Functions
  <1>8. FrameOK(e) /\ e.fn = "ParseExpr" BY <1>6, Frames
  <1>9. i \in cur..(Len(source) + 1) /\ i > cur
    BY <1>2, <1>3, <1>4, NextToken DEF ParserInv
  <1>10. /\ Len(stack) <= 2 * i + Slack(f.fn, FALSE)
         /\ Len(stack) + 1 <= 2 * i + Slack(e.fn, TRUE)
    BY <1>2, <1>4, <1>7, <1>8 DEF Slack
  <1> QED BY <1>2, <1>5, <1>6, <1>7, <1>8, <1>9, <1>10, CallKeepsInv

LEMMA ParenKeepsInv ==
    ASSUME ParserInv, ParenClosed \/ ParenNotClosed PROVE ParserInv' /\ Progress
  <1>1. In("Paren") /\ Got("expr") /\ "expr" \in Results
    BY DEF ParenClosed, ParenNotClosed, Results
  <1>2. stack # <<>> /\ StepsLeft(stack, ret) > 0 /\ cur \in cur..(Len(source) + 1)
    <2>1. /\ stack # <<>> /\ StepsLeft(stack, ret) = 8 + Len(stack)
          /\ Len(stack) \in Nat \ {0} /\ cur \in cur..(Len(source) + 1)
      BY <1>1, WaitingFunction
    <2> QED BY <2>1
  <1>3. CASE ParenClosed
    <2>1. PICK i, r : /\ i = cur + 1
                      /\ r = <<"expr", [ret[2] EXCEPT !.span =
                                 MergeSourceSpans(TokenSpan(Top.at), TokenSpan(cur))]>>
      OBVIOUS
    <2>2. Answer(i, r) BY <1>3, <2>1 DEF ParenClosed
    <2>3. i \in cur..(Len(source) + 1) /\ i > cur
      BY <1>2, <1>3, <2>1, NextToken DEF ParserInv, ParenClosed
    <2>4. r[1] \in Results BY <2>1 DEF Results
    <2> QED BY <1>2, <2>2, <2>3, <2>4, AnswerKeepsInv
  <1>4. CASE ParenNotClosed
    BY <1>2, <1>4, RefuseKeepsInv DEF ParenNotClosed
  <1> QED BY <1>3, <1>4

----------------------------------------------------------------------------
(* The step theorem, and what follows from it.                             *)
LEMMA InitMakesInv ==
    ASSUME Init PROVE ParserInv
  <1>1. source \in Seq(STRING) BY SourcesAssumption DEF Init
  <1>2. PICK n \in Nat : n = Len(source) BY <1>1, LenProperties
  <1>3. 1 \in 1..(n + 1) BY <1>2
  <1>4. Len(stack) = 0 /\ ret[1] = "call" BY DEF Init
  <1>5. TypeOK BY <1>2, <1>3, <1>4 DEF TypeOK, Init
  <1>6. WellPlaced(stack, cur, Called) BY EmptyStack DEF Init
  <1>7. AtKeyword BY DEF AtKeyword, Init
  <1> QED BY <1>5, <1>6, <1>7 DEF ParserInv

LEMMA StepKeepsInv ==
    ASSUME ParserInv, [Next]_vars
    PROVE  ParserInv' /\ [Progress]_vars
  <1>1. CASE BlockStep
    BY <1>1, StartParseKeepsInv, BlockEndsKeepsInv, BlockGoesOnKeepsInv,
       BlockGotStatementKeepsInv DEF BlockStep
  <1>2. CASE StmtStep
    BY <1>2, DispatchStatementKeepsInv, ParseVarDeclKeepsInv, ParseRetStmtKeepsInv,
       ParseExprStmtKeepsInv, ParseIfStmtKeepsInv, IfGotConditionKeepsInv,
       IfGotThenBranchKeepsInv, IfGotElseBranchKeepsInv, StatementsHandOn DEF StmtStep
  <1>3. CASE ExprStep
    BY <1>3, ParseExprKeepsInv, ParseExprContinuesKeepsInv, ExpressionsHandOn,
       ParsePrimFailsKeepsInv, ParsePrimLeafKeepsInv, ParsePrimPrefixKeepsInv,
       ParenKeepsInv DEF ExprStep
  <1>4. CASE UNCHANGED vars
    <2>1. ParserInv'
      BY <1>4 DEF ParserInv, TypeOK, WellPlaced, AtKeyword, Called, Top, Kind, vars
    <2> QED BY <1>4, <2>1
  <1> QED BY <1>1, <1>2, <1>3, <1>4 DEF Next, Terminated

(* The inductive invariant: what the stack holds, how deep it may be for   *)
(* each function, and what the cursor is at when return and if are called. *)
THEOREM ParserInvariant == Spec => []ParserInv
  <1>1. Init => ParserInv BY InitMakesInv
  <1>2. ParserInv /\ [Next]_vars => ParserInv' BY StepKeepsInv
  <1> QED BY <1>1, <1>2, PTL DEF Spec

(* The cursor stays on the tokens or at their end, whatever they are: no   *)
(* Advance runs past the end of the input.                                 *)
THEOREM ParserTypeCorrect == Spec => []TypeOK
  <1>1. ParserInv => TypeOK BY DEF ParserInv
  <1> QED BY <1>1, ParserInvariant, PTL

LEMMA InvBoundsRecursion ==
    ASSUME ParserInv PROVE BoundedRecursion
  <1>1. cur \in Nat BY CursorIsHere DEF ParserInv
  <1>2. CASE stack = <<>>
    <2>1. Len(stack) = 0 BY <1>2
    <2> QED BY <1>1, <2>1 DEF BoundedRecursion
  <1>3. CASE stack # <<>>
    <2>1. PICK a : a = Slack(Top.fn, Called) OBVIOUS
    <2>2. Len(stack) \in Nat /\ Len(stack) <= 2 * cur + a BY <1>3, <2>1, StackTop
    <2>3. a \in -1..3
      <3>1. Top.fn \in Functions BY <1>3, StackTop DEF FrameOK
      <3> QED BY <2>1, <3>1, SlackIsInt
    <2> QED BY <1>1, <2>2, <2>3 DEF BoundedRecursion
  <1> QED BY <1>2, <1>3

(* The parser never has more calls in progress than twice the tokens it    *)
(* has read and five more: the recursion is paid for with input.           *)
THEOREM RecursionIsBounded == Spec => []BoundedRecursion
  <1>1. ParserInv => BoundedRecursion BY InvBoundsRecursion
  <1> QED BY <1>1, ParserInvariant, PTL

(* No loop and no recursion goes round without reading a token.            *)
THEOREM ParserMakesProgress == Spec => EveryStepIsProgress
  <1>1. ParserInv /\ [Next]_vars => [Progress]_vars BY StepKeepsInv
  <1> QED BY <1>1, ParserInvariant, PTL DEF Spec, EveryStepIsProgress

----------------------------------------------------------------------------
(* The rules of LualikeRules once more, as what they say of a set of       *)
(* phrases that obeys them: with the parts of a phrase it has the phrase.  *)

(* expr ::= operand | unop expr | '(' expr ')' | expr binop expr           *)
ExprRules(s, R) ==
    \A i, j, k \in Places(s) :
        /\ KindAt(s, i) \in Operands => <<"expr", i, i + 1>> \in R
        /\ KindAt(s, i) \in UnaryKinds /\ <<"expr", i + 1, j>> \in R
               => <<"expr", i, j>> \in R
        /\ KindAt(s, i) = "(" /\ <<"expr", i + 1, j>> \in R /\ KindAt(s, j) = ")"
               => <<"expr", i, j + 1>> \in R
        /\ <<"expr", i, k>> \in R /\ KindAt(s, k) \in BinaryKinds /\ <<"expr", k + 1, j>> \in R
               => <<"expr", i, j>> \in R

(* decl ::= Name ['=' expr]                                                *)
(* stat ::= ['local'] decl | expr | 'if' expr 'then' block ['else' block] 'end' *)
(* where an expression statement does not begin with a name.               *)
StatRules(s, R) ==
    \A i, j, k, l \in Places(s) :
        /\ KindAt(s, i) = "Name" => <<"decl", i, i + 1>> \in R
        /\ KindAt(s, i) = "Name" /\ KindAt(s, i + 1) = "=" /\ <<"expr", i + 2, j>> \in R
               => <<"decl", i, j>> \in R
        /\ <<"decl", i, j>> \in R => <<"stat", i, j>> \in R
        /\ KindAt(s, i) = "local" /\ <<"decl", i + 1, j>> \in R => <<"stat", i, j>> \in R
        /\ KindAt(s, i) \notin StatementKinds /\ <<"expr", i, j>> \in R
               => <<"stat", i, j>> \in R
        /\ KindAt(s, i) = "if" /\ <<"expr", i + 1, k>> \in R
               /\ KindAt(s, k) = "then" /\ <<"block", k + 1, j>> \in R
               /\ KindAt(s, j) = "end"
               => <<"stat", i, j + 1>> \in R
        /\ KindAt(s, i) = "if" /\ <<"expr", i + 1, k>> \in R
               /\ KindAt(s, k) = "then" /\ <<"block", k + 1, l>> \in R
               /\ KindAt(s, l) = "else" /\ <<"block", l + 1, j>> \in R
               /\ KindAt(s, j) = "end"
               => <<"stat", i, j + 1>> \in R

(* retstat ::= 'return' [expr]      stats ::= {stat | ';'}                 *)
(* block ::= stats [retstat {';'}]                                         *)
(* The expression may be missing only before a semicolon or the end.       *)
BlockRules(s, R) ==
    \A i, j, k \in Places(s) :
        /\ KindAt(s, i) = "return" /\ KindAt(s, i + 1) \in {"EOF", ";"}
               => <<"return", i, i + 1>> \in R
        /\ KindAt(s, i) = "return" /\ <<"expr", i + 1, j>> \in R => <<"return", i, j>> \in R
        /\ <<"stats", i, i>> \in R
        /\ <<"stats", i, k>> \in R /\ k <= j /\ OnlySemicolons(s, k, j) => <<"stats", i, j>> \in R
        /\ <<"stats", i, k>> \in R /\ <<"stat", k, j>> \in R => <<"stats", i, j>> \in R
        /\ <<"stats", i, j>> \in R => <<"block", i, j>> \in R
        /\ <<"stats", i, k>> \in R /\ <<"return", k, j>> \in R => <<"block", i, j>> \in R
        /\ <<"block", i, k>> \in R /\ k <= j /\ OnlySemicolons(s, k, j) => <<"block", i, j>> \in R

ObeysTheRules(s, R) == ExprRules(s, R) /\ StatRules(s, R) /\ BlockRules(s, R)

Generated(s, what, i, j) == \A R : ObeysTheRules(s, R) => <<what, i, j>> \in R

----------------------------------------------------------------------------
(* The parser against the rules.  Each call in progress stands in a chain: *)
(* it started at some token, has read what Reading says up to where the    *)
(* call it waits for started, and the result of that call will be what it  *)
(* awaits.  R is any set of phrases that obeys the rules.                  *)

(* What a node holds, as the record it is.                                 *)
NodeOK(e) ==
    CASE e.kind = "Binary" -> e = Binary(e.op, e.lhs, e.rhs, e.span)
      [] e.kind = "Unary"  -> e = Unary(e.op, e.rhs, e.span)
      [] OTHER -> e = [kind |-> e.kind, at |-> e.at, span |-> e.span]

(* The tree e stands for the tokens i..j-1.                                *)
ExprOK(R, s, e, i, j) ==
    /\ <<"expr", i, j>> \in R /\ i < j
    /\ NodeOK(e) /\ e.span = Span(i, j)
    /\ \E a, b \in Int : Inside(e) = Span(a, b) /\ i <= a /\ a - i = j - b
    /\ FitsTokens(e, s)

StatementOK(R, node, i, j) ==
    IF node.kind = "ReturnStatement" THEN <<"return", i, j>> \in R ELSE <<"stat", i, j>> \in R

(* Only then is a statement's span taken when all its tokens are read.     *)
InTime == ArgOrders = {"ltr"}

RowIs(s, stmts, i, j) ==
    /\ stmts \in Seq(Range(stmts)) /\ i <= j
    /\ StatementsFill(stmts, i, j, s)
    /\ \A k \in 1..Len(stmts) :
           /\ stmts[k].span.begin \in Nat /\ stmts[k].span.end \in Nat
           /\ stmts[1].span.begin <= stmts[k].span.begin
           /\ stmts[k].span.end <= stmts[Len(stmts)].span.end

(* The statements a block has, the block itself, and a statement's node    *)
(* stand for the tokens i..j-1.                                            *)
RowSoFar(s, stmts, i, j) ==
    InTime => /\ RowIs(s, stmts, i, j)
              /\ \A k \in 1..Len(stmts) : stmts[k].node.kind # "ReturnStatement"
BlockIs(s, b, i, j) == InTime => i <= j /\ BlockFits(b, i, j, s)
NodeIs(s, node, i, j) == InTime => i < j /\ NodeFits(node, i, j, s)
StatementIs(s, st, i, j) == InTime => st.span = Span(i, j)

Program == <<"block", {}>>

(* What a call gives back, and what the caller waits for.                  *)
Gives(f) ==
    CASE f.fn = "ParseBlock" -> <<"block", f.ends>>
      [] f.fn \in {"ParseStmt", "MakeStatement"} -> <<"stmt", 0>>
      [] f.fn \in {"ParseVarDecl", "Initializer", "ParseRetStmt", "ParseExprStmt",
                   "ParseIfStmt"} -> <<"node", 0>>
      [] f.fn = "ParseExpr" -> <<"expr", f.min>>
      [] f.fn \in {"ParsePrimExpr", "Unary", "Paren"} -> <<"operand", 0>>

Awaits(f) ==
    CASE f.fn = "ParseBlock" -> <<"stmt", 0>>
      [] f.fn = "MakeStatement" -> <<"node", 0>>
      [] f.fn \in {"Initializer", "ParseRetStmt", "ParseExprStmt", "Paren"} -> <<"expr", 0>>
      [] f.fn = "ParseIfStmt" ->
             IF f.cond = <<>> THEN <<"expr", 0>>
             ELSE <<"block", IF f.then = <<>> THEN {"else", "end"} ELSE {"end"}>>
      [] f.fn = "ParseExpr" ->
             IF f.op = "none" THEN <<"operand", 0>> ELSE <<"expr", RhsPrecedence(f.op)>>
      [] f.fn = "Unary" -> <<"expr", UnaryPrecedence>>

(* The result r, which covers the tokens i..j-1, is what was waited for.   *)
Fulfils(R, s, wanted, r, i, j) ==
    CASE wanted[1] = "block" ->
             /\ r[1] = "block" /\ <<"block", i, j>> \in R /\ BlockIs(s, r[2], i, j)
             /\ KindAt(s, j) \in {"EOF"} \cup wanted[2]
      [] wanted[1] = "stmt" ->
             /\ r[1] = "stmt" /\ StatementOK(R, r[2].node, i, j)
             /\ StatementIs(s, r[2], i, j) /\ NodeIs(s, r[2].node, i, j)
      [] wanted[1] = "node" ->
             r[1] = "node" /\ StatementOK(R, r[2], i, j) /\ NodeIs(s, r[2], i, j)
      [] wanted[1] = "operand" ->
             r[1] = "expr" /\ ExprOK(R, s, r[2], i, j) /\ ~BareBinary(r[2])
      [] wanted[1] = "expr" ->
             /\ r[1] = "expr" /\ ExprOK(R, s, r[2], i, j)
             /\ BareBinary(r[2]) => r[2].op \in BinaryKinds /\ Precedence(r[2].op) >= wanted[2]
             /\ ~(Precedence(KindAt(s, j)) >= wanted[2])

ShapeOK(f) ==
    /\ f.fn \in Functions
    /\ f.fn = "ParseBlock" => f = [fn |-> "ParseBlock", ends |-> f.ends, stmts |-> f.stmts]
    /\ f.fn = "ParseExpr" =>
           /\ f = [fn |-> "ParseExpr", min |-> f.min, lhs |-> f.lhs, op |-> f.op]
           /\ f.min \in Nat

(* A call that started at token i and is now at token j.                   *)
Fresh(R, s, f, i, j) ==
    /\ ShapeOK(f)
    /\ IF f.fn = "ParseBlock" THEN <<"stats", i, j>> \in R /\ RowSoFar(s, f.stmts, i, j)
       ELSE i = j
    /\ f.fn = "ParseVarDecl" => KindAt(s, i) \in {"Name", "local"}
    /\ f.fn = "ParseRetStmt" => KindAt(s, i) = "return"
    /\ f.fn = "ParseExprStmt" => KindAt(s, i) \notin StatementKinds
    /\ f.fn = "ParseIfStmt" => KindAt(s, i) = "if" /\ f.cond = <<>>
    /\ f.fn = "ParseExpr" => f.op = "none"

ReadingIf(R, s, f, i, p) ==
    /\ KindAt(s, i) = "if"
    /\ IF f.cond = <<>> THEN p = i + 1
       ELSE \E k \in Places(s) :
                /\ <<"expr", i + 1, k>> \in R /\ KindAt(s, k) = "then"
                /\ f.cond[1].span = Span(i + 1, k) /\ i + 1 < k
                /\ IF f.then = <<>> THEN p = k + 1
                   ELSE \E l \in Places(s) :
                            /\ <<"block", k + 1, l>> \in R /\ KindAt(s, l) = "else"
                            /\ BlockIs(s, f.then[1], k + 1, l) /\ p = l + 1

ReadingExpr(R, s, f, i, p) ==
    IF f.op = "none" THEN p = i
    ELSE /\ f.op \in BinaryKinds /\ Precedence(f.op) >= f.min
         /\ KindAt(s, p - 1) = f.op
         /\ ExprOK(R, s, f.lhs[1], i, p - 1)
         /\ BareBinary(f.lhs[1]) => Tighter(f.lhs[1].op, f.op, f.op # "^")

(* A call that started at token i and waits for one that started at p.     *)
Reading(R, s, f, i, p) ==
    /\ ShapeOK(f)
    /\ CASE f.fn = "ParseBlock" -> <<"stats", i, p>> \in R /\ RowSoFar(s, f.stmts, i, p)
         [] f.fn = "MakeStatement" -> p = i /\ (InTime => f.early = <<>> /\ f.start = i)
         [] f.fn = "Initializer" ->
                /\ f.name = p - 2
                /\ KindAt(s, p - 2) = "Name" /\ KindAt(s, p - 1) = "="
                /\ p - 2 = i \/ (p - 3 = i /\ KindAt(s, i) = "local")
         [] f.fn = "ParseRetStmt" -> KindAt(s, i) = "return" /\ p = i + 1
         [] f.fn = "ParseExprStmt" -> KindAt(s, i) \notin StatementKinds /\ p = i
         [] f.fn = "ParseIfStmt" -> ReadingIf(R, s, f, i, p)
         [] f.fn = "ParseExpr" -> ReadingExpr(R, s, f, i, p)
         [] f.fn = "Unary" -> f.at = i /\ KindAt(s, i) \in UnaryKinds /\ p = i + 1
         [] f.fn = "Paren" -> f.at = i /\ KindAt(s, i) = "(" /\ p = i + 1
         [] OTHER -> FALSE

(* The calls of stk all wait, the last one for a call that started at b.   *)
Wants(stk) == IF stk = <<>> THEN Program ELSE Awaits(stk[Len(stk)])

Stands(R, s, stk, b) ==
    /\ stk \in Seq(Range(stk))
    /\ \E st \in [1..(Len(stk) + 1) -> Places(s)] :
           /\ st[1] = 1 /\ st[Len(stk) + 1] = b
           /\ \A m \in 1..Len(stk) :
                  /\ Reading(R, s, stk[m], st[m], st[m + 1])
                  /\ Gives(stk[m]) = IF m = 1 THEN Program ELSE Awaits(stk[m - 1])

NestedWith(R, s, stk, r, i) ==
    \/ r[1] = "throw" /\ stk = <<>>
    \/ r = <<"call">> /\ stk = <<>> /\ i = 1
    \/ /\ r = <<"call">>
       /\ \E t, f : \E b \in Places(s) :
              /\ stk = Append(t, f)
              /\ Stands(R, s, t, b) /\ Gives(f) = Wants(t) /\ Fresh(R, s, f, b, i)
    \/ /\ r[1] \in Results
       /\ \E b \in Places(s) : Stands(R, s, stk, b) /\ Fulfils(R, s, Wants(stk), r, b, i)

NestedIn(R) == NestedWith(R, source, stack, ret, cur)

----------------------------------------------------------------------------
(* How the chain changes when a frame is pushed, popped or reads on.       *)
LEMMA StandsEmpty ==
    ASSUME NEW R, NEW s, Len(s) \in Nat
    PROVE  Stands(R, s, <<>>, 1) /\ Wants(<<>>) = Program
  <1>1. <<>> \in Seq(Range(<<>>)) /\ Len(<<>>) = 0 OBVIOUS
  <1>2. 1 \in Places(s) BY DEF Places
  <1>3. PICK st : st = [m \in 1..1 |-> 1] OBVIOUS
  <1>4. st \in [1..(0 + 1) -> Places(s)] /\ st[1] = 1 BY <1>2, <1>3
  <1> QED BY <1>1, <1>4 DEF Stands, Wants

LEMMA StandsPush ==
    ASSUME NEW R, NEW s, NEW t, NEW i, NEW f, NEW b \in Places(s), Stands(R, s, t, i),
           Gives(f) = Wants(t), Reading(R, s, f, i, b)
    PROVE  Stands(R, s, Append(t, f), b) /\ Wants(Append(t, f)) = Awaits(f)
  <1>1. t \in Seq(Range(t) \cup {f}) /\ f \in Range(t) \cup {f}
    BY SeqMonotonic DEF Stands
  <1>2. PICK n \in Nat : n = Len(t) BY <1>1, LenProperties
  <1>3. PICK u : u = Append(t, f) OBVIOUS
  <1>4. /\ u \in Seq(Range(t) \cup {f}) /\ Len(u) = n + 1 /\ u[n + 1] = f
        /\ \A k \in 1..n : u[k] = t[k]
    BY <1>1, <1>2, <1>3, AppendProperties
  <1>5. u \in Seq(Range(u)) BY <1>4, LenProperties DEF Range
  <1>6. PICK st \in [1..(n + 1) -> Places(s)] :
            /\ st[1] = 1 /\ st[n + 1] = i
            /\ \A m \in 1..n :
                   /\ Reading(R, s, t[m], st[m], st[m + 1])
                   /\ Gives(t[m]) = IF m = 1 THEN Program ELSE Awaits(t[m - 1])
    BY <1>2 DEF Stands
  <1>7. PICK su : su = [m \in 1..(n + 2) |-> IF m = n + 2 THEN b ELSE st[m]] OBVIOUS
  <1>8. /\ su \in [1..(n + 1 + 1) -> Places(s)] /\ su[1] = 1 /\ su[n + 1 + 1] = b
        /\ \A m \in 1..(n + 1) : su[m] = st[m]
    BY <1>6, <1>7
  <1>9. ASSUME NEW m \in 1..(n + 1)
        PROVE  /\ Reading(R, s, u[m], su[m], su[m + 1])
               /\ Gives(u[m]) = IF m = 1 THEN Program ELSE Awaits(u[m - 1])
    <2>1. CASE m = n + 1
      <3>1. u[m] = f /\ su[m] = i /\ su[m + 1] = b BY <1>4, <1>6, <1>8, <2>1
      <3>2. CASE n = 0
        <4>1. t = <<>> BY <1>1, <1>2, <3>2, EmptySeq
        <4> QED BY <2>1, <3>1, <3>2, <4>1 DEF Wants
      <3>3. CASE n # 0
        <4>1. t # <<>> BY <1>2, <3>3
        <4>2. m - 1 = n /\ m # 1 /\ u[m - 1] = t[n] BY <1>4, <2>1, <3>3
        <4> QED BY <1>2, <3>1, <4>1, <4>2 DEF Wants
      <3> QED BY <3>2, <3>3
    <2>2. CASE m \in 1..n
      <3>1. su[m] = st[m] /\ su[m + 1] = st[m + 1] /\ u[m] = t[m] BY <1>4, <1>8, <2>2
      <3>2. m # 1 => u[m - 1] = t[m - 1]
        <4>1. m # 1 => m - 1 \in 1..n BY <2>2
        <4> QED BY <1>4, <4>1
      <3> QED BY <1>6, <2>2, <3>1, <3>2
    <2> QED BY <2>1, <2>2
  <1>10. Stands(R, s, u, b) BY <1>4, <1>5, <1>8, <1>9 DEF Stands
  <1>11. Wants(u) = Awaits(f)
    <2>1. u # <<>> BY <1>2, <1>4
    <2> QED BY <1>4, <2>1 DEF Wants
  <1> QED BY <1>3, <1>10, <1>11

LEMMA StandsPop ==
    ASSUME NEW R, NEW s, NEW t, NEW b, Stands(R, s, t, b), t # <<>>
    PROVE  \E i \in Places(s) :
               /\ Stands(R, s, SubSeq(t, 1, Len(t) - 1), i)
               /\ Reading(R, s, t[Len(t)], i, b)
               /\ Gives(t[Len(t)]) = Wants(SubSeq(t, 1, Len(t) - 1))
  <1>1. t \in Seq(Range(t)) BY DEF Stands
  <1>2. PICK n \in Nat \ {0} : n = Len(t) BY <1>1, LenProperties, EmptySeq
  <1>3. PICK u : u = SubSeq(t, 1, n - 1) OBVIOUS
  <1>4. u \in Seq(Range(t)) /\ Len(u) = n - 1 /\ \A k \in 1..(n - 1) : u[k] = t[k]
    <2>1. 1 \in Int /\ n - 1 \in Int OBVIOUS
    <2>2. \A k \in 1..(n - 1) : t[k] \in Range(t) BY <1>1, <1>2, ElementOfSeq
    <2>3. /\ u \in Seq(Range(t))
          /\ Len(u) = IF 1 <= n - 1 THEN n - 1 - 1 + 1 ELSE 0
          /\ \A k \in 1..(n - 1 - 1 + 1) : u[k] = t[1 + k - 1]
      BY <1>3, <2>1, <2>2, SubSeqProperties
    <2>4. \A k \in 1..(n - 1) : k \in 1..(n - 1 - 1 + 1) /\ 1 + k - 1 = k OBVIOUS
    <2> QED BY <2>3, <2>4
  <1>5. u \in Seq(Range(u)) BY <1>4, LenProperties DEF Range
  <1>6. PICK st \in [1..(n + 1) -> Places(s)] :
            /\ st[1] = 1 /\ st[n + 1] = b
            /\ \A m \in 1..n :
                   /\ Reading(R, s, t[m], st[m], st[m + 1])
                   /\ Gives(t[m]) = IF m = 1 THEN Program ELSE Awaits(t[m - 1])
    BY <1>2 DEF Stands
  <1>7. PICK su : su = [m \in 1..n |-> st[m]] OBVIOUS
  <1>8. /\ su \in [1..(n - 1 + 1) -> Places(s)] /\ su[1] = 1 /\ su[n - 1 + 1] = st[n]
        /\ \A m \in 1..n : su[m] = st[m]
    BY <1>6, <1>7
  <1>9. ASSUME NEW m \in 1..(n - 1)
        PROVE  /\ Reading(R, s, u[m], su[m], su[m + 1])
               /\ Gives(u[m]) = IF m = 1 THEN Program ELSE Awaits(u[m - 1])
    <2>1. m \in 1..n /\ m + 1 \in 1..n /\ (m # 1 => m - 1 \in 1..(n - 1)) OBVIOUS
    <2>2. su[m] = st[m] /\ su[m + 1] = st[m + 1] /\ u[m] = t[m] BY <1>4, <1>8, <2>1
    <2> QED BY <1>4, <1>6, <2>1, <2>2
  <1>10. Stands(R, s, u, st[n]) BY <1>4, <1>5, <1>8, <1>9 DEF Stands
  <1>11. Reading(R, s, t[n], st[n], b) /\ st[n] \in Places(s)
    <2>1. n \in 1..n /\ n \in 1..(n + 1) OBVIOUS
    <2> QED BY <1>6, <2>1
  <1>12. Gives(t[n]) = Wants(u)
    <2>1. n \in 1..n OBVIOUS
    <2>2. Gives(t[n]) = IF n = 1 THEN Program ELSE Awaits(t[n - 1]) BY <1>6, <2>1
    <2>3. CASE n = 1
      <3>1. u = <<>> BY <1>4, <2>3, EmptySeq
      <3> QED BY <2>2, <2>3, <3>1 DEF Wants
    <2>4. CASE n # 1
      <3>1. u # <<>> /\ Len(u) = n - 1 /\ u[n - 1] = t[n - 1] BY <1>4, <2>4
      <3> QED BY <2>2, <2>4, <3>1 DEF Wants
    <2> QED BY <2>3, <2>4
  <1> QED BY <1>2, <1>3, <1>10, <1>11, <1>12

LEMMA AppendUndone ==
    ASSUME NEW t, NEW f, t \in Seq(Range(t))
    PROVE  LET u == Append(t, f) IN
           u # <<>> /\ SubSeq(u, 1, Len(u) - 1) = t /\ u[Len(u)] = f
  <1>1. t \in Seq(Range(t) \cup {f}) /\ f \in Range(t) \cup {f} BY SeqMonotonic
  <1>2. PICK n \in Nat : n = Len(t) BY <1>1, LenProperties
  <1>3. PICK u : u = Append(t, f) OBVIOUS
  <1>4. /\ u \in Seq(Range(t) \cup {f}) /\ Len(u) = n + 1 /\ u[n + 1] = f
        /\ \A k \in 1..n : u[k] = t[k]
    BY <1>1, <1>2, <1>3, AppendProperties
  <1>5. u # <<>> /\ Len(u) - 1 = n BY <1>2, <1>4
  <1>6. SubSeq(u, 1, n) = t
    <2>1. PICK v : v = SubSeq(u, 1, n) OBVIOUS
    <2>2. v \in Seq(Range(t) \cup {f}) /\ Len(v) = n /\ \A k \in 1..n : v[k] = t[k]
      <3>1. \A k \in 1..n : u[k] \in Range(t) \cup {f}
        BY <1>1, <1>2, <1>4, ElementOfSeq
      <3>2. /\ v \in Seq(Range(t) \cup {f})
            /\ Len(v) = IF 1 <= n THEN n - 1 + 1 ELSE 0
            /\ \A k \in 1..(n - 1 + 1) : v[k] = u[1 + k - 1]
        BY <2>1, <3>1, SubSeqProperties
      <3>3. Len(v) = n BY <3>2
      <3>4. \A k \in 1..n : k \in 1..(n - 1 + 1) /\ 1 + k - 1 = k OBVIOUS
      <3> QED BY <1>4, <3>2, <3>3, <3>4
    <2>3. v = t BY <1>1, <1>2, <2>2, SeqEqual
    <2> QED BY <2>1, <2>3
  <1> QED BY <1>3, <1>4, <1>5, <1>6

LEMMA StandsIsSeq ==
    ASSUME NEW R, NEW s, NEW t, NEW b, Stands(R, s, t, b)
    PROVE  t \in Seq(Range(t))
  BY DEF Stands

(* What the invariant says of the function on top.                         *)
LEMMA CalledStands ==
    ASSUME NEW R, NestedIn(R), NEW fn, In(fn), Called
    PROVE  \E b \in Places(source) :
               /\ Stands(R, source, Below, b) /\ Gives(Top) = Wants(Below)
               /\ Fresh(R, source, Top, b, cur)
  <1>1. ret = <<"call">> /\ ret[1] = "call" /\ stack # <<>> BY DEF Called, In
  <1>2. PICK t, f : \E b \in Places(source) :
            /\ stack = Append(t, f)
            /\ Stands(R, source, t, b) /\ Gives(f) = Wants(t) /\ Fresh(R, source, f, b, cur)
    BY <1>1 DEF NestedIn, NestedWith, Results
  <1>3. Below = t /\ Top = f BY <1>2, StandsIsSeq, AppendUndone DEF Below, Top
  <1> QED BY <1>2, <1>3

LEMMA WaitingStands ==
    ASSUME NEW R, NestedIn(R), NEW fn, In(fn), NEW what \in Results, Got(what)
    PROVE  \E b, p \in Places(source) :
               /\ Stands(R, source, Below, b) /\ Gives(Top) = Wants(Below)
               /\ Reading(R, source, Top, b, p)
               /\ Fulfils(R, source, Awaits(Top), ret, p, cur)
  <1>1. ret[1] = what /\ ret # <<"call">> /\ ret[1] # "throw" /\ stack # <<>>
    BY DEF Got, In, Results
  <1>2. PICK p \in Places(source) :
            Stands(R, source, stack, p) /\ Fulfils(R, source, Wants(stack), ret, p, cur)
    BY <1>1 DEF NestedIn, NestedWith
  <1>3. PICK b \in Places(source) :
            /\ Stands(R, source, Below, b) /\ Reading(R, source, Top, b, p)
            /\ Gives(Top) = Wants(Below)
    BY <1>1, <1>2, StandsPop DEF Below, Top
  <1>4. Wants(stack) = Awaits(Top) BY <1>1 DEF Wants, Top
  <1> QED BY <1>2, <1>3, <1>4

(* The steps, by what they make of the stack.                              *)
LEMMA GoesOn ==
    ASSUME NEW i, NEW t, NEW r, GoOn(i, t, r)
    PROVE  /\ source' = source
           /\ \/ cur' = i /\ stack' = t /\ ret' = r
              \/ ret'[1] = "throw" /\ stack' = <<>>
  BY DEF GoOn, Throw

LEMMA AnswerNests ==
    ASSUME NEW R, NEW b \in Places(source), Stands(R, source, Below, b), NEW i, NEW r,
           Answer(i, r), r[1] \in Results, Fulfils(R, source, Wants(Below), r, b, i)
    PROVE  NestedIn(R)'
  <1>1. PICK s, t : s = source /\ t = Below OBVIOUS
  <1>2. CASE source' = s /\ cur' = i /\ stack' = t /\ ret' = r
    <2>1. NestedWith(R, s, t, r, i) BY <1>1 DEF NestedWith
    <2> QED BY <1>2, <2>1 DEF NestedIn
  <1>3. CASE ret'[1] = "throw" /\ stack' = <<>> BY <1>3 DEF NestedIn, NestedWith
  <1> QED BY <1>1, <1>2, <1>3, GoesOn DEF Answer

LEMMA PushNests ==
    ASSUME NEW R, NEW t, NEW b \in Places(source), Stands(R, source, t, b), NEW i, NEW f,
           GoOn(i, Append(t, f), <<"call">>),
           Gives(f) = Wants(t), Fresh(R, source, f, b, i)
    PROVE  NestedIn(R)'
  <1>1. PICK s, u, r : s = source /\ u = Append(t, f) /\ r = <<"call">> OBVIOUS
  <1>2. CASE source' = s /\ cur' = i /\ stack' = u /\ ret' = r
    <2>1. NestedWith(R, s, u, r, i) BY <1>1 DEF NestedWith
    <2> QED BY <1>2, <2>1 DEF NestedIn
  <1>3. CASE ret'[1] = "throw" /\ stack' = <<>> BY <1>3 DEF NestedIn, NestedWith
  <1> QED BY <1>1, <1>2, <1>3, GoesOn

LEMMA CallNests ==
    ASSUME NEW R, NEW b \in Places(source), Stands(R, source, Below, b),
           NEW i, NEW f, NEW callee, NEW p \in Places(source), CallFrom(i, f, callee),
           Gives(f) = Wants(Below), Reading(R, source, f, b, p),
           Gives(callee) = Awaits(f), Fresh(R, source, callee, p, i)
    PROVE  NestedIn(R)'
  <1>1. PICK t : t = Append(Below, f) OBVIOUS
  <1>2. Stands(R, source, t, p) /\ Wants(t) = Awaits(f) BY <1>1, StandsPush
  <1>3. GoOn(i, Append(t, callee), <<"call">>) BY <1>1 DEF CallFrom
  <1> QED BY <1>2, <1>3, PushNests

LEMMA RefuseNests ==
    ASSUME NEW R, NEW i, Refuse(i) PROVE NestedIn(R)'
  <1>1. ret'[1] = "throw" /\ stack' = <<>> BY DEF Refuse, Throw
  <1> QED BY <1>1 DEF NestedIn, NestedWith

----------------------------------------------------------------------------
LEMMA KindIs == \A i : KindAt(source, i) = Kind(i)
  BY DEF KindAt, Kind

LEMMA TokenAt ==
    ASSUME TypeOK, NEW i \in Places(source), Kind(i) # "EOF"
    PROVE  /\ source[i] = Kind(i) /\ i + 1 \in Places(source)
           /\ i \in Nat /\ i >= 1
  <1>1. PICK n \in Nat : n = Len(source) BY TokensOfSource
  <1>2. i \in 1..(n + 1) BY <1>1 DEF Places
  <1>3. i <= n BY <1>1, <1>2, TokensOfSource
  <1> QED BY <1>1, <1>2, <1>3 DEF Kind, Places

LEMMA PlacesAreNumbers ==
    ASSUME TypeOK
    PROVE  /\ Places(source) \subseteq Nat /\ cur \in Places(source)
           /\ \A i \in Places(source) : i >= 1
           /\ \A i \in 1..(Len(source) + 1) : i \in Places(source)
  <1>1. PICK n \in Nat : n = Len(source) BY TokensOfSource
  <1>2. Places(source) = 1..(n + 1) BY <1>1 DEF Places
  <1> QED BY <1>1, <1>2, TokensOfSource

LEMMA Precedences ==
    /\ \A kind : Precedence(kind) \in Int /\ Precedence(kind) < UnaryPrecedence
    /\ \A kind \in BinaryKinds :
           /\ Precedence(kind) >= 0 /\ Precedence(kind) <= Precedence("^")
           /\ kind # "^" => Precedence(kind) < Precedence("^")
           /\ RhsPrecedence(kind) \in Nat
    /\ \A kind : Precedence(kind) >= 0 => kind \in BinaryKinds
    /\ "EOF" \notin BinaryKinds /\ "none" \notin BinaryKinds
  <1>1. \A kind \in BinaryKinds :
           /\ kind = "^" => Precedence(kind) = 11
           /\ kind # "^" => Precedence(kind) \in 1..10
    BY DEF Precedence, kBinOpsPrecedences, BinaryKinds, ComparisonKinds, FactorKinds
  <1>2. \A kind : kind \notin BinaryKinds => Precedence(kind) = -1 BY DEF Precedence
  <1>3. "^" \in BinaryKinds /\ "EOF" \notin BinaryKinds /\ "none" \notin BinaryKinds
    BY DEF BinaryKinds, ComparisonKinds, FactorKinds
  <1> QED BY <1>1, <1>2, <1>3 DEF UnaryPrecedence, RhsPrecedence

----------------------------------------------------------------------------
(* Blocks.                                                                 *)
LEMMA SemicolonsSkipped ==
    ASSUME TypeOK, NEW i, i = AfterSemicolons(cur)
    PROVE  /\ i \in Places(source) /\ cur \in Places(source) /\ cur <= i
           /\ OnlySemicolons(source, cur, i)
  <1>1. PICK n \in Nat : n = Len(source) BY TokensOfSource
  <1>2. cur \in 1..(n + 1) BY <1>1, TokensOfSource
  <1>3. i \in cur..(n + 1) BY <1>1, <1>2, SemicolonsEnd
  <1>4. \A k \in cur..(i - 1) : Kind(k) = ";" BY <1>1, <1>2, SemicolonsEnd
  <1>5. OnlySemicolons(source, cur, i) BY <1>4, KindIs DEF OnlySemicolons
  <1>6. i \in 1..(n + 1) /\ cur <= i BY <1>2, <1>3
  <1> QED BY <1>1, <1>2, <1>5, <1>6 DEF Places

LEMMA SpansMerge ==
    ASSUME NEW i \in Nat, NEW j \in Nat, NEW k \in Nat, NEW l \in Nat, i < j, j <= k, k < l
    PROVE  MergeSourceSpans(Span(i, j), Span(k, l)) = Span(i, l)
  BY DEF MergeSourceSpans, Span, IsEmptySpan, Smaller, Larger

LEMMA SpanFields ==
    \A i, j : Span(i, j).begin = i /\ Span(i, j).end = j
  BY DEF Span

(* What becomes of a block's statements.                                   *)
LEMMA ExprFacts ==
    ASSUME NEW R, NEW s, NEW e, NEW i, NEW j, ExprOK(R, s, e, i, j)
    PROVE  /\ e.span.begin = i /\ e.span.end = j /\ i < j
           /\ <<"expr", i, j>> \in R /\ FitsTokens(e, s)
  BY SpanFields DEF ExprOK

LEMMA SemicolonsMeet ==
    ASSUME NEW s, NEW i \in Nat, NEW j \in Nat, NEW k \in Nat,
           OnlySemicolons(s, i, j), OnlySemicolons(s, j, k)
    PROVE  OnlySemicolons(s, i, k)
  <1>1. ASSUME NEW m \in i..(k - 1) PROVE KindAt(s, m) = ";"
    <2>1. m \in i..(j - 1) \/ m \in j..(k - 1) OBVIOUS
    <2> QED BY <2>1 DEF OnlySemicolons
  <1> QED BY <1>1 DEF OnlySemicolons

LEMMA NothingIsOnlySemicolons ==
    ASSUME NEW s, NEW i \in Nat PROVE OnlySemicolons(s, i, i)
  <1>1. ASSUME NEW k \in i..(i - 1) PROVE FALSE OBVIOUS
  <1> QED BY <1>1 DEF OnlySemicolons

LEMMA RowEmpty ==
    ASSUME NEW s, NEW i \in Nat PROVE RowIs(s, <<>>, i, i)
  <1>1. <<>> \in Seq(Range(<<>>)) /\ Len(<<>>) = 0 OBVIOUS
  <1>2. OnlySemicolons(s, i, i) BY NothingIsOnlySemicolons
  <1>3. EndOf(<<>>, 0, i) = i /\ BeginOf(<<>>, 0 + 1, i) = i BY <1>1 DEF EndOf, BeginOf
  <1>4. \A k \in 0..0 : k = 0 OBVIOUS
  <1>5. StatementsFill(<<>>, i, i, s) BY <1>1, <1>2, <1>3, <1>4 DEF StatementsFill
  <1> QED BY <1>1, <1>5 DEF RowIs

LEMMA RowGoesOn ==
    ASSUME NEW s, NEW stmts, NEW i \in Nat, NEW j \in Nat, NEW k \in Nat,
           RowIs(s, stmts, i, j), j <= k, OnlySemicolons(s, j, k)
    PROVE  RowIs(s, stmts, i, k)
  <1>1. stmts \in Seq(Range(stmts)) /\ StatementsFill(stmts, i, j, s) /\ i <= j
    BY DEF RowIs
  <1>2. PICK n \in Nat : n = Len(stmts) BY <1>1, LenProperties
  <1>3. ASSUME NEW m \in 0..n
        PROVE  /\ EndOf(stmts, m, i) <= BeginOf(stmts, m + 1, k)
               /\ OnlySemicolons(s, EndOf(stmts, m, i), BeginOf(stmts, m + 1, k))
    <2>1. PICK e : e = EndOf(stmts, m, i) OBVIOUS
    <2>2. e <= BeginOf(stmts, m + 1, j) /\ OnlySemicolons(s, e, BeginOf(stmts, m + 1, j))
      BY <1>1, <1>2, <2>1 DEF StatementsFill
    <2>3. e \in Nat
      <3>1. m # 0 => m \in 1..n OBVIOUS
      <3> QED BY <1>2, <2>1, <3>1 DEF EndOf, RowIs
    <2>4. CASE m = n
      <3>1. m + 1 > n BY <2>4
      <3>2. BeginOf(stmts, m + 1, j) = j /\ BeginOf(stmts, m + 1, k) = k
        BY <1>2, <3>1 DEF BeginOf
      <3>3. e <= j /\ OnlySemicolons(s, e, j) BY <2>2, <3>2
      <3>4. e <= k BY ONLY <2>3, <3>3, j \in Nat, k \in Nat, j <= k
      <3>5. OnlySemicolons(s, e, k) BY <2>3, <3>3, SemicolonsMeet
      <3> QED BY <2>1, <3>2, <3>4, <3>5
    <2>5. CASE m # n
      <3>1. ~(m + 1 > n) BY <2>5
      <3>2. BeginOf(stmts, m + 1, k) = BeginOf(stmts, m + 1, j)
        BY <1>2, <3>1 DEF BeginOf
      <3> QED BY <2>1, <2>2, <3>2
    <2> QED BY <2>4, <2>5
  <1>4. StatementsFill(stmts, i, k, s) BY <1>1, <1>2, <1>3 DEF StatementsFill
  <1>5. i <= k BY ONLY <1>1, i \in Nat, j \in Nat, k \in Nat, j <= k
  <1> QED BY <1>4, <1>5 DEF RowIs

LEMMA RowGrows ==
    ASSUME NEW s, NEW stmts, NEW i \in Nat, NEW j \in Nat, NEW k \in Nat,
           RowIs(s, stmts, i, j), j < k, NEW st, st.span = Span(j, k)
    PROVE  RowIs(s, Append(stmts, st), i, k)
  <1>1. stmts \in Seq(Range(stmts)) /\ StatementsFill(stmts, i, j, s) /\ i <= j
    BY DEF RowIs
  <1>2. stmts \in Seq(Range(stmts) \cup {st}) /\ st \in Range(stmts) \cup {st}
    BY <1>1, SeqMonotonic
  <1>3. PICK n \in Nat : n = Len(stmts) BY <1>1, LenProperties
  <1>4. PICK u : u = Append(stmts, st) OBVIOUS
  <1>5. /\ u \in Seq(Range(stmts) \cup {st}) /\ Len(u) = n + 1 /\ u[n + 1] = st
        /\ \A m \in 1..n : u[m] = stmts[m]
    BY <1>2, <1>3, <1>4, AppendProperties
  <1>6. u \in Seq(Range(u)) BY <1>5, LenProperties DEF Range
  <1>7. st.span.begin = j /\ st.span.end = k BY SpanFields
  <1>8. \A m \in 1..n : /\ stmts[m].span.begin \in Nat /\ stmts[m].span.end \in Nat
                        /\ stmts[1].span.begin <= stmts[m].span.begin
                        /\ stmts[m].span.end <= stmts[n].span.end
                        /\ stmts[m].span.begin < stmts[m].span.end
    BY <1>1, <1>3 DEF RowIs, StatementsFill
  <1>9. n # 0 => stmts[n].span.end <= j
    <2>1. EndOf(stmts, n, i) <= BeginOf(stmts, n + 1, j) BY <1>1, <1>3 DEF StatementsFill
    <2>2. n + 1 > n OBVIOUS
    <2> QED BY <1>3, <2>1, <2>2 DEF EndOf, BeginOf
  <1>10. ASSUME NEW m \in 0..(n + 1)
         PROVE  /\ EndOf(u, m, i) <= BeginOf(u, m + 1, k)
                /\ OnlySemicolons(s, EndOf(u, m, i), BeginOf(u, m + 1, k))
    <2>1. CASE m = n + 1
      <3>1. EndOf(u, m, i) = k BY <1>5, <1>7, <2>1 DEF EndOf
      <3>2. BeginOf(u, m + 1, k) = k
        <4>1. m + 1 > n + 1 BY <2>1
        <4> QED BY <1>5, <4>1 DEF BeginOf
      <3>3. k <= k /\ OnlySemicolons(s, k, k) BY NothingIsOnlySemicolons
      <3> QED BY <3>1, <3>2, <3>3
    <2>2. CASE m \in 0..n
      <3>1. EndOf(u, m, i) = EndOf(stmts, m, i)
        <4>1. m # 0 => m \in 1..n BY <2>2
        <4> QED BY <1>5, <4>1 DEF EndOf
      <3>2. BeginOf(u, m + 1, k) = BeginOf(stmts, m + 1, j)
        <4>1. CASE m = n
          <5>1. m + 1 > n /\ ~(m + 1 > n + 1) BY <4>1
          <5> QED BY <1>3, <1>5, <1>7, <4>1, <5>1 DEF BeginOf
        <4>2. CASE m # n
          <5>1. ~(m + 1 > n) /\ ~(m + 1 > n + 1) /\ m + 1 \in 1..n BY <2>2, <4>2
          <5> QED BY <1>3, <1>5, <5>1 DEF BeginOf
        <4> QED BY <4>1, <4>2
      <3> QED BY <1>1, <1>3, <2>2, <3>1, <3>2 DEF StatementsFill
    <2> QED BY <2>1, <2>2
  <1>11. \A m \in 1..(n + 1) : m \in 1..n \/ m = n + 1 OBVIOUS
  <1>12. ASSUME NEW m \in 1..(n + 1)
         PROVE  /\ u[m].span.begin \in Nat /\ u[m].span.end \in Nat
                /\ u[m].span.begin < u[m].span.end
                /\ u[1].span.begin <= u[m].span.begin
                /\ u[m].span.end <= u[n + 1].span.end
    <2>1. CASE m \in 1..n
      <3>1. 1 \in 1..n /\ n \in 1..n /\ n # 0 BY <2>1
      <3>2. u[m] = stmts[m] /\ u[1] = stmts[1] BY <1>5, <2>1, <3>1
      <3>3. stmts[m].span.end <= stmts[n].span.end /\ stmts[n].span.end <= j
        BY <1>8, <1>9, <2>1, <3>1
      <3>4. PICK a, b : a = stmts[m].span.end /\ b = stmts[n].span.end OBVIOUS
      <3>5. a \in Nat /\ b \in Nat /\ a <= b /\ b <= j BY <1>8, <2>1, <3>1, <3>3, <3>4
      <3>6. a <= k BY ONLY <3>5, j \in Nat, k \in Nat, j < k
      <3> QED BY <1>5, <1>7, <1>8, <2>1, <3>2, <3>4, <3>6
    <2>2. CASE m = n + 1
      <3>1. u[m] = st BY <1>5, <2>2
      <3>2. u[1].span.begin <= j
        <4>1. CASE n = 0 BY <1>5, <1>7, <4>1
        <4>2. CASE n # 0
          <5>1. 1 \in 1..n /\ n \in 1..n BY <4>2
          <5>2. PICK a, b, c, d : /\ a = stmts[1].span.begin /\ b = stmts[n].span.begin
                                  /\ c = stmts[n].span.end /\ d = stmts[1].span.end
            OBVIOUS
          <5>3. a \in Nat /\ b \in Nat /\ c \in Nat /\ a <= b /\ b < c /\ c <= j
            BY <1>8, <1>9, <4>2, <5>1, <5>2
          <5>4. a <= j BY ONLY <5>3, j \in Nat
          <5> QED BY <1>5, <5>1, <5>2, <5>4
        <4> QED BY <4>1, <4>2
      <3> QED BY <1>5, <1>7, <3>1, <3>2, <2>2
    <2> QED BY <1>11, <2>1, <2>2
  <1>13. StatementsFill(u, i, k, s) BY <1>5, <1>10, <1>12 DEF StatementsFill
  <1>14. i <= k BY ONLY <1>1, i \in Nat, j \in Nat, k \in Nat, j < k
  <1>15. RowIs(s, u, i, k) BY <1>5, <1>6, <1>12, <1>13, <1>14 DEF RowIs
  <1> QED BY <1>4, <1>15

LEMMA RowMakesBlock ==
    ASSUME NEW s, NEW stmts, NEW i \in Nat, NEW j \in Nat, RowIs(s, stmts, i, j), NEW x,
           \A k \in 1..Len(stmts) - 1 : stmts[k].node.kind # "ReturnStatement"
    PROVE  BlockFits(Block(stmts, x), i, j, s)
  <1>1. PICK b : b = Block(stmts, x) OBVIOUS
  <1>2. b.statements = stmts /\ b.span = SpanFromStatements(stmts, CursorSpan(x))
    BY <1>1 DEF Block
  <1>3. StatementsFill(stmts, i, j, s) /\ stmts \in Seq(Range(stmts)) BY DEF RowIs
  <1>4. ASSUME stmts # <<>>
        PROVE  b.span = Span(stmts[1].span.begin, stmts[Len(stmts)].span.end)
    <2>1. PICK n \in Nat \ {0} : n = Len(stmts) BY <1>3, <1>4, LenProperties, EmptySeq
    <2>2. 1 \in 1..n /\ n \in 1..n BY <2>1
    <2>3. PICK p, q : p = stmts[1].span /\ q = stmts[n].span OBVIOUS
    <2>4. /\ p.begin \in Nat /\ p.end \in Nat /\ q.begin \in Nat /\ q.end \in Nat
          /\ p.begin < p.end /\ q.begin < q.end
          /\ p.begin <= q.begin /\ p.end <= q.end
      BY <1>3, <2>1, <2>2, <2>3 DEF RowIs, StatementsFill
    <2>5. ~IsEmptySpan(p) /\ ~IsEmptySpan(q) BY <2>4 DEF IsEmptySpan
    <2>6. Smaller(p.begin, q.begin) = p.begin BY <2>4 DEF Smaller
    <2>7. Larger(p.end, q.end) = q.end BY <2>4 DEF Larger
    <2>8. MergeSourceSpans(p, q) = Span(p.begin, q.end)
      BY <2>5, <2>6, <2>7 DEF MergeSourceSpans
    <2> QED BY <1>2, <1>4, <2>1, <2>3, <2>8 DEF SpanFromStatements
  <1>5. BlockFits(b, i, j, s) BY <1>2, <1>3, <1>4 DEF BlockFits
  <1> QED BY <1>1, <1>5

LEMMA NoStatementsYet ==
    ASSUME NEW s, NEW i \in Nat PROVE RowSoFar(s, <<>>, i, i)
  <1>1. Len(<<>>) = 0 OBVIOUS
  <1> QED BY <1>1, RowEmpty DEF RowSoFar

LEMMA RowSoFarGoesOn ==
    ASSUME NEW s, NEW stmts, NEW i \in Nat, NEW j \in Nat, NEW k \in Nat,
           RowSoFar(s, stmts, i, j), j <= k, OnlySemicolons(s, j, k)
    PROVE  RowSoFar(s, stmts, i, k) /\ BlockIs(s, Block(stmts, k), i, k)
  <1>1. ASSUME InTime
        PROVE  RowIs(s, stmts, i, k) /\ BlockFits(Block(stmts, k), i, k, s)
    <2>1. RowIs(s, stmts, i, j) BY <1>1 DEF RowSoFar
    <2>2. RowIs(s, stmts, i, k) BY <2>1, RowGoesOn
    <2>3. PICK n \in Nat : n = Len(stmts) BY <2>1, LenProperties DEF RowIs
    <2>4. \A m \in 1..(n - 1) : m \in 1..n OBVIOUS
    <2>5. \A m \in 1..Len(stmts) - 1 : stmts[m].node.kind # "ReturnStatement"
      BY <1>1, <2>3, <2>4 DEF RowSoFar
    <2> QED BY <2>2, <2>5, RowMakesBlock
  <1>2. InTime => i <= k BY <1>1 DEF RowIs
  <1> QED BY <1>1, <1>2 DEF RowSoFar, BlockIs

(* A statement is added; if it is a return, what may follow is semicolons. *)
LEMMA RowSoFarGrows ==
    ASSUME NEW s, NEW stmts, NEW i \in Nat, NEW j \in Nat, NEW k \in Nat,
           RowSoFar(s, stmts, i, j), NEW st, StatementIs(s, st, j, k), NodeIs(s, st.node, j, k)
    PROVE  /\ st.node.kind # "ReturnStatement" => RowSoFar(s, Append(stmts, st), i, k)
           /\ \A l \in Nat : k <= l /\ OnlySemicolons(s, k, l)
                  => BlockIs(s, Block(Append(stmts, st), l), i, l)
  <1>1. PICK u : u = Append(stmts, st) OBVIOUS
  <1>2. ASSUME InTime
        PROVE  /\ RowIs(s, u, i, k)
               /\ \A m \in 1..Len(u) - 1 : u[m].node.kind # "ReturnStatement"
               /\ st.node.kind # "ReturnStatement" =>
                      \A m \in 1..Len(u) : u[m].node.kind # "ReturnStatement"
    <2>1. RowIs(s, stmts, i, j) /\ j < k /\ st.span = Span(j, k)
      BY <1>2 DEF RowSoFar, StatementIs, NodeIs
    <2>2. RowIs(s, u, i, k) BY <1>1, <2>1, RowGrows
    <2>3. stmts \in Seq(Range(stmts) \cup {st}) /\ st \in Range(stmts) \cup {st}
      BY <2>1, SeqMonotonic DEF RowIs
    <2>4. PICK n \in Nat : n = Len(stmts) BY <2>3, LenProperties
    <2>5. Len(u) = n + 1 /\ u[n + 1] = st /\ \A m \in 1..n : u[m] = stmts[m]
      BY <1>1, <2>3, <2>4, AppendProperties
    <2>6. \A m \in 1..n : u[m].node.kind # "ReturnStatement"
      BY <1>2, <2>4, <2>5 DEF RowSoFar
    <2>7. Len(u) - 1 = n /\ \A m \in 1..(n + 1) : m \in 1..n \/ m = n + 1 BY <2>5
    <2> QED BY <2>2, <2>5, <2>6, <2>7
  <1>3. st.node.kind # "ReturnStatement" => RowSoFar(s, u, i, k) BY <1>2 DEF RowSoFar
  <1>4. ASSUME NEW l \in Nat, k <= l, OnlySemicolons(s, k, l)
        PROVE  BlockIs(s, Block(u, l), i, l)
    <2>1. ASSUME InTime PROVE i <= l /\ BlockFits(Block(u, l), i, l, s)
      <3>1. RowIs(s, u, i, l) BY <1>2, <1>4, <2>1, RowGoesOn
      <3>2. i <= l BY <3>1 DEF RowIs
      <3> QED BY <1>2, <2>1, <3>1, <3>2, RowMakesBlock
    <2> QED BY <2>1 DEF BlockIs
  <1> QED BY <1>1, <1>3, <1>4

LEMMA StartParseNests ==
    ASSUME TypeOK, NEW R, ObeysTheRules(source, R), NestedIn(R), StartParse
    PROVE  NestedIn(R)'
  <1>1. stack = <<>> /\ ret = <<"call">> /\ ret[1] = "call" BY DEF StartParse, Called
  <1>2. cur = 1
    <2>1. ASSUME NEW t, NEW b, NEW f, stack = Append(t, f), Stands(R, source, t, b)
          PROVE  FALSE
      BY <1>1, <2>1, StandsIsSeq, AppendUndone
    <2> QED BY <1>1, <2>1 DEF NestedIn, NestedWith, Results
  <1>3. CASE ret'[1] = "throw" /\ stack' = <<>> BY <1>3 DEF NestedIn, NestedWith
  <1>4. CASE stack' = <<BlockFrame({})>> /\ ret' = <<"call">>
    <2>1. PICK s, t, f, r, u : /\ s = source /\ t = <<>> /\ f = BlockFrame({}) /\ r = <<"call">>
                               /\ u = Append(t, f)
      OBVIOUS
    <2>2. stack' = u /\ ret' = r /\ source' = s /\ cur' = 1
      BY <1>2, <1>4, <2>1 DEF StartParse
    <2>3. Len(source) \in Nat /\ 1 \in Places(source)
      BY TokensOfSource, PlacesAreNumbers, <1>2
    <2>4. Stands(R, s, t, 1) /\ Wants(t) = Program BY <2>1, <2>3, StandsEmpty
    <2>5. Gives(f) = Program BY <2>1 DEF Gives, BlockFrame, Program
    <2>6. Fresh(R, s, f, 1, 1)
      <3>1. <<"stats", 1, 1>> \in R BY <2>3 DEF ObeysTheRules, BlockRules
      <3>2. f.fn = "ParseBlock" /\ f.stmts = <<>> /\ ShapeOK(f)
        BY <2>1 DEF BlockFrame, ShapeOK, Functions
      <3>3. RowSoFar(s, f.stmts, 1, 1) BY <3>2, NoStatementsYet
      <3> QED BY <2>1, <3>1, <3>2, <3>3 DEF Fresh
    <2>7. NestedWith(R, s, u, r, 1) BY <2>1, <2>3, <2>4, <2>5, <2>6 DEF NestedWith
    <2> QED BY <2>2, <2>7 DEF NestedIn
  <1> QED BY <1>3, <1>4 DEF StartParse, Throw

LEMMA BlockFrameIs ==
    ASSUME NEW f, ShapeOK(f), f.fn = "ParseBlock"
    PROVE  /\ Gives(f) = <<"block", f.ends>> /\ Awaits(f) = <<"stmt", 0>>
           /\ \A stmts : LET g == [f EXCEPT !.stmts = stmts] IN
                  ShapeOK(g) /\ g.fn = "ParseBlock" /\ g.ends = f.ends /\ g.stmts = stmts
  <1>1. f = [fn |-> "ParseBlock", ends |-> f.ends, stmts |-> f.stmts] BY DEF ShapeOK
  <1>2. ASSUME NEW stmts, NEW g, g = [f EXCEPT !.stmts = stmts]
        PROVE  ShapeOK(g) /\ g.fn = "ParseBlock" /\ g.ends = f.ends /\ g.stmts = stmts
    <2>1. g = [fn |-> "ParseBlock", ends |-> f.ends, stmts |-> stmts] BY <1>1, <1>2
    <2>2. g.fn = "ParseBlock" /\ g.ends = f.ends /\ g.stmts = stmts BY <2>1
    <2> QED BY <2>1, <2>2 DEF ShapeOK, Functions
  <1> QED BY <1>2 DEF Gives, Awaits

(* A block that has read i..j-1 ends at token j.                           *)
LEMMA BlockNests ==
    ASSUME TypeOK, NEW R, NEW b \in Places(source), NEW i \in Places(source),
           Top.fn = "ParseBlock", ShapeOK(Top), Stands(R, source, Below, b),
           Gives(Top) = Wants(Below),
           <<"block", b, i>> \in R, Ends(i),
           NEW stmts, BlockIs(source, Block(stmts, i), b, i),
           Answer(i, <<"block", Block(stmts, i)>>)
    PROVE  NestedIn(R)'
  <1>1. PICK r : r = <<"block", Block(stmts, i)>> OBVIOUS
  <1>2. PICK w : w = <<"block", Top.ends>> OBVIOUS
  <1>3. Wants(Below) = w BY <1>2, BlockFrameIs
  <1>4. w[1] = "block" /\ w[2] = Top.ends /\ r[1] = "block" /\ r[2] = Block(stmts, i)
    BY <1>1, <1>2
  <1>5. KindAt(source, i) \in {"EOF"} \cup Top.ends BY KindIs DEF Ends
  <1>6. Fulfils(R, source, w, r, b, i) BY <1>4, <1>5 DEF Fulfils
  <1> QED BY <1>1, <1>3, <1>4, <1>6, AnswerNests DEF Results

LEMMA BlockEndsNests ==
    ASSUME TypeOK, NEW R, ObeysTheRules(source, R), NestedIn(R), BlockEnds
    PROVE  NestedIn(R)'
  <1>1. In("ParseBlock") /\ Called /\ Top.fn = "ParseBlock" BY DEF BlockEnds, In
  <1>2. PICK b \in Places(source) :
            /\ Stands(R, source, Below, b) /\ Gives(Top) = Wants(Below)
            /\ Fresh(R, source, Top, b, cur)
    BY <1>1, CalledStands
  <1>3. PICK i : i = AfterSemicolons(cur) OBVIOUS
  <1>4. Ends(i) /\ Answer(i, <<"block", Block(Top.stmts, i)>>) BY <1>3 DEF BlockEnds
  <1>5. /\ i \in Places(source) /\ cur \in Places(source) /\ cur <= i
        /\ OnlySemicolons(source, cur, i)
    BY <1>3, SemicolonsSkipped
  <1>6. <<"stats", b, cur>> \in R /\ ShapeOK(Top) /\ RowSoFar(source, Top.stmts, b, cur)
    BY <1>1, <1>2 DEF Fresh
  <1>7. <<"stats", b, i>> \in R BY <1>5, <1>6 DEF ObeysTheRules, BlockRules
  <1>8. <<"block", b, i>> \in R BY <1>5, <1>7 DEF ObeysTheRules, BlockRules
  <1>9. b \in Nat /\ cur \in Nat /\ i \in Nat BY <1>5, PlacesAreNumbers
  <1>10. BlockIs(source, Block(Top.stmts, i), b, i) BY <1>5, <1>6, <1>9, RowSoFarGoesOn
  <1> QED BY <1>1, <1>2, <1>4, <1>5, <1>6, <1>8, <1>10, BlockNests

LEMMA BlockGoesOnNests ==
    ASSUME TypeOK, NEW R, ObeysTheRules(source, R), NestedIn(R), BlockGoesOn
    PROVE  NestedIn(R)'
  <1>1. In("ParseBlock") /\ Called /\ Top.fn = "ParseBlock" BY DEF BlockGoesOn, In
  <1>2. PICK b \in Places(source) :
            /\ Stands(R, source, Below, b) /\ Gives(Top) = Wants(Below)
            /\ Fresh(R, source, Top, b, cur)
    BY <1>1, CalledStands
  <1>3. PICK i, c, f : i = AfterSemicolons(cur) /\ c = PlainFrame("ParseStmt") /\ f = Top
    OBVIOUS
  <1>4. CallFrom(i, f, c) BY <1>3 DEF BlockGoesOn
  <1>5. /\ i \in Places(source) /\ cur \in Places(source) /\ cur <= i
        /\ OnlySemicolons(source, cur, i)
    BY <1>3, SemicolonsSkipped
  <1>6. /\ <<"stats", b, cur>> \in R /\ ShapeOK(f) /\ f.fn = "ParseBlock"
        /\ RowSoFar(source, f.stmts, b, cur)
    BY <1>1, <1>2, <1>3 DEF Fresh
  <1>7. <<"stats", b, i>> \in R BY <1>5, <1>6 DEF ObeysTheRules, BlockRules
  <1>8. Reading(R, source, f, b, i)
    <2>1. b \in Nat /\ cur \in Nat /\ i \in Nat BY <1>5, PlacesAreNumbers
    <2>2. RowSoFar(source, f.stmts, b, i) BY <1>5, <1>6, <2>1, RowSoFarGoesOn
    <2> QED BY <1>6, <1>7, <2>2 DEF Reading
  <1>9. c.fn = "ParseStmt" /\ ShapeOK(c) BY <1>3 DEF PlainFrame, ShapeOK, Functions
  <1>10. Gives(c) = Awaits(f) /\ Fresh(R, source, c, i, i)
    BY <1>6, <1>9 DEF Gives, Awaits, Fresh
  <1> QED BY <1>2, <1>3, <1>4, <1>5, <1>8, <1>10, CallNests

LEMMA BlockGotStatementNests ==
    ASSUME TypeOK, NEW R, ObeysTheRules(source, R), NestedIn(R), BlockGotStatement
    PROVE  NestedIn(R)'
  <1>1. In("ParseBlock") /\ Got("stmt") /\ Top.fn = "ParseBlock" /\ "stmt" \in Results
    BY DEF BlockGotStatement, In, Results
  <1>2. PICK b, p \in Places(source) :
            /\ Stands(R, source, Below, b) /\ Gives(Top) = Wants(Below)
            /\ Reading(R, source, Top, b, p)
            /\ Fulfils(R, source, Awaits(Top), ret, p, cur)
    BY <1>1, WaitingStands
  <1>3. ShapeOK(Top) /\ <<"stats", b, p>> \in R /\ RowSoFar(source, Top.stmts, b, p)
    BY <1>1, <1>2 DEF Reading
  <1>4. cur \in Places(source) BY PlacesAreNumbers
  <1>5. /\ StatementOK(R, ret[2].node, p, cur)
        /\ StatementIs(source, ret[2], p, cur) /\ NodeIs(source, ret[2].node, p, cur)
    <2>1. Awaits(Top) = <<"stmt", 0>> BY <1>1, <1>3, BlockFrameIs
    <2>2. PICK w : w = <<"stmt", 0>> OBVIOUS
    <2>3. w[1] = "stmt" /\ Fulfils(R, source, w, ret, p, cur) BY <1>2, <2>1, <2>2
    <2> QED BY <2>3 DEF Fulfils
  <1>6. PICK stmts : stmts = Append(Top.stmts, ret[2]) OBVIOUS
  <1>9. b \in Nat /\ p \in Nat /\ cur \in Nat BY <1>4, PlacesAreNumbers
  <1>10. /\ ret[2].node.kind # "ReturnStatement" => RowSoFar(source, stmts, b, cur)
         /\ \A l \in Nat : cur <= l /\ OnlySemicolons(source, cur, l)
                => BlockIs(source, Block(stmts, l), b, l)
    BY <1>3, <1>5, <1>6, <1>9, RowSoFarGrows
  <1>7. CASE ret[2].node.kind = "ReturnStatement"
    <2>1. <<"return", p, cur>> \in R BY <1>5, <1>7 DEF StatementOK
    <2>2. EnsureBlockEndsAfterReturn(stmts) BY <1>6, <1>7 DEF BlockGotStatement
    <2>3. PICK i : i = AfterSemicolons(cur) OBVIOUS
    <2>4. /\ i \in Places(source) /\ cur <= i /\ OnlySemicolons(source, cur, i)
      BY <2>3, SemicolonsSkipped
    <2>5. <<"block", b, cur>> \in R BY <1>3, <1>4, <2>1 DEF ObeysTheRules, BlockRules
    <2>6. <<"block", b, i>> \in R BY <1>4, <2>4, <2>5 DEF ObeysTheRules, BlockRules
    <2>7. CASE Ends(i)
      <3>1. Answer(i, <<"block", Block(stmts, i)>>)
        BY <2>2, <2>3, <2>7 DEF EnsureBlockEndsAfterReturn
      <3>2. BlockIs(source, Block(stmts, i), b, i) BY <1>10, <2>4, PlacesAreNumbers
      <3> QED BY <1>1, <1>2, <1>3, <2>4, <2>6, <2>7, <3>1, <3>2, BlockNests
    <2>8. CASE ~Ends(i)
      <3>1. ret'[1] = "throw" /\ stack' = <<>>
        BY <2>2, <2>3, <2>8 DEF EnsureBlockEndsAfterReturn, Answer, GoOn, Throw
      <3> QED BY <3>1 DEF NestedIn, NestedWith
    <2> QED BY <2>7, <2>8
  <1>8. CASE ret[2].node.kind # "ReturnStatement"
    <2>1. PICK f : f = [Top EXCEPT !.stmts = stmts] OBVIOUS
    <2>2. GoOn(cur, Append(Below, f), <<"call">>) BY <1>6, <1>8, <2>1 DEF BlockGotStatement
    <2>3. ShapeOK(f) /\ f.fn = "ParseBlock" /\ f.ends = Top.ends /\ f.stmts = stmts
      BY <1>1, <1>3, <2>1, BlockFrameIs
    <2>4. Gives(f) = Wants(Below) BY <1>1, <1>2, <1>3, <2>3, BlockFrameIs
    <2>5. <<"stat", p, cur>> \in R BY <1>5, <1>8 DEF StatementOK
    <2>6. <<"stats", b, cur>> \in R BY <1>3, <1>4, <2>5 DEF ObeysTheRules, BlockRules
    <2>7. Fresh(R, source, f, b, cur) BY <1>8, <1>10, <2>3, <2>6 DEF Fresh
    <2> QED BY <1>2, <2>2, <2>4, <2>7, PushNests
  <1> QED BY <1>7, <1>8

----------------------------------------------------------------------------
(* Statements.                                                             *)
StatementFunctions ==
    {"ParseVarDecl", "Initializer", "ParseRetStmt", "ParseExprStmt", "ParseIfStmt"}

LEMMA NodeNests ==
    ASSUME NEW R, NEW b \in Places(source), Stands(R, source, Below, b),
           Gives(Top) = Wants(Below), Top.fn \in StatementFunctions,
           NEW i, NEW n, Answer(i, <<"node", n>>), StatementOK(R, n, b, i),
           NodeIs(source, n, b, i)
    PROVE  NestedIn(R)'
  <1>1. PICK r, w : r = <<"node", n>> /\ w = <<"node", 0>> OBVIOUS
  <1>2. Wants(Below) = w BY <1>1 DEF StatementFunctions, Gives
  <1>3. w[1] = "node" /\ r[1] = "node" /\ r[2] = n BY <1>1
  <1>4. Fulfils(R, source, w, r, b, i) BY <1>3 DEF Fulfils
  <1> QED BY <1>1, <1>2, <1>3, <1>4, AnswerNests DEF Results

(* A statement's function, just called at token b.                         *)
LEMMA StatementCalled ==
    ASSUME TypeOK, NEW R, NestedIn(R), NEW fn \in StatementFunctions, In(fn), Called
    PROVE  /\ Top.fn = fn /\ ShapeOK(Top) /\ cur \in Places(source)
           /\ Stands(R, source, Below, cur) /\ Gives(Top) = Wants(Below)
           /\ Fresh(R, source, Top, cur, cur)
  <1>1. Top.fn = fn BY DEF In
  <1>2. PICK b \in Places(source) :
            /\ Stands(R, source, Below, b) /\ Gives(Top) = Wants(Below)
            /\ Fresh(R, source, Top, b, cur)
    BY CalledStands
  <1>3. b = cur /\ ShapeOK(Top) BY <1>1, <1>2 DEF StatementFunctions, Fresh
  <1> QED BY <1>1, <1>2, <1>3

(* A function that has got the expression it asked for.                    *)
LEMMA ExprGot ==
    ASSUME TypeOK, NEW R, NestedIn(R), NEW fn, In(fn), Got("expr"),
           fn \in {"Initializer", "ParseRetStmt", "ParseExprStmt", "Paren"}
    PROVE  /\ Top.fn = fn /\ cur \in Places(source) /\ Gives(Top) = Wants(Below)
           /\ \E b, p \in Places(source) :
                  /\ Stands(R, source, Below, b) /\ Reading(R, source, Top, b, p)
                  /\ ExprOK(R, source, ret[2], p, cur)
                  /\ <<"expr", p, cur>> \in R
  <1>1. Top.fn = fn /\ "expr" \in Results BY DEF In, Results
  <1>2. PICK b, p \in Places(source) :
            /\ Stands(R, source, Below, b) /\ Gives(Top) = Wants(Below)
            /\ Reading(R, source, Top, b, p)
            /\ Fulfils(R, source, Awaits(Top), ret, p, cur)
    BY <1>1, WaitingStands
  <1>3. PICK w : w = <<"expr", 0>> OBVIOUS
  <1>4. Awaits(Top) = w /\ w[1] = "expr" BY <1>1, <1>3 DEF Awaits
  <1>5. ExprOK(R, source, ret[2], p, cur) BY <1>2, <1>4 DEF Fulfils
  <1>6. <<"expr", p, cur>> \in R BY <1>5 DEF ExprOK
  <1>7. cur \in Places(source) BY PlacesAreNumbers
  <1> QED BY <1>1, <1>2, <1>5, <1>6, <1>7

LEMMA ExprIsFresh ==
    ASSUME NEW R, NEW s, NEW min \in Nat, NEW i
    PROVE  LET e == ExprFrame(min) IN
           Gives(e) = <<"expr", min>> /\ Fresh(R, s, e, i, i)
  <1>1. PICK e : e = ExprFrame(min) OBVIOUS
  <1>2. e.fn = "ParseExpr" /\ e.min = min /\ e.op = "none" /\ e.lhs = <<>>
    BY <1>1 DEF ExprFrame
  <1>3. ShapeOK(e) BY <1>1, <1>2 DEF ShapeOK, ExprFrame, Functions
  <1> QED BY <1>1, <1>2, <1>3 DEF Gives, Fresh

LEMMA BlockIsFresh ==
    ASSUME TypeOK, NEW R, ObeysTheRules(source, R), NEW ends, NEW i \in Places(source)
    PROVE  LET f == BlockFrame(ends) IN
           Gives(f) = <<"block", ends>> /\ Fresh(R, source, f, i, i)
  <1>1. PICK f : f = BlockFrame(ends) OBVIOUS
  <1>2. f.fn = "ParseBlock" /\ f.ends = ends /\ f.stmts = <<>> BY <1>1 DEF BlockFrame
  <1>3. ShapeOK(f) BY <1>1, <1>2 DEF ShapeOK, BlockFrame, Functions
  <1>4. <<"stats", i, i>> \in R BY DEF ObeysTheRules, BlockRules
  <1>5. RowSoFar(source, f.stmts, i, i) BY <1>2, NoStatementsYet, PlacesAreNumbers
  <1> QED BY <1>1, <1>2, <1>3, <1>4, <1>5 DEF Gives, Fresh

LEMMA DispatchStatementNests ==
    ASSUME TypeOK, NEW R, ObeysTheRules(source, R), NestedIn(R), DispatchStatement
    PROVE  NestedIn(R)'
  <1>1. In("ParseStmt") /\ Called /\ Top.fn = "ParseStmt" BY DEF DispatchStatement, In
  <1>2. PICK b \in Places(source) :
            /\ Stands(R, source, Below, b) /\ Gives(Top) = Wants(Below)
            /\ Fresh(R, source, Top, b, cur)
    BY <1>1, CalledStands
  <1>3. b = cur BY <1>1, <1>2 DEF Fresh
  <1>4. PICK callee : callee = StatementParser(Kind(cur)) OBVIOUS
  <1>5. PICK early :
            /\ CallFrom(cur, [fn |-> "MakeStatement", start |-> cur, early |-> early], callee)
            /\ InTime => early = <<>>
    BY <1>4 DEF DispatchStatement, InTime
  <1>6. PICK f : f = [fn |-> "MakeStatement", start |-> cur, early |-> early] OBVIOUS
  <1>7. f.fn = "MakeStatement" /\ f.start = cur /\ f.early = early /\ ShapeOK(f)
    BY <1>6 DEF ShapeOK, Functions
  <1>8. Gives(f) = Wants(Below) BY <1>1, <1>2, <1>7 DEF Gives
  <1>9. Reading(R, source, f, b, cur) BY <1>3, <1>5, <1>7 DEF Reading
  <1>10. KindAt(source, cur) = Kind(cur) BY KindIs
  <1>11. /\ ShapeOK(callee) /\ Gives(callee) = Awaits(f)
         /\ Fresh(R, source, callee, cur, cur)
    <2>1. CASE Kind(cur) \in {"Name", "local"}
      <3>1. callee.fn = "ParseVarDecl" BY <1>4, <2>1 DEF StatementParser, PlainFrame
      <3> QED BY <1>7, <1>10, <2>1, <3>1 DEF ShapeOK, Functions, Gives, Awaits, Fresh
    <2>2. CASE Kind(cur) = "return"
      <3>1. callee.fn = "ParseRetStmt" BY <1>4, <2>2 DEF StatementParser, PlainFrame
      <3> QED BY <1>7, <1>10, <2>2, <3>1 DEF ShapeOK, Functions, Gives, Awaits, Fresh
    <2>3. CASE Kind(cur) = "if"
      <3>1. callee.fn = "ParseIfStmt" /\ callee.cond = <<>>
        BY <1>4, <2>3 DEF StatementParser, IfFrame
      <3> QED BY <1>7, <1>10, <2>3, <3>1 DEF ShapeOK, Functions, Gives, Awaits, Fresh
    <2>4. CASE Kind(cur) \notin StatementKinds
      <3>1. callee.fn = "ParseExprStmt"
        BY <1>4, <2>4 DEF StatementParser, PlainFrame, StatementKinds
      <3> QED BY <1>7, <1>10, <2>4, <3>1 DEF ShapeOK, Functions, Gives, Awaits, Fresh
    <2> QED BY <2>1, <2>2, <2>3, <2>4 DEF StatementKinds
  <1> QED BY <1>2, <1>3, <1>5, <1>6, <1>8, <1>9, <1>11, CallNests

LEMMA MakeStatementNests ==
    ASSUME TypeOK, NEW R, NestedIn(R), MakeStatement
    PROVE  NestedIn(R)'
  <1>1. In("MakeStatement") /\ Got("node") /\ Top.fn = "MakeStatement" /\ "node" \in Results
    BY DEF MakeStatement, In, Results
  <1>2. PICK b, p \in Places(source) :
            /\ Stands(R, source, Below, b) /\ Gives(Top) = Wants(Below)
            /\ Reading(R, source, Top, b, p)
            /\ Fulfils(R, source, Awaits(Top), ret, p, cur)
    BY <1>1, WaitingStands
  <1>3. p = b /\ (InTime => Top.early = <<>> /\ Top.start = b) BY <1>1, <1>2 DEF Reading
  <1>4. PICK v, w : v = <<"node", 0>> /\ w = <<"stmt", 0>> OBVIOUS
  <1>5. v[1] = "node" /\ w[1] = "stmt" BY <1>4
  <1>6. Awaits(Top) = v /\ Gives(Top) = w BY <1>1, <1>4 DEF Awaits, Gives
  <1>7. StatementOK(R, ret[2], b, cur) /\ NodeIs(source, ret[2], b, cur)
    BY <1>2, <1>3, <1>5, <1>6 DEF Fulfils
  <1>8. PICK r : r = <<"stmt", [node |-> ret[2], span |-> StatementSpan(Top)]>> OBVIOUS
  <1>9. r[1] = "stmt" /\ r[2].node = ret[2] /\ r[2].span = StatementSpan(Top) BY <1>8
  <1>12. ASSUME InTime PROVE StatementSpan(Top) = Span(b, cur)
    <2>1. b < cur /\ b \in Nat /\ cur \in Nat /\ b >= 1
      BY <1>7, <1>12, PlacesAreNumbers DEF NodeIs
    <2>2. StatementSpan(Top) = SpanFrom(b, cur) BY <1>3, <1>12 DEF StatementSpan
    <2>3. TokenSpan(b) = Span(b, b + 1) /\ TokenSpan(cur - 1) = Span(cur - 1, cur)
      BY <2>1 DEF TokenSpan
    <2>4. PICK c \in Nat : c = cur - 1 BY <2>1
    <2>5. cur > 1 /\ b <= c /\ c < cur BY <2>1, <2>4
    <2>6. MergeSourceSpans(Span(b, b + 1), Span(c, cur)) = Span(b, cur)
      <3>1. CASE b = c
        <4>1. b + 1 = cur BY <2>1, <2>4, <3>1
        <4> QED BY <2>1, <2>5, <3>1, <4>1
                DEF MergeSourceSpans, Span, IsEmptySpan, Smaller, Larger
      <3>2. CASE b # c
        <4>1. b + 1 <= c /\ b < b + 1 /\ b + 1 \in Nat BY <2>1, <2>4, <2>5, <3>2
        <4> QED BY <2>1, <2>4, <2>5, <4>1, SpansMerge
      <3> QED BY <3>1, <3>2
    <2> QED BY <2>2, <2>3, <2>4, <2>5, <2>6 DEF SpanFrom
  <1>13. StatementIs(source, r[2], b, cur) BY <1>9, <1>12 DEF StatementIs
  <1>10. Fulfils(R, source, w, r, b, cur) BY <1>5, <1>7, <1>9, <1>13 DEF Fulfils
  <1>11. Answer(cur, r) BY <1>8 DEF MakeStatement
  <1> QED BY <1>2, <1>6, <1>9, <1>10, <1>11, AnswerNests DEF Results

(* A declaration is a statement, with `local` before it or without.        *)
LEMMA DeclarationsAreStatements ==
    ASSUME TypeOK, NEW R, ObeysTheRules(source, R), NEW b \in Places(source),
           NEW name \in Places(source), NEW j \in Places(source),
           name = b \/ (name = b + 1 /\ Kind(b) = "local"), <<"decl", name, j>> \in R
    PROVE  <<"stat", b, j>> \in R
  <1>1. CASE name = b BY <1>1 DEF ObeysTheRules, StatRules
  <1>2. CASE name = b + 1 /\ Kind(b) = "local"
    <2>1. KindAt(source, b) = "local" /\ <<"decl", b + 1, j>> \in R BY <1>2, KindIs
    <2> QED BY <2>1 DEF ObeysTheRules, StatRules
  <1> QED BY <1>1, <1>2

LEMMA ParseVarDeclNests ==
    ASSUME TypeOK, NEW R, ObeysTheRules(source, R), NestedIn(R), ParseVarDecl
    PROVE  NestedIn(R)'
  <1>1. In("ParseVarDecl") /\ Called BY DEF ParseVarDecl
  <1>2. /\ Top.fn = "ParseVarDecl" /\ cur \in Places(source)
        /\ Stands(R, source, Below, cur) /\ Gives(Top) = Wants(Below)
        /\ Fresh(R, source, Top, cur, cur)
    BY <1>1, StatementCalled DEF StatementFunctions
  <1>3. PICK name : name = IF Kind(cur) = "local" THEN cur + 1 ELSE cur OBVIOUS
  <1>4. name \in Places(source) /\ (name = cur \/ (name = cur + 1 /\ Kind(cur) = "local"))
    BY <1>2, <1>3, TokenAt
  <1>5. CASE Kind(name) # "Name"
    <2>1. Refuse(name) BY <1>3, <1>5 DEF ParseVarDecl
    <2> QED BY <2>1, RefuseNests
  <1>6. CASE Kind(name) = "Name" /\ Kind(name + 1) = "="
    <2>1. PICK f, e : f = [fn |-> "Initializer", name |-> name] /\ e = ExprFrame(0) OBVIOUS
    <2>2. CallFrom(name + 2, f, e) BY <1>3, <1>6, <2>1 DEF ParseVarDecl
    <2>3. name + 1 \in Places(source) /\ name \in Nat BY <1>4, <1>6, TokenAt
    <2>4. name + 1 + 1 \in Places(source) BY <1>6, <2>3, TokenAt
    <2>5. PICK p : p = name + 2 OBVIOUS
    <2>6. p \in Places(source) /\ p - 2 = name /\ p - 1 = name + 1 /\ p - 3 = name - 1
      BY <2>3, <2>4, <2>5
    <2>7. f.fn = "Initializer" /\ f.name = name /\ ShapeOK(f) BY <2>1 DEF ShapeOK, Functions
    <2>8. Gives(f) = Wants(Below) BY <1>2, <2>7 DEF Gives
    <2>9. Reading(R, source, f, cur, p)
      <3>1. KindAt(source, p - 2) = "Name" /\ KindAt(source, p - 1) = "="
        BY <1>6, <2>6, KindIs
      <3>2. p - 2 = cur \/ (p - 3 = cur /\ KindAt(source, cur) = "local")
        <4>1. cur \in Nat BY <1>2, PlacesAreNumbers
        <4> QED BY <1>4, <2>6, <4>1, KindIs
      <3> QED BY <2>6, <2>7, <3>1, <3>2 DEF Reading
    <2>10. Gives(e) = Awaits(f) /\ Fresh(R, source, e, p, p)
      BY <2>1, <2>7, ExprIsFresh DEF Awaits
    <2> QED BY <1>2, <2>2, <2>5, <2>6, <2>8, <2>9, <2>10, CallNests
  <1>7. CASE Kind(name) = "Name" /\ Kind(name + 1) # "="
    <2>1. PICK n : n = VarDecl(name, <<>>) OBVIOUS
    <2>2. Answer(name + 1, <<"node", n>>) BY <1>3, <1>7, <2>1 DEF ParseVarDecl
    <2>3. name + 1 \in Places(source) BY <1>4, <1>7, TokenAt
    <2>4. <<"decl", name, name + 1>> \in R
      <3>1. KindAt(source, name) = "Name" BY <1>7, KindIs
      <3> QED BY <1>4, <3>1 DEF ObeysTheRules, StatRules
    <2>5. <<"stat", cur, name + 1>> \in R
      BY <1>2, <1>4, <2>3, <2>4, DeclarationsAreStatements
    <2>6. /\ n.kind = "VariableDeclaration" /\ n.name = name /\ n.initializer = <<>>
          /\ n.kind # "ReturnStatement"
      BY <2>1 DEF VarDecl
    <2>7. StatementOK(R, n, cur, name + 1) BY <2>5, <2>6 DEF StatementOK
    <2>8. cur < name + 1
      <3>1. cur \in Nat BY <1>2, PlacesAreNumbers
      <3> QED BY <1>4, <3>1
    <2>9. KindAt(source, name) = "Name" /\ (name = cur \/ KindAt(source, cur) = "local")
      BY <1>4, <1>7, KindIs
    <2>10. NodeFits(n, cur, name + 1, source) BY <1>4, <2>6, <2>9 DEF NodeFits
    <2>11. NodeIs(source, n, cur, name + 1) BY <2>8, <2>10 DEF NodeIs
    <2> QED BY <1>2, <2>2, <2>7, <2>11, NodeNests DEF StatementFunctions
  <1> QED BY <1>5, <1>6, <1>7

LEMMA VarDeclInitializedNests ==
    ASSUME TypeOK, NEW R, ObeysTheRules(source, R), NestedIn(R), VarDeclInitialized
    PROVE  NestedIn(R)'
  <1>1. In("Initializer") /\ Got("expr") BY DEF VarDeclInitialized
  <1>2. Top.fn = "Initializer" /\ cur \in Places(source) /\ Gives(Top) = Wants(Below)
    BY <1>1, ExprGot
  <1>3. PICK b, p \in Places(source) :
            /\ Stands(R, source, Below, b) /\ Reading(R, source, Top, b, p)
            /\ <<"expr", p, cur>> \in R /\ ret[2].span = Span(p, cur) /\ p < cur
    BY <1>1, ExprGot DEF ExprOK
  <1>4. /\ KindAt(source, p - 2) = "Name" /\ KindAt(source, p - 1) = "="
        /\ Top.name = p - 2
        /\ p - 2 = b \/ (p - 3 = b /\ KindAt(source, b) = "local")
    BY <1>2, <1>3 DEF Reading
  <1>5. PICK name : name = p - 2 OBVIOUS
  <1>6. b \in Nat /\ p \in Nat /\ b >= 1 BY PlacesAreNumbers
  <1>7. name \in Places(source) /\ name + 1 = p - 1 /\ name + 2 = p
        /\ (name = b \/ (name = b + 1 /\ Kind(b) = "local"))
    <2>1. name + 1 = p - 1 /\ name + 2 = p BY <1>5, <1>6
    <2>2. name = b \/ (name = b + 1 /\ Kind(b) = "local") BY <1>4, <1>5, <1>6, KindIs
    <2>3. Kind(b) = "local" => b + 1 \in Places(source) BY TokenAt
    <2> QED BY <2>1, <2>2, <2>3
  <1>8. <<"decl", name, cur>> \in R
    <2>1. KindAt(source, name) = "Name" /\ KindAt(source, name + 1) = "="
          /\ <<"expr", name + 2, cur>> \in R
      BY <1>3, <1>4, <1>5, <1>7
    <2> QED BY <1>2, <1>7, <2>1 DEF ObeysTheRules, StatRules
  <1>9. <<"stat", b, cur>> \in R BY <1>2, <1>7, <1>8, DeclarationsAreStatements
  <1>10. PICK n : n = VarDecl(Top.name, <<ret[2]>>) OBVIOUS
  <1>11. Answer(cur, <<"node", n>>) BY <1>10 DEF VarDeclInitialized
  <1>12. /\ n.kind = "VariableDeclaration" /\ n.kind # "ReturnStatement"
         /\ n.name = Top.name /\ n.initializer = <<ret[2]>>
    BY <1>10 DEF VarDecl
  <1>14. NodeIs(source, n, b, cur)
    <2>1. b < cur
      <3>1. cur \in Nat /\ p < cur BY <1>2, <1>3, PlacesAreNumbers
      <3>2. p = b + 2 \/ p = b + 3 BY ONLY <1>6, <1>7
      <3> QED BY ONLY <1>6, <3>1, <3>2
    <2>2. n.name = name /\ n.initializer # <<>> /\ n.initializer[1] = ret[2]
      BY <1>4, <1>5, <1>12
    <2>3. KindAt(source, name) = "Name" /\ KindAt(source, name + 1) = "="
      BY <1>4, <1>5, <1>7
    <2>4. name = b \/ (name = b + 1 /\ KindAt(source, b) = "local") BY <1>7, KindIs
    <2>5. n.initializer[1].span = Span(name + 2, cur) BY <1>3, <1>7, <2>2
    <2>6. NodeFits(n, b, cur, source) BY <1>12, <2>2, <2>3, <2>4, <2>5 DEF NodeFits
    <2> QED BY <2>1, <2>6 DEF NodeIs
  <1>13. StatementOK(R, n, b, cur) BY <1>9, <1>12 DEF StatementOK
  <1> QED BY <1>2, <1>3, <1>11, <1>13, <1>14, NodeNests DEF StatementFunctions

LEMMA ParseRetStmtNests ==
    ASSUME TypeOK, NEW R, ObeysTheRules(source, R), NestedIn(R), ParseRetStmt
    PROVE  NestedIn(R)'
  <1>1. In("ParseRetStmt") /\ Called BY DEF ParseRetStmt
  <1>2. /\ Top.fn = "ParseRetStmt" /\ cur \in Places(source) /\ ShapeOK(Top)
        /\ Stands(R, source, Below, cur) /\ Gives(Top) = Wants(Below)
        /\ Fresh(R, source, Top, cur, cur)
    BY <1>1, StatementCalled DEF StatementFunctions
  <1>3. KindAt(source, cur) = "return" /\ Kind(cur) = "return" BY <1>2, KindIs DEF Fresh
  <1>4. PICK p : p = cur + 1 OBVIOUS
  <1>5. p \in Places(source) BY <1>2, <1>3, <1>4, TokenAt
  <1>6. CASE Kind(p) \in {"EOF", ";"}
    <2>1. PICK n : n = Return(<<>>) OBVIOUS
    <2>2. Answer(p, <<"node", n>>) BY <1>4, <1>6, <2>1 DEF ParseRetStmt
    <2>3. KindAt(source, cur + 1) \in {"EOF", ";"} BY <1>4, <1>6, KindIs
    <2>4. <<"return", cur, p>> \in R
      BY <1>2, <1>3, <1>4, <2>3 DEF ObeysTheRules, BlockRules
    <2>5. n.kind = "ReturnStatement" /\ n.expression = <<>> BY <2>1 DEF Return
    <2>7. NodeIs(source, n, cur, p)
      <3>1. cur < p BY <1>2, <1>4, PlacesAreNumbers
      <3>2. NodeFits(n, cur, p, source) BY <1>3, <1>4, <2>5 DEF NodeFits
      <3> QED BY <3>1, <3>2 DEF NodeIs
    <2>6. StatementOK(R, n, cur, p) BY <2>4, <2>5 DEF StatementOK
    <2> QED BY <1>2, <2>2, <2>6, <2>7, NodeNests DEF StatementFunctions
  <1>7. CASE Kind(p) \notin {"EOF", ";"}
    <2>1. PICK f, e : f = Top /\ e = ExprFrame(0) OBVIOUS
    <2>2. CallFrom(p, f, e) BY <1>4, <1>7, <2>1 DEF ParseRetStmt
    <2>3. Reading(R, source, f, cur, p) BY <1>2, <1>3, <1>4, <2>1 DEF Reading
    <2>4. Gives(e) = Awaits(f) /\ Fresh(R, source, e, p, p)
      BY <1>2, <2>1, ExprIsFresh DEF Awaits
    <2> QED BY <1>2, <1>5, <2>1, <2>2, <2>3, <2>4, CallNests
  <1> QED BY <1>6, <1>7

LEMMA RetStmtGotExprNests ==
    ASSUME TypeOK, NEW R, ObeysTheRules(source, R), NestedIn(R), RetStmtGotExpr
    PROVE  NestedIn(R)'
  <1>1. In("ParseRetStmt") /\ Got("expr") BY DEF RetStmtGotExpr
  <1>2. Top.fn = "ParseRetStmt" /\ cur \in Places(source) /\ Gives(Top) = Wants(Below)
    BY <1>1, ExprGot
  <1>3. PICK b, p \in Places(source) :
            /\ Stands(R, source, Below, b) /\ Reading(R, source, Top, b, p)
            /\ <<"expr", p, cur>> \in R /\ ret[2].span = Span(p, cur) /\ p < cur
    BY <1>1, ExprGot DEF ExprOK
  <1>4. KindAt(source, b) = "return" /\ p = b + 1 BY <1>2, <1>3 DEF Reading
  <1>5. <<"return", b, cur>> \in R BY <1>2, <1>3, <1>4 DEF ObeysTheRules, BlockRules
  <1>6. PICK n : n = Return(<<ret[2]>>) OBVIOUS
  <1>7. Answer(cur, <<"node", n>>) BY <1>6 DEF RetStmtGotExpr
  <1>8. n.kind = "ReturnStatement" /\ n.expression = <<ret[2]>> BY <1>6 DEF Return
  <1>10. NodeIs(source, n, b, cur)
    <2>1. b \in Nat /\ cur \in Nat BY <1>2, PlacesAreNumbers
    <2>2. b < cur BY <1>3, <1>4, <2>1
    <2>3. n.expression # <<>> /\ n.expression[1] = ret[2] BY <1>8
    <2>4. NodeFits(n, b, cur, source) BY <1>3, <1>4, <1>8, <2>3 DEF NodeFits
    <2> QED BY <2>2, <2>4 DEF NodeIs
  <1>9. StatementOK(R, n, b, cur) BY <1>5, <1>8 DEF StatementOK
  <1> QED BY <1>2, <1>3, <1>7, <1>9, <1>10, NodeNests DEF StatementFunctions

LEMMA ParseExprStmtNests ==
    ASSUME TypeOK, NEW R, ObeysTheRules(source, R), NestedIn(R), ParseExprStmt
    PROVE  NestedIn(R)'
  <1>1. In("ParseExprStmt") /\ Called BY DEF ParseExprStmt
  <1>2. /\ Top.fn = "ParseExprStmt" /\ cur \in Places(source) /\ ShapeOK(Top)
        /\ Stands(R, source, Below, cur) /\ Gives(Top) = Wants(Below)
        /\ Fresh(R, source, Top, cur, cur)
    BY <1>1, StatementCalled DEF StatementFunctions
  <1>3. PICK f, e : f = Top /\ e = ExprFrame(0) OBVIOUS
  <1>4. CallFrom(cur, f, e) BY <1>3 DEF ParseExprStmt
  <1>5. Reading(R, source, f, cur, cur) BY <1>2, <1>3 DEF Reading, Fresh
  <1>6. Gives(e) = Awaits(f) /\ Fresh(R, source, e, cur, cur)
    BY <1>2, <1>3, ExprIsFresh DEF Awaits
  <1> QED BY <1>2, <1>3, <1>4, <1>5, <1>6, CallNests

LEMMA ExprStmtGotExprNests ==
    ASSUME TypeOK, NEW R, ObeysTheRules(source, R), NestedIn(R), ExprStmtGotExpr
    PROVE  NestedIn(R)'
  <1>1. In("ParseExprStmt") /\ Got("expr") BY DEF ExprStmtGotExpr
  <1>2. Top.fn = "ParseExprStmt" /\ cur \in Places(source) /\ Gives(Top) = Wants(Below)
    BY <1>1, ExprGot
  <1>3. PICK b, p \in Places(source) :
            /\ Stands(R, source, Below, b) /\ Reading(R, source, Top, b, p)
            /\ <<"expr", p, cur>> \in R /\ ret[2].span = Span(p, cur) /\ p < cur
    BY <1>1, ExprGot DEF ExprOK
  <1>4. KindAt(source, b) \notin StatementKinds /\ p = b BY <1>2, <1>3 DEF Reading
  <1>5. <<"stat", b, cur>> \in R BY <1>2, <1>3, <1>4 DEF ObeysTheRules, StatRules
  <1>6. PICK n : n = ExprStmt(ret[2]) OBVIOUS
  <1>7. Answer(cur, <<"node", n>>) BY <1>6 DEF ExprStmtGotExpr
  <1>8. /\ n.kind = "ExpressionStatement" /\ n.kind # "ReturnStatement"
        /\ n.expression = <<ret[2]>>
    BY <1>6 DEF ExprStmt
  <1>10. NodeIs(source, n, b, cur)
    <2>1. n.expression[1] = ret[2] BY <1>8
    <2>2. NodeFits(n, b, cur, source) BY <1>3, <1>4, <1>8, <2>1 DEF NodeFits
    <2> QED BY <1>3, <1>4, <2>2 DEF NodeIs
  <1>9. StatementOK(R, n, b, cur) BY <1>5, <1>8 DEF StatementOK
  <1> QED BY <1>2, <1>3, <1>7, <1>9, <1>10, NodeNests DEF StatementFunctions

----------------------------------------------------------------------------
(* If statements.                                                          *)
LEMMA IfFrameIs ==
    ASSUME NEW c, NEW t
    PROVE  LET f == IfFrame(c, t) IN
           f.fn = "ParseIfStmt" /\ f.cond = c /\ f.then = t /\ ShapeOK(f)
  BY DEF IfFrame, ShapeOK, Functions

LEMMA ParseIfStmtNests ==
    ASSUME TypeOK, NEW R, ObeysTheRules(source, R), NestedIn(R), ParseIfStmt
    PROVE  NestedIn(R)'
  <1>1. In("ParseIfStmt") /\ Called BY DEF ParseIfStmt
  <1>2. /\ Top.fn = "ParseIfStmt" /\ cur \in Places(source) /\ ShapeOK(Top)
        /\ Stands(R, source, Below, cur) /\ Gives(Top) = Wants(Below)
        /\ Fresh(R, source, Top, cur, cur)
    BY <1>1, StatementCalled DEF StatementFunctions
  <1>3. KindAt(source, cur) = "if" /\ Kind(cur) = "if" /\ Top.cond = <<>>
    BY <1>2, KindIs DEF Fresh
  <1>4. PICK p, f, e : p = cur + 1 /\ f = Top /\ e = ExprFrame(0) OBVIOUS
  <1>5. p \in Places(source) BY <1>2, <1>3, <1>4, TokenAt
  <1>6. CallFrom(p, f, e) BY <1>4 DEF ParseIfStmt
  <1>7. Reading(R, source, f, cur, p) BY <1>2, <1>3, <1>4 DEF Reading, ReadingIf
  <1>8. Gives(e) = Awaits(f) /\ Fresh(R, source, e, p, p)
    BY <1>2, <1>3, <1>4, ExprIsFresh DEF Awaits
  <1> QED BY <1>2, <1>4, <1>5, <1>6, <1>7, <1>8, CallNests

LEMMA IfGotConditionNests ==
    ASSUME TypeOK, NEW R, ObeysTheRules(source, R), NestedIn(R), IfGotCondition
    PROVE  NestedIn(R)'
  <1>1. In("ParseIfStmt") /\ Got("expr") /\ Top.fn = "ParseIfStmt" /\ "expr" \in Results
    BY DEF IfGotCondition, In, Results
  <1>2. PICK b, p \in Places(source) :
            /\ Stands(R, source, Below, b) /\ Gives(Top) = Wants(Below)
            /\ Reading(R, source, Top, b, p)
            /\ Fulfils(R, source, Awaits(Top), ret, p, cur)
    BY <1>1, WaitingStands
  <1>3. PICK w : w = Awaits(Top) OBVIOUS
  <1>4. w[1] # "block" BY <1>1, <1>2, <1>3 DEF Fulfils, Got
  <1>5. Top.cond = <<>> /\ w[1] = "expr" BY <1>1, <1>3, <1>4 DEF Awaits
  <1>6. <<"expr", p, cur>> \in R /\ ret[2].span = Span(p, cur) /\ p < cur
    BY <1>2, <1>3, <1>5 DEF Fulfils, ExprOK
  <1>7. KindAt(source, b) = "if" /\ p = b + 1 BY <1>1, <1>2, <1>5 DEF Reading, ReadingIf
  <1>8. CASE Kind(cur) # "then"
    <2>1. Refuse(cur) BY <1>8 DEF IfGotCondition
    <2> QED BY <2>1, RefuseNests
  <1>9. CASE Kind(cur) = "then"
    <2>1. PICK j, c, f, g : /\ j = cur + 1 /\ c = <<ret[2]>> /\ f = IfFrame(c, <<>>)
                            /\ g = BlockFrame({"else", "end"})
      OBVIOUS
    <2>2. CallFrom(j, f, g) BY <1>9, <2>1 DEF IfGotCondition
    <2>3. f.fn = "ParseIfStmt" /\ f.cond = c /\ f.then = <<>> /\ ShapeOK(f)
      BY <2>1, IfFrameIs
    <2>4. c # <<>> /\ c[1] = ret[2] BY <2>1
    <2>5. cur \in Places(source) /\ j \in Places(source)
      BY <1>9, <2>1, TokenAt, PlacesAreNumbers
    <2>6. KindAt(source, cur) = "then" BY <1>9, KindIs
    <2>7. Reading(R, source, f, b, j)
      <3>1. ReadingIf(R, source, f, b, j)
        BY <1>6, <1>7, <2>1, <2>3, <2>4, <2>5, <2>6 DEF ReadingIf
      <3> QED BY <2>3, <3>1 DEF Reading
    <2>8. Gives(f) = Wants(Below) BY <1>1, <1>2, <2>3 DEF Gives
    <2>9. Awaits(f) = <<"block", {"else", "end"}>> BY <2>3, <2>4 DEF Awaits
    <2>10. Gives(g) = Awaits(f) /\ Fresh(R, source, g, j, j)
      BY <2>1, <2>5, <2>9, BlockIsFresh
    <2> QED BY <1>2, <2>2, <2>5, <2>7, <2>8, <2>10, CallNests
  <1> QED BY <1>8, <1>9

(* The block that a branch has got, and the condition before it.           *)
LEMMA BranchGot ==
    ASSUME TypeOK, NEW R, NestedIn(R), In("ParseIfStmt"), Got("block")
    PROVE  /\ Top.fn = "ParseIfStmt" /\ cur \in Places(source) /\ Gives(Top) = Wants(Below)
           /\ Top.cond # <<>>
           /\ \E b, p \in Places(source) :
                  /\ Stands(R, source, Below, b)
                  /\ ReadingIf(R, source, Top, b, p) /\ KindAt(source, b) = "if"
                  /\ <<"block", p, cur>> \in R /\ BlockIs(source, ret[2], p, cur)
  <1>1. Top.fn = "ParseIfStmt" /\ "block" \in Results BY DEF In, Results
  <1>2. PICK b, p \in Places(source) :
            /\ Stands(R, source, Below, b) /\ Gives(Top) = Wants(Below)
            /\ Reading(R, source, Top, b, p)
            /\ Fulfils(R, source, Awaits(Top), ret, p, cur)
    BY <1>1, WaitingStands
  <1>3. PICK w : w = Awaits(Top) OBVIOUS
  <1>4. w[1] # "expr" BY <1>2, <1>3 DEF Fulfils, Got
  <1>5. Top.cond # <<>> /\ w[1] = "block" BY <1>1, <1>3, <1>4 DEF Awaits
  <1>6. <<"block", p, cur>> \in R /\ BlockIs(source, ret[2], p, cur)
    BY <1>2, <1>3, <1>5 DEF Fulfils
  <1>7. ReadingIf(R, source, Top, b, p) BY <1>1, <1>2 DEF Reading
  <1>8. KindAt(source, b) = "if" BY <1>7 DEF ReadingIf
  <1>9. cur \in Places(source) BY PlacesAreNumbers
  <1> QED BY <1>1, <1>2, <1>5, <1>6, <1>7, <1>8, <1>9

LEMMA IfNests ==
    ASSUME TypeOK, NEW R, NEW b \in Places(source), Stands(R, source, Below, b),
           Top.fn = "ParseIfStmt", Gives(Top) = Wants(Below),
           NEW c, NEW t, NEW e, Answer(cur + 1, <<"node", If(c, t, e)>>),
           <<"stat", b, cur + 1>> \in R, NodeIs(source, If(c, t, e), b, cur + 1)
    PROVE  NestedIn(R)'
  <1>1. PICK n, j : n = If(c, t, e) /\ j = cur + 1 OBVIOUS
  <1>2. n.kind # "ReturnStatement" BY <1>1 DEF If
  <1>3. StatementOK(R, n, b, j) BY <1>1, <1>2 DEF StatementOK
  <1>4. Answer(j, <<"node", n>>) BY <1>1
  <1>5. NodeIs(source, n, b, j) BY <1>1
  <1>6. Top.fn \in StatementFunctions BY DEF StatementFunctions
  <1> QED BY <1>3, <1>4, <1>5, <1>6, NodeNests

(* The statement's tokens, from the condition and the branches.            *)
LEMMA ShortIfFits ==
    ASSUME TypeOK, NEW b \in Places(source), NEW k \in Places(source), NEW c, NEW t,
           KindAt(source, b) = "if", c.span = Span(b + 1, k), b + 1 < k,
           KindAt(source, k) = "then", BlockIs(source, t, k + 1, cur),
           KindAt(source, cur) = "end"
    PROVE  NodeIs(source, If(c, t, <<>>), b, cur + 1)
  <1>1. PICK n, j : n = If(c, t, <<>>) /\ j = cur + 1 OBVIOUS
  <1>2. /\ n.kind = "IfStatement" /\ n.condition = c /\ n.then = t /\ n.else = <<>>
    BY <1>1 DEF If
  <1>3. b \in Nat /\ k \in Nat /\ cur \in Nat /\ j - 1 = cur BY <1>1, PlacesAreNumbers
  <1>4. c.span.end = k BY SpanFields
  <1>5. ASSUME InTime PROVE b < j /\ NodeFits(n, b, j, source)
    <2>1. k + 1 <= cur /\ BlockFits(t, k + 1, cur, source) BY <1>5 DEF BlockIs
    <2>2. b < j BY ONLY <1>1, <1>3, <2>1, b + 1 < k
    <2>3. IfFits(n, b, j, source) BY <1>2, <1>3, <1>4, <2>1 DEF IfFits
    <2> QED BY <1>2, <2>2, <2>3 DEF NodeFits
  <1> QED BY <1>1, <1>5 DEF NodeIs

LEMMA LongIfFits ==
    ASSUME TypeOK, NEW b \in Places(source), NEW k \in Places(source), NEW l \in Places(source),
           NEW c, NEW t, NEW e,
           KindAt(source, b) = "if", c.span = Span(b + 1, k), b + 1 < k,
           KindAt(source, k) = "then", BlockIs(source, t, k + 1, l),
           KindAt(source, l) = "else", BlockIs(source, e, l + 1, cur),
           KindAt(source, cur) = "end"
    PROVE  NodeIs(source, If(c, t, <<e>>), b, cur + 1)
  <1>1. PICK n, j : n = If(c, t, <<e>>) /\ j = cur + 1 OBVIOUS
  <1>2. /\ n.kind = "IfStatement" /\ n.condition = c /\ n.then = t
        /\ n.else # <<>> /\ n.else[1] = e
    BY <1>1 DEF If
  <1>3. b \in Nat /\ k \in Nat /\ l \in Nat /\ cur \in Nat /\ j - 1 = cur
    BY <1>1, PlacesAreNumbers
  <1>4. c.span.end = k BY SpanFields
  <1>5. ASSUME InTime PROVE b < j /\ NodeFits(n, b, j, source)
    <2>1. /\ k + 1 <= l /\ BlockFits(t, k + 1, l, source)
          /\ l + 1 <= cur /\ BlockFits(e, l + 1, cur, source)
      BY <1>5 DEF BlockIs
    <2>2. b < j /\ l \in (k + 1)..(j - 2) BY ONLY <1>1, <1>3, <2>1, b + 1 < k
    <2>3. IfFits(n, b, j, source) BY <1>2, <1>3, <1>4, <2>1, <2>2 DEF IfFits
    <2> QED BY <1>2, <2>2, <2>3 DEF NodeFits
  <1> QED BY <1>1, <1>5 DEF NodeIs

LEMMA IfGotThenBranchNests ==
    ASSUME TypeOK, NEW R, ObeysTheRules(source, R), NestedIn(R), IfGotThenBranch
    PROVE  NestedIn(R)'
  <1>1. In("ParseIfStmt") /\ Got("block") /\ Top.then = <<>> BY DEF IfGotThenBranch
  <1>2. /\ Top.fn = "ParseIfStmt" /\ cur \in Places(source) /\ Gives(Top) = Wants(Below)
        /\ Top.cond # <<>>
    BY <1>1, BranchGot
  <1>3. PICK b, p \in Places(source) :
            /\ Stands(R, source, Below, b)
            /\ ReadingIf(R, source, Top, b, p) /\ KindAt(source, b) = "if"
            /\ <<"block", p, cur>> \in R /\ BlockIs(source, ret[2], p, cur)
    BY <1>1, BranchGot
  <1>4. PICK k \in Places(source) :
            /\ <<"expr", b + 1, k>> \in R /\ KindAt(source, k) = "then" /\ p = k + 1
            /\ Top.cond[1].span = Span(b + 1, k) /\ b + 1 < k
    BY <1>1, <1>2, <1>3 DEF ReadingIf
  <1>5. CASE Kind(cur) = "else"
    <2>1. PICK j, t, f, g : /\ j = cur + 1 /\ t = <<ret[2]>> /\ f = IfFrame(Top.cond, t)
                            /\ g = BlockFrame({"end"})
      OBVIOUS
    <2>2. CallFrom(j, f, g) BY <1>5, <2>1 DEF IfGotThenBranch
    <2>3. f.fn = "ParseIfStmt" /\ f.cond = Top.cond /\ f.then = t /\ ShapeOK(f)
      BY <2>1, IfFrameIs
    <2>4. t # <<>> /\ t[1] = ret[2] BY <2>1
    <2>5. j \in Places(source) BY <1>2, <1>5, <2>1, TokenAt
    <2>6. KindAt(source, cur) = "else" BY <1>5, KindIs
    <2>7. Reading(R, source, f, b, j)
      <3>1. <<"block", k + 1, cur>> \in R /\ BlockIs(source, f.then[1], k + 1, cur)
        BY <1>3, <1>4, <2>3, <2>4
      <3>2. ReadingIf(R, source, f, b, j)
        BY <1>2, <1>3, <1>4, <2>1, <2>3, <2>4, <2>6, <3>1 DEF ReadingIf
      <3> QED BY <2>3, <3>2 DEF Reading
    <2>8. Gives(f) = Wants(Below) BY <1>2, <2>3 DEF Gives
    <2>9. Awaits(f) = <<"block", {"end"}>> BY <1>2, <2>3, <2>4 DEF Awaits
    <2>10. Gives(g) = Awaits(f) /\ Fresh(R, source, g, j, j)
      BY <2>1, <2>5, <2>9, BlockIsFresh
    <2> QED BY <1>3, <2>2, <2>5, <2>7, <2>8, <2>10, CallNests
  <1>6. CASE Kind(cur) = "end"
    <2>1. Answer(cur + 1, <<"node", If(Top.cond[1], ret[2], <<>>)>>)
      BY <1>6 DEF IfGotThenBranch
    <2>2. KindAt(source, cur) = "end" /\ <<"block", k + 1, cur>> \in R
      BY <1>3, <1>4, <1>6, KindIs
    <2>3. <<"stat", b, cur + 1>> \in R
      BY <1>2, <1>3, <1>4, <2>2 DEF ObeysTheRules, StatRules
    <2>4. NodeIs(source, If(Top.cond[1], ret[2], <<>>), b, cur + 1)
      BY <1>2, <1>3, <1>4, <2>2, ShortIfFits
    <2> QED BY <1>2, <1>3, <2>1, <2>3, <2>4, IfNests
  <1>7. CASE Kind(cur) \notin {"else", "end"}
    <2>1. Refuse(cur) BY <1>7 DEF IfGotThenBranch
    <2> QED BY <2>1, RefuseNests
  <1> QED BY <1>5, <1>6, <1>7

LEMMA IfGotElseBranchNests ==
    ASSUME TypeOK, NEW R, ObeysTheRules(source, R), NestedIn(R), IfGotElseBranch
    PROVE  NestedIn(R)'
  <1>1. In("ParseIfStmt") /\ Got("block") /\ Top.then # <<>> BY DEF IfGotElseBranch
  <1>2. /\ Top.fn = "ParseIfStmt" /\ cur \in Places(source) /\ Gives(Top) = Wants(Below)
        /\ Top.cond # <<>>
    BY <1>1, BranchGot
  <1>3. PICK b, p \in Places(source) :
            /\ Stands(R, source, Below, b)
            /\ ReadingIf(R, source, Top, b, p) /\ KindAt(source, b) = "if"
            /\ <<"block", p, cur>> \in R /\ BlockIs(source, ret[2], p, cur)
    BY <1>1, BranchGot
  <1>4. PICK k, l \in Places(source) :
            /\ <<"expr", b + 1, k>> \in R /\ KindAt(source, k) = "then"
            /\ Top.cond[1].span = Span(b + 1, k) /\ b + 1 < k
            /\ BlockIs(source, Top.then[1], k + 1, l)
            /\ <<"block", k + 1, l>> \in R /\ KindAt(source, l) = "else" /\ p = l + 1
    BY <1>1, <1>2, <1>3 DEF ReadingIf
  <1>5. CASE Kind(cur) = "end"
    <2>1. Answer(cur + 1, <<"node", If(Top.cond[1], Top.then[1], <<ret[2]>>)>>)
      BY <1>5 DEF IfGotElseBranch
    <2>2. KindAt(source, cur) = "end" /\ <<"block", l + 1, cur>> \in R
      BY <1>3, <1>4, <1>5, KindIs
    <2>3. <<"stat", b, cur + 1>> \in R
      BY <1>2, <1>3, <1>4, <2>2 DEF ObeysTheRules, StatRules
    <2>4. NodeIs(source, If(Top.cond[1], Top.then[1], <<ret[2]>>), b, cur + 1)
      BY <1>2, <1>3, <1>4, <2>2, LongIfFits
    <2> QED BY <1>2, <1>3, <2>1, <2>3, <2>4, IfNests
  <1>6. CASE Kind(cur) # "end"
    <2>1. Refuse(cur) BY <1>6 DEF IfGotElseBranch
    <2> QED BY <2>1, RefuseNests
  <1> QED BY <1>5, <1>6

----------------------------------------------------------------------------
(* The nodes of expressions.                                               *)
LEMMA SpansDiffer ==
    ASSUME NEW i, NEW j, NEW k, NEW l, i # k PROVE Span(i, j) # Span(k, l)
  BY SpanFields

LEMMA LeafStands ==
    ASSUME TypeOK, NEW R, ObeysTheRules(source, R), NEW i \in Places(source),
           NEW kind, kind = IF Kind(i) = "Name" THEN "Variable" ELSE "Literal",
           Kind(i) \in Operands
    PROVE  LET e == Leaf(kind, i) IN ExprOK(R, source, e, i, i + 1) /\ ~BareBinary(e)
  <1>1. PICK e : e = Leaf(kind, i) OBVIOUS
  <1>2. Kind(i) # "EOF" BY DEF Operands, LiteralKinds
  <1>3. source[i] = Kind(i) /\ i \in Nat BY <1>2, TokenAt
  <1>4. <<"expr", i, i + 1>> \in R
    <2>1. KindAt(source, i) \in Operands BY KindIs
    <2> QED BY <2>1 DEF ObeysTheRules, ExprRules
  <1>5. /\ e.kind = kind /\ e.at = i /\ e.span = Span(i, i + 1)
        /\ e.kind # "Binary" /\ e.kind # "Unary"
    BY <1>1 DEF Leaf, TokenSpan
  <1>6. Inside(e) = Span(i, i + 1) BY <1>5 DEF Inside, TokenSpan
  <1>7. ~InParens(e) /\ ~BareBinary(e) BY <1>5, <1>6 DEF InParens, BareBinary
  <1>8. e.kind = "Variable" <=> source[i] = "Name" BY <1>3, <1>5
  <1>9. FitsTokens(e, source)
    <2>1. source[e.at] \in LiteralKinds \cup {"Name"} BY <1>3, <1>5 DEF Operands
    <2> QED BY <1>5, <1>7, <1>8, <2>1 DEF FitsTokens
  <1>10. NodeOK(e) BY <1>1, <1>5 DEF NodeOK, Leaf
  <1>11. i \in Int /\ i + 1 \in Int /\ i <= i /\ i - i = (i + 1) - (i + 1) /\ i < i + 1
    BY <1>3
  <1> QED BY <1>1, <1>4, <1>5, <1>6, <1>7, <1>9, <1>10, <1>11 DEF ExprOK

LEMMA UnaryStands ==
    ASSUME TypeOK, NEW R, ObeysTheRules(source, R), NEW i \in Places(source),
           NEW j \in Places(source), Kind(i) \in UnaryKinds,
           NEW rhs, ExprOK(R, source, rhs, i + 1, j), ~BareBinary(rhs)
    PROVE  LET e == Unary(Kind(i), rhs, MergeSourceSpans(TokenSpan(i), rhs.span)) IN
           ExprOK(R, source, e, i, j) /\ ~BareBinary(e)
  <1>1. PICK e : e = Unary(Kind(i), rhs, MergeSourceSpans(TokenSpan(i), rhs.span)) OBVIOUS
  <1>2. Kind(i) # "EOF" BY DEF UnaryKinds
  <1>3. source[i] = Kind(i) /\ i \in Nat /\ j \in Nat BY <1>2, TokenAt, PlacesAreNumbers
  <1>4. rhs.span = Span(i + 1, j) /\ rhs.span.begin = i + 1 /\ rhs.span.end = j /\ i + 1 < j
    BY ExprFacts DEF ExprOK
  <1>5. MergeSourceSpans(TokenSpan(i), rhs.span) = Span(i, j)
    BY <1>3, <1>4, SpansMerge DEF TokenSpan
  <1>6. <<"expr", i, j>> \in R
    <2>1. KindAt(source, i) \in UnaryKinds /\ <<"expr", i + 1, j>> \in R
      BY KindIs DEF ExprOK
    <2> QED BY <2>1 DEF ObeysTheRules, ExprRules
  <1>7. e.kind = "Unary" /\ e.op = Kind(i) /\ e.rhs = rhs /\ e.span = Span(i, j)
    BY <1>1, <1>5 DEF Unary
  <1>8. Inside(e) = Span(i, j)
    <2>1. (i + 1) - 1 = i BY <1>3
    <2> QED BY <1>4, <1>7, <2>1 DEF Inside
  <1>9. ~InParens(e) /\ ~BareBinary(e) BY <1>7, <1>8 DEF InParens, BareBinary
  <1>10. FitsTokens(e, source)
    <2>1. source[Inside(e).begin] = e.op BY <1>3, <1>7, <1>8, SpanFields
    <2> QED BY <1>7, <1>9, <2>1 DEF FitsTokens
  <1>11. NodeOK(e) BY <1>1, <1>7 DEF NodeOK, Unary
  <1>12. i \in Int /\ j \in Int /\ i <= i /\ i - i = j - j /\ i < j BY <1>3, <1>4
  <1> QED BY <1>1, <1>6, <1>7, <1>8, <1>9, <1>10, <1>11, <1>12 DEF ExprOK

LEMMA BinaryStands ==
    ASSUME TypeOK, NEW R, ObeysTheRules(source, R), NEW i \in Places(source),
           NEW p \in Places(source), NEW j \in Places(source),
           NEW op \in BinaryKinds, KindAt(source, p - 1) = op,
           NEW lhs, ExprOK(R, source, lhs, i, p - 1),
           NEW rhs, ExprOK(R, source, rhs, p, j),
           BareBinary(lhs) => Tighter(lhs.op, op, op # "^"),
           BareBinary(rhs) => Tighter(rhs.op, op, op = "^")
    PROVE  LET e == Binary(op, lhs, rhs, MergeSourceSpans(lhs.span, rhs.span)) IN
           ExprOK(R, source, e, i, j) /\ e.op = op
  <1>1. PICK e : e = Binary(op, lhs, rhs, MergeSourceSpans(lhs.span, rhs.span)) OBVIOUS
  <1>2. i \in Nat /\ j \in Nat /\ p \in Nat /\ i >= 1 BY PlacesAreNumbers
  <1>3. PICK k : k = p - 1 OBVIOUS
  <1>4. lhs.span = Span(i, k) /\ lhs.span.begin = i /\ lhs.span.end = k /\ i < k
        /\ <<"expr", i, k>> \in R
    BY <1>3, ExprFacts DEF ExprOK
  <1>5. rhs.span = Span(p, j) /\ rhs.span.begin = p /\ rhs.span.end = j /\ p < j
        /\ <<"expr", p, j>> \in R
    BY ExprFacts DEF ExprOK
  <1>6. k + 1 = p /\ k \in Nat /\ k <= p BY <1>2, <1>3, <1>4
  <1>7. k \in Places(source)
    <2>1. PICK n \in Nat : n = Len(source) BY TokensOfSource
    <2>2. p \in 1..(n + 1) BY <2>1 DEF Places
    <2>3. k \in 1..(n + 1) BY <1>2, <1>4, <1>6, <2>2
    <2> QED BY <2>1, <2>3 DEF Places
  <1>8. source[k] = op
    <2>1. Kind(k) = op /\ Kind(k) # "EOF" BY <1>3, KindIs, Precedences
    <2> QED BY <1>7, <2>1, TokenAt
  <1>9. MergeSourceSpans(lhs.span, rhs.span) = Span(i, j)
    <2>1. i \in Nat /\ k \in Nat /\ p \in Nat /\ j \in Nat /\ i < k /\ k <= p /\ p < j
      BY <1>2, <1>4, <1>5, <1>6
    <2>2. MergeSourceSpans(Span(i, k), Span(p, j)) = Span(i, j) BY <2>1, SpansMerge
    <2> QED BY <1>4, <1>5, <2>2
  <1>10. <<"expr", i, j>> \in R
    <2>1. KindAt(source, k) \in BinaryKinds /\ <<"expr", k + 1, j>> \in R
      BY <1>3, <1>5, <1>6
    <2> QED BY <1>4, <1>7, <2>1 DEF ObeysTheRules, ExprRules
  <1>11. e.kind = "Binary" /\ e.op = op /\ e.lhs = lhs /\ e.rhs = rhs /\ e.span = Span(i, j)
    BY <1>1, <1>9 DEF Binary
  <1>12. Inside(e) = Span(i, j) BY <1>4, <1>5, <1>11 DEF Inside
  <1>13. ~InParens(e) BY <1>11, <1>12 DEF InParens
  <1>14. FitsTokens(e, source)
    <2>1. source[e.lhs.span.end] = e.op /\ e.rhs.span.begin = e.lhs.span.end + 1
      BY <1>4, <1>5, <1>6, <1>8, <1>11
    <2> QED BY <1>11, <1>13, <2>1 DEF FitsTokens
  <1>15. NodeOK(e) BY <1>1, <1>11 DEF NodeOK, Binary
  <1>16. i \in Int /\ j \in Int /\ i <= i /\ i - i = j - j /\ i < j BY <1>2, <1>4, <1>5, <1>6
  <1> QED BY <1>1, <1>10, <1>11, <1>12, <1>14, <1>15, <1>16 DEF ExprOK

(* Another span is the only thing that parentheses give to a node.         *)
LEMMA Respanned ==
    ASSUME NEW e, NodeOK(e), NEW x
    PROVE  LET w == [e EXCEPT !.span = x] IN
           /\ NodeOK(w) /\ w.kind = e.kind /\ w.span = x /\ Inside(w) = Inside(e)
           /\ e.kind = "Binary" => w.op = e.op /\ w.lhs = e.lhs /\ w.rhs = e.rhs
           /\ e.kind = "Unary" => w.op = e.op /\ w.rhs = e.rhs
           /\ e.kind \notin {"Binary", "Unary"} => w.at = e.at
  <1>1. PICK w : w = [e EXCEPT !.span = x] OBVIOUS
  <1>2. CASE e.kind = "Binary"
    <2>1. e = Binary(e.op, e.lhs, e.rhs, e.span) BY <1>2 DEF NodeOK
    <2>2. w = Binary(e.op, e.lhs, e.rhs, x) BY <1>1, <1>2, <2>1 DEF Binary
    <2>3. w.kind = "Binary" /\ w.op = e.op /\ w.lhs = e.lhs /\ w.rhs = e.rhs /\ w.span = x
      BY <2>2 DEF Binary
    <2> QED BY <1>1, <1>2, <2>2, <2>3 DEF NodeOK, Inside
  <1>3. CASE e.kind = "Unary"
    <2>1. e = Unary(e.op, e.rhs, e.span) BY <1>3 DEF NodeOK
    <2>2. w = Unary(e.op, e.rhs, x) BY <1>1, <1>3, <2>1 DEF Unary
    <2>3. w.kind = "Unary" /\ w.op = e.op /\ w.rhs = e.rhs /\ w.span = x
      BY <2>2 DEF Unary
    <2> QED BY <1>1, <1>3, <2>2, <2>3 DEF NodeOK, Inside
  <1>4. CASE e.kind \notin {"Binary", "Unary"}
    <2>1. e = [kind |-> e.kind, at |-> e.at, span |-> e.span] BY <1>4 DEF NodeOK
    <2>2. w = [kind |-> e.kind, at |-> e.at, span |-> x] BY <1>1, <2>1
    <2>3. w.kind = e.kind /\ w.at = e.at /\ w.span = x BY <2>2
    <2> QED BY <1>1, <1>4, <2>2, <2>3 DEF NodeOK, Inside
  <1> QED BY <1>2, <1>3, <1>4

LEMMA ParenStands ==
    ASSUME TypeOK, NEW R, ObeysTheRules(source, R), NEW i \in Places(source),
           NEW j \in Places(source), Kind(i) = "(", Kind(j) = ")",
           NEW inner, ExprOK(R, source, inner, i + 1, j)
    PROVE  LET e == [inner EXCEPT !.span = MergeSourceSpans(TokenSpan(i), TokenSpan(j))] IN
           ExprOK(R, source, e, i, j + 1) /\ ~BareBinary(e)
  <1>1. PICK e : e = [inner EXCEPT !.span = MergeSourceSpans(TokenSpan(i), TokenSpan(j))]
    OBVIOUS
  <1>2. /\ source[i] = "(" /\ source[j] = ")" /\ i \in Nat /\ j \in Nat
        /\ j + 1 \in Places(source)
    BY TokenAt
  <1>3. inner.span = Span(i + 1, j) /\ i + 1 < j /\ NodeOK(inner) /\ FitsTokens(inner, source)
        /\ <<"expr", i + 1, j>> \in R
    BY DEF ExprOK
  <1>4. PICK a, b \in Int : Inside(inner) = Span(a, b) /\ i + 1 <= a /\ a - (i + 1) = j - b
    BY DEF ExprOK
  <1>5. MergeSourceSpans(TokenSpan(i), TokenSpan(j)) = Span(i, j + 1)
    <2>1. i < i + 1 /\ i + 1 <= j /\ j < j + 1 /\ i + 1 \in Nat /\ j + 1 \in Nat
      BY <1>2, <1>3
    <2> QED BY <1>2, <2>1, SpansMerge DEF TokenSpan
  <1>6. /\ NodeOK(e) /\ e.kind = inner.kind /\ e.span = Span(i, j + 1)
        /\ Inside(e) = Span(a, b)
        /\ e.kind = "Binary" => e.op = inner.op /\ e.lhs = inner.lhs /\ e.rhs = inner.rhs
        /\ e.kind = "Unary" => e.op = inner.op /\ e.rhs = inner.rhs
        /\ e.kind \notin {"Binary", "Unary"} => e.at = inner.at
    BY <1>1, <1>3, <1>4, <1>5, Respanned
  <1>7. <<"expr", i, j + 1>> \in R
    <2>1. KindAt(source, i) = "(" /\ KindAt(source, j) = ")" BY KindIs
    <2> QED BY <1>3, <2>1 DEF ObeysTheRules, ExprRules
  <1>8. i <= a /\ i < a /\ a - i = (j + 1) - b /\ i < j + 1 /\ (j + 1) - 1 = j
    BY <1>2, <1>3, <1>4
  <1>9. InParens(e) /\ ~BareBinary(e)
    <2>1. i # a BY <1>2, <1>8
    <2> QED BY <1>6, <2>1, SpansDiffer DEF InParens, BareBinary
  <1>10. FitsTokens(e, source)
    <2>1. /\ source[e.span.begin] = "(" /\ source[e.span.end - 1] = ")"
          /\ e.span.begin < Inside(e).begin
          /\ Inside(e).begin - e.span.begin = e.span.end - Inside(e).end
      BY <1>2, <1>6, <1>8, SpanFields
    <2>2. CASE e.kind = "Binary"
      BY <1>3, <1>6, <2>1, <2>2 DEF FitsTokens
    <2>3. CASE e.kind = "Unary"
      <3>1. Inside(e) = Inside(inner) BY <1>4, <1>6
      <3> QED BY <1>3, <1>6, <2>1, <2>3, <3>1 DEF FitsTokens
    <2>4. CASE e.kind \notin {"Binary", "Unary"}
      BY <1>3, <1>6, <2>1, <2>4 DEF FitsTokens
    <2> QED BY <2>2, <2>3, <2>4
  <1> QED BY <1>1, <1>6, <1>7, <1>8, <1>9, <1>10 DEF ExprOK

----------------------------------------------------------------------------
(* Expressions.                                                            *)
LEMMA ParseExprNests ==
    ASSUME TypeOK, NEW R, NestedIn(R), ParseExpr
    PROVE  NestedIn(R)'
  <1>1. In("ParseExpr") /\ Called /\ Top.fn = "ParseExpr" BY DEF ParseExpr, In
  <1>2. PICK b \in Places(source) :
            /\ Stands(R, source, Below, b) /\ Gives(Top) = Wants(Below)
            /\ Fresh(R, source, Top, b, cur)
    BY <1>1, CalledStands
  <1>3. PICK f, c : f = Top /\ c = PlainFrame("ParsePrimExpr") OBVIOUS
  <1>4. CallFrom(cur, f, c) BY <1>3 DEF ParseExpr
  <1>5. b = cur /\ f.op = "none" /\ ShapeOK(f) /\ f.fn = "ParseExpr"
    BY <1>1, <1>2, <1>3 DEF Fresh
  <1>6. Reading(R, source, f, b, cur) BY <1>5 DEF Reading, ReadingExpr
  <1>7. c.fn = "ParsePrimExpr" /\ ShapeOK(c) BY <1>3 DEF PlainFrame, ShapeOK, Functions
  <1>8. Gives(c) = Awaits(f) /\ Fresh(R, source, c, cur, cur)
    BY <1>5, <1>7 DEF Gives, Awaits, Fresh
  <1> QED BY <1>2, <1>3, <1>4, <1>5, <1>6, <1>8, CallNests

(* What a call of ParseExpr that began at token b has read, once it has    *)
(* got an operand.                                                         *)
LEMMA OperandGot ==
    ASSUME TypeOK, NEW R, ObeysTheRules(source, R), NestedIn(R), In("ParseExpr"), Got("expr")
    PROVE  /\ Top.fn = "ParseExpr" /\ ShapeOK(Top) /\ Gives(Top) = Wants(Below)
           /\ cur \in Places(source)
           /\ \E b \in Places(source) :
                  /\ Stands(R, source, Below, b)
                  /\ ExprOK(R, source, Combined(Top, ret[2]), b, cur)
                  /\ BareBinary(Combined(Top, ret[2])) =>
                         /\ Top.op \in BinaryKinds /\ Combined(Top, ret[2]).op = Top.op
                         /\ Precedence(Top.op) >= Top.min
                         /\ ~(Precedence(Kind(cur)) >= RhsPrecedence(Top.op))
  <1>1. Top.fn = "ParseExpr" /\ "expr" \in Results BY DEF In, Results
  <1>2. PICK b, p \in Places(source) :
            /\ Stands(R, source, Below, b) /\ Gives(Top) = Wants(Below)
            /\ Reading(R, source, Top, b, p)
            /\ Fulfils(R, source, Awaits(Top), ret, p, cur)
    BY <1>1, WaitingStands
  <1>3. ShapeOK(Top) /\ ReadingExpr(R, source, Top, b, p) BY <1>1, <1>2 DEF Reading
  <1>4. cur \in Places(source) BY PlacesAreNumbers
  <1>5. PICK f, e, w, c : f = Top /\ e = ret[2] /\ w = Awaits(f) /\ c = Combined(f, e)
    OBVIOUS
  <1>6. CASE f.op = "none"
    <2>1. w = <<"operand", 0>> BY <1>1, <1>5, <1>6 DEF Awaits
    <2>2. w[1] = "operand" BY <2>1
    <2>3. ExprOK(R, source, e, p, cur) /\ ~BareBinary(e) BY <1>2, <1>5, <2>2 DEF Fulfils
    <2>4. p = b /\ c = e BY <1>3, <1>5, <1>6 DEF ReadingExpr, Combined
    <2> QED BY <1>1, <1>2, <1>3, <1>4, <1>5, <2>3, <2>4
  <1>7. CASE f.op # "none"
    <2>1. w = <<"expr", RhsPrecedence(f.op)>> BY <1>1, <1>5, <1>7 DEF Awaits
    <2>2. w[1] = "expr" /\ w[2] = RhsPrecedence(f.op) BY <2>1
    <2>3. /\ ExprOK(R, source, e, p, cur)
          /\ BareBinary(e) => e.op \in BinaryKinds /\ Precedence(e.op) >= RhsPrecedence(f.op)
          /\ ~(Precedence(Kind(cur)) >= RhsPrecedence(f.op))
      BY <1>2, <1>5, <2>2, KindIs DEF Fulfils
    <2>4. /\ f.op \in BinaryKinds /\ Precedence(f.op) >= f.min
          /\ KindAt(source, p - 1) = f.op
          /\ ExprOK(R, source, f.lhs[1], b, p - 1)
          /\ BareBinary(f.lhs[1]) => Tighter(f.lhs[1].op, f.op, f.op # "^")
      BY <1>3, <1>5, <1>7 DEF ReadingExpr
    <2>5. BareBinary(e) => Tighter(e.op, f.op, f.op = "^")
      BY <2>3, <2>4, Precedences DEF RhsPrecedence, Tighter
    <2>6. c = Binary(f.op, f.lhs[1], e, MergeSourceSpans(f.lhs[1].span, e.span))
      BY <1>5, <1>7 DEF Combined
    <2>7. ExprOK(R, source, c, b, cur) /\ c.op = f.op
      BY <1>4, <2>3, <2>4, <2>5, <2>6, BinaryStands
    <2> QED BY <1>1, <1>2, <1>3, <1>4, <1>5, <2>3, <2>4, <2>7
  <1> QED BY <1>6, <1>7

LEMMA ParseExprContinuesNests ==
    ASSUME TypeOK, NEW R, ObeysTheRules(source, R), NestedIn(R), ParseExprContinues
    PROVE  NestedIn(R)'
  <1>1. In("ParseExpr") /\ Got("expr") /\ Binds(Top, Kind(cur)) BY DEF ParseExprContinues
  <1>2. /\ Top.fn = "ParseExpr" /\ ShapeOK(Top) /\ Gives(Top) = Wants(Below)
        /\ cur \in Places(source)
    BY <1>1, OperandGot
  <1>3. PICK e, op, min : e = Combined(Top, ret[2]) /\ op = Kind(cur) /\ min = Top.min
    OBVIOUS
  <1>4. PICK b \in Places(source) :
            /\ Stands(R, source, Below, b) /\ ExprOK(R, source, e, b, cur)
            /\ BareBinary(e) =>
                   /\ Top.op \in BinaryKinds /\ e.op = Top.op /\ Precedence(Top.op) >= min
                   /\ ~(Precedence(op) >= RhsPrecedence(Top.op))
    BY <1>1, <1>3, OperandGot
  <1>5. op \in BinaryKinds /\ Precedence(op) >= min
    <2>1. min \in Nat BY <1>2, <1>3 DEF ShapeOK
    <2>2. Precedence(op) >= min BY <1>1, <1>3 DEF Binds
    <2> QED BY <2>1, <2>2, Precedences
  <1>6. PICK p, t, f, g, l : /\ p = cur + 1 /\ g = ExprFrame(RhsPrecedence(op))
                             /\ l = <<e>> /\ t = Top /\ f = [t EXCEPT !.lhs = l, !.op = op]
    OBVIOUS
  <1>7. CallFrom(p, f, g) BY <1>3, <1>6 DEF ParseExprContinues
  <1>8. ShapeOK(f) /\ f.fn = "ParseExpr" /\ f.min = min /\ f.lhs = l /\ f.op = op
    <2>1. PICK l0, o0 : t = [fn |-> "ParseExpr", min |-> min, lhs |-> l0, op |-> o0]
      BY <1>2, <1>3, <1>6 DEF ShapeOK
    <2>2. f = [t EXCEPT !.lhs = l, !.op = op] BY <1>6
    <2>3. f = [fn |-> "ParseExpr", min |-> min, lhs |-> l, op |-> op] BY ONLY <2>1, <2>2
    <2>4. f.fn = "ParseExpr" /\ f.min = min /\ f.lhs = l /\ f.op = op BY <2>3
    <2>5. min \in Nat BY <1>2, <1>3 DEF ShapeOK
    <2> QED BY <2>3, <2>4, <2>5 DEF ShapeOK, Functions
  <1>9. p \in Places(source) /\ p - 1 = cur
    BY <1>2, <1>3, <1>5, <1>6, Precedences, TokenAt
  <1>10. BareBinary(e) => Tighter(e.op, op, op # "^")
    BY <1>4, <1>5, Precedences DEF RhsPrecedence, Tighter
  <1>11. Reading(R, source, f, b, p)
    <2>1. f.lhs[1] = e BY <1>6, <1>8
    <2>2. KindAt(source, p - 1) = op BY <1>3, <1>9, KindIs
    <2>3. op # "none" BY <1>5, Precedences
    <2>4. ReadingExpr(R, source, f, b, p)
      BY <1>4, <1>5, <1>8, <1>9, <1>10, <2>1, <2>2, <2>3 DEF ReadingExpr
    <2> QED BY <1>8, <2>4 DEF Reading
  <1>12. Gives(f) = Wants(Below) BY <1>2, <1>3, <1>8 DEF Gives
  <1>13. Gives(g) = Awaits(f) /\ Fresh(R, source, g, p, p)
    <2>1. RhsPrecedence(op) \in Nat /\ op # "none" BY <1>5, Precedences
    <2> QED BY <1>6, <1>8, <2>1, ExprIsFresh DEF Awaits
  <1> QED BY <1>4, <1>7, <1>9, <1>11, <1>12, <1>13, CallNests

LEMMA ParseExprEndsNests ==
    ASSUME TypeOK, NEW R, ObeysTheRules(source, R), NestedIn(R), ParseExprEnds
    PROVE  NestedIn(R)'
  <1>1. In("ParseExpr") /\ Got("expr") /\ ~Binds(Top, Kind(cur)) BY DEF ParseExprEnds
  <1>2. Top.fn = "ParseExpr" /\ Gives(Top) = Wants(Below)
    BY <1>1, OperandGot
  <1>3. PICK e, r, min, w : /\ e = Combined(Top, ret[2]) /\ min = Top.min /\ r = <<"expr", e>>
                            /\ w = <<"expr", min>>
    OBVIOUS
  <1>4. PICK b \in Places(source) :
            /\ Stands(R, source, Below, b) /\ ExprOK(R, source, e, b, cur)
            /\ BareBinary(e) => e.op \in BinaryKinds /\ Precedence(e.op) >= min
    BY <1>1, <1>3, OperandGot
  <1>5. Wants(Below) = w BY <1>2, <1>3 DEF Gives
  <1>6. w[1] = "expr" /\ w[2] = min /\ r[1] = "expr" /\ r[2] = e BY <1>3
  <1>7. ~(Precedence(KindAt(source, cur)) >= min) BY <1>1, <1>3, KindIs DEF Binds
  <1>8. Fulfils(R, source, w, r, b, cur) BY <1>4, <1>6, <1>7 DEF Fulfils
  <1>9. Answer(cur, r) BY <1>3 DEF ParseExprEnds
  <1> QED BY <1>4, <1>5, <1>6, <1>8, <1>9, AnswerNests DEF Results

(* An operand is given back.                                               *)
LEMMA OperandNests ==
    ASSUME NEW R, NEW b \in Places(source), Stands(R, source, Below, b),
           Gives(Top) = Wants(Below), Top.fn \in {"ParsePrimExpr", "Unary", "Paren"},
           NEW i, NEW e, Answer(i, <<"expr", e>>), ExprOK(R, source, e, b, i), ~BareBinary(e)
    PROVE  NestedIn(R)'
  <1>1. PICK r, w : r = <<"expr", e>> /\ w = <<"operand", 0>> OBVIOUS
  <1>2. Wants(Below) = w BY <1>1 DEF Gives
  <1>3. w[1] = "operand" /\ r[1] = "expr" /\ r[2] = e BY <1>1
  <1>4. Fulfils(R, source, w, r, b, i) BY <1>3 DEF Fulfils
  <1> QED BY <1>1, <1>2, <1>3, <1>4, AnswerNests DEF Results

LEMMA PrimCalled ==
    ASSUME TypeOK, NEW R, NestedIn(R), In("ParsePrimExpr"), Called
    PROVE  /\ Top.fn = "ParsePrimExpr" /\ cur \in Places(source)
           /\ Stands(R, source, Below, cur) /\ Gives(Top) = Wants(Below)
           /\ Wants(Below) = <<"operand", 0>>
  <1>1. Top.fn = "ParsePrimExpr" BY DEF In
  <1>2. PICK b \in Places(source) :
            /\ Stands(R, source, Below, b) /\ Gives(Top) = Wants(Below)
            /\ Fresh(R, source, Top, b, cur)
    BY CalledStands
  <1>3. b = cur BY <1>1, <1>2 DEF Fresh
  <1> QED BY <1>1, <1>2, <1>3 DEF Gives

LEMMA ParsePrimLeafNests ==
    ASSUME TypeOK, NEW R, ObeysTheRules(source, R), NestedIn(R), ParsePrimLeaf
    PROVE  NestedIn(R)'
  <1>1. In("ParsePrimExpr") /\ Called BY DEF ParsePrimLeaf
  <1>2. /\ Top.fn = "ParsePrimExpr" /\ cur \in Places(source)
        /\ Stands(R, source, Below, cur) /\ Gives(Top) = Wants(Below)
    BY <1>1, PrimCalled
  <1>3. Kind(cur) \in Operands BY DEF ParsePrimLeaf, Operands
  <1>4. PICK kind, e, i : /\ kind = IF Kind(cur) = "Name" THEN "Variable" ELSE "Literal"
                          /\ e = Leaf(kind, cur) /\ i = cur + 1
    OBVIOUS
  <1>5. Answer(i, <<"expr", e>>) BY <1>4 DEF ParsePrimLeaf
  <1>6. ExprOK(R, source, e, cur, i) /\ ~BareBinary(e) BY <1>2, <1>3, <1>4, LeafStands
  <1> QED BY <1>2, <1>5, <1>6, OperandNests

LEMMA ParsePrimPrefixNests ==
    ASSUME TypeOK, NEW R, ObeysTheRules(source, R), NestedIn(R), ParsePrimPrefix
    PROVE  NestedIn(R)'
  <1>1. In("ParsePrimExpr") /\ Called BY DEF ParsePrimPrefix
  <1>2. /\ cur \in Places(source) /\ Stands(R, source, Below, cur)
        /\ Wants(Below) = <<"operand", 0>>
    BY <1>1, PrimCalled
  <1>3. PICK p : p = cur + 1 OBVIOUS
  <1>4. p \in Places(source)
    <2>1. Kind(cur) # "EOF" BY DEF ParsePrimPrefix, UnaryKinds
    <2> QED BY <1>2, <1>3, <2>1, TokenAt
  <1>5. CASE /\ Kind(cur) \in UnaryKinds
             /\ CallFrom(p, [fn |-> "Unary", at |-> cur], ExprFrame(UnaryPrecedence))
    <2>1. PICK f, e : f = [fn |-> "Unary", at |-> cur] /\ e = ExprFrame(UnaryPrecedence)
      OBVIOUS
    <2>2. f.fn = "Unary" /\ f.at = cur /\ ShapeOK(f) BY <2>1 DEF ShapeOK, Functions
    <2>3. Gives(f) = Wants(Below) BY <1>2, <2>2 DEF Gives
    <2>4. Reading(R, source, f, cur, p) BY <1>3, <1>5, <2>2, KindIs DEF Reading
    <2>5. UnaryPrecedence \in Nat BY DEF UnaryPrecedence
    <2>6. Gives(e) = Awaits(f) /\ Fresh(R, source, e, p, p)
      BY <2>1, <2>2, <2>5, ExprIsFresh DEF Awaits
    <2>7. CallFrom(p, f, e) BY <1>5, <2>1
    <2> QED BY <1>2, <1>4, <2>3, <2>4, <2>6, <2>7, CallNests
  <1>6. CASE /\ Kind(cur) = "("
             /\ CallFrom(p, [fn |-> "Paren", at |-> cur], ExprFrame(0))
    <2>1. PICK f, e : f = [fn |-> "Paren", at |-> cur] /\ e = ExprFrame(0) OBVIOUS
    <2>2. f.fn = "Paren" /\ f.at = cur /\ ShapeOK(f) BY <2>1 DEF ShapeOK, Functions
    <2>3. Gives(f) = Wants(Below) BY <1>2, <2>2 DEF Gives
    <2>4. Reading(R, source, f, cur, p) BY <1>3, <1>6, <2>2, KindIs DEF Reading
    <2>5. Gives(e) = Awaits(f) /\ Fresh(R, source, e, p, p)
      BY <2>1, <2>2, ExprIsFresh DEF Awaits
    <2>6. CallFrom(p, f, e) BY <1>6, <2>1
    <2> QED BY <1>2, <1>4, <2>3, <2>4, <2>5, <2>6, CallNests
  <1> QED BY <1>3, <1>5, <1>6 DEF ParsePrimPrefix

LEMMA ParsePrimFailsNests ==
    ASSUME NEW R, ParsePrimEnd \/ ParsePrimError PROVE NestedIn(R)'
  <1>1. ret'[1] = "throw" /\ stack' = <<>> BY DEF ParsePrimEnd, ParsePrimError, Throw
  <1> QED BY <1>1 DEF NestedIn, NestedWith

LEMMA UnaryGotOperandNests ==
    ASSUME TypeOK, NEW R, ObeysTheRules(source, R), NestedIn(R), UnaryGotOperand
    PROVE  NestedIn(R)'
  <1>1. In("Unary") /\ Got("expr") /\ Top.fn = "Unary" /\ "expr" \in Results
    BY DEF UnaryGotOperand, In, Results
  <1>2. PICK b, p \in Places(source) :
            /\ Stands(R, source, Below, b) /\ Gives(Top) = Wants(Below)
            /\ Reading(R, source, Top, b, p)
            /\ Fulfils(R, source, Awaits(Top), ret, p, cur)
    BY <1>1, WaitingStands
  <1>3. Top.at = b /\ Kind(b) \in UnaryKinds /\ p = b + 1 BY <1>1, <1>2, KindIs DEF Reading
  <1>4. PICK rhs, w, e : /\ rhs = ret[2] /\ w = <<"expr", UnaryPrecedence>>
                         /\ e = Unary(Kind(b), rhs, MergeSourceSpans(TokenSpan(b), rhs.span))
    OBVIOUS
  <1>5. Awaits(Top) = w /\ w[1] = "expr" /\ w[2] = UnaryPrecedence BY <1>1, <1>4 DEF Awaits
  <1>6. /\ ExprOK(R, source, rhs, p, cur)
        /\ BareBinary(rhs) => Precedence(rhs.op) >= UnaryPrecedence
    BY <1>2, <1>4, <1>5 DEF Fulfils
  <1>7. ~BareBinary(rhs) BY <1>6, Precedences DEF UnaryPrecedence
  <1>8. cur \in Places(source) BY PlacesAreNumbers
  <1>9. ExprOK(R, source, e, b, cur) /\ ~BareBinary(e)
    BY <1>3, <1>4, <1>6, <1>7, <1>8, UnaryStands
  <1>10. Answer(cur, <<"expr", e>>) BY <1>3, <1>4 DEF UnaryGotOperand
  <1> QED BY <1>1, <1>2, <1>9, <1>10, OperandNests

LEMMA ParenNests ==
    ASSUME TypeOK, NEW R, ObeysTheRules(source, R), NestedIn(R), ParenClosed \/ ParenNotClosed
    PROVE  NestedIn(R)'
  <1>1. CASE ParenNotClosed BY <1>1, RefuseNests DEF ParenNotClosed
  <1>2. CASE ParenClosed
    <2>1. In("Paren") /\ Got("expr") /\ Kind(cur) = ")" BY <1>2 DEF ParenClosed
    <2>2. Top.fn = "Paren" /\ cur \in Places(source) /\ Gives(Top) = Wants(Below)
      BY <2>1, ExprGot
    <2>3. PICK b, p \in Places(source) :
              /\ Stands(R, source, Below, b) /\ Reading(R, source, Top, b, p)
              /\ ExprOK(R, source, ret[2], p, cur)
      BY <2>1, ExprGot
    <2>4. Top.at = b /\ Kind(b) = "(" /\ p = b + 1 BY <2>2, <2>3, KindIs DEF Reading
    <2>5. PICK e, i : /\ e = [ret[2] EXCEPT !.span = MergeSourceSpans(TokenSpan(b), TokenSpan(cur))]
                      /\ i = cur + 1
      OBVIOUS
    <2>6. ExprOK(R, source, e, b, i) /\ ~BareBinary(e)
      BY <2>1, <2>2, <2>3, <2>4, <2>5, ParenStands
    <2>7. Answer(i, <<"expr", e>>) BY <1>2, <2>4, <2>5 DEF ParenClosed
    <2> QED BY <2>2, <2>3, <2>6, <2>7, OperandNests
  <1> QED BY <1>1, <1>2

----------------------------------------------------------------------------
(* Every step, and what follows from it.                                   *)
LEMMA StepNests ==
    ASSUME TypeOK, NEW R, ObeysTheRules(source, R), NestedIn(R), [Next]_vars
    PROVE  NestedIn(R)'
  <1>1. CASE BlockStep
    BY <1>1, StartParseNests, BlockEndsNests, BlockGoesOnNests, BlockGotStatementNests
       DEF BlockStep
  <1>2. CASE StmtStep
    BY <1>2, DispatchStatementNests, MakeStatementNests, ParseVarDeclNests,
       VarDeclInitializedNests, ParseRetStmtNests, RetStmtGotExprNests, ParseExprStmtNests,
       ExprStmtGotExprNests, ParseIfStmtNests, IfGotConditionNests, IfGotThenBranchNests,
       IfGotElseBranchNests DEF StmtStep
  <1>3. CASE ExprStep
    BY <1>3, ParseExprNests, ParseExprContinuesNests, ParseExprEndsNests, ParsePrimLeafNests,
       ParsePrimPrefixNests, ParsePrimFailsNests, UnaryGotOperandNests, ParenNests
       DEF ExprStep
  <1>4. CASE UNCHANGED vars BY <1>4 DEF vars, NestedIn
  <1> QED BY <1>1, <1>2, <1>3, <1>4 DEF Next, Terminated

LEMMA SourceStays ==
    ASSUME [Next]_vars PROVE source' = source
  <1>1. BlockStep => source' = source
    BY DEF BlockStep, StartParse, BlockEnds, BlockGoesOn, BlockGotStatement,
           EnsureBlockEndsAfterReturn, Answer, CallFrom, GoOn
  <1>2. StmtStep => source' = source
    BY DEF StmtStep, DispatchStatement, MakeStatement, ParseVarDecl, VarDeclInitialized,
           ParseRetStmt, RetStmtGotExpr, ParseExprStmt, ExprStmtGotExpr, ParseIfStmt,
           IfGotCondition, IfGotThenBranch, IfGotElseBranch, Answer, CallFrom, Refuse, GoOn
  <1>3. ExprStep => source' = source
    BY DEF ExprStep, ParseExpr, ParseExprContinues, ParseExprEnds, ParsePrimEnd,
           ParsePrimLeaf, ParsePrimPrefix, ParsePrimError, UnaryGotOperand, ParenClosed,
           ParenNotClosed, Answer, CallFrom, Refuse, GoOn
  <1> QED BY <1>1, <1>2, <1>3 DEF Next, Terminated, vars

(* The inductive invariant: whatever phrases the rules generate, the calls *)
(* in progress are on the way to one of them.                              *)
NestInv == \A R : ObeysTheRules(source, R) => NestedIn(R)

LEMMA NestInvariant == Spec => []NestInv
  <1>1. Init => NestInv BY DEF Init, NestInv, NestedIn, NestedWith
  <1>2. ASSUME ParserInv, NestInv, [Next]_vars PROVE NestInv'
    <2>1. TypeOK BY <1>2 DEF ParserInv
    <2>2. ASSUME NEW R, ObeysTheRules(source, R)' PROVE NestedIn(R)'
      <3>1. source' = source BY <1>2, SourceStays
      <3>2. ObeysTheRules(source, R) BY <2>2, <3>1
      <3>3. NestedIn(R) BY <1>2, <3>2 DEF NestInv
      <3> QED BY <1>2, <2>1, <3>2, <3>3, StepNests
    <2> QED BY <2>2 DEF NestInv
  <1> QED BY <1>1, <1>2, ParserInvariant, PTL DEF Spec

LEMMA OnlyTheEndIsNoToken ==
    ASSUME TypeOK, KindAt(source, cur) = "EOF" PROVE cur = Len(source) + 1
  <1>1. PICK n \in Nat : n = Len(source) BY TokensOfSource
  <1>2. cur \in 1..(n + 1) BY <1>1, TokensOfSource
  <1>3. cur \in 1..n => source[cur] # "EOF" BY <1>1, SourcesAssumption DEF TypeOK
  <1>4. cur \notin 1..n BY <1>1, <1>2, <1>3 DEF KindAt
  <1> QED BY <1>1, <1>2, <1>4

LEMMA FinishedIsGenerated ==
    ASSUME ParserInv, NestInv, Finished, Got("block")
    PROVE  Generated(source, "block", 1, Len(source) + 1)
  <1> SUFFICES ASSUME NEW R, ObeysTheRules(source, R)
               PROVE  <<"block", 1, Len(source) + 1>> \in R
    BY DEF Generated
  <1>1. NestedIn(R) /\ TypeOK BY DEF NestInv, ParserInv
  <1>2. stack = <<>> /\ ret[1] = "block" /\ ret # <<"call">> BY DEF Finished, Called, Got
  <1>3. PICK b \in Places(source) :
            Stands(R, source, stack, b) /\ Fulfils(R, source, Wants(stack), ret, b, cur)
    BY <1>1, <1>2 DEF NestedIn, NestedWith
  <1>4. b = 1
    <2>1. Len(stack) + 1 = 1 BY <1>2
    <2> QED BY <1>3, <2>1 DEF Stands
  <1>5. PICK w : w = Wants(stack) OBVIOUS
  <1>6. w[1] = "block" /\ w[2] = {} BY <1>2, <1>5 DEF Wants, Program
  <1>7. <<"block", 1, cur>> \in R /\ KindAt(source, cur) = "EOF"
    BY <1>3, <1>4, <1>5, <1>6 DEF Fulfils
  <1> QED BY <1>1, <1>7, OnlyTheEndIsNoToken

(* A source that Parse makes a program of is one the rules generate, from  *)
(* its first token to its last: nothing is skipped, nothing is left over   *)
(* and no phrase is taken for another, whatever the source.                *)
THEOREM ParserAcceptsOnlyTheGrammar ==
    Spec => [](Finished /\ Got("block") => Generated(source, "block", 1, Len(source) + 1))
  <1>1. ParserInv /\ NestInv =>
            (Finished /\ Got("block") => Generated(source, "block", 1, Len(source) + 1))
    BY FinishedIsGenerated
  <1> QED BY <1>1, ParserInvariant, NestInvariant, PTL

----------------------------------------------------------------------------
(* All phrases there could be: a set that obeys the rules.                 *)
AllPhrases ==
    {"expr", "decl", "stat", "return", "stats", "block"} \X Int \X Int

LEMMA AllPhrasesObey ==
    ASSUME TypeOK PROVE ObeysTheRules(source, AllPhrases)
  <1>1. ASSUME NEW i \in Int, NEW j \in Int,
               NEW w \in {"expr", "decl", "stat", "return", "stats", "block"}
        PROVE  <<w, i, j>> \in AllPhrases
    BY DEF AllPhrases
  <1>2. ASSUME NEW i \in Places(source), NEW j \in Places(source)
        PROVE  /\ \A w \in {"expr", "decl", "stat", "return", "stats", "block"} :
                      /\ <<w, i, j>> \in AllPhrases
                      /\ <<w, i, i + 1>> \in AllPhrases
                      /\ <<w, i, j + 1>> \in AllPhrases
    <2>1. i \in Int /\ j \in Int /\ i + 1 \in Int /\ j + 1 \in Int BY PlacesAreNumbers
    <2> QED BY <1>1, <2>1
  <1>3. ExprRules(source, AllPhrases) BY <1>2 DEF ExprRules
  <1>4. StatRules(source, AllPhrases)
    <2>1. \A i, j \in Places(source) :
              /\ <<"decl", i, i + 1>> \in AllPhrases /\ <<"decl", i, j>> \in AllPhrases
              /\ <<"stat", i, j>> \in AllPhrases /\ <<"stat", i, j + 1>> \in AllPhrases
      BY <1>2
    <2> HIDE DEF AllPhrases
    <2> QED BY ONLY <2>1 DEF StatRules
  <1>5. BlockRules(source, AllPhrases)
    <2>1. \A i, j \in Places(source) :
              /\ <<"return", i, i + 1>> \in AllPhrases /\ <<"return", i, j>> \in AllPhrases
              /\ <<"stats", i, j>> \in AllPhrases /\ <<"block", i, j>> \in AllPhrases
      BY <1>2
    <2> HIDE DEF AllPhrases
    <2> QED BY ONLY <2>1, ZenonT(40) DEF BlockRules
  <1> QED BY <1>3, <1>4, <1>5 DEF ObeysTheRules

LEMMA WaitingAwaits ==
    ASSUME NEW R, NEW s, NEW f, NEW i, NEW p, Reading(R, s, f, i, p)
    PROVE  Awaits(f)[1] \in {"block", "stmt", "node", "operand", "expr"}
  BY DEF Reading, ShapeOK, Functions, Awaits

LEMMA ReadingFits ==
    ASSUME NEW R, NEW s, NEW f, NEW i, NEW p, Reading(R, s, f, i, p),
           f.fn = "ParseExpr", f.op # "none"
    PROVE  FitsTokens(f.lhs[1], s)
  <1>1. ReadingExpr(R, s, f, i, p) BY DEF Reading
  <1> QED BY <1>1 DEF ReadingExpr, ExprOK

LEMMA StandingFits ==
    ASSUME NEW R, NEW s, NEW t, NEW b, Stands(R, s, t, b), NEW k \in 1..Len(t),
           t[k].fn = "ParseExpr", t[k].op # "none"
    PROVE  FitsTokens(t[k].lhs[1], s)
  <1>1. PICK i, p : Reading(R, s, t[k], i, p) BY DEF Stands
  <1> QED BY <1>1, ReadingFits

LEMMA NestedFits ==
    ASSUME ParserInv, NestInv PROVE ExpressionsFitTheirTokens
  <1> DEFINE R == AllPhrases
  <1>1. NestedIn(R) BY AllPhrasesObey DEF NestInv, ParserInv
  <1>2. ASSUME Got("expr")
        PROVE  ret[2].span.end = cur /\ FitsTokens(ret[2], source)
    <2>1. ret[1] = "expr" /\ ret # <<"call">> BY <1>2 DEF Got
    <2>2. PICK b \in Places(source) :
              Stands(R, source, stack, b) /\ Fulfils(R, source, Wants(stack), ret, b, cur)
      BY <1>1, <2>1 DEF NestedIn, NestedWith
    <2>3. PICK w : w = Wants(stack) OBVIOUS
    <2>4. w[1] \in {"block", "stmt", "node", "operand", "expr"}
      <3>1. CASE stack = <<>> BY <2>3, <3>1 DEF Wants, Program
      <3>2. CASE stack # <<>>
        <4>1. \E i : Reading(R, source, stack[Len(stack)], i, b)
          BY <2>2, <3>2, StandsPop
        <4> QED BY <2>3, <3>2, <4>1, WaitingAwaits DEF Wants
      <3> QED BY <3>1, <3>2
    <2>5. ExprOK(R, source, ret[2], b, cur) BY <2>1, <2>2, <2>3, <2>4 DEF Fulfils
    <2>6. ret[2].span = Span(b, cur) /\ FitsTokens(ret[2], source) BY <2>5 DEF ExprOK
    <2> QED BY <2>6, SpanFields
  <1>3. ASSUME NEW k \in 1..Len(stack), stack[k].fn = "ParseExpr", stack[k].op # "none"
        PROVE  FitsTokens(stack[k].lhs[1], source)
    <2>1. CASE stack = <<>>
      <3>1. Len(stack) = 0 BY <2>1
      <3> QED BY <1>3, <3>1
    <2>2. CASE ret[1] \in Results
      <3>1. PICK b : Stands(R, source, stack, b)
        BY <1>1, <2>2 DEF NestedIn, NestedWith, Results
      <3> QED BY <1>3, <3>1, StandingFits
    <2>3. CASE stack # <<>> /\ ret = <<"call">>
      <3>1. ret[1] = "call" BY <2>3
      <3>2. PICK t, f : \E b \in Places(source) :
                /\ stack = Append(t, f)
                /\ Stands(R, source, t, b) /\ Fresh(R, source, f, b, cur)
        BY <1>1, <2>3, <3>1 DEF NestedIn, NestedWith, Results
      <3>3. PICK b : Stands(R, source, t, b) /\ Fresh(R, source, f, b, cur) BY <3>2
      <3>4. t \in Seq(Range(t) \cup {f}) /\ f \in Range(t) \cup {f}
        BY <3>3, StandsIsSeq, SeqMonotonic
      <3>5. PICK n \in Nat : n = Len(t) BY <3>4, LenProperties
      <3>6. Len(stack) = n + 1 /\ stack[n + 1] = f /\ \A m \in 1..n : stack[m] = t[m]
        BY <3>2, <3>4, <3>5, AppendProperties
      <3>7. k # n + 1 BY <1>3, <3>3, <3>6 DEF Fresh
      <3>8. k \in 1..n BY <3>5, <3>6, <3>7
      <3>9. t[k].fn = "ParseExpr" /\ t[k].op # "none" /\ t[k] = stack[k]
        BY <1>3, <3>6, <3>8
      <3> QED BY <3>3, <3>5, <3>8, <3>9, StandingFits
    <2> QED BY <1>1, <2>1, <2>2, <2>3 DEF NestedIn, NestedWith
  <1> QED BY <1>2, <1>3 DEF ExpressionsFitTheirTokens

(* Operators, operands and parentheses stand in the tree where they stand  *)
(* in the source, and bind as the precedences say, whatever the source.    *)
THEOREM ExpressionsFit == Spec => []ExpressionsFitTheirTokens
  <1>1. ParserInv /\ NestInv => ExpressionsFitTheirTokens BY NestedFits
  <1> QED BY <1>1, ParserInvariant, NestInvariant, PTL

LEMMA NestedStatementsFit ==
    ASSUME ParserInv, NestInv, InTime PROVE StatementsFitTheirTokens
  <1> DEFINE R == AllPhrases
  <1>1. NestedIn(R) /\ TypeOK BY AllPhrasesObey DEF NestInv, ParserInv
  <1>2. ASSUME Got("stmt")
        PROVE  /\ ret[2].span.end = cur
               /\ NodeFits(ret[2].node, ret[2].span.begin, cur, source)
    <2>1. ret[1] = "stmt" /\ ret # <<"call">> BY <1>2 DEF Got
    <2>2. PICK b \in Places(source) :
              Stands(R, source, stack, b) /\ Fulfils(R, source, Wants(stack), ret, b, cur)
      BY <1>1, <2>1 DEF NestedIn, NestedWith
    <2>3. PICK w : w = Wants(stack) OBVIOUS
    <2>4. w[1] \in {"block", "stmt", "node", "operand", "expr"}
      <3>1. CASE stack = <<>> BY <2>3, <3>1 DEF Wants, Program
      <3>2. CASE stack # <<>>
        <4>1. \E i : Reading(R, source, stack[Len(stack)], i, b)
          BY <2>2, <3>2, StandsPop
        <4> QED BY <2>3, <3>2, <4>1, WaitingAwaits DEF Wants
      <3> QED BY <3>1, <3>2
    <2>5. StatementIs(source, ret[2], b, cur) /\ NodeIs(source, ret[2].node, b, cur)
      BY <2>1, <2>2, <2>3, <2>4 DEF Fulfils
    <2>6. ret[2].span = Span(b, cur) /\ NodeFits(ret[2].node, b, cur, source)
      BY <2>5 DEF StatementIs, NodeIs
    <2> QED BY <2>6, SpanFields
  <1>3. ASSUME Finished, Got("block")
        PROVE  BlockFits(ret[2], 1, Len(source) + 1, source)
    <2>1. stack = <<>> /\ ret[1] = "block" /\ ret # <<"call">>
      BY <1>3 DEF Finished, Called, Got
    <2>2. PICK b \in Places(source) :
              Stands(R, source, stack, b) /\ Fulfils(R, source, Wants(stack), ret, b, cur)
      BY <1>1, <2>1 DEF NestedIn, NestedWith
    <2>3. b = 1
      <3>1. Len(stack) + 1 = 1 BY <2>1
      <3> QED BY <2>2, <3>1 DEF Stands
    <2>4. PICK w : w = Wants(stack) OBVIOUS
    <2>5. w[1] = "block" /\ w[2] = {} BY <2>1, <2>4 DEF Wants, Program
    <2>6. BlockIs(source, ret[2], 1, cur) /\ KindAt(source, cur) = "EOF"
      BY <2>2, <2>3, <2>4, <2>5 DEF Fulfils
    <2>7. cur = Len(source) + 1 BY <1>1, <2>6, OnlyTheEndIsNoToken
    <2> QED BY <2>6, <2>7 DEF BlockIs
  <1> QED BY <1>2, <1>3 DEF StatementsFitTheirTokens

(* Statements and blocks stand in the tree where they stand in the source, *)
(* with nothing left out between them, whatever the source; but only if    *)
(* the compiler evaluates the arguments of MakeStatement in their order.   *)
THEOREM StatementsFit ==
    ASSUME ArgOrders = {"ltr"} PROVE Spec => []StatementsFitTheirTokens
  <1>1. ParserInv /\ NestInv => StatementsFitTheirTokens BY NestedStatementsFit DEF InTime
  <1> QED BY <1>1, ParserInvariant, NestInvariant, PTL

----------------------------------------------------------------------------
(* The grammar is the least solution of its rules, found as what all       *)
(* functions that obey them agree on.                                      *)
RuleSays(s, M, q) == PhraseRule(s, LAMBDA p : M[p], q)
Obeys(s, M) == \A q \in PhrasesOf(s) : RuleSays(s, M, q) => M[q]
Least(s) == [q \in PhrasesOf(s) |-> \A M : Obeys(s, M) => M[q]]

(* Part of the phrases that a function M holds to be some are so for N.    *)
Within(s, M, N) == \A q \in PhrasesOf(s) : M[q] => N[q]

What == {"expr", "decl", "stat", "return", "stats", "block"}

LEMMA PhraseIs ==
    ASSUME NEW s, NEW q \in PhrasesOf(s)
    PROVE  q = <<q[1], q[2], q[3]>> /\ q[1] \in What /\ q[2] \in Places(s) /\ q[3] \in Places(s)
  BY DEF PhrasesOf, What

LEMMA PartIs ==
    ASSUME NEW s, Len(s) \in Nat, NEW i \in Places(s), NEW j \in Places(s),
           NEW w \in What, NEW a \in i..j, NEW b \in i..j
    PROVE  <<w, a, b>> \in PhrasesOf(s)
  BY DEF PhrasesOf, What, Places

LEMMA ExprRuleMonotone ==
    ASSUME NEW s, Len(s) \in Nat, NEW M, NEW N, Within(s, M, N),
           NEW i \in Places(s), NEW j \in Places(s), RuleSays(s, M, <<"expr", i, j>>)
    PROVE  RuleSays(s, N, <<"expr", i, j>>)
  <1>1. i \in Nat /\ j \in Nat BY DEF Places
  <1>2. ASSUME NEW a \in i..j, NEW b \in i..j, M[<<"expr", a, b>>]
        PROVE  N[<<"expr", a, b>>]
    <2>1. <<"expr", a, b>> \in PhrasesOf(s) BY PartIs DEF What
    <2> QED BY <1>2, <2>1 DEF Within
  <1>3. ExprRule(s, LAMBDA p : M[p], i, j) BY DEF RuleSays, PhraseRule
  <1>4. ExprRule(s, LAMBDA p : N[p], i, j)
    <2>1. CASE j = i + 1 /\ KindAt(s, i) \in Operands BY <2>1 DEF ExprRule
    <2>2. CASE i + 1 < j /\ KindAt(s, i) \in UnaryKinds /\ M[<<"expr", i + 1, j>>]
      <3>1. N[<<"expr", i + 1, j>>] BY <1>1, <1>2, <2>2
      <3> QED BY <2>2, <3>1 DEF ExprRule
    <2>3. CASE i + 2 < j /\ KindAt(s, i) = "(" /\ KindAt(s, j - 1) = ")"
               /\ M[<<"expr", i + 1, j - 1>>]
      <3>1. N[<<"expr", i + 1, j - 1>>] BY <1>1, <1>2, <2>3
      <3> QED BY <2>3, <3>1 DEF ExprRule
    <2>4. ASSUME NEW k \in (i + 1)..(j - 2), KindAt(s, k) \in BinaryKinds,
                 M[<<"expr", i, k>>], M[<<"expr", k + 1, j>>]
          PROVE  ExprRule(s, LAMBDA p : N[p], i, j)
      <3>1. N[<<"expr", i, k>>] /\ N[<<"expr", k + 1, j>>] BY <1>1, <1>2, <2>4
      <3> QED BY <2>4, <3>1 DEF ExprRule
    <2> QED BY <1>3, <2>1, <2>2, <2>3, <2>4 DEF ExprRule
  <1> QED BY <1>4 DEF RuleSays, PhraseRule

LEMMA DeclRuleMonotone ==
    ASSUME NEW s, Len(s) \in Nat, NEW M, NEW N, Within(s, M, N),
           NEW i \in Places(s), NEW j \in Places(s), RuleSays(s, M, <<"decl", i, j>>)
    PROVE  RuleSays(s, N, <<"decl", i, j>>)
  <1>1. i \in Nat /\ j \in Nat BY DEF Places
  <1>2. ASSUME NEW w \in What, NEW a \in i..j, NEW b \in i..j, M[<<w, a, b>>]
        PROVE  N[<<w, a, b>>]
    BY <1>2, PartIs DEF Within
  <1>3. DeclRule(s, LAMBDA p : M[p], i, j) BY DEF RuleSays, PhraseRule
  <1>4. DeclRule(s, LAMBDA p : N[p], i, j)
    <2>1. CASE i + 2 < j /\ M[<<"expr", i + 2, j>>]
      <3>1. N[<<"expr", i + 2, j>>] BY <1>1, <1>2, <2>1 DEF What
      <3> QED BY <1>3, <2>1, <3>1 DEF DeclRule
    <2> QED BY <1>3, <2>1 DEF DeclRule
  <1> QED BY <1>4 DEF RuleSays, PhraseRule

LEMMA StatRuleMonotone ==
    ASSUME NEW s, Len(s) \in Nat, NEW M, NEW N, Within(s, M, N),
           NEW i \in Places(s), NEW j \in Places(s), RuleSays(s, M, <<"stat", i, j>>)
    PROVE  RuleSays(s, N, <<"stat", i, j>>)
  <1>1. i \in Nat /\ j \in Nat BY DEF Places
  <1>2. ASSUME NEW w \in What, NEW a \in i..j, NEW b \in i..j, M[<<w, a, b>>]
        PROVE  N[<<w, a, b>>]
    BY <1>2, PartIs DEF Within
  <1>5. \A w \in What : M[<<w, i, j>>] => N[<<w, i, j>>] BY DEF Within, PhrasesOf, What
  <1>3. StatRule(s, LAMBDA p : M[p], i, j) BY DEF RuleSays, PhraseRule
  <1>4. StatRule(s, LAMBDA p : N[p], i, j)
    <2>1. CASE KindAt(s, i) = "Name" /\ M[<<"decl", i, j>>]
      <3>1. N[<<"decl", i, j>>] BY <1>5, <2>1 DEF What
      <3> QED BY <2>1, <3>1 DEF StatRule
    <2>2. CASE KindAt(s, i) = "local" /\ i + 1 < j /\ M[<<"decl", i + 1, j>>]
      <3>1. N[<<"decl", i + 1, j>>] BY <1>1, <1>2, <2>2 DEF What
      <3> QED BY <2>2, <3>1 DEF StatRule
    <2>3. CASE KindAt(s, i) \notin StatementKinds /\ M[<<"expr", i, j>>]
      <3>1. N[<<"expr", i, j>>] BY <1>5, <2>3 DEF What
      <3> QED BY <2>3, <3>1 DEF StatRule
    <2>4. CASE IfRule(s, LAMBDA p : M[p], i, j)
      <3>1. PICK k \in (i + 2)..(j - 2) :
                /\ KindAt(s, k) = "then" /\ M[<<"expr", i + 1, k>>]
                /\ \/ M[<<"block", k + 1, j - 1>>]
                   \/ \E l \in (k + 1)..(j - 2) :
                          /\ KindAt(s, l) = "else"
                          /\ M[<<"block", k + 1, l>>] /\ M[<<"block", l + 1, j - 1>>]
        BY <2>4 DEF IfRule
      <3>2. N[<<"expr", i + 1, k>>] BY <1>1, <1>2, <3>1 DEF What
      <3>3. M[<<"block", k + 1, j - 1>>] => N[<<"block", k + 1, j - 1>>]
        BY <1>1, <1>2 DEF What
      <3>4. ASSUME NEW l \in (k + 1)..(j - 2),
                   M[<<"block", k + 1, l>>], M[<<"block", l + 1, j - 1>>]
            PROVE  N[<<"block", k + 1, l>>] /\ N[<<"block", l + 1, j - 1>>]
        BY <1>1, <1>2, <3>4 DEF What
      <3>5. IfRule(s, LAMBDA p : N[p], i, j)
        BY <2>4, <3>1, <3>2, <3>3, <3>4 DEF IfRule
      <3> QED BY <3>5 DEF StatRule
    <2> QED BY <1>3, <2>1, <2>2, <2>3, <2>4 DEF StatRule
  <1> QED BY <1>4 DEF RuleSays, PhraseRule

LEMMA ReturnRuleMonotone ==
    ASSUME NEW s, Len(s) \in Nat, NEW M, NEW N, Within(s, M, N),
           NEW i \in Places(s), NEW j \in Places(s), RuleSays(s, M, <<"return", i, j>>)
    PROVE  RuleSays(s, N, <<"return", i, j>>)
  <1>1. i \in Nat /\ j \in Nat BY DEF Places
  <1>2. ASSUME NEW w \in What, NEW a \in i..j, NEW b \in i..j, M[<<w, a, b>>]
        PROVE  N[<<w, a, b>>]
    BY <1>2, PartIs DEF Within
  <1>3. ReturnRule(s, LAMBDA p : M[p], i, j) BY DEF RuleSays, PhraseRule
  <1>4. ReturnRule(s, LAMBDA p : N[p], i, j)
    <2>1. CASE i + 1 < j /\ M[<<"expr", i + 1, j>>]
      <3>1. N[<<"expr", i + 1, j>>] BY <1>1, <1>2, <2>1 DEF What
      <3> QED BY <1>3, <2>1, <3>1 DEF ReturnRule
    <2> QED BY <1>3, <2>1 DEF ReturnRule
  <1> QED BY <1>4 DEF RuleSays, PhraseRule

LEMMA StatsRuleMonotone ==
    ASSUME NEW s, Len(s) \in Nat, NEW M, NEW N, Within(s, M, N),
           NEW i \in Places(s), NEW j \in Places(s), RuleSays(s, M, <<"stats", i, j>>)
    PROVE  RuleSays(s, N, <<"stats", i, j>>)
  <1>1. i \in Nat /\ j \in Nat BY DEF Places
  <1>2. ASSUME NEW w \in What, NEW a \in i..j, NEW b \in i..j, M[<<w, a, b>>]
        PROVE  N[<<w, a, b>>]
    BY <1>2, PartIs DEF Within
  <1>3. StatsRule(s, LAMBDA p : M[p], i, j) BY DEF RuleSays, PhraseRule
  <1>4. StatsRule(s, LAMBDA p : N[p], i, j)
    <2>1. ASSUME NEW k \in i..(j - 1), OnlySemicolons(s, k, j) \/ M[<<"stat", k, j>>],
                 M[<<"stats", i, k>>]
          PROVE  StatsRule(s, LAMBDA p : N[p], i, j)
      <3>1. M[<<"stat", k, j>>] => N[<<"stat", k, j>>] BY <1>1, <1>2 DEF What
      <3>2. N[<<"stats", i, k>>] BY <1>1, <1>2, <2>1 DEF What
      <3> QED BY <2>1, <3>1, <3>2 DEF StatsRule
    <2> QED BY <1>3, <2>1 DEF StatsRule
  <1> QED BY <1>4 DEF RuleSays, PhraseRule

LEMMA BlockRuleMonotone ==
    ASSUME NEW s, Len(s) \in Nat, NEW M, NEW N, Within(s, M, N),
           NEW i \in Places(s), NEW j \in Places(s), RuleSays(s, M, <<"block", i, j>>)
    PROVE  RuleSays(s, N, <<"block", i, j>>)
  <1>1. i \in Nat /\ j \in Nat BY DEF Places
  <1>2. ASSUME NEW w \in What, NEW a \in i..j, NEW b \in i..j, M[<<w, a, b>>]
        PROVE  N[<<w, a, b>>]
    BY <1>2, PartIs DEF Within
  <1>5. \A w \in What : M[<<w, i, j>>] => N[<<w, i, j>>] BY DEF Within, PhrasesOf, What
  <1>3. BlockRule(s, LAMBDA p : M[p], i, j) BY DEF RuleSays, PhraseRule
  <1>4. BlockRule(s, LAMBDA p : N[p], i, j)
    <2>1. CASE M[<<"stats", i, j>>]
      <3>1. N[<<"stats", i, j>>] BY <1>5, <2>1 DEF What
      <3> QED BY <3>1 DEF BlockRule
    <2>2. ASSUME NEW k \in i..(j - 1), M[<<"return", k, j>>], M[<<"stats", i, k>>]
          PROVE  BlockRule(s, LAMBDA p : N[p], i, j)
      <3>1. N[<<"return", k, j>>] /\ N[<<"stats", i, k>>] BY <1>1, <1>2, <2>2 DEF What
      <3> QED BY <3>1 DEF BlockRule
    <2>3. ASSUME NEW k \in i..(j - 1), OnlySemicolons(s, k, j), M[<<"block", i, k>>]
          PROVE  BlockRule(s, LAMBDA p : N[p], i, j)
      <3>1. N[<<"block", i, k>>] BY <1>1, <1>2, <2>3 DEF What
      <3> QED BY <2>3, <3>1 DEF BlockRule
    <2> QED BY <1>3, <2>1, <2>2, <2>3 DEF BlockRule
  <1> QED BY <1>4 DEF RuleSays, PhraseRule

LEMMA RulesAreMonotone ==
    ASSUME NEW s, Len(s) \in Nat, NEW M, NEW N, Within(s, M, N),
           NEW q \in PhrasesOf(s), RuleSays(s, M, q)
    PROVE  RuleSays(s, N, q)
  <1>1. PICK w \in What, i \in Places(s), j \in Places(s) : q = <<w, i, j>> BY PhraseIs
  <1>2. CASE w = "expr" BY <1>1, <1>2, ExprRuleMonotone
  <1>3. CASE w = "decl" BY <1>1, <1>3, DeclRuleMonotone
  <1>4. CASE w = "stat" BY <1>1, <1>4, StatRuleMonotone
  <1>5. CASE w = "return" BY <1>1, <1>5, ReturnRuleMonotone
  <1>6. CASE w = "stats" BY <1>1, <1>6, StatsRuleMonotone
  <1>7. CASE w = "block" BY <1>1, <1>7, BlockRuleMonotone
  <1> QED BY <1>2, <1>3, <1>4, <1>5, <1>6, <1>7 DEF What

LEMMA RulesAreBoolean ==
    ASSUME NEW s, NEW M, NEW q \in PhrasesOf(s)
    PROVE  RuleSays(s, M, q) \in BOOLEAN
  <1>1. PICK w \in What, i \in Places(s), j \in Places(s) : q = <<w, i, j>> BY PhraseIs
  <1>2. CASE w = "expr"
    <2>1. ExprRule(s, LAMBDA p : M[p], i, j) \in BOOLEAN BY DEF ExprRule
    <2>2. RuleSays(s, M, q) = ExprRule(s, LAMBDA p : M[p], i, j)
      BY <1>1, <1>2 DEF RuleSays, PhraseRule
    <2> QED BY <2>1, <2>2
  <1>3. CASE w = "decl"
    <2>1. DeclRule(s, LAMBDA p : M[p], i, j) \in BOOLEAN BY DEF DeclRule
    <2>2. RuleSays(s, M, q) = DeclRule(s, LAMBDA p : M[p], i, j)
      BY <1>1, <1>3 DEF RuleSays, PhraseRule
    <2> QED BY <2>1, <2>2
  <1>4. CASE w = "stat"
    <2>1. StatRule(s, LAMBDA p : M[p], i, j) \in BOOLEAN BY DEF StatRule
    <2>2. RuleSays(s, M, q) = StatRule(s, LAMBDA p : M[p], i, j)
      BY <1>1, <1>4 DEF RuleSays, PhraseRule
    <2> QED BY <2>1, <2>2
  <1>5. CASE w = "return"
    <2>1. ReturnRule(s, LAMBDA p : M[p], i, j) \in BOOLEAN BY DEF ReturnRule
    <2>2. RuleSays(s, M, q) = ReturnRule(s, LAMBDA p : M[p], i, j)
      BY <1>1, <1>5 DEF RuleSays, PhraseRule
    <2> QED BY <2>1, <2>2
  <1>6. CASE w = "stats"
    <2>1. StatsRule(s, LAMBDA p : M[p], i, j) \in BOOLEAN BY DEF StatsRule
    <2>2. RuleSays(s, M, q) = StatsRule(s, LAMBDA p : M[p], i, j)
      BY <1>1, <1>6 DEF RuleSays, PhraseRule
    <2> QED BY <2>1, <2>2
  <1>7. CASE w = "block"
    <2>1. BlockRule(s, LAMBDA p : M[p], i, j) \in BOOLEAN BY DEF BlockRule
    <2>2. RuleSays(s, M, q) = BlockRule(s, LAMBDA p : M[p], i, j)
      BY <1>1, <1>7 DEF RuleSays, PhraseRule
    <2> QED BY <2>1, <2>2
  <1> QED BY <1>2, <1>3, <1>4, <1>5, <1>6, <1>7 DEF What

LEMMA LeastObeysRules ==
    ASSUME NEW s, Len(s) \in Nat
    PROVE  Obeys(s, Least(s)) /\ \A M : Obeys(s, M) => Within(s, Least(s), M)
  <1>1. ASSUME NEW M, Obeys(s, M) PROVE Within(s, Least(s), M)
    BY <1>1 DEF Within, Least
  <1>2. ASSUME NEW q \in PhrasesOf(s), RuleSays(s, Least(s), q)
        PROVE  Least(s)[q]
    <2>1. ASSUME NEW M, Obeys(s, M) PROVE M[q]
      <3>1. RuleSays(s, M, q) BY <1>1, <1>2, <2>1, RulesAreMonotone
      <3> QED BY <2>1, <3>1 DEF Obeys
    <2> QED BY <2>1 DEF Least
  <1> QED BY <1>1, <1>2 DEF Obeys

LEMMA LeastIsASolution ==
    ASSUME NEW s, Len(s) \in Nat
    PROVE  Least(s) = [q \in PhrasesOf(s) |-> RuleSays(s, Least(s), q)]
  <1> DEFINE G == [q \in PhrasesOf(s) |-> RuleSays(s, Least(s), q)]
  <1>1. \A q \in PhrasesOf(s) : G[q] <=> RuleSays(s, Least(s), q) OBVIOUS
  <1> HIDE DEF G
  <1>2. Within(s, G, Least(s)) BY <1>1, LeastObeysRules DEF Obeys, Within
  <1>3. Obeys(s, G) BY <1>1, <1>2, RulesAreMonotone DEF Obeys
  <1>4. Within(s, Least(s), G) BY <1>3, LeastObeysRules
  <1>5. \A q \in PhrasesOf(s) : Least(s)[q] <=> RuleSays(s, Least(s), q)
    BY <1>1, <1>2, <1>4 DEF Within
  <1>6. PICK L : L = Least(s) OBVIOUS
  <1>7. L = [q \in PhrasesOf(s) |-> \A M : Obeys(s, M) => M[q]] BY <1>6 DEF Least
  <1>8. \A q \in PhrasesOf(s) : (\A M : Obeys(s, M) => M[q]) <=> RuleSays(s, L, q)
    <2>1. \A q \in PhrasesOf(s) : L[q] <=> (\A M : Obeys(s, M) => M[q]) BY <1>7
    <2> QED BY <1>5, <1>6, <2>1
  <1>9. [q \in PhrasesOf(s) |-> \A M : Obeys(s, M) => M[q]]
            = [q \in PhrasesOf(s) |-> RuleSays(s, L, q)]
    <2> DEFINE A == [q \in PhrasesOf(s) |-> \A M : Obeys(s, M) => M[q]]
    <2> DEFINE B == [q \in PhrasesOf(s) |-> RuleSays(s, L, q)]
    <2>1. A \in [PhrasesOf(s) -> BOOLEAN] /\ B \in [PhrasesOf(s) -> BOOLEAN]
      <3>1. \A q \in PhrasesOf(s) : RuleSays(s, L, q) \in BOOLEAN BY RulesAreBoolean
      <3> QED BY <3>1
    <2>2. \A q \in PhrasesOf(s) : A[q] <=> B[q] BY <1>8
    <2> HIDE DEF A, B
    <2>3. \A q \in PhrasesOf(s) : A[q] \in BOOLEAN /\ B[q] \in BOOLEAN BY <2>1
    <2>4. \A q \in PhrasesOf(s) : A[q] = B[q] BY <2>2, <2>3
    <2>5. A = B BY <2>1, <2>4
    <2> QED BY <2>5 DEF A, B
  <1> QED BY <1>6, <1>7, <1>9

LEMMA GrammarIsASolution ==
    ASSUME NEW s, Len(s) \in Nat
    PROVE  \A q \in PhrasesOf(s) : Grammar(s)[q] <=> RuleSays(s, Grammar(s), q)
  <1>1. \E Is : Is = [q \in PhrasesOf(s) |-> PhraseRule(s, LAMBDA p : Is[p], q)]
    <2>1. Least(s) = [q \in PhrasesOf(s) |-> PhraseRule(s, LAMBDA p : Least(s)[p], q)]
      BY LeastIsASolution, ZenonT(30) DEF RuleSays
    <2> QED BY <2>1, ZenonT(30)
  <1>2. Grammar(s) = [q \in PhrasesOf(s) |-> PhraseRule(s, LAMBDA p : Grammar(s)[p], q)]
    BY <1>1, ZenonT(40) DEF Grammar
  <1>3. Grammar(s) = [q \in PhrasesOf(s) |-> RuleSays(s, Grammar(s), q)]
    BY <1>2, Zenon DEF RuleSays
  <1> QED BY <1>3

----------------------------------------------------------------------------
(* The phrases of s, and what each consists of.                            *)
Language(s) == {q \in PhrasesOf(s) : Grammar(s)[q]}

LEMMA PlacesOfPhrases ==
    ASSUME NEW s, Len(s) \in Nat, NEW w, NEW i, NEW j, <<w, i, j>> \in Language(s)
    PROVE  /\ i \in Places(s) /\ j \in Places(s) /\ w \in What
           /\ i \in Nat /\ j \in Nat /\ i >= 1 /\ j >= 1
           /\ i <= Len(s) + 1 /\ j <= Len(s) + 1
           /\ RuleSays(s, Grammar(s), <<w, i, j>>)
  <1>1. <<w, i, j>> \in PhrasesOf(s) /\ Grammar(s)[<<w, i, j>>] BY DEF Language
  <1>2. w \in What /\ i \in Places(s) /\ j \in Places(s) BY <1>1, PhraseIs
  <1> QED BY <1>1, <1>2, GrammarIsASolution DEF Places

LEMMA PhraseOfParts ==
    ASSUME NEW s, Len(s) \in Nat, NEW w \in What, NEW i \in Places(s), NEW j \in Places(s),
           RuleSays(s, Grammar(s), <<w, i, j>>)
    PROVE  <<w, i, j>> \in Language(s)
  <1>1. <<w, i, j>> \in PhrasesOf(s) BY DEF PhrasesOf, What
  <1> QED BY <1>1, GrammarIsASolution DEF Language

LEMMA PartIsPhrase ==
    ASSUME NEW s, Len(s) \in Nat, NEW i \in Places(s), NEW j \in Places(s),
           NEW w \in What, NEW a \in i..j, NEW b \in i..j, Grammar(s)[<<w, a, b>>]
    PROVE  <<w, a, b>> \in Language(s)
  BY PartIs DEF Language

LEMMA ExprConsists ==
    ASSUME NEW s, Len(s) \in Nat, NEW i, NEW j, <<"expr", i, j>> \in Language(s)
    PROVE  /\ i < j
           /\ \/ j = i + 1 /\ KindAt(s, i) \in Operands
              \/ i + 1 < j /\ KindAt(s, i) \in UnaryKinds /\ <<"expr", i + 1, j>> \in Language(s)
              \/ /\ i + 2 < j /\ KindAt(s, i) = "(" /\ KindAt(s, j - 1) = ")"
                 /\ <<"expr", i + 1, j - 1>> \in Language(s)
              \/ \E k \in (i + 1)..(j - 2) :
                     /\ KindAt(s, k) \in BinaryKinds
                     /\ <<"expr", i, k>> \in Language(s) /\ <<"expr", k + 1, j>> \in Language(s)
  <1>1. /\ i \in Places(s) /\ j \in Places(s) /\ i \in Nat /\ j \in Nat
        /\ RuleSays(s, Grammar(s), <<"expr", i, j>>)
    BY PlacesOfPhrases
  <1>2. ASSUME NEW a \in i..j, NEW b \in i..j, Grammar(s)[<<"expr", a, b>>]
        PROVE  <<"expr", a, b>> \in Language(s)
    BY <1>1, <1>2, PartIsPhrase DEF What
  <1>3. ExprRule(s, LAMBDA p : Grammar(s)[p], i, j) BY <1>1 DEF RuleSays, PhraseRule
  <1>4. CASE j = i + 1 /\ KindAt(s, i) \in Operands BY <1>1, <1>4
  <1>5. CASE i + 1 < j /\ KindAt(s, i) \in UnaryKinds /\ Grammar(s)[<<"expr", i + 1, j>>]
    <2>1. <<"expr", i + 1, j>> \in Language(s) BY <1>1, <1>2, <1>5
    <2> QED BY <1>1, <1>5, <2>1
  <1>6. CASE /\ i + 2 < j /\ KindAt(s, i) = "(" /\ KindAt(s, j - 1) = ")"
             /\ Grammar(s)[<<"expr", i + 1, j - 1>>]
    <2>1. <<"expr", i + 1, j - 1>> \in Language(s) BY <1>1, <1>2, <1>6
    <2> QED BY <1>1, <1>6, <2>1
  <1>7. CASE \E k \in (i + 1)..(j - 2) :
                 /\ KindAt(s, k) \in BinaryKinds
                 /\ Grammar(s)[<<"expr", i, k>>] /\ Grammar(s)[<<"expr", k + 1, j>>]
    <2>1. PICK k \in (i + 1)..(j - 2) :
              /\ KindAt(s, k) \in BinaryKinds
              /\ Grammar(s)[<<"expr", i, k>>] /\ Grammar(s)[<<"expr", k + 1, j>>]
      BY <1>7
    <2>2. <<"expr", i, k>> \in Language(s) /\ <<"expr", k + 1, j>> \in Language(s)
      BY <1>1, <1>2, <2>1
    <2>3. i < j BY <1>1
    <2> QED BY <2>1, <2>2, <2>3
  <1> QED BY <1>3, <1>4, <1>5, <1>6, <1>7 DEF ExprRule

LEMMA DeclConsists ==
    ASSUME NEW s, Len(s) \in Nat, NEW i, NEW j, <<"decl", i, j>> \in Language(s)
    PROVE  /\ i < j /\ KindAt(s, i) = "Name"
           /\ \/ j = i + 1
              \/ KindAt(s, i + 1) = "=" /\ <<"expr", i + 2, j>> \in Language(s)
  <1>1. /\ i \in Places(s) /\ j \in Places(s) /\ i \in Nat /\ j \in Nat
        /\ RuleSays(s, Grammar(s), <<"decl", i, j>>)
    BY PlacesOfPhrases
  <1>2. DeclRule(s, LAMBDA p : Grammar(s)[p], i, j) BY <1>1 DEF RuleSays, PhraseRule
  <1>3. CASE j = i + 1 BY <1>1, <1>2, <1>3 DEF DeclRule
  <1>4. CASE i + 2 < j /\ KindAt(s, i + 1) = "=" /\ Grammar(s)[<<"expr", i + 2, j>>]
    <2>0. "expr" \in What /\ i + 2 \in i..j /\ j \in i..j BY <1>1, <1>4 DEF What
    <2>1. <<"expr", i + 2, j>> \in Language(s) BY <1>1, <1>4, <2>0, PartIsPhrase
    <2> QED BY <1>1, <1>2, <1>4, <2>1 DEF DeclRule
  <1> QED BY <1>2, <1>3, <1>4 DEF DeclRule

(* What stands between `if` and the last `end`.                            *)
IfParts(s, i, j) ==
    /\ KindAt(s, i) = "if" /\ KindAt(s, j - 1) = "end"
    /\ \E k \in (i + 2)..(j - 2) :
           /\ KindAt(s, k) = "then" /\ <<"expr", i + 1, k>> \in Language(s)
           /\ \/ <<"block", k + 1, j - 1>> \in Language(s)
              \/ \E l \in (k + 1)..(j - 2) :
                     /\ KindAt(s, l) = "else"
                     /\ <<"block", k + 1, l>> \in Language(s)
                     /\ <<"block", l + 1, j - 1>> \in Language(s)

LEMMA IfConsists ==
    ASSUME NEW s, Len(s) \in Nat, NEW i \in Places(s), NEW j \in Places(s),
           IfRule(s, LAMBDA p : Grammar(s)[p], i, j)
    PROVE  IfParts(s, i, j)
  <1>1. i \in Nat /\ j \in Nat BY DEF Places
  <1>2. ASSUME NEW w \in What, NEW a \in i..j, NEW b \in i..j, Grammar(s)[<<w, a, b>>]
        PROVE  <<w, a, b>> \in Language(s)
    BY <1>2, PartIsPhrase
  <1>3. PICK k \in (i + 2)..(j - 2) :
            /\ KindAt(s, k) = "then" /\ Grammar(s)[<<"expr", i + 1, k>>]
            /\ \/ Grammar(s)[<<"block", k + 1, j - 1>>]
               \/ \E l \in (k + 1)..(j - 2) :
                      /\ KindAt(s, l) = "else"
                      /\ Grammar(s)[<<"block", k + 1, l>>]
                      /\ Grammar(s)[<<"block", l + 1, j - 1>>]
    BY DEF IfRule
  <1>8. "expr" \in What /\ "block" \in What BY DEF What
  <1>9. i + 1 \in i..j /\ k \in i..j /\ k + 1 \in i..j /\ j - 1 \in i..j BY <1>1
  <1>4. <<"expr", i + 1, k>> \in Language(s) BY <1>2, <1>3, <1>8, <1>9
  <1>5. Grammar(s)[<<"block", k + 1, j - 1>>] => <<"block", k + 1, j - 1>> \in Language(s)
    BY <1>2, <1>8, <1>9
  <1>6. ASSUME NEW l \in (k + 1)..(j - 2),
               Grammar(s)[<<"block", k + 1, l>>], Grammar(s)[<<"block", l + 1, j - 1>>]
        PROVE  /\ <<"block", k + 1, l>> \in Language(s)
               /\ <<"block", l + 1, j - 1>> \in Language(s)
    <2>1. l \in i..j /\ l + 1 \in i..j BY <1>1
    <2> QED BY <1>2, <1>6, <1>8, <1>9, <2>1
  <1>7. KindAt(s, i) = "if" /\ KindAt(s, j - 1) = "end" BY DEF IfRule
  <1> QED BY <1>3, <1>4, <1>5, <1>6, <1>7 DEF IfParts

LEMMA StatConsists ==
    ASSUME NEW s, Len(s) \in Nat, NEW i, NEW j, <<"stat", i, j>> \in Language(s)
    PROVE  /\ i < j
           /\ \/ KindAt(s, i) = "Name" /\ <<"decl", i, j>> \in Language(s)
              \/ KindAt(s, i) = "local" /\ <<"decl", i + 1, j>> \in Language(s)
              \/ KindAt(s, i) \notin StatementKinds /\ <<"expr", i, j>> \in Language(s)
              \/ IfParts(s, i, j)
  <1>1. /\ i \in Places(s) /\ j \in Places(s) /\ i \in Nat /\ j \in Nat
        /\ RuleSays(s, Grammar(s), <<"stat", i, j>>)
    BY PlacesOfPhrases
  <1>2. StatRule(s, LAMBDA p : Grammar(s)[p], i, j) BY <1>1 DEF RuleSays, PhraseRule
  <1>3. \A w \in What : Grammar(s)[<<w, i, j>>] => <<w, i, j>> \in Language(s)
    BY <1>1 DEF Language, PhrasesOf, What
  <1>4. CASE KindAt(s, i) = "Name" /\ Grammar(s)[<<"decl", i, j>>]
    <2>1. <<"decl", i, j>> \in Language(s) BY <1>3, <1>4 DEF What
    <2> QED BY <1>4, <2>1, DeclConsists
  <1>5. CASE KindAt(s, i) = "local" /\ i + 1 < j /\ Grammar(s)[<<"decl", i + 1, j>>]
    <2>1. <<"decl", i + 1, j>> \in Language(s) BY <1>1, <1>5, PartIsPhrase DEF What
    <2> QED BY <1>1, <1>5, <2>1
  <1>6. CASE KindAt(s, i) \notin StatementKinds /\ Grammar(s)[<<"expr", i, j>>]
    <2>1. <<"expr", i, j>> \in Language(s) BY <1>3, <1>6 DEF What
    <2> QED BY <1>6, <2>1, ExprConsists
  <1>7. CASE IfRule(s, LAMBDA p : Grammar(s)[p], i, j)
    <2>1. \E k : k \in (i + 2)..(j - 2) BY <1>7 DEF IfRule
    <2>2. IfParts(s, i, j) BY <1>1, <1>7, IfConsists
    <2>3. i < j BY <1>1, <2>1
    <2> QED BY <2>2, <2>3
  <1> QED BY <1>2, <1>4, <1>5, <1>6, <1>7 DEF StatRule

LEMMA ReturnConsists ==
    ASSUME NEW s, Len(s) \in Nat, NEW i, NEW j, <<"return", i, j>> \in Language(s)
    PROVE  /\ i < j /\ KindAt(s, i) = "return"
           /\ \/ j = i + 1 /\ KindAt(s, j) \in {"EOF", ";"}
              \/ <<"expr", i + 1, j>> \in Language(s)
  <1>1. /\ i \in Places(s) /\ j \in Places(s) /\ i \in Nat /\ j \in Nat
        /\ RuleSays(s, Grammar(s), <<"return", i, j>>)
    BY PlacesOfPhrases
  <1>2. ReturnRule(s, LAMBDA p : Grammar(s)[p], i, j) BY <1>1 DEF RuleSays, PhraseRule
  <1>3. CASE j = i + 1 /\ KindAt(s, j) \in {"EOF", ";"}
    <2>1. i \in Nat /\ j = i + 1 BY <1>1, <1>3
    <2>2. i < j BY <2>1
    <2> QED BY <1>2, <1>3, <2>2 DEF ReturnRule
  <1>4. CASE i + 1 < j /\ Grammar(s)[<<"expr", i + 1, j>>]
    <2>1. "expr" \in What /\ i + 1 \in i..j /\ j \in i..j BY <1>1, <1>4 DEF What
    <2>2. <<"expr", i + 1, j>> \in Language(s) BY <1>1, <1>4, <2>1, PartIsPhrase
    <2>3. i < j BY <1>1, <1>4
    <2> QED BY <1>2, <2>2, <2>3 DEF ReturnRule
  <1> QED BY <1>2, <1>3, <1>4 DEF ReturnRule

LEMMA StatsConsists ==
    ASSUME NEW s, Len(s) \in Nat, NEW i, NEW j, <<"stats", i, j>> \in Language(s)
    PROVE  /\ i <= j
           /\ \/ i = j
              \/ \E k \in i..(j - 1) :
                     /\ OnlySemicolons(s, k, j) \/ <<"stat", k, j>> \in Language(s)
                     /\ <<"stats", i, k>> \in Language(s)
  <1>1. /\ i \in Places(s) /\ j \in Places(s) /\ i \in Nat /\ j \in Nat
        /\ RuleSays(s, Grammar(s), <<"stats", i, j>>)
    BY PlacesOfPhrases
  <1>2. StatsRule(s, LAMBDA p : Grammar(s)[p], i, j) BY <1>1 DEF RuleSays, PhraseRule
  <1>3. CASE i = j BY <1>1, <1>3
  <1>4. CASE i # j
    <2>1. PICK k \in i..(j - 1) :
              /\ OnlySemicolons(s, k, j) \/ Grammar(s)[<<"stat", k, j>>]
              /\ Grammar(s)[<<"stats", i, k>>]
      BY <1>2, <1>4 DEF StatsRule
    <2>2. i \in i..j /\ j \in i..j /\ k \in i..j /\ i <= j BY <1>1
    <2>3. "stat" \in What /\ "stats" \in What BY DEF What
    <2>4. <<"stats", i, k>> \in Language(s) BY <1>1, <2>1, <2>2, <2>3, PartIsPhrase
    <2>5. Grammar(s)[<<"stat", k, j>>] => <<"stat", k, j>> \in Language(s)
      BY <1>1, <2>2, <2>3, PartIsPhrase
    <2> QED BY <2>1, <2>2, <2>4, <2>5
  <1> QED BY <1>3, <1>4

LEMMA BlockConsists ==
    ASSUME NEW s, Len(s) \in Nat, NEW i, NEW j, <<"block", i, j>> \in Language(s)
    PROVE  /\ i <= j
           /\ \/ <<"stats", i, j>> \in Language(s)
              \/ \E k \in i..(j - 1) :
                     \/ <<"return", k, j>> \in Language(s) /\ <<"stats", i, k>> \in Language(s)
                     \/ OnlySemicolons(s, k, j) /\ <<"block", i, k>> \in Language(s)
  <1>1. /\ i \in Places(s) /\ j \in Places(s) /\ i \in Nat /\ j \in Nat
        /\ RuleSays(s, Grammar(s), <<"block", i, j>>)
    BY PlacesOfPhrases
  <1>2. BlockRule(s, LAMBDA p : Grammar(s)[p], i, j) BY <1>1 DEF RuleSays, PhraseRule
  <1>3. CASE Grammar(s)[<<"stats", i, j>>]
    <2>1. <<"stats", i, j>> \in Language(s) BY <1>1, <1>3 DEF Language, PhrasesOf
    <2> QED BY <2>1, StatsConsists
  <1>4. CASE \E k \in i..(j - 1) :
                \/ Grammar(s)[<<"return", k, j>>] /\ Grammar(s)[<<"stats", i, k>>]
                \/ OnlySemicolons(s, k, j) /\ Grammar(s)[<<"block", i, k>>]
    <2>1. PICK k \in i..(j - 1) :
              \/ Grammar(s)[<<"return", k, j>>] /\ Grammar(s)[<<"stats", i, k>>]
              \/ OnlySemicolons(s, k, j) /\ Grammar(s)[<<"block", i, k>>]
      BY <1>4
    <2>2. i \in i..j /\ j \in i..j /\ k \in i..j /\ i <= j BY <1>1
    <2>3. "return" \in What /\ "stats" \in What /\ "block" \in What BY DEF What
    <2>4. Grammar(s)[<<"stats", i, k>>] => <<"stats", i, k>> \in Language(s)
      BY <1>1, <2>2, <2>3, PartIsPhrase
    <2>5. Grammar(s)[<<"return", k, j>>] => <<"return", k, j>> \in Language(s)
      BY <1>1, <2>2, <2>3, PartIsPhrase
    <2>6. Grammar(s)[<<"block", i, k>>] => <<"block", i, k>> \in Language(s)
      BY <1>1, <2>2, <2>3, PartIsPhrase
    <2> QED BY <2>1, <2>2, <2>4, <2>5, <2>6
  <1> QED BY <1>2, <1>3, <1>4 DEF BlockRule

----------------------------------------------------------------------------
(* The phrases of s obey the rules ...                                     *)
LEMMA IsInGrammar ==
    ASSUME NEW s, NEW q, q \in Language(s) PROVE Grammar(s)[q]
  BY DEF Language

LEMMA NotAtTheEnd ==
    ASSUME NEW s, Len(s) \in Nat, NEW i \in Places(s), KindAt(s, i) # "EOF"
    PROVE  i \in Nat /\ i >= 1 /\ i <= Len(s) /\ i + 1 \in Places(s)
  BY DEF KindAt, Places

LEMMA KindsAreNotTheEnd ==
    /\ "EOF" \notin Operands /\ "EOF" \notin UnaryKinds /\ "EOF" \notin BinaryKinds
  BY DEF Operands, LiteralKinds, UnaryKinds, BinaryKinds, ComparisonKinds, FactorKinds

LEMMA LanguageObeysExpr ==
    ASSUME NEW s, Len(s) \in Nat
    PROVE  ExprRules(s, Language(s))
  <1> DEFINE L == Language(s)
  <1>0. \A i, j \in Places(s) : ExprRule(s, LAMBDA p : Grammar(s)[p], i, j) => <<"expr", i, j>> \in L
    BY PhraseOfParts DEF RuleSays, PhraseRule, What
  <1> SUFFICES ASSUME NEW i \in Places(s), NEW j \in Places(s), NEW k \in Places(s)
        PROVE /\ KindAt(s, i) \in Operands => <<"expr", i, i + 1>> \in L
              /\ KindAt(s, i) \in UnaryKinds /\ <<"expr", i + 1, j>> \in L => <<"expr", i, j>> \in L
              /\ KindAt(s, i) = "(" /\ <<"expr", i + 1, j>> \in L /\ KindAt(s, j) = ")"
                     => <<"expr", i, j + 1>> \in L
              /\ <<"expr", i, k>> \in L /\ KindAt(s, k) \in BinaryKinds /\ <<"expr", k + 1, j>> \in L
                     => <<"expr", i, j>> \in L
    BY DEF ExprRules
  <1>1. i \in Nat /\ j \in Nat /\ k \in Nat BY DEF Places
  <1>2. ASSUME KindAt(s, i) \in Operands PROVE <<"expr", i, i + 1>> \in L
    <2>1. i + 1 \in Places(s) BY <1>2, KindsAreNotTheEnd, NotAtTheEnd
    <2>2. ExprRule(s, LAMBDA p : Grammar(s)[p], i, i + 1) BY <1>2 DEF ExprRule
    <2> QED BY <1>0, <2>1, <2>2
  <1>3. ASSUME KindAt(s, i) \in UnaryKinds, <<"expr", i + 1, j>> \in L
        PROVE  <<"expr", i, j>> \in L
    <2>1. Grammar(s)[<<"expr", i + 1, j>>] /\ i + 1 < j
      BY <1>3, IsInGrammar, ExprConsists
    <2>2. ExprRule(s, LAMBDA p : Grammar(s)[p], i, j) BY <1>3, <2>1 DEF ExprRule
    <2> QED BY <1>0, <2>2
  <1>4. ASSUME KindAt(s, i) = "(", <<"expr", i + 1, j>> \in L, KindAt(s, j) = ")"
        PROVE  <<"expr", i, j + 1>> \in L
    <2>1. Grammar(s)[<<"expr", i + 1, j>>] /\ i + 1 < j
      BY <1>4, IsInGrammar, ExprConsists
    <2>2. j + 1 \in Places(s) BY <1>4, NotAtTheEnd
    <2>3. i + 2 < j + 1 /\ j + 1 - 1 = j BY <1>1, <2>1
    <2>4. PICK m : m = j + 1 OBVIOUS
    <2>5. i + 2 < m /\ m - 1 = j BY <1>1, <2>3, <2>4
    <2>6. ExprRule(s, LAMBDA p : Grammar(s)[p], i, m) BY <1>4, <2>1, <2>5 DEF ExprRule
    <2> QED BY <1>0, <2>2, <2>4, <2>6
  <1>5. ASSUME <<"expr", i, k>> \in L, KindAt(s, k) \in BinaryKinds, <<"expr", k + 1, j>> \in L
        PROVE  <<"expr", i, j>> \in L
    <2>1. Grammar(s)[<<"expr", i, k>>] /\ i < k BY <1>5, IsInGrammar, ExprConsists
    <2>2. Grammar(s)[<<"expr", k + 1, j>>] /\ k + 1 < j BY <1>5, IsInGrammar, ExprConsists
    <2>3. k \in (i + 1)..(j - 2) BY <1>1, <2>1, <2>2
    <2>4. \E m \in (i + 1)..(j - 2) :
              KindAt(s, m) \in BinaryKinds /\ Grammar(s)[<<"expr", i, m>>]
                  /\ Grammar(s)[<<"expr", m + 1, j>>]
      BY <1>5, <2>1, <2>2, <2>3
    <2>5. ExprRule(s, LAMBDA p : Grammar(s)[p], i, j) BY <2>4, Zenon DEF ExprRule
    <2> QED BY <1>0, <2>5
  <1> QED BY <1>2, <1>3, <1>4, <1>5

LEMMA LanguageObeysStat ==
    ASSUME NEW s, Len(s) \in Nat
    PROVE  StatRules(s, Language(s))
  <1> DEFINE L == Language(s)
  <1>0. /\ \A i, j \in Places(s) : DeclRule(s, LAMBDA p : Grammar(s)[p], i, j) => <<"decl", i, j>> \in L
        /\ \A i, j \in Places(s) : StatRule(s, LAMBDA p : Grammar(s)[p], i, j) => <<"stat", i, j>> \in L
    BY PhraseOfParts DEF RuleSays, PhraseRule, What
  <1> SUFFICES ASSUME NEW i \in Places(s), NEW j \in Places(s), NEW k \in Places(s), NEW l \in Places(s)
        PROVE /\ KindAt(s, i) = "Name" => <<"decl", i, i + 1>> \in L
              /\ KindAt(s, i) = "Name" /\ KindAt(s, i + 1) = "=" /\ <<"expr", i + 2, j>> \in L
                     => <<"decl", i, j>> \in L
              /\ <<"decl", i, j>> \in L => <<"stat", i, j>> \in L
              /\ KindAt(s, i) = "local" /\ <<"decl", i + 1, j>> \in L => <<"stat", i, j>> \in L
              /\ KindAt(s, i) \notin StatementKinds /\ <<"expr", i, j>> \in L
                     => <<"stat", i, j>> \in L
              /\ KindAt(s, i) = "if" /\ <<"expr", i + 1, k>> \in L
                     /\ KindAt(s, k) = "then" /\ <<"block", k + 1, j>> \in L
                     /\ KindAt(s, j) = "end"
                     => <<"stat", i, j + 1>> \in L
              /\ KindAt(s, i) = "if" /\ <<"expr", i + 1, k>> \in L
                     /\ KindAt(s, k) = "then" /\ <<"block", k + 1, l>> \in L
                     /\ KindAt(s, l) = "else" /\ <<"block", l + 1, j>> \in L
                     /\ KindAt(s, j) = "end"
                     => <<"stat", i, j + 1>> \in L
    BY DEF StatRules
  <1>1. i \in Nat /\ j \in Nat /\ k \in Nat /\ l \in Nat BY DEF Places
  <1>2. ASSUME KindAt(s, i) = "Name" PROVE <<"decl", i, i + 1>> \in L
    <2>1. i + 1 \in Places(s) BY <1>2, NotAtTheEnd
    <2>2. DeclRule(s, LAMBDA p : Grammar(s)[p], i, i + 1) BY <1>2 DEF DeclRule
    <2> QED BY <1>0, <2>1, <2>2
  <1>3. ASSUME KindAt(s, i) = "Name", KindAt(s, i + 1) = "=", <<"expr", i + 2, j>> \in L
        PROVE  <<"decl", i, j>> \in L
    <2>1. Grammar(s)[<<"expr", i + 2, j>>] /\ i + 2 < j BY <1>3, IsInGrammar, ExprConsists
    <2>2. DeclRule(s, LAMBDA p : Grammar(s)[p], i, j) BY <1>3, <2>1 DEF DeclRule
    <2> QED BY <1>0, <2>2
  <1>4. ASSUME <<"decl", i, j>> \in L PROVE <<"stat", i, j>> \in L
    <2>1. Grammar(s)[<<"decl", i, j>>] /\ KindAt(s, i) = "Name"
      BY <1>4, IsInGrammar, DeclConsists
    <2>2. StatRule(s, LAMBDA p : Grammar(s)[p], i, j) BY <2>1 DEF StatRule
    <2> QED BY <1>0, <2>2
  <1>5. ASSUME KindAt(s, i) = "local", <<"decl", i + 1, j>> \in L
        PROVE  <<"stat", i, j>> \in L
    <2>1. Grammar(s)[<<"decl", i + 1, j>>] /\ i + 1 < j BY <1>5, IsInGrammar, DeclConsists
    <2>2. StatRule(s, LAMBDA p : Grammar(s)[p], i, j) BY <1>5, <2>1 DEF StatRule
    <2> QED BY <1>0, <2>2
  <1>6. ASSUME KindAt(s, i) \notin StatementKinds, <<"expr", i, j>> \in L
        PROVE  <<"stat", i, j>> \in L
    <2>1. Grammar(s)[<<"expr", i, j>>] BY <1>6, IsInGrammar
    <2>2. StatRule(s, LAMBDA p : Grammar(s)[p], i, j) BY <1>6, <2>1 DEF StatRule
    <2> QED BY <1>0, <2>2
  <1>7. ASSUME KindAt(s, i) = "if", <<"expr", i + 1, k>> \in L, KindAt(s, k) = "then",
               KindAt(s, j) = "end", k + 1 <= j,
               \/ Grammar(s)[<<"block", k + 1, j>>]
               \/ \E m \in (k + 1)..(j - 1) :
                      /\ KindAt(s, m) = "else"
                      /\ Grammar(s)[<<"block", k + 1, m>>] /\ Grammar(s)[<<"block", m + 1, j>>]
        PROVE  <<"stat", i, j + 1>> \in L
    <2>1. Grammar(s)[<<"expr", i + 1, k>>] /\ i + 1 < k BY <1>7, IsInGrammar, ExprConsists
    <2>2. j + 1 \in Places(s) BY <1>7, NotAtTheEnd
    <2>3. PICK e : e = j + 1 OBVIOUS
    <2>4. k \in (i + 2)..(e - 2) /\ e - 1 = j /\ e - 2 = j - 1 BY <1>1, <1>7, <2>1, <2>3
    <2>5. IfRule(s, LAMBDA p : Grammar(s)[p], i, e) BY <1>7, <2>1, <2>4 DEF IfRule
    <2>6. StatRule(s, LAMBDA p : Grammar(s)[p], i, e) BY <2>5 DEF StatRule
    <2> QED BY <1>0, <2>2, <2>3, <2>6
  <1>8. ASSUME KindAt(s, i) = "if", <<"expr", i + 1, k>> \in L, KindAt(s, k) = "then",
               <<"block", k + 1, j>> \in L, KindAt(s, j) = "end"
        PROVE  <<"stat", i, j + 1>> \in L
    <2>1. Grammar(s)[<<"block", k + 1, j>>] /\ k + 1 <= j BY <1>8, IsInGrammar, BlockConsists
    <2> QED BY <1>7, <1>8, <2>1
  <1>9. ASSUME KindAt(s, i) = "if", <<"expr", i + 1, k>> \in L, KindAt(s, k) = "then",
               <<"block", k + 1, l>> \in L, KindAt(s, l) = "else",
               <<"block", l + 1, j>> \in L, KindAt(s, j) = "end"
        PROVE  <<"stat", i, j + 1>> \in L
    <2>1. Grammar(s)[<<"block", k + 1, l>>] /\ k + 1 <= l BY <1>9, IsInGrammar, BlockConsists
    <2>2. Grammar(s)[<<"block", l + 1, j>>] /\ l + 1 <= j BY <1>9, IsInGrammar, BlockConsists
    <2>3. l \in (k + 1)..(j - 1) /\ k + 1 <= j BY <1>1, <2>1, <2>2
    <2> QED BY <1>7, <1>9, <2>1, <2>2, <2>3
  <1> QED BY <1>2, <1>3, <1>4, <1>5, <1>6, <1>8, <1>9

LEMMA LanguageObeysBlock ==
    ASSUME NEW s, Len(s) \in Nat
    PROVE  BlockRules(s, Language(s))
  <1> DEFINE L == Language(s)
  <1>01. \A i, j \in Places(s) : ReturnRule(s, LAMBDA p : Grammar(s)[p], i, j) => <<"return", i, j>> \in L
    BY PhraseOfParts DEF RuleSays, PhraseRule, What
  <1>02. \A i, j \in Places(s) : StatsRule(s, LAMBDA p : Grammar(s)[p], i, j) => <<"stats", i, j>> \in L
    BY PhraseOfParts DEF RuleSays, PhraseRule, What
  <1>03. \A i, j \in Places(s) : BlockRule(s, LAMBDA p : Grammar(s)[p], i, j) => <<"block", i, j>> \in L
    BY PhraseOfParts DEF RuleSays, PhraseRule, What
  <1> SUFFICES ASSUME NEW i \in Places(s), NEW j \in Places(s), NEW k \in Places(s)
        PROVE /\ KindAt(s, i) = "return" /\ KindAt(s, i + 1) \in {"EOF", ";"}
                     => <<"return", i, i + 1>> \in L
              /\ KindAt(s, i) = "return" /\ <<"expr", i + 1, j>> \in L => <<"return", i, j>> \in L
              /\ <<"stats", i, i>> \in L
              /\ <<"stats", i, k>> \in L /\ k <= j /\ OnlySemicolons(s, k, j) => <<"stats", i, j>> \in L
              /\ <<"stats", i, k>> \in L /\ <<"stat", k, j>> \in L => <<"stats", i, j>> \in L
              /\ <<"stats", i, j>> \in L => <<"block", i, j>> \in L
              /\ <<"stats", i, k>> \in L /\ <<"return", k, j>> \in L => <<"block", i, j>> \in L
              /\ <<"block", i, k>> \in L /\ k <= j /\ OnlySemicolons(s, k, j) => <<"block", i, j>> \in L
    BY DEF BlockRules
  <1>1. i \in Nat /\ j \in Nat /\ k \in Nat BY DEF Places
  <1>2. ASSUME KindAt(s, i) = "return", KindAt(s, i + 1) \in {"EOF", ";"}
        PROVE  <<"return", i, i + 1>> \in L
    <2>1. i + 1 \in Places(s) BY <1>2, NotAtTheEnd
    <2>2. ReturnRule(s, LAMBDA p : Grammar(s)[p], i, i + 1) BY <1>2 DEF ReturnRule
    <2> QED BY <1>01, <2>1, <2>2
  <1>3. ASSUME KindAt(s, i) = "return", <<"expr", i + 1, j>> \in L
        PROVE  <<"return", i, j>> \in L
    <2>1. Grammar(s)[<<"expr", i + 1, j>>] /\ i + 1 < j BY <1>3, IsInGrammar, ExprConsists
    <2>2. ReturnRule(s, LAMBDA p : Grammar(s)[p], i, j) BY <1>3, <2>1 DEF ReturnRule
    <2> QED BY <1>01, <2>2
  <1>4. <<"stats", i, i>> \in L
    <2>1. StatsRule(s, LAMBDA p : Grammar(s)[p], i, i) BY DEF StatsRule
    <2> QED BY <1>02, <2>1
  <1>5. ASSUME <<"stats", i, k>> \in L, k < j,
               OnlySemicolons(s, k, j) \/ Grammar(s)[<<"stat", k, j>>]
        PROVE  <<"stats", i, j>> \in L
    <2>1. Grammar(s)[<<"stats", i, k>>] /\ i <= k BY <1>5, IsInGrammar, StatsConsists
    <2>2. k \in i..(j - 1) BY <1>1, <1>5, <2>1
    <2>3. StatsRule(s, LAMBDA p : Grammar(s)[p], i, j) BY <1>5, <2>1, <2>2 DEF StatsRule
    <2> QED BY <1>02, <2>3
  <1>6. ASSUME <<"stats", i, k>> \in L, k <= j, OnlySemicolons(s, k, j)
        PROVE  <<"stats", i, j>> \in L
    <2>1. k = j \/ k < j BY <1>1, <1>6
    <2> QED BY <1>5, <1>6, <2>1
  <1>7. ASSUME <<"stats", i, k>> \in L, <<"stat", k, j>> \in L
        PROVE  <<"stats", i, j>> \in L
    <2>1. Grammar(s)[<<"stat", k, j>>] /\ k < j BY <1>7, IsInGrammar, StatConsists
    <2> QED BY <1>5, <1>7, <2>1
  <1>8. ASSUME <<"stats", i, j>> \in L PROVE <<"block", i, j>> \in L
    <2>1. Grammar(s)[<<"stats", i, j>>] BY <1>8, IsInGrammar
    <2>2. BlockRule(s, LAMBDA p : Grammar(s)[p], i, j) BY <2>1 DEF BlockRule
    <2> QED BY <1>03, <2>2
  <1>9. ASSUME <<"stats", i, k>> \in L, <<"return", k, j>> \in L
        PROVE  <<"block", i, j>> \in L
    <2>1. Grammar(s)[<<"stats", i, k>>] /\ i <= k BY <1>9, IsInGrammar, StatsConsists
    <2>2. Grammar(s)[<<"return", k, j>>] /\ k < j BY <1>9, IsInGrammar, ReturnConsists
    <2>3. k \in i..(j - 1) BY <1>1, <2>1, <2>2
    <2>4. BlockRule(s, LAMBDA p : Grammar(s)[p], i, j) BY <2>1, <2>2, <2>3 DEF BlockRule
    <2> QED BY <1>03, <2>4
  <1>10. ASSUME <<"block", i, k>> \in L, k <= j, OnlySemicolons(s, k, j)
         PROVE  <<"block", i, j>> \in L
    <2>1. CASE k = j BY <1>10, <2>1
    <2>2. CASE k < j
      <3>1. Grammar(s)[<<"block", i, k>>] /\ i <= k BY <1>10, IsInGrammar, BlockConsists
      <3>2. k \in i..(j - 1) BY <1>1, <2>2, <3>1
      <3>3. BlockRule(s, LAMBDA p : Grammar(s)[p], i, j) BY <1>10, <3>1, <3>2 DEF BlockRule
      <3> QED BY <1>03, <3>3
    <2> QED BY <1>1, <1>10, <2>1, <2>2
  <1> QED BY <1>2, <1>3, <1>4, <1>6, <1>7, <1>8, <1>9, <1>10

LEMMA LanguageObeys ==
    ASSUME NEW s, Len(s) \in Nat
    PROVE  ObeysTheRules(s, Language(s))
  BY LanguageObeysExpr, LanguageObeysStat, LanguageObeysBlock DEF ObeysTheRules

----------------------------------------------------------------------------
(* ... and are in every set that obeys them: the shortest phrase that is   *)
(* not, of the lowest rank, consists of phrases that are.                  *)
ShorterAreIn(s, R, i, j) ==
    \A v, a, b : <<v, a, b>> \in Language(s) /\ b - a < j - i => <<v, a, b>> \in R

LEMMA ExprIsIn ==
    ASSUME NEW s, Len(s) \in Nat, NEW R, ObeysTheRules(s, R), NEW i, NEW j,
           <<"expr", i, j>> \in Language(s), ShorterAreIn(s, R, i, j)
    PROVE  <<"expr", i, j>> \in R
  <1> DEFINE L == Language(s)
  <1>1. i \in Places(s) /\ j \in Places(s) /\ i \in Nat /\ j \in Nat BY PlacesOfPhrases
  <1>2. \A a, b : <<"expr", a, b>> \in L /\ b - a < j - i => <<"expr", a, b>> \in R
    BY DEF ShorterAreIn
  <1>3. ExprRules(s, R) BY DEF ObeysTheRules
  <1>4. CASE j = i + 1 /\ KindAt(s, i) \in Operands BY <1>1, <1>3, <1>4 DEF ExprRules
  <1>5. CASE i + 1 < j /\ KindAt(s, i) \in UnaryKinds /\ <<"expr", i + 1, j>> \in L
    <2>1. j - (i + 1) < j - i BY <1>1
    <2>2. <<"expr", i + 1, j>> \in R BY <1>2, <1>5, <2>1
    <2> QED BY <1>1, <1>3, <1>5, <2>2 DEF ExprRules
  <1>6. CASE /\ i + 2 < j /\ KindAt(s, i) = "(" /\ KindAt(s, j - 1) = ")"
             /\ <<"expr", i + 1, j - 1>> \in L
    <2>1. PICK e : e = j - 1 OBVIOUS
    <2>2. e \in Places(s) /\ e + 1 = j /\ e - (i + 1) < j - i BY <1>1, <1>6, <2>1 DEF Places
    <2>3. <<"expr", i + 1, e>> \in R BY <1>2, <1>6, <2>1, <2>2
    <2>4. <<"expr", i, e + 1>> \in R BY <1>1, <1>3, <1>6, <2>1, <2>2, <2>3 DEF ExprRules
    <2> QED BY <2>2, <2>4
  <1>7. CASE \E k \in (i + 1)..(j - 2) :
                 KindAt(s, k) \in BinaryKinds /\ <<"expr", i, k>> \in L /\ <<"expr", k + 1, j>> \in L
    <2>1. PICK k \in (i + 1)..(j - 2) :
              KindAt(s, k) \in BinaryKinds /\ <<"expr", i, k>> \in L /\ <<"expr", k + 1, j>> \in L
      BY <1>7
    <2>2. k - i < j - i /\ j - (k + 1) < j - i BY <1>1
    <2>3. k \in Places(s) BY <2>1, PlacesOfPhrases
    <2>4. <<"expr", i, k>> \in R /\ <<"expr", k + 1, j>> \in R BY <1>2, <2>1, <2>2
    <2> QED BY <1>1, <1>3, <2>1, <2>3, <2>4 DEF ExprRules
  <1> QED BY <1>4, <1>5, <1>6, <1>7, ExprConsists

LEMMA DeclIsIn ==
    ASSUME NEW s, Len(s) \in Nat, NEW R, ObeysTheRules(s, R), NEW i, NEW j,
           <<"decl", i, j>> \in Language(s), ShorterAreIn(s, R, i, j)
    PROVE  <<"decl", i, j>> \in R
  <1>1. i \in Places(s) /\ j \in Places(s) /\ i \in Nat /\ j \in Nat BY PlacesOfPhrases
  <1>2. StatRules(s, R) BY DEF ObeysTheRules
  <1>3. KindAt(s, i) = "Name" BY DeclConsists
  <1>4. CASE j = i + 1 BY <1>1, <1>2, <1>3, <1>4 DEF StatRules
  <1>5. CASE KindAt(s, i + 1) = "=" /\ <<"expr", i + 2, j>> \in Language(s)
    <2>1. j - (i + 2) < j - i BY <1>1
    <2>2. <<"expr", i + 2, j>> \in R BY <1>5, <2>1 DEF ShorterAreIn
    <2> QED BY <1>1, <1>2, <1>3, <1>5, <2>2 DEF StatRules
  <1> QED BY <1>4, <1>5, DeclConsists

LEMMA StatIsIn ==
    ASSUME NEW s, Len(s) \in Nat, NEW R, ObeysTheRules(s, R), NEW i, NEW j,
           <<"stat", i, j>> \in Language(s), ShorterAreIn(s, R, i, j),
           <<"decl", i, j>> \in Language(s) => <<"decl", i, j>> \in R,
           <<"expr", i, j>> \in Language(s) => <<"expr", i, j>> \in R
    PROVE  <<"stat", i, j>> \in R
  <1> DEFINE L == Language(s)
  <1>1. i \in Places(s) /\ j \in Places(s) /\ i \in Nat /\ j \in Nat BY PlacesOfPhrases
  <1>2. StatRules(s, R) BY DEF ObeysTheRules
  <1>3. \A v, a, b : <<v, a, b>> \in L /\ b - a < j - i => <<v, a, b>> \in R
    BY DEF ShorterAreIn
  <1>4. CASE KindAt(s, i) = "Name" /\ <<"decl", i, j>> \in L BY <1>1, <1>2, <1>4 DEF StatRules
  <1>5. CASE KindAt(s, i) = "local" /\ <<"decl", i + 1, j>> \in L
    <2>1. j - (i + 1) < j - i BY <1>1
    <2>2. <<"decl", i + 1, j>> \in R BY <1>3, <1>5, <2>1
    <2> QED BY <1>1, <1>2, <1>5, <2>2 DEF StatRules
  <1>6. CASE KindAt(s, i) \notin StatementKinds /\ <<"expr", i, j>> \in L
    BY <1>1, <1>2, <1>6 DEF StatRules
  <1>7. CASE IfParts(s, i, j)
    <2>1. KindAt(s, i) = "if" /\ KindAt(s, j - 1) = "end" BY <1>7 DEF IfParts
    <2>2. PICK k \in (i + 2)..(j - 2) :
              /\ KindAt(s, k) = "then" /\ <<"expr", i + 1, k>> \in L
              /\ \/ <<"block", k + 1, j - 1>> \in L
                 \/ \E l \in (k + 1)..(j - 2) :
                        /\ KindAt(s, l) = "else"
                        /\ <<"block", k + 1, l>> \in L /\ <<"block", l + 1, j - 1>> \in L
      BY <1>7 DEF IfParts
    <2>3. PICK e : e = j - 1 OBVIOUS
    <2>4. e \in Places(s) /\ e + 1 = j /\ k \in Places(s) BY <1>1, <2>3 DEF Places
    <2>5. k - (i + 1) < j - i /\ e - (k + 1) < j - i BY <1>1, <2>3
    <2>6. <<"expr", i + 1, k>> \in R BY <1>3, <2>2, <2>5
    <2>7. CASE <<"block", k + 1, e>> \in L
      <3>1. <<"block", k + 1, e>> \in R BY <1>3, <2>5, <2>7
      <3>2. <<"stat", i, e + 1>> \in R
        BY <1>1, <1>2, <2>1, <2>2, <2>3, <2>4, <2>6, <3>1 DEF StatRules
      <3> QED BY <2>4, <3>2
    <2>8. CASE \E l \in (k + 1)..(j - 2) :
                   /\ KindAt(s, l) = "else"
                   /\ <<"block", k + 1, l>> \in L /\ <<"block", l + 1, e>> \in L
      <3>1. PICK l \in (k + 1)..(j - 2) :
                /\ KindAt(s, l) = "else"
                /\ <<"block", k + 1, l>> \in L /\ <<"block", l + 1, e>> \in L
        BY <2>8
      <3>2. l - (k + 1) < j - i /\ e - (l + 1) < j - i /\ l \in Places(s)
        BY <1>1, <2>3 DEF Places
      <3>3. <<"block", k + 1, l>> \in R /\ <<"block", l + 1, e>> \in R BY <1>3, <3>1, <3>2
      <3>4. <<"stat", i, e + 1>> \in R
        BY <1>1, <1>2, <2>1, <2>2, <2>3, <2>4, <2>6, <3>1, <3>2, <3>3 DEF StatRules
      <3> QED BY <2>4, <3>4
    <2> QED BY <2>2, <2>3, <2>7, <2>8
  <1> QED BY <1>4, <1>5, <1>6, <1>7, StatConsists

LEMMA ReturnIsIn ==
    ASSUME NEW s, Len(s) \in Nat, NEW R, ObeysTheRules(s, R), NEW i, NEW j,
           <<"return", i, j>> \in Language(s), ShorterAreIn(s, R, i, j)
    PROVE  <<"return", i, j>> \in R
  <1>1. i \in Places(s) /\ j \in Places(s) /\ i \in Nat /\ j \in Nat BY PlacesOfPhrases
  <1>2. BlockRules(s, R) BY DEF ObeysTheRules
  <1>3. KindAt(s, i) = "return" BY ReturnConsists
  <1>4. CASE j = i + 1 /\ KindAt(s, j) \in {"EOF", ";"}
    BY <1>1, <1>2, <1>3, <1>4 DEF BlockRules
  <1>5. CASE <<"expr", i + 1, j>> \in Language(s)
    <2>1. j - (i + 1) < j - i BY <1>1
    <2>2. <<"expr", i + 1, j>> \in R BY <1>5, <2>1 DEF ShorterAreIn
    <2> QED BY <1>1, <1>2, <1>3, <2>2 DEF BlockRules
  <1> QED BY <1>4, <1>5, ReturnConsists

LEMMA StatsIsIn ==
    ASSUME NEW s, Len(s) \in Nat, NEW R, ObeysTheRules(s, R), NEW i, NEW j,
           <<"stats", i, j>> \in Language(s), ShorterAreIn(s, R, i, j),
           <<"stat", i, j>> \in Language(s) => <<"stat", i, j>> \in R
    PROVE  <<"stats", i, j>> \in R
  <1> DEFINE L == Language(s)
  <1>1. i \in Places(s) /\ j \in Places(s) /\ i \in Nat /\ j \in Nat BY PlacesOfPhrases
  <1>2. BlockRules(s, R) BY DEF ObeysTheRules
  <1>3. CASE i = j BY <1>1, <1>2, <1>3 DEF BlockRules
  <1>4. CASE \E k \in i..(j - 1) :
                 /\ OnlySemicolons(s, k, j) \/ <<"stat", k, j>> \in L
                 /\ <<"stats", i, k>> \in L
    <2>1. PICK k \in i..(j - 1) :
              /\ OnlySemicolons(s, k, j) \/ <<"stat", k, j>> \in L
              /\ <<"stats", i, k>> \in L
      BY <1>4
    <2>2. k - i < j - i /\ k <= j /\ (k = i \/ j - k < j - i) BY <1>1
    <2>3. k \in Places(s) BY <2>1, PlacesOfPhrases
    <2>4. <<"stats", i, k>> \in R BY <2>1, <2>2 DEF ShorterAreIn
    <2>5. <<"stat", k, j>> \in L => <<"stat", k, j>> \in R BY <2>2 DEF ShorterAreIn
    <2> QED BY <1>1, <1>2, <2>1, <2>2, <2>3, <2>4, <2>5 DEF BlockRules
  <1> QED BY <1>3, <1>4, StatsConsists

LEMMA BlockIsIn ==
    ASSUME NEW s, Len(s) \in Nat, NEW R, ObeysTheRules(s, R), NEW i, NEW j,
           <<"block", i, j>> \in Language(s), ShorterAreIn(s, R, i, j),
           <<"stats", i, j>> \in Language(s) => <<"stats", i, j>> \in R,
           <<"return", i, j>> \in Language(s) => <<"return", i, j>> \in R
    PROVE  <<"block", i, j>> \in R
  <1> DEFINE L == Language(s)
  <1>1. i \in Places(s) /\ j \in Places(s) /\ i \in Nat /\ j \in Nat BY PlacesOfPhrases
  <1>2. BlockRules(s, R) BY DEF ObeysTheRules
  <1>3. CASE <<"stats", i, j>> \in L BY <1>1, <1>2, <1>3 DEF BlockRules
  <1>4. CASE \E k \in i..(j - 1) :
                 \/ <<"return", k, j>> \in L /\ <<"stats", i, k>> \in L
                 \/ OnlySemicolons(s, k, j) /\ <<"block", i, k>> \in L
    <2>1. PICK k \in i..(j - 1) :
              \/ <<"return", k, j>> \in L /\ <<"stats", i, k>> \in L
              \/ OnlySemicolons(s, k, j) /\ <<"block", i, k>> \in L
      BY <1>4
    <2>2. k - i < j - i /\ k <= j /\ (k = i \/ j - k < j - i) /\ k \in Places(s)
      BY <1>1 DEF Places
    <2>3. <<"return", k, j>> \in L => <<"return", k, j>> \in R BY <2>2 DEF ShorterAreIn
    <2>4. <<"stats", i, k>> \in L => <<"stats", i, k>> \in R BY <2>2 DEF ShorterAreIn
    <2>5. <<"block", i, k>> \in L => <<"block", i, k>> \in R BY <2>2 DEF ShorterAreIn
    <2> QED BY <1>1, <1>2, <2>1, <2>2, <2>3, <2>4, <2>5 DEF BlockRules
  <1> QED BY <1>3, <1>4, BlockConsists

LEMMA LanguageIsLeast ==
    ASSUME NEW s, Len(s) \in Nat, NEW R, ObeysTheRules(s, R)
    PROVE  Language(s) \subseteq R
  <1> DEFINE L == Language(s)
  <1> DEFINE S == {q[3] - q[2] : q \in L \ R}
  <1>1. ASSUME NEW q \in L
        PROVE  /\ q = <<q[1], q[2], q[3]>> /\ q[1] \in What
               /\ q[2] \in Nat /\ q[3] \in Nat /\ q[3] - q[2] \in Nat
    <2>1. q \in PhrasesOf(s) BY DEF Language
    <2>2. PICK w, i, j : q = <<w, i, j>> /\ w = q[1] /\ i = q[2] /\ j = q[3] BY <2>1, PhraseIs
    <2>3. <<w, i, j>> \in L BY <2>2
    <2>4. w \in What /\ i \in Nat /\ j \in Nat BY <2>3, PlacesOfPhrases
    <2>5. i <= j
      <3>1. w = "expr" => i < j BY <2>3, ExprConsists
      <3>2. w = "decl" => i < j BY <2>3, DeclConsists
      <3>3. w = "stat" => i < j BY <2>3, StatConsists
      <3>4. w = "return" => i < j BY <2>3, ReturnConsists
      <3>5. w = "stats" => i <= j BY <2>3, StatsConsists
      <3>6. w = "block" => i <= j BY <2>3, BlockConsists
      <3> QED BY <2>4, <3>1, <3>2, <3>3, <3>4, <3>5, <3>6 DEF What
    <2>6. j - i \in Nat BY <2>4, <2>5
    <2> QED BY <2>2, <2>4, <2>6
  <1>2. S \subseteq Nat BY <1>1
  <1>3. ASSUME S # {} PROVE FALSE
    <2>1. PICK n \in S : \A m \in S : n <= m BY <1>2, <1>3, SomeTokenIsFirst
    <2>2. PICK q \in L \ R : n = q[3] - q[2] BY <2>1
    <2>3. PICK w, i, j : q = <<w, i, j>> /\ w \in What /\ i \in Nat /\ j \in Nat /\ n = j - i
      BY <1>1, <2>2
    <2>4. ASSUME NEW v, NEW a, NEW b, <<v, a, b>> \in L, b - a < j - i
          PROVE  <<v, a, b>> \in R
      <3>1. a \in Nat /\ b \in Nat BY <2>4, PlacesOfPhrases
      <3>2. <<v, a, b>> \notin R => b - a \in S
        <4>1. <<v, a, b>>[3] - <<v, a, b>>[2] = b - a OBVIOUS
        <4> QED BY <2>4, <4>1
      <3>3. ~(n <= b - a) BY <2>3, <2>4, <3>1
      <3> QED BY <2>1, <3>2, <3>3
    <2>5. ShorterAreIn(s, R, i, j) BY <2>4 DEF ShorterAreIn
    <2>6. <<"expr", i, j>> \in L => <<"expr", i, j>> \in R BY <2>5, ExprIsIn
    <2>7. <<"decl", i, j>> \in L => <<"decl", i, j>> \in R BY <2>5, DeclIsIn
    <2>8. <<"stat", i, j>> \in L => <<"stat", i, j>> \in R BY <2>5, <2>6, <2>7, StatIsIn
    <2>9. <<"return", i, j>> \in L => <<"return", i, j>> \in R BY <2>5, ReturnIsIn
    <2>10. <<"stats", i, j>> \in L => <<"stats", i, j>> \in R BY <2>5, <2>8, StatsIsIn
    <2>11. <<"block", i, j>> \in L => <<"block", i, j>> \in R
      BY <2>5, <2>9, <2>10, BlockIsIn
    <2> QED BY <2>2, <2>3, <2>6, <2>7, <2>8, <2>9, <2>10, <2>11 DEF What
  <1> QED BY <1>3

----------------------------------------------------------------------------
(* Induction over expressions: H keeps what the rules make of its pairs.   *)
KeepsExprs(s, H) ==
    \A i, j, k \in Places(s) :
        /\ KindAt(s, i) \in Operands => <<i, i + 1>> \in H
        /\ KindAt(s, i) \in UnaryKinds /\ <<"expr", i + 1, j>> \in Language(s)
               /\ <<i + 1, j>> \in H
               => <<i, j>> \in H
        /\ KindAt(s, i) = "(" /\ <<"expr", i + 1, j>> \in Language(s) /\ KindAt(s, j) = ")"
               /\ <<i + 1, j>> \in H
               => <<i, j + 1>> \in H
        /\ <<"expr", i, k>> \in Language(s) /\ KindAt(s, k) \in BinaryKinds
               /\ <<"expr", k + 1, j>> \in Language(s)
               /\ <<i, k>> \in H /\ <<k + 1, j>> \in H
               => <<i, j>> \in H

(* What a set obeys, a smaller one does that has the phrases of these kinds. *)
LEMMA StatRulesPass ==
    ASSUME NEW s, NEW L, NEW R, StatRules(s, L), R \subseteq L,
           \A a, b : <<"decl", a, b>> \in L => <<"decl", a, b>> \in R,
           \A a, b : <<"stat", a, b>> \in L => <<"stat", a, b>> \in R
    PROVE  StatRules(s, R)
  <1> SUFFICES ASSUME NEW i \in Places(s), NEW j \in Places(s), NEW k \in Places(s), NEW l \in Places(s)
        PROVE /\ KindAt(s, i) = "Name" => <<"decl", i, i + 1>> \in R
              /\ KindAt(s, i) = "Name" /\ KindAt(s, i + 1) = "=" /\ <<"expr", i + 2, j>> \in R
                     => <<"decl", i, j>> \in R
              /\ <<"decl", i, j>> \in R => <<"stat", i, j>> \in R
              /\ KindAt(s, i) = "local" /\ <<"decl", i + 1, j>> \in R => <<"stat", i, j>> \in R
              /\ KindAt(s, i) \notin StatementKinds /\ <<"expr", i, j>> \in R
                     => <<"stat", i, j>> \in R
              /\ KindAt(s, i) = "if" /\ <<"expr", i + 1, k>> \in R
                     /\ KindAt(s, k) = "then" /\ <<"block", k + 1, j>> \in R
                     /\ KindAt(s, j) = "end"
                     => <<"stat", i, j + 1>> \in R
              /\ KindAt(s, i) = "if" /\ <<"expr", i + 1, k>> \in R
                     /\ KindAt(s, k) = "then" /\ <<"block", k + 1, l>> \in R
                     /\ KindAt(s, l) = "else" /\ <<"block", l + 1, j>> \in R
                     /\ KindAt(s, j) = "end"
                     => <<"stat", i, j + 1>> \in R
    BY Zenon DEF StatRules
  <1>1. /\ KindAt(s, i) = "Name" => <<"decl", i, i + 1>> \in L
        /\ KindAt(s, i) = "Name" /\ KindAt(s, i + 1) = "=" /\ <<"expr", i + 2, j>> \in L
                     => <<"decl", i, j>> \in L
        /\ <<"decl", i, j>> \in L => <<"stat", i, j>> \in L
        /\ KindAt(s, i) = "local" /\ <<"decl", i + 1, j>> \in L => <<"stat", i, j>> \in L
        /\ KindAt(s, i) \notin StatementKinds /\ <<"expr", i, j>> \in L
                     => <<"stat", i, j>> \in L
    BY DEF StatRules
  <1>2. KindAt(s, i) = "if" /\ <<"expr", i + 1, k>> \in L
                     /\ KindAt(s, k) = "then" /\ <<"block", k + 1, j>> \in L
                     /\ KindAt(s, j) = "end"
                     => <<"stat", i, j + 1>> \in L
    BY DEF StatRules
  <1>3. KindAt(s, i) = "if" /\ <<"expr", i + 1, k>> \in L
                     /\ KindAt(s, k) = "then" /\ <<"block", k + 1, l>> \in L
                     /\ KindAt(s, l) = "else" /\ <<"block", l + 1, j>> \in L
                     /\ KindAt(s, j) = "end"
                     => <<"stat", i, j + 1>> \in L
    BY DEF StatRules
  <1> QED BY <1>1, <1>2, <1>3

LEMMA BlockRulesPass ==
    ASSUME NEW s, NEW L, NEW R, BlockRules(s, L), R \subseteq L,
           \A a, b : <<"return", a, b>> \in L => <<"return", a, b>> \in R,
           \A a, b : <<"stats", a, b>> \in L => <<"stats", a, b>> \in R,
           \A a, b : <<"block", a, b>> \in L => <<"block", a, b>> \in R
    PROVE  BlockRules(s, R)
  <1> SUFFICES ASSUME NEW i \in Places(s), NEW j \in Places(s), NEW k \in Places(s)
        PROVE /\ KindAt(s, i) = "return" /\ KindAt(s, i + 1) \in {"EOF", ";"}
                     => <<"return", i, i + 1>> \in R
              /\ KindAt(s, i) = "return" /\ <<"expr", i + 1, j>> \in R => <<"return", i, j>> \in R
              /\ <<"stats", i, i>> \in R
              /\ <<"stats", i, k>> \in R /\ k <= j /\ OnlySemicolons(s, k, j) => <<"stats", i, j>> \in R
              /\ <<"stats", i, k>> \in R /\ <<"stat", k, j>> \in R => <<"stats", i, j>> \in R
              /\ <<"stats", i, j>> \in R => <<"block", i, j>> \in R
              /\ <<"stats", i, k>> \in R /\ <<"return", k, j>> \in R => <<"block", i, j>> \in R
              /\ <<"block", i, k>> \in R /\ k <= j /\ OnlySemicolons(s, k, j) => <<"block", i, j>> \in R
    BY Zenon DEF BlockRules
  <1>1. /\ KindAt(s, i) = "return" /\ KindAt(s, i + 1) \in {"EOF", ";"}
               => <<"return", i, i + 1>> \in L
        /\ KindAt(s, i) = "return" /\ <<"expr", i + 1, j>> \in L => <<"return", i, j>> \in L
        /\ <<"stats", i, i>> \in L
        /\ <<"stats", i, k>> \in L /\ k <= j /\ OnlySemicolons(s, k, j) => <<"stats", i, j>> \in L
    BY DEF BlockRules
  <1>2. /\ <<"stats", i, k>> \in L /\ <<"stat", k, j>> \in L => <<"stats", i, j>> \in L
        /\ <<"stats", i, j>> \in L => <<"block", i, j>> \in L
        /\ <<"stats", i, k>> \in L /\ <<"return", k, j>> \in L => <<"block", i, j>> \in L
        /\ <<"block", i, k>> \in L /\ k <= j /\ OnlySemicolons(s, k, j) => <<"block", i, j>> \in L
    BY DEF BlockRules
  <1> QED BY <1>1, <1>2

LEMMA ExprInduction ==
    ASSUME NEW s, Len(s) \in Nat, NEW H, KeepsExprs(s, H),
           NEW i, NEW j, <<"expr", i, j>> \in Language(s)
    PROVE  <<i, j>> \in H
  <1> DEFINE L == Language(s)
             R == {q \in L : q[1] = "expr" => <<q[2], q[3]>> \in H}
  <1>1. ASSUME NEW a, NEW b PROVE <<"expr", a, b>> \in R <=> <<"expr", a, b>> \in L /\ <<a, b>> \in H
    OBVIOUS
  <1>2. ASSUME NEW w, w # "expr", NEW a, NEW b PROVE <<w, a, b>> \in R <=> <<w, a, b>> \in L
    BY <1>2
  <1>3. \A a, b : <<"decl", a, b>> \in L => <<"decl", a, b>> \in R BY <1>2
  <1>9. \A a, b : <<"stat", a, b>> \in L => <<"stat", a, b>> \in R BY <1>2
  <1>10. \A a, b : <<"return", a, b>> \in L => <<"return", a, b>> \in R BY <1>2
  <1>11. \A a, b : <<"stats", a, b>> \in L => <<"stats", a, b>> \in R BY <1>2
  <1>12. \A a, b : <<"block", a, b>> \in L => <<"block", a, b>> \in R BY <1>2
  <1>13. R \subseteq L OBVIOUS
  <1>4. ExprRules(s, L) /\ StatRules(s, L) /\ BlockRules(s, L)
    BY LanguageObeys DEF ObeysTheRules
  <1> HIDE DEF R, L
  <1>5. ExprRules(s, R)
    <2>1. ASSUME NEW a \in Places(s), NEW b \in Places(s), NEW c \in Places(s)
          PROVE  /\ KindAt(s, a) \in Operands => <<"expr", a, a + 1>> \in L
                 /\ KindAt(s, a) \in UnaryKinds /\ <<"expr", a + 1, b>> \in L
                       => <<"expr", a, b>> \in L
                 /\ KindAt(s, a) = "(" /\ <<"expr", a + 1, b>> \in L /\ KindAt(s, b) = ")"
                       => <<"expr", a, b + 1>> \in L
                 /\ <<"expr", a, c>> \in L /\ KindAt(s, c) \in BinaryKinds /\ <<"expr", c + 1, b>> \in L
                       => <<"expr", a, b>> \in L
      BY <1>4 DEF ExprRules
    <2> QED BY <1>1, <2>1, ZenonT(40) DEF ExprRules, KeepsExprs, L
  <1>6. StatRules(s, R) BY <1>3, <1>4, <1>9, <1>13, StatRulesPass
  <1>7. BlockRules(s, R) BY <1>4, <1>10, <1>11, <1>12, <1>13, BlockRulesPass
  <1>8. L \subseteq R BY <1>5, <1>6, <1>7, LanguageIsLeast DEF ObeysTheRules, L
  <1> QED BY <1>1, <1>8 DEF L

(* Behind an operand that ends at k, an expression that ends at j is over  *)
(* or goes on with an operator.                                            *)
Rest(s, k, j) ==
    k = j \/ (KindAt(s, k) \in BinaryKinds /\ <<"expr", k + 1, j>> \in Language(s))

ExprStarts(s, i, j) ==
    /\ KindAt(s, i) \in PrimKinds
    /\ KindAt(s, i) \in Operands => Rest(s, i + 1, j)
    /\ KindAt(s, i) \in UnaryKinds => <<"expr", i + 1, j>> \in Language(s)
    /\ KindAt(s, i) = "(" =>
           \E m \in Places(s) : /\ <<"expr", i + 1, m>> \in Language(s)
                                /\ KindAt(s, m) = ")" /\ Rest(s, m + 1, j)

LEMMA KindsDiffer ==
    /\ Operands \cap UnaryKinds = {} /\ "(" \notin Operands /\ "(" \notin UnaryKinds
    /\ PrimKinds = Operands \cup UnaryKinds \cup {"("}
    /\ Operands \cap BinaryKinds = {} /\ "(" \notin BinaryKinds
    /\ ")" \notin BinaryKinds /\ ")" \notin PrimKinds
  BY DEF Operands, LiteralKinds, UnaryKinds, PrimKinds, BinaryKinds, ComparisonKinds, FactorKinds

LEMMA RestGoesOn ==
    ASSUME NEW s, Len(s) \in Nat, NEW k, NEW m \in Places(s), NEW j \in Places(s), Rest(s, k, m),
           KindAt(s, m) \in BinaryKinds, <<"expr", m + 1, j>> \in Language(s)
    PROVE  Rest(s, k, j)
  <1>1. CASE k = m BY <1>1 DEF Rest
  <1>2. CASE <<"expr", k + 1, m>> \in Language(s) /\ KindAt(s, k) \in BinaryKinds
    <2>1. k + 1 \in Places(s) BY <1>2, PlacesOfPhrases
    <2>2. <<"expr", k + 1, j>> \in Language(s)
      BY <1>2, <2>1, LanguageObeysExpr DEF ExprRules
    <2> QED BY <1>2, <2>2 DEF Rest
  <1> QED BY <1>1, <1>2 DEF Rest

LEMMA ExpressionsStart ==
    ASSUME NEW s, Len(s) \in Nat, NEW i, NEW j, <<"expr", i, j>> \in Language(s)
    PROVE  ExprStarts(s, i, j)
  <1> DEFINE L == Language(s)
             H == {p \in Places(s) \X Places(s) : ExprStarts(s, p[1], p[2])}
  <1>0. ASSUME NEW a, NEW b
        PROVE  <<a, b>> \in H <=> a \in Places(s) /\ b \in Places(s) /\ ExprStarts(s, a, b)
    OBVIOUS
  <1> HIDE DEF H
  <1> SUFFICES ASSUME NEW a \in Places(s), NEW b \in Places(s), NEW c \in Places(s)
        PROVE /\ KindAt(s, a) \in Operands => <<a, a + 1>> \in H
              /\ KindAt(s, a) \in UnaryKinds /\ <<"expr", a + 1, b>> \in L
                     /\ <<a + 1, b>> \in H
                     => <<a, b>> \in H
              /\ KindAt(s, a) = "(" /\ <<"expr", a + 1, b>> \in L /\ KindAt(s, b) = ")"
                     /\ <<a + 1, b>> \in H
                     => <<a, b + 1>> \in H
              /\ <<"expr", a, c>> \in L /\ KindAt(s, c) \in BinaryKinds
                     /\ <<"expr", c + 1, b>> \in L
                     /\ <<a, c>> \in H /\ <<c + 1, b>> \in H
                     => <<a, b>> \in H
    <2>1. KeepsExprs(s, H) BY DEF KeepsExprs
    <2>2. <<i, j>> \in H BY <2>1, ExprInduction
    <2> QED BY <1>0, <2>2
  <1>1. ASSUME KindAt(s, a) \in Operands PROVE <<a, a + 1>> \in H
    <2>1. a + 1 \in Places(s) BY <1>1, KindsAreNotTheEnd, NotAtTheEnd
    <2>2. ExprStarts(s, a, a + 1) BY <1>1, KindsDiffer DEF ExprStarts, Rest
    <2> QED BY <1>0, <2>1, <2>2
  <1>2. ASSUME KindAt(s, a) \in UnaryKinds, <<"expr", a + 1, b>> \in L PROVE <<a, b>> \in H
    <2>1. ExprStarts(s, a, b) BY <1>2, KindsDiffer DEF ExprStarts
    <2> QED BY <1>0, <2>1
  <1>3. ASSUME KindAt(s, a) = "(", <<"expr", a + 1, b>> \in L, KindAt(s, b) = ")"
        PROVE  <<a, b + 1>> \in H
    <2>1. b + 1 \in Places(s) BY <1>3, NotAtTheEnd
    <2>2. Rest(s, b + 1, b + 1) BY DEF Rest
    <2>3. ExprStarts(s, a, b + 1) BY <1>3, <2>2, KindsDiffer DEF ExprStarts
    <2> QED BY <1>0, <2>1, <2>3
  <1>4. ASSUME <<"expr", a, c>> \in L, KindAt(s, c) \in BinaryKinds, <<"expr", c + 1, b>> \in L,
               <<a, c>> \in H
        PROVE  <<a, b>> \in H
    <2>1. ExprStarts(s, a, c) BY <1>0, <1>4
    <2>2. KindAt(s, a) \in Operands => Rest(s, a + 1, b)
      BY <1>4, <2>1, RestGoesOn DEF ExprStarts
    <2>3. ASSUME KindAt(s, a) \in UnaryKinds PROVE <<"expr", a + 1, b>> \in L
      <3>1. <<"expr", a + 1, c>> \in L BY <2>1, <2>3 DEF ExprStarts
      <3>2. a + 1 \in Places(s) BY <3>1, PlacesOfPhrases
      <3> QED BY <1>4, <3>1, <3>2, LanguageObeysExpr DEF ExprRules
    <2>4. ASSUME KindAt(s, a) = "("
          PROVE  \E m \in Places(s) : /\ <<"expr", a + 1, m>> \in L
                                      /\ KindAt(s, m) = ")" /\ Rest(s, m + 1, b)
      <3>1. PICK m \in Places(s) :
                <<"expr", a + 1, m>> \in L /\ KindAt(s, m) = ")" /\ Rest(s, m + 1, c)
        BY <2>1, <2>4 DEF ExprStarts
      <3>2. Rest(s, m + 1, b) BY <1>4, <3>1, RestGoesOn
      <3> QED BY <3>1, <3>2
    <2>5. ExprStarts(s, a, b) BY <2>1, <2>2, <2>3, <2>4 DEF ExprStarts
    <2> QED BY <1>0, <2>5
  <1> QED BY <1>1, <1>2, <1>3, <1>4

----------------------------------------------------------------------------
(* What a row of statements, and a block, begins with.                     *)
StatsStarts(s, i, j) ==
    \/ i = j
    \/ KindAt(s, i) = ";" /\ <<"stats", i + 1, j>> \in Language(s)
    \/ \E k \in Places(s) : <<"stat", i, k>> \in Language(s) /\ <<"stats", k, j>> \in Language(s)

BlockStarts(s, i, j) ==
    \/ i = j
    \/ KindAt(s, i) = ";" /\ <<"block", i + 1, j>> \in Language(s)
    \/ \E k \in Places(s) : <<"stat", i, k>> \in Language(s) /\ <<"block", k, j>> \in Language(s)
    \/ \E k \in Places(s) : <<"return", i, k>> \in Language(s) /\ OnlySemicolons(s, k, j) /\ k <= j

LEMMA SemicolonsFollow ==
    ASSUME NEW s, Len(s) \in Nat, NEW i \in Places(s), NEW j \in Places(s), i < j,
           OnlySemicolons(s, i, j)
    PROVE  /\ KindAt(s, i) = ";" /\ i + 1 \in Places(s) /\ i + 1 <= j
           /\ OnlySemicolons(s, i + 1, j)
  <1>1. i \in Nat /\ j \in Nat /\ j <= Len(s) + 1 /\ i >= 1 BY DEF Places
  <1>2. i \in i..(j - 1) /\ i + 1 \in 1..(Len(s) + 1) BY <1>1
  <1>3. \A k \in (i + 1)..(j - 1) : k \in i..(j - 1) BY <1>1
  <1>4. i + 1 \in Places(s) /\ i + 1 <= j BY <1>1, <1>2 DEF Places
  <1>5. KindAt(s, i) = ";" BY <1>2 DEF OnlySemicolons
  <1>6. OnlySemicolons(s, i + 1, j) BY <1>3 DEF OnlySemicolons
  <1> QED BY <1>4, <1>5, <1>6

LEMMA SemicolonsJoin ==
    ASSUME NEW s, Len(s) \in Nat, NEW i \in Places(s), NEW k \in Places(s), NEW j \in Places(s),
           OnlySemicolons(s, i, k), OnlySemicolons(s, k, j)
    PROVE  OnlySemicolons(s, i, j)
  <1>1. i \in Nat /\ j \in Nat /\ k \in Nat BY DEF Places
  <1>2. \A m \in i..(j - 1) : m \in i..(k - 1) \/ m \in k..(j - 1) BY <1>1
  <1> QED BY <1>2 DEF OnlySemicolons

(* Statements may be added at the end.                                     *)
LEMMA StatsGoOn ==
    ASSUME NEW s, Len(s) \in Nat, NEW i, NEW k, NEW j, StatsStarts(s, i, k), i <= k, k <= j,
           i \in Places(s), j \in Places(s), k \in Places(s),
           \/ OnlySemicolons(s, k, j)
           \/ <<"stat", k, j>> \in Language(s)
    PROVE  StatsStarts(s, i, j)
  <1> DEFINE L == Language(s)
  <1>1. i \in Nat /\ j \in Nat /\ k \in Nat BY DEF Places
  <1>2. BlockRules(s, L) BY LanguageObeysBlock
  <1>3. ASSUME NEW a, <<"stats", a, k>> \in L PROVE <<"stats", a, j>> \in L
    <2>1. a \in Places(s) BY <1>3, PlacesOfPhrases
    <2> QED BY <1>2, <1>3, <2>1 DEF BlockRules
  <1>4. \A a \in Places(s) : <<"stats", a, a>> \in L BY <1>2 DEF BlockRules
  <1>5. CASE i = k /\ OnlySemicolons(s, k, j)
    <2>1. CASE i = j BY <2>1 DEF StatsStarts
    <2>2. CASE i # j
      <3>1. i < j BY <1>1, <1>5, <2>2
      <3>2. KindAt(s, i) = ";" /\ i + 1 \in Places(s) /\ i + 1 <= j /\ OnlySemicolons(s, i + 1, j)
        BY <1>5, <3>1, SemicolonsFollow
      <3>3. <<"stats", i + 1, j>> \in L BY <1>2, <1>4, <3>2 DEF BlockRules
      <3> QED BY <3>2, <3>3 DEF StatsStarts
    <2> QED BY <2>1, <2>2
  <1>6. CASE i = k /\ <<"stat", k, j>> \in L BY <1>4, <1>6 DEF StatsStarts
  <1>7. CASE KindAt(s, i) = ";" /\ <<"stats", i + 1, k>> \in L BY <1>3, <1>7 DEF StatsStarts
  <1>8. CASE \E m \in Places(s) : <<"stat", i, m>> \in L /\ <<"stats", m, k>> \in L
    BY <1>3, <1>8 DEF StatsStarts
  <1> QED BY <1>5, <1>6, <1>7, <1>8 DEF StatsStarts

LEMMA RowsStart ==
    ASSUME NEW s, Len(s) \in Nat, NEW i, NEW j, <<"stats", i, j>> \in Language(s)
    PROVE  StatsStarts(s, i, j)
  <1> DEFINE L == Language(s)
             R == {q \in L : q[1] = "stats" => StatsStarts(s, q[2], q[3])}
  <1>1. \A a, b : <<"stats", a, b>> \in R <=> <<"stats", a, b>> \in L /\ StatsStarts(s, a, b)
    OBVIOUS
  <1>2. ASSUME NEW w, w # "stats", NEW a, NEW b PROVE <<w, a, b>> \in L => <<w, a, b>> \in R
    BY <1>2
  <1>3. \A a, b : <<"decl", a, b>> \in L => <<"decl", a, b>> \in R BY <1>2
  <1>4. \A a, b : <<"stat", a, b>> \in L => <<"stat", a, b>> \in R BY <1>2
  <1>5. \A a, b : <<"return", a, b>> \in L => <<"return", a, b>> \in R BY <1>2
  <1>6. \A a, b : <<"block", a, b>> \in L => <<"block", a, b>> \in R BY <1>2
  <1>7. \A a, b : <<"expr", a, b>> \in L => <<"expr", a, b>> \in R BY <1>2
  <1>8. R \subseteq L OBVIOUS
  <1>9. ExprRules(s, L) /\ StatRules(s, L) /\ BlockRules(s, L)
    BY LanguageObeys DEF ObeysTheRules
  <1> HIDE DEF L, R
  <1>10. ExprRules(s, R) BY <1>7, <1>8, <1>9 DEF ExprRules
  <1>11. StatRules(s, R) BY <1>3, <1>4, <1>8, <1>9, StatRulesPass
  <1>12. BlockRules(s, R)
    <2> SUFFICES ASSUME NEW a \in Places(s), NEW b \in Places(s), NEW c \in Places(s)
          PROVE /\ KindAt(s, a) = "return" /\ KindAt(s, a + 1) \in {"EOF", ";"}
                      => <<"return", a, a + 1>> \in R
                /\ KindAt(s, a) = "return" /\ <<"expr", a + 1, b>> \in R => <<"return", a, b>> \in R
                /\ <<"stats", a, a>> \in R
                /\ <<"stats", a, c>> \in R /\ c <= b /\ OnlySemicolons(s, c, b) => <<"stats", a, b>> \in R
                /\ <<"stats", a, c>> \in R /\ <<"stat", c, b>> \in R => <<"stats", a, b>> \in R
                /\ <<"stats", a, b>> \in R => <<"block", a, b>> \in R
                /\ <<"stats", a, c>> \in R /\ <<"return", c, b>> \in R => <<"block", a, b>> \in R
                /\ <<"block", a, c>> \in R /\ c <= b /\ OnlySemicolons(s, c, b) => <<"block", a, b>> \in R
      BY Zenon DEF BlockRules
    <2>1. /\ KindAt(s, a) = "return" /\ KindAt(s, a + 1) \in {"EOF", ";"}
                 => <<"return", a, a + 1>> \in L
          /\ KindAt(s, a) = "return" /\ <<"expr", a + 1, b>> \in L => <<"return", a, b>> \in L
          /\ <<"stats", a, a>> \in L
          /\ <<"stats", a, c>> \in L /\ c <= b /\ OnlySemicolons(s, c, b) => <<"stats", a, b>> \in L
      BY <1>9 DEF BlockRules
    <2>2. /\ <<"stats", a, c>> \in L /\ <<"stat", c, b>> \in L => <<"stats", a, b>> \in L
          /\ <<"stats", a, b>> \in L => <<"block", a, b>> \in L
          /\ <<"stats", a, c>> \in L /\ <<"return", c, b>> \in L => <<"block", a, b>> \in L
          /\ <<"block", a, c>> \in L /\ c <= b /\ OnlySemicolons(s, c, b) => <<"block", a, b>> \in L
      BY <1>9 DEF BlockRules
    <2>3. <<"stats", a, a>> \in R BY <1>1, <2>1 DEF StatsStarts
    <2>4. ASSUME <<"stats", a, c>> \in R, c <= b, OnlySemicolons(s, c, b)
          PROVE  <<"stats", a, b>> \in R
      <3>1. <<"stats", a, c>> \in L /\ StatsStarts(s, a, c) BY <1>1, <2>4
      <3>2. a <= c BY <3>1, StatsConsists DEF L
      <3>3. StatsStarts(s, a, b) BY <2>4, <3>1, <3>2, StatsGoOn
      <3> QED BY <1>1, <2>1, <2>4, <3>1, <3>3
    <2>5. ASSUME <<"stats", a, c>> \in R, <<"stat", c, b>> \in R
          PROVE  <<"stats", a, b>> \in R
      <3>1. <<"stats", a, c>> \in L /\ StatsStarts(s, a, c) /\ <<"stat", c, b>> \in L
        BY <1>1, <1>8, <2>5
      <3>2. a <= c BY <3>1, StatsConsists DEF L
      <3>3. c < b BY <3>1, StatConsists DEF L
      <3>4. c <= b BY <3>3 DEF Places
      <3>5. StatsStarts(s, a, b) BY <3>1, <3>2, <3>4, StatsGoOn DEF L
      <3> QED BY <1>1, <2>2, <3>1, <3>5
    <2> QED BY <1>5, <1>6, <1>8, <2>1, <2>2, <2>3, <2>4, <2>5
  <1>13. L \subseteq R BY <1>10, <1>11, <1>12, LanguageIsLeast DEF ObeysTheRules, L
  <1> QED BY <1>1, <1>13 DEF L

LEMMA BlockGoesOnToStart ==
    ASSUME NEW s, Len(s) \in Nat, NEW i, NEW k, NEW j, BlockStarts(s, i, k), i <= k, k <= j,
           i \in Places(s), j \in Places(s), k \in Places(s), OnlySemicolons(s, k, j)
    PROVE  BlockStarts(s, i, j)
  <1> DEFINE L == Language(s)
  <1>1. i \in Nat /\ j \in Nat /\ k \in Nat BY DEF Places
  <1>2. BlockRules(s, L) BY LanguageObeysBlock
  <1>3. ASSUME NEW a, <<"block", a, k>> \in L PROVE <<"block", a, j>> \in L
    <2>1. a \in Places(s) BY <1>3, PlacesOfPhrases
    <2> QED BY <1>2, <1>3, <2>1 DEF BlockRules
  <1>4. CASE i = k
    <2>1. CASE i = j BY <2>1 DEF BlockStarts
    <2>2. CASE i # j
      <3>1. i < j BY <1>1, <1>4, <2>2
      <3>2. KindAt(s, i) = ";" /\ i + 1 \in Places(s) /\ i + 1 <= j /\ OnlySemicolons(s, i + 1, j)
        BY <1>4, <3>1, SemicolonsFollow
      <3>3. <<"stats", i + 1, i + 1>> \in L BY <1>2, <3>2 DEF BlockRules
      <3>4. <<"block", i + 1, i + 1>> \in L BY <1>2, <3>2, <3>3 DEF BlockRules
      <3>5. <<"block", i + 1, j>> \in L BY <1>2, <3>2, <3>4 DEF BlockRules
      <3> QED BY <3>2, <3>5 DEF BlockStarts
    <2> QED BY <2>1, <2>2
  <1>5. CASE KindAt(s, i) = ";" /\ <<"block", i + 1, k>> \in L BY <1>3, <1>5 DEF BlockStarts
  <1>6. CASE \E m \in Places(s) : <<"stat", i, m>> \in L /\ <<"block", m, k>> \in L
    BY <1>3, <1>6 DEF BlockStarts
  <1>7. CASE \E m \in Places(s) :
                 <<"return", i, m>> \in L /\ OnlySemicolons(s, m, k) /\ m <= k
    <2>1. PICK m \in Places(s) : <<"return", i, m>> \in L /\ OnlySemicolons(s, m, k) /\ m <= k
      BY <1>7
    <2>2. OnlySemicolons(s, m, j) /\ m <= j
      <3>1. m \in Nat BY DEF Places
      <3> QED BY <1>1, <2>1, <3>1, SemicolonsJoin
    <2> QED BY <2>1, <2>2 DEF BlockStarts
  <1> QED BY <1>4, <1>5, <1>6, <1>7 DEF BlockStarts

LEMMA BlocksStart ==
    ASSUME NEW s, Len(s) \in Nat, NEW i, NEW j, <<"block", i, j>> \in Language(s)
    PROVE  BlockStarts(s, i, j)
  <1> DEFINE L == Language(s)
             R == {q \in L : q[1] = "block" => BlockStarts(s, q[2], q[3])}
  <1>1. \A a, b : <<"block", a, b>> \in R <=> <<"block", a, b>> \in L /\ BlockStarts(s, a, b)
    OBVIOUS
  <1>2. ASSUME NEW w, w # "block", NEW a, NEW b PROVE <<w, a, b>> \in L => <<w, a, b>> \in R
    BY <1>2
  <1>3. \A a, b : <<"decl", a, b>> \in L => <<"decl", a, b>> \in R BY <1>2
  <1>4. \A a, b : <<"stat", a, b>> \in L => <<"stat", a, b>> \in R BY <1>2
  <1>5. \A a, b : <<"return", a, b>> \in L => <<"return", a, b>> \in R BY <1>2
  <1>6. \A a, b : <<"stats", a, b>> \in L => <<"stats", a, b>> \in R BY <1>2
  <1>7. \A a, b : <<"expr", a, b>> \in L => <<"expr", a, b>> \in R BY <1>2
  <1>8. R \subseteq L OBVIOUS
  <1>9. ExprRules(s, L) /\ StatRules(s, L) /\ BlockRules(s, L)
    BY LanguageObeys DEF ObeysTheRules
  <1> HIDE DEF L, R
  <1>10. ExprRules(s, R) BY <1>7, <1>8, <1>9 DEF ExprRules
  <1>11. StatRules(s, R) BY <1>3, <1>4, <1>8, <1>9, StatRulesPass
  <1>12. BlockRules(s, R)
    <2> SUFFICES ASSUME NEW a \in Places(s), NEW b \in Places(s), NEW c \in Places(s)
          PROVE /\ KindAt(s, a) = "return" /\ KindAt(s, a + 1) \in {"EOF", ";"}
                      => <<"return", a, a + 1>> \in R
                /\ KindAt(s, a) = "return" /\ <<"expr", a + 1, b>> \in R => <<"return", a, b>> \in R
                /\ <<"stats", a, a>> \in R
                /\ <<"stats", a, c>> \in R /\ c <= b /\ OnlySemicolons(s, c, b) => <<"stats", a, b>> \in R
                /\ <<"stats", a, c>> \in R /\ <<"stat", c, b>> \in R => <<"stats", a, b>> \in R
                /\ <<"stats", a, b>> \in R => <<"block", a, b>> \in R
                /\ <<"stats", a, c>> \in R /\ <<"return", c, b>> \in R => <<"block", a, b>> \in R
                /\ <<"block", a, c>> \in R /\ c <= b /\ OnlySemicolons(s, c, b) => <<"block", a, b>> \in R
      BY Zenon DEF BlockRules
    <2>1. /\ KindAt(s, a) = "return" /\ KindAt(s, a + 1) \in {"EOF", ";"}
                 => <<"return", a, a + 1>> \in L
          /\ KindAt(s, a) = "return" /\ <<"expr", a + 1, b>> \in L => <<"return", a, b>> \in L
          /\ <<"stats", a, a>> \in L
          /\ <<"stats", a, c>> \in L /\ c <= b /\ OnlySemicolons(s, c, b) => <<"stats", a, b>> \in L
      BY <1>9 DEF BlockRules
    <2>2. /\ <<"stats", a, c>> \in L /\ <<"stat", c, b>> \in L => <<"stats", a, b>> \in L
          /\ <<"stats", a, b>> \in L => <<"block", a, b>> \in L
          /\ <<"stats", a, c>> \in L /\ <<"return", c, b>> \in L => <<"block", a, b>> \in L
          /\ <<"block", a, c>> \in L /\ c <= b /\ OnlySemicolons(s, c, b) => <<"block", a, b>> \in L
      BY <1>9 DEF BlockRules
    <2>3. \A d \in Places(s), e \in Places(s) : <<"stats", d, e>> \in L => <<"block", d, e>> \in L
      BY <1>9 DEF BlockRules
    <2>4. ASSUME NEW d \in Places(s), NEW e \in Places(s), StatsStarts(s, d, e)
          PROVE  BlockStarts(s, d, e)
      <3>1. \A m : <<"stats", m, e>> \in L => m \in Places(s) BY PlacesOfPhrases DEF L
      <3> QED BY <2>3, <2>4, <3>1 DEF StatsStarts, BlockStarts, L
    <2>5. ASSUME <<"stats", a, b>> \in R PROVE <<"block", a, b>> \in R
      <3>1. StatsStarts(s, a, b) BY <1>8, <2>5, RowsStart DEF L
      <3> QED BY <1>1, <1>8, <2>3, <2>4, <2>5, <3>1
    <2>6. ASSUME <<"stats", a, c>> \in R, <<"return", c, b>> \in R
          PROVE  <<"block", a, b>> \in R
      <3>1. <<"stats", a, c>> \in L /\ <<"return", c, b>> \in L BY <1>8, <2>6
      <3>2. StatsStarts(s, a, c) BY <3>1, RowsStart DEF L
      <3>3. \A d : <<"stats", d, c>> \in L => d \in Places(s) /\ <<"block", d, b>> \in L
        <4>1. \A d : <<"stats", d, c>> \in L => d \in Places(s) BY PlacesOfPhrases DEF L
        <4> QED BY <1>9, <3>1, <4>1 DEF BlockRules
      <3>4. OnlySemicolons(s, b, b) /\ b <= b
        <4>1. b \in Nat BY DEF Places
        <4>2. b <= b /\ \A m \in b..(b - 1) : FALSE BY <4>1
        <4> QED BY <4>2 DEF OnlySemicolons
      <3>5. BlockStarts(s, a, b)
        <4>1. CASE a = c BY <3>1, <3>4, <4>1 DEF BlockStarts, L
        <4>2. CASE KindAt(s, a) = ";" /\ <<"stats", a + 1, c>> \in L
          BY <3>3, <4>2 DEF BlockStarts, L
        <4>3. CASE \E m \in Places(s) : <<"stat", a, m>> \in L /\ <<"stats", m, c>> \in L
          BY <3>3, <4>3 DEF BlockStarts, L
        <4> QED BY <3>2, <4>1, <4>2, <4>3 DEF StatsStarts, L
      <3> QED BY <1>1, <3>1, <3>3, <3>5
    <2>7. ASSUME <<"block", a, c>> \in R, c <= b, OnlySemicolons(s, c, b)
          PROVE  <<"block", a, b>> \in R
      <3>1. <<"block", a, c>> \in L /\ BlockStarts(s, a, c) BY <1>1, <2>7
      <3>2. a <= c BY <3>1, BlockConsists DEF L
      <3>3. BlockStarts(s, a, b) BY <2>7, <3>1, <3>2, BlockGoesOnToStart
      <3> QED BY <1>1, <2>2, <2>7, <3>1, <3>3
    <2> QED BY <1>5, <1>6, <1>8, <2>1, <2>2, <2>5, <2>6, <2>7
  <1>13. L \subseteq R BY <1>10, <1>11, <1>12, LanguageIsLeast DEF ObeysTheRules, L
  <1> QED BY <1>1, <1>13 DEF L

----------------------------------------------------------------------------
(* No phrase has a token that the lexer throws at.                         *)
Clean(s, i, j) == \A k \in i..(j - 1) : KindAt(s, k) # "Bad"

LEMMA CleanParts ==
    ASSUME NEW s
    PROVE  /\ \A i \in Int : KindAt(s, i) # "Bad" => Clean(s, i, i + 1)
           /\ \A i \in Int : Clean(s, i, i)
           /\ \A i, j : OnlySemicolons(s, i, j) => Clean(s, i, j)
           /\ \A i, j, k \in Int : Clean(s, i, k) /\ Clean(s, k, j) => Clean(s, i, j)
  <1>1. ASSUME NEW i \in Int, KindAt(s, i) # "Bad" PROVE Clean(s, i, i + 1)
    <2>1. \A k \in i..(i + 1 - 1) : k = i OBVIOUS
    <2> QED BY <1>1, <2>1 DEF Clean
  <1>2. ASSUME NEW i \in Int PROVE Clean(s, i, i)
    <2>1. \A k \in i..(i - 1) : FALSE OBVIOUS
    <2> QED BY <2>1 DEF Clean
  <1>3. ASSUME NEW i \in Int, NEW j \in Int, NEW k \in Int, Clean(s, i, k), Clean(s, k, j)
        PROVE  Clean(s, i, j)
    <2>1. \A m \in i..(j - 1) : m \in i..(k - 1) \/ m \in k..(j - 1) OBVIOUS
    <2> QED BY <1>3, <2>1 DEF Clean
  <1>4. \A i, j : OnlySemicolons(s, i, j) => Clean(s, i, j) BY DEF OnlySemicolons, Clean
  <1> QED BY <1>1, <1>2, <1>3, <1>4

LEMMA PhrasesAreClean ==
    ASSUME NEW s, Len(s) \in Nat, NEW w, NEW i, NEW j, <<w, i, j>> \in Language(s)
    PROVE  Clean(s, i, j)
  <1> DEFINE L == Language(s)
             R == {q \in L : Clean(s, q[2], q[3])}
  <1>1. \A v, a, b : <<v, a, b>> \in R <=> <<v, a, b>> \in L /\ Clean(s, a, b) OBVIOUS
  <1>2. ExprRules(s, L) /\ StatRules(s, L) /\ BlockRules(s, L)
    BY LanguageObeys DEF ObeysTheRules
  <1>3. Places(s) \subseteq Int BY DEF Places
  <1>4. /\ \A a \in Int : KindAt(s, a) # "Bad" => Clean(s, a, a + 1)
        /\ \A a \in Int : Clean(s, a, a)
        /\ \A a, b : OnlySemicolons(s, a, b) => Clean(s, a, b)
        /\ \A a, b, c \in Int : Clean(s, a, c) /\ Clean(s, c, b) => Clean(s, a, b)
    BY CleanParts
  <1>5. "Bad" \notin Operands /\ "Bad" \notin UnaryKinds /\ "Bad" \notin BinaryKinds
    BY DEF Operands, LiteralKinds, UnaryKinds, BinaryKinds, ComparisonKinds, FactorKinds
  <1> HIDE DEF L, R
  <1>6. ExprRules(s, R)
    <2> SUFFICES ASSUME NEW a \in Places(s), NEW b \in Places(s), NEW c \in Places(s)
          PROVE /\ KindAt(s, a) \in Operands => <<"expr", a, a + 1>> \in R
                /\ KindAt(s, a) \in UnaryKinds /\ <<"expr", a + 1, b>> \in R => <<"expr", a, b>> \in R
                /\ KindAt(s, a) = "(" /\ <<"expr", a + 1, b>> \in R /\ KindAt(s, b) = ")"
                       => <<"expr", a, b + 1>> \in R
                /\ <<"expr", a, c>> \in R /\ KindAt(s, c) \in BinaryKinds
                       /\ <<"expr", c + 1, b>> \in R
                       => <<"expr", a, b>> \in R
      BY Zenon DEF ExprRules
    <2>1. /\ KindAt(s, a) \in Operands => <<"expr", a, a + 1>> \in L
          /\ KindAt(s, a) \in UnaryKinds /\ <<"expr", a + 1, b>> \in L => <<"expr", a, b>> \in L
          /\ KindAt(s, a) = "(" /\ <<"expr", a + 1, b>> \in L /\ KindAt(s, b) = ")"
                 => <<"expr", a, b + 1>> \in L
          /\ <<"expr", a, c>> \in L /\ KindAt(s, c) \in BinaryKinds
                 /\ <<"expr", c + 1, b>> \in L
                 => <<"expr", a, b>> \in L
      BY <1>2 DEF ExprRules
    <2>2. a \in Int /\ b \in Int /\ c \in Int /\ a + 1 \in Int /\ b + 1 \in Int /\ c + 1 \in Int
      BY <1>3
    <2>3. KindAt(s, a) \in Operands => <<"expr", a, a + 1>> \in R BY <1>1, <1>4, <1>5, <2>1, <2>2
    <2>4. KindAt(s, a) \in UnaryKinds /\ <<"expr", a + 1, b>> \in R => <<"expr", a, b>> \in R
      BY <1>1, <1>4, <1>5, <2>1, <2>2
    <2>5. KindAt(s, a) = "(" /\ <<"expr", a + 1, b>> \in R /\ KindAt(s, b) = ")"
              => <<"expr", a, b + 1>> \in R
      BY <1>1, <1>4, <2>1, <2>2
    <2>6. <<"expr", a, c>> \in R /\ KindAt(s, c) \in BinaryKinds /\ <<"expr", c + 1, b>> \in R
              => <<"expr", a, b>> \in R
      BY <1>1, <1>4, <1>5, <2>1, <2>2
    <2> QED BY <2>3, <2>4, <2>5, <2>6
  <1>7. StatRules(s, R)
    <2> SUFFICES ASSUME NEW a \in Places(s), NEW b \in Places(s), NEW c \in Places(s), NEW d \in Places(s)
          PROVE /\ KindAt(s, a) = "Name" => <<"decl", a, a + 1>> \in R
                /\ KindAt(s, a) = "Name" /\ KindAt(s, a + 1) = "=" /\ <<"expr", a + 2, b>> \in R
                       => <<"decl", a, b>> \in R
                /\ <<"decl", a, b>> \in R => <<"stat", a, b>> \in R
                /\ KindAt(s, a) = "local" /\ <<"decl", a + 1, b>> \in R => <<"stat", a, b>> \in R
                /\ KindAt(s, a) \notin StatementKinds /\ <<"expr", a, b>> \in R
                       => <<"stat", a, b>> \in R
                /\ KindAt(s, a) = "if" /\ <<"expr", a + 1, c>> \in R
                       /\ KindAt(s, c) = "then" /\ <<"block", c + 1, b>> \in R
                       /\ KindAt(s, b) = "end"
                       => <<"stat", a, b + 1>> \in R
                /\ KindAt(s, a) = "if" /\ <<"expr", a + 1, c>> \in R
                       /\ KindAt(s, c) = "then" /\ <<"block", c + 1, d>> \in R
                       /\ KindAt(s, d) = "else" /\ <<"block", d + 1, b>> \in R
                       /\ KindAt(s, b) = "end"
                       => <<"stat", a, b + 1>> \in R
      BY Zenon DEF StatRules
    <2>1. /\ KindAt(s, a) = "Name" => <<"decl", a, a + 1>> \in L
          /\ KindAt(s, a) = "Name" /\ KindAt(s, a + 1) = "=" /\ <<"expr", a + 2, b>> \in L
                 => <<"decl", a, b>> \in L
          /\ <<"decl", a, b>> \in L => <<"stat", a, b>> \in L
          /\ KindAt(s, a) = "local" /\ <<"decl", a + 1, b>> \in L => <<"stat", a, b>> \in L
          /\ KindAt(s, a) \notin StatementKinds /\ <<"expr", a, b>> \in L
                 => <<"stat", a, b>> \in L
      BY <1>2 DEF StatRules
    <2>2. /\ KindAt(s, a) = "if" /\ <<"expr", a + 1, c>> \in L
                 /\ KindAt(s, c) = "then" /\ <<"block", c + 1, b>> \in L
                 /\ KindAt(s, b) = "end"
                 => <<"stat", a, b + 1>> \in L
      BY <1>2 DEF StatRules
    <2>3. /\ KindAt(s, a) = "if" /\ <<"expr", a + 1, c>> \in L
                 /\ KindAt(s, c) = "then" /\ <<"block", c + 1, d>> \in L
                 /\ KindAt(s, d) = "else" /\ <<"block", d + 1, b>> \in L
                 /\ KindAt(s, b) = "end"
                 => <<"stat", a, b + 1>> \in L
      BY <1>2 DEF StatRules
    <2>4. /\ a \in Int /\ b \in Int /\ c \in Int /\ d \in Int /\ a + 1 \in Int /\ a + 2 \in Int
          /\ b + 1 \in Int /\ c + 1 \in Int /\ d + 1 \in Int /\ a + 1 + 1 = a + 2
      BY <1>3
    <2>5. KindAt(s, a) = "Name" => <<"decl", a, a + 1>> \in R BY <1>1, <1>4, <2>1, <2>4
    <2>6. ASSUME KindAt(s, a) = "Name", KindAt(s, a + 1) = "=", <<"expr", a + 2, b>> \in R
          PROVE  <<"decl", a, b>> \in R
      <3>1. Clean(s, a, a + 1) /\ Clean(s, a + 1, a + 2) BY <1>4, <2>4, <2>6
      <3>2. Clean(s, a, b) BY <1>1, <1>4, <2>4, <2>6, <3>1
      <3> QED BY <1>1, <2>1, <2>6, <3>2
    <2>7. <<"decl", a, b>> \in R => <<"stat", a, b>> \in R BY <1>1, <2>1
    <2>8. KindAt(s, a) = "local" /\ <<"decl", a + 1, b>> \in R => <<"stat", a, b>> \in R
      BY <1>1, <1>4, <2>1, <2>4
    <2>9. KindAt(s, a) \notin StatementKinds /\ <<"expr", a, b>> \in R => <<"stat", a, b>> \in R
      BY <1>1, <2>1
    <2>10. ASSUME KindAt(s, a) = "if", <<"expr", a + 1, c>> \in R, KindAt(s, c) = "then"
           PROVE  Clean(s, a, c + 1)
      BY <1>1, <1>4, <2>4, <2>10
    <2>11. ASSUME KindAt(s, a) = "if", <<"expr", a + 1, c>> \in R, KindAt(s, c) = "then",
                  <<"block", c + 1, b>> \in R, KindAt(s, b) = "end"
           PROVE  <<"stat", a, b + 1>> \in R
      <3>1. Clean(s, a, c + 1) /\ Clean(s, c + 1, b) /\ Clean(s, b, b + 1)
        BY <1>1, <1>4, <2>4, <2>10, <2>11
      <3>2. Clean(s, a, b + 1) BY <1>4, <2>4, <3>1
      <3> QED BY <1>1, <2>2, <2>11, <3>2
    <2>12. ASSUME KindAt(s, a) = "if", <<"expr", a + 1, c>> \in R, KindAt(s, c) = "then",
                  <<"block", c + 1, d>> \in R, KindAt(s, d) = "else",
                  <<"block", d + 1, b>> \in R, KindAt(s, b) = "end"
           PROVE  <<"stat", a, b + 1>> \in R
      <3>1. /\ Clean(s, a, c + 1) /\ Clean(s, c + 1, d) /\ Clean(s, d, d + 1)
            /\ Clean(s, d + 1, b) /\ Clean(s, b, b + 1)
        BY <1>1, <1>4, <2>4, <2>10, <2>12
      <3>2. Clean(s, a, d) BY <1>4, <2>4, <3>1
      <3>3. Clean(s, d, b) BY <1>4, <2>4, <3>1
      <3>4. Clean(s, a, b + 1) BY <1>4, <2>4, <3>1, <3>2, <3>3
      <3> QED BY <1>1, <2>3, <2>12, <3>4
    <2> QED BY <2>5, <2>6, <2>7, <2>8, <2>9, <2>11, <2>12
  <1>8. BlockRules(s, R)
    <2> SUFFICES ASSUME NEW a \in Places(s), NEW b \in Places(s), NEW c \in Places(s)
          PROVE /\ KindAt(s, a) = "return" /\ KindAt(s, a + 1) \in {"EOF", ";"}
                      => <<"return", a, a + 1>> \in R
                /\ KindAt(s, a) = "return" /\ <<"expr", a + 1, b>> \in R => <<"return", a, b>> \in R
                /\ <<"stats", a, a>> \in R
                /\ <<"stats", a, c>> \in R /\ c <= b /\ OnlySemicolons(s, c, b) => <<"stats", a, b>> \in R
                /\ <<"stats", a, c>> \in R /\ <<"stat", c, b>> \in R => <<"stats", a, b>> \in R
                /\ <<"stats", a, b>> \in R => <<"block", a, b>> \in R
                /\ <<"stats", a, c>> \in R /\ <<"return", c, b>> \in R => <<"block", a, b>> \in R
                /\ <<"block", a, c>> \in R /\ c <= b /\ OnlySemicolons(s, c, b) => <<"block", a, b>> \in R
      BY Zenon DEF BlockRules
    <2>1. /\ KindAt(s, a) = "return" /\ KindAt(s, a + 1) \in {"EOF", ";"}
                 => <<"return", a, a + 1>> \in L
          /\ KindAt(s, a) = "return" /\ <<"expr", a + 1, b>> \in L => <<"return", a, b>> \in L
          /\ <<"stats", a, a>> \in L
          /\ <<"stats", a, c>> \in L /\ c <= b /\ OnlySemicolons(s, c, b) => <<"stats", a, b>> \in L
      BY <1>2 DEF BlockRules
    <2>2. /\ <<"stats", a, c>> \in L /\ <<"stat", c, b>> \in L => <<"stats", a, b>> \in L
          /\ <<"stats", a, b>> \in L => <<"block", a, b>> \in L
          /\ <<"stats", a, c>> \in L /\ <<"return", c, b>> \in L => <<"block", a, b>> \in L
          /\ <<"block", a, c>> \in L /\ c <= b /\ OnlySemicolons(s, c, b) => <<"block", a, b>> \in L
      BY <1>2 DEF BlockRules
    <2>3. a \in Int /\ b \in Int /\ c \in Int /\ a + 1 \in Int BY <1>3
    <2>4. KindAt(s, a) = "return" => Clean(s, a, a + 1) BY <1>4, <2>3
    <2>5. KindAt(s, a) = "return" /\ KindAt(s, a + 1) \in {"EOF", ";"} => <<"return", a, a + 1>> \in R
      BY <1>1, <2>1, <2>4
    <2>6. KindAt(s, a) = "return" /\ <<"expr", a + 1, b>> \in R => <<"return", a, b>> \in R
      BY <1>1, <1>4, <2>1, <2>3, <2>4
    <2>7. <<"stats", a, a>> \in R BY <1>1, <1>4, <2>1, <2>3
    <2>8. ASSUME NEW v, <<v, a, c>> \in R, OnlySemicolons(s, c, b) PROVE Clean(s, a, b)
      BY <1>1, <1>4, <2>3, <2>8
    <2>9. ASSUME NEW v, <<v, a, c>> \in R, NEW z, <<z, c, b>> \in R PROVE Clean(s, a, b)
      BY <1>1, <1>4, <2>3, <2>9
    <2>10. <<"stats", a, c>> \in R /\ c <= b /\ OnlySemicolons(s, c, b) => <<"stats", a, b>> \in R
      BY <1>1, <2>1, <2>8
    <2>11. <<"stats", a, c>> \in R /\ <<"stat", c, b>> \in R => <<"stats", a, b>> \in R
      BY <1>1, <2>2, <2>9
    <2>12. <<"stats", a, b>> \in R => <<"block", a, b>> \in R BY <1>1, <2>2
    <2>13. <<"stats", a, c>> \in R /\ <<"return", c, b>> \in R => <<"block", a, b>> \in R
      BY <1>1, <2>2, <2>9
    <2>14. <<"block", a, c>> \in R /\ c <= b /\ OnlySemicolons(s, c, b) => <<"block", a, b>> \in R
      BY <1>1, <2>2, <2>8
    <2> QED BY <2>5, <2>6, <2>7, <2>10, <2>11, <2>12, <2>13, <2>14
  <1>9. L \subseteq R BY <1>6, <1>7, <1>8, LanguageIsLeast DEF ObeysTheRules, L
  <1> QED BY <1>1, <1>9 DEF L

----------------------------------------------------------------------------
(* What a call that is about to read a phrase up to e must find, for the   *)
(* phrase to be what the parser makes of it: it never stops before e.      *)
ExprTo(s, i, e) == <<"expr", i, e>> \in Language(s) /\ KindAt(s, e) \notin BinaryKinds
RestTo(s, i, e) == Rest(s, i, e) /\ KindAt(s, e) \notin BinaryKinds

AfterElse(s, q, e) == KindAt(s, q) = "end" /\ e = q + 1

AfterThen(s, q, e) ==
    \/ AfterElse(s, q, e)
    \/ /\ KindAt(s, q) = "else"
       /\ \E m \in Places(s) : <<"block", q + 1, m>> \in Language(s) /\ AfterElse(s, m, e)

AfterCondition(s, q, e) ==
    /\ KindAt(s, q) = "then"
    /\ \E m \in Places(s) : <<"block", q + 1, m>> \in Language(s) /\ AfterThen(s, m, e)

DeclTo(s, i, e) ==
    /\ KindAt(s, i) = "Name"
    /\ IF KindAt(s, i + 1) = "=" THEN ExprTo(s, i + 2, e) ELSE e = i + 1

StatementTo(s, i, e) ==
    /\ KindAt(s, i) = "Name" => DeclTo(s, i, e)
    /\ KindAt(s, i) = "local" => DeclTo(s, i + 1, e)
    /\ KindAt(s, i) = "return" =>
           IF KindAt(s, i + 1) \in {"EOF", ";"} THEN e = i + 1 ELSE ExprTo(s, i + 1, e)
    /\ KindAt(s, i) = "if" =>
           \E q \in Places(s) : <<"expr", i + 1, q>> \in Language(s) /\ AfterCondition(s, q, e)
    /\ KindAt(s, i) \notin StatementKinds => ExprTo(s, i, e)

(* What may follow a statement in a block that ends at e.                  *)
MoreTo(s, i, q, e) ==
    IF KindAt(s, i) = "return" THEN OnlySemicolons(s, q, e) /\ q <= e
    ELSE <<"block", q, e>> \in Language(s)

BlockEndKinds == {"EOF", "else", "end"}

LEMMA StatementsStart ==
    ASSUME NEW s, Len(s) \in Nat, NEW i, NEW j, <<"stat", i, j>> \in Language(s)
    PROVE  KindAt(s, i) \in {"Name", "local", "if"} \cup PrimKinds
  <1>1. CASE KindAt(s, i) \notin StatementKinds /\ <<"expr", i, j>> \in Language(s)
    BY <1>1, ExpressionsStart DEF ExprStarts
  <1>2. CASE IfParts(s, i, j) BY <1>2 DEF IfParts
  <1> QED BY <1>1, <1>2, StatConsists

(* Nothing that continues an expression or a declaration begins a block,   *)
(* but a minus.                                                            *)
LEMMA BlockBegins ==
    ASSUME NEW s, Len(s) \in Nat, NEW i, NEW e, <<"block", i, e>> \in Language(s),
           KindAt(s, e) \in BlockEndKinds
    PROVE  /\ KindAt(s, i) # "="
           /\ KindAt(s, i) \in BinaryKinds =>
                  \E m \in Places(s) : /\ <<"expr", i + 1, m>> \in Language(s)
                                       /\ <<"stat", i, m>> \in Language(s)
                                       /\ <<"block", m, e>> \in Language(s)
  <1>1. BlockStarts(s, i, e) BY BlocksStart
  <1>2. /\ "=" \notin {"Name", "local", "if"} \cup PrimKinds
        /\ \A k \in BinaryKinds : k \notin BlockEndKinds \cup {";", "return", "Name", "local", "if"}
        /\ \A k \in PrimKinds : k \in BinaryKinds => k \in UnaryKinds
        /\ \A k \in UnaryKinds : k \notin StatementKinds
    BY DEF PrimKinds, LiteralKinds, UnaryKinds, BinaryKinds, ComparisonKinds, FactorKinds,
           BlockEndKinds, StatementKinds
  <1>3. CASE i = e BY <1>2, <1>3 DEF BlockEndKinds
  <1>4. CASE KindAt(s, i) = ";" BY <1>2, <1>4
  <1>5. CASE \E k \in Places(s) : <<"return", i, k>> \in Language(s)
    <2>1. KindAt(s, i) = "return" BY <1>5, ReturnConsists
    <2> QED BY <1>2, <2>1
  <1>6. CASE \E k \in Places(s) : <<"stat", i, k>> \in Language(s) /\ <<"block", k, e>> \in Language(s)
    <2>1. PICK m \in Places(s) : <<"stat", i, m>> \in Language(s) /\ <<"block", m, e>> \in Language(s)
      BY <1>6
    <2>2. KindAt(s, i) \in {"Name", "local", "if"} \cup PrimKinds BY <2>1, StatementsStart
    <2>3. ASSUME KindAt(s, i) \in BinaryKinds PROVE <<"expr", i + 1, m>> \in Language(s)
      <3>1. KindAt(s, i) \in UnaryKinds /\ KindAt(s, i) \notin StatementKinds
        BY <1>2, <2>2, <2>3
      <3>2. <<"expr", i, m>> \in Language(s)
        <4>1. "Name" \in StatementKinds /\ "local" \in StatementKinds /\ "if" \in StatementKinds
          BY DEF StatementKinds
        <4>2. IfParts(s, i, m) => KindAt(s, i) = "if" BY DEF IfParts
        <4> QED BY <2>1, <3>1, <4>1, <4>2, StatConsists
      <3> QED BY <3>1, <3>2, ExpressionsStart DEF ExprStarts
    <2> QED BY <1>2, <2>1, <2>2, <2>3
  <1> QED BY <1>1, <1>3, <1>4, <1>5, <1>6 DEF BlockStarts

(* The longest statement a block can begin with is one that the parser     *)
(* reads to its end.                                                       *)
LEMMA StatementIsRead ==
    ASSUME NEW s, Len(s) \in Nat, NEW i \in Places(s), NEW k \in Places(s), NEW e,
           KindAt(s, e) \in BlockEndKinds,
           <<"stat", i, k>> \in Language(s), <<"block", k, e>> \in Language(s),
           \A m \in Places(s) : <<"stat", i, m>> \in Language(s) /\ <<"block", m, e>> \in Language(s)
               => m <= k
    PROVE  StatementTo(s, i, k) /\ KindAt(s, i) # "return"
  <1> DEFINE L == Language(s)
  <1>1. KindAt(s, k) # "=" BY BlockBegins
  <1>2. ExprRules(s, L) /\ StatRules(s, L) BY LanguageObeys DEF ObeysTheRules
  <1>3. ASSUME NEW a, <<"expr", a, k>> \in L,
               \A m \in Places(s) : <<"expr", a, m>> \in L => <<"stat", i, m>> \in L
        PROVE  ExprTo(s, a, k)
    <2>1. ASSUME KindAt(s, k) \in BinaryKinds PROVE FALSE
      <3>1. PICK m \in Places(s) :
                <<"expr", k + 1, m>> \in L /\ <<"stat", k, m>> \in L /\ <<"block", m, e>> \in L
        BY <2>1, BlockBegins
      <3>2. a \in Places(s) BY <1>3, PlacesOfPhrases
      <3>3. <<"expr", a, m>> \in L BY <1>2, <1>3, <2>1, <3>1, <3>2 DEF ExprRules
      <3>4. m <= k BY <1>3, <3>1, <3>3
      <3>5. k < m BY <3>1, StatConsists
      <3>6. k \in Nat /\ m \in Nat BY DEF Places
      <3> QED BY <3>4, <3>5, <3>6
    <2> QED BY <1>3, <2>1 DEF ExprTo
  <1>4. ASSUME NEW n, <<"decl", n, k>> \in L,
               \A m \in Places(s) : <<"decl", n, m>> \in L => <<"stat", i, m>> \in L
        PROVE  DeclTo(s, n, k)
    <2>1. KindAt(s, n) = "Name" BY <1>4, DeclConsists
    <2>2. CASE k = n + 1 BY <1>1, <2>1, <2>2 DEF DeclTo
    <2>3. CASE KindAt(s, n + 1) = "=" /\ <<"expr", n + 2, k>> \in L
      <3>1. n \in Places(s) BY <1>4, PlacesOfPhrases
      <3>2. \A m \in Places(s) : <<"expr", n + 2, m>> \in L => <<"decl", n, m>> \in L
        BY <1>2, <2>1, <2>3, <3>1 DEF StatRules
      <3>3. ExprTo(s, n + 2, k) BY <1>3, <1>4, <2>3, <3>2
      <3> QED BY <2>1, <2>3, <3>3 DEF DeclTo
    <2> QED BY <1>4, <2>2, <2>3, DeclConsists
  <1>5. CASE KindAt(s, i) = "Name" /\ <<"decl", i, k>> \in L
    <2>1. \A m \in Places(s) : <<"decl", i, m>> \in L => <<"stat", i, m>> \in L
      BY <1>2 DEF StatRules
    <2>2. DeclTo(s, i, k) BY <1>4, <1>5, <2>1
    <2> QED BY <1>5, <2>2 DEF StatementTo, StatementKinds
  <1>6. CASE KindAt(s, i) = "local" /\ <<"decl", i + 1, k>> \in L
    <2>1. \A m \in Places(s) : <<"decl", i + 1, m>> \in L => <<"stat", i, m>> \in L
      BY <1>2, <1>6 DEF StatRules
    <2>2. DeclTo(s, i + 1, k) BY <1>4, <1>6, <2>1
    <2> QED BY <1>6, <2>2 DEF StatementTo, StatementKinds
  <1>7. CASE KindAt(s, i) \notin StatementKinds /\ <<"expr", i, k>> \in L
    <2>1. \A m \in Places(s) : <<"expr", i, m>> \in L => <<"stat", i, m>> \in L
      BY <1>2, <1>7 DEF StatRules
    <2>2. ExprTo(s, i, k) BY <1>3, <1>7, <2>1
    <2> QED BY <1>7, <2>2 DEF StatementTo, StatementKinds
  <1>8. CASE IfParts(s, i, k)
    <2>1. i \in Nat /\ k \in Nat /\ k >= 1 /\ k <= Len(s) + 1 BY DEF Places
    <2>2. PICK x : x = k - 1 OBVIOUS
    <2>3. KindAt(s, i) = "if" /\ KindAt(s, x) = "end" /\ k = x + 1
      BY <1>8, <2>1, <2>2 DEF IfParts
    <2>4. PICK q \in (i + 2)..(k - 2) :
              /\ KindAt(s, q) = "then" /\ <<"expr", i + 1, q>> \in L
              /\ \/ <<"block", q + 1, x>> \in L
                 \/ \E l \in (q + 1)..(k - 2) :
                        /\ KindAt(s, l) = "else"
                        /\ <<"block", q + 1, l>> \in L /\ <<"block", l + 1, x>> \in L
      BY <1>8, <2>2 DEF IfParts
    <2>5. AfterElse(s, x, k) BY <2>3 DEF AfterElse
    <2>6. \A a : <<"block", a, x>> \in L => x \in Places(s) BY PlacesOfPhrases
    <2>7. AfterCondition(s, q, k)
      <3>1. CASE <<"block", q + 1, x>> \in L
        BY <2>4, <2>5, <2>6, <3>1 DEF AfterCondition, AfterThen
      <3>2. CASE \E l \in (q + 1)..(k - 2) :
                     /\ KindAt(s, l) = "else"
                     /\ <<"block", q + 1, l>> \in L /\ <<"block", l + 1, x>> \in L
        <4>1. PICK l : /\ KindAt(s, l) = "else"
                       /\ <<"block", q + 1, l>> \in L /\ <<"block", l + 1, x>> \in L
          BY <3>2
        <4>2. l \in Places(s) BY <4>1, PlacesOfPhrases
        <4>3. AfterThen(s, l, k) BY <2>5, <2>6, <4>1 DEF AfterThen
        <4> QED BY <2>4, <4>1, <4>2, <4>3 DEF AfterCondition
      <3> QED BY <2>4, <3>1, <3>2
    <2>8. q \in Places(s) BY <2>4, PlacesOfPhrases
    <2> QED BY <2>3, <2>4, <2>7, <2>8 DEF StatementTo, StatementKinds
  <1> QED BY <1>5, <1>6, <1>7, <1>8, StatConsists

----------------------------------------------------------------------------
(* A row of statements is read from the left: where its first one ends.    *)
LEMMA ALastPlace ==
    ASSUME NEW s, Len(s) \in Nat, NEW S, S \subseteq Places(s), S # {}
    PROVE  \E k \in S : \A m \in S : m <= k
  <1>1. PICK n \in Nat : n = Len(s) OBVIOUS
  <1> DEFINE T == {n + 1 - k : k \in S}
  <1>2. \A k \in S : k \in Nat /\ k >= 1 /\ k <= n + 1 /\ n + 1 - k \in Nat
    BY <1>1 DEF Places
  <1>3. T \subseteq Nat /\ T # {} BY <1>2
  <1>4. PICK x \in T : \A y \in T : x <= y BY <1>3, SomeTokenIsFirst
  <1>5. PICK k \in S : x = n + 1 - k BY <1>4
  <1>6. ASSUME NEW m \in S PROVE m <= k
    <2>1. n + 1 - m \in T OBVIOUS
    <2>2. n + 1 - k <= n + 1 - m BY <1>4, <1>5, <2>1
    <2>3. m \in Nat /\ k \in Nat /\ n \in Nat BY <1>1, <1>2
    <2> QED BY ONLY <2>2, <2>3
  <1> QED BY <1>6

(* A block that neither is over nor begins with a semicolon begins with a  *)
(* statement that the parser reads to its end.                             *)
LEMMA BlockGoesOnWith ==
    ASSUME NEW s, Len(s) \in Nat, NEW i, NEW e, <<"block", i, e>> \in Language(s),
           KindAt(s, e) \in BlockEndKinds, i # e, KindAt(s, i) # ";"
    PROVE  /\ KindAt(s, i) \notin BlockEndKinds
           /\ \E k \in Places(s) : i < k /\ StatementTo(s, i, k) /\ MoreTo(s, i, k, e)
  <1> DEFINE L == Language(s)
  <1>1. /\ i \in Places(s) /\ e \in Places(s) /\ i \in Nat /\ e \in Nat BY PlacesOfPhrases
  <1>2. /\ BlockEndKinds \cap ({"Name", "local", "if", "return"} \cup PrimKinds) = {}
        /\ BlockEndKinds \cap BinaryKinds = {} /\ ";" \notin BinaryKinds
    BY DEF BlockEndKinds, PrimKinds, LiteralKinds, UnaryKinds, BinaryKinds, ComparisonKinds,
           FactorKinds
  <1>3. CASE \E k \in Places(s) : <<"return", i, k>> \in L /\ OnlySemicolons(s, k, e) /\ k <= e
    <2>1. PICK k \in Places(s) : <<"return", i, k>> \in L /\ OnlySemicolons(s, k, e) /\ k <= e
      BY <1>3
    <2>2. i < k /\ KindAt(s, i) = "return" BY <2>1, ReturnConsists
    <2>3. KindAt(s, k) \notin BinaryKinds
      <3>1. CASE k = e BY <1>2, <3>1
      <3>2. CASE k # e
        <4>1. k \in Nat /\ e \in Nat /\ k <= e /\ k # e BY <1>1, <2>1, <3>2, PlacesOfPhrases
        <4>2. k < e BY ONLY <4>1
        <4>3. KindAt(s, k) = ";" BY <1>1, <2>1, <4>2, SemicolonsFollow
        <4> QED BY <1>2, <4>3
      <3> QED BY <3>1, <3>2
    <2>4. StatementTo(s, i, k)
      <3>1. CASE k = i + 1 /\ KindAt(s, k) \in {"EOF", ";"}
        BY <2>2, <3>1 DEF StatementTo, StatementKinds
      <3>2. CASE <<"expr", i + 1, k>> \in L
        <4>1. KindAt(s, i + 1) \in PrimKinds BY <3>2, ExpressionsStart DEF ExprStarts
        <4>2. KindAt(s, i + 1) \notin {"EOF", ";"}
          BY <4>1 DEF PrimKinds, LiteralKinds, UnaryKinds
        <4>3. ExprTo(s, i + 1, k) BY <2>3, <3>2 DEF ExprTo
        <4> QED BY <2>2, <4>2, <4>3 DEF StatementTo, StatementKinds
      <3> QED BY <2>1, <3>1, <3>2, ReturnConsists
    <2>5. MoreTo(s, i, k, e) BY <2>1, <2>2 DEF MoreTo
    <2> QED BY <1>2, <2>2, <2>4, <2>5
  <1>4. CASE \E k \in Places(s) : <<"stat", i, k>> \in L /\ <<"block", k, e>> \in L
    <2> DEFINE S == {k \in Places(s) : <<"stat", i, k>> \in L /\ <<"block", k, e>> \in L}
    <2>1. S \subseteq Places(s) /\ S # {} BY <1>4
    <2>2. PICK k \in S : \A m \in S : m <= k BY <2>1, ALastPlace
    <2>3. /\ k \in Places(s) /\ <<"stat", i, k>> \in L /\ <<"block", k, e>> \in L
          /\ \A m \in Places(s) : <<"stat", i, m>> \in L /\ <<"block", m, e>> \in L => m <= k
      BY <2>2
    <2>4. StatementTo(s, i, k) /\ KindAt(s, i) # "return" BY <1>1, <2>3, StatementIsRead
    <2>5. MoreTo(s, i, k, e) BY <2>3, <2>4 DEF MoreTo
    <2>6. i < k BY <2>3, StatConsists
    <2>7. KindAt(s, i) \in {"Name", "local", "if"} \cup PrimKinds BY <2>3, StatementsStart
    <2> QED BY <1>2, <2>3, <2>4, <2>5, <2>6, <2>7
  <1> QED BY <1>3, <1>4, BlocksStart DEF BlockStarts

(* Semicolons at the start of a block belong to it.                        *)
LEMMA BlockSkips ==
    ASSUME NEW s, Len(s) \in Nat, NEW i, NEW e, <<"block", i, e>> \in Language(s),
           KindAt(s, i) = ";", KindAt(s, e) # ";"
    PROVE  <<"block", i + 1, e>> \in Language(s)
  <1>1. i # e OBVIOUS
  <1>2. ";" \notin {"Name", "local", "if"} \cup PrimKinds
    BY DEF PrimKinds, LiteralKinds, UnaryKinds
  <1>3. \A k : <<"stat", i, k>> \notin Language(s) BY <1>2, StatementsStart
  <1>4. \A k : <<"return", i, k>> \notin Language(s) BY ReturnConsists
  <1> QED BY <1>1, <1>3, <1>4, BlocksStart DEF BlockStarts

LEMMA BlockSkipsAll ==
    ASSUME NEW s, Len(s) \in Nat, NEW i, NEW e, <<"block", i, e>> \in Language(s),
           KindAt(s, e) # ";", NEW j \in Places(s), i <= j, OnlySemicolons(s, i, j)
    PROVE  <<"block", j, e>> \in Language(s)
  <1> DEFINE S == {k \in i..j : <<"block", k, e>> \in Language(s)}
  <1>1. i \in Places(s) /\ i \in Nat /\ i <= j BY PlacesOfPhrases
  <1>2. \A k \in Places(s) : k \in Nat BY ONLY Len(s) \in Nat DEF Places
  <1>3. \A k : k \in S <=> k \in i..j /\ <<"block", k, e>> \in Language(s) BY Zenon
  <1>4. S \subseteq Places(s) BY <1>3, PlacesOfPhrases
  <1>5. i \in S
    <2>1. i \in i..j BY ONLY <1>1, <1>2, j \in Places(s)
    <2> QED BY <1>3, <2>1
  <1> HIDE DEF S
  <1>6. PICK k \in S : \A m \in S : m <= k BY <1>4, <1>5, ALastPlace
  <1>7. k \in Nat /\ k >= i /\ k <= j
    <2>1. k \in i..j BY <1>3
    <2> QED BY ONLY <1>1, <1>2, <2>1, j \in Places(s)
  <1>8. ASSUME k < j PROVE FALSE
    <2>1. k \in i..(j - 1) /\ k + 1 \in i..j /\ ~(k + 1 <= k)
      BY ONLY <1>1, <1>2, <1>7, <1>8, j \in Places(s)
    <2>2. KindAt(s, k) = ";" BY <2>1 DEF OnlySemicolons
    <2>3. <<"block", k, e>> \in Language(s) BY <1>3
    <2>4. <<"block", k + 1, e>> \in Language(s) BY <2>2, <2>3, BlockSkips
    <2>5. k + 1 \in S BY <1>3, <2>1, <2>4
    <2> QED BY <1>6, <2>1, <2>5
  <1>9. k = j BY ONLY <1>2, <1>7, <1>8, j \in Places(s)
  <1> QED BY <1>3, <1>9

(* Two places that only semicolons lead to, and neither at one, are one.   *)
LEMMA SemicolonsLeadTo ==
    ASSUME NEW s, NEW c \in Nat, NEW i \in Nat, NEW e \in Nat, c <= i, c <= e,
           OnlySemicolons(s, c, i), OnlySemicolons(s, c, e),
           KindAt(s, i) # ";", KindAt(s, e) # ";"
    PROVE  i = e
  <1>1. c \in Nat /\ i \in Nat /\ e \in Nat /\ c <= i /\ c <= e BY Zenon
  <1>2. i < e => i \in c..(e - 1) BY ONLY <1>1
  <1>3. e < i => e \in c..(i - 1) BY ONLY <1>1
  <1>4. ~(i < e) /\ ~(e < i) BY <1>2, <1>3 DEF OnlySemicolons
  <1> QED BY ONLY <1>1, <1>4

----------------------------------------------------------------------------
(* The calls in progress of a parser that cannot fail.  To each call       *)
(* belongs a range x of tokens, x[1]..x[2] - 1: when the call it waits for *)
(* has read its own range y, what remains of x can be read as well.        *)
Ranges(s) == Places(s) \X Places(s)
WholeSource(s) == <<1, Len(s) + 1>>

EndsAt(s, f, e) ==
    /\ f.ends \in {{}, {"else", "end"}, {"end"}}
    /\ KindAt(s, e) \in IF f.ends = {} THEN {"EOF"} ELSE f.ends

PendingIf(s, f, q, e) ==
    IF f.cond = <<>> THEN AfterCondition(s, q, e)
    ELSE IF f.then = <<>> THEN AfterThen(s, q, e) ELSE AfterElse(s, q, e)

Pending(s, f, x, y) ==
    /\ f.fn = "ParseBlock" => EndsAt(s, f, x[2]) /\ MoreTo(s, y[1], y[2], x[2])
    /\ f.fn = "MakeStatement" => y = x
    /\ f.fn \in {"Initializer", "ParseExprStmt"} => KindAt(s, x[1]) # "return" /\ y[2] = x[2]
    /\ f.fn = "ParseRetStmt" => KindAt(s, x[1]) = "return" /\ y[2] = x[2]
    /\ f.fn = "ParseIfStmt" => KindAt(s, x[1]) # "return" /\ PendingIf(s, f, y[2], x[2])
    /\ f.fn \in {"ParseExpr", "Unary"} => y[2] = x[2]
    /\ f.fn = "Paren" => KindAt(s, y[2]) = ")" /\ RestTo(s, y[2] + 1, x[2])

Owes(s, stk, x) ==
    /\ stk \in Seq(Range(stk))
    /\ \E xs \in [1..(Len(stk) + 1) -> Ranges(s)] :
           /\ xs[1] = WholeSource(s) /\ xs[Len(stk) + 1] = x
           /\ \A m \in 1..Len(stk) : Pending(s, stk[m], xs[m], xs[m + 1])

(* A call that is now at token c.                                          *)
StatementCalls == {"ParseStmt", "ParseVarDecl", "ParseRetStmt", "ParseExprStmt", "ParseIfStmt"}

Ready(s, f, x, c) ==
    /\ f.fn = "ParseBlock" => EndsAt(s, f, x[2]) /\ <<"block", c, x[2]>> \in Language(s)
    /\ f.fn \in StatementCalls => x[1] = c /\ StatementTo(s, c, x[2])
    /\ f.fn \in {"ParseExpr", "ParsePrimExpr"} => ExprTo(s, c, x[2])

(* The result r of a call that has stopped at token c.                     *)
StoppedAt(s, node, x, c) ==
    c = x[2] /\ (node.kind = "ReturnStatement" <=> KindAt(s, x[1]) = "return")

Done(s, r, x, c) ==
    /\ r[1] = "block" => c = x[2]
    /\ r[1] = "stmt" => StoppedAt(s, r[2].node, x, c)
    /\ r[1] = "node" => StoppedAt(s, r[2], x, c)
    /\ r[1] = "expr" => RestTo(s, c, x[2])

CanFinish(s, stk, r, c) ==
    \/ r = <<"call">> /\ stk = <<>> /\ c = 1
    \/ /\ r = <<"call">>
       /\ \E t, f : \E x \in Ranges(s) :
              stk = Append(t, f) /\ Owes(s, t, x) /\ Ready(s, f, x, c)
    \/ /\ r[1] \in Results
       /\ \E x \in Ranges(s) : Owes(s, stk, x) /\ Done(s, r, x, c)

Finishes == CanFinish(source, stack, ret, cur)

----------------------------------------------------------------------------
(* What is owed when a frame is pushed or popped.                          *)
LEMMA OwesEmpty ==
    ASSUME NEW s, Len(s) \in Nat
    PROVE  Owes(s, <<>>, WholeSource(s)) /\ WholeSource(s) \in Ranges(s)
  <1>1. <<>> \in Seq(Range(<<>>)) /\ Len(<<>>) = 0 OBVIOUS
  <1>2. WholeSource(s) \in Ranges(s)
    <2>1. 1 \in Places(s) /\ Len(s) + 1 \in Places(s) BY DEF Places
    <2> QED BY <2>1 DEF WholeSource, Ranges
  <1>3. PICK w : w = WholeSource(s) OBVIOUS
  <1>4. PICK xs : xs = [m \in 1..1 |-> w] OBVIOUS
  <1>5. xs \in [1..(0 + 1) -> Ranges(s)] /\ xs[1] = w BY <1>2, <1>3, <1>4
  <1> QED BY <1>1, <1>2, <1>3, <1>5 DEF Owes

LEMMA OwesPush ==
    ASSUME NEW s, NEW t, NEW x, NEW f, NEW y \in Ranges(s), Owes(s, t, x),
           Pending(s, f, x, y)
    PROVE  Owes(s, Append(t, f), y)
  <1>1. t \in Seq(Range(t) \cup {f}) /\ f \in Range(t) \cup {f}
    BY SeqMonotonic DEF Owes
  <1>2. PICK n \in Nat : n = Len(t) BY <1>1, LenProperties
  <1>3. PICK u : u = Append(t, f) OBVIOUS
  <1>4. /\ u \in Seq(Range(t) \cup {f}) /\ Len(u) = n + 1 /\ u[n + 1] = f
        /\ \A k \in 1..n : u[k] = t[k]
    BY <1>1, <1>2, <1>3, AppendProperties
  <1>5. u \in Seq(Range(u)) BY <1>4, LenProperties DEF Range
  <1>6. PICK w : w = WholeSource(s) OBVIOUS
  <1>7. PICK xs \in [1..(n + 1) -> Ranges(s)] :
            /\ xs[1] = w /\ xs[n + 1] = x
            /\ \A m \in 1..n : Pending(s, t[m], xs[m], xs[m + 1])
    BY <1>2, <1>6 DEF Owes
  <1>8. PICK ys : ys = [m \in 1..(n + 2) |-> IF m = n + 2 THEN y ELSE xs[m]] OBVIOUS
  <1>9. /\ ys \in [1..(n + 1 + 1) -> Ranges(s)] /\ ys[1] = w /\ ys[n + 1 + 1] = y
        /\ \A m \in 1..(n + 1) : ys[m] = xs[m]
    BY <1>7, <1>8
  <1>10. ASSUME NEW m \in 1..(n + 1) PROVE Pending(s, u[m], ys[m], ys[m + 1])
    <2>1. CASE m = n + 1
      <3>1. u[m] = f /\ ys[m] = x /\ ys[m + 1] = y BY <1>4, <1>7, <1>9, <2>1
      <3> QED BY <3>1
    <2>2. CASE m \in 1..n
      <3>1. ys[m] = xs[m] /\ ys[m + 1] = xs[m + 1] /\ u[m] = t[m] BY <1>4, <1>9, <2>2
      <3> QED BY <1>7, <2>2, <3>1
    <2> QED BY <2>1, <2>2
  <1> QED BY <1>3, <1>4, <1>5, <1>6, <1>9, <1>10 DEF Owes

LEMMA OwesPop ==
    ASSUME NEW s, NEW t, NEW y, Owes(s, t, y), t # <<>>
    PROVE  \E x \in Ranges(s) : /\ Owes(s, SubSeq(t, 1, Len(t) - 1), x)
                                /\ Pending(s, t[Len(t)], x, y)
  <1>1. t \in Seq(Range(t)) BY DEF Owes
  <1>2. PICK n \in Nat \ {0} : n = Len(t) BY <1>1, LenProperties, EmptySeq
  <1>3. PICK u : u = SubSeq(t, 1, n - 1) OBVIOUS
  <1>4. u \in Seq(Range(t)) /\ Len(u) = n - 1 /\ \A k \in 1..(n - 1) : u[k] = t[k]
    <2>1. 1 \in Int /\ n - 1 \in Int OBVIOUS
    <2>2. \A k \in 1..(n - 1) : t[k] \in Range(t) BY <1>1, <1>2, ElementOfSeq
    <2>3. /\ u \in Seq(Range(t))
          /\ Len(u) = IF 1 <= n - 1 THEN n - 1 - 1 + 1 ELSE 0
          /\ \A k \in 1..(n - 1 - 1 + 1) : u[k] = t[1 + k - 1]
      BY <1>3, <2>1, <2>2, SubSeqProperties
    <2>4. \A k \in 1..(n - 1) : k \in 1..(n - 1 - 1 + 1) /\ 1 + k - 1 = k OBVIOUS
    <2> QED BY <2>3, <2>4
  <1>5. u \in Seq(Range(u)) BY <1>4, LenProperties DEF Range
  <1>6. PICK w : w = WholeSource(s) OBVIOUS
  <1>7. PICK xs \in [1..(n + 1) -> Ranges(s)] :
            /\ xs[1] = w /\ xs[n + 1] = y
            /\ \A m \in 1..n : Pending(s, t[m], xs[m], xs[m + 1])
    BY <1>2, <1>6 DEF Owes
  <1>8. PICK ys : ys = [m \in 1..n |-> xs[m]] OBVIOUS
  <1>9. /\ ys \in [1..(n - 1 + 1) -> Ranges(s)] /\ ys[1] = w /\ ys[n - 1 + 1] = xs[n]
        /\ \A m \in 1..n : ys[m] = xs[m]
    BY <1>7, <1>8
  <1>10. ASSUME NEW m \in 1..(n - 1) PROVE Pending(s, u[m], ys[m], ys[m + 1])
    <2>1. m \in 1..n /\ m + 1 \in 1..n OBVIOUS
    <2>2. ys[m] = xs[m] /\ ys[m + 1] = xs[m + 1] /\ u[m] = t[m] BY <1>4, <1>9, <2>1
    <2> QED BY <1>7, <2>1, <2>2
  <1>11. Owes(s, u, xs[n]) BY <1>4, <1>5, <1>6, <1>9, <1>10 DEF Owes
  <1>12. Pending(s, t[n], xs[n], y) /\ xs[n] \in Ranges(s)
    <2>1. n \in 1..n /\ n \in 1..(n + 1) OBVIOUS
    <2> QED BY <1>7, <2>1
  <1> QED BY <1>2, <1>3, <1>11, <1>12

LEMMA OwesIsSeq ==
    ASSUME NEW s, NEW t, NEW x, Owes(s, t, x) PROVE t \in Seq(Range(t))
  BY DEF Owes

(* What this says of the function on top.                                  *)
LEMMA CalledOwes ==
    ASSUME Finishes, NEW fn, In(fn), Called
    PROVE  Top.fn = fn /\ \E x \in Ranges(source) : Owes(source, Below, x) /\ Ready(source, Top, x, cur)
  <1>1. ret = <<"call">> /\ ret[1] = "call" /\ stack # <<>> /\ Top.fn = fn BY DEF Called, In
  <1>2. PICK t, f : \E x \in Ranges(source) :
            stack = Append(t, f) /\ Owes(source, t, x) /\ Ready(source, f, x, cur)
    BY <1>1 DEF Finishes, CanFinish, Results
  <1>3. Below = t /\ Top = f BY <1>2, OwesIsSeq, AppendUndone DEF Below, Top
  <1> QED BY <1>1, <1>2, <1>3

LEMMA WaitingOwes ==
    ASSUME Finishes, NEW fn, In(fn), NEW what \in Results, Got(what)
    PROVE  /\ Top.fn = fn
           /\ \E x, y \in Ranges(source) :
                  /\ Owes(source, Below, x) /\ Pending(source, Top, x, y)
                  /\ Done(source, ret, y, cur)
  <1>1. ret[1] = what /\ ret # <<"call">> /\ stack # <<>> /\ Top.fn = fn
    BY DEF Got, In, Results
  <1>2. PICK y \in Ranges(source) : Owes(source, stack, y) /\ Done(source, ret, y, cur)
    BY <1>1 DEF Finishes, CanFinish
  <1>3. PICK x \in Ranges(source) : Owes(source, Below, x) /\ Pending(source, Top, x, y)
    BY <1>1, <1>2, OwesPop DEF Below, Top
  <1> QED BY <1>1, <1>2, <1>3

----------------------------------------------------------------------------
(* The steps, by what they make of the stack, when every token can be read. *)
AllRead == \A i \in Places(source) : Kind(i) # "Bad"

LEMMA AllAreRead ==
    ASSUME TypeOK, AllRead, NEW i \in Places(source) PROVE Reads(i)
  <1>1. PICK n \in Nat : n = Len(source) BY TokensOfSource
  <1>2. cur \in 1..(n + 1) /\ i \in 1..(n + 1) /\ Places(source) = 1..(n + 1)
    BY <1>1, TokensOfSource DEF Places
  <1>3. (cur + 1)..i \subseteq Places(source) BY <1>2
  <1> QED BY <1>3 DEF Reads, AllRead

LEMMA AnswerFinishes ==
    ASSUME TypeOK, AllRead, NEW x \in Ranges(source), Owes(source, Below, x),
           NEW i \in Places(source), NEW r,
           Answer(i, r), r[1] \in Results, Done(source, r, x, i)
    PROVE  Finishes'
  <1>1. PICK s, t : s = source /\ t = Below OBVIOUS
  <1>2. source' = s /\ cur' = i /\ stack' = t /\ ret' = r
    BY <1>1, AllAreRead DEF Answer, GoOn
  <1>3. CanFinish(s, t, r, i) BY <1>1 DEF CanFinish
  <1> QED BY <1>2, <1>3 DEF Finishes

LEMMA PushFinishes ==
    ASSUME TypeOK, AllRead, NEW t, NEW x \in Ranges(source), Owes(source, t, x),
           NEW i \in Places(source), NEW f,
           GoOn(i, Append(t, f), <<"call">>), Ready(source, f, x, i)
    PROVE  Finishes'
  <1>1. PICK s, u, r : s = source /\ u = Append(t, f) /\ r = <<"call">> OBVIOUS
  <1>2. source' = s /\ cur' = i /\ stack' = u /\ ret' = r
    BY <1>1, AllAreRead DEF GoOn
  <1>3. CanFinish(s, u, r, i) BY <1>1 DEF CanFinish
  <1> QED BY <1>2, <1>3 DEF Finishes

LEMMA CallFinishes ==
    ASSUME TypeOK, AllRead, NEW x \in Ranges(source), Owes(source, Below, x),
           NEW i \in Places(source), NEW f, NEW callee, NEW y \in Ranges(source),
           CallFrom(i, f, callee), Pending(source, f, x, y), Ready(source, callee, y, i)
    PROVE  Finishes'
  <1>1. PICK t : t = Append(Below, f) OBVIOUS
  <1>2. Owes(source, t, y) BY <1>1, OwesPush
  <1>3. GoOn(i, Append(t, callee), <<"call">>) BY <1>1 DEF CallFrom
  <1> QED BY <1>2, <1>3, PushFinishes

----------------------------------------------------------------------------
(* What a step starts from.                                                *)
Able(R) == TypeOK /\ AllRead /\ NestedIn(R) /\ Finishes

LEMMA RangeParts ==
    ASSUME NEW s
    PROVE  /\ \A x \in Ranges(s) : x[1] \in Places(s) /\ x[2] \in Places(s)
           /\ \A i, j \in Places(s) : /\ <<i, j>> \in Ranges(s)
                                      /\ <<i, j>>[1] = i /\ <<i, j>>[2] = j
  BY DEF Ranges

LEMMA SourceLength == ASSUME TypeOK PROVE Len(source) \in Nat
  BY TokensOfSource

LEMMA StartParseFinishes ==
    ASSUME NEW R, Able(R), <<"block", 1, Len(source) + 1>> \in Language(source), StartParse
    PROVE  Finishes'
  <1>1. stack = <<>> /\ ret = <<"call">> /\ ret[1] = "call" BY DEF StartParse, Called
  <1>2. cur = 1
    <2>1. ASSUME NEW t, NEW x, NEW f, stack = Append(t, f), Owes(source, t, x)
          PROVE  FALSE
      BY <1>1, <2>1, OwesIsSeq, AppendUndone
    <2> QED BY <1>1, <2>1 DEF Able, Finishes, CanFinish, Results
  <1>3. TypeOK /\ AllRead /\ Len(source) \in Nat BY SourceLength DEF Able
  <1>4. Kind(1) # "Bad"
    <2>1. 1 \in Places(source) BY <1>2, <1>3, PlacesAreNumbers
    <2> QED BY <1>3, <2>1 DEF AllRead
  <1>5. PICK s, f, x, t, r, u : /\ s = source /\ f = BlockFrame({}) /\ x = WholeSource(s)
                                /\ t = <<>> /\ r = <<"call">> /\ u = Append(t, f)
    OBVIOUS
  <1>6. stack' = u /\ ret' = r /\ source' = s /\ cur' = 1
    BY <1>2, <1>4, <1>5 DEF StartParse
  <1>7. Owes(s, t, x) /\ x \in Ranges(s) BY <1>3, <1>5, OwesEmpty
  <1>8. x[2] = Len(s) + 1 BY <1>5 DEF WholeSource
  <1>9. KindAt(s, x[2]) = "EOF"
    <2>1. PICK n \in Nat : n = Len(s) BY <1>3, <1>5
    <2>2. ~(n + 1 <= n) BY <2>1
    <2> QED BY <1>8, <2>1, <2>2 DEF KindAt
  <1>10. f.fn = "ParseBlock" /\ f.ends = {} BY <1>5 DEF BlockFrame
  <1>11. EndsAt(s, f, x[2]) BY <1>9, <1>10 DEF EndsAt
  <1>12. Ready(s, f, x, 1) BY <1>5, <1>8, <1>10, <1>11 DEF Ready, StatementCalls
  <1>13. CanFinish(s, u, r, 1) BY <1>5, <1>7, <1>12 DEF CanFinish
  <1> QED BY <1>6, <1>13 DEF Finishes

(* The head of a block's loop: it ends where it should.                    *)
LEMMA BlockHead ==
    ASSUME TypeOK, Top.fn = "ParseBlock", NEW x \in Ranges(source), Ready(source, Top, x, cur),
           NEW i, i = AfterSemicolons(cur)
    PROVE  /\ i \in Places(source) /\ EndsAt(source, Top, x[2])
           /\ Ends(i) => i = x[2]
           /\ ~Ends(i) => \E k \in Places(source) :
                              StatementTo(source, i, k) /\ MoreTo(source, i, k, x[2])
  <1>1. PICK e : e = x[2] OBVIOUS
  <1>2. EndsAt(source, Top, e) /\ <<"block", cur, e>> \in Language(source)
    BY <1>1 DEF Ready
  <1>3. KindAt(source, e) \in BlockEndKinds /\ KindAt(source, e) \in {"EOF"} \cup Top.ends
    BY <1>2 DEF EndsAt, BlockEndKinds
  <1>4. i \in Places(source) /\ cur <= i /\ OnlySemicolons(source, cur, i)
    BY SemicolonsSkipped
  <1>5. KindAt(source, i) # ";"
    <2>1. cur \in 1..(Len(source) + 1) BY TokensOfSource
    <2> QED BY <2>1, SemicolonsEnd, KindIs
  <1>6. Len(source) \in Nat BY SourceLength
  <1>7. KindAt(source, e) # ";" BY <1>3 DEF BlockEndKinds
  <1>8. <<"block", i, e>> \in Language(source) BY <1>2, <1>4, <1>6, <1>7, BlockSkipsAll
  <1>9. CASE i = e BY <1>1, <1>2, <1>3, <1>4, <1>9, KindIs DEF Ends
  <1>10. CASE i # e
    <2>1. KindAt(source, i) \notin BlockEndKinds
      BY <1>3, <1>5, <1>6, <1>8, <1>10, BlockGoesOnWith
    <2>2. \E k \in Places(source) : StatementTo(source, i, k) /\ MoreTo(source, i, k, e)
      BY <1>3, <1>5, <1>6, <1>8, <1>10, BlockGoesOnWith
    <2>3. {"EOF"} \cup Top.ends \subseteq BlockEndKinds BY <1>2 DEF EndsAt, BlockEndKinds
    <2>4. ~Ends(i) BY <2>1, <2>3, KindIs DEF Ends
    <2> QED BY <1>1, <1>2, <1>4, <2>2, <2>4
  <1> QED BY <1>9, <1>10

LEMMA BlockResult ==
    ASSUME TypeOK, AllRead, NEW x \in Ranges(source), Owes(source, Below, x),
           NEW b, Answer(x[2], <<"block", b>>)
    PROVE  Finishes'
  <1>1. PICK r, i : r = <<"block", b>> /\ i = x[2] OBVIOUS
  <1>2. r[1] = "block" /\ i \in Places(source) BY <1>1, RangeParts
  <1>3. Done(source, r, x, i) BY <1>1, <1>2 DEF Done
  <1> QED BY <1>1, <1>2, <1>3, AnswerFinishes DEF Results

LEMMA BlockEndsFinishes ==
    ASSUME NEW R, Able(R), BlockEnds PROVE Finishes'
  <1>1. TypeOK /\ AllRead /\ Finishes /\ In("ParseBlock") /\ Called BY DEF Able, BlockEnds
  <1>2. PICK x \in Ranges(source) : Owes(source, Below, x) /\ Ready(source, Top, x, cur)
    BY <1>1, CalledOwes
  <1>3. PICK i : i = AfterSemicolons(cur) OBVIOUS
  <1>4. Ends(i) /\ Answer(i, <<"block", Block(Top.stmts, i)>>) BY <1>3 DEF BlockEnds
  <1>5. i = x[2] BY <1>1, <1>2, <1>3, <1>4, CalledOwes, BlockHead
  <1> QED BY <1>1, <1>2, <1>4, <1>5, BlockResult

LEMMA BlockGoesOnFinishes ==
    ASSUME NEW R, Able(R), BlockGoesOn PROVE Finishes'
  <1>1. TypeOK /\ AllRead /\ Finishes /\ In("ParseBlock") /\ Called BY DEF Able, BlockGoesOn
  <1>2. Top.fn = "ParseBlock" BY <1>1 DEF In
  <1>3. PICK x \in Ranges(source) : Owes(source, Below, x) /\ Ready(source, Top, x, cur)
    BY <1>1, CalledOwes
  <1>4. PICK i, f, c : i = AfterSemicolons(cur) /\ f = Top /\ c = PlainFrame("ParseStmt")
    OBVIOUS
  <1>5. ~Ends(i) /\ CallFrom(i, f, c) BY <1>4 DEF BlockGoesOn
  <1>6. i \in Places(source) /\ EndsAt(source, f, x[2]) BY <1>1, <1>2, <1>3, <1>4, BlockHead
  <1>7. PICK k \in Places(source) : StatementTo(source, i, k) /\ MoreTo(source, i, k, x[2])
    BY <1>1, <1>2, <1>3, <1>4, <1>5, BlockHead
  <1>8. PICK y : y = <<i, k>> OBVIOUS
  <1>9. y \in Ranges(source) /\ y[1] = i /\ y[2] = k BY <1>6, <1>8, RangeParts
  <1>10. Pending(source, f, x, y) BY <1>2, <1>4, <1>6, <1>7, <1>9 DEF Pending
  <1>11. c.fn = "ParseStmt" BY <1>4 DEF PlainFrame
  <1>12. Ready(source, c, y, i) BY <1>7, <1>9, <1>11 DEF Ready, StatementCalls
  <1> QED BY <1>1, <1>3, <1>5, <1>6, <1>9, <1>10, <1>12, CallFinishes

LEMMA BlockGotStatementFinishes ==
    ASSUME NEW R, Able(R), BlockGotStatement PROVE Finishes'
  <1>1. /\ TypeOK /\ AllRead /\ Finishes /\ NestedIn(R)
        /\ In("ParseBlock") /\ Got("stmt") /\ "stmt" \in Results
    BY DEF Able, BlockGotStatement, Results
  <1>2. Top.fn = "ParseBlock" /\ ret[1] = "stmt" BY <1>1 DEF In, Got
  <1>3. PICK x, y \in Ranges(source) : /\ Owes(source, Below, x) /\ Pending(source, Top, x, y)
                                       /\ Done(source, ret, y, cur)
    BY <1>1, WaitingOwes
  <1>4. PICK e : e = x[2] OBVIOUS
  <1>5. EndsAt(source, Top, e) /\ MoreTo(source, y[1], y[2], e)
    BY <1>2, <1>3, <1>4 DEF Pending
  <1>6. /\ cur = y[2]
        /\ ret[2].node.kind = "ReturnStatement" <=> KindAt(source, y[1]) = "return"
    BY <1>2, <1>3 DEF Done, StoppedAt
  <1>7. ShapeOK(Top)
    <2>1. PICK b, p : Reading(R, source, Top, b, p) BY <1>1, WaitingStands
    <2> QED BY <2>1 DEF Reading
  <1>8. PICK stmts : stmts = Append(Top.stmts, ret[2]) OBVIOUS
  <1>9. CASE ret[2].node.kind = "ReturnStatement"
    <2>1. OnlySemicolons(source, cur, e) /\ cur <= e BY <1>5, <1>6, <1>9 DEF MoreTo
    <2>2. EnsureBlockEndsAfterReturn(stmts) BY <1>8, <1>9 DEF BlockGotStatement
    <2>3. PICK i : i = AfterSemicolons(cur) OBVIOUS
    <2>4. /\ i \in Places(source) /\ cur \in Places(source) /\ cur <= i
          /\ OnlySemicolons(source, cur, i)
      BY <1>1, <2>3, SemicolonsSkipped
    <2>5. KindAt(source, i) # ";"
      <3>1. cur \in 1..(Len(source) + 1) BY <1>1, TokensOfSource
      <3> QED BY <1>1, <2>3, <3>1, SemicolonsEnd, KindIs
    <2>6. KindAt(source, e) # ";" /\ KindAt(source, e) \in {"EOF"} \cup Top.ends
      BY <1>5 DEF EndsAt
    <2>7. i \in Nat /\ cur \in Nat /\ e \in Nat
      <3>1. e \in Places(source) BY <1>4, RangeParts
      <3> QED BY <1>1, <2>4, <3>1, PlacesAreNumbers
    <2>8. i = e BY <2>1, <2>4, <2>5, <2>6, <2>7, SemicolonsLeadTo
    <2>9. Ends(i) BY <2>6, <2>8, KindIs DEF Ends
    <2>10. Answer(x[2], <<"block", Block(stmts, i)>>)
      BY <1>4, <2>2, <2>3, <2>8, <2>9 DEF EnsureBlockEndsAfterReturn
    <2> QED BY <1>1, <1>3, <2>10, BlockResult
  <1>10. CASE ret[2].node.kind # "ReturnStatement"
    <2>1. PICK f : f = [Top EXCEPT !.stmts = stmts] OBVIOUS
    <2>2. GoOn(cur, Append(Below, f), <<"call">>) BY <1>8, <1>10, <2>1 DEF BlockGotStatement
    <2>3. f.fn = "ParseBlock" /\ f.ends = Top.ends BY <1>2, <1>7, <2>1, BlockFrameIs
    <2>4. <<"block", cur, e>> \in Language(source) BY <1>5, <1>6, <1>10 DEF MoreTo
    <2>5. EndsAt(source, f, e) BY <1>5, <2>3 DEF EndsAt
    <2>6. Ready(source, f, x, cur) BY <1>4, <2>3, <2>4, <2>5 DEF Ready, StatementCalls
    <2>7. cur \in Places(source) BY <1>1, PlacesAreNumbers
    <2> QED BY <1>1, <1>3, <2>2, <2>6, <2>7, PushFinishes
  <1> QED BY <1>9, <1>10

----------------------------------------------------------------------------
(* Statements, on a source of the grammar.                                 *)
LEMMA DispatchStatementFinishes ==
    ASSUME NEW R, Able(R), DispatchStatement PROVE Finishes'
  <1>1. /\ TypeOK /\ AllRead /\ Finishes /\ In("ParseStmt") /\ Called /\ Top.fn = "ParseStmt"
    BY DEF Able, DispatchStatement, In
  <1>2. PICK x \in Ranges(source) : Owes(source, Below, x) /\ Ready(source, Top, x, cur)
    BY <1>1, CalledOwes
  <1>3. x[1] = cur /\ StatementTo(source, cur, x[2]) BY <1>1, <1>2 DEF Ready, StatementCalls
  <1>4. PICK callee : callee = StatementParser(Kind(cur)) OBVIOUS
  <1>5. PICK early :
            CallFrom(cur, [fn |-> "MakeStatement", start |-> cur, early |-> early], callee)
    BY <1>4 DEF DispatchStatement
  <1>6. PICK f : f = [fn |-> "MakeStatement", start |-> cur, early |-> early] OBVIOUS
  <1>7. f.fn = "MakeStatement" BY <1>6
  <1>8. Pending(source, f, x, x) BY <1>7 DEF Pending
  <1>9. callee.fn \in StatementCalls \ {"ParseStmt"}
    BY <1>4 DEF StatementParser, PlainFrame, IfFrame, StatementCalls
  <1>10. Ready(source, callee, x, cur) BY <1>3, <1>9 DEF Ready, StatementCalls
  <1>11. cur \in Places(source) BY <1>1, PlacesAreNumbers
  <1> QED BY <1>1, <1>2, <1>5, <1>6, <1>8, <1>10, <1>11, CallFinishes

LEMMA NodeFinishes ==
    ASSUME TypeOK, AllRead, NEW x \in Ranges(source), Owes(source, Below, x), NEW i,
           NEW n, Answer(i, <<"node", n>>), StoppedAt(source, n, x, i)
    PROVE  Finishes'
  <1>1. PICK r : r = <<"node", n>> OBVIOUS
  <1>2. r[1] = "node" /\ r[2] = n /\ i \in Places(source) BY <1>1, RangeParts DEF StoppedAt
  <1>3. Done(source, r, x, i) BY <1>2 DEF Done
  <1> QED BY <1>1, <1>2, <1>3, AnswerFinishes DEF Results

LEMMA MakeStatementFinishes ==
    ASSUME NEW R, Able(R), MakeStatement PROVE Finishes'
  <1>1. /\ TypeOK /\ AllRead /\ Finishes /\ In("MakeStatement") /\ Got("node")
        /\ "node" \in Results /\ ret[1] = "node"
    BY DEF Able, MakeStatement, Results, Got
  <1>2. Top.fn = "MakeStatement" BY <1>1 DEF In
  <1>3. PICK x, y \in Ranges(source) : /\ Owes(source, Below, x) /\ Pending(source, Top, x, y)
                                       /\ Done(source, ret, y, cur)
    BY <1>1, WaitingOwes
  <1>4. y = x BY <1>2, <1>3 DEF Pending
  <1>5. StoppedAt(source, ret[2], x, cur) BY <1>1, <1>3, <1>4 DEF Done
  <1>6. PICK r : r = <<"stmt", [node |-> ret[2], span |-> StatementSpan(Top)]>> OBVIOUS
  <1>7. r[1] = "stmt" /\ r[2].node = ret[2] BY <1>6
  <1>8. Done(source, r, x, cur) BY <1>5, <1>7 DEF Done
  <1>9. cur \in Places(source) BY <1>1, PlacesAreNumbers
  <1>10. Answer(cur, r) BY <1>6 DEF MakeStatement
  <1> QED BY <1>1, <1>3, <1>7, <1>8, <1>9, <1>10, AnswerFinishes DEF Results

(* A statement's function, just called.                                    *)
LEMMA StatementIsReady ==
    ASSUME NEW R, Able(R), NEW fn, In(fn), Called,
           fn \in {"ParseVarDecl", "ParseRetStmt", "ParseExprStmt", "ParseIfStmt"}
    PROVE  /\ TypeOK /\ AllRead /\ Top.fn = fn /\ cur \in Places(source)
           /\ Fresh(R, source, Top, cur, cur)
           /\ \E x \in Ranges(source) : /\ Owes(source, Below, x) /\ x[1] = cur
                                        /\ StatementTo(source, cur, x[2])
  <1>1. TypeOK /\ AllRead /\ NestedIn(R) /\ Finishes BY DEF Able
  <1>2. PICK x \in Ranges(source) : Owes(source, Below, x) /\ Ready(source, Top, x, cur)
    BY <1>1, CalledOwes
  <1>3. Top.fn = fn BY <1>1, CalledOwes
  <1>4. x[1] = cur /\ StatementTo(source, cur, x[2]) BY <1>2, <1>3 DEF Ready, StatementCalls
  <1>5. fn \in StatementFunctions BY DEF StatementFunctions
  <1>6. Fresh(R, source, Top, cur, cur) /\ cur \in Places(source) BY <1>1, <1>5, StatementCalled
  <1> QED BY <1>1, <1>2, <1>3, <1>4, <1>6

(* An expression that some call waits for, whatever its operators.         *)
LEMMA WholeExpression ==
    ASSUME NEW R, Able(R), NEW fn, In(fn), Got("expr"),
           fn \in {"Initializer", "ParseRetStmt", "ParseExprStmt", "ParseIfStmt", "Paren"}
    PROVE  /\ TypeOK /\ AllRead /\ Top.fn = fn /\ cur \in Places(source)
           /\ fn = "ParseIfStmt" => Top.cond = <<>>
           /\ \E x, y \in Ranges(source) :
                  Owes(source, Below, x) /\ Pending(source, Top, x, y) /\ y[2] = cur
  <1>1. /\ TypeOK /\ AllRead /\ NestedIn(R) /\ Finishes /\ "expr" \in Results
        /\ ret[1] = "expr" /\ cur \in Places(source)
    BY PlacesAreNumbers DEF Able, Results, Got
  <1>2. PICK x, y \in Ranges(source) : /\ Owes(source, Below, x) /\ Pending(source, Top, x, y)
                                       /\ Done(source, ret, y, cur)
    BY <1>1, WaitingOwes
  <1>3. Top.fn = fn BY <1>1, WaitingOwes
  <1>4. PICK p : Fulfils(R, source, Awaits(Top), ret, p, cur) BY <1>1, WaitingStands
  <1>5. PICK w : w = Awaits(Top) OBVIOUS
  <1>6. w[1] # "block" BY <1>1, <1>4, <1>5 DEF Fulfils
  <1>7. fn = "ParseIfStmt" => Top.cond = <<>> BY <1>3, <1>5, <1>6 DEF Awaits
  <1>8. w = <<"expr", 0>> BY <1>3, <1>5, <1>7 DEF Awaits
  <1>9. w[1] = "expr" /\ w[2] = 0 BY <1>8
  <1>10. ~(Precedence(KindAt(source, cur)) >= 0) BY <1>4, <1>5, <1>9 DEF Fulfils
  <1>11. KindAt(source, cur) \notin BinaryKinds BY <1>10, Precedences
  <1>12. RestTo(source, cur, y[2]) BY <1>1, <1>2 DEF Done
  <1>13. y[2] = cur BY <1>11, <1>12 DEF RestTo, Rest
  <1> QED BY <1>1, <1>2, <1>3, <1>7, <1>13

(* A call of ParseExpr for an expression that can be read.                 *)
LEMMA ExprIsReady ==
    ASSUME NEW s, NEW min, NEW i \in Places(s), NEW e \in Places(s), ExprTo(s, i, e)
    PROVE  \E y \in Ranges(s) : y[2] = e /\ Ready(s, ExprFrame(min), y, i)
  <1>1. PICK f, y : f = ExprFrame(min) /\ y = <<i, e>> OBVIOUS
  <1>2. f.fn = "ParseExpr" BY <1>1 DEF ExprFrame
  <1>3. y \in Ranges(s) /\ y[2] = e BY <1>1, RangeParts
  <1>4. Ready(s, f, y, i) BY <1>2, <1>3 DEF Ready, StatementCalls
  <1> QED BY <1>1, <1>3, <1>4

LEMMA ParseVarDeclFinishes ==
    ASSUME NEW R, Able(R), ParseVarDecl PROVE Finishes'
  <1>1. In("ParseVarDecl") /\ Called BY DEF ParseVarDecl
  <1>2. /\ TypeOK /\ AllRead /\ Top.fn = "ParseVarDecl" /\ cur \in Places(source)
        /\ Fresh(R, source, Top, cur, cur)
    BY <1>1, StatementIsReady
  <1>3. PICK x \in Ranges(source) : /\ Owes(source, Below, x) /\ x[1] = cur
                                    /\ StatementTo(source, cur, x[2])
    BY <1>1, StatementIsReady
  <1>4. Kind(cur) \in {"Name", "local"} /\ KindAt(source, cur) = Kind(cur)
    BY <1>2, KindIs DEF Fresh
  <1>5. PICK name : name = IF Kind(cur) = "local" THEN cur + 1 ELSE cur OBVIOUS
  <1>6. DeclTo(source, name, x[2]) BY <1>3, <1>4, <1>5 DEF StatementTo
  <1>7. name \in Places(source)
    <2>1. Kind(cur) = "local" => cur + 1 \in Places(source) BY <1>2, TokenAt
    <2> QED BY <1>2, <1>5, <2>1
  <1>8. Kind(name) = "Name" BY <1>6, KindIs DEF DeclTo
  <1>9. PICK j : j = name + 1 OBVIOUS
  <1>10. j \in Places(source) /\ name \in Nat BY <1>2, <1>7, <1>8, <1>9, TokenAt
  <1>11. KindAt(source, x[1]) # "return" BY <1>3, <1>4
  <1>12. CASE Kind(j) = "="
    <2>1. PICK p : p = name + 2 OBVIOUS
    <2>2. p = j + 1 BY <1>9, <1>10, <2>1
    <2>3. p \in Places(source) BY <1>2, <1>10, <1>12, <2>2, TokenAt
    <2>4. PICK f, c : f = [fn |-> "Initializer", name |-> name] /\ c = ExprFrame(0) OBVIOUS
    <2>5. CallFrom(p, f, c) BY <1>5, <1>8, <1>9, <1>12, <2>1, <2>4 DEF ParseVarDecl
    <2>6. ExprTo(source, p, x[2]) BY <1>6, <1>9, <1>12, <2>1, KindIs DEF DeclTo
    <2>7. PICK y \in Ranges(source) : y[2] = x[2] /\ Ready(source, c, y, p)
      BY <2>3, <2>4, <2>6, ExprIsReady, RangeParts
    <2>8. f.fn = "Initializer" BY <2>4
    <2>9. Pending(source, f, x, y) BY <1>11, <2>7, <2>8 DEF Pending
    <2> QED BY <1>2, <1>3, <2>3, <2>5, <2>7, <2>9, CallFinishes
  <1>13. CASE Kind(j) # "="
    <2>1. PICK n : n = VarDecl(name, <<>>) OBVIOUS
    <2>2. Answer(j, <<"node", n>>) BY <1>5, <1>8, <1>9, <1>13, <2>1 DEF ParseVarDecl
    <2>3. x[2] = j BY <1>6, <1>9, <1>13, KindIs DEF DeclTo
    <2>4. n.kind # "ReturnStatement" BY <2>1 DEF VarDecl
    <2>5. StoppedAt(source, n, x, j) BY <1>11, <2>3, <2>4 DEF StoppedAt
    <2> QED BY <1>2, <1>3, <2>2, <2>5, NodeFinishes
  <1> QED BY <1>12, <1>13

LEMMA VarDeclInitializedFinishes ==
    ASSUME NEW R, Able(R), VarDeclInitialized PROVE Finishes'
  <1>1. In("Initializer") /\ Got("expr") BY DEF VarDeclInitialized
  <1>2. TypeOK /\ AllRead /\ Top.fn = "Initializer" BY <1>1, WholeExpression
  <1>3. PICK x, y \in Ranges(source) :
            Owes(source, Below, x) /\ Pending(source, Top, x, y) /\ y[2] = cur
    BY <1>1, WholeExpression
  <1>4. cur = x[2] /\ KindAt(source, x[1]) # "return" BY <1>2, <1>3 DEF Pending
  <1>5. PICK n : n = VarDecl(Top.name, <<ret[2]>>) OBVIOUS
  <1>6. Answer(cur, <<"node", n>>) BY <1>5 DEF VarDeclInitialized
  <1>7. n.kind # "ReturnStatement" BY <1>5 DEF VarDecl
  <1>8. StoppedAt(source, n, x, cur) BY <1>4, <1>7 DEF StoppedAt
  <1> QED BY <1>2, <1>3, <1>6, <1>8, NodeFinishes

LEMMA ParseRetStmtFinishes ==
    ASSUME NEW R, Able(R), ParseRetStmt PROVE Finishes'
  <1>1. In("ParseRetStmt") /\ Called BY DEF ParseRetStmt
  <1>2. /\ TypeOK /\ AllRead /\ Top.fn = "ParseRetStmt" /\ cur \in Places(source)
        /\ Fresh(R, source, Top, cur, cur)
    BY <1>1, StatementIsReady
  <1>3. PICK x \in Ranges(source) : /\ Owes(source, Below, x) /\ x[1] = cur
                                    /\ StatementTo(source, cur, x[2])
    BY <1>1, StatementIsReady
  <1>4. KindAt(source, cur) = "return" /\ Kind(cur) = "return" BY <1>2, KindIs DEF Fresh
  <1>5. PICK p : p = cur + 1 OBVIOUS
  <1>6. p \in Places(source) BY <1>2, <1>4, <1>5, TokenAt
  <1>7. IF KindAt(source, p) \in {"EOF", ";"} THEN x[2] = p ELSE ExprTo(source, p, x[2])
    BY <1>3, <1>4, <1>5 DEF StatementTo
  <1>8. CASE Kind(p) \in {"EOF", ";"}
    <2>1. PICK n : n = Return(<<>>) OBVIOUS
    <2>2. Answer(p, <<"node", n>>) BY <1>5, <1>8, <2>1 DEF ParseRetStmt
    <2>3. n.kind = "ReturnStatement" BY <2>1 DEF Return
    <2>4. x[2] = p BY <1>7, <1>8, KindIs
    <2>5. StoppedAt(source, n, x, p) BY <1>3, <1>4, <2>3, <2>4 DEF StoppedAt
    <2> QED BY <1>2, <1>3, <2>2, <2>5, NodeFinishes
  <1>9. CASE Kind(p) \notin {"EOF", ";"}
    <2>1. PICK f, c : f = Top /\ c = ExprFrame(0) OBVIOUS
    <2>2. CallFrom(p, f, c) BY <1>5, <1>9, <2>1 DEF ParseRetStmt
    <2>3. ExprTo(source, p, x[2]) BY <1>7, <1>9, KindIs
    <2>4. PICK y \in Ranges(source) : y[2] = x[2] /\ Ready(source, c, y, p)
      BY <1>6, <2>1, <2>3, ExprIsReady, RangeParts
    <2>5. Pending(source, f, x, y) BY <1>2, <1>3, <1>4, <2>1, <2>4 DEF Pending
    <2> QED BY <1>2, <1>3, <1>6, <2>2, <2>4, <2>5, CallFinishes
  <1> QED BY <1>8, <1>9

LEMMA RetStmtGotExprFinishes ==
    ASSUME NEW R, Able(R), RetStmtGotExpr PROVE Finishes'
  <1>1. In("ParseRetStmt") /\ Got("expr") BY DEF RetStmtGotExpr
  <1>2. TypeOK /\ AllRead /\ Top.fn = "ParseRetStmt" BY <1>1, WholeExpression
  <1>3. PICK x, y \in Ranges(source) :
            Owes(source, Below, x) /\ Pending(source, Top, x, y) /\ y[2] = cur
    BY <1>1, WholeExpression
  <1>4. cur = x[2] /\ KindAt(source, x[1]) = "return" BY <1>2, <1>3 DEF Pending
  <1>5. PICK n : n = Return(<<ret[2]>>) OBVIOUS
  <1>6. Answer(cur, <<"node", n>>) BY <1>5 DEF RetStmtGotExpr
  <1>7. n.kind = "ReturnStatement" BY <1>5 DEF Return
  <1>8. StoppedAt(source, n, x, cur) BY <1>4, <1>7 DEF StoppedAt
  <1> QED BY <1>2, <1>3, <1>6, <1>8, NodeFinishes

LEMMA ParseExprStmtFinishes ==
    ASSUME NEW R, Able(R), ParseExprStmt PROVE Finishes'
  <1>1. In("ParseExprStmt") /\ Called BY DEF ParseExprStmt
  <1>2. /\ TypeOK /\ AllRead /\ Top.fn = "ParseExprStmt" /\ cur \in Places(source)
        /\ Fresh(R, source, Top, cur, cur)
    BY <1>1, StatementIsReady
  <1>3. PICK x \in Ranges(source) : /\ Owes(source, Below, x) /\ x[1] = cur
                                    /\ StatementTo(source, cur, x[2])
    BY <1>1, StatementIsReady
  <1>4. KindAt(source, cur) \notin StatementKinds BY <1>2 DEF Fresh
  <1>5. KindAt(source, cur) # "return" BY <1>4 DEF StatementKinds
  <1>6. ExprTo(source, cur, x[2]) BY <1>3, <1>4 DEF StatementTo
  <1>7. PICK f, c : f = Top /\ c = ExprFrame(0) OBVIOUS
  <1>8. CallFrom(cur, f, c) BY <1>7 DEF ParseExprStmt
  <1>9. PICK y \in Ranges(source) : y[2] = x[2] /\ Ready(source, c, y, cur)
    BY <1>2, <1>6, <1>7, ExprIsReady, RangeParts
  <1>10. Pending(source, f, x, y) BY <1>2, <1>3, <1>5, <1>7, <1>9 DEF Pending
  <1> QED BY <1>2, <1>3, <1>8, <1>9, <1>10, CallFinishes

LEMMA ExprStmtGotExprFinishes ==
    ASSUME NEW R, Able(R), ExprStmtGotExpr PROVE Finishes'
  <1>1. In("ParseExprStmt") /\ Got("expr") BY DEF ExprStmtGotExpr
  <1>2. TypeOK /\ AllRead /\ Top.fn = "ParseExprStmt" BY <1>1, WholeExpression
  <1>3. PICK x, y \in Ranges(source) :
            Owes(source, Below, x) /\ Pending(source, Top, x, y) /\ y[2] = cur
    BY <1>1, WholeExpression
  <1>4. cur = x[2] /\ KindAt(source, x[1]) # "return" BY <1>2, <1>3 DEF Pending
  <1>5. PICK n : n = ExprStmt(ret[2]) OBVIOUS
  <1>6. Answer(cur, <<"node", n>>) BY <1>5 DEF ExprStmtGotExpr
  <1>7. n.kind # "ReturnStatement" BY <1>5 DEF ExprStmt
  <1>8. StoppedAt(source, n, x, cur) BY <1>4, <1>7 DEF StoppedAt
  <1> QED BY <1>2, <1>3, <1>6, <1>8, NodeFinishes

----------------------------------------------------------------------------
(* If statements, on a source of the grammar.                              *)
LEMMA ParseIfStmtFinishes ==
    ASSUME NEW R, Able(R), ParseIfStmt PROVE Finishes'
  <1>1. In("ParseIfStmt") /\ Called BY DEF ParseIfStmt
  <1>2. /\ TypeOK /\ AllRead /\ Top.fn = "ParseIfStmt" /\ cur \in Places(source)
        /\ Fresh(R, source, Top, cur, cur)
    BY <1>1, StatementIsReady
  <1>3. PICK x \in Ranges(source) : /\ Owes(source, Below, x) /\ x[1] = cur
                                    /\ StatementTo(source, cur, x[2])
    BY <1>1, StatementIsReady
  <1>4. KindAt(source, cur) = "if" /\ Kind(cur) = "if" /\ Top.cond = <<>>
    BY <1>2, KindIs DEF Fresh
  <1>5. PICK p, f, c : p = cur + 1 /\ f = Top /\ c = ExprFrame(0) OBVIOUS
  <1>6. p \in Places(source) BY <1>2, <1>4, <1>5, TokenAt
  <1>7. PICK q \in Places(source) :
            <<"expr", p, q>> \in Language(source) /\ AfterCondition(source, q, x[2])
    BY <1>3, <1>4, <1>5 DEF StatementTo
  <1>8. ExprTo(source, p, q)
    <2>1. KindAt(source, q) = "then" BY <1>7 DEF AfterCondition
    <2>2. "then" \notin BinaryKinds BY DEF BinaryKinds, ComparisonKinds, FactorKinds
    <2> QED BY <1>7, <2>1, <2>2 DEF ExprTo
  <1>9. CallFrom(p, f, c) BY <1>5 DEF ParseIfStmt
  <1>10. PICK y \in Ranges(source) : y[2] = q /\ Ready(source, c, y, p)
    BY <1>5, <1>6, <1>8, ExprIsReady
  <1>11. Pending(source, f, x, y)
    BY <1>2, <1>3, <1>4, <1>5, <1>7, <1>10 DEF Pending, PendingIf
  <1> QED BY <1>2, <1>3, <1>6, <1>9, <1>10, <1>11, CallFinishes

(* A call of ParseBlock for a branch.                                      *)
LEMMA BranchIsReady ==
    ASSUME NEW s, NEW ends \in {{"else", "end"}, {"end"}},
           NEW i \in Places(s), NEW m \in Places(s), <<"block", i, m>> \in Language(s),
           KindAt(s, m) \in ends
    PROVE  \E y \in Ranges(s) : y[2] = m /\ Ready(s, BlockFrame(ends), y, i)
  <1>1. PICK f, y : f = BlockFrame(ends) /\ y = <<i, m>> OBVIOUS
  <1>2. f.fn = "ParseBlock" /\ f.ends = ends BY <1>1 DEF BlockFrame
  <1>3. y \in Ranges(s) /\ y[2] = m BY <1>1, RangeParts
  <1>4. EndsAt(s, f, m) BY <1>2 DEF EndsAt
  <1>5. Ready(s, f, y, i) BY <1>2, <1>3, <1>4 DEF Ready, StatementCalls
  <1> QED BY <1>1, <1>3, <1>5

LEMMA IfGotConditionFinishes ==
    ASSUME NEW R, Able(R), IfGotCondition PROVE Finishes'
  <1>1. In("ParseIfStmt") /\ Got("expr") BY DEF IfGotCondition
  <1>2. /\ TypeOK /\ AllRead /\ Top.fn = "ParseIfStmt" /\ cur \in Places(source)
        /\ Top.cond = <<>>
    BY <1>1, WholeExpression
  <1>3. PICK x, y \in Ranges(source) :
            Owes(source, Below, x) /\ Pending(source, Top, x, y) /\ y[2] = cur
    BY <1>1, WholeExpression
  <1>4. KindAt(source, x[1]) # "return" /\ AfterCondition(source, cur, x[2])
    BY <1>2, <1>3 DEF Pending, PendingIf
  <1>5. PICK j, c, f, g : /\ j = cur + 1 /\ c = <<ret[2]>> /\ f = IfFrame(c, <<>>)
                          /\ g = BlockFrame({"else", "end"})
    OBVIOUS
  <1>6. Kind(cur) = "then" BY <1>4, KindIs DEF AfterCondition
  <1>7. j \in Places(source) BY <1>2, <1>5, <1>6, TokenAt
  <1>8. PICK m \in Places(source) :
            <<"block", j, m>> \in Language(source) /\ AfterThen(source, m, x[2])
    BY <1>4, <1>5 DEF AfterCondition
  <1>9. KindAt(source, m) \in {"else", "end"} BY <1>8 DEF AfterThen, AfterElse
  <1>10. PICK z \in Ranges(source) : z[2] = m /\ Ready(source, g, z, j)
    BY <1>5, <1>7, <1>8, <1>9, BranchIsReady
  <1>11. CallFrom(j, f, g) BY <1>5, <1>6 DEF IfGotCondition
  <1>12. f.fn = "ParseIfStmt" /\ f.cond # <<>> /\ f.then = <<>> BY <1>5, IfFrameIs
  <1>13. Pending(source, f, x, z) BY <1>4, <1>8, <1>10, <1>12 DEF Pending, PendingIf
  <1> QED BY <1>2, <1>3, <1>7, <1>10, <1>11, <1>13, CallFinishes

LEMMA BranchIsRead ==
    ASSUME NEW R, Able(R), In("ParseIfStmt"), Got("block")
    PROVE  /\ TypeOK /\ AllRead /\ Top.fn = "ParseIfStmt" /\ cur \in Places(source)
           /\ \E x \in Ranges(source) :
                  /\ Owes(source, Below, x) /\ KindAt(source, x[1]) # "return"
                  /\ Top.then = <<>> => AfterThen(source, cur, x[2])
                  /\ Top.then # <<>> => AfterElse(source, cur, x[2])
  <1>1. TypeOK /\ AllRead /\ NestedIn(R) /\ Finishes /\ "block" \in Results /\ ret[1] = "block"
    BY DEF Able, Results, Got
  <1>2. Top.fn = "ParseIfStmt" /\ cur \in Places(source) /\ Top.cond # <<>>
    BY <1>1, BranchGot
  <1>3. PICK x, y \in Ranges(source) : /\ Owes(source, Below, x) /\ Pending(source, Top, x, y)
                                       /\ Done(source, ret, y, cur)
    BY <1>1, WaitingOwes
  <1>4. y[2] = cur BY <1>1, <1>3 DEF Done
  <1>5. KindAt(source, x[1]) # "return" /\ PendingIf(source, Top, cur, x[2])
    BY <1>2, <1>3, <1>4 DEF Pending
  <1> QED BY <1>1, <1>2, <1>3, <1>5 DEF PendingIf

LEMMA IfFinishes ==
    ASSUME TypeOK, AllRead, NEW x \in Ranges(source), Owes(source, Below, x),
           KindAt(source, x[1]) # "return", AfterElse(source, cur, x[2]),
           NEW c, NEW t, NEW e, Answer(cur + 1, <<"node", If(c, t, e)>>)
    PROVE  Finishes'
  <1>1. PICK n, j : n = If(c, t, e) /\ j = cur + 1 OBVIOUS
  <1>2. n.kind # "ReturnStatement" /\ x[2] = j BY <1>1 DEF If, AfterElse
  <1>3. StoppedAt(source, n, x, j) BY <1>2 DEF StoppedAt
  <1>4. Answer(j, <<"node", n>>) BY <1>1
  <1> QED BY <1>3, <1>4, NodeFinishes

LEMMA IfGotThenBranchFinishes ==
    ASSUME NEW R, Able(R), IfGotThenBranch PROVE Finishes'
  <1>1. In("ParseIfStmt") /\ Got("block") /\ Top.then = <<>> BY DEF IfGotThenBranch
  <1>2. TypeOK /\ AllRead /\ Top.fn = "ParseIfStmt" /\ cur \in Places(source)
    BY <1>1, BranchIsRead
  <1>3. PICK x \in Ranges(source) : /\ Owes(source, Below, x) /\ KindAt(source, x[1]) # "return"
                                    /\ AfterThen(source, cur, x[2])
    BY <1>1, BranchIsRead
  <1>4. CASE AfterElse(source, cur, x[2])
    <2>1. Kind(cur) = "end" BY <1>4, KindIs DEF AfterElse
    <2>2. Answer(cur + 1, <<"node", If(Top.cond[1], ret[2], <<>>)>>)
      BY <2>1 DEF IfGotThenBranch
    <2> QED BY <1>2, <1>3, <1>4, <2>2, IfFinishes
  <1>5. CASE /\ KindAt(source, cur) = "else"
             /\ \E m \in Places(source) : /\ <<"block", cur + 1, m>> \in Language(source)
                                          /\ AfterElse(source, m, x[2])
    <2>1. PICK m \in Places(source) : /\ <<"block", cur + 1, m>> \in Language(source)
                                      /\ AfterElse(source, m, x[2])
      BY <1>5
    <2>2. PICK j, t, f, g : /\ j = cur + 1 /\ t = <<ret[2]>> /\ f = IfFrame(Top.cond, t)
                            /\ g = BlockFrame({"end"})
      OBVIOUS
    <2>3. Kind(cur) = "else" BY <1>5, KindIs
    <2>4. j \in Places(source) BY <1>2, <2>2, <2>3, TokenAt
    <2>5. CallFrom(j, f, g) BY <2>2, <2>3 DEF IfGotThenBranch
    <2>6. PICK z \in Ranges(source) : z[2] = m /\ Ready(source, g, z, j)
      <3>1. KindAt(source, m) \in {"end"} BY <2>1 DEF AfterElse
      <3> QED BY <2>1, <2>2, <2>4, <3>1, BranchIsReady
    <2>7. f.fn = "ParseIfStmt" /\ f.cond = Top.cond /\ f.then # <<>> BY <2>2, IfFrameIs
    <2>8. Top.cond # <<>> BY <1>1, BranchGot DEF Able
    <2>9. Pending(source, f, x, z) BY <1>3, <2>1, <2>6, <2>7, <2>8 DEF Pending, PendingIf
    <2> QED BY <1>2, <1>3, <2>4, <2>5, <2>6, <2>9, CallFinishes
  <1> QED BY <1>3, <1>4, <1>5 DEF AfterThen

LEMMA IfGotElseBranchFinishes ==
    ASSUME NEW R, Able(R), IfGotElseBranch PROVE Finishes'
  <1>1. In("ParseIfStmt") /\ Got("block") /\ Top.then # <<>> BY DEF IfGotElseBranch
  <1>2. TypeOK /\ AllRead BY DEF Able
  <1>3. PICK x \in Ranges(source) : /\ Owes(source, Below, x) /\ KindAt(source, x[1]) # "return"
                                    /\ AfterElse(source, cur, x[2])
    BY <1>1, BranchIsRead
  <1>4. Kind(cur) = "end" BY <1>3, KindIs DEF AfterElse
  <1>5. Answer(cur + 1, <<"node", If(Top.cond[1], Top.then[1], <<ret[2]>>)>>)
    BY <1>4 DEF IfGotElseBranch
  <1> QED BY <1>2, <1>3, <1>5, IfFinishes

----------------------------------------------------------------------------
(* Expressions, on a source of the grammar.                                *)
LEMMA ExprFinishes ==
    ASSUME TypeOK, AllRead, NEW x \in Ranges(source), Owes(source, Below, x),
           NEW i \in Places(source), NEW e, Answer(i, <<"expr", e>>), RestTo(source, i, x[2])
    PROVE  Finishes'
  <1>1. PICK r : r = <<"expr", e>> OBVIOUS
  <1>2. r[1] = "expr" BY <1>1
  <1>3. Done(source, r, x, i) BY <1>2 DEF Done
  <1> QED BY <1>1, <1>2, <1>3, AnswerFinishes DEF Results

(* A function of an expression that is called, and one that has got one.   *)
LEMMA ExprCalled ==
    ASSUME NEW R, Able(R), NEW fn \in {"ParseExpr", "ParsePrimExpr"}, In(fn), Called
    PROVE  /\ TypeOK /\ AllRead /\ Top.fn = fn /\ cur \in Places(source)
           /\ \E x \in Ranges(source) : Owes(source, Below, x) /\ ExprTo(source, cur, x[2])
  <1>1. TypeOK /\ AllRead /\ Finishes /\ cur \in Places(source) BY PlacesAreNumbers DEF Able
  <1>2. PICK x \in Ranges(source) : Owes(source, Below, x) /\ Ready(source, Top, x, cur)
    BY <1>1, CalledOwes
  <1>3. Top.fn = fn BY <1>1, CalledOwes
  <1>4. ExprTo(source, cur, x[2]) BY <1>2, <1>3 DEF Ready
  <1> QED BY <1>1, <1>2, <1>3, <1>4

LEMMA ExprWaits ==
    ASSUME NEW R, Able(R), NEW fn \in {"ParseExpr", "Unary"}, In(fn), Got("expr")
    PROVE  /\ TypeOK /\ AllRead /\ Top.fn = fn /\ cur \in Places(source)
           /\ \E x \in Ranges(source) : Owes(source, Below, x) /\ RestTo(source, cur, x[2])
  <1>1. /\ TypeOK /\ AllRead /\ Finishes /\ cur \in Places(source) /\ "expr" \in Results
        /\ ret[1] = "expr"
    BY PlacesAreNumbers DEF Able, Results, Got
  <1>2. PICK x, y \in Ranges(source) : /\ Owes(source, Below, x) /\ Pending(source, Top, x, y)
                                       /\ Done(source, ret, y, cur)
    BY <1>1, WaitingOwes
  <1>3. Top.fn = fn BY <1>1, WaitingOwes
  <1>4. y[2] = x[2] BY <1>2, <1>3 DEF Pending
  <1>5. RestTo(source, cur, x[2]) BY <1>1, <1>2, <1>4 DEF Done
  <1> QED BY <1>1, <1>2, <1>3, <1>5

LEMMA ParseExprFinishes ==
    ASSUME NEW R, Able(R), ParseExpr PROVE Finishes'
  <1>1. In("ParseExpr") /\ Called BY DEF ParseExpr
  <1>2. TypeOK /\ AllRead /\ Top.fn = "ParseExpr" /\ cur \in Places(source)
    BY <1>1, ExprCalled
  <1>3. PICK x \in Ranges(source) : Owes(source, Below, x) /\ ExprTo(source, cur, x[2])
    BY <1>1, ExprCalled
  <1>4. PICK f, c : f = Top /\ c = PlainFrame("ParsePrimExpr") OBVIOUS
  <1>5. CallFrom(cur, f, c) BY <1>4 DEF ParseExpr
  <1>6. c.fn = "ParsePrimExpr" BY <1>4 DEF PlainFrame
  <1>7. Ready(source, c, x, cur) BY <1>3, <1>6 DEF Ready, StatementCalls
  <1>8. Pending(source, f, x, x) BY <1>2, <1>4 DEF Pending
  <1> QED BY <1>2, <1>3, <1>5, <1>7, <1>8, CallFinishes

LEMMA ParseExprContinuesFinishes ==
    ASSUME NEW R, Able(R), ParseExprContinues PROVE Finishes'
  <1>1. In("ParseExpr") /\ Got("expr") /\ Binds(Top, Kind(cur)) BY DEF ParseExprContinues
  <1>2. TypeOK /\ AllRead /\ Top.fn = "ParseExpr" /\ cur \in Places(source)
    BY <1>1, ExprWaits
  <1>3. PICK x \in Ranges(source) : Owes(source, Below, x) /\ RestTo(source, cur, x[2])
    BY <1>1, ExprWaits
  <1>4. ShapeOK(Top)
    <2>1. NestedIn(R) /\ "expr" \in Results BY DEF Able, Results
    <2>2. PICK b, p : Reading(R, source, Top, b, p) BY <1>1, <2>1, WaitingStands
    <2> QED BY <2>2 DEF Reading
  <1>5. PICK op, min : op = Kind(cur) /\ min = Top.min OBVIOUS
  <1>6. op \in BinaryKinds
    <2>1. min \in Nat BY <1>2, <1>4, <1>5 DEF ShapeOK
    <2>2. Precedence(op) >= min BY <1>1, <1>5 DEF Binds
    <2> QED BY <2>1, <2>2, Precedences
  <1>7. PICK p, t, l, f, g : /\ p = cur + 1 /\ g = ExprFrame(RhsPrecedence(op))
                             /\ l = <<Combined(Top, ret[2])>> /\ t = Top
                             /\ f = [t EXCEPT !.lhs = l, !.op = op]
    OBVIOUS
  <1>8. CallFrom(p, f, g) BY <1>5, <1>7 DEF ParseExprContinues
  <1>9. f.fn = "ParseExpr"
    <2>1. PICK l0, o0 : t = [fn |-> "ParseExpr", min |-> min, lhs |-> l0, op |-> o0]
      BY <1>2, <1>4, <1>5, <1>7 DEF ShapeOK
    <2>2. f = [t EXCEPT !.lhs = l, !.op = op] BY <1>7
    <2> QED BY ONLY <2>1, <2>2
  <1>10. p \in Places(source) BY <1>2, <1>5, <1>6, <1>7, Precedences, TokenAt
  <1>11. ExprTo(source, p, x[2])
    <2>1. KindAt(source, cur) \in BinaryKinds BY <1>5, <1>6, KindIs
    <2> QED BY <1>3, <1>7, <2>1 DEF RestTo, Rest, ExprTo
  <1>12. PICK y \in Ranges(source) : y[2] = x[2] /\ Ready(source, g, y, p)
    BY <1>7, <1>10, <1>11, ExprIsReady, RangeParts
  <1>13. Pending(source, f, x, y) BY <1>9, <1>12 DEF Pending
  <1> QED BY <1>2, <1>3, <1>8, <1>10, <1>12, <1>13, CallFinishes

LEMMA ExprHandsOn ==
    ASSUME NEW R, Able(R), ParseExprEnds \/ UnaryGotOperand PROVE Finishes'
  <1>1. PICK fn \in {"ParseExpr", "Unary"} : In(fn) /\ Got("expr")
    BY DEF ParseExprEnds, UnaryGotOperand
  <1>2. \E e : Answer(cur, <<"expr", e>>) BY DEF ParseExprEnds, UnaryGotOperand
  <1>3. TypeOK /\ AllRead /\ cur \in Places(source) BY <1>1, ExprWaits
  <1>4. PICK x \in Ranges(source) : Owes(source, Below, x) /\ RestTo(source, cur, x[2])
    BY <1>1, ExprWaits
  <1> QED BY <1>2, <1>3, <1>4, ExprFinishes

(* An operand begins with what ParsePrimExpr takes.                        *)
LEMMA PrimIsThere ==
    ASSUME NEW R, Able(R), In("ParsePrimExpr"), Called
    PROVE  /\ TypeOK /\ AllRead /\ cur \in Places(source) /\ Kind(cur) \in PrimKinds
           /\ cur + 1 \in Places(source)
           /\ \E x \in Ranges(source) : /\ Owes(source, Below, x)
                                        /\ KindAt(source, x[2]) \notin BinaryKinds
                                        /\ ExprStarts(source, cur, x[2])
  <1>1. TypeOK /\ AllRead /\ cur \in Places(source) BY ExprCalled
  <1>2. PICK x \in Ranges(source) : Owes(source, Below, x) /\ ExprTo(source, cur, x[2])
    BY ExprCalled
  <1>3. Len(source) \in Nat BY <1>1, SourceLength
  <1>4. ExprStarts(source, cur, x[2]) BY <1>2, <1>3, ExpressionsStart DEF ExprTo
  <1>5. Kind(cur) \in PrimKinds BY <1>4, KindIs DEF ExprStarts
  <1>6. "EOF" \notin PrimKinds BY DEF PrimKinds, LiteralKinds, UnaryKinds
  <1>7. cur + 1 \in Places(source) BY <1>1, <1>5, <1>6, TokenAt
  <1>8. KindAt(source, x[2]) \notin BinaryKinds BY <1>2 DEF ExprTo
  <1> QED BY <1>1, <1>2, <1>4, <1>5, <1>7, <1>8

LEMMA ParsePrimLeafFinishes ==
    ASSUME NEW R, Able(R), ParsePrimLeaf PROVE Finishes'
  <1>1. In("ParsePrimExpr") /\ Called BY DEF ParsePrimLeaf
  <1>2. TypeOK /\ AllRead BY DEF Able
  <1>3. PICK i : i = cur + 1 OBVIOUS
  <1>4. i \in Places(source) BY <1>1, <1>3, PrimIsThere
  <1>5. PICK x \in Ranges(source) : /\ Owes(source, Below, x)
                                    /\ KindAt(source, x[2]) \notin BinaryKinds
                                    /\ ExprStarts(source, cur, x[2])
    BY <1>1, PrimIsThere
  <1>6. KindAt(source, cur) \in Operands BY KindIs DEF ParsePrimLeaf, Operands
  <1>7. RestTo(source, i, x[2]) BY <1>3, <1>5, <1>6 DEF ExprStarts, RestTo
  <1>8. \E e : Answer(i, <<"expr", e>>) BY <1>3 DEF ParsePrimLeaf
  <1> QED BY <1>2, <1>4, <1>5, <1>7, <1>8, ExprFinishes

LEMMA ParsePrimPrefixFinishes ==
    ASSUME NEW R, Able(R), ParsePrimPrefix PROVE Finishes'
  <1>1. In("ParsePrimExpr") /\ Called BY DEF ParsePrimPrefix
  <1>2. TypeOK /\ AllRead BY DEF Able
  <1>3. PICK i : i = cur + 1 OBVIOUS
  <1>4. i \in Places(source) BY <1>1, <1>3, PrimIsThere
  <1>5. PICK x \in Ranges(source) : /\ Owes(source, Below, x)
                                    /\ KindAt(source, x[2]) \notin BinaryKinds
                                    /\ ExprStarts(source, cur, x[2])
    BY <1>1, PrimIsThere
  <1>6. CASE /\ Kind(cur) \in UnaryKinds
             /\ CallFrom(i, [fn |-> "Unary", at |-> cur], ExprFrame(UnaryPrecedence))
    <2>1. PICK f, c : f = [fn |-> "Unary", at |-> cur] /\ c = ExprFrame(UnaryPrecedence)
      OBVIOUS
    <2>2. f.fn = "Unary" /\ CallFrom(i, f, c) BY <1>6, <2>1
    <2>3. ExprTo(source, i, x[2]) BY <1>3, <1>5, <1>6, KindIs DEF ExprStarts, ExprTo
    <2>4. PICK y \in Ranges(source) : y[2] = x[2] /\ Ready(source, c, y, i)
      BY <1>4, <2>1, <2>3, ExprIsReady, RangeParts
    <2>5. Pending(source, f, x, y) BY <2>2, <2>4 DEF Pending
    <2> QED BY <1>2, <1>4, <1>5, <2>2, <2>4, <2>5, CallFinishes
  <1>7. CASE /\ Kind(cur) = "("
             /\ CallFrom(i, [fn |-> "Paren", at |-> cur], ExprFrame(0))
    <2>1. PICK f, c : f = [fn |-> "Paren", at |-> cur] /\ c = ExprFrame(0) OBVIOUS
    <2>2. f.fn = "Paren" /\ CallFrom(i, f, c) BY <1>7, <2>1
    <2>3. PICK m \in Places(source) :
              /\ <<"expr", i, m>> \in Language(source)
              /\ KindAt(source, m) = ")" /\ Rest(source, m + 1, x[2])
      BY <1>3, <1>5, <1>7, KindIs DEF ExprStarts
    <2>4. ExprTo(source, i, m) BY <2>3, KindsDiffer DEF ExprTo
    <2>5. PICK y \in Ranges(source) : y[2] = m /\ Ready(source, c, y, i)
      BY <1>4, <2>1, <2>4, ExprIsReady
    <2>6. RestTo(source, m + 1, x[2]) BY <1>5, <2>3 DEF RestTo
    <2>7. Pending(source, f, x, y) BY <2>2, <2>3, <2>5, <2>6 DEF Pending
    <2> QED BY <1>2, <1>4, <1>5, <2>2, <2>5, <2>7, CallFinishes
  <1> QED BY <1>3, <1>6, <1>7 DEF ParsePrimPrefix

LEMMA ParsePrimDoesNotFail ==
    ASSUME NEW R, Able(R), ParsePrimEnd \/ ParsePrimError PROVE FALSE
  <1>1. In("ParsePrimExpr") /\ Called /\ Kind(cur) \notin PrimKinds
    <2>1. "EOF" \notin PrimKinds BY DEF PrimKinds, LiteralKinds, UnaryKinds
    <2> QED BY <2>1 DEF ParsePrimEnd, ParsePrimError, PrimAt
  <1> QED BY <1>1, PrimIsThere

LEMMA ParenFinishes ==
    ASSUME NEW R, Able(R), ParenClosed \/ ParenNotClosed PROVE Finishes'
  <1>1. In("Paren") /\ Got("expr") BY DEF ParenClosed, ParenNotClosed
  <1>2. TypeOK /\ AllRead /\ Top.fn = "Paren" /\ cur \in Places(source)
    BY <1>1, WholeExpression
  <1>3. PICK x, y \in Ranges(source) :
            Owes(source, Below, x) /\ Pending(source, Top, x, y) /\ y[2] = cur
    BY <1>1, WholeExpression
  <1>4. PICK i : i = cur + 1 OBVIOUS
  <1>5. KindAt(source, cur) = ")" /\ RestTo(source, i, x[2])
    BY <1>2, <1>3, <1>4 DEF Pending
  <1>6. Kind(cur) = ")" BY <1>5, KindIs
  <1>7. i \in Places(source) BY <1>2, <1>4, <1>6, TokenAt
  <1>8. ParenClosed BY <1>6 DEF ParenNotClosed
  <1>9. \E e : Answer(i, <<"expr", e>>) BY <1>4, <1>8 DEF ParenClosed
  <1> QED BY <1>2, <1>3, <1>5, <1>7, <1>9, ExprFinishes

----------------------------------------------------------------------------
(* Every step, and what follows from it.                                   *)
LEMMA StepFinishes ==
    ASSUME NEW R, Able(R), <<"block", 1, Len(source) + 1>> \in Language(source), [Next]_vars
    PROVE  Finishes'
  <1>1. CASE BlockStep
    BY <1>1, StartParseFinishes, BlockEndsFinishes, BlockGoesOnFinishes,
       BlockGotStatementFinishes DEF BlockStep
  <1>2. CASE StmtStep
    BY <1>2, DispatchStatementFinishes, MakeStatementFinishes, ParseVarDeclFinishes,
       VarDeclInitializedFinishes, ParseRetStmtFinishes, RetStmtGotExprFinishes,
       ParseExprStmtFinishes, ExprStmtGotExprFinishes, ParseIfStmtFinishes,
       IfGotConditionFinishes, IfGotThenBranchFinishes, IfGotElseBranchFinishes DEF StmtStep
  <1>3. CASE ExprStep
    BY <1>3, ParseExprFinishes, ParseExprContinuesFinishes, ExprHandsOn, ParsePrimLeafFinishes,
       ParsePrimPrefixFinishes, ParsePrimDoesNotFail, ParenFinishes DEF ExprStep
  <1>4. CASE UNCHANGED vars BY <1>4 DEF vars, Able, Finishes
  <1> QED BY <1>1, <1>2, <1>3, <1>4 DEF Next, Terminated

(* The inductive invariant: on a source of the grammar the parser is never *)
(* stuck with what it has read so far.                                     *)
FinishInv == <<"block", 1, Len(source) + 1>> \in Language(source) => Finishes

LEMMA ProgramsAreClean ==
    ASSUME TypeOK, <<"block", 1, Len(source) + 1>> \in Language(source)
    PROVE  AllRead
  <1>1. PICK n \in Nat : n = Len(source) BY TokensOfSource
  <1>2. Clean(source, 1, n + 1) BY <1>1, PhrasesAreClean
  <1>3. ASSUME NEW i \in Places(source) PROVE Kind(i) # "Bad"
    <2>1. i \in 1..(n + 1) BY <1>1 DEF Places
    <2>2. CASE i \in 1..(n + 1 - 1)
      BY <1>2, <2>2, KindIs DEF Clean
    <2>3. CASE ~(i <= n) BY <1>1, <2>3 DEF Kind
    <2>4. i \in 1..(n + 1 - 1) \/ ~(i <= n) BY <2>1
    <2> QED BY <2>2, <2>3, <2>4
  <1> QED BY <1>3 DEF AllRead

LEMMA FinishInvariant == Spec => []FinishInv
  <1>1. Init => FinishInv BY DEF Init, FinishInv, Finishes, CanFinish
  <1>2. ASSUME ParserInv, NestInv, FinishInv, [Next]_vars PROVE FinishInv'
    <2>1. TypeOK /\ source' = source BY <1>2, SourceStays DEF ParserInv
    <2>2. CASE <<"block", 1, Len(source) + 1>> \in Language(source)
      <3>1. AllRead /\ Finishes BY <1>2, <2>1, <2>2, ProgramsAreClean DEF FinishInv
      <3>2. \E R : NestedIn(R) BY <2>1, AllPhrasesObey, <1>2 DEF NestInv
      <3>3. Finishes' BY <1>2, <2>1, <2>2, <3>1, <3>2, StepFinishes DEF Able
      <3> QED BY <3>3 DEF FinishInv
    <2>3. CASE ~(<<"block", 1, Len(source) + 1>> \in Language(source))
      BY <2>1, <2>3 DEF FinishInv
    <2> QED BY <2>2, <2>3
  <1> QED BY <1>1, <1>2, ParserInvariant, NestInvariant, PTL DEF Spec

LEMMA FinishedIsExact ==
    ASSUME ParserInv, NestInv, FinishInv PROVE AcceptsExactlyTheGrammar
  <1> SUFFICES ASSUME Finished PROVE ret[1] = "block" <=> IsProgram(source)
    BY DEF AcceptsExactlyTheGrammar
  <1>1. TypeOK /\ Len(source) \in Nat BY TokensOfSource DEF ParserInv
  <1>2. IsProgram(source) <=> <<"block", 1, Len(source) + 1>> \in Language(source)
    <2>1. <<"block", 1, Len(source) + 1>> \in PhrasesOf(source)
      <3>1. 1 \in Places(source) /\ Len(source) + 1 \in Places(source) BY <1>1 DEF Places
      <3> QED BY <3>1 DEF PhrasesOf
    <2> QED BY <2>1 DEF IsProgram, Language
  <1>3. ASSUME ret[1] = "block" PROVE IsProgram(source)
    <2>1. Generated(source, "block", 1, Len(source) + 1)
      BY <1>3, FinishedIsGenerated DEF Got
    <2> QED BY <1>1, <1>2, <2>1, LanguageObeys DEF Generated
  <1>4. ASSUME IsProgram(source) PROVE ret[1] = "block"
    <2>1. Finishes BY <1>2, <1>4 DEF FinishInv
    <2>2. stack = <<>> /\ ret # <<"call">> BY DEF Finished, Called
    <2>3. ret[1] \in Results /\ ret[1] # "throw"
      BY <2>1, <2>2 DEF Finishes, CanFinish, Results
    <2>4. NestedIn(AllPhrases) BY <1>1, AllPhrasesObey DEF NestInv
    <2>5. PICK b : Fulfils(AllPhrases, source, Wants(stack), ret, b, cur)
      BY <2>2, <2>3, <2>4 DEF NestedIn, NestedWith
    <2>6. PICK w : w = Wants(stack) OBVIOUS
    <2>7. w[1] = "block" BY <2>2, <2>6 DEF Wants, Program
    <2> QED BY <2>5, <2>6, <2>7 DEF Fulfils
  <1> QED BY <1>3, <1>4

(* Parse makes a program of a source if and only if the grammar generates  *)
(* it, whatever the source: one token of lookahead is always enough, and   *)
(* what the parser takes greedily it never has to give back.               *)
THEOREM ParserAcceptsExactlyTheGrammar == Spec => []AcceptsExactlyTheGrammar
  <1>1. ParserInv /\ NestInv /\ FinishInv => AcceptsExactlyTheGrammar BY FinishedIsExact
  <1> QED BY <1>1, ParserInvariant, NestInvariant, FinishInvariant, PTL
====
