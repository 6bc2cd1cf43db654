---- MODULE LualikeLexerProofs ----
(***************************************************************************)
(* Theorems of LualikeLexer for every text over every set of characters.   *)
(* The tokens read so far are right and stay so; what has to be shown of   *)
(* each step is what it adds to them, and for that the invariant says what *)
(* each loop of the lexer has seen of the text between start and cursor.   *)
(***************************************************************************)
EXTENDS LualikeLexer, SequenceTheorems, TLAPS

Kinds ==
    {"Name", "Int", "Float", "String"} \cup kOtherSingleCharTokens
    \cup {kOtherTwoCharTokensMap[p] : p \in DOMAIN kOtherTwoCharTokensMap}
    \cup {kKeywordsMap[w] : w \in DOMAIN kKeywordsMap}
Tokens == [kind : Kinds, span : Spans]

IsLongest(t) ==
    /\ IsLexeme(t.span.begin, t.span.end) /\ t.kind = KindOf(t.span.begin, t.span.end)
    /\ ~IsComment(t.span.begin)
    /\ \A e \in (t.span.end + 1)..Size : ~IsLexeme(t.span.begin, e)

(* What the three readers have read.                                       *)
ReaderInv ==
    /\ mode = "word" => IsWord(start, cursor)
    /\ mode = "number" =>
           IsNumber(start, cursor) /\ (fraction <=> PointsIn(start, cursor) # {})
    /\ mode = "string" =>
           /\ start < cursor /\ At(start) \in Quotes
           /\ \A i \in (start + 1)..(cursor - 1) : At(i) # At(start)

(* The comment the lexer is in, which lies behind the last token.          *)
CommentInv ==
    mode = "comment" =>
        \E c \in EndOfLastToken..(cursor - 1) :
            IsComment(c) /\ \A k \in c..(cursor - 1) : At(k) # "\n"

(* The inductive invariant.                                                *)
LexerInv ==
    /\ TypeOK /\ tokens \in Seq(Tokens)
    /\ NothingIsSkipped /\ TokensAreLongestLexemes /\ FailuresAreReal
    /\ ReaderInv /\ CommentInv

----------------------------------------------------------------------------
(* The first character of a lexeme tells which kind it is of.              *)
Symbols == kOtherSingleCharTokens \cup {"~"}

LEMMA CharacterClasses ==
    /\ FirstOfWord \cap (Numeric \cup Quotes \cup Symbols \cup Spaces) = {}
    /\ Numeric \cap (Quotes \cup Points \cup Symbols \cup Spaces) = {}
    /\ Quotes \cap (Symbols \cup Spaces) = {} /\ Symbols \cap Spaces = {}
    /\ "-" \notin FirstOfWord \cup Numeric \cup Quotes \cup Spaces
    /\ "\n" \in Spaces
  BY CharacterAssumption
  DEF FirstOfWord, Quotes, Points, Symbols, kOtherSingleCharTokens, OtherChars

LEMMA TwoCharSymbols ==
    ASSUME NEW p \in DOMAIN kOtherTwoCharTokensMap
    PROVE  p[1] \in Symbols \ {"-"}
  <1>1. p \in {<<"/", "/">>} \cup ({"=", "~", "<", ">"} \X {"="})
    BY DEF kOtherTwoCharTokensMap
  <1>2. p[1] \in {"/", "=", "~", "<", ">"} BY <1>1
  <1> QED BY <1>2 DEF Symbols, kOtherSingleCharTokens

LEMMA FirstCharacter ==
    ASSUME NEW b, NEW e
    PROVE  /\ IsWord(b, e) => At(b) \in FirstOfWord
           /\ IsNumber(b, e) => At(b) \in Numeric
           /\ IsString(b, e) => At(b) \in Quotes
           /\ IsSymbol(b, e) => At(b) \in Symbols
  <1>1. IsSymbol(b, e) => At(b) \in Symbols
    BY TwoCharSymbols DEF IsSymbol, Symbols
  <1> QED BY <1>1 DEF IsWord, IsNumber, IsString

LEMMA LexemesDiffer ==
    ASSUME NEW b, NEW e
    PROVE  /\ At(b) \in FirstOfWord => (IsLexeme(b, e) <=> IsWord(b, e))
           /\ At(b) \in Numeric => (IsLexeme(b, e) <=> IsNumber(b, e))
           /\ At(b) \in Quotes => (IsLexeme(b, e) <=> IsString(b, e))
           /\ At(b) \in Symbols => (IsLexeme(b, e) <=> IsSymbol(b, e))
  BY FirstCharacter, CharacterClasses DEF IsLexeme

LEMMA KindOfLexeme ==
    ASSUME NEW b, NEW e
    PROVE  /\ IsWord(b, e) => KindOf(b, e) = KindOfWord(SubSeq(source, b + 1, e))
           /\ IsNumber(b, e) =>
                  KindOf(b, e) = IF PointsIn(b, e) = {} THEN "Int" ELSE "Float"
           /\ IsString(b, e) => KindOf(b, e) = "String"
           /\ IsSymbol(b, e) =>
                  KindOf(b, e) = IF e = b + 1 THEN At(b)
                                 ELSE kOtherTwoCharTokensMap[<<At(b), At(b + 1)>>]
  BY FirstCharacter, CharacterClasses DEF KindOf

LEMMA WordKinds ==
    ASSUME NEW word PROVE KindOfWord(word) \in Kinds
  BY DEF KindOfWord, Kinds

(* While the text stays, so does what it consists of.                      *)
LEMMA SameText ==
    ASSUME source' = source, NEW b, NEW e
    PROVE  /\ IsBlank(b, e)' <=> IsBlank(b, e)
           /\ IsComment(b)' <=> IsComment(b)
           /\ IsLexeme(b, e)' <=> IsLexeme(b, e)
           /\ IsNumber(b, e)' <=> IsNumber(b, e)
           /\ IsString(b, e)' <=> IsString(b, e)
           /\ KindOf(b, e)' = KindOf(b, e)
           /\ At(b)' = At(b) /\ Size' = Size
  BY DEF IsBlank, IsComment, IsLexeme, IsWord, IsNumber, IsString, IsSymbol, PointsIn,
         KindOf, At, Size

LEMMA SameLongest ==
    ASSUME source' = source, NEW t
    PROVE  IsLongest(t)' <=> IsLongest(t)
  BY SameText DEF IsLongest

----------------------------------------------------------------------------
(* What a step adds to the tokens: nothing, or one at the end.             *)
EndBefore(i) == IF i = 1 THEN 0 ELSE tokens[i - 1].span.end

TokensInv ==
    /\ tokens \in Seq(Tokens)
    /\ \A i \in DOMAIN tokens :
           /\ tokens[i].span \in [begin : 0..Size, end : 0..cursor]
           /\ IsLongest(tokens[i]) /\ IsBlank(EndBefore(i), tokens[i].span.begin)

LEMMA TokensOfInv ==
    ASSUME LexerInv
    PROVE  /\ TokensInv /\ source \in Seq(Characters) /\ Size \in Nat
           /\ cursor \in 0..Size /\ start \in 0..cursor
           /\ EndOfLastToken \in 0..cursor
  <1>1. source \in Seq(Characters) BY TextsAssumption DEF LexerInv, TypeOK
  <1>2. Size \in Nat BY <1>1, LenProperties DEF Size
  <1>3. cursor \in 0..Size /\ start \in 0..cursor BY DEF LexerInv, TypeOK
  <1>4. \A i \in DOMAIN tokens : tokens[i].span \in [begin : 0..Size, end : 0..cursor]
    BY DEF LexerInv, TypeOK
  <1>5. tokens \in Seq(Tokens) BY DEF LexerInv
  <1>6. ASSUME tokens # <<>> PROVE Len(tokens) \in DOMAIN tokens
    BY <1>5, <1>6, LenProperties, EmptySeq
  <1>7. EndOfLastToken \in 0..cursor
    BY <1>2, <1>3, <1>4, <1>6 DEF EndOfLastToken
  <1>8. ASSUME NEW i \in DOMAIN tokens
        PROVE  IsLongest(tokens[i]) /\ IsBlank(EndBefore(i), tokens[i].span.begin)
    BY DEF LexerInv, TokensAreLongestLexemes, IsLongest, NothingIsSkipped, EndBefore
  <1> QED BY <1>1, <1>2, <1>3, <1>4, <1>5, <1>7, <1>8 DEF TokensInv

LEMMA SameTokens ==
    ASSUME TokensInv, source' = source, tokens' = tokens,
           Size \in Nat, cursor \in 0..Size, cursor' \in cursor..Size
    PROVE  TokensInv' /\ EndOfLastToken' = EndOfLastToken
  <1>1. 0..cursor \subseteq 0..cursor' OBVIOUS
  <1>2. ASSUME NEW i \in DOMAIN tokens
        PROVE  /\ tokens'[i].span \in [begin : 0..Size', end : 0..cursor']
               /\ IsLongest(tokens[i])' /\ IsBlank(EndBefore(i), tokens[i].span.begin)'
    <2>1. PICK u, b : u = tokens[i] /\ b = EndBefore(i) OBVIOUS
    <2>2. tokens'[i] = u /\ EndBefore(i)' = b BY <2>1 DEF EndBefore
    <2>3. u.span \in [begin : 0..Size, end : 0..cursor] /\ IsLongest(u) /\ IsBlank(b, u.span.begin)
      BY <2>1 DEF TokensInv
    <2> QED BY <1>1, <2>2, <2>3, SameText, SameLongest
  <1> QED BY <1>2 DEF TokensInv, EndOfLastToken

LEMMA OneMoreToken ==
    ASSUME TokensInv, source' = source,
           NEW t \in Tokens, tokens' = Append(tokens, t),
           Size \in Nat, cursor \in 0..Size, cursor' \in cursor..Size,
           t.span \in [begin : 0..Size, end : 0..cursor'],
           IsLongest(t), IsBlank(EndOfLastToken, t.span.begin)
    PROVE  TokensInv' /\ EndOfLastToken' = t.span.end
  <1>1. PICK n \in Nat : n = Len(tokens) /\ DOMAIN tokens = 1..n
    BY LenProperties DEF TokensInv
  <1>2. tokens' \in Seq(Tokens) /\ Len(tokens') = n + 1 /\ DOMAIN tokens' = 1..(n + 1)
    BY <1>1, AppendProperties DEF TokensInv
  <1>3. tokens'[n + 1] = t /\ \A i \in 1..n : tokens'[i] = tokens[i]
    BY <1>1, AppendProperties DEF TokensInv
  <1>4. tokens' # <<>> BY <1>1, <1>2
  <1>5. EndOfLastToken' = t.span.end BY <1>2, <1>3, <1>4 DEF EndOfLastToken
  <1>6. \A i \in 1..n : EndBefore(i)' = EndBefore(i) BY <1>1, <1>3 DEF EndBefore
  <1>7. EndBefore(n + 1)' = EndOfLastToken
    <2>1. tokens = <<>> <=> n = 0 BY <1>1, EmptySeq DEF TokensInv
    <2> QED BY <1>1, <1>3, <2>1 DEF EndBefore, EndOfLastToken
  <1>8. ASSUME NEW i \in 1..(n + 1)
        PROVE  /\ tokens'[i].span \in [begin : 0..Size', end : 0..cursor']
               /\ IsLongest(tokens[i])' /\ IsBlank(EndBefore(i), tokens[i].span.begin)'
    <2>1. CASE i \in 1..n
      <3>1. PICK u, b : u = tokens[i] /\ b = EndBefore(i) BY <1>1
      <3>2. tokens'[i] = u /\ EndBefore(i)' = b BY <1>3, <1>6, <2>1, <3>1
      <3>3. u.span \in [begin : 0..Size, end : 0..cursor] /\ IsLongest(u) /\ IsBlank(b, u.span.begin)
        BY <1>1, <2>1, <3>1 DEF TokensInv
      <3>4. 0..cursor \subseteq 0..cursor' OBVIOUS
      <3> QED BY <3>2, <3>3, <3>4, SameText, SameLongest
    <2>2. CASE i = n + 1
      <3>1. PICK b : b = EndOfLastToken OBVIOUS
      <3>2. tokens'[i] = t /\ EndBefore(i)' = b BY <1>3, <1>7, <2>2, <3>1
      <3> QED BY <3>1, <3>2, SameText, SameLongest
    <2> QED BY <1>1, <2>1, <2>2
  <1> QED BY <1>2, <1>5, <1>8 DEF TokensInv

----------------------------------------------------------------------------
(* A step keeps the invariant if it keeps each part of it.                 *)
LEMMA PartsMakeInv ==
    ASSUME LexerInv, source' = source, TokensInv',
           cursor' \in 0..Size, start' \in 0..cursor',
           mode' \in Modes, fraction' \in BOOLEAN, failure' = <<>> <=> mode' # "failed",
           IsBlank(EndOfLastToken, ReadSoFar)', mode' = "end" => cursor' = Size,
           FailuresAreReal', ReaderInv', CommentInv'
    PROVE  LexerInv'
  <1>1. Size' = Size BY DEF Size
  <1>2. TypeOK' BY <1>1 DEF LexerInv, TypeOK, TokensInv
  <1>3. NothingIsSkipped' BY <1>1 DEF NothingIsSkipped, TokensInv, EndBefore
  <1>4. TokensAreLongestLexemes' BY DEF TokensAreLongestLexemes, TokensInv, IsLongest
  <1> QED BY <1>2, <1>3, <1>4 DEF LexerInv, TokensInv

LEMMA SpaceIsBlank ==
    ASSUME NEW b \in Nat, NEW e \in Nat, IsBlank(b, e), At(e) \in Spaces
    PROVE  IsBlank(b, e + 1)
  <1>1. \A i \in b..(e + 1 - 1) : i \in b..(e - 1) \/ i = e OBVIOUS
  <1> QED BY <1>1 DEF IsBlank

LEMMA CommentIsBlank ==
    ASSUME NEW b \in Nat, NEW e \in Nat, NEW f \in Nat, IsBlank(b, e), e <= f,
           NEW c \in b..e, IsComment(c), \A k \in c..(f - 1) : At(k) # "\n"
    PROVE  IsBlank(b, f)
  <1>1. \A i \in b..(f - 1) : i \in b..(e - 1) \/ (i >= c /\ c \in b..i /\ \A k \in c..i : k \in c..(f - 1))
    OBVIOUS
  <1> QED BY <1>1 DEF IsBlank

(* The steps that read no token.                                           *)
LEMMA MovePart ==
    ASSUME LexerInv, NEW m \in Modes \ {"failed"}, NEW c \in cursor..Size, Move(m, c),
           mode # "failed"
    PROVE  /\ TokensInv' /\ EndOfLastToken' = EndOfLastToken
           /\ source' = source /\ cursor' = c /\ cursor' \in 0..Size
           /\ mode' = m /\ mode' \in Modes
           /\ failure' = <<>> /\ FailuresAreReal'
  <1>1. failure = <<>> BY DEF LexerInv, TypeOK
  <1>2. /\ source' = source /\ tokens' = tokens /\ cursor' = c /\ mode' = m
        /\ failure' = <<>>
    BY <1>1 DEF Move
  <1>3. FailuresAreReal' BY <1>2 DEF FailuresAreReal
  <1> QED BY <1>2, <1>3, TokensOfInv, SameTokens

LEMMA BlankSoFar ==
    ASSUME source' = source, NEW b, NEW n, EndOfLastToken' = b, ReadSoFar' = n,
           IsBlank(b, n)
    PROVE  IsBlank(EndOfLastToken, ReadSoFar)'
  BY SameText

(* The steps over blanks keep the invariant: what they step over is blank. *)
LEMMA BlanksKeepInv ==
    ASSUME LexerInv, Blanks PROVE LexerInv'
  <1>1. PICK b, n : b = EndOfLastToken /\ n = cursor OBVIOUS
  <1>2. /\ b \in 0..n /\ n \in 0..Size /\ Size \in Nat /\ start \in 0..n
        /\ fraction \in BOOLEAN
    BY <1>1, TokensOfInv DEF LexerInv, TypeOK
  <1>3. mode \in {"blank", "comment"} /\ UNCHANGED <<start, fraction>>
    BY DEF Blanks, SkipSpace, StartComment, InComment, CommentEnds, EndOfText
  <1>4. IsBlank(b, n) BY <1>1, <1>3 DEF LexerInv, NothingIsSkipped, ReadSoFar
  <1>5. ASSUME NEW m \in {"blank", "comment", "end"}, NEW k \in n..Size, Move(m, k),
               IsBlank(b, k), m = "end" => k = Size,
               m = "comment" =>
                   \E c \in b..(k - 1) : IsComment(c) /\ \A i \in c..(k - 1) : At(i) # "\n"
        PROVE  LexerInv'
    <2>1. /\ TokensInv' /\ EndOfLastToken' = b
          /\ source' = source /\ cursor' = k /\ cursor' \in 0..Size
          /\ mode' = m /\ mode' \in Modes
          /\ failure' = <<>> /\ FailuresAreReal'
      BY <1>1, <1>3, <1>5, MovePart DEF Modes
    <2>2. start' \in 0..cursor' BY <1>2, <1>3, <2>1
    <2>3. ReadSoFar' = k BY <2>1 DEF ReadSoFar
    <2>4. IsBlank(EndOfLastToken, ReadSoFar)' BY <1>5, <2>1, <2>3, BlankSoFar
    <2>5. CommentInv'
      <3>1. m = "comment" =>
                \E c \in b..(k - 1) : IsComment(c)' /\ \A i \in c..(k - 1) : At(i)' # "\n"
        BY <1>5, <2>1 DEF IsComment, At, Size
      <3> QED BY <2>1, <3>1 DEF CommentInv
    <2>6. ReaderInv' BY <2>1 DEF ReaderInv
    <2>7. Size' = Size BY <2>1 DEF Size
    <2> QED BY <1>2, <1>3, <1>5, <2>1, <2>2, <2>4, <2>5, <2>6, <2>7, PartsMakeInv
  <1>6. CASE SkipSpace
    <2>1. n < Size /\ At(n) \in Spaces /\ Move("blank", n + 1)
      BY <1>1, <1>6 DEF SkipSpace, Sees
    <2>2. IsBlank(b, n + 1) BY <1>2, <1>4, <2>1, SpaceIsBlank
    <2> QED BY <1>2, <1>5, <2>1, <2>2
  <1>7. CASE StartComment
    <2>1. IsComment(n) /\ Move("comment", n + 2) BY <1>1, <1>7 DEF StartComment
    <2>2. n + 2 <= Size /\ \A i \in n..(n + 2 - 1) : At(i) # "\n"
      <3>1. n + 1 < Size /\ At(n) = "-" /\ At(n + 1) = "-" BY <2>1 DEF IsComment
      <3>2. \A i \in n..(n + 2 - 1) : i = n \/ i = n + 1 BY <1>2
      <3> QED BY <1>2, <3>1, <3>2
    <2>3. IsBlank(b, n + 2) BY <1>2, <1>4, <2>1, <2>2, CommentIsBlank
    <2>4. n \in b..(n + 2 - 1) /\ n + 2 \in n..Size BY <1>2, <2>2
    <2> QED BY <1>5, <2>1, <2>2, <2>3, <2>4
  <1>8. CASE InComment
    <2>1. PICK k \in n..Size : k = n + 1 /\ Move("comment", k)
      BY <1>1, <1>2, <1>8 DEF InComment, Sees
    <2>2. mode = "comment" /\ n < Size /\ At(n) # "\n"
      BY <1>1, <1>2, <1>8 DEF InComment, Sees
    <2>3. PICK c \in b..(n - 1) : IsComment(c) /\ \A i \in c..(n - 1) : At(i) # "\n"
      BY <1>1, <2>2 DEF LexerInv, CommentInv
    <2>4. \A i \in c..(k - 1) : i \in c..(n - 1) \/ i = n BY <1>2, <2>1
    <2>5. \A i \in c..(k - 1) : At(i) # "\n" BY <2>2, <2>3, <2>4
    <2>6. c \in b..(k - 1) /\ c \in b..n /\ k \in Nat /\ n <= k BY <1>2, <2>1
    <2>7. IsBlank(b, k) BY <1>2, <1>4, <2>3, <2>5, <2>6, CommentIsBlank
    <2> QED BY <1>5, <2>1, <2>3, <2>5, <2>6, <2>7
  <1>9. CASE CommentEnds
    <2>1. Move("blank", n) BY <1>1, <1>9 DEF CommentEnds
    <2> QED BY <1>2, <1>4, <1>5, <2>1
  <1>10. CASE EndOfText
    <2>1. Move("end", n) /\ n = Size BY <1>1, <1>10 DEF EndOfText
    <2> QED BY <1>2, <1>4, <1>5, <2>1
  <1> QED BY <1>6, <1>7, <1>8, <1>9, <1>10 DEF Blanks

----------------------------------------------------------------------------
(* The three ways to read a token on: to step over a character of it, to   *)
(* return it, and to refuse it.  What they begin at stays the same.        *)
LEMMA Advance ==
    ASSUME LexerInv, mode \notin {"comment", "end", "failed"},
           NEW m \in {"word", "number", "string"}, Move(m, cursor + 1), cursor < Size,
           start' = ReadSoFar, fraction' \in BOOLEAN, ReaderInv'
    PROVE  LexerInv'
  <1>1. PICK b, r, n : b = EndOfLastToken /\ r = ReadSoFar /\ n = cursor OBVIOUS
  <1>2. n \in 0..Size /\ start \in 0..n /\ Size \in Nat BY <1>1, TokensOfInv
  <1>3. r \in 0..n BY <1>1, <1>2 DEF ReadSoFar
  <1>4. IsBlank(b, r) BY <1>1 DEF LexerInv, NothingIsSkipped
  <1>5. n + 1 \in n..Size BY <1>1, <1>2
  <1>6. /\ TokensInv' /\ EndOfLastToken' = b
        /\ source' = source /\ cursor' = n + 1 /\ cursor' \in 0..Size
        /\ mode' = m /\ mode' \in Modes
        /\ failure' = <<>> /\ FailuresAreReal'
    BY <1>1, <1>5, MovePart DEF Modes
  <1>7. start' = r /\ start' \in 0..cursor' BY <1>1, <1>2, <1>3, <1>6
  <1>8. ReadSoFar' = r BY <1>6, <1>7 DEF ReadSoFar
  <1>9. IsBlank(EndOfLastToken, ReadSoFar)' BY <1>4, <1>6, <1>8, BlankSoFar
  <1>10. CommentInv' BY <1>6 DEF CommentInv
  <1>11. mode' # "end" /\ mode' # "failed" BY <1>6
  <1> QED BY <1>6, <1>7, <1>9, <1>10, <1>11, PartsMakeInv

LEMMA Return ==
    ASSUME LexerInv, mode \notin {"comment", "end", "failed"},
           NEW kind \in Kinds, NEW b, b = ReadSoFar, NEW e \in cursor..Size,
           Emit(kind, b, e), start' = b, IsLongest([kind |-> kind, span |-> Span(b, e)])
    PROVE  LexerInv'
  <1>1. PICK t : t = [kind |-> kind, span |-> Span(b, e)] OBVIOUS
  <1>2. cursor \in 0..Size /\ start \in 0..cursor /\ Size \in Nat BY TokensOfInv
  <1>3. b \in 0..cursor BY <1>2 DEF ReadSoFar
  <1>4. t \in Tokens /\ t.span.begin = b /\ t.span.end = e
    BY <1>1, <1>2, <1>3 DEF Tokens, Span, Spans
  <1>5. /\ source' = source /\ tokens' = Append(tokens, t) /\ cursor' = e
        /\ mode' = "blank" /\ fraction' = fraction /\ failure' = failure
    BY <1>1 DEF Emit
  <1>6. TokensInv' /\ EndOfLastToken' = e
    <2>1. TokensInv BY TokensOfInv
    <2>2. IsLongest(t) BY <1>1
    <2>3. IsBlank(EndOfLastToken, t.span.begin)
      BY <1>4 DEF LexerInv, NothingIsSkipped
    <2>4. t.span \in [begin : 0..Size, end : 0..cursor']
      BY <1>1, <1>2, <1>3, <1>5 DEF Span
    <2>5. cursor' \in cursor..Size BY <1>5
    <2> QED BY <1>2, <1>4, <1>5, <2>1, <2>2, <2>3, <2>4, <2>5, OneMoreToken
  <1>7. IsBlank(e, e) BY <1>2 DEF IsBlank
  <1>8. ReadSoFar' = e BY <1>5 DEF ReadSoFar
  <1>9. IsBlank(EndOfLastToken, ReadSoFar)' BY <1>5, <1>6, <1>7, <1>8, BlankSoFar
  <1>10. cursor' \in 0..Size /\ start' \in 0..cursor' BY <1>2, <1>3, <1>5
  <1>11. /\ mode' \in Modes /\ fraction' \in BOOLEAN
         /\ failure' = <<>> <=> mode' # "failed"
    BY <1>5 DEF LexerInv, TypeOK, Modes
  <1>12. FailuresAreReal' /\ ReaderInv' /\ CommentInv'
    BY <1>5 DEF FailuresAreReal, ReaderInv, CommentInv
  <1>13. mode' # "end" BY <1>5
  <1> QED BY <1>5, <1>6, <1>9, <1>10, <1>11, <1>12, <1>13, PartsMakeInv

LEMMA Refuse ==
    ASSUME LexerInv, mode \notin {"comment", "end", "failed"},
           NEW kind, NEW b, NEW e, b = ReadSoFar, Fail(kind, b, e),
           start' = b, cursor' = cursor, FailuresAreReal'
    PROVE  LexerInv'
  <1>1. cursor \in 0..Size /\ start \in 0..cursor /\ Size \in Nat BY TokensOfInv
  <1>2. b \in 0..cursor BY <1>1 DEF ReadSoFar
  <1>3. /\ source' = source /\ tokens' = tokens /\ mode' = "failed"
        /\ fraction' = fraction /\ failure' # <<>>
    BY DEF Fail
  <1>4. PICK z : z = EndOfLastToken OBVIOUS
  <1>5. TokensInv' /\ EndOfLastToken' = z
    <2>1. TokensInv /\ cursor' \in cursor..Size BY <1>1, TokensOfInv
    <2> QED BY <1>1, <1>3, <1>4, <2>1, SameTokens
  <1>6. ReadSoFar' = b BY <1>3 DEF ReadSoFar
  <1>7. IsBlank(z, b) BY <1>4 DEF LexerInv, NothingIsSkipped
  <1>8. IsBlank(EndOfLastToken, ReadSoFar)' BY <1>3, <1>5, <1>6, <1>7, BlankSoFar
  <1>9. cursor' \in 0..Size /\ start' \in 0..cursor' BY <1>1, <1>2
  <1>10. /\ mode' \in Modes /\ fraction' \in BOOLEAN
         /\ failure' = <<>> <=> mode' # "failed"
    BY <1>3 DEF LexerInv, TypeOK, Modes
  <1>11. ReaderInv' /\ CommentInv' /\ mode' # "end"
    BY <1>3 DEF ReaderInv, CommentInv
  <1> QED BY <1>3, <1>5, <1>8, <1>9, <1>10, <1>11, PartsMakeInv

----------------------------------------------------------------------------
(* A token that is begun: its first character chooses the reader.          *)
LEMMA BeginWordKeepsInv ==
    ASSUME LexerInv, BeginWord PROVE LexerInv'
  <1>1. PICK n, k : n = cursor /\ k = n + 1 OBVIOUS
  <1>2. n \in Nat /\ n < Size BY <1>1, TokensOfInv DEF BeginWord, Begins
  <1>3. /\ mode = "blank" /\ start' = n /\ At(n) \in FirstOfWord
        /\ Move("word", cursor + 1) /\ fraction' = fraction
    BY <1>1 DEF BeginWord, Begins
  <1>4. source' = source /\ cursor' = k /\ mode' = "word" BY <1>1, <1>3 DEF Move
  <1>5. n < k /\ \A i \in n..(k - 1) : i = n BY <1>1, <1>2
  <1>6. IsWord(n, k) BY <1>3, <1>5 DEF IsWord, Alphanumeric
  <1>7. ReaderInv' BY <1>3, <1>4, <1>6 DEF ReaderInv, IsWord, At
  <1>8. start' = ReadSoFar /\ fraction' \in BOOLEAN
    BY <1>1, <1>3 DEF ReadSoFar, LexerInv, TypeOK
  <1> QED BY <1>1, <1>2, <1>3, <1>7, <1>8, Advance

LEMMA BeginNumberKeepsInv ==
    ASSUME LexerInv, BeginNumber PROVE LexerInv'
  <1>1. PICK n, k : n = cursor /\ k = n + 1 OBVIOUS
  <1>2. n \in Nat /\ n < Size BY <1>1, TokensOfInv DEF BeginNumber, Begins
  <1>3. /\ mode = "blank" /\ start' = n /\ At(n) \in Numeric
        /\ Move("number", cursor + 1) /\ fraction' = FALSE
    BY <1>1 DEF BeginNumber, Begins
  <1>4. source' = source /\ cursor' = k /\ mode' = "number" BY <1>1, <1>3 DEF Move
  <1>5. n < k /\ \A i \in n..(k - 1) : i = n BY <1>1, <1>2
  <1>6. PointsIn(n, k) = {} BY <1>3, <1>5, CharacterClasses DEF PointsIn
  <1>7. IsNumber(n, k) BY <1>3, <1>5, <1>6 DEF IsNumber
  <1>8. ReaderInv' BY <1>3, <1>4, <1>6, <1>7 DEF ReaderInv, IsNumber, PointsIn, At
  <1>9. start' = ReadSoFar BY <1>1, <1>3 DEF ReadSoFar
  <1> QED BY <1>1, <1>2, <1>3, <1>8, <1>9, Advance

LEMMA BeginStringKeepsInv ==
    ASSUME LexerInv, BeginString PROVE LexerInv'
  <1>1. PICK n, k : n = cursor /\ k = n + 1 OBVIOUS
  <1>2. n \in Nat /\ n < Size BY <1>1, TokensOfInv DEF BeginString, Begins
  <1>3. /\ mode = "blank" /\ start' = n /\ At(n) \in Quotes
        /\ Move("string", cursor + 1) /\ fraction' = fraction
    BY <1>1 DEF BeginString, Begins
  <1>4. source' = source /\ cursor' = k /\ mode' = "string" BY <1>1, <1>3 DEF Move
  <1>5. n < k /\ (n + 1)..(k - 1) = {} BY <1>1, <1>2
  <1>6. ReaderInv' BY <1>3, <1>4, <1>5 DEF ReaderInv, At
  <1>7. start' = ReadSoFar /\ fraction' \in BOOLEAN
    BY <1>1, <1>3 DEF ReadSoFar, LexerInv, TypeOK
  <1> QED BY <1>1, <1>2, <1>3, <1>6, <1>7, Advance

----------------------------------------------------------------------------
(* A token of one or two symbols is returned at once.                      *)
LEMMA TwoCharTokenKeepsInv ==
    ASSUME LexerInv, TwoCharToken PROVE LexerInv'
  <1>1. PICK n, k : n = cursor /\ k = n + 2 OBVIOUS
  <1>2. n \in Nat /\ n < Size /\ Size \in Nat
    BY <1>1, TokensOfInv DEF TwoCharToken, Begins
  <1>3. PICK p : p = <<At(n), At(n + 1)>> OBVIOUS
  <1>4. PICK kind : kind = kOtherTwoCharTokensMap[p] OBVIOUS
  <1>5. /\ mode = "blank" /\ start' = n /\ Emit(kind, n, k)
        /\ p \in DOMAIN kOtherTwoCharTokensMap /\ n + 1 < Size
    BY <1>1, <1>3, <1>4 DEF TwoCharToken, Begins, IsTwoCharToken
  <1>6. IsSymbol(n, k) BY <1>1, <1>2, <1>3, <1>5 DEF IsSymbol
  <1>7. At(n) \in Symbols \ {"-"} BY <1>3, <1>5, TwoCharSymbols
  <1>8. IsLongest([kind |-> kind, span |-> Span(n, k)])
    <2>1. KindOf(n, k) = kind
      BY <1>1, <1>2, <1>3, <1>4, <1>6, KindOfLexeme
    <2>2. ~IsComment(n) BY <1>7 DEF IsComment
    <2>3. ASSUME NEW e \in (k + 1)..Size PROVE ~IsLexeme(n, e)
      <3>1. ~IsSymbol(n, e) BY <1>1, <1>2 DEF IsSymbol
      <3> QED BY <1>7, <3>1, LexemesDiffer
    <2> QED BY <1>6, <2>1, <2>2, <2>3 DEF IsLongest, IsLexeme, Span
  <1>9. kind \in Kinds BY <1>4, <1>5 DEF Kinds
  <1>10. n = ReadSoFar /\ k \in cursor..Size BY <1>1, <1>2, <1>5 DEF ReadSoFar
  <1> QED BY <1>5, <1>8, <1>9, <1>10, Return

LEMMA OneCharTokenKeepsInv ==
    ASSUME LexerInv, OneCharToken PROVE LexerInv'
  <1>1. PICK n, k : n = cursor /\ k = n + 1 OBVIOUS
  <1>2. n \in Nat /\ n < Size /\ Size \in Nat
    BY <1>1, TokensOfInv DEF OneCharToken, Begins
  <1>3. PICK kind : kind = At(n) OBVIOUS
  <1>4. /\ mode = "blank" /\ start' = n /\ Emit(kind, n, k)
        /\ kind \in kOtherSingleCharTokens /\ ~IsComment(n) /\ ~IsTwoCharToken(n)
    BY <1>1, <1>3 DEF OneCharToken, Begins, IsOther
  <1>5. IsSymbol(n, k) BY <1>1, <1>3, <1>4 DEF IsSymbol
  <1>6. IsLongest([kind |-> kind, span |-> Span(n, k)])
    <2>1. KindOf(n, k) = kind BY <1>1, <1>3, <1>5, KindOfLexeme
    <2>2. ASSUME NEW e \in (k + 1)..Size PROVE ~IsLexeme(n, e)
      <3>1. ~IsSymbol(n, e) BY <1>1, <1>2, <1>4 DEF IsSymbol, IsTwoCharToken
      <3> QED BY <1>3, <1>4, <3>1, LexemesDiffer DEF Symbols
    <2> QED BY <1>4, <1>5, <2>1, <2>2 DEF IsLongest, IsLexeme, Span
  <1>7. kind \in Kinds BY <1>4 DEF Kinds
  <1>8. n = ReadSoFar /\ k \in cursor..Size BY <1>1, <1>2, <1>4 DEF ReadSoFar
  <1> QED BY <1>4, <1>6, <1>7, <1>8, Return

LEMMA InvalidSymbolKeepsInv ==
    ASSUME LexerInv, InvalidSymbol PROVE LexerInv'
  <1>1. PICK n, k : n = cursor /\ k = n + 1 OBVIOUS
  <1>2. n \in Nat /\ n < Size /\ Size \in Nat
    BY <1>1, TokensOfInv DEF InvalidSymbol, Begins
  <1>3. /\ mode = "blank" /\ start' = n /\ cursor' = cursor
        /\ Fail("InvalidSymbol", n, k) /\ IsOther(n)
        /\ At(n) \notin kOtherSingleCharTokens
    BY <1>1 DEF InvalidSymbol, Begins
  <1>4. ~IsBlank(n, k)
    <2>1. n \in n..(k - 1) /\ \A c \in n..n : c = n BY <1>1, <1>2
    <2> QED BY <1>3, <2>1 DEF IsBlank, IsOther
  <1>5. ASSUME NEW i \in k..Size PROVE ~IsLexeme(n, i)
    <2>1. ~IsSymbol(n, i) BY <1>1, <1>2, <1>3 DEF IsSymbol, IsOther, IsTwoCharToken
    <2> QED BY <1>3, <2>1, FirstCharacter DEF IsLexeme, IsOther, Alphanumeric
  <1>6. FailuresAreReal'
    <2>1. /\ source' = source
          /\ failure' = <<[kind |-> "InvalidSymbol", span |-> Span(n, k)]>>
      BY <1>3 DEF Fail
    <2>2. /\ failure'[1].span.begin = n /\ failure'[1].span.end = k
          /\ failure'[1].kind = "InvalidSymbol" /\ Size' = Size
      BY <2>1 DEF Span, Size
    <2>3. ~IsBlank(n, k)' /\ \A i \in k..Size' : ~IsLexeme(n, i)'
      BY <1>4, <1>5, <2>1, <2>2, SameText
    <2>4. n < k /\ k <= Size BY <1>1, <1>2
    <2> QED BY <1>1, <1>3, <2>2, <2>3, <2>4 DEF FailuresAreReal
  <1>7. n = ReadSoFar BY <1>1, <1>3 DEF ReadSoFar
  <1> QED BY <1>3, <1>6, <1>7, Refuse

----------------------------------------------------------------------------
(* Words.                                                                  *)
LEMMA WordGoesOnKeepsInv ==
    ASSUME LexerInv, WordGoesOn PROVE LexerInv'
  <1>1. PICK b, n, k : b = start /\ n = cursor /\ k = n + 1 OBVIOUS
  <1>2. n \in Nat /\ b \in 0..n /\ n < Size
    BY <1>1, TokensOfInv DEF WordGoesOn, Sees
  <1>3. /\ mode = "word" /\ start' = b /\ At(n) \in Alphanumeric
        /\ Move("word", cursor + 1) /\ fraction' = fraction
    BY <1>1 DEF WordGoesOn, Sees
  <1>4. source' = source /\ cursor' = k /\ mode' = "word" BY <1>1, <1>3 DEF Move
  <1>5. IsWord(b, n) BY <1>1, <1>3 DEF LexerInv, ReaderInv
  <1>6. b < k /\ \A i \in b..(k - 1) : i \in b..(n - 1) \/ i = n BY <1>1, <1>2
  <1>7. IsWord(b, k) BY <1>3, <1>5, <1>6 DEF IsWord
  <1>8. ReaderInv' BY <1>3, <1>4, <1>7 DEF ReaderInv, IsWord, At
  <1>9. start' = ReadSoFar /\ fraction' \in BOOLEAN
    BY <1>1, <1>3 DEF ReadSoFar, LexerInv, TypeOK
  <1> QED BY <1>1, <1>2, <1>3, <1>8, <1>9, Advance

LEMMA WordEndsKeepsInv ==
    ASSUME LexerInv, WordEnds PROVE LexerInv'
  <1>1. PICK b, n : b = start /\ n = cursor OBVIOUS
  <1>2. n \in 0..Size /\ b \in 0..n /\ Size \in Nat BY <1>1, TokensOfInv
  <1>3. PICK kind : kind = KindOfWord(SubSeq(source, b + 1, n)) OBVIOUS
  <1>4. /\ mode = "word" /\ start' = b /\ Emit(kind, b, n)
        /\ n < Size => At(n) \notin Alphanumeric
    BY <1>1, <1>3 DEF WordEnds, Sees
  <1>5. IsWord(b, n) BY <1>1, <1>4 DEF LexerInv, ReaderInv
  <1>6. IsLongest([kind |-> kind, span |-> Span(b, n)])
    <2>1. KindOf(b, n) = kind BY <1>3, <1>5, KindOfLexeme
    <2>2. At(b) \in FirstOfWord /\ ~IsComment(b)
      BY <1>5, CharacterClasses DEF IsWord, IsComment
    <2>3. ASSUME NEW e \in (n + 1)..Size PROVE ~IsLexeme(b, e)
      <3>1. n \in b..(e - 1) /\ n < Size BY <1>2
      <3>2. ~IsWord(b, e) BY <1>4, <3>1 DEF IsWord
      <3> QED BY <2>2, <3>2, LexemesDiffer
    <2> QED BY <1>5, <2>1, <2>2, <2>3 DEF IsLongest, IsLexeme, Span
  <1>7. kind \in Kinds BY <1>3, WordKinds
  <1>8. b = ReadSoFar /\ n \in cursor..Size BY <1>1, <1>2, <1>4 DEF ReadSoFar
  <1> QED BY <1>4, <1>6, <1>7, <1>8, Return

----------------------------------------------------------------------------
(* Numbers: the flag tells whether a point has been read.                  *)
LEMMA NumberGoesOnKeepsInv ==
    ASSUME LexerInv, NumberGoesOn PROVE LexerInv'
  <1>1. PICK b, n, k, f : b = start /\ n = cursor /\ k = n + 1 /\ f = fraction OBVIOUS
  <1>2. n \in Nat /\ b \in 0..n /\ n < Size
    BY <1>1, TokensOfInv DEF NumberGoesOn, Sees
  <1>3. /\ mode = "number" /\ start' = b /\ Move("number", cursor + 1)
        /\ \/ At(n) \in Numeric /\ fraction' = f
           \/ At(n) \in Points /\ ~f /\ fraction' = TRUE
    BY <1>1 DEF NumberGoesOn, Sees
  <1>4. source' = source /\ cursor' = k /\ mode' = "number" BY <1>1, <1>3 DEF Move
  <1>5. IsNumber(b, n) /\ (f <=> PointsIn(b, n) # {})
    BY <1>1, <1>3 DEF LexerInv, ReaderInv
  <1>6. b < k /\ n \in b..(k - 1) /\ b..(n - 1) \subseteq b..(k - 1)
        /\ \A i \in b..(k - 1) : i \in b..(n - 1) \/ i = n
    BY <1>1, <1>2
  <1>7. IsNumber(b, k) /\ (fraction' <=> PointsIn(b, k) # {})
    <2>1. CASE At(n) \in Numeric /\ fraction' = f
      <3>1. At(n) \notin Points BY <2>1, CharacterClasses
      <3>2. PointsIn(b, k) = PointsIn(b, n) BY <1>6, <3>1 DEF PointsIn
      <3> QED BY <1>5, <1>6, <2>1, <3>2 DEF IsNumber
    <2>2. CASE At(n) \in Points /\ ~f /\ fraction' = TRUE
      <3>1. PointsIn(b, n) = {} BY <1>5, <2>2
      <3>2. PointsIn(b, k) = {n} BY <1>6, <2>2, <3>1 DEF PointsIn
      <3> QED BY <1>5, <1>6, <2>2, <3>2 DEF IsNumber
    <2> QED BY <1>3, <2>1, <2>2
  <1>8. ReaderInv'
    <2>1. IsNumber(b, k)' <=> IsNumber(b, k) BY <1>4 DEF IsNumber, PointsIn, At
    <2>2. PointsIn(b, k)' = PointsIn(b, k) BY <1>4 DEF PointsIn, At
    <2> QED BY <1>3, <1>4, <1>7, <2>1, <2>2 DEF ReaderInv
  <1>9. start' = ReadSoFar BY <1>1, <1>3 DEF ReadSoFar
  <1>10. fraction' \in BOOLEAN BY <1>1, <1>3 DEF LexerInv, TypeOK
  <1> QED BY <1>1, <1>2, <1>3, <1>8, <1>9, <1>10, Advance

LEMMA SecondPointKeepsInv ==
    ASSUME LexerInv, SecondPoint PROVE LexerInv'
  <1>1. PICK b, n, k : b = start /\ n = cursor /\ k = n + 1 OBVIOUS
  <1>2. n \in Nat /\ b \in 0..n /\ n < Size /\ Size \in Nat
    BY <1>1, TokensOfInv DEF SecondPoint, Sees
  <1>3. /\ mode = "number" /\ start' = b /\ cursor' = cursor /\ At(n) \in Points
        /\ fraction /\ Fail("InvalidNumber", b, k)
    BY <1>1 DEF SecondPoint, Sees
  <1>4. IsNumber(b, n) /\ PointsIn(b, n) # {}
    BY <1>1, <1>3 DEF LexerInv, ReaderInv
  <1>5. ~IsNumber(b, k)
    <2>1. PICK i \in b..(n - 1) : At(i) \in Points BY <1>4 DEF PointsIn
    <2>2. i \in b..(k - 1) /\ n \in b..(k - 1) /\ i # n BY <1>1, <1>2
    <2>3. i \in PointsIn(b, k) /\ n \in PointsIn(b, k)
      BY <1>3, <2>1, <2>2 DEF PointsIn
    <2> QED BY <2>2, <2>3 DEF IsNumber
  <1>6. FailuresAreReal'
    <2>1. /\ source' = source
          /\ failure' = <<[kind |-> "InvalidNumber", span |-> Span(b, k)]>>
      BY <1>3 DEF Fail
    <2>2. /\ failure'[1].span.begin = b /\ failure'[1].span.end = k
          /\ failure'[1].kind = "InvalidNumber" /\ Size' = Size
      BY <2>1 DEF Span, Size
    <2>3. IsNumber(b, n)' /\ ~IsNumber(b, k)' /\ At(n)' \in Points
      BY <1>3, <1>4, <1>5, <2>1 DEF IsNumber, PointsIn, At
    <2>4. b < k /\ k <= Size /\ k - 1 = n BY <1>1, <1>2
    <2> QED BY <1>3, <2>2, <2>3, <2>4 DEF FailuresAreReal
  <1>7. b = ReadSoFar BY <1>1, <1>3 DEF ReadSoFar
  <1> QED BY <1>3, <1>6, <1>7, Refuse

LEMMA NumberEndsKeepsInv ==
    ASSUME LexerInv, NumberEnds PROVE LexerInv'
  <1>1. PICK b, n : b = start /\ n = cursor OBVIOUS
  <1>2. n \in 0..Size /\ b \in 0..n /\ Size \in Nat BY <1>1, TokensOfInv
  <1>3. PICK kind : kind = IF fraction THEN "Float" ELSE "Int" OBVIOUS
  <1>4. /\ mode = "number" /\ start' = b /\ Emit(kind, b, n)
        /\ n < Size => At(n) \notin Numeric \cup Points
    BY <1>1, <1>3 DEF NumberEnds, Sees
  <1>5. IsNumber(b, n) /\ (fraction <=> PointsIn(b, n) # {})
    BY <1>1, <1>4 DEF LexerInv, ReaderInv
  <1>6. IsLongest([kind |-> kind, span |-> Span(b, n)])
    <2>1. KindOf(b, n) = kind BY <1>3, <1>5, KindOfLexeme
    <2>2. At(b) \in Numeric /\ ~IsComment(b)
      BY <1>5, CharacterClasses DEF IsNumber, IsComment
    <2>3. ASSUME NEW e \in (n + 1)..Size PROVE ~IsLexeme(b, e)
      <3>1. n \in b..(e - 1) /\ n < Size BY <1>2
      <3>2. ~IsNumber(b, e) BY <1>4, <3>1 DEF IsNumber
      <3> QED BY <2>2, <3>2, LexemesDiffer
    <2> QED BY <1>5, <2>1, <2>2, <2>3 DEF IsLongest, IsLexeme, Span
  <1>7. kind \in Kinds BY <1>3 DEF Kinds
  <1>8. b = ReadSoFar /\ n \in cursor..Size BY <1>1, <1>2, <1>4 DEF ReadSoFar
  <1> QED BY <1>4, <1>6, <1>7, <1>8, Return

----------------------------------------------------------------------------
(* Strings: the quote that opens one has not been met again.               *)
LEMMA StringGoesOnKeepsInv ==
    ASSUME LexerInv, StringGoesOn PROVE LexerInv'
  <1>1. PICK b, n, k : b = start /\ n = cursor /\ k = n + 1 OBVIOUS
  <1>2. n \in Nat /\ b \in 0..n /\ n < Size
    BY <1>1, TokensOfInv DEF StringGoesOn
  <1>3. /\ mode = "string" /\ start' = b /\ At(n) # At(b)
        /\ Move("string", cursor + 1) /\ fraction' = fraction
    BY <1>1 DEF StringGoesOn, Sees
  <1>4. source' = source /\ cursor' = k /\ mode' = "string" BY <1>1, <1>3 DEF Move
  <1>5. b < n /\ At(b) \in Quotes /\ \A i \in (b + 1)..(n - 1) : At(i) # At(b)
    BY <1>1, <1>3 DEF LexerInv, ReaderInv
  <1>6. b < k /\ \A i \in (b + 1)..(k - 1) : i \in (b + 1)..(n - 1) \/ i = n
    BY <1>1, <1>2
  <1>7. \A i \in (b + 1)..(k - 1) : At(i) # At(b) BY <1>3, <1>5, <1>6
  <1>8. ReaderInv' BY <1>3, <1>4, <1>5, <1>6, <1>7 DEF ReaderInv, At
  <1>9. start' = ReadSoFar /\ fraction' \in BOOLEAN
    BY <1>1, <1>3 DEF ReadSoFar, LexerInv, TypeOK
  <1> QED BY <1>1, <1>2, <1>3, <1>8, <1>9, Advance

LEMMA StringEndsKeepsInv ==
    ASSUME LexerInv, StringEnds PROVE LexerInv'
  <1>1. PICK b, n, k : b = start /\ n = cursor /\ k = n + 1 OBVIOUS
  <1>2. n \in Nat /\ b \in 0..n /\ n < Size /\ Size \in Nat
    BY <1>1, TokensOfInv DEF StringEnds, Sees
  <1>3. /\ mode = "string" /\ start' = b /\ Emit("String", b, k) /\ At(n) = At(b)
    BY <1>1 DEF StringEnds, Sees
  <1>4. b < n /\ At(b) \in Quotes /\ \A i \in (b + 1)..(n - 1) : At(i) # At(b)
    BY <1>1, <1>3 DEF LexerInv, ReaderInv
  <1>5. IsString(b, k)
    <2>1. b + 1 < k /\ k - 1 = n BY <1>1, <1>2, <1>4
    <2>2. \A i \in (b + 1)..(k - 1) :
              (i \in (b + 1)..(n - 1) /\ i # k - 1) \/ (i = n /\ i = k - 1)
      BY <1>1, <1>2
    <2> QED BY <1>3, <1>4, <2>1, <2>2 DEF IsString
  <1>6. IsLongest([kind |-> "String", span |-> Span(b, k)])
    <2>1. KindOf(b, k) = "String" BY <1>5, KindOfLexeme
    <2>2. ~IsComment(b) BY <1>4, CharacterClasses DEF IsComment
    <2>3. ASSUME NEW e \in (k + 1)..Size PROVE ~IsLexeme(b, e)
      <3>1. n \in (b + 1)..(e - 1) /\ n # e - 1 BY <1>1, <1>2, <1>4
      <3>2. ~IsString(b, e) BY <1>3, <3>1 DEF IsString
      <3> QED BY <1>4, <3>2, LexemesDiffer
    <2> QED BY <1>5, <2>1, <2>2, <2>3 DEF IsLongest, IsLexeme, Span
  <1>7. b = ReadSoFar /\ k \in cursor..Size BY <1>1, <1>2, <1>3 DEF ReadSoFar
  <1> QED BY <1>3, <1>6, <1>7, Return DEF Kinds

LEMMA UnclosedStringKeepsInv ==
    ASSUME LexerInv, UnclosedString PROVE LexerInv'
  <1>1. PICK b, n : b = start /\ n = cursor OBVIOUS
  <1>2. n \in Nat /\ b \in 0..n /\ n = Size
    BY <1>1, TokensOfInv DEF UnclosedString
  <1>3. /\ mode = "string" /\ start' = b /\ cursor' = cursor
        /\ Fail("InvalidString", b, n)
    BY <1>1 DEF UnclosedString
  <1>4. b < n /\ At(b) \in Quotes /\ \A i \in (b + 1)..(n - 1) : At(i) # At(b)
    BY <1>1, <1>3 DEF LexerInv, ReaderInv
  <1>5. ASSUME NEW i \in (b + 1)..Size PROVE ~IsString(b, i)
    <2>1. SUFFICES ASSUME b + 1 < i PROVE ~IsString(b, i) BY DEF IsString
    <2>2. i - 1 \in (b + 1)..(i - 1) /\ i - 1 \in (b + 1)..(n - 1) BY <1>2, <2>1
    <2> QED BY <1>4, <2>2 DEF IsString
  <1>6. FailuresAreReal'
    <2>1. /\ source' = source
          /\ failure' = <<[kind |-> "InvalidString", span |-> Span(b, n)]>>
      BY <1>3 DEF Fail
    <2>2. /\ failure'[1].span.begin = b /\ failure'[1].span.end = n
          /\ failure'[1].kind = "InvalidString" /\ Size' = Size
      BY <2>1 DEF Span, Size
    <2>3. At(b)' \in Quotes /\ \A i \in (b + 1)..Size' : ~IsString(b, i)'
      BY <1>4, <1>5, <2>1, <2>2 DEF IsString, At
    <2> QED BY <1>2, <1>3, <1>4, <2>2, <2>3 DEF FailuresAreReal
  <1>7. b = ReadSoFar BY <1>1, <1>3 DEF ReadSoFar
  <1> QED BY <1>3, <1>6, <1>7, Refuse

----------------------------------------------------------------------------
LEMMA IdleKeepsInv ==
    ASSUME LexerInv, UNCHANGED vars PROVE LexerInv'
  <1>1. /\ source' = source /\ cursor' = cursor /\ mode' = mode /\ start' = start
        /\ fraction' = fraction /\ tokens' = tokens /\ failure' = failure
    BY DEF vars
  <1>2. TokensInv' /\ EndOfLastToken' = EndOfLastToken
    <2>1. cursor' \in cursor..Size BY <1>1, TokensOfInv
    <2> QED BY <1>1, <2>1, TokensOfInv, SameTokens
  <1>3. /\ TypeOK' /\ cursor' \in 0..Size /\ start' \in 0..cursor'
        /\ mode' = "end" => cursor' = Size
    BY <1>1, TokensOfInv DEF LexerInv, TypeOK, NothingIsSkipped, Size
  <1>4. IsBlank(EndOfLastToken, ReadSoFar)'
    <2>1. PICK b, n : b = EndOfLastToken /\ n = ReadSoFar OBVIOUS
    <2>2. IsBlank(b, n) /\ EndOfLastToken' = b /\ ReadSoFar' = n
      BY <1>1, <2>1 DEF LexerInv, NothingIsSkipped, ReadSoFar, EndOfLastToken
    <2> QED BY <1>1, <2>2, BlankSoFar
  <1>5. ReaderInv' BY <1>1 DEF LexerInv, ReaderInv, IsWord, IsNumber, PointsIn, At
  <1>6. CommentInv'
    BY <1>1, <1>2 DEF LexerInv, CommentInv, IsComment, At, Size
  <1>7. FailuresAreReal'
    <2>1. SUFFICES ASSUME mode = "failed" PROVE FailuresAreReal'
      BY <1>1 DEF FailuresAreReal
    <2>2. PICK b, e : b = failure[1].span.begin /\ e = failure[1].span.end OBVIOUS
    <2>3. failure'[1].span.begin = b /\ failure'[1].span.end = e BY <1>1, <2>2
    <2>4. FailuresAreReal BY DEF LexerInv
    <2> QED BY <1>1, <2>1, <2>2, <2>3, <2>4, SameText DEF FailuresAreReal
  <1> QED BY <1>1, <1>2, <1>3, <1>4, <1>5, <1>6, <1>7, PartsMakeInv DEF TypeOK

LEMMA NextKeepsInv ==
    ASSUME LexerInv, [Next]_vars PROVE LexerInv'
  <1>1. CASE Blanks BY <1>1, BlanksKeepInv
  <1>2. CASE Beginnings
    BY <1>2, BeginWordKeepsInv, BeginNumberKeepsInv, BeginStringKeepsInv,
       TwoCharTokenKeepsInv, OneCharTokenKeepsInv, InvalidSymbolKeepsInv DEF Beginnings
  <1>3. CASE Readers
    BY <1>3, WordGoesOnKeepsInv, WordEndsKeepsInv, NumberGoesOnKeepsInv,
       SecondPointKeepsInv, NumberEndsKeepsInv, StringGoesOnKeepsInv,
       StringEndsKeepsInv, UnclosedStringKeepsInv DEF Readers
  <1>4. CASE UNCHANGED vars BY <1>4, IdleKeepsInv
  <1> QED BY <1>1, <1>2, <1>3, <1>4 DEF Next, Terminated

LEMMA InitMakesInv ==
    ASSUME Init PROVE LexerInv
  <1>1. Size \in Nat BY TextsAssumption, LenProperties DEF Init, Size
  <1>2. /\ cursor = 0 /\ mode = "blank" /\ start = 0 /\ fraction = FALSE
        /\ tokens = <<>> /\ failure = <<>> /\ source \in Texts
    BY DEF Init
  <1>3. tokens \in Seq(Tokens) /\ DOMAIN tokens = {} BY <1>2
  <1>4. TypeOK
    <2>1. cursor \in 0..Size /\ start \in 0..cursor BY <1>1, <1>2
    <2>2. mode \in Modes /\ fraction \in BOOLEAN BY <1>2 DEF Modes
    <2>3. failure = <<>> <=> mode # "failed" BY <1>2
    <2> QED BY <1>2, <1>3, <2>1, <2>2, <2>3 DEF TypeOK
  <1>5. NothingIsSkipped
    BY <1>2, <1>3 DEF NothingIsSkipped, EndOfLastToken, ReadSoFar, IsBlank
  <1>6. TokensAreLongestLexemes /\ FailuresAreReal /\ ReaderInv /\ CommentInv
    BY <1>2, <1>3 DEF TokensAreLongestLexemes, FailuresAreReal, ReaderInv, CommentInv
  <1> QED BY <1>3, <1>4, <1>5, <1>6 DEF LexerInv

(* The invariant of the lexer's loops holds whatever text is read.         *)
THEOREM LexerInvariant == Spec => []LexerInv
  BY InitMakesInv, NextKeepsInv, PTL DEF Spec

(* The cursor never runs past the end of the text, a token never lies      *)
(* beyond it, and an Error is there exactly when one was thrown.           *)
THEOREM LexerTypeCorrect == Spec => []TypeOK
  <1>1. LexerInv => TypeOK BY DEF LexerInv
  <1> QED BY <1>1, LexerInvariant, PTL

(* NextToken loses nothing: whatever lies between two tokens it returned   *)
(* is spaces and comments, and it returns nullopt at the end only.         *)
THEOREM NothingOfATextIsLost == Spec => []NothingIsSkipped
  <1>1. LexerInv => NothingIsSkipped BY DEF LexerInv
  <1> QED BY <1>1, LexerInvariant, PTL

(* Every token NextToken returned is the longest one that begins where it  *)
(* does, and is of the kind its characters make it.                        *)
THEOREM EveryTokenIsTheLongest == Spec => []TokensAreLongestLexemes
  <1>1. LexerInv => TokensAreLongestLexemes BY DEF LexerInv
  <1> QED BY <1>1, LexerInvariant, PTL

(* An Error of the lexer names text that no token could have been made of. *)
THEOREM RefusalsAreJustified == Spec => []FailuresAreReal
  <1>1. LexerInv => FailuresAreReal BY DEF LexerInv
  <1> QED BY <1>1, LexerInvariant, PTL
====
