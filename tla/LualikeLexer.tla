---- MODULE LualikeLexer ----
(***************************************************************************)
(* The lexer (lexer.h), called for one token after another until the text  *)
(* is used up or a token cannot be read.  Offsets count from 0 as in C++.  *)
(* mode is the loop NextToken is in:                                       *)
(*                                                                         *)
(*   "blank"    skipping blanks, at the head of NextToken                  *)
(*   "comment"  inside a comment                                           *)
(*   "word", "number", "string"   ReadAlphanumeric, ReadNumericConstant,   *)
(*              ReadShortLiteralString                                     *)
(*   "end"      nullopt has been returned     "failed"  an Error thrown    *)
(*                                                                         *)
(* kTooLongToken and kInvalidName are never thrown, so they have no place  *)
(* here.                                                                   *)
(***************************************************************************)
EXTENDS LualikeSpan, Integers, Sequences

CONSTANTS
    Texts,                          \* the texts to read
    Alphabetic, Numeric, Spaces,    \* IsAlphabetic, IsNumeric, IsSpace
    Others,                         \* the characters no token begins with
    kKeywordsMap                    \* from the reserved words to their kinds

VARIABLES
    source,     \* source_
    cursor,     \* cursor_
    mode,
    start,      \* where the token being read begins
    fraction,   \* has_met_fractional_part
    tokens,     \* the tokens returned so far
    failure     \* the Error thrown, as a sequence of at most one

vars == <<source, cursor, mode, start, fraction, tokens, failure>>

----------------------------------------------------------------------------
Quotes == {"'", "\""}
Points == {".", ","}
kOtherSingleCharTokens ==
    {"+", "-", "*", "/", "%", "^", "<", ">", "=", "(", ")", ";", ","}
kOtherTwoCharTokensMap ==
    [pair \in {<<"/", "/">>} \cup ({"=", "~", "<", ">"} \X {"="}) |->
        CASE pair[1] = "/" -> "//"
          [] pair[1] = "=" -> "=="
          [] pair[1] = "~" -> "~="
          [] pair[1] = "<" -> "<="
          [] pair[1] = ">" -> ">="]
OtherChars ==
    Quotes \cup Points \cup kOtherSingleCharTokens \cup {"_", "~"} \cup Others
Characters == Alphabetic \cup Numeric \cup Spaces \cup OtherChars

(* Every character belongs to one class.                                   *)
ASSUME CharacterAssumption ==
    /\ Alphabetic \cap (Numeric \cup Spaces \cup OtherChars) = {}
    /\ Numeric \cap (Spaces \cup OtherChars) = {}
    /\ Spaces \cap OtherChars = {}
    /\ "\n" \in Spaces

ASSUME TextsAssumption == Texts \subseteq Seq(Characters)

Size == Len(source)
At(i) == source[i + 1]

(* The character at the cursor, if there is one, is one of these.          *)
Sees(chars) == cursor < Size /\ At(cursor) \in chars

FirstOfWord == Alphabetic \cup {"_"}
Alphanumeric == FirstOfWord \cup Numeric

IsComment(i) == i + 1 < Size /\ At(i) = "-" /\ At(i + 1) = "-"

(* Faulty: a token that ends the text is not looked up.                    *)
FaultyIsTwoCharToken(i) ==
    i + 2 < Size /\ <<At(i), At(i + 1)>> \in DOMAIN kOtherTwoCharTokensMap

IsTwoCharToken(i) ==
    i + 1 < Size /\ <<At(i), At(i + 1)>> \in DOMAIN kOtherTwoCharTokensMap

KindOfWord(word) ==
    IF word \in DOMAIN kKeywordsMap THEN kKeywordsMap[word] ELSE "Name"

(* FillTokenData: a token is known by its kind and the range it spans.     *)
Emit(kind, begin, end) ==
    /\ tokens' = Append(tokens, [kind |-> kind, span |-> Span(begin, end)])
    /\ cursor' = end
    /\ mode' = "blank"
    /\ UNCHANGED <<source, fraction, failure>>

Fail(kind, begin, end) ==
    /\ failure' = <<[kind |-> kind, span |-> Span(begin, end)]>>
    /\ mode' = "failed"
    /\ UNCHANGED <<source, fraction, tokens>>

Move(newMode, newCursor) ==
    /\ mode' = newMode
    /\ cursor' = newCursor
    /\ UNCHANGED <<source, tokens, failure>>

----------------------------------------------------------------------------
(* The blanks before a token.                                              *)

SkipSpace ==
    /\ mode = "blank" /\ Sees(Spaces)
    /\ Move("blank", cursor + 1)
    /\ UNCHANGED <<start, fraction>>

StartComment ==
    /\ mode = "blank" /\ IsComment(cursor)
    /\ Move("comment", cursor + 2)
    /\ UNCHANGED <<start, fraction>>

(* Faulty: the cursor is not advanced.                                     *)
FaultyInComment ==
    /\ mode = "comment" /\ cursor < Size /\ ~Sees({"\n"})
    /\ UNCHANGED vars

InComment ==
    /\ mode = "comment" /\ cursor < Size /\ ~Sees({"\n"})
    /\ Move("comment", cursor + 1)
    /\ UNCHANGED <<start, fraction>>

(* Faulty: steps over the line break, even where the text ends instead.    *)
FaultyCommentEnds ==
    /\ mode = "comment" /\ (cursor = Size \/ Sees({"\n"}))
    /\ Move("blank", cursor + 1)
    /\ UNCHANGED <<start, fraction>>

CommentEnds ==
    /\ mode = "comment" /\ (cursor = Size \/ Sees({"\n"}))
    /\ Move("blank", cursor)
    /\ UNCHANGED <<start, fraction>>

EndOfText ==
    /\ mode = "blank" /\ cursor = Size
    /\ Move("end", cursor)
    /\ UNCHANGED <<start, fraction>>

----------------------------------------------------------------------------
(* The first character of a token chooses how it is read.                  *)

Begins == mode = "blank" /\ cursor < Size /\ start' = cursor

BeginWord ==
    /\ Begins /\ At(cursor) \in FirstOfWord
    /\ Move("word", cursor + 1)
    /\ UNCHANGED fraction

(* Faulty: the flag is left as the number before set it.                   *)
FaultyBeginNumber ==
    /\ Begins /\ At(cursor) \in Numeric
    /\ Move("number", cursor + 1)
    /\ UNCHANGED fraction

BeginNumber ==
    /\ Begins /\ At(cursor) \in Numeric
    /\ Move("number", cursor + 1)
    /\ fraction' = FALSE

(* Faulty: the token is taken to begin behind its quote.                   *)
FaultyBeginString ==
    /\ mode = "blank" /\ Sees(Quotes)
    /\ start' = cursor + 1
    /\ Move("string", cursor + 1)
    /\ UNCHANGED fraction

BeginString ==
    /\ Begins /\ At(cursor) \in Quotes
    /\ Move("string", cursor + 1)
    /\ UNCHANGED fraction

TwoCharToken ==
    /\ Begins /\ IsTwoCharToken(cursor)
    /\ Emit(kOtherTwoCharTokensMap[<<At(cursor), At(cursor + 1)>>],
            cursor, cursor + 2)

IsOther(i) ==
    /\ At(i) \notin Spaces \cup Alphanumeric \cup Quotes
    /\ ~IsComment(i) /\ ~IsTwoCharToken(i)

OneCharToken ==
    /\ Begins /\ IsOther(cursor) /\ At(cursor) \in kOtherSingleCharTokens
    /\ Emit(At(cursor), cursor, cursor + 1)

InvalidSymbol ==
    /\ Begins /\ IsOther(cursor) /\ At(cursor) \notin kOtherSingleCharTokens
    /\ Fail("InvalidSymbol", cursor, cursor + 1)
    /\ UNCHANGED cursor

----------------------------------------------------------------------------
(* The loops of the three readers.                                         *)

WordGoesOn ==
    /\ mode = "word" /\ Sees(Alphanumeric)
    /\ Move("word", cursor + 1)
    /\ UNCHANGED <<start, fraction>>

WordEnds ==
    /\ mode = "word" /\ ~Sees(Alphanumeric)
    /\ Emit(KindOfWord(SubSeq(source, start + 1, cursor)), start, cursor)
    /\ UNCHANGED start

NumberGoesOn ==
    /\ mode = "number"
    /\ \/ Sees(Numeric) /\ UNCHANGED fraction
       \/ Sees(Points) /\ ~fraction /\ fraction' = TRUE
    /\ Move("number", cursor + 1)
    /\ UNCHANGED start

SecondPoint ==
    /\ mode = "number" /\ Sees(Points) /\ fraction
    /\ Fail("InvalidNumber", start, cursor + 1)
    /\ UNCHANGED <<start, cursor>>

NumberEnds ==
    /\ mode = "number" /\ ~Sees(Numeric \cup Points)
    /\ Emit(IF fraction THEN "Float" ELSE "Int", start, cursor)
    /\ UNCHANGED start

StringGoesOn ==
    /\ mode = "string" /\ cursor < Size /\ ~Sees({At(start)})
    /\ Move("string", cursor + 1)
    /\ UNCHANGED <<start, fraction>>

StringEnds ==
    /\ mode = "string" /\ Sees({At(start)})
    /\ Emit("String", start, cursor + 1)
    /\ UNCHANGED start

UnclosedString ==
    /\ mode = "string" /\ cursor = Size
    /\ Fail("InvalidString", start, cursor)
    /\ UNCHANGED <<start, cursor>>

----------------------------------------------------------------------------
Finished == mode \in {"end", "failed"}
Terminated == Finished /\ UNCHANGED vars

Init ==
    /\ source \in Texts
    /\ cursor = 0 /\ mode = "blank" /\ start = 0 /\ fraction = FALSE
    /\ tokens = <<>> /\ failure = <<>>

Blanks == SkipSpace \/ StartComment \/ InComment \/ CommentEnds \/ EndOfText
Beginnings ==
    \/ BeginWord \/ BeginNumber \/ BeginString
    \/ TwoCharToken \/ OneCharToken \/ InvalidSymbol
Readers ==
    \/ WordGoesOn \/ WordEnds \/ NumberGoesOn \/ SecondPoint \/ NumberEnds
    \/ StringGoesOn \/ StringEnds \/ UnclosedString

Next == Blanks \/ Beginnings \/ Readers \/ Terminated

(* The lexer runs on its caller's thread until it returns.                 *)
Spec == Init /\ [][Next]_vars /\ WF_vars(Next)

----------------------------------------------------------------------------
(* What a token is, said of the text alone.                                *)

IsWord(b, e) ==
    b < e /\ At(b) \in FirstOfWord /\ \A i \in b..(e - 1) : At(i) \in Alphanumeric

PointsIn(b, e) == {i \in b..(e - 1) : At(i) \in Points}

IsNumber(b, e) ==
    /\ b < e /\ At(b) \in Numeric
    /\ \A i \in b..(e - 1) : At(i) \in Numeric \cup Points
    /\ \A i, j \in PointsIn(b, e) : i = j

IsString(b, e) ==
    /\ b + 1 < e /\ At(b) \in Quotes
    /\ \A i \in (b + 1)..(e - 1) : At(i) = At(b) <=> i = e - 1

IsSymbol(b, e) ==
    \/ e = b + 1 /\ At(b) \in kOtherSingleCharTokens
    \/ e = b + 2 /\ e <= Size /\ <<At(b), At(b + 1)>> \in DOMAIN kOtherTwoCharTokensMap

IsLexeme(b, e) == IsWord(b, e) \/ IsNumber(b, e) \/ IsString(b, e) \/ IsSymbol(b, e)

KindOf(b, e) ==
    CASE IsWord(b, e) -> KindOfWord(SubSeq(source, b + 1, e))
      [] IsNumber(b, e) -> IF PointsIn(b, e) = {} THEN "Int" ELSE "Float"
      [] IsString(b, e) -> "String"
      [] IsSymbol(b, e) ->
            IF e = b + 1 THEN At(b) ELSE kOtherTwoCharTokensMap[<<At(b), At(b + 1)>>]

(* Every character from b to e is a space or belongs to a comment begun    *)
(* there.                                                                  *)
IsBlank(b, e) ==
    \A i \in b..(e - 1) :
        \/ At(i) \in Spaces
        \/ \E c \in b..i : IsComment(c) /\ \A k \in c..i : At(k) # "\n"

EndOfLastToken == IF tokens = <<>> THEN 0 ELSE tokens[Len(tokens)].span.end
ReadSoFar == IF mode \in {"blank", "comment", "end"} THEN cursor ELSE start

----------------------------------------------------------------------------
Modes == {"blank", "comment", "word", "number", "string", "end", "failed"}

(* The type invariant.  The cursor never runs past the end of the text.    *)
TypeOK ==
    /\ source \in Texts
    /\ cursor \in 0..Size /\ start \in 0..cursor
    /\ mode \in Modes /\ fraction \in BOOLEAN
    /\ \A i \in DOMAIN tokens : tokens[i].span \in [begin : 0..Size, end : 0..cursor]
    /\ failure = <<>> <=> mode # "failed"

(* Nothing of the text is lost: between two tokens, before the first, and  *)
(* from the last token to where the lexer stands there are only spaces and *)
(* comments; and nullopt is returned at the end of the text only.          *)
NothingIsSkipped ==
    /\ \A i \in DOMAIN tokens :
           IsBlank(IF i = 1 THEN 0 ELSE tokens[i - 1].span.end, tokens[i].span.begin)
    /\ IsBlank(EndOfLastToken, ReadSoFar)
    /\ mode = "end" => cursor = Size

(* Every token is a lexeme of its kind, no longer one begins where it      *)
(* does, and it does not begin a comment.                                  *)
TokensAreLongestLexemes ==
    \A i \in DOMAIN tokens :
        LET s == tokens[i].span
        IN  /\ IsLexeme(s.begin, s.end) /\ tokens[i].kind = KindOf(s.begin, s.end)
            /\ ~IsComment(s.begin)
            /\ \A e \in (s.end + 1)..Size : ~IsLexeme(s.begin, e)

(* An Error is thrown only of a text that has no token there: its span is  *)
(* a number up to its second point, a string that is never closed, or a    *)
(* character that begins nothing.                                          *)
FailuresAreReal ==
    mode = "failed" =>
        LET b == failure[1].span.begin
            e == failure[1].span.end
        IN  /\ b = start /\ b < e /\ e <= Size
            /\ \/ /\ failure[1].kind = "InvalidNumber"
                  /\ IsNumber(b, e - 1) /\ ~IsNumber(b, e) /\ At(e - 1) \in Points
               \/ /\ failure[1].kind = "InvalidString"
                  /\ e = Size /\ At(b) \in Quotes
                  /\ \A i \in (b + 1)..Size : ~IsString(b, i)
               \/ /\ failure[1].kind = "InvalidSymbol"
                  /\ e = b + 1 /\ ~IsBlank(b, e)
                  /\ \A i \in e..Size : ~IsLexeme(b, i)

(* Every text is read to its end or refused.                               *)
Termination == <>Finished
====
