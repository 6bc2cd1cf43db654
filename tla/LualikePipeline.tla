---- MODULE LualikePipeline ----
(***************************************************************************)
(* The entry points (Interpret in interpreter.h, Parse in parser.h), which *)
(* take a text or a stream: the lexer, the parser and the interpreter, one *)
(* feeding the next, and the catch clauses around them.  phase says which  *)
(* one runs:                                                               *)
(*                                                                         *)
(*   "read" -> "lex" -> "parse" -> "visit" -> "done"                       *)
(*                                                                         *)
(* The parser calls the lexer when it wants a token.  The lexer touches    *)
(* nothing of the parser's, so here it runs first, to its end or its Error,*)
(* and the parser meets a "Bad" token where that Error would reach it.     *)
(*                                                                         *)
(* Memory may run out at any moment of a call, at most once: a second time,*)
(* in a handler of a noexcept function, ends the process.                  *)
(***************************************************************************)
EXTENDS LualikeErrorChain

CONSTANTS
    Texts, Alphabetic, Numeric, Spaces, Others, kKeywordsMap,   \* LualikeLexer
    Names,          \* every word of the texts that is not reserved
    Absent, IntLimit, Significands, Ulps, UnitsInOne, StringCount,  \* LualikeValue
    DigitValue,     \* from the characters of Numeric to 0..9
    StoiLimit,      \* 2^31, the first int that std::stoi refuses
    StringRank,     \* from the strings of the texts to their ranks
    Entries         \* the entry points: [function, input]

ASSUME LiteralAssumption == StoiLimit <= IntLimit

VARIABLES
    entry, phase,
    text, cursor, mode, start, fraction, tokens, failure,   \* LualikeLexer
    kinds, cur, calls, got,                                 \* LualikeParser
    program, frames, scopes, answer,                        \* LualikeInterpreter
    result      \* of the call: <<"error", Error>>, <<"program">>,
                \* <<"return", value>>, <<"done">> for no value, or
                \* <<"terminate">> for std::terminate

lexerVars == <<text, cursor, mode, start, fraction, tokens, failure>>
parserVars == <<kinds, cur, calls, got>>
visitorVars == <<program, frames, scopes, answer>>
vars == <<entry, phase, lexerVars, parserVars, visitorVars, result>>

(* The constants that are {} occur in type invariants and Init alone.      *)
Lexer == INSTANCE LualikeLexer WITH source <- text
Parser == INSTANCE LualikeGrammar WITH
    Sources <- {}, ArgOrders <- {"ltr"}, source <- kinds, stack <- calls, ret <- got
Visitor == INSTANCE LualikeSemantics WITH
    Expressions <- {}, Statements <- {}, Programs <- {}, stack <- frames, ret <- answer,
    Values <- {}

----------------------------------------------------------------------------
(* From tokens to what the parser and the AST say of them.                 *)

Data(i) == SubSeq(text, tokens[i].span.begin + 1, tokens[i].span.end)

(* std::stoi reads all of an int literal.  std::stod stops at a comma,     *)
(* which the lexer takes for a point.                                      *)
Stoi(digits) == FoldLeft(LAMBDA n, c : 10 * n + DigitValue[c], 0, digits)

Stod(chars) ==
    LET p == CHOOSE i \in DOMAIN chars : chars[i] \in Lexer!Points
        decimals == IF chars[p] = "." THEN SubSeq(chars, p + 1, Len(chars)) ELSE <<>>
    IN  Visitor!Double(Stoi(SubSeq(chars, 1, p - 1) \o decimals) * UnitsInOne,
                       10 ^ Len(decimals))

(* TokenToValue, or <<"Throw">> for a std::out_of_range.                   *)
TokenToValue(i) ==
    CASE tokens[i].kind = "String" ->
            <<"String", StringRank[SubSeq(Data(i), 2, Len(Data(i)) - 1)]>>
      [] tokens[i].kind = "Int" ->
            IF Stoi(Data(i)) < StoiLimit THEN <<"Int", Stoi(Data(i))>> ELSE <<"Throw">>
      [] tokens[i].kind = "Float" ->
            IF Stod(Data(i)) \in Visitor!Infs THEN <<"Throw">> ELSE Stod(Data(i))
      [] tokens[i].kind \in {"true", "false"} -> Visitor!Bool(tokens[i].kind = "true")
      [] tokens[i].kind = "nil" -> Visitor!Nil

(* Faulty: the parser takes the lexer's Error for the end of the text.     *)
FaultyTokenKinds == [i \in DOMAIN tokens |-> tokens[i].kind]

(* The tokens as LualikeParser knows them.                                 *)
TokenKinds ==
    [i \in DOMAIN tokens |->
        IF tokens[i].kind \in {"Int", "Float"} /\ TokenToValue(i) = <<"Throw">>
        THEN "HugeInt" ELSE tokens[i].kind]
    \o (IF failure = <<>> THEN <<>> ELSE <<"Bad">>)

(* Faulty: a range of tokens reaches up to the next one.                   *)
FaultyCharSpan(s) ==
    IF s.begin < s.end /\ s.end <= Len(tokens)
    THEN Span(tokens[s.begin].span.begin, tokens[s.end].span.begin)
    ELSE IF s.begin < s.end
    THEN Span(tokens[s.begin].span.begin, tokens[s.end - 1].span.end)
    ELSE IF s.begin = 0 THEN Span(0, 0)
    ELSE Span(tokens[s.begin - 1].span.end, tokens[s.begin - 1].span.end)

(* The range of characters a range of tokens covers; an empty one is the   *)
(* point behind the last token.                                            *)
CharSpan(s) ==
    IF s.begin < s.end
    THEN Span(tokens[s.begin].span.begin, tokens[s.end - 1].span.end)
    ELSE IF s.begin = 0 THEN Span(0, 0)
    ELSE Span(tokens[s.begin - 1].span.end, tokens[s.begin - 1].span.end)

(* LualikeInterpreter numbers the source ranges.                           *)
Numbered(s) == s.begin * (Len(text) + 1) + s.end
SpanOf(n) == Span(n \div (Len(text) + 1), n % (Len(text) + 1))

kTokenToBinOp ==
    "or" :> "Or" @@ "and" :> "And" @@ "<" :> "LessThan" @@ ">" :> "GreaterThan"
    @@ "<=" :> "LessThanEqual" @@ ">=" :> "GreaterThanEqual" @@ "~=" :> "NotEqual"
    @@ "==" :> "Equal" @@ "+" :> "Add" @@ "-" :> "Subtract" @@ "*" :> "Multiply"
    @@ "/" :> "Divide" @@ "//" :> "FloorDivide" @@ "%" :> "Modulo" @@ "^" :> "Power"

kTokenToUnOp == "-" :> "Negate" @@ "not" :> "Not"

(* The parser's nodes, which name tokens by index, as the AST they become. *)
RECURSIVE Expression(_), Block(_)
Expression(e) ==
    LET span == Numbered(CharSpan(e.span))
    IN  CASE e.kind = "Literal" -> [kind |-> "Literal", value |-> TokenToValue(e.at)]
          [] e.kind = "Variable" ->
                [kind |-> "Variable", name |-> Data(e.at), span |-> span]
          [] e.kind = "Unary" ->
                [kind |-> "Unary", op |-> kTokenToUnOp[e.op],
                 rhs |-> Expression(e.rhs), span |-> span]
          [] e.kind = "Binary" ->
                [kind |-> "Binary", op |-> kTokenToBinOp[e.op], lhs |-> Expression(e.lhs),
                 rhs |-> Expression(e.rhs), span |-> span]

Optional(es) == [i \in DOMAIN es |-> Expression(es[i])]

Statement(n) ==
    CASE n.kind = "VariableDeclaration" ->
            [kind |-> n.kind, name |-> Data(n.name), initializer |-> Optional(n.initializer)]
      [] n.kind = "IfStatement" ->
            [kind |-> n.kind, condition |-> Expression(n.condition), then |-> Block(n.then),
             else |-> [i \in DOMAIN n.else |-> Block(n.else[i])]]
      [] n.kind \in {"ReturnStatement", "ExpressionStatement"} ->
            [kind |-> n.kind, expression |-> Optional(n.expression)]

Block(b) == [i \in DOMAIN b.statements |-> Statement(b.statements[i].node)]

----------------------------------------------------------------------------
(* The Errors                                                              *)

Cause(message, span) == ContextError(message, <<span>>, <<>>, <<>>)
Wrapping(message, spans, exception) == ContextError(message, spans, <<>>, <<exception>>)

LiteralMessage == "Failed to parse literal value"
OperatorMessage == "Failed to evaluate"

ParserNode(e) ==
    CASE e.kind = "LexerError" -> Cause(failure[1].kind, failure[1].span)
      [] e.kind = "LiteralOutOfRange" ->
            Wrapping(LiteralMessage, <<CharSpan(e.span)>>, "std::out_of_range")
      [] OTHER -> Cause(e.kind, CharSpan(e.span))

VisitorNode(e) ==
    IF e.kind \in Visitor!OpErrKinds
    THEN Wrapping(OperatorMessage, <<SpanOf(e.span)>>, e.kind)
    ELSE Cause(e.kind, SpanOf(e.span))

(* Faulty: the source text is given to the Errors of the visitors alone.   *)
FaultySourceText == IF phase = "visit" THEN text ELSE <<>>

(* What AttachSourceText gives an Error that comes out of this phase.      *)
SourceText == IF phase = "read" THEN <<>> ELSE text

Return(r) ==
    /\ phase' = "done" /\ result' = r
    /\ UNCHANGED <<entry, lexerVars>>

Fail(node) == Return(<<"error", [chain |-> <<node>>, text |-> SourceText]>>)

----------------------------------------------------------------------------
Init ==
    /\ entry \in Entries
    /\ phase = (IF entry.input = "stream" THEN "read" ELSE "lex")
    /\ Lexer!Init
    /\ kinds = <<>> /\ cur = 1 /\ calls = <<>> /\ got = <<"call">>
    /\ program = <<>> /\ frames = <<>> /\ answer = <<"call">>
    /\ scopes = <<Visitor!EmptyScope>>
    /\ result = <<>>

(* ReadStreamToString reads the text, or finds the stream bad, or catches  *)
(* what its buffer throws.                                                 *)
ReadStream ==
    /\ phase = "read" /\ phase' = "lex"
    /\ UNCHANGED <<entry, lexerVars, parserVars, visitorVars, result>>

CannotRead ==
    /\ phase = "read"
    /\ \E foreign \in {<<>>, <<"std::ios_base::failure">>} :
           Fail(ContextError("Failed to read input stream", <<>>, <<>>, foreign))
    /\ UNCHANGED <<parserVars, visitorVars>>

Lex ==
    /\ phase = "lex" /\ ~Lexer!Finished /\ Lexer!Next
    /\ UNCHANGED <<entry, phase, parserVars, visitorVars, result>>

LexerDone ==
    /\ phase = "lex" /\ Lexer!Finished
    /\ phase' = "parse" /\ kinds' = TokenKinds
    /\ UNCHANGED <<entry, lexerVars, cur, calls, got, visitorVars, result>>

Parse ==
    /\ phase = "parse" /\ ~Parser!Finished /\ Parser!Next
    /\ UNCHANGED <<entry, phase, lexerVars, visitorVars, result>>

ParserThrows ==
    /\ phase = "parse" /\ Parser!Finished /\ got[1] = "throw"
    /\ Fail(ParserNode(got[2]))
    /\ UNCHANGED <<parserVars, visitorVars>>

(* Parse returns the program; Interpret visits it.                         *)
ParserDone ==
    /\ phase = "parse" /\ Parser!Finished /\ got[1] = "block"
    /\ program' = Block(got[2])
    /\ \/ entry.function = "Parse" /\ Return(<<"program">>)
       \/ /\ entry.function = "Interpret" /\ phase' = "visit"
          /\ UNCHANGED <<entry, lexerVars, result>>
    /\ UNCHANGED <<parserVars, frames, scopes, answer>>

Visit ==
    /\ phase = "visit" /\ ~Visitor!Finished /\ Visitor!Next
    /\ UNCHANGED <<entry, phase, lexerVars, parserVars, result>>

VisitorThrows ==
    /\ phase = "visit" /\ Visitor!Finished /\ answer[1] = "throw"
    /\ Fail(VisitorNode(answer[2]))
    /\ UNCHANGED <<parserVars, visitorVars>>

VisitorDone ==
    /\ phase = "visit" /\ Visitor!Finished /\ answer[1] # "throw"
    /\ Return(answer)
    /\ UNCHANGED <<parserVars, visitorVars>>

(* A std::bad_alloc becomes the Error of the innermost handler, which is   *)
(* that of TokenToValue for a literal, that of the operation for an        *)
(* operator, and the entry point's otherwise.                              *)
ConvertsLiteral ==
    /\ phase = "parse" /\ Parser!In("ParsePrimExpr") /\ Parser!Called
    /\ Parser!Kind(cur) \in Parser!LiteralKinds \cup {"HugeInt"}

AppliesOperator ==
    /\ phase = "visit" /\ Visitor!GotValue
    /\ \/ Visitor!AtExpr("Unary")
       \/ /\ Visitor!AtExpr("Binary") /\ Visitor!Top.lhs # <<>>
          /\ Visitor!Top.node.op \in Visitor!ArithmeticOperators

OutOfMemory(message, spans) == Fail(Wrapping(message, spans, "std::bad_alloc"))

AllocationFails ==
    /\ \/ phase = "read" /\ OutOfMemory("Failed to read input stream", <<>>)
       \/ /\ phase \in {"lex", "parse"} /\ ~Parser!Finished
          /\ OutOfMemory("Internal parser error", <<>>)
       \/ phase = "visit" /\ ~Visitor!Finished /\ answer[1] # "throw"
          /\ OutOfMemory("Internal interpreter error", <<>>)
       \/ ConvertsLiteral /\ OutOfMemory(LiteralMessage, <<tokens[cur].span>>)
       \/ AppliesOperator
          /\ OutOfMemory(OperatorMessage, <<SpanOf(Visitor!Top.node.span)>>)
    /\ UNCHANGED <<parserVars, visitorVars>>

(* The source text of a view is copied for the Error, or by Parse in any   *)
(* case; of what this throws, only a copy within the try block of Interpret*)
(* is caught.  The text of a stream is moved.                              *)
CopyFails ==
    /\ entry.input = "view"
    /\ \/ /\ phase = "parse" /\ Parser!Finished /\ entry.function = "Parse"
          /\ Return(<<"terminate">>)
       \/ /\ phase = "parse" /\ Parser!Finished /\ got[1] = "throw"
          /\ entry.function = "Interpret"
          /\ OutOfMemory("Internal interpreter error", <<>>)
       \/ /\ phase = "visit" /\ Visitor!Finished /\ answer[1] = "throw"
          /\ Return(<<"terminate">>)
    /\ UNCHANGED <<parserVars, visitorVars>>

Terminated == phase = "done" /\ UNCHANGED vars

Progress ==
    \/ ReadStream \/ CannotRead \/ Lex \/ LexerDone
    \/ Parse \/ ParserThrows \/ ParserDone
    \/ Visit \/ VisitorThrows \/ VisitorDone

Next == Progress \/ AllocationFails \/ CopyFails \/ Terminated

(* The call runs on its caller's thread until it returns; memory need not  *)
(* run out to make it.                                                     *)
Spec == Init /\ [][Next]_vars /\ WF_vars(Progress)

----------------------------------------------------------------------------
IsError == result # <<>> /\ result[1] = "error"
Node == result[2].chain[1]
MemoryRanOut == IsError /\ Node.foreign = <<"std::bad_alloc">>

(* The tokens a range of the text consists of, as a range of tokens.       *)
TokensIn(span) ==
    {s \in [begin : DOMAIN tokens, end : 2..Len(tokens) + 1] :
        s.begin < s.end /\ CharSpan(s) = span}

(* The name that is all a range of tokens holds, but for parentheses.      *)
NameIn(s) ==
    {i \in s.begin..(s.end - 1) :
        /\ kinds[i] = "Name" /\ Parser!IsExpr(kinds, s.begin, s.end)
        /\ \A j \in s.begin..(s.end - 1) : j # i => kinds[j] \in {"(", ")"}}

(* An Error is blamed on a part of the text that can have caused it: the   *)
(* name that has no value, with the parentheses around it; the literal     *)
(* that is out of range; the characters that are no token; the one token   *)
(* the parser could not take, or the point where it missed one.  Of an     *)
(* operation that failed it is only said that the blame is on a whole      *)
(* expression, not that it is that operation's.                            *)
ErrorsNameTheCulprit ==
    /\ (phase = "visit" /\ answer[1] = "throw" /\ answer[2].kind = "UnknownVariable") =>
           \E s \in TokensIn(SpanOf(answer[2].span)) :
               \E i \in NameIn(s) : Visitor!Get(scopes, Data(i)) = Absent
    /\ IsError /\ IsSpanned(Node) =>
           LET span == Node.span[1]
               covered == TokensIn(span)
           IN  CASE Node.message = OperatorMessage ->
                       \E s \in covered : Parser!IsExpr(kinds, s.begin, s.end)
                 [] Node.message = "UnknownVariable" ->
                       \E s \in covered : NameIn(s) # {}
                 [] Node.message = LiteralMessage ->
                       \E s \in covered : /\ s.end = s.begin + 1
                                          /\ kinds[s.begin] \in Parser!LiteralKinds
                                                                \cup {"HugeInt"}
                 [] failure # <<>> /\ Node.message = failure[1].kind ->
                       /\ span = failure[1].span
                       /\ \A i \in DOMAIN tokens : tokens[i].span.end <= span.begin
                 [] OTHER ->
                       IF IsEmptySpan(span)
                       THEN span.end = (IF tokens = <<>> THEN 0
                                        ELSE tokens[Len(tokens)].span.end)
                       ELSE \E s \in covered : s.end = s.begin + 1

(* An Error that comes out of a call shows the text it is about: it holds  *)
(* the whole of it, however often it was passed on, and its spans lie in   *)
(* it.  Only a text that was never read is missing.                        *)
ErrorsShowTheirSource ==
    IsError =>
        IF Node.message = "Failed to read input stream" THEN result[2].text = <<>>
        ELSE /\ result[2].text = text
             /\ IsSpanned(Node) => GetContext(result[2].text, Node) # <<>>

(* Visitor!Meaning at the phrases that the program at hand leads to.       *)
RECURSIVE MeaningOf(_)
MeaningOf(q) == Visitor!Rules(MeaningOf, q)

(* While memory lasts, a call gives what the language says its text means: *)
(* an Error of the lexer or the parser exactly if the text is no program   *)
(* or has a literal out of range, and otherwise a result of the program.   *)
(* Which Error it is, when both have one, is left open.                    *)
ResultsAreMeanings ==
    (phase = "done" /\ ~MemoryRanOut /\ result # <<"terminate">>
        /\ ~(IsError /\ Node.message = "Failed to read input stream")) =>
            IF failure = <<>> /\ Parser!IsProgram(kinds)
            THEN IF entry.function = "Parse" THEN result = <<"program">>
                 ELSE \E x \in MeaningOf(<<"block", program, Visitor!EmptyScope>>) :
                          IF x.ret[1] = "throw" THEN IsError /\ Node = VisitorNode(x.ret[2])
                          ELSE result = x.ret
            ELSE IsError /\ \/ failure # <<>> /\ Node.message = failure[1].kind
                            \/ got[1] = "throw" /\ Node = ParserNode(got[2])

(* Every call of an entry point comes to an end.                           *)
EveryCallReturns == <>(phase = "done")
====
