---- MODULE LualikeParser ----
(***************************************************************************)
(* The recursive-descent parser (parser.h).  Each member function that is  *)
(* in progress is a frame of stack; ret is what the last one gave back:    *)
(*                                                                         *)
(*   <<"call">>      the top frame has just been called (for a block: it   *)
(*                   is at the head of its loop)                           *)
(*   <<"expr", e>>   <<"node", n>>   <<"stmt", s>>   <<"block", b>>        *)
(*   <<"throw", e>>  an Error has left the parser; nothing in it catches   *)
(*                                                                         *)
(* The source is the sequence of its tokens' kinds.  Token i covers the    *)
(* span i..i+1.  The lexer is called one token ahead: Advance reads the    *)
(* token after the one it hands out, so a "Bad" token, one the lexer       *)
(* throws at, is met as soon as its predecessor is consumed.  "HugeInt" is *)
(* a literal that std::stoi, or std::stod, rejects.                        *)
(***************************************************************************)
EXTENDS LualikeSpan, Integers, Sequences

CONSTANTS
    Sources,    \* the token sequences to parse
    ArgOrders   \* in which order the compiler evaluates function arguments

(* The end of the input is no token.                                       *)
ASSUME SourcesAssumption ==
    \A s \in Sources : s \in Seq(STRING) /\ \A i \in 1..Len(s) : s[i] # "EOF"
ASSUME ArgOrdersAssumption == ArgOrders \subseteq {"ltr", "rtl"}

VARIABLES
    source,     \* the tokens of the input
    cur,        \* index of current_token_; previous_token_ is cur - 1
    stack,      \* the active calls, innermost last
    ret         \* what the last call that ended gave back

vars == <<source, cur, stack, ret>>

----------------------------------------------------------------------------
(* Tokens                                                                  *)
LiteralKinds == {"String", "Int", "Float", "true", "false", "nil"}
ComparisonKinds == {"<", ">", "<=", ">=", "~=", "=="}
FactorKinds == {"*", "/", "//", "%"}
UnaryKinds == {"-", "not"}
BinaryKinds == {"or", "and", "+", "-", "^"} \cup ComparisonKinds \cup FactorKinds

kBinOpsPrecedences ==
    [kind \in BinaryKinds |->
        CASE kind = "or"               -> 1
          [] kind = "and"              -> 2
          [] kind \in ComparisonKinds  -> 3
          [] kind \in {"+", "-"}       -> 9
          [] kind \in FactorKinds      -> 10
          [] kind = "^"                -> 11]

(* Faulty: a token that is no binary operator binds loosely.               *)
FaultyPrecedence(kind) ==
    IF kind \in BinaryKinds THEN kBinOpsPrecedences[kind] ELSE 0

Precedence(kind) ==
    IF kind \in BinaryKinds THEN kBinOpsPrecedences[kind] ELSE -1

UnaryPrecedence == 99

(* Faulty: every operator associates to the left.                          *)
FaultyRhsPrecedence(kind) == Precedence(kind) + 1

(* ^ associates to the right, the others to the left.                      *)
RhsPrecedence(kind) ==
    IF kind = "^" THEN Precedence(kind) ELSE Precedence(kind) + 1

Kind(i) == IF i <= Len(source) THEN source[i] ELSE "EOF"
TokenSpan(i) == Span(i, i + 1)

(* CurrentCursorSpan: at the end of the input, the point after the last    *)
(* token; {} when there is none.                                           *)
CursorSpan(i) ==
    IF Kind(i) # "EOF" THEN TokenSpan(i)
    ELSE IF i > 1 THEN Span(i, i)
    ELSE Span(0, 0)

(* SpanFrom: from the start token to previous_token_, whichever that is    *)
(* when it is evaluated.                                                   *)
SpanFrom(start, i) ==
    IF i > 1 THEN MergeSourceSpans(TokenSpan(start), TokenSpan(i - 1))
    ELSE TokenSpan(start)

(* Where ConsumeOptionalSemicolons stops.                                  *)
AfterSemicolons(i) ==
    CHOOSE j \in i..Len(source) + 1 :
        Kind(j) # ";" /\ \A k \in i..j - 1 : Kind(k) = ";"

----------------------------------------------------------------------------
(* Control                                                                 *)
Top == stack[Len(stack)]
Below == SubSeq(stack, 1, Len(stack) - 1)
In(fn) == stack # <<>> /\ Top.fn = fn

Called == ret = <<"call">>
Got(what) == ret[1] = what

BlockFrame(ends) == [fn |-> "ParseBlock", ends |-> ends, stmts |-> <<>>]
ExprFrame(min) ==
    [fn |-> "ParseExpr", min |-> min, lhs |-> <<>>, op |-> "none"]
IfFrame(cond, then) == [fn |-> "ParseIfStmt", cond |-> cond, then |-> then]
PlainFrame(fn) == [fn |-> fn]

Throw(kind, span) ==
    /\ stack' = <<>>
    /\ ret' = <<"throw", [kind |-> kind, span |-> span]>>

(* The tokens that become current on the way from cur to i are fit to      *)
(* read.                                                                   *)
Reads(i) == \A k \in cur + 1..i : Kind(k) # "Bad"

FirstBad(i) ==
    CHOOSE k \in cur + 1..i :
        Kind(k) = "Bad" /\ \A l \in cur + 1..k - 1 : Kind(l) # "Bad"

(* Move on to token i; then the stack and the result are as given, unless  *)
(* the lexer throws on the way.                                            *)
GoOn(i, newStack, newRet) ==
    /\ IF Reads(i)
       THEN cur' = i /\ stack' = newStack /\ ret' = newRet
       ELSE cur' = FirstBad(i) /\ Throw("LexerError", TokenSpan(FirstBad(i)))
    /\ UNCHANGED source

Answer(i, r) == GoOn(i, Below, r)

(* The function on top, as frame from now on, calls another one.           *)
CallFrom(i, frame, callee) ==
    GoOn(i, Append(Append(Below, frame), callee), <<"call">>)

(* Faulty: the token is consumed before its kind is looked at.             *)
FaultyRefuse(i) ==
    /\ cur' = i + 1
    /\ Throw(IF Kind(i) = "EOF" THEN "UnexpectedEnd" ELSE "UnexpectedToken",
             CursorSpan(i))
    /\ UNCHANGED source

(* Consume finds something else at token i, having read up to it.          *)
Refuse(i) ==
    /\ IF Reads(i)
       THEN /\ cur' = i
            /\ Throw(IF Kind(i) = "EOF" THEN "UnexpectedEnd" ELSE "UnexpectedToken",
                     CursorSpan(i))
       ELSE /\ cur' = FirstBad(i)
            /\ Throw("LexerError", TokenSpan(FirstBad(i)))
    /\ UNCHANGED source

----------------------------------------------------------------------------
(* AST nodes; a leaf names its token by index.                             *)
Leaf(kind, i) == [kind |-> kind, at |-> i, span |-> TokenSpan(i)]
Unary(op, rhs, span) == [kind |-> "Unary", op |-> op, rhs |-> rhs, span |-> span]
Binary(op, lhs, rhs, span) ==
    [kind |-> "Binary", op |-> op, lhs |-> lhs, rhs |-> rhs, span |-> span]

VarDecl(i, init) ==
    [kind |-> "VariableDeclaration", name |-> i, initializer |-> init]
Return(expr) == [kind |-> "ReturnStatement", expression |-> expr]
If(cond, then, else) ==
    [kind |-> "IfStatement", condition |-> cond, then |-> then, else |-> else]
ExprStmt(e) == [kind |-> "ExpressionStatement", expression |-> <<e>>]

SpanFromStatements(stmts, fallback) ==
    IF stmts = <<>> THEN fallback
    ELSE MergeSourceSpans(stmts[1].span, stmts[Len(stmts)].span)

Block(stmts, i) ==
    [statements |-> stmts, span |-> SpanFromStatements(stmts, CursorSpan(i))]

----------------------------------------------------------------------------
(* The constructor reads the first token; Parse is the loop of ParseBlock  *)
(* with no end token, so that only the end of the input ends it.           *)
StartParse ==
    /\ stack = <<>> /\ Called
    /\ IF Kind(1) = "Bad"
       THEN Throw("LexerError", TokenSpan(1))
       ELSE stack' = <<BlockFrame({})>> /\ ret' = <<"call">>
    /\ UNCHANGED <<source, cur>>

(* Parse and ParseBlock: the head of the loop.  (ParseStmt skips semicolons *)
(* too; after this there are none.)                                         *)
Ends(i) == Kind(i) \in {"EOF"} \cup Top.ends

BlockEnds ==
    /\ In("ParseBlock") /\ Called
    /\ LET i == AfterSemicolons(cur) IN
       /\ Ends(i)
       /\ Answer(i, <<"block", Block(Top.stmts, i)>>)

(* Faulty: semicolons are looked at but not consumed.                      *)
FaultyBlockGoesOn ==
    /\ In("ParseBlock") /\ Called
    /\ ~Ends(AfterSemicolons(cur))
    /\ IF Kind(cur) = ";" THEN UNCHANGED vars
       ELSE CallFrom(cur, Top, PlainFrame("ParseStmt"))

BlockGoesOn ==
    /\ In("ParseBlock") /\ Called
    /\ LET i == AfterSemicolons(cur) IN
       /\ ~Ends(i)
       /\ CallFrom(i, Top, PlainFrame("ParseStmt"))

(* Faulty: what follows a return statement is parsed as statements.        *)
FaultyEnsureBlockEndsAfterReturn(stmts) ==
    /\ stack' = Append(Below, [Top EXCEPT !.stmts = stmts])
    /\ ret' = <<"call">>
    /\ UNCHANGED <<source, cur>>

(* EnsureBlockEndsAfterReturn, and the block that ends there.              *)
EnsureBlockEndsAfterReturn(stmts) ==
    LET i == AfterSemicolons(cur) IN
    IF ~Reads(i) \/ Ends(i)
    THEN Answer(i, <<"block", Block(stmts, i)>>)
    ELSE /\ cur' = i
         /\ Throw("TokenAfterReturn", TokenSpan(i))
         /\ UNCHANGED source

BlockGotStatement ==
    /\ In("ParseBlock") /\ Got("stmt")
    /\ LET stmts == Append(Top.stmts, ret[2]) IN
       IF ret[2].node.kind = "ReturnStatement"
       THEN EnsureBlockEndsAfterReturn(stmts)
       ELSE GoOn(cur, Append(Below, [Top EXCEPT !.stmts = stmts]), <<"call">>)

(* ParseStmt: MakeStatement(ParseX(), SpanFrom(start)).  The order in which *)
(* the two arguments are evaluated is the compiler's choice; evaluated      *)
(* first, the span ends at the token before the statement.                  *)
StatementParser(kind) ==
    CASE kind \in {"Name", "local"} -> PlainFrame("ParseVarDecl")
      [] kind = "return"            -> PlainFrame("ParseRetStmt")
      [] kind = "if"                -> IfFrame(<<>>, <<>>)
      [] OTHER                      -> PlainFrame("ParseExprStmt")

DispatchStatement ==
    /\ In("ParseStmt") /\ Called
    /\ \E order \in ArgOrders :
           CallFrom(cur,
               [fn |-> "MakeStatement", start |-> cur,
                early |-> IF order = "rtl" THEN <<SpanFrom(cur, cur)>> ELSE <<>>],
               StatementParser(Kind(cur)))

(* Faulty: the span is that of the first token.                            *)
FaultyStatementSpan(frame) == TokenSpan(frame.start)

StatementSpan(frame) ==
    IF frame.early # <<>> THEN frame.early[1] ELSE SpanFrom(frame.start, cur)

MakeStatement ==
    /\ In("MakeStatement") /\ Got("node")
    /\ Answer(cur, <<"stmt", [node |-> ret[2], span |-> StatementSpan(Top)]>>)

(* ParseVarDecl: `local` is consumed and leaves no trace in the node.      *)
ParseVarDecl ==
    /\ In("ParseVarDecl") /\ Called
    /\ LET name == IF Kind(cur) = "local" THEN cur + 1 ELSE cur IN
       CASE Kind(name) # "Name"   -> Refuse(name)
         [] Kind(name) = "Name" /\ Kind(name + 1) = "=" ->
                CallFrom(name + 2, [fn |-> "Initializer", name |-> name], ExprFrame(0))
         [] OTHER -> Answer(name + 1, <<"node", VarDecl(name, <<>>)>>)

VarDeclInitialized ==
    /\ In("Initializer") /\ Got("expr")
    /\ Answer(cur, <<"node", VarDecl(Top.name, <<ret[2]>>)>>)

(* ParseRetStmt: without an expression only before the end or a semicolon; *)
(* `return end` is an error.                                               *)
ParseRetStmt ==
    /\ In("ParseRetStmt") /\ Called
    /\ IF Kind(cur + 1) \in {"EOF", ";"}
       THEN Answer(cur + 1, <<"node", Return(<<>>)>>)
       ELSE CallFrom(cur + 1, Top, ExprFrame(0))

RetStmtGotExpr ==
    /\ In("ParseRetStmt") /\ Got("expr")
    /\ Answer(cur, <<"node", Return(<<ret[2]>>)>>)

ParseExprStmt ==
    /\ In("ParseExprStmt") /\ Called
    /\ CallFrom(cur, Top, ExprFrame(0))

ExprStmtGotExpr ==
    /\ In("ParseExprStmt") /\ Got("expr")
    /\ Answer(cur, <<"node", ExprStmt(ret[2])>>)

----------------------------------------------------------------------------
(* ParseIfStmt                                                             *)
ParseIfStmt ==
    /\ In("ParseIfStmt") /\ Called
    /\ CallFrom(cur + 1, Top, ExprFrame(0))

IfGotCondition ==
    /\ In("ParseIfStmt") /\ Got("expr")
    /\ IF Kind(cur) = "then"
       THEN CallFrom(cur + 1, IfFrame(<<ret[2]>>, <<>>), BlockFrame({"else", "end"}))
       ELSE Refuse(cur)

IfGotThenBranch ==
    /\ In("ParseIfStmt") /\ Got("block")
    /\ Top.then = <<>>
    /\ CASE Kind(cur) = "else" ->
               CallFrom(cur + 1, IfFrame(Top.cond, <<ret[2]>>), BlockFrame({"end"}))
         [] Kind(cur) = "end"  ->
               Answer(cur + 1, <<"node", If(Top.cond[1], ret[2], <<>>)>>)
         [] OTHER -> Refuse(cur)

(* Faulty: the branches are exchanged.                                     *)
FaultyIfGotElseBranch ==
    /\ In("ParseIfStmt") /\ Got("block")
    /\ Top.then # <<>>
    /\ IF Kind(cur) = "end"
       THEN Answer(cur + 1, <<"node", If(Top.cond[1], ret[2], Top.then)>>)
       ELSE Refuse(cur)

IfGotElseBranch ==
    /\ In("ParseIfStmt") /\ Got("block")
    /\ Top.then # <<>>
    /\ IF Kind(cur) = "end"
       THEN Answer(cur + 1, <<"node", If(Top.cond[1], Top.then[1], <<ret[2]>>)>>)
       ELSE Refuse(cur)

----------------------------------------------------------------------------
(* ParseExpr                                                               *)
ParseExpr ==
    /\ In("ParseExpr") /\ Called
    /\ CallFrom(cur, Top, PlainFrame("ParsePrimExpr"))

(* lhs so far: the first operand, or the operation that is now complete.   *)
Combined(frame, e) ==
    IF frame.op = "none" THEN e
    ELSE Binary(frame.op, frame.lhs[1], e,
                MergeSourceSpans(frame.lhs[1].span, e.span))

(* Does the operator belong to this call, rather than to a caller?         *)
Binds(frame, kind) == Precedence(kind) >= frame.min

ParseExprContinues ==
    /\ In("ParseExpr") /\ Got("expr")
    /\ Binds(Top, Kind(cur))
    /\ CallFrom(cur + 1,
                [Top EXCEPT !.lhs = <<Combined(Top, ret[2])>>, !.op = Kind(cur)],
                ExprFrame(RhsPrecedence(Kind(cur))))

ParseExprEnds ==
    /\ In("ParseExpr") /\ Got("expr")
    /\ ~Binds(Top, Kind(cur))
    /\ Answer(cur, <<"expr", Combined(Top, ret[2])>>)

----------------------------------------------------------------------------
(* ParsePrimExpr: the token is consumed, and the next one read, before the *)
(* switch looks at it.                                                     *)
PrimAt(kind) == In("ParsePrimExpr") /\ Called /\ Kind(cur) = kind

ParsePrimEnd ==
    /\ PrimAt("EOF")
    /\ Throw("UnexpectedEnd", CursorSpan(cur))
    /\ UNCHANGED <<source, cur>>

ParsePrimLeaf ==
    /\ In("ParsePrimExpr") /\ Called
    /\ Kind(cur) \in LiteralKinds \cup {"Name"}
    /\ Answer(cur + 1,
              <<"expr", Leaf(IF Kind(cur) = "Name" THEN "Variable" ELSE "Literal", cur)>>)

(* Faulty: the operator or parenthesis is not consumed.                    *)
FaultyParsePrimPrefix ==
    /\ In("ParsePrimExpr") /\ Called
    /\ Kind(cur) \in UnaryKinds \cup {"("}
    /\ CallFrom(cur, [fn |-> "Unary", at |-> cur], ExprFrame(UnaryPrecedence))

ParsePrimPrefix ==
    /\ In("ParsePrimExpr") /\ Called
    /\ \/ /\ Kind(cur) \in UnaryKinds
          /\ CallFrom(cur + 1, [fn |-> "Unary", at |-> cur], ExprFrame(UnaryPrecedence))
       \/ /\ Kind(cur) = "("
          /\ CallFrom(cur + 1, [fn |-> "Paren", at |-> cur], ExprFrame(0))

PrimKinds == LiteralKinds \cup UnaryKinds \cup {"Name", "("}

(* std::stoi, or the default of the switch.                                *)
ParsePrimError ==
    /\ In("ParsePrimExpr") /\ Called
    /\ Kind(cur) \notin PrimKinds \cup {"EOF"}
    /\ IF Reads(cur + 1)
       THEN Throw(IF Kind(cur) = "HugeInt" THEN "LiteralOutOfRange"
                  ELSE "ExpectedExpression", TokenSpan(cur))
       ELSE Throw("LexerError", TokenSpan(cur + 1))
    /\ cur' = cur + 1
    /\ UNCHANGED source

UnaryGotOperand ==
    /\ In("Unary") /\ Got("expr")
    /\ Answer(cur, <<"expr", Unary(Kind(Top.at), ret[2],
                                   MergeSourceSpans(TokenSpan(Top.at), ret[2].span))>>)

(* The parentheses leave no node, only a wider span.                       *)
ParenClosed ==
    /\ In("Paren") /\ Got("expr")
    /\ Kind(cur) = ")"
    /\ Answer(cur + 1,
              <<"expr", [ret[2] EXCEPT !.span =
                             MergeSourceSpans(TokenSpan(Top.at), TokenSpan(cur))]>>)

ParenNotClosed ==
    /\ In("Paren") /\ Got("expr")
    /\ Kind(cur) # ")"
    /\ Refuse(cur)

----------------------------------------------------------------------------
(* Parse has returned: a program (a block) or an error.                    *)
Finished == stack = <<>> /\ ~Called
Terminated == Finished /\ UNCHANGED vars

Init ==
    /\ source \in Sources
    /\ cur = 1
    /\ stack = <<>>
    /\ ret = <<"call">>

BlockStep == StartParse \/ BlockEnds \/ BlockGoesOn \/ BlockGotStatement

StmtStep ==
    \/ DispatchStatement \/ MakeStatement
    \/ ParseVarDecl \/ VarDeclInitialized
    \/ ParseRetStmt \/ RetStmtGotExpr
    \/ ParseExprStmt \/ ExprStmtGotExpr
    \/ ParseIfStmt \/ IfGotCondition \/ IfGotThenBranch \/ IfGotElseBranch

ExprStep ==
    \/ ParseExpr \/ ParseExprContinues \/ ParseExprEnds
    \/ ParsePrimEnd \/ ParsePrimLeaf \/ ParsePrimPrefix \/ ParsePrimError
    \/ UnaryGotOperand \/ ParenClosed \/ ParenNotClosed

Next == BlockStep \/ StmtStep \/ ExprStep \/ Terminated

Spec == Init /\ [][Next]_vars

(* The parser is sequential: a C++ function that can go on does.           *)
FairSpec == Spec /\ WF_vars(Next)

----------------------------------------------------------------------------
(* The cursor never leaves the token sequence, and the stack holds known   *)
(* functions.                                                              *)
Functions == {"ParseBlock", "ParseStmt", "MakeStatement", "ParseVarDecl",
              "Initializer", "ParseRetStmt", "ParseExprStmt", "ParseIfStmt",
              "ParseExpr", "ParsePrimExpr", "Unary", "Paren"}

TypeOK ==
    /\ source \in Sources
    /\ cur \in 1..Len(source) + 1
    /\ \A i \in 1..Len(stack) : stack[i].fn \in Functions
    /\ ret[1] \in {"call", "expr", "node", "stmt", "block", "throw"}

(* The recursion is linear in what has been read: nested parentheses,      *)
(* unary operators, right operands and ifs each consume a token first.     *)
BoundedRecursion == Len(stack) <= 2 * cur + 3

(* How many functions may still be entered or left before a token is read. *)
CallsLeft(fn) ==
    CASE fn = "ParseBlock" -> 6
      [] fn = "ParseStmt" -> 5
      [] fn \in {"ParseVarDecl", "ParseRetStmt", "ParseExprStmt", "ParseIfStmt"} -> 4
      [] fn = "ParseExpr" -> 3
      [] fn = "ParsePrimExpr" -> 2

StepsLeft(s, r) ==
    CASE r[1] = "throw" -> 0
      [] r[1] = "block" -> 1
      [] r = <<"call">> -> IF s = <<>> THEN 7 ELSE CallsLeft(s[Len(s)].fn)
      [] OTHER -> 8 + Len(s)

(* No loop and no recursion goes round without reading a token: a step     *)
(* that reads none leaves fewer that may come before one does.             *)
Progress ==
    \/ cur' > cur
    \/ cur' = cur /\ StepsLeft(stack', ret') < StepsLeft(stack, ret)
EveryStepIsProgress == [][Progress]_vars

(* The tokens of an expression, but for the parentheses around it.         *)
Inside(e) ==
    CASE e.kind = "Binary" -> Span(e.lhs.span.begin, e.rhs.span.end)
      [] e.kind = "Unary"  -> Span(e.rhs.span.begin - 1, e.rhs.span.end)
      [] OTHER             -> TokenSpan(e.at)

InParens(e) == e.span # Inside(e)
BareBinary(e) == e.kind = "Binary" /\ ~InParens(e)

Tighter(op, than, orAsTight) ==
    Precedence(op) > Precedence(than)
        \/ (orAsTight /\ Precedence(op) = Precedence(than))

(* An expression, its operator and its operands stand where the tokens     *)
(* are, and an operand without parentheses binds tighter than what it is an*)
(* operand of: on the right of ^ and on the left of the others, as tight.  *)
FitsTokens(e, tokens) ==
    /\ InParens(e) =>
           /\ tokens[e.span.begin] = "(" /\ tokens[e.span.end - 1] = ")"
           /\ e.span.begin < Inside(e).begin
           /\ Inside(e).begin - e.span.begin = e.span.end - Inside(e).end
    /\ CASE e.kind = "Binary" ->
                /\ tokens[e.lhs.span.end] = e.op
                /\ e.rhs.span.begin = e.lhs.span.end + 1
                /\ BareBinary(e.lhs) => Tighter(e.lhs.op, e.op, e.op # "^")
                /\ BareBinary(e.rhs) => Tighter(e.rhs.op, e.op, e.op = "^")
         [] e.kind = "Unary" ->
                tokens[Inside(e).begin] = e.op /\ ~BareBinary(e.rhs)
         [] OTHER ->
                /\ tokens[e.at] \in LiteralKinds \cup {"Name"}
                /\ e.kind = "Variable" <=> tokens[e.at] = "Name"

(* Every expression is first given back or kept as a left operand, so what *)
(* holds of these holds of all that an AST is made of.                     *)
ExpressionsFitTheirTokens ==
    /\ Got("expr") => ret[2].span.end = cur /\ FitsTokens(ret[2], source)
    /\ \A k \in 1..Len(stack) :
           stack[k].fn = "ParseExpr" /\ stack[k].op # "none"
               => FitsTokens(stack[k].lhs[1], source)

(* Every input is parsed or refused: the loops always consume something.   *)
Termination == <>Finished
====
