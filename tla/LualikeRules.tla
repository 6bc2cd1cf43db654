---- MODULE LualikeRules ----
(***************************************************************************)
(* The language the parser accepts, as a grammar over ranges of tokens: a  *)
(* phrase <<what, i, j>> says that the tokens i..j-1 form an expression, a *)
(* declaration, a statement, a return statement, a row of statements or a  *)
(* block.  There is no stack, no cursor and no precedence.                 *)
(*                                                                         *)
(* A rule takes what is known of other phrases from Is; they are shorter,  *)
(* or parts of no more than what the phrase consists of.  The grammar is   *)
(* what agrees with the rules, as a recursive function; a recursive        *)
(* operator would hide it from the proofs.                                 *)
(***************************************************************************)
EXTENDS LualikeParser

Operands == LiteralKinds \cup {"Name"}
StatementKinds == {"Name", "local", "return", "if"}

KindAt(s, i) == IF i <= Len(s) THEN s[i] ELSE "EOF"
Places(s) == 1..(Len(s) + 1)
OnlySemicolons(s, i, j) == \A k \in i..(j - 1) : KindAt(s, k) = ";"

(* expr ::= operand | unop expr | '(' expr ')' | expr binop expr           *)
ExprRule(s, Is(_), i, j) ==
    \/ j = i + 1 /\ KindAt(s, i) \in Operands
    \/ i + 1 < j /\ KindAt(s, i) \in UnaryKinds /\ Is(<<"expr", i + 1, j>>)
    \/ /\ i + 2 < j /\ KindAt(s, i) = "(" /\ KindAt(s, j - 1) = ")"
       /\ Is(<<"expr", i + 1, j - 1>>)
    \/ \E k \in (i + 1)..(j - 2) :
           KindAt(s, k) \in BinaryKinds /\ Is(<<"expr", i, k>>) /\ Is(<<"expr", k + 1, j>>)

(* decl ::= Name ['=' expr]                                                *)
DeclRule(s, Is(_), i, j) ==
    /\ KindAt(s, i) = "Name"
    /\ \/ j = i + 1
       \/ i + 2 < j /\ KindAt(s, i + 1) = "=" /\ Is(<<"expr", i + 2, j>>)

(* stat ::= ['local'] decl | expr | 'if' expr 'then' block ['else' block] 'end' *)
(* where an expression statement does not begin with a name.               *)
IfRule(s, Is(_), i, j) ==
    /\ KindAt(s, i) = "if" /\ KindAt(s, j - 1) = "end"
    /\ \E k \in (i + 2)..(j - 2) :
           /\ KindAt(s, k) = "then"
           /\ Is(<<"expr", i + 1, k>>)
           /\ \/ Is(<<"block", k + 1, j - 1>>)
              \/ \E l \in (k + 1)..(j - 2) :
                     /\ KindAt(s, l) = "else"
                     /\ Is(<<"block", k + 1, l>>)
                     /\ Is(<<"block", l + 1, j - 1>>)

StatRule(s, Is(_), i, j) ==
    \/ KindAt(s, i) = "Name" /\ Is(<<"decl", i, j>>)
    \/ KindAt(s, i) = "local" /\ i + 1 < j /\ Is(<<"decl", i + 1, j>>)
    \/ KindAt(s, i) \notin StatementKinds /\ Is(<<"expr", i, j>>)
    \/ IfRule(s, Is, i, j)

(* retstat ::= 'return' [expr]                                             *)
(* The expression may be missing only before a semicolon or the end.       *)
ReturnRule(s, Is(_), i, j) ==
    /\ KindAt(s, i) = "return"
    /\ \/ j = i + 1 /\ KindAt(s, j) \in {"EOF", ";"}
       \/ i + 1 < j /\ Is(<<"expr", i + 1, j>>)

(* stats ::= {stat | ';'}                                                  *)
StatsRule(s, Is(_), i, j) ==
    \/ i = j
    \/ \E k \in i..(j - 1) :
           /\ OnlySemicolons(s, k, j) \/ Is(<<"stat", k, j>>)
           /\ Is(<<"stats", i, k>>)

(* block ::= stats [retstat {';'}]                                         *)
BlockRule(s, Is(_), i, j) ==
    \/ Is(<<"stats", i, j>>)
    \/ \E k \in i..(j - 1) :
           \/ Is(<<"return", k, j>>) /\ Is(<<"stats", i, k>>)
           \/ OnlySemicolons(s, k, j) /\ Is(<<"block", i, k>>)

PhraseRule(s, Is(_), q) ==
    CASE q[1] = "expr"   -> ExprRule(s, Is, q[2], q[3])
      [] q[1] = "decl"   -> DeclRule(s, Is, q[2], q[3])
      [] q[1] = "stat"   -> StatRule(s, Is, q[2], q[3])
      [] q[1] = "return" -> ReturnRule(s, Is, q[2], q[3])
      [] q[1] = "stats"  -> StatsRule(s, Is, q[2], q[3])
      [] q[1] = "block"  -> BlockRule(s, Is, q[2], q[3])

PhrasesOf(s) ==
    {"expr", "decl", "stat", "return", "stats", "block"} \X Places(s) \X Places(s)

Grammar(s) ==
    LET Is[q \in PhrasesOf(s)] == PhraseRule(s, LAMBDA p : Is[p], q) IN Is

IsExpr(s, i, j) == Grammar(s)[<<"expr", i, j>>]
IsProgram(s) == Grammar(s)[<<"block", 1, Len(s) + 1>>]

(* The parser accepts what the grammar generates and nothing else: no      *)
(* backtracking is ever needed, and no token is skipped.                   *)
AcceptsExactlyTheGrammar == Finished => (ret[1] = "block" <=> IsProgram(source))

----------------------------------------------------------------------------
(* Where the statements of a tree stand in the source.                     *)
EndOf(stmts, k, i) == IF k = 0 THEN i ELSE stmts[k].span.end
BeginOf(stmts, k, j) == IF k > Len(stmts) THEN j ELSE stmts[k].span.begin

(* In order, they are all of s[i..j-1] but for semicolons.                 *)
StatementsFill(stmts, i, j, s) ==
    /\ \A k \in 1..Len(stmts) : stmts[k].span.begin < stmts[k].span.end
    /\ \A k \in 0..Len(stmts) :
           /\ EndOf(stmts, k, i) <= BeginOf(stmts, k + 1, j)
           /\ OnlySemicolons(s, EndOf(stmts, k, i), BeginOf(stmts, k + 1, j))

(* Only the last one may be a return statement.                            *)
BlockFits(b, i, j, s) ==
    LET stmts == b.statements IN
    /\ StatementsFill(stmts, i, j, s)
    /\ \A k \in 1..Len(stmts) - 1 : stmts[k].node.kind # "ReturnStatement"
    /\ stmts # <<>> => b.span = Span(stmts[1].span.begin, stmts[Len(stmts)].span.end)

IfFits(n, i, j, s) ==
    LET t == n.condition.span.end IN
    /\ KindAt(s, i) = "if" /\ n.condition.span = Span(i + 1, t) /\ KindAt(s, t) = "then"
    /\ KindAt(s, j - 1) = "end"
    /\ IF n.else = <<>> THEN BlockFits(n.then, t + 1, j - 1, s)
       ELSE \E e \in (t + 1)..(j - 2) :
                /\ KindAt(s, e) = "else"
                /\ BlockFits(n.then, t + 1, e, s) /\ BlockFits(n.else[1], e + 1, j - 1, s)

(* The node of a statement says where each of its tokens s[i..j-1] is.     *)
NodeFits(n, i, j, s) ==
    CASE n.kind = "VariableDeclaration" ->
            /\ KindAt(s, n.name) = "Name"
            /\ n.name = i \/ (n.name = i + 1 /\ KindAt(s, i) = "local")
            /\ IF n.initializer = <<>> THEN j = n.name + 1
               ELSE /\ KindAt(s, n.name + 1) = "="
                    /\ n.initializer[1].span = Span(n.name + 2, j)
      [] n.kind = "ReturnStatement" ->
            /\ KindAt(s, i) = "return"
            /\ IF n.expression = <<>> THEN j = i + 1
               ELSE n.expression[1].span = Span(i + 1, j)
      [] n.kind = "ExpressionStatement" ->
            KindAt(s, i) \notin StatementKinds /\ n.expression[1].span = Span(i, j)
      [] n.kind = "IfStatement" -> IfFits(n, i, j, s)

(* Each statement accounts for all the tokens of its span, which ends with *)
(* the last token read, and so does the program: the blocks of an if and   *)
(* its keywords follow each other, a row of statements has nothing but     *)
(* semicolons between, and nothing comes after a return.  Every statement  *)
(* is first given back, so this holds of all that a program is made of.    *)
StatementsFitTheirTokens ==
    /\ Got("stmt") =>
           /\ ret[2].span.end = cur
           /\ NodeFits(ret[2].node, ret[2].span.begin, cur, source)
    /\ Finished /\ Got("block") => BlockFits(ret[2], 1, Len(source) + 1, source)
====
