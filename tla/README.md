# A verification model of lualike

lualike is a small interpreter in C++23 for a language that looks like Lua: an
on-demand lexer, a recursive-descent parser that builds an AST, and a
tree-walking evaluator over a chain of scopes. It is a sequential library: no
threads, no I/O but reading a stream once, nothing persisted. What is hard in it
is the order of things: which scope a name is written to, what a `return` or an
error stops, which operands are evaluated, where a statement ends, what the
parser has read by the time it computes a span, what an `Error` has gone
through by the time somebody asks it `what()`; and what is left when memory
runs out on the way.

This directory holds TLA+ modules for those parts, TLC configurations that check
them on small instances, and proofs that TLAPS checks for all instances.

## Inventory of the system

| part | source | state it keeps | operations | what makes it correct |
|---|---|---|---|---|
| Scope chain | `interpreter.h` 23-60, 169-179 | `names_` of every live scope, linked by `parent_scope_` | `Get`, `Set`, making and dropping the scope of a block | a name is one variable; it lives exactly as long as the block that assigned it first |
| Interpreter | `interpreter.h`, `ast.h` | the C++ call stack, the scopes | `VisitBlock`, `StmtVisitor`, `ExprVisitor` for each node | result and error are those of the language definition; scopes are dropped on every way out; every program ends |
| Values | `value.h`, `value.cc` | none of its own | arithmetic, comparison, logic, compound assignments, `ToString` | results are values of the language; errors name the wrong operand; operands that are one variable, or a throw half-way, spoil nothing |
| Parser | `parser.h` | `current_token_`, `previous_token_`, the call stack | `Parse`, `ParseBlock`, `ParseStmt`, ..., `Advance`, `Consume`, `Match` | accepts the grammar and nothing else; trees follow precedence; spans say where a node is; it ends, with bounded recursion |
| Spans, tokens | `token.h` | none | `MergeSourceSpans`, the keyword and symbol tables | merging covers both spans |
| Lexer | `lexer.h` | `cursor_` | `NextToken` and its three readers | only blanks and comments lie between tokens; the longest match wins; it fails only where no token begins; it ends |
| Errors | `error.h`, `error.cc` | chain of causes, attached text, `cached_what_` | `Wrap`, `AttachSourceText`, copies and moves, `what`, `RenderPlain`, `RenderPretty` | the cache is never stale, also after a failed allocation; the first text stays; carets mark the span and no column wraps around; no cause is lost |
| AST dump | `ast.cc` | none | `ToString`, `PrintTo` | different trees have different texts, since tests compare trees by eye through them |
| Entry points | `parser.h` 32-64, 205-246, `interpreter.h` 100-149, `lualike.h` | none | `Parse`, `Interpret` on a string or a stream | the result is what the text means; whatever is thrown becomes an `Error` that names its place and holds the source |

How they interact: `Interpret` makes a `Parser`; the parser pulls tokens from the
lexer one ahead of the token it works on; the finished AST is walked by
`VisitBlock` with a new root `Scope`; visitors call the operators of
`LualikeValue`, whose exceptions are wrapped with the operation's span; every
exception becomes the error half of a `std::expected`, with the source attached.
`PROJECT.json` lists the hazards at their lines.

## The modules

| module | models | kind |
|---|---|---|
| `LualikeScope` | `Scope` as operators on a sequence of scopes | operators |
| `LualikeScopeChain` | the scope operations in any order | state machine |
| `FlatStore` | one variable per name, owned by a block: what the chain promises | abstract specification |
| `LualikeScopeProofs` | theorems about `LualikeScopeChain` | proofs |
| `LualikeValueProofs` | lemmas: rounding to doubles; the operators map values to values | proofs |
| `LualikeInterpreterProofs` | theorems about `LualikeInterpreter`, on top of the two above | proofs |
| `LualikeValue` | values and their operations | operators |
| `LualikeInterpreter` | the evaluator; composes `LualikeValue` and `LualikeScope`, and implements `LualikeScopeChain` | state machine |
| `LualikeSemantics` | the language as rules over the syntax with one flat environment; the meaning of a program is the recursive function that follows them | reference |
| `LualikeUpdates` | the operators as C++ code calls them: references, copies, reading before writing | state machine |
| `ValueUpdates` | operations that take effect at once or not at all | abstract specification |
| `LualikeUpdatesProofs` | the first implements the second; values are ordered; ints divide exactly | proofs |
| `LualikeSpan` | `SourceSpan` and `MergeSourceSpans` | operators |
| `LualikeParser` | the parser over token kinds | state machine |
| `LualikeRules` | the language as a grammar over ranges of tokens: rules, and the recursive function that follows them; where the nodes of a tree stand in a source | reference |
| `LualikeGrammar` | the trees of what the grammar generates: expressions by splitting at the root, statements by their spans | reference |
| `LualikeParserProofs` | theorems about `LualikeParser`: its bounds, and the language it accepts | proofs |
| `LualikeLexer` | `NextToken`, one character a step | state machine |
| `LualikeLexerProofs` | theorems about `LualikeLexer` | proofs |
| `LualikeErrorChain` | chains of causes, snippets, the three texts an `Error` is rendered as | operators |
| `LualikeRendering` | an `Error` that is wrapped on its way up and rendered anywhere | state machine |
| `LualikeRenderingProofs` | theorems about the snippets of `LualikeRendering` | proofs |
| `LualikeError` | `Error` objects with their cache, in any order of calls | state machine |
| `ErrorReport` | errors that keep no text: what `Error` promises | abstract specification |
| `LualikeErrorProofs` | theorems about `LualikeError` | proofs |
| `LualikePipeline` | the entry points; composes `LualikeLexer`, `LualikeParser` with its grammar, `LualikeInterpreter` with its semantics, and the error chain | state machine |
| `LualikeAstDump` | the text of a tree, as indented lines | operators, with a machine that picks trees |
| `MC*` | the instances for TLC | |

### State and actions

*Scopes.* The live scopes form a stack, since nothing keeps a `shared_ptr<Scope>`
beyond the `VisitBlock` that made it. It is a sequence, root first; `Absent`
stands for a missing entry. `EnterBlock`, `LeaveBlock` and `Assign` are what
`VisitBlock` and the statement visitors do to it. `Assign` needs a second
scope: every statement runs under some `VisitBlock`, so never in the root.

*Interpreter.* Recursion is made explicit: `stack` has one frame per active
`VisitBlock`, `StmtVisitor` or `ExprVisitor`, and `ret` is what the call that
just ended gave back: a value, `std::nullopt`, the value of a `return` or an
exception. `VisitBlock` keeps the statements still to run; a binary operation
keeps its left operand. Each `if constexpr` branch of a visitor is one to three
actions, split where it calls another visitor. The four exits of a block are one
action, `EndBlock`, that always drops the scope, as the destructor of
`inner_scope` does. AST nodes that the parser never builds (`Assignment`,
`FunctionCallExpression`, `FunctionDeclaration`) are visited too, because the
visitors and the C++ interface accept them.

*Values.* A value is a tagged tuple. Ints wrap at `IntLimit`, which stands for
2^63. Doubles are those of IEEE 754 with fewer bits. `<<"Float", k>>` is `k`
smallest doubles, `UnitsInOne` of which make 1 (2^1074 in the code), and `k` is a
significand below `Significands` (2^53) times one of the `Ulps`, which are powers of
two from 1 up. Every result is rounded to the nearest double, of two to the even one
(`Double`), and one that is too large becomes an infinity: sums, products, quotients,
literals, and ints when they are converted, so that an int beyond `Significands` may
lose its low bits. `//` is the floor of a quotient that has been rounded already. The
sign of a zero is not kept. Operations give the set of possible outcomes: more than one where C++ leaves the result undefined (conversion of NaN
to int in `%`) or where a library function is not modelled (`std::pow`).
Strings are ranks in an order. The comparisons follow the defaulted ones of the
variant: the index of the alternative first, so `1 == 1.0` is false.

*Updates.* `LualikeUpdates` is C++ code with a few variables that calls these
operators on them. `values` has the variables and the by-value parameter `lhs`
of `operator+` and its like. A call looks at its left operand, then at its right
one, then stores; each of the first two may throw. That is the order in
`PerformFloatBinOp`, and what `std::visit` does in `PerformArithmeticBinOp`;
`operator||` and `operator&&` convert both operands with `TryAsBool`.

*Parser.* The same technique: `stack` holds the active member functions, `cur`
is the index of `current_token_` in the sequence of tokens, and `previous_token_`
is the one before it. Token `i` covers the span `i..i+1`, so spans are ranges
of token indices. The lexer is one token ahead: moving on to a `"Bad"` token
throws, whatever the parser was about to do with the token before it; moves of
several tokens that contain no decision (a run of semicolons, `local` and a
name) are one step. `ArgOrders` is the order in which the compiler
evaluates `MakeStatement(ParseX(), SpanFrom(start))`, which C++ leaves open.

*Lexer.* `cursor` is `cursor_`; `mode` says which of its loops `NextToken` is in.
Each round of a loop is a step, as is each of the decisions after the blanks
(`BeginWord`, `BeginNumber`, `BeginString`, `TwoCharToken`, `OneCharToken`,
`InvalidSymbol`). Characters are those that the code names, and one or more of
each class it asks `IsAlphabetic`, `IsNumeric`, `IsSpace` about.

*Errors.* A chain is a sequence of `ContextError` records, outermost first;
`span` and `foreign` are sequences of at most one, as the optionals are.
Rendered texts are sequences of lines, and a line is what was put in it: wording
is left out, the offsets are not. `Minus` is the subtraction of `size_t`, modulo
`SizeLimit`. In `LualikeError`, `errors[h]` is the object in place `h`; `told`
what `what()` last returned. Moving leaves the source empty, as the defaulted
move of its members does; `WhatWithoutMemory` is the `catch` clause of `what()`.

*Pipeline.* `phase` tells which stage runs. The parser pulls tokens from the
lexer one ahead; the lexer shares no state with it but the cursor, so in the
model the lexer runs to its end, or to its Error, first, and `TokenKinds` puts a
`"Bad"` token where the parser would be given that Error. `CharSpan` turns the
parser's token ranges into ranges of characters, `TokenToValue` literals
into values, by `std::stoi` and `std::stod` as the code calls them. A stream may
be unreadable. Memory may run out in any step (`AllocationFails`); the Error is
then that of the innermost handler. `CopyFails` is the copy of a view's text for
the Error, or by `Parse` in any case: only one of the three places is in a `try`
block, the others end the process through `noexcept`.

*AST dump.* A line is its indentation and what is printed on it.

## What the runs check

| run | instance | shows |
|---|---|---|
| `scope_chain` | 2 names, 2 values, up to 5 live scopes | types; no shadowing (`SingleBinding`); `RootStaysEmpty`; names of enclosing scopes do not change (`EnclosingNamesStable`); the chain implements `FlatStore` |
| `expressions` | `return e` for every operator on all pairs of 18 operands (every type, the limits, infinity, NaN, an unbound name, a call), and all trees of depth two over `and`, `or`, `-`, `not` and three leaves | `TypeOK` (results are values again: overflow wraps); the result, or the error and the span it is blamed on, agrees with `LualikeSemantics` |
| `programs` | a statement, then an `if` with up to two statements in the branch taken or with a nested `if` between two statements, then a `return`: over 2 names, with bare and valued returns, failing reads and assignments at every place | one scope per active block on every way out (`ScopeDiscipline`); a return or an error passes everything at once and changes nothing (`ReturnAndThrowAreFinal`); agreement with the definition that has no chain; `UsesScopeChain`; `Termination` |
| `parser_expressions` | `return` and all sequences of up to 5 tokens of `Int - * ^ ( )`, and all chains of three operators of `< - * ^` between operands that may carry a unary minus; both argument orders | the parser accepts exactly the grammar (`AcceptsExactlyTheGrammar`); each expression handed back is the tree that splitting at the loosest operator gives, with its span (`ExpressionsAreTrees`); each expression, kept as an operand or handed back, stands in its tree as in the source (`ExpressionsFitTheirTokens`); the call depth is linear in the tokens read (`BoundedRecursion`) |
| `parser_statements` | all sequences of up to 4 of 15 phrases (declarations, `local`, `if`, `then`, `else`, `end`, `return`, `;`, a token the lexer rejects, a literal out of range, ...) | acceptance again; the spans of the statements, nested ones included, account for every token (`StatementsCoverTheSource`), and each statement, when it is handed back, has its keywords, names, expressions and blocks where its tokens are (`StatementsFitTheirTokens`); no round of a loop or a recursion without reading a token (`EveryStepIsProgress`); `Termination` |
| `lexer` | all texts of up to 4 of 12 characters, and all sequences of 3 of 10 pieces (names, numbers with `,`, strings with the other quote, comments, ...) | `TypeOK`; nothing but blanks and comments lies between tokens (`NothingIsSkipped`); no token could be longer (`TokensAreLongestLexemes`); every failure is at a place where no token begins (`FailuresAreReal`); `Termination` |
| `rendering` | all texts of up to 3 characters and line breaks, all spans up to one place behind the end and reversed ones, with and without call stacks and foreign exceptions, chains of two | `CaretsMarkTheSpan`; `SnippetQuotesTheContext`; `RenderingsAreComplete`: each message once in each rendering |
| `errors` | two objects, chains of two, three nodes, three source texts (one empty) | `CacheIsFresh`; `ImplementsErrorReport` |
| `pipeline` | 19 phrases, all pairs of them and all triples of 8, through the four entry points | `ErrorsNameTheCulprit`; `ErrorsShowTheirSource`; `ResultsAreMeanings`; `EveryCallReturns` |
| `ast_dump` | pairs of trees among those with every node, every operator, operators in either operand, `if` in `if`, functions | `TextDeterminesTree` |
| `updates` | two interchangeable variables, every pair of values, every operator, results in either variable; doubles with significands below 4 and four ulps, ints of which two are no doubles | `ImplementsValueUpdates`; `QuotientsAndRemainders`; `ComparisonIsAnOrder` |
| `readme_example` | the program of the README | a disagreement: the README says the program prints `7`; `ToString` gives `Number <7>` |

Why the bounds are enough. *Scopes:* the properties relate two scopes and a name;
three live scopes show every case of `Set` (entry in the innermost, in an
enclosing, in no scope), five leave room for leaving and entering again; the
theorems remove the bound. *Expressions:* operators look at the types of two
operands, and all pairs of types occur, at the limits of the number types;
evaluation order and blame need an operand that is itself an operation, which the
trees of depth two have on both sides. *Programs:* an outer, a middle and an inner
block, with a statement before and after the inner one, are what it takes to
see a return or an error cross more than one block. *Parser:* precedence
climbing compares neighbouring operators; five tokens after `return` hold two
operators with a unary one or parentheses between, and the chains have three
operators of four precedence levels, which is the first length at which an
operator must be handed back through two active calls of `ParseExpr`; four
phrases hold an `if` in an `if`, or an `if` with `else` and a statement.
*Lexer:* its decisions look one character ahead (`MaxShort` of 4 leaves room for
a token, a comment and another token); the longer texts have tokens whose kind
depends on a third character. *Rendering:* the column arithmetic depends on
where the span's ends lie relative to the line's and the text's; three characters
hold a line between two others. `MaxText`, and `MaxChain` of 2, bound it;
the two passes of `RenderPretty` differ on pairs of nodes. `SizeLimit` (1000)
stands for 2^64: anything far above the offsets will do. *Errors:* the
operations relate two objects at most, and a cache to one `Wrap`; the theorems
have no bound. *Pipeline:* three statements hold a declaration, a use and what
follows it; a phrase holds an operation in an operation; `StoiLimit` and
`IntLimit` of 16 stand for 2^31 and 2^63 (the code's limits differ, so an int of
the program may go beyond the literals there; `expressions` has such ints).
Each call runs out of memory at most once. *Updates:* two variables give every
way in which two operands and a result can coincide, but three different ones.
Significands of two bits and ulps from a quarter of 1 to 2 hold what there is to
see of rounding: quotients that are rounded up to a whole number, sums that lose
bits, halfway cases, overflow, and ints (`IntLimit` is 5) that are no doubles. The
theorems have no bound. In `expressions` significands are as short; in `pipeline` they
hold every int, so that literals and meanings are about the parser and not about rounding.

*Fairness.* The interpreter, the parser and the lexer are specified with weak
fairness of the whole next-state relation: a sequential C++ function that can go
on does. The pipeline has weak fairness of `Progress`, all of its steps but the
failed allocations, which nothing makes happen. Nothing finer is assumed. The scope chain has none, since nothing makes a
program enter or leave a block, nor have errors and updates: nothing makes C++ code
call them. Deadlock is checked wherever a machine has an end: a finished
one stutters through `Terminated`, anything else that stops is an error. In
`rendering` and `ast_dump` it is off, since a chain of full length and a chosen
pair of trees have no next step.

`StatementsCoverTheSource` and `StatementsFitTheirTokens` are checked only with
arguments evaluated left to right, as clang (the compiler of `flake.nix`) does. A compiler that evaluates
them right to left gives a statement the wrong span; no test or document says
which span it should be, and only expression spans reach an error message, so
the other order is in `parser_expressions`, not listed as a finding.

## What is proved

`LualikeScopeProofs`, for all sets of names and values and any nesting depth, from
`AbsentAssumption` alone (`Absent` is not a value):

- `ScopeTypeCorrect`, `NoShadowing`, `RootScopeUnused`: the type invariant and the
  two state invariants of the scope chain;
- `EnclosingScopesKeepTheirNames`: the action property;
- `ScopeChainImplementsFlatStore`: the refinement.

The inductive invariant `ScopeInv` is the conjunction of the three state
invariants. `RootStaysEmpty` and `SingleBinding` need `TypeOK`;
`SingleBinding` is what makes the refinement go through: the flat store forgets a
name when its owner's block is left, and only because no outer scope has
another entry does `Get` on the shorter chain find nothing. The lemmas say
where `Set` writes (`SetIndexInChain`, `SetHolders`), what `Get` gives after
each operation (`GetAfterSet`, `GetAfterEnter`, `GetAfterLeave`), and that with
one holder the nearest holder is that one (`NearestIsTheHolder`).

`LualikeInterpreterProofs`, for every set of programs that satisfies
`AstAssumption` (any size, any nesting) and all limits of the number types,
from `AbsentAssumption`, `ValueAssumption`, `UlpsAssumption` and `ScopeValuesAssumption`
as well:

- `InterpreterTypeCorrect`, `ScopesMatchBlocks`: the type invariant, and one live
  scope for each active block, on every way out of a block;
- `NoShadowingInPrograms`: `SingleBinding` of the chain, in every program;
- `InterpreterUsesScopeChain`: every step is a step of the chain or leaves it;
- `ReturnAndThrowPassEverything`: the action property;
- `ResultsObeyTheRules`, `EvaluatorAgreesWithSemantics`: what a program ends with is
  what the rules of `LualikeSemantics` give it.

The inductive invariant `InterpreterInv` adds two things to `TypeOK` and
`ScopeDiscipline`. `StackOK`: the bottom frame is a block, so a statement never
runs with the root scope alone, which `Assign` of the chain excludes.
`ScopeInv` of the chain, through `INSTANCE`: its preservation is the chain's own
lemma once `StepShape` has put each step in one of four classes (enter a block,
leave one, assign, or none).

Agreement with the semantics needs more, since `ret` holds a part of the result
only by way of the calls still open. `UnfinishedDerivation` says that there is
for each frame a set of all that it can still end with, that the
whole program's set is what the rules give the program, and that whatever the call above a
frame ends with, the frame goes on to something in its own set (`Derives`). The
scopes enter as the one environment they stand for (`Flat`): a declaration that
writes to an outer scope, and a block's end that forgets what the block bound,
are assignments and restrictions of it (`FlatAfterSet`, `FlatAfterLeave`), again
because no name is held twice. All this is about an arbitrary relation closed under
the rules. That `Meaning` is one needs that its recursive equation has a solution at all:
the rules are monotone and give results of the right type (`RulesMonotone`,
`RulesTyped`), so what is in every closed relation is a solution
(`LeastIsASolution`). No induction over programs is needed, and none of their
being finite is assumed.

That `TypeOK` is inductive rests on
`LualikeValueProofs`: every operator, on any operands, gives values. For the doubles
that means that rounding gives a double again, also where it makes a significand
one bit longer (`DoubleInFloats`), and that the floor of a double needs no more bits than
the double (`FloatFloorInFloats`).

`LualikeErrorProofs`, for any number of objects and every chain and text:

- `CacheStaysFresh`: the cache is empty or what the chain says. It is inductive
  as it stands: `Wrap` and the assignments that change the chain drop the
  cache or bring one along with the chain it belongs to (`IsFresh`);
- `Refinement`: `Error` implements `ErrorReport`. A step of `what()` that fills the
  cache maps to one that only answers, and what it answers is the chain's text
  because the cache is fresh.

`LualikeUpdatesProofs`, for any number of variables and all limits of the number
types, from `CopyAssumption` (the by-value parameter is none of the variables)
and `ValueAssumption` and `UlpsAssumption` (what the numbers of bits have to do with each
other: the ulps are powers of two, 1 has at least as many smaller ulps as a significand
has values, ints and significands are within the range of the doubles):

- `UpdatesImplementValueUpdates`. The inductive invariant `UpdatesInv` says what a
  running call has seen: that its left operand, or the copy of it, and its right
  operand still have the values they had at the call. A step that stores, returns
  or throws is then an operation on values, and any other changes
  nothing that can be seen. `ResultsOfTaken` and `ResultsOfRefused` connect the
  order of the checks with what the operators of `LualikeValue` say.
- `ValuesAreAnOrder`: what `operator<=>` and `operator==` say of any three values is
  a total order but for NaN.
- `IntsDivideExactly`: ints of no more bits than a significand (up to 2^53) divide
  exactly. `%` gives the remainder with the sign of the dividend, `//` the floor of the
  quotient, and they fit together where they should. Of other numbers, which are
  doubles or become doubles first, `%` rounds their exact remainder down, and `//` gives
  the floor or one more. There is one floor and one remainder (`OneFloor`,
  `OneRemainder`), and `std::fmod` gives the latter. A quotient that is rounded to
  nearest stays on its side of every whole number (`DoubleKeepsBounds`), so its floor
  is at most one too large. That of two ints is not, since it
  differs from the whole number above by more than half an ulp: with `n/d` below it
  and `n` at most 2^53, the ulp is too small to reach over `1/d` (`QuotientsOfInts`).

`LualikeLexerProofs`, for texts of any length over any characters, from
`CharacterAssumption` (a character is in one of the classes) and `TextsAssumption`:

- `LexerTypeCorrect`, `NothingOfATextIsLost`, `EveryTokenIsTheLongest`,
  `RefusalsAreJustified`: every state invariant that `lexer` checks.

None of the four is inductive. A reader in the middle of a token has
promised nothing yet, so `ReaderInv` says what it has seen: a word, a number with
its points counted, or a string without its quote, from `start` to `cursor`; and
`CommentInv` that the comment the lexer is in began behind the last token. That
no longer lexeme begins where a token does is then a matter of the character at
the cursor, by lemmas about each kind of lexeme and about the disjoint first
characters of the kinds.

`LualikeRenderingProofs`, for texts of any length, every span (reversed or out of the
text as well) and chains of any length, from `RenderingAssumption` (texts are
made of characters, offsets are natural numbers):

- `CaretsAreRight`, `SnippetsQuoteTheContext`: the carets mark the span in the one line
  that a snippet shows, and the text over them is what `GetContext` returns, up to its
  first line break. The state is simple (`ChainInv`: the
  chain holds spans); the work is in the operators. `LocateLine` finds the line that
  holds the clamped begin, so each `Minus` subtracts the smaller from the larger
  and none wraps. The proof uses nothing of `SizeLimit`: the subtractions are
  right because they never go below zero, not because the limit is far away.

`LualikeParserProofs`, for sequences of tokens of any length, from
`SourcesAssumption` (the end of the input is no token) and `ArgOrdersAssumption`:

- `ParserTypeCorrect`, `RecursionIsBounded`: the type invariant, and a call depth
  linear in the tokens read;
- `ParserMakesProgress`: between two tokens the parser takes no more steps than a
  measure of its calls says (`StepsLeft`). With a finite source this is why it terminates; that it does
  is liveness, and left to TLC;
- `ParserAcceptsOnlyTheGrammar`: a source that is accepted is a block in every set of
  phrases that obeys the rules of the grammar, from its first token to its last;
- `ParserAcceptsExactlyTheGrammar`: a source is accepted if and only if the grammar
  generates it;
- `ExpressionsFit`: in every expression, operators, operands and parentheses stand
  where the tokens are, and no operator is the operand of a tighter one, or of an
  equal one on the wrong side, unless in parentheses;
- `StatementsFit`: in every statement, the keywords, the name, the expressions and the
  blocks stand where the tokens are, the statements of a block leave out only
  semicolons, and none follows a return. It assumes `ArgOrders = {"ltr"}`, for the span
  of a statement is an argument of `MakeStatement` whose evaluation the code leaves
  to the compiler: evaluated before the statement is parsed, it does not know its end.

The first three follow from `ParserInv`. `BoundedRecursion` alone is not inductive: what a
call may add to the stack depends on which function it is. `WellPlaced`
bounds the depth of each frame by itself, relative to the cursor (`Slack`), and
`AtKeyword` says that `return` and `if` are looked at only where they stand.

`ParserAcceptsOnlyTheGrammar`, `ExpressionsFit` and `StatementsFit` follow from `NestInv`, which says what the stack means: the calls in
progress are an unfinished derivation. Each frame has read a part of a phrase that
ends where the phrase of the call above it begins (`Stands`, `Reading`); what
that call gives back, once it does, is what the frame waits for (`Awaits`,
`Fulfils`); for `ParseExpr` this includes the precedence below which it must hand an
operator to its caller. What a frame has collected stands where that part of the
phrase does: statements in a row (`RowIs`), blocks and nodes (`BlockIs`, `NodeIs`);
what involves the span of a statement is claimed only with arguments evaluated in order
(`InTime`). A derivation is a phrase in every set of phrases that
obeys the rules (`Generated`), so the invariant is about an arbitrary such set, and
needs no recursion. It has to speak of the whole stack: what `ret` holds is a part of
the program only by way of the calls that are still open.

`ParserAcceptsExactlyTheGrammar` needs two things more. The first is about the
grammar alone. `Grammar` is a recursive function, and a rule may ask for a phrase as
long as the one it makes (a block that is just its statements), so that it has a value
at all has to be shown: the rules are monotone, and what all functions that obey them
agree on solves the equation (`LeastIsASolution`). Then the phrases of *any*
solution are the least set that obeys the rules (`LanguageObeys`,
`LanguageIsLeast`): a shortest phrase outside of such a set, and among the shortest one
of the lowest kind, would consist of phrases inside. So what is shown of a set
that obeys the rules holds of every phrase, which is the induction over phrases that
the prover has not got; and acceptance in the sense of the first half is acceptance by
the grammar.

The second is the other direction: no program of the grammar is refused. The
grammar says which ranges are phrases, in any order; the parser reads from the left
and never goes back. So the phrases are turned around first: how an expression,
a row of statements or a block begins and what is left of it then (`ExprStarts`,
`StatsStarts`, `BlockStarts`, each by the induction above), and that the greedy
parser is right not to stop early (`ExprTo`, `StatementTo`: a phrase that ends where
it cannot go on). `x = 1 - 1` is one statement and not two (`x = 1` and `- 1`) only because
the parser takes the longer; the lemmas show that the rest is then still a row. The inductive
invariant `FinishInv` says of a source of the grammar that each
call in progress has a range of tokens left to read, whose end its caller can
go on from (`Pending`, `Owes`), that the topmost one finds at the cursor what it is
called for (`Ready`) or has stopped where its range allows (`Done`), and
that there is no error. Each step keeps it, given `NestInv`, and a parser that has
finished without an error has accepted.

### What is only model-checked

- Agreement with recursive definitions:
  `ExpressionsAreTrees` and
  `StatementsCoverTheSource` (of each node by itself, `ExpressionsFit` and `StatementsFit`
  say the same; that it holds down to the leaves is the recursion), `ResultsAreMeanings`,
  and `TextDeterminesTree` and `RenderingsAreComplete`, whose operators go through trees
  and filtered sequences. The prover takes no RECURSIVE operator, and cannot
  instantiate the induction that would unfold a recursive function. Induction over
  natural numbers without recursion is possible, by a least counterexample
  (`SomeTokenIsFirst`), and is used.
- `ErrorsNameTheCulprit` and `ErrorsShowTheirSource`: the pipeline composes modules with
  RECURSIVE operators, so no theorem may be stated of it.
- All `Termination` properties and `EveryCallReturns`: liveness is out of the prover's
  reach.

## Observations

Behaviour that the models show and that no document of the repository speaks
of, so that it is no disagreement:

- `1 == 1.0` is false and `1 < 0.5` true: numbers of different types are ordered
  by type. `5 % 0` converts NaN to an int, which C++ leaves undefined.
- `%` gives a remainder with the sign of the dividend and `//` rounds the quotient down:
  of ints up to 2^53, they fit together only if the signs agree or the division is exact.
- `//` rounds the quotient to a double before it rounds it down: `1 // 0.1` is 10,
  although 0.1 is a double a little above one tenth. `%` and `//` of ints beyond 2^53 are
  those of the doubles nearest to them.
- `1,9` is one token with the value 1.
- An unknown variable in parentheses is blamed together with them.
- `Parse` on a view copies the text outside any `try`: without memory there, the
  process ends, also if the text is correct.

## What is not modelled

- A second failed allocation in one call: in a handler of a `noexcept` function it
  ends the process. Stack exhaustion by deep nesting.
- A stream that stops early without an exception: it is read as a shorter text.
- What `DescribeException` makes of an exception is a constant of it; nothing in
  the code writes to a caught exception.
- `kTooLongToken` and `kInvalidName`: nothing throws them. `FuncT`: nothing makes a
  function value; declarations and calls that hold none are modelled.
- In dumps: punctuation, the digits that `std::to_string` drops, strings with line
  breaks.
- Of doubles: the sign of a zero, so a division by zero may give either infinity;
  `std::pow`, which may give any double; the exception of `std::stod` for a literal that
  is too small for a double.
- Unit tests and build files, which were read as a reference for what is meant.

## Plan

Every component is modelled. Proved are all state invariants that the runs check of
the scope chain, the lexer, the `Error` objects and the operators on values, those of
the interpreter with its semantics, those of the snippets but for
completeness, and of the parser its bounds, the shape of its expressions and
statements and the language it accepts. What is left is what of the pipeline can be
said without its recursive references: which handler an exception reaches, and that
an Error that leaves an entry point holds the text.
