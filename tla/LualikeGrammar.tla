---- MODULE LualikeGrammar ----
(***************************************************************************)
(* What the trees of a program are, for those the grammar of LualikeRules  *)
(* generates: the tree of an expression, found by splitting at its root    *)
(* operator, and a whole program, down to its innermost blocks.  Neither   *)
(* has a stack, a cursor or a precedence bound.                            *)
(***************************************************************************)
EXTENDS LualikeRules, FiniteSetsExt

----------------------------------------------------------------------------
(* The operators of s[i..j-1] outside parentheses, in operator position.   *)
Depth(s, i, k) ==
    Cardinality({l \in i..k - 1 : s[l] = "("})
        - Cardinality({l \in i..k - 1 : s[l] = ")"})

RootCandidates(s, i, j) ==
    {k \in i + 1..j - 2 : /\ s[k] \in BinaryKinds
                          /\ s[k - 1] \in Operands \cup {")"}
                          /\ Depth(s, i, k) = 0}

(* The root of an expression is the operator that binds least: the last    *)
(* such one, or the first if it is the right-associative ^.                *)
Root(s, i, j) ==
    LET least == Min({Precedence(s[k]) : k \in RootCandidates(s, i, j)})
        roots == {k \in RootCandidates(s, i, j) : Precedence(s[k]) = least}
    IN  IF least = Precedence("^") THEN Min(roots) ELSE Max(roots)

RECURSIVE TreeOf(_, _, _)
TreeOf(s, i, j) ==
    IF RootCandidates(s, i, j) # {}
    THEN LET k == Root(s, i, j)
         IN  Binary(s[k], TreeOf(s, i, k), TreeOf(s, k + 1, j), Span(i, j))
    ELSE IF s[i] \in UnaryKinds
         THEN Unary(s[i], TreeOf(s, i + 1, j), Span(i, j))
    ELSE IF s[i] = "("
         THEN [TreeOf(s, i + 1, j - 1) EXCEPT !.span = Span(i, j)]
    ELSE Leaf(IF s[i] = "Name" THEN "Variable" ELSE "Literal", i)

(* Every expression the parser builds is the tree of the tokens its span   *)
(* covers (precedence, associativity and spans are right), those tokens    *)
(* are the last ones consumed, and a whole expression ends only where no   *)
(* operator could continue it.                                             *)
ExpressionsAreTrees ==
    Got("expr") =>
        /\ ret[2].span.end = cur
        /\ ret[2] = TreeOf(source, ret[2].span.begin, cur)
        /\ ~In("ParseExpr") /\ ~In("Unary") => Kind(cur) \notin BinaryKinds

----------------------------------------------------------------------------
RECURSIVE AllFit(_)

(* Each of the statements fits its tokens, and so do those inside of it.   *)
AllFit(stmts) ==
    \A k \in 1..Len(stmts) :
        LET n == stmts[k].node
            span == stmts[k].span
        IN  /\ NodeFits(n, span.begin, span.end, source)
            /\ n.kind = "IfStatement" =>
                   /\ AllFit(n.then.statements)
                   /\ n.else # <<>> => AllFit(n.else[1].statements)

(* The program accounts for every token of the source: the spans of the    *)
(* statements, nested ones included, leave out nothing but semicolons and  *)
(* the keywords of their if statement, and do not overlap.                 *)
StatementsCoverTheSource ==
    Finished /\ Got("block") =>
        BlockFits(ret[2], 1, Len(source) + 1, source) /\ AllFit(ret[2].statements)
====
