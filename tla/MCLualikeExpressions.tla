---- MODULE MCLualikeExpressions ----
(***************************************************************************)
(* Programs `return <expression>` for every expression of two families:    *)
(* all operators on every pair of sample operands, and all trees of depth  *)
(* two over a few operators and operands.  A node's span is its position:  *)
(* the root is 1, the parts of node p are 2p and 2p+1.  (The values given  *)
(* to the constants are aliases, so that TLC builds each set only once.)   *)
(***************************************************************************)
EXTENDS LualikeSemantics

CONSTANT u      \* a name that is never bound

MCNames == {u}

Lit(v) == [kind |-> "Literal", value |-> v]
Var(n, p) == [kind |-> "Variable", name |-> n, span |-> p]
Un(op, e, p) == [kind |-> "Unary", op |-> op, rhs |-> e, span |-> p]
Bin(op, e, f, p) ==
    [kind |-> "Binary", op |-> op, lhs |-> e, rhs |-> f, span |-> p]
FunCall(p) == [kind |-> "FunctionCall", span |-> p]

ReturnOf(e) == [kind |-> "ReturnStatement", expression |-> <<e>>]

(* Family 1: every operator on samples of every type, at the limits.       *)
SampleValues ==
    {Nil, Bool(TRUE), Bool(FALSE), <<"Int", -IntLimit>>, <<"Int", -1>>,
     <<"Int", 0>>, <<"Int", 3>>, <<"Int", IntLimit - 1>>, <<"Float", 0>>,
     <<"Float", 1>>, <<"Float", -6>>, <<"Float", FloatLimit>>, <<"Inf", 1>>,
     NaN, <<"String", 1>>, <<"String", 2>>}
Samples(p) == {Lit(v) : v \in SampleValues} \cup {Var(u, p), FunCall(p)}

Flat1 ==
    {Un(op, e, 1) : op \in UnaryOperators, e \in Samples(2)}
    \cup {Bin(op, e, f, 1) :
              op \in BinaryOperators, e \in Samples(2), f \in Samples(3)}

(* Family 2: trees of depth two.                                           *)
Leaves(p) == {Lit(Nil), Lit(<<"Int", 1>>), Var(u, p)}
TreeOperators == {"And", "Or", "Subtract"}
Trees1(p) ==
    Leaves(p)
    \cup {Un("Not", e, p) : e \in Leaves(2 * p)}
    \cup {Bin(op, e, f, p) :
              op \in TreeOperators, e \in Leaves(2 * p), f \in Leaves(2 * p + 1)}
Trees2 ==
    {Un(op, e, 1) : op \in UnaryOperators, e \in Trees1(2)}
    \cup {Bin(op, e, f, 1) :
              op \in TreeOperators, e \in Trees1(2), f \in Trees1(3)}

Roots == Flat1 \cup Trees2
AllNodes ==
    Roots \cup Samples(2) \cup Samples(3) \cup Trees1(2) \cup Trees1(3)
          \cup UNION {Leaves(p) : p \in 4..7}
MCExpressions == AllNodes
Returns == {ReturnOf(e) : e \in Roots}
MCStatements == Returns
OneLiners == {<<s>> : s \in Returns}
MCPrograms == OneLiners
====
