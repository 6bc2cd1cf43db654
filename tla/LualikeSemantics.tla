---- MODULE LualikeSemantics ----
(***************************************************************************)
(* What a program means, without a machine: rules over the syntax, with    *)
(* ONE flat environment instead of a chain of scopes and no stack to       *)
(* unwind.  LualikeInterpreter is checked against them.  The results of a  *)
(* phrase are a set, since some operations on values have several outcomes.*)
(*                                                                         *)
(*   <<"expr", e, env>>       results, as in ret                           *)
(*   <<"stmt", s, env>>       records: the environment then, and how the   *)
(*   <<"sequence", b, env>>   statement, the statements in order, or the   *)
(*   <<"block", b, env>>      block ended                                  *)
(*                                                                         *)
(* A rule takes the results of a phrase's parts from M.  The meaning is    *)
(* what agrees with the rules, as a recursive function; a recursive        *)
(* operator would hide it from the proofs.                                 *)
(***************************************************************************)
EXTENDS LualikeInterpreter

(* An error is the result as it stands; a value goes on.                   *)
OnValue(r, results) == IF r[1] = "value" THEN results ELSE {r}

(* The results of an operation, once its last operand gave r.  The one     *)
(* that fails is the one to blame, at whatever depth.                      *)
UnaryResults(e, r) ==
    OnValue(r, {OutcomeAt(o, e.span) : o \in UnaryOutcomes(e.op, r[2])})

OperatorResults(e, a, r) ==
    OnValue(r, {OutcomeAt(o, e.span) : o \in BinaryOutcomes(e.op, a, r[2])})

(* The results of a binary whose left operand gave r; rhs are those of the *)
(* right one.                                                              *)
BinaryResults(e, r, rhs) ==
    OnValue(r, CASE e.op = "And" -> IF IsTruthy(r[2]) THEN rhs ELSE {r}
                 [] e.op = "Or"  -> IF IsTruthy(r[2]) THEN {r} ELSE rhs
                 [] e.op \notin {"And", "Or"} ->
                        UNION {OperatorResults(e, r[2], b) : b \in rhs})

ExprResults(M(_), e, env) ==
    CASE e.kind = "Literal" -> {<<"value", e.value>>}
      [] e.kind = "Variable" ->
            {IF env[e.name] = Absent THEN ErrorAt("UnknownVariable", e.span)
             ELSE <<"value", env[e.name]>>}
      [] e.kind = "Unary" ->
            UNION {UnaryResults(e, r) : r \in M(<<"expr", e.rhs, env>>)}
      [] e.kind = "Binary" ->
            UNION {BinaryResults(e, r, M(<<"expr", e.rhs, env>>)) :
                       r \in M(<<"expr", e.lhs, env>>)}
      [] e.kind = "FunctionCall" -> {ErrorAt("UnimplementedExpression", e.span)}

(* The statement ended with a value for the name, or without one.          *)
Bind(env, n, v) == [env |-> [env EXCEPT ![n] = v], ret |-> <<"done">>]
Ended(env, r) == [env |-> env, ret |-> r]

(* The results of a statement whose expression has the value v, ...        *)
Effects(M(_), s, env, v) ==
    CASE s.kind = "VariableDeclaration" -> {Bind(env, s.name, v)}
      [] s.kind = "Assignment" ->
            {IF env[s.name] = Absent
             THEN Ended(env, ErrorAt("UnknownVariable", s.span))
             ELSE Bind(env, s.name, v)}
      [] s.kind = "IfStatement" ->
            IF IsTruthy(v) THEN M(<<"block", s.then, env>>)
            ELSE IF s.else # <<>> THEN M(<<"block", s.else[1], env>>)
            ELSE {Ended(env, <<"done">>)}
      [] s.kind = "ReturnStatement" -> {Ended(env, <<"return", v>>)}
      [] s.kind = "ExpressionStatement" -> {Ended(env, <<"done">>)}

(* ... and of one without an expression.                                   *)
EffectAlone(s, env) ==
    IF s.kind = "VariableDeclaration" THEN Bind(env, s.name, Nil)
    ELSE Ended(env, <<"done">>)

(* The results once the statement's expression gave r.                     *)
StmtResultsOn(M(_), s, env, r) ==
    IF r[1] = "value" THEN Effects(M, s, env, r[2]) ELSE {Ended(env, r)}

StmtResults(M(_), s, env) ==
    IF FirstExpression(s) = <<>> THEN {EffectAlone(s, env)}
    ELSE UNION {StmtResultsOn(M, s, env, r) :
                    r \in M(<<"expr", FirstExpression(s)[1], env>>)}

(* Statements in order, until one gives back a value or fails.             *)
SequenceResults(M(_), b, env) ==
    IF b = <<>> THEN {Ended(env, <<"done">>)}
    ELSE UNION {IF x.ret = <<"done">> THEN M(<<"sequence", Tail(b), x.env>>)
                ELSE {x} : x \in M(<<"stmt", Head(b), env>>)}

(* Behind a block, the names it bound first are unbound again.             *)
Behind(env, x) ==
    Ended([n \in Names |-> IF env[n] = Absent THEN Absent ELSE x.env[n]], x.ret)

Rules(M(_), q) ==
    CASE q[1] = "expr"     -> ExprResults(M, q[2], q[3])
      [] q[1] = "stmt"     -> StmtResults(M, q[2], q[3])
      [] q[1] = "sequence" -> SequenceResults(M, q[2], q[3])
      [] q[1] = "block"    -> {Behind(q[3], x) : x \in M(<<"sequence", q[2], q[3]>>)}

Phrases ==
    ({"expr"} \X Expressions \X Bindings)
        \cup ({"stmt"} \X Statements \X Bindings)
        \cup ({"sequence", "block"} \X Blocks \X Bindings)

Meaning[q \in Phrases] == Rules(LAMBDA p : Meaning[p], q)

ProgramResults(p) == {x.ret : x \in Meaning[<<"block", p, EmptyScope>>]}

(* The machine ends with a result the rules allow: evaluation order,       *)
(* short circuits, what each name means, where execution stops and which   *)
(* node an error is blamed on are all as they say.                         *)
AgreesWithSemantics == Finished => ret \in ProgramResults(program)
====
