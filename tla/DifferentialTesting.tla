------------------------- MODULE DifferentialTesting -------------------------
(***************************************************************************)
(* The harness that compares the Rust implementation with the Lean one,    *)
(* and the fuzz targets that run it (cedar-drt/src/tests.rs, cedar-lean-   *)
(* ffi/src/lean_ffi/test_implementation.rs, cedar-drt/fuzz/src/tpe.rs,     *)
(* cedar-drt/fuzz/fuzz_targets). A target draws a policy set and requests, *)
(* asks both sides about each request, and panics when the answers do not  *)
(* match. What each side answers is arbitrary here: either of them may     *)
(* have a bug. The question is what the harness says of the answers.       *)
(*                                                                         *)
(* An answer of a side is a failure (the empty text: none) and a value,    *)
(* which gives what becomes of every policy. Where a target compares two   *)
(* answers of the Rust side, lean stands for the one it trusts.            *)
(*                                                                         *)
(* Left out are the unwraps that a bug of neither side can fail: of texts  *)
(* that are constants, of concrete requests built without a schema, of a   *)
(* schema that was converted when the input was drawn, of the first policy *)
(* of a set.                                                               *)
(***************************************************************************)
EXTENDS Integers, Sequences, FiniteSets

CONSTANTS
    PolicyCount,    \* the policies of a target that draws several
    Batch           \* the requests of a target that draws several: 8 in the code

ASSUME DifferentialAssumption == PolicyCount \in Nat \ {0} /\ Batch \in Nat \ {0}

VARIABLES
    target,         \* the fuzz target
    effects,        \* the effect of every policy
    intended,       \* rbac-authorizer: the outcome every policy is made to have
    accepts,        \* validation-pbt: the modes whose validation the policy passes
    judged,         \* requests the target is done with
    answers,        \* <<rust, lean>>: what the two sides said of the current one, <<>> before
    testStage       \* "ask", "answered", "agreed", "passed", "skipped" or "panicked"

testVars == <<target, effects, intended, accepts, judged, answers, testStage>>

-----------------------------------------------------------------------------
(* Targets and what they observe *)

AuthTargets == {"abac", "rbac", "rbac-authorizer"}
ValidationTargets == {"validation", "level-validation"}
ConformanceTargets == {"request-validation", "entity-validation"}
TpeTargets == {"tpe", "tpe-abstract"}
DecisionTargets == {"tpe-pbt", "entity-slicing"}
QueryTargets == {"query-principal", "query-resource"}

Targets ==
    AuthTargets \cup ValidationTargets \cup ConformanceTargets \cup TpeTargets \cup DecisionTargets
    \cup QueryTargets
    \cup {"eval", "query-action", "batched-pbt", "batched-drt", "validation-pbt"}

\* These draw a policy set; the others add one policy to an empty set, or none.
ManyPolicies == {"rbac", "rbac-authorizer", "tpe-abstract"}
PoliciesOf(t) == IF t \in ManyPolicies THEN 1..PolicyCount ELSE {1}

\* These ask about one thing; the others about every request of the input.
OneRequest == ValidationTargets \cup {"rbac-authorizer", "eval", "entity-validation", "tpe-abstract"}
RequestsOf(t) == IF t \in OneRequest THEN 1 ELSE Batch

\* These give up on an input: its schema or its hierarchy does not convert, the policies are not
\* valid, a manifest cannot be computed for them.
MaySkip == Targets \ {"abac", "rbac-authorizer", "eval", "tpe-abstract"}
\* These pass over a request that is not valid.
MaySkipRequest == {"tpe", "tpe-pbt"}

Outcomes == {"true", "false", "error"}
Decisions == {"allow", "deny"}
Verdicts == {"ok", "impossible", "error"}
\* Entities a query is about: two of the wanted type in the store, one of it that is not there,
\* and one of another type.
Stored == {"a", "b"}
OfWantedType == {"a", "b", "c"}
Asked == {"a", "b", "c", "d"}

\* What the Rust side may say, and what the other one may.
RustValues(t) ==
    LET ids == PoliciesOf(t) IN
    CASE t \in AuthTargets \cup DecisionTargets -> [ids -> Outcomes]
      [] t = "eval"                -> {"v", "w", "error"}
      [] t \in ValidationTargets   -> [ids -> Verdicts \cup {"invalidAction"}]
      [] t \in ConformanceTargets  -> {"ok", "error"}
      [] t \in TpeTargets          -> [ids -> Outcomes \cup {"residual", "otherResidual"}]
      [] t \in QueryTargets        -> SUBSET Asked
      [] t = "query-action"        -> Decisions \cup {"unknown", "absent"}
      [] t = "batched-pbt"         -> Decisions
      [] t = "batched-drt"         -> Decisions
      [] t = "validation-pbt"      -> {"ok", "preventable", "unpreventable"}

LeanValues(t) ==
    CASE t \in ValidationTargets   -> [PoliciesOf(t) -> Verdicts]
      [] t = "query-action"        -> Decisions
      [] t = "batched-drt"         -> Decisions \cup {"unknown"}
      [] t = "validation-pbt"      -> {"ok"}
      [] OTHER                     -> RustValues(t)

\* Partial evaluation answers, and one of its residuals is not an expression of one clause; or,
\* in tpe-pbt, they do not make a policy set.
BadResidual == "bad residual"

RustFailures(t) ==
    CASE t \in TpeTargets          -> {"", "other", BadResidual}
      [] t = "tpe-pbt"             -> {"", "other", BadResidual}
      [] t = "entity-slicing"      -> {"", "no manifest", "no slice"}
      [] t \in QueryTargets        -> {"", "bad request", "other"}
      [] t \in {"query-action", "batched-drt"} -> {"", "other"}
      [] t = "batched-pbt"         -> {"", "insufficientIterations", "other"}
      [] OTHER                     -> {""}

LeanFailures(t) ==
    IF t \in TpeTargets
    THEN {"", "unknown extension function", "unknown extension type", "other", BadResidual}
    ELSE IF t \in DecisionTargets \cup QueryTargets \cup {"query-action", "batched-pbt", "validation-pbt"}
    THEN {""}
    ELSE {"", "unknown extension function", "unknown extension type", "other"}

-----------------------------------------------------------------------------
(* What the Lean side reports *)

\* Policies of an effect with an outcome.
WithOutcome(out, effect, wanted) ==
    {p \in DOMAIN out : effects[p] = effect /\ out[p] = wanted}

\* Both authorizers combine the outcomes of the policies; errors are compared by policy ID.
Response(out) ==
    LET permits == WithOutcome(out, "permit", "true")
        forbids == WithOutcome(out, "forbid", "true")
        allow == forbids = {} /\ permits # {}
    IN [decision    |-> IF allow THEN "allow" ELSE "deny",
        determining |-> IF allow THEN permits ELSE forbids,
        erroring    |-> {p \in DOMAIN out : out[p] = "error"}]

\* Lean's validator stops at the first policy it has something to say of.
FirstVerdict(out) ==
    LET bad == {p \in DOMAIN out : out[p] # "ok"}
    IN IF bad = {} THEN {} ELSE {out[CHOOSE p \in bad : \A q \in bad : p <= q]}

\* What is left of a validation's errors without those that Rust reports as warnings.
FilterWarnings(errors) == errors \ {"impossible"}

-----------------------------------------------------------------------------
(* Comparisons: does the harness panic? *)

Unexpected(failure, exempt) == failure \notin {""} \cup exempt

EvalPanics(rust, lean) ==
    IF lean.failure # "" THEN Unexpected(lean.failure, {"unknown extension function"})
                         ELSE rust.value # lean.value

AuthPanics(rust, lean) ==
    IF lean.failure # "" THEN Unexpected(lean.failure, {"unknown extension function"})
                         ELSE Response(rust.value) # Response(lean.value)

\* rbac-authorizer goes on with the response of the Rust side: errors are reported exactly when
\* some policy was made to have one.
ErrorsPanic(rust) ==
    LET shouldError == \E p \in DOMAIN intended : intended[p] = "error"
    IN shouldError # (Response(rust.value).erroring # {})

\* Mutation of ComparisonMode: the mode the Lean implementation declares.
ComparisonModeDeclared == "AgreeOnValid"

\* run_val_test and run_level_val_test both ask for AgreeOnAll.
ComparisonMode == "AgreeOnAll"

ValidationPanics(rust, lean) ==
    IF lean.failure # ""
    THEN Unexpected(lean.failure, {"unknown extension function", "unknown extension type"})
    ELSE LET rustPassed == \A p \in DOMAIN rust.value :
                               rust.value[p] \in {"ok", "impossible", "invalidAction"}
             leanPassed == FilterWarnings(FirstVerdict(lean.value)) = {}
         IN IF rustPassed THEN ~leanPassed ELSE ComparisonMode = "AgreeOnAll" /\ leanPassed

ConformancePanics(rust, lean) ==
    \/ Unexpected(lean.failure, {})
    \/ (rust.value = "ok") # (lean.value = "ok")

\* The policies the Rust side lists as false are those with an error as well.
FalseOrError(out, effect) == WithOutcome(out, effect, "false") \cup WithOutcome(out, effect, "error")
ResidualOf(out, effect) ==
    WithOutcome(out, effect, "residual") \cup WithOutcome(out, effect, "otherResidual")

\* tpe or isAuthorizedPartial came back with a response.
Responded(side) == side.failure \in {"", BadResidual}

TpePanics(rust, lean) ==
    LET r == rust.value
        l == lean.value
    IN \/ ~(Responded(rust) <=> Responded(lean))
       \/ /\ Responded(rust)
          /\ \/ \E effect \in {"permit", "forbid"} :
                    \/ WithOutcome(r, effect, "true") # WithOutcome(l, effect, "true")
                    \/ FalseOrError(r, effect) # FalseOrError(l, effect)
                    \/ ResidualOf(r, effect) # ResidualOf(l, effect)
             \/ rust.failure = BadResidual \/ lean.failure = BadResidual
             \/ \E p \in DOMAIN l : r[p] # l[p]        \* the residuals of all policies, by ID

\* Mutation of DecisionPanics: a request that partial evaluation or slicing fails on is passed over.
DecisionPanicsLax(rust, lean) ==
    rust.failure = "" /\ Response(rust.value).decision # Response(lean.value).decision

\* expect and panic!: the manifest, the slices and partial evaluation must succeed.
DecisionPanics(rust, lean) ==
    rust.failure # "" \/ Response(rust.value).decision # Response(lean.value).decision

\* value: what the query says of the action of the request.
ActionPanics(rust, lean) ==
    \/ rust.failure # ""
    \/ CASE rust.value = "allow"   -> lean.value = "deny"
         [] rust.value = "absent"  -> lean.value = "allow"
         [] rust.value = "unknown" -> FALSE
         [] rust.value = "deny"    -> TRUE

\* rust: the entities the query returned; lean: those the authorizer allows.
QueryPanics(rust, lean) ==
    \/ rust.failure # ""
    \/ \E e \in rust.value : e \notin OfWantedType \/ e \notin lean.value
    \/ \E e \in (Stored \cap OfWantedType) \ rust.value : e \in lean.value

BatchedPanics(rust, lean) ==
    \/ rust.failure = "insufficientIterations"
    \/ rust.failure = "" /\ rust.value # lean.value

\* Lean is asked only when the Rust side came to a decision.
BatchedDrtPanics(rust, lean) ==
    rust.failure = "" /\ (lean.failure # "" \/ lean.value # rust.value)

\* A policy that is valid in the permissive mode has no error a validator should prevent; one that
\* is not valid in it is not valid in the strict mode.
SoundnessPanics(rust) ==
    IF "permissive" \in accepts THEN rust.value = "preventable" ELSE "strict" \in accepts

Panics(rust, lean) ==
    CASE target \in {"abac", "rbac"}    -> AuthPanics(rust, lean)
      [] target = "rbac-authorizer"     -> AuthPanics(rust, lean) \/ ErrorsPanic(rust)
      [] target = "eval"                -> EvalPanics(rust, lean)
      [] target \in ValidationTargets   -> ValidationPanics(rust, lean)
      [] target \in ConformanceTargets  -> ConformancePanics(rust, lean)
      [] target \in TpeTargets          -> TpePanics(rust, lean)
      [] target \in DecisionTargets     -> DecisionPanics(rust, lean)
      [] target \in QueryTargets        -> QueryPanics(rust, lean)
      [] target = "query-action"        -> ActionPanics(rust, lean)
      [] target = "batched-pbt"         -> BatchedPanics(rust, lean)
      [] target = "batched-drt"         -> BatchedDrtPanics(rust, lean)
      [] target = "validation-pbt"      -> SoundnessPanics(rust)

-----------------------------------------------------------------------------
(* A run of a target on one input *)

DifferentialInit ==
    /\ target \in Targets
    /\ effects \in [PoliciesOf(target) -> {"permit", "forbid"}]
    /\ intended \in IF target = "rbac-authorizer" THEN [PoliciesOf(target) -> Outcomes] ELSE {<<>>}
    /\ accepts \in IF target = "validation-pbt" THEN SUBSET {"strict", "permissive"} ELSE {{}}
    /\ judged = 0 /\ answers = <<>> /\ testStage = "ask"

\* The input is of no use to the target.
SkipInput ==
    /\ testStage = "ask" /\ judged = 0 /\ target \in MaySkip
    /\ testStage' = "skipped"
    /\ UNCHANGED <<target, effects, intended, accepts, judged, answers>>

SkipRequest ==
    /\ testStage = "ask" /\ judged < RequestsOf(target) /\ target \in MaySkipRequest
    /\ judged' = judged + 1
    /\ UNCHANGED <<target, effects, intended, accepts, answers, testStage>>

\* Both sides answer. The manifest is computed once, before the first request.
AskBoth ==
    /\ testStage = "ask" /\ judged < RequestsOf(target)
    /\ \E rust \in [failure : RustFailures(target), value : RustValues(target)],
          lean \in [failure : LeanFailures(target), value : LeanValues(target)] :
           /\ rust.failure = "no manifest" => judged = 0
           /\ answers' = <<rust, lean>>
    /\ testStage' = "answered"
    /\ UNCHANGED <<target, effects, intended, accepts, judged>>

CompareAnswers ==
    /\ testStage = "answered"
    /\ IF Panics(answers[1], answers[2])
       THEN testStage' = "panicked" /\ UNCHANGED judged
       ELSE testStage' = "agreed" /\ judged' = judged + 1
    /\ UNCHANGED <<target, effects, intended, accepts, answers>>

NextRequest ==
    /\ \/ testStage = "agreed"
       \/ testStage = "ask" /\ judged = RequestsOf(target)
    /\ testStage' = IF judged < RequestsOf(target) THEN "ask" ELSE "passed"
    /\ answers' = <<>>
    /\ UNCHANGED <<target, effects, intended, accepts, judged>>

DifferentialNext == SkipInput \/ SkipRequest \/ AskBoth \/ CompareAnswers \/ NextRequest

DifferentialSpec == DifferentialInit /\ [][DifferentialNext]_testVars

-----------------------------------------------------------------------------
(* Properties *)

\* The variables have their types.
DifferentialTypes ==
    /\ target \in Targets
    /\ effects \in [PoliciesOf(target) -> {"permit", "forbid"}]
    /\ accepts \subseteq {"strict", "permissive"}
    /\ judged \in 0..RequestsOf(target)
    /\ testStage \in {"ask", "answered", "agreed", "passed", "skipped", "panicked"}

\* Which policies Rust and Lean disagree on so that a caller can tell: an error on one side only, a
\* forbid that is satisfied on one side only, or, when no forbid is, such a permit.
Distinguished(r, l) ==
    \E p \in DOMAIN r :
        /\ r[p] # l[p]
        /\ \/ "error" \in {r[p], l[p]}
           \/ effects[p] = "forbid"
           \/ \A q \in DOMAIN r : effects[q] = "forbid" => "true" \notin {r[q], l[q]}

\* What a failure of the Lean side may be without a word of the harness.
Forgiven ==
    IF target \in AuthTargets \cup {"eval"} THEN {"unknown extension function"}
    ELSE IF target \in ValidationTargets THEN {"unknown extension function", "unknown extension type"}
    ELSE {}

\* What has to succeed, and did not. The input is valid by then: what a target asks of the Rust
\* side alone must succeed, while a comparison of the sides asks only that they fail together.
\* The residuals of a partial response must be expressions, whoever made them.
MustNotFail(rust, lean) ==
    \/ target \in DecisionTargets \cup QueryTargets \cup {"query-action"} /\ rust.failure # ""
    \/ target \in TpeTargets /\ BadResidual \in {rust.failure, lean.failure}

\* Whether the answers show a bug on one of the sides.
Disagree(rust, lean) ==
    LET r == rust.value
        l == lean.value
        bothAnswer == rust.failure = "" /\ lean.failure = ""
        oneFails == (rust.failure = "") # (lean.failure = "") /\ lean.failure \notin Forgiven
    IN \/ MustNotFail(rust, lean)
       \/ CASE target \in AuthTargets ->
                 \/ oneFails
                 \/ bothAnswer /\ Distinguished(r, l)
                 \/ /\ target = "rbac-authorizer"
                    /\ (\E p \in DOMAIN r : r[p] = "error") # (\E p \in DOMAIN r : intended[p] = "error")
            [] target \in ValidationTargets ->
                 \/ oneFails
                 \/ bothAnswer /\ \E p \in DOMAIN r : (r[p] = "error") # (l[p] = "error")
            [] target \in ConformanceTargets \cup TpeTargets \cup {"eval"} ->
                 oneFails \/ (bothAnswer /\ r # l)
            [] target \in DecisionTargets -> Response(r).decision # Response(l).decision
            \* A query is wrong when it is definite and not what the authorizer says.
            [] target = "query-action" ->
                 r # "unknown" /\ ~(r = "allow" /\ l = "allow") /\ ~(r = "absent" /\ l = "deny")
            \* The entities returned are those of the store, of the type, that are allowed; one that is
            \* not in the store is not missed.
            [] target \in QueryTargets ->
                 \E e \in Asked \ (OfWantedType \ (Stored \cup r)) :
                     (e \in r) # (e \in l /\ e \in OfWantedType)
            [] target = "batched-pbt" -> IF rust.failure = "" THEN r # l
                                         ELSE rust.failure = "insufficientIterations"
            [] target = "batched-drt" -> rust.failure = "" /\ (lean.failure # "" \/ r # l)
            [] target = "validation-pbt" ->
                 \/ accepts = {"strict"}
                 \/ "permissive" \in accepts /\ r = "preventable"

\* The harness is neither blind nor nervous: a target panics exactly at a request on which the
\* answers show a bug. No failure of one side but the forgiven ones passes for agreement, and none
\* at all where the Rust side must succeed; the warnings of one side and the errors the other never
\* reports do not count, and what is folded together for the comparison (false and erring policies,
\* all errors of a validation) hides nothing.
AlarmsExact ==
    /\ testStage = "panicked" => Disagree(answers[1], answers[2])
    /\ testStage = "agreed" => ~Disagree(answers[1], answers[2])
=============================================================================
