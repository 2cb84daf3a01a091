-------------------------- MODULE BatchedAuthorizer --------------------------
(***************************************************************************)
(* batchedAuthorize (Cedar/TPE/BatchedEvaluator.lean): authorize a request *)
(* with an entity loader in place of an entity store. The policies are     *)
(* first evaluated against an empty store; while the residuals leave the   *)
(* decision open, the loop loads the entities they mention, evaluates all  *)
(* of them again, and spends one unit of fuel.                             *)
(***************************************************************************)
EXTENDS EntityLoading, Authorizer

CONSTANTS
    PolicyIDs,
    PolicyLists,      \* the policy lists: sequences of [id, effect, body]; a body is what
                      \* the typechecker makes of a policy, as a residual
    Accepts(_, _),    \* evaluatePolicy accepts a body under a request: the environment of
                      \* the request exists, the request fits it, and the body type checks
    Fuels             \* the iteration limits a caller may give

ASSUME FuelsType == Fuels \subseteq Nat
ASSUME PolicyListsType ==
    \A ps \in PolicyLists : ps \in Seq([id : PolicyIDs, effect : Effects, body : Residuals])
ASSUME BooleanMeaning ==
    \A r \in Residuals, req \in Requests, es \in Stores : Meaning(r, req, es) \in Outcomes

VARIABLES
    input,      \* the arguments, and the store behind the loader
    phase,      \* "start", "loop", "done" or "failed"
    residuals,  \* the residual of each policy, by position
    store,      \* the partial entities loaded so far
    fuel,       \* iterations left
    requested,  \* what the loader was asked for, call by call (history)
    answer,     \* what the last call to the loader returned
    response    \* the Response, once the loop has returned

vars == <<input, phase, residuals, store, fuel, requested, answer, response>>

EmptyStore == [u \in {} |-> {}]
NoResponse == [decision |-> "pending"]

Inputs == [policies : PolicyLists, req : Requests, es : Stores, iters : Fuels]

Init ==
    /\ input \in Inputs
    /\ phase = "start"
    /\ residuals = <<>>
    /\ store = EmptyStore
    /\ fuel = input.iters
    /\ requested = <<>>
    /\ answer = EmptyStore
    /\ response = NoResponse

-----------------------------------------------------------------------------

\* A policy list whose bodies are replaced by outcomes, given by position.
Evaluated(policies, outcomes) ==
    [i \in DOMAIN policies |->
        [id |-> policies[i].id, effect |-> policies[i].effect, outcome |-> outcomes[i]]]

OutcomeOf(r) == IF Decided(r) THEN Outcome(r) ELSE "residual"

\* isAuthorizedFromResiduals on the current residuals.
Current == Evaluated(input.policies, [i \in DOMAIN residuals |-> OutcomeOf(residuals[i])])
CurrentResponse == ResidualResponse(Current)

\* Mutation of ToLoad: the filter on the store is forgotten.
ToLoadAgain == UNION {Literals(residuals[i]) : i \in DOMAIN residuals}

\* The literal uids of all the residuals that are not in the store.
ToLoad == (UNION {Literals(residuals[i]) : i \in DOMAIN residuals}) \ DOMAIN store

\* policies.mapM evaluatePolicy: one policy that is refused fails the whole call.
EvaluatePolicies ==
    /\ phase = "start"
    /\ IF \A i \in DOMAIN input.policies : Accepts(input.policies[i].body, input.req)
       THEN /\ phase' = "loop"
            /\ residuals' = [i \in DOMAIN input.policies |->
                                Reduce(input.policies[i].body, input.req, EmptyStore)]
       ELSE /\ phase' = "failed"
            /\ UNCHANGED residuals
    /\ UNCHANGED <<input, store, fuel, requested, answer, response>>

\* Mutations of Exhausted: the last unit of fuel is never spent; the match misses 0.
ExhaustedEarly == fuel <= 1
ExhaustedLate == fuel < 0

\* The `0` case of the match on the fuel.
Exhausted == fuel = 0

\* resp.decision.isSome, or no fuel left: the loop returns.
Return ==
    /\ phase = "loop"
    /\ CurrentResponse.decision # "none" \/ Exhausted
    /\ phase' = "done"
    /\ response' = CurrentResponse
    /\ UNCHANGED <<input, residuals, store, fuel, requested, answer>>

\* Mutations of Reevaluated: against the store from before the load, and from the policies
\* themselves against nothing but the new entities.
ReevaluatedStale(newStore) ==
    [i \in DOMAIN residuals |-> Reduce(residuals[i], input.req, store)]
ReevaluatedAfresh(newStore) ==
    [i \in DOMAIN residuals |-> Reduce(input.policies[i].body, input.req, answer')]

\* residuals.map: every residual, decided or not, is evaluated against the new store.
Reevaluated(newStore) ==
    [i \in DOMAIN residuals |-> Reduce(residuals[i], input.req, newStore)]

\* One turn: load, merge with the new entities on the left, evaluate every residual again.
LoadAndReduce ==
    /\ phase = "loop"
    /\ CurrentResponse.decision = "none"
    /\ ~Exhausted
    /\ \E a \in Answers(input.es, ToLoad) :
        LET newStore == Merge(a, store) IN
        /\ answer' = a
        /\ store' = newStore
        /\ residuals' = Reevaluated(newStore)
    /\ requested' = Append(requested, ToLoad)
    /\ fuel' = fuel - 1
    /\ UNCHANGED <<input, phase, response>>

Returned == phase \in {"done", "failed"} /\ UNCHANGED vars

Next == EvaluatePolicies \/ Return \/ LoadAndReduce \/ Returned

Spec == Init /\ [][Next]_vars /\ WF_vars(Next)

-----------------------------------------------------------------------------
(* What the concrete authorizer says with the whole store at hand. *)

FullOf(in) ==
    Evaluated(in.policies,
              [i \in DOMAIN in.policies |-> Meaning(in.policies[i].body, in.req, in.es)])
FullResponse == IsAuthorized(FullOf(input))

\* Response.reauthorize of the residuals.
Reauthorized ==
    IsAuthorized(Evaluated(input.policies,
        [i \in DOMAIN residuals |-> Meaning(residuals[i], input.req, input.es)]))

-----------------------------------------------------------------------------
(* Properties. *)

TypeOK ==
    /\ input \in Inputs
    /\ phase \in {"start", "loop", "done", "failed"}
    /\ phase \in {"loop", "done"} => residuals \in [DOMAIN input.policies -> Residuals]
    /\ DOMAIN store \subseteq Uids
    /\ fuel \in 0..input.iters
    /\ requested \in Seq(SUBSET Uids)
    /\ Len(requested) + fuel = input.iters
    /\ phase = "done" <=> response # NoResponse

\* However much was loaded, evaluating the residuals on the whole store gives the response
\* of the concrete authorizer: decision, determining and erroring policies
\* (Cedar.TPE.Response.reauthorize against Spec.isAuthorized), missing entities included.
ReauthorizeAgrees == phase \in {"loop", "done"} => Reauthorized = FullResponse

\* A decision reached on the entities loaded so far is the decision on the whole store,
\* and every policy the response files as satisfied, false or in error really is.
DecisionAgrees ==
    phase = "done" =>
        /\ response.decision # "none" => response.decision = FullResponse.decision
        /\ response.ids["permit"]["error"] \cup response.ids["forbid"]["error"]
                \subseteq FullResponse.erroring
        /\ response.decision = "allow" =>
                response.ids["permit"]["true"] \subseteq FullResponse.determining

\* The loop never asks for nothing: while the decision is open and fuel is left, some
\* residual mentions an entity that has not been loaded yet.
NoIdleLoad == phase = "loop" /\ CurrentResponse.decision = "none" => ToLoad # {}

\* Convergence: every unit of fuel buys at least one new entity, and a call gives up without
\* a decision only while some entity is not loaded. So as many iterations as there are
\* entities always decide.
Converges ==
    phase = "done" /\ response.decision = "none" =>
        /\ input.iters <= Cardinality(DOMAIN store)
        /\ DOMAIN store # Uids

\* "Performs a maximum of `iter` number of calls to `loader`", never asks for nothing, and never
\* twice for the same entity.
LoaderContract ==
    /\ NoIdleLoad
    /\ Len(requested) <= input.iters
    /\ \A i, j \in DOMAIN requested : i # j => requested[i] \cap requested[j] = {}

\* A policy that has been decided keeps its outcome in later turns.
OutcomesStable ==
    [][\A i \in DOMAIN residuals : Decided(residuals[i]) =>
            /\ Decided(residuals'[i])
            /\ Outcome(residuals'[i]) = Outcome(residuals[i])]_vars

\* A call promises one verdict: a failure exactly when a policy is refused, else
\* the decision on the whole store, or none if the fuel was short.
PromisedVerdicts(in) ==
    IF \E i \in DOMAIN in.policies : ~Accepts(in.policies[i].body, in.req) THEN {"failed"}
    ELSE {IsAuthorized(FullOf(in)).decision}
         \cup (IF in.iters < Cardinality(Uids) THEN {"none"} ELSE {})

Verdict ==
    CASE phase = "done"   -> response.decision
      [] phase = "failed" -> "failed"
      [] OTHER -> "pending"

DecideOnceSpec == INSTANCE DecideOnce WITH Verdicts <- PromisedVerdicts, verdict <- Verdict

\* The loop implements the one-shot promise, and it always answers.
Implements == DecideOnceSpec!Spec
=============================================================================
