-------------------------- MODULE PartialAuthorizer --------------------------
(***************************************************************************)
(* Partial authorization and re-authorization (Cedar/TPE/Authorizer.lean,  *)
(* TPE/Input.lean). A caller shows what it knows of a request and of the   *)
(* entities, gets a Response with residuals, and may ask again when it     *)
(* knows more. At last it takes a concrete request and store, has          *)
(* isValidAndConsistent compare them with what it showed, and lets         *)
(* Response.reauthorize evaluate the residuals on them. In between the     *)
(* world may have changed.                                                 *)
(*                                                                         *)
(* The schema is fixed and well formed. The evaluators are constants, with *)
(* assumptions: what is proved holds for every evaluator that meets them,  *)
(* and TLC evaluates them on the definitions of CedarTPE.                  *)
(***************************************************************************)
EXTENDS PartialInput, Authorizer

CONSTANTS
    Worlds,           \* [req, es]: the requests and stores there may be
    Masks,            \* [req, ents]: what a caller may know of a world
    PolicyIDs,
    Bodies,           \* what the typechecker makes of policies, as residuals
    PolicyLists,      \* the policy lists: sequences of [id, effect, body]
    HasEnvironment(_), \* schema.environment? of a partial request: its types and action
    RequestValid(_),  \* requestIsValid, of a partial request in its environment
    EntitiesValid(_), \* entitiesIsValid, of partial entities
    TypeChecks(_, _), \* typeOf takes a body in the environment of a partial request
    RequestFits(_, _), \* requestMatchesEnvironment, in the environment of a partial request
    EntitiesFit(_),   \* entitiesMatchEnvironment
    Reduce(_, _, _),  \* TPE.evaluate body preq pes
    FiledAs(_),       \* the outcome a residual is filed under, or "residual"
    Meaning(_, _, _)  \* the outcome of Residual.evaluate under a request and a store

VARIABLES
    policies,
    world,      \* the concrete request and store of the moment
    call,       \* the last partial authorization: what was shown, and its response
    final       \* the last re-authorization

vars == <<policies, world, call, final>>

NoCall  == [status |-> "none"]
NoFinal == [verdict |-> "none"]

Init ==
    /\ policies \in PolicyLists
    /\ world \in Worlds
    /\ call = NoCall
    /\ final = NoFinal

-----------------------------------------------------------------------------
(* What a caller who knows the mask m can show of a world. *)

Show(known, x) == IF known THEN Some(x) ELSE None

ShownRequest(req, m) ==
    [principal |-> [ty |-> req.principal.ty, eid |-> Show("principal" \in m.req, req.principal.eid)],
     action    |-> req.action,
     resource  |-> [ty |-> req.resource.ty, eid |-> Show("resource" \in m.req, req.resource.eid)],
     context   |-> Show("context" \in m.req, req.context)]

ShownEntities(es, m) ==
    [u \in {k[1] : k \in m.ents} \cap DOMAIN es |->
        [p \in Parts |-> Show(<<u, p>> \in m.ents, es[u][p])]]

Views == {[preq |-> ShownRequest(w.req, m), pes |-> ShownEntities(w.es, m)] :
            w \in Worlds, m \in Masks}

\* evaluatePolicy takes a body: the partial request has an environment, request and entities
\* are valid in it, and the body type checks there.
Accepts(body, preq, pes) ==
    HasEnvironment(preq) /\ RequestValid(preq) /\ EntitiesValid(pes) /\ TypeChecks(body, preq)

-----------------------------------------------------------------------------
(* The assumptions. *)

ASSUME PolicyListsType ==
    \A ps \in PolicyLists : ps \in Seq([id : PolicyIDs, effect : Effects, body : Bodies])
\* An entity uid is a type and an identifier.
ASSUME UidsType ==
    \A w \in Worlds : \A uid \in {w.req.principal, w.req.resource} :
        uid = [ty |-> uid.ty, eid |-> uid.eid]
ASSUME OutcomesType ==
    \A b \in Bodies :
        /\ \A w \in Worlds : Meaning(b, w.req, w.es) \in Outcomes
        /\ \A v \in Views : FiledAs(Reduce(b, v.preq, v.pes)) \in PartialOutcomes

\* A request that fits an environment has its types. What a request and a store show is valid
\* when they are.
ASSUME FitsTypes ==
    \A w \in Worlds, v \in Views :
        HasEnvironment(v.preq) /\ RequestFits(w.req, v.preq) =>
            w.req.principal.ty = v.preq.principal.ty /\ w.req.resource.ty = v.preq.resource.ty
ASSUME ValidWhenShown ==
    \A w \in Worlds, m \in Masks :
        /\ HasEnvironment(ShownRequest(w.req, m)) /\ RequestFits(w.req, ShownRequest(w.req, m))
                => RequestValid(ShownRequest(w.req, m))
        /\ EntitiesFit(w.es) => EntitiesValid(ShownEntities(w.es, m))

\* Partial evaluation keeps the meaning of a body that was accepted, on every request and
\* store that fit the schema and refine what was shown (partial_evaluate_is_sound, Cedar/Thm).
ASSUME ReduceSound ==
    \A b \in Bodies, v \in Views, w \in Worlds :
        /\ Accepts(b, v.preq, v.pes)
        /\ RequestFits(w.req, v.preq) /\ EntitiesFit(w.es)
        /\ RequestRefines(w.req, v.preq) /\ EntitiesRefine(w.es, v.pes)
        => Meaning(Reduce(b, v.preq, v.pes), w.req, w.es) = Meaning(b, w.req, w.es)

\* A residual that is filed under an outcome has this outcome everywhere, and stays there
\* when more is known.
ASSUME FiledSound ==
    \A b \in Bodies, v \in Views, w \in Worlds :
        LET r == Reduce(b, v.preq, v.pes) IN
        FiledAs(r) # "residual" => Meaning(r, w.req, w.es) = FiledAs(r)
ASSUME ReduceMonotone ==
    \A b \in Bodies, v1, v2 \in Views :
        LET r1 == Reduce(b, v1.preq, v1.pes)  r2 == Reduce(b, v2.preq, v2.pes) IN
        /\ ShowsMore(v2.preq, v2.pes, v1.preq, v1.pes)
        /\ Accepts(b, v1.preq, v1.pes) /\ Accepts(b, v2.preq, v2.pes)
        /\ FiledAs(r1) # "residual"
        => FiledAs(r2) = FiledAs(r1)

-----------------------------------------------------------------------------
(* Outcomes of policies. *)

Evaluated(ps, outcomes) ==
    [i \in DOMAIN ps |-> [id |-> ps[i].id, effect |-> ps[i].effect, outcome |-> outcomes[i]]]

\* Spec.isAuthorized on the policies.
FullResponse(w) ==
    IsAuthorized(Evaluated(policies,
        [i \in DOMAIN policies |-> Meaning(policies[i].body, w.req, w.es)]))

\* TPE.isAuthorized on what is shown: the residuals, and their response.
Residuals(preq, pes) == [i \in DOMAIN policies |-> Reduce(policies[i].body, preq, pes)]

PartialResponse(residuals) ==
    ResidualResponse(Evaluated(policies, [i \in DOMAIN policies |-> FiledAs(residuals[i])]))

\* Response.reauthorize: Spec.isAuthorized on the residuals.
Reauthorized(residuals, w) ==
    IsAuthorized(Evaluated(policies,
        [i \in DOMAIN policies |-> Meaning(residuals[i], w.req, w.es)]))

\* isValidAndConsistent, its checks in their order.
Consistency(w, preq, pes) ==
    IF ~HasEnvironment(preq) THEN "invalidEnvironment"
    ELSE IF ~RequestValid(preq) \/ ~RequestFits(w.req, preq) THEN "typeError"
    ELSE IF ~RequestConsistent(w.req, preq) THEN "requestsDoNotMatch"
    ELSE IF ~EntitiesValid(pes) \/ ~EntitiesFit(w.es) THEN "typeError"
    ELSE IF ~EntitiesConsistent(w.es, pes) THEN "entitiesDoNotMatch"
    ELSE "ok"

Verdicts == {"invalidEnvironment", "typeError", "requestsDoNotMatch", "entitiesDoNotMatch", "ok"}

-----------------------------------------------------------------------------
(* Actions. *)

\* Mutation of Superseded: the response to an earlier answer is kept.
SupersededKept == final' = final

\* What came of an earlier answer, or of an earlier world, counts no longer.
Superseded == final' = NoFinal

\* TPE.isAuthorized on what the caller knows now, which is no less than what it knew before.
\* One policy that is refused fails the call; without policies nothing is looked at.
Authorize(m) ==
    /\ call # NoCall => call.mask.req \subseteq m.req /\ call.mask.ents \subseteq m.ents
    /\ LET preq == ShownRequest(world.req, m)
           pes  == ShownEntities(world.es, m)
           residuals == Residuals(preq, pes) IN
       call' = IF \A i \in DOMAIN policies : Accepts(policies[i].body, preq, pes)
               THEN [status |-> "answered", mask |-> m, preq |-> preq, pes |-> pes,
                     residuals |-> residuals, response |-> PartialResponse(residuals)]
               ELSE [status |-> "refused", mask |-> m]
    /\ Superseded
    /\ UNCHANGED <<policies, world>>

\* The request or the store is another one by now.
Change ==
    /\ call # NoCall
    /\ world' \in Worlds \ {world}
    /\ Superseded
    /\ UNCHANGED <<policies, call>>

\* isValidAndConsistent, and Response.reauthorize when it says ok.
Reauthorize ==
    /\ call.status = "answered"
    /\ LET verdict == Consistency(world, call.preq, call.pes) IN
       final' = IF verdict # "ok" THEN [verdict |-> verdict]
                ELSE [verdict |-> "ok", response |-> Reauthorized(call.residuals, world)]
    /\ UNCHANGED <<policies, world, call>>

Next == (\E m \in Masks : Authorize(m)) \/ Change \/ Reauthorize

Spec == Init /\ [][Next]_vars

-----------------------------------------------------------------------------
(* Properties. *)

\* Types; and a re-authorization belongs to an answer.
TypeOK ==
    /\ policies \in PolicyLists
    /\ world \in Worlds
    /\ call.status \in {"none", "refused", "answered"}
    /\ call.status # "none" => call.mask \in Masks
    /\ call.status = "answered" =>
            /\ DOMAIN call.residuals = DOMAIN policies
            /\ call.response.decision \in Decisions \cup {"none"}
    /\ final.verdict \in Verdicts \cup {"none"}
    /\ final.verdict # "none" => call.status = "answered"

\* Re-authorizing the residuals gives the response of the concrete authorizer on the concrete
\* request and store, although they were computed from less, and maybe from another world
\* (Thm/TPE.lean, reauthorize_is_sound).
ReauthorizeAgrees == final.verdict = "ok" => final.response = FullResponse(world)

\* No two policies have one id (PolicyIdsUnique).
UniqueIds == \A i, j \in DOMAIN policies : policies[i].id = policies[j].id => i = j

\* What a partial response already claims is true of every world that passes the check: its
\* decision, and its erroring policies; a satisfied forbid is determining, so nothing is then
\* allowed; a satisfied permit is determining when the request is allowed, and when it is
\* denied it is not, as long as ids are unique (Thm/TPE.lean).
ClaimsHold ==
    final.verdict = "ok" =>
        LET claimed == call.response  full == FullResponse(world)
            permits == claimed.ids["permit"]["true"]
            forbids == claimed.ids["forbid"]["true"] IN
        /\ claimed.decision # "none" => claimed.decision = full.decision
        /\ claimed.ids["permit"]["error"] \cup claimed.ids["forbid"]["error"]
                \subseteq full.erroring
        /\ forbids \subseteq full.determining
        /\ forbids # {} => full.decision = "deny"
        /\ full.decision = "allow" => permits \subseteq full.determining
        /\ full.decision = "deny" /\ UniqueIds => permits \cap full.determining = {}

\* The check is not too strict: a world that still looks as it was shown, whatever else
\* has changed, is accepted for re-authorization when it fits the schema.
SameLooksAccepted ==
    LET fits  == /\ HasEnvironment(call.preq) /\ RequestFits(world.req, call.preq)
                 /\ EntitiesFit(world.es)
        looks == /\ ShownRequest(world.req, call.mask) = call.preq
                 /\ ShownEntities(world.es, call.mask) = call.pes
    IN  final.verdict # "none" /\ fits /\ looks => final.verdict = "ok"

\* A caller that learns more never sees a decision reversed or withdrawn, nor a policy
\* leave the file it was put in.
DecisionsStable ==
    [][call.status = "answered" /\ call'.status = "answered"
       /\ ShowsMore(call'.preq, call'.pes, call.preq, call.pes) =>
            /\ call.response.decision # "none" =>
                    call'.response.decision = call.response.decision
            /\ \A e \in Effects, o \in Outcomes :
                    call.response.ids[e][o] \subseteq call'.response.ids[e][o]]_vars
=============================================================================
