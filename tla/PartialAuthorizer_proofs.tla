---------------------- MODULE PartialAuthorizer_proofs ----------------------
(***************************************************************************)
(* The properties of partial authorization, for every schema, every policy *)
(* list, every caller and every change of the world, and every evaluator   *)
(* that meets the assumptions of PartialAuthorizer.                        *)
(***************************************************************************)
EXTENDS PartialAuthorizer, Authorizer_proofs

\* The inductive invariant. An answer was computed from a view of some world, maybe not of
\* the present one; a re-authorization is of the present world and of that answer.
CallSound ==
    call.status = "answered" =>
        /\ [preq |-> call.preq, pes |-> call.pes] \in Views
        /\ \A i \in DOMAIN policies : Accepts(policies[i].body, call.preq, call.pes)
        /\ call.residuals = Residuals(call.preq, call.pes)
        /\ call.response = PartialResponse(call.residuals)
FinalSound ==
    final.verdict # "none" =>
        /\ final.verdict = Consistency(world, call.preq, call.pes)
        /\ final.verdict = "ok" => final.response = Reauthorized(call.residuals, world)

IInv == TypeOK /\ CallSound /\ FinalSound

-----------------------------------------------------------------------------
(* Views, and the check. *)

\* What is shown of a world is a view.
LEMMA ViewShown ==
    ASSUME NEW w \in Worlds, NEW m \in Masks
    PROVE  [preq |-> ShownRequest(w.req, m), pes |-> ShownEntities(w.es, m)] \in Views
  BY DEF Views

\* An option that was shown and matches x is either empty or x.
LEMMA ShownMatches ==
    ASSUME NEW known, NEW x, NEW y, PartialIsValid(Show(known, x), y)
    PROVE  Show(known, x) \in {None, Some(y)}
  BY DEF PartialIsValid, Show, IsSome, None, Some, The

\* What is shown of x matches x.
LEMMA ShowMatches ==
    ASSUME NEW known, NEW x
    PROVE  PartialIsValid(Show(known, x), x)
  BY DEF PartialIsValid, Show, IsSome, None, Some, The

\* So is the id of an entity that was shown, when its type is the same.
LEMMA ShownUidRefines ==
    ASSUME NEW known, NEW ty, NEW eid, NEW uid, uid.ty = ty,
           PartialIsValid(AsEntityUID([ty |-> ty, eid |-> Show(known, eid)]), uid)
    PROVE  UidRefines(uid, [ty |-> ty, eid |-> Show(known, eid)])
  BY DEF PartialIsValid, AsEntityUID, UidRefines, Show, IsSome, None, Some, The

\* The check ensures refinement (consistent_checks_ensure_refinement).
LEMMA CheckRefines ==
    ASSUME NEW w \in Worlds, NEW v \in Views, Consistency(w, v.preq, v.pes) = "ok"
    PROVE  /\ RequestFits(w.req, v.preq) /\ EntitiesFit(w.es)
           /\ RequestRefines(w.req, v.preq) /\ EntitiesRefine(w.es, v.pes)
<1>1. PICK w0 \in Worlds, m \in Masks :
        v = [preq |-> ShownRequest(w0.req, m), pes |-> ShownEntities(w0.es, m)]
  BY DEF Views
<1>2. /\ HasEnvironment(v.preq) /\ RequestFits(w.req, v.preq) /\ EntitiesFit(w.es)
      /\ RequestConsistent(w.req, v.preq) /\ EntitiesConsistent(w.es, v.pes)
  BY DEF Consistency
<1>3. w.req.principal.ty = v.preq.principal.ty /\ w.req.resource.ty = v.preq.resource.ty
  BY <1>2, FitsTypes
<1>4. RequestRefines(w.req, v.preq)
  <2>1. UidRefines(w.req.principal, v.preq.principal)
    BY <1>1, <1>2, <1>3, ShownUidRefines DEF ShownRequest, RequestConsistent
  <2>2. UidRefines(w.req.resource, v.preq.resource)
    BY <1>1, <1>2, <1>3, ShownUidRefines DEF ShownRequest, RequestConsistent
  <2>3. v.preq.context \in {None, Some(w.req.context)}
    BY <1>1, <1>2, ShownMatches DEF ShownRequest, RequestConsistent
  <2> QED
    BY <1>2, <2>1, <2>2, <2>3 DEF RequestConsistent, RequestRefines
<1>5. EntitiesRefine(w.es, v.pes)
  <2> SUFFICES ASSUME NEW u \in DOMAIN v.pes, NEW p \in Parts
               PROVE  u \in DOMAIN w.es /\ v.pes[u][p] \in {None, Some(w.es[u][p])}
    BY <1>2 DEF EntitiesRefine, EntitiesConsistent
  <2>1. u \in DOMAIN w.es /\ PartialIsValid(v.pes[u][p], w.es[u][p])
    BY <1>2 DEF EntitiesConsistent
  <2>2. v.pes[u][p] = Show(<<u, p>> \in m.ents, w0.es[u][p])
    BY <1>1 DEF ShownEntities
  <2> QED
    BY <2>1, <2>2, ShownMatches
<1> QED
  BY <1>2, <1>4, <1>5

\* The bodies of a policy list.
LEMMA BodyAt ==
    ASSUME policies \in PolicyLists, NEW i \in DOMAIN policies
    PROVE  policies[i].body \in Bodies
<1> DEFINE Entries == [id : PolicyIDs, effect : Effects, body : Bodies]
<1>1. policies \in Seq(Entries)
  BY PolicyListsType
<1> HIDE DEF Entries
<1>2. policies[i] \in Entries
  BY <1>1, LenProperties, ElementOfSeq
<1> QED
  BY <1>2 DEF Entries

-----------------------------------------------------------------------------
(* What an answer means in a world that passes the check. *)

\* A world accepted for re-authorization gives each residual the outcome of its policy.
LEMMA MeaningKept ==
    ASSUME IInv, final.verdict = "ok", NEW i \in DOMAIN policies
    PROVE  Meaning(call.residuals[i], world.req, world.es)
             = Meaning(policies[i].body, world.req, world.es)
<1> DEFINE v == [preq |-> call.preq, pes |-> call.pes]
<1>1. /\ v \in Views /\ world \in Worlds /\ policies[i].body \in Bodies
      /\ Accepts(policies[i].body, v.preq, v.pes)
      /\ call.residuals[i] = Reduce(policies[i].body, v.preq, v.pes)
  BY BodyAt DEF IInv, TypeOK, CallSound, Residuals
<1>2. Consistency(world, v.preq, v.pes) = "ok"
  BY DEF IInv, FinalSound
<1> HIDE DEF v
<1>3. /\ RequestFits(world.req, v.preq) /\ EntitiesFit(world.es)
      /\ RequestRefines(world.req, v.preq) /\ EntitiesRefine(world.es, v.pes)
  BY <1>1, <1>2, CheckRefines
<1> QED
  BY <1>1, <1>3, ReduceSound

\* The policies as they were filed, and as they turn out in a world.
Filed      == Evaluated(policies, [i \in DOMAIN policies |-> FiledAs(call.residuals[i])])
TurnOut(w) == Evaluated(policies,
                [i \in DOMAIN policies |-> Meaning(policies[i].body, w.req, w.es)])

\* They turn out as they were filed.
LEMMA TurnOutCompletes ==
    ASSUME IInv, final.verdict = "ok"
    PROVE  Completes(TurnOut(world), Filed)
<1> SUFFICES ASSUME NEW i \in DOMAIN policies
             PROVE  /\ Meaning(policies[i].body, world.req, world.es) \in Outcomes
                    /\ FiledAs(call.residuals[i]) # "residual" =>
                          Meaning(policies[i].body, world.req, world.es)
                            = FiledAs(call.residuals[i])
  BY DEF Completes, TurnOut, Filed, Evaluated
<1> DEFINE v == [preq |-> call.preq, pes |-> call.pes]
<1>1. /\ v \in Views /\ world \in Worlds /\ policies[i].body \in Bodies
      /\ call.residuals[i] = Reduce(policies[i].body, v.preq, v.pes)
  BY BodyAt DEF IInv, TypeOK, CallSound, Residuals
<1> HIDE DEF v
<1>2. FiledAs(call.residuals[i]) # "residual" =>
          Meaning(call.residuals[i], world.req, world.es) = FiledAs(call.residuals[i])
  BY <1>1, FiledSound
<1> QED
  BY <1>1, <1>2, OutcomesType, MeaningKept

\* The parts of a response.
LEMMA ResponseParts ==
    ASSUME NEW ps, NEW e \in Effects, NEW o \in PartialOutcomes
    PROVE  /\ ResidualResponse(ps).decision = PartialDecision(ps)
           /\ ResidualResponse(ps).ids[e][o] = Having(ps, e, o)
  BY DEF ResidualResponse

\* Decisions on residuals.
LEMMA PartialDecides ==
    ASSUME NEW ps
    PROVE  PartialDecision(ps) \in Decisions \cup {"none"}
  BY DEF PartialDecision, Decisions

-----------------------------------------------------------------------------
(* The invariant. *)

\* The check gives one of its verdicts.
LEMMA VerdictType ==
    ASSUME NEW w, NEW preq, NEW pes
    PROVE  Consistency(w, preq, pes) \in Verdicts
  BY DEF Consistency, Verdicts

LEMMA InitIInv == Init => IInv
  BY DEF Init, IInv, TypeOK, CallSound, FinalSound, NoCall, NoFinal, Verdicts

\* Showing what the mask m knows keeps the invariant.
LEMMA AuthorizeIInv ==
    ASSUME IInv, NEW m \in Masks, Authorize(m)
    PROVE  IInv'
<1> DEFINE preq == ShownRequest(world.req, m)
           pes  == ShownEntities(world.es, m)
<1>1. /\ final' = NoFinal /\ policies' = policies /\ world' = world
      /\ policies \in PolicyLists /\ world \in Worlds
  BY DEF Authorize, Superseded, IInv, TypeOK
<1>2. FinalSound'
  BY <1>1 DEF FinalSound, NoFinal
<1>3. [preq |-> preq, pes |-> pes] \in Views
  BY <1>1, ViewShown
<1>4. CASE \A i \in DOMAIN policies : Accepts(policies[i].body, preq, pes)
  <2>1. call' = [status |-> "answered", mask |-> m, preq |-> preq, pes |-> pes,
                 residuals |-> Residuals(preq, pes),
                 response |-> PartialResponse(Residuals(preq, pes))]
    BY <1>4 DEF Authorize
  <2> HIDE DEF preq, pes
  <2>2. CallSound'
    BY <1>1, <1>3, <1>4, <2>1 DEF CallSound, Residuals, PartialResponse
  <2>3. PartialResponse(Residuals(preq, pes)).decision \in Decisions \cup {"none"}
    BY PartialDecides DEF PartialResponse, ResidualResponse
  <2>4. TypeOK'
    BY <1>1, <2>1, <2>3 DEF TypeOK, NoFinal, Residuals
  <2> QED
    BY <1>2, <2>2, <2>4 DEF IInv
<1>5. CASE ~\A i \in DOMAIN policies : Accepts(policies[i].body, preq, pes)
  <2>1. call' = [status |-> "refused", mask |-> m]
    BY <1>5 DEF Authorize
  <2>2. TypeOK' /\ CallSound'
    BY <1>1, <2>1 DEF TypeOK, CallSound, NoFinal
  <2> QED
    BY <1>2, <2>2 DEF IInv
<1> QED
  BY <1>4, <1>5

\* So does a change of the world.
LEMMA ChangeIInv ==
    ASSUME IInv, Change
    PROVE  IInv'
<1>1. /\ final' = NoFinal /\ policies' = policies /\ call' = call /\ world' \in Worlds
  BY DEF Change, Superseded
<1>2. TypeOK'
  BY <1>1 DEF IInv, TypeOK, NoFinal
<1>3. CallSound'
  BY <1>1 DEF IInv, CallSound, Residuals, PartialResponse
<1>4. FinalSound'
  BY <1>1 DEF FinalSound, NoFinal
<1> QED
  BY <1>2, <1>3, <1>4 DEF IInv

\* And a re-authorization.
LEMMA ReauthorizeIInv ==
    ASSUME IInv, Reauthorize
    PROVE  IInv'
<1> DEFINE verdict == Consistency(world, call.preq, call.pes)
<1>1. /\ call.status = "answered"
      /\ policies' = policies /\ call' = call /\ world' = world
      /\ final' = IF verdict # "ok" THEN [verdict |-> verdict]
                  ELSE [verdict |-> "ok", response |-> Reauthorized(call.residuals, world)]
  BY DEF Reauthorize
<1>2. verdict \in Verdicts
  BY VerdictType
<1>3. /\ final'.verdict = verdict
      /\ verdict = "ok" => final'.response = Reauthorized(call.residuals, world)
  BY <1>1
<1>4. TypeOK'
  BY <1>1, <1>2, <1>3 DEF IInv, TypeOK
<1>5. CallSound'
  BY <1>1 DEF IInv, CallSound, Residuals, PartialResponse
<1>6. FinalSound'
  <2>1. /\ Consistency(world', call.preq', call.pes') = verdict
        /\ Reauthorized(call.residuals, world)' = Reauthorized(call.residuals, world)
    BY <1>1 DEF Reauthorized
  <2> QED
    BY <1>1, <1>3, <2>1 DEF FinalSound
<1> QED
  BY <1>4, <1>5, <1>6 DEF IInv

LEMMA NextIInv == IInv /\ [Next]_vars => IInv'
<1> SUFFICES ASSUME IInv, [Next]_vars
             PROVE  IInv'
  OBVIOUS
<1>1. CASE \E m \in Masks : Authorize(m)
  BY <1>1, AuthorizeIInv
<1>2. CASE Change
  BY <1>2, ChangeIInv
<1>3. CASE Reauthorize
  BY <1>3, ReauthorizeIInv
<1>4. CASE UNCHANGED vars
  BY <1>4 DEF vars, IInv, TypeOK, CallSound, FinalSound, Residuals, PartialResponse,
              Reauthorized, Consistency
<1> QED
  BY <1>1, <1>2, <1>3, <1>4 DEF Next

\* The invariant holds in every reachable state.
THEOREM PartialInvariance == Spec => []IInv
  BY InitIInv, NextIInv, PTL DEF Spec

-----------------------------------------------------------------------------
(* The properties. *)

\* TypeOK: types, and a re-authorization belongs to an answer.
THEOREM PartialTypes == Spec => []TypeOK
<1>1. IInv => TypeOK
  BY DEF IInv
<1> QED
  BY <1>1, PartialInvariance, PTL

\* ReauthorizeAgrees: what Response.reauthorize makes of the residuals is the response of the
\* concrete authorizer, on every world isValidAndConsistent lets through.
THEOREM ReauthorizationSound == Spec => []ReauthorizeAgrees
<1>1. ASSUME IInv, final.verdict = "ok"
      PROVE  final.response = FullResponse(world)
  <2>1. final.response = Reauthorized(call.residuals, world)
    BY <1>1 DEF IInv, FinalSound
  <2>2. \A i \in DOMAIN policies : Meaning(call.residuals[i], world.req, world.es)
                                     = Meaning(policies[i].body, world.req, world.es)
    BY <1>1, MeaningKept
  <2> QED
    BY <2>1, <2>2 DEF Reauthorized, FullResponse
<1>2. IInv => ReauthorizeAgrees
  BY <1>1 DEF ReauthorizeAgrees
<1> QED
  BY <1>2, PartialInvariance, PTL

\* ClaimsHold: the decision and the files of a partial response hold in every such world.
THEOREM ClaimsSound == Spec => []ClaimsHold
<1>1. ASSUME IInv, final.verdict = "ok"
      PROVE  ClaimsHold
  <2> DEFINE qs == TurnOut(world)
             claimed == call.response
  <2>1. call.status = "answered" /\ claimed = ResidualResponse(Filed)
    BY <1>1 DEF IInv, TypeOK, CallSound, PartialResponse, Filed
  <2>2. FullResponse(world) = IsAuthorized(qs)
    BY DEF FullResponse, TurnOut
  <2>3. Completes(qs, Filed)
    BY <1>1, TurnOutCompletes
  <2> HIDE DEF qs, claimed
  <2>4. /\ claimed.decision = PartialDecision(Filed)
        /\ claimed.ids["permit"]["error"] = Having(Filed, "permit", "error")
        /\ claimed.ids["forbid"]["error"] = Having(Filed, "forbid", "error")
        /\ claimed.ids["permit"]["true"] = Having(Filed, "permit", "true")
        /\ claimed.ids["forbid"]["true"] = Having(Filed, "forbid", "true")
    BY <2>1, ResponseParts DEF Effects, PartialOutcomes, Outcomes
  <2>5. claimed.decision # "none" => claimed.decision = IsAuthorized(qs).decision
    BY <2>3, <2>4, DecisionSound
  <2>6. /\ Erroring(Filed) \subseteq IsAuthorized(qs).erroring
        /\ Having(Filed, "forbid", "true") \subseteq IsAuthorized(qs).determining
        /\ Having(Filed, "forbid", "true") # {} => IsAuthorized(qs).decision = "deny"
        /\ IsAuthorized(qs).decision = "allow" =>
              Having(Filed, "permit", "true") \subseteq IsAuthorized(qs).determining
    BY <2>3, FilesSound
  <2>7. ASSUME IsAuthorized(qs).decision = "deny", UniqueIds
        PROVE  Having(Filed, "permit", "true") \cap IsAuthorized(qs).determining = {}
    <3>1. \A i, j \in DOMAIN Filed : Filed[i].id = Filed[j].id => i = j
      BY <2>7 DEF UniqueIds, Filed, Evaluated
    <3> QED
      BY <2>3, <2>7, <3>1, PermitsNotDenying
  <2> QED
    BY <2>2, <2>4, <2>5, <2>6, <2>7 DEF ClaimsHold, Erroring, claimed
<1>2. IInv => ClaimsHold
  BY <1>1 DEF ClaimsHold
<1> QED
  BY <1>2, PartialInvariance, PTL

\* A world that fits and looks as it was shown passes the check.
LEMMA LooksPass ==
    ASSUME NEW w \in Worlds, NEW m \in Masks,
           HasEnvironment(ShownRequest(w.req, m)), RequestFits(w.req, ShownRequest(w.req, m)),
           EntitiesFit(w.es)
    PROVE  Consistency(w, ShownRequest(w.req, m), ShownEntities(w.es, m)) = "ok"
<1> DEFINE preq == ShownRequest(w.req, m)
           pes  == ShownEntities(w.es, m)
<1>1. RequestValid(preq) /\ EntitiesValid(pes)
  BY ValidWhenShown
<1>2. RequestConsistent(w.req, preq)
  <2>1. /\ w.req.principal = [ty |-> w.req.principal.ty, eid |-> w.req.principal.eid]
        /\ w.req.resource = [ty |-> w.req.resource.ty, eid |-> w.req.resource.eid]
    BY UidsType
  <2>2. /\ PartialIsValid(AsEntityUID(preq.principal), w.req.principal)
        /\ PartialIsValid(AsEntityUID(preq.resource), w.req.resource)
    BY <2>1 DEF ShownRequest, PartialIsValid, AsEntityUID, Show, IsSome, None, Some, The
  <2>3. PartialIsValid(preq.context, w.req.context) /\ w.req.action = preq.action
    BY ShowMatches DEF ShownRequest
  <2> QED
    BY <2>2, <2>3 DEF RequestConsistent
<1>3. EntitiesConsistent(w.es, pes)
  BY ShowMatches DEF EntitiesConsistent, ShownEntities
<1> QED
  BY <1>1, <1>2, <1>3 DEF Consistency

\* SameLooksAccepted: isValidAndConsistent does not refuse a world that fits the schema and
\* looks as the caller saw it.
THEOREM CheckNotTooStrict == Spec => []SameLooksAccepted
<1>1. ASSUME IInv, final.verdict # "none",
             HasEnvironment(call.preq), RequestFits(world.req, call.preq), EntitiesFit(world.es),
             ShownRequest(world.req, call.mask) = call.preq,
             ShownEntities(world.es, call.mask) = call.pes
      PROVE  final.verdict = "ok"
  <2>1. world \in Worlds /\ call.mask \in Masks
    BY <1>1 DEF IInv, TypeOK
  <2>2. Consistency(world, call.preq, call.pes) = "ok"
    BY <1>1, <2>1, LooksPass
  <2> QED
    BY <1>1, <2>2 DEF IInv, FinalSound
<1>2. IInv => SameLooksAccepted
  BY <1>1 DEF SameLooksAccepted
<1> QED
  BY <1>2, PartialInvariance, PTL

\* Two answers for the same policies, the second from a view that shows more: the policies
\* of the second are a narrower list.
LEMMA MoreShownNarrows ==
    ASSUME IInv, IInv', policies' = policies,
           call.status = "answered", call'.status = "answered",
           ShowsMore(call'.preq, call'.pes, call.preq, call.pes)
    PROVE  Narrows(Filed', Filed)
<1> SUFFICES ASSUME NEW i \in DOMAIN policies, FiledAs(call.residuals[i]) # "residual"
             PROVE  FiledAs(call'.residuals[i]) = FiledAs(call.residuals[i])
  BY DEF Narrows, Filed, Evaluated
<1> DEFINE v1 == [preq |-> call.preq, pes |-> call.pes]
           v2 == [preq |-> call'.preq, pes |-> call'.pes]
           b  == policies[i].body
<1>1. b \in Bodies
  BY BodyAt DEF IInv, TypeOK
<1>2. /\ v1 \in Views /\ Accepts(b, v1.preq, v1.pes)
      /\ call.residuals[i] = Reduce(b, v1.preq, v1.pes)
  BY DEF IInv, CallSound, Residuals
<1>3. /\ v2 \in Views /\ Accepts(b, v2.preq, v2.pes)
      /\ call'.residuals[i] = Reduce(b, v2.preq, v2.pes)
  BY DEF IInv, CallSound, Residuals
<1>4. ShowsMore(v2.preq, v2.pes, v1.preq, v1.pes)
  OBVIOUS
<1> HIDE DEF v1, v2, b
<1> QED
  BY <1>1, <1>2, <1>3, <1>4, ReduceMonotone

\* DecisionsStable: a caller that learns more sees no decision reversed or withdrawn, and no
\* policy leave its file.
THEOREM LearningStable == Spec => DecisionsStable
<1> DEFINE Stable ==
      call.status = "answered" /\ call'.status = "answered"
      /\ ShowsMore(call'.preq, call'.pes, call.preq, call.pes) =>
            /\ call.response.decision # "none" =>
                    call'.response.decision = call.response.decision
            /\ \A e \in Effects, o \in Outcomes :
                    call.response.ids[e][o] \subseteq call'.response.ids[e][o]
<1>1. ASSUME IInv, IInv', [Next]_vars,
             call.status = "answered", call'.status = "answered",
             ShowsMore(call'.preq, call'.pes, call.preq, call.pes)
      PROVE  /\ call.response.decision # "none" =>
                    call'.response.decision = call.response.decision
             /\ \A e \in Effects, o \in Outcomes :
                    call.response.ids[e][o] \subseteq call'.response.ids[e][o]
  <2>1. policies' = policies
    BY <1>1 DEF Next, Authorize, Change, Reauthorize, vars
  <2>2. Narrows(Filed', Filed)
    BY <1>1, <2>1, MoreShownNarrows
  <2>3. call.response = ResidualResponse(Filed) /\ call'.response = ResidualResponse(Filed')
    BY <1>1 DEF IInv, CallSound, PartialResponse, Filed
  <2> HIDE DEF Filed
  <2>4. call.response.decision # "none" => call'.response.decision = call.response.decision
    BY <2>2, <2>3, DecisionMonotone DEF ResidualResponse
  <2>5. ASSUME NEW e \in Effects, NEW o \in Outcomes
        PROVE  call.response.ids[e][o] \subseteq call'.response.ids[e][o]
    BY <2>2, <2>3, FiledWhenNarrowed DEF ResidualResponse, PartialOutcomes
  <2> QED
    BY <2>4, <2>5
<1>2. IInv /\ IInv' /\ [Next]_vars => [Stable]_vars
  BY <1>1
<1> QED
  BY <1>2, PartialInvariance, PTL DEF Spec, DecisionsStable
=============================================================================
