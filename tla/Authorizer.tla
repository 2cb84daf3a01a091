----------------------------- MODULE Authorizer -----------------------------
(***************************************************************************)
(* The two decision procedures over evaluated policies:                    *)
(*   - Spec.isAuthorized, when every policy has a concrete outcome, and    *)
(*   - TPE.isAuthorizedFromResiduals, when some are still residual.        *)
(*                                                                         *)
(* An evaluated policy list is a sequence of [id, effect, outcome]. Ids    *)
(* may repeat: both procedures work on the sets of ids they collect.       *)
(***************************************************************************)
EXTENDS Naturals, Sequences

Effects  == {"permit", "forbid"}
Outcomes == {"true", "false", "error"}             \* of a concrete evaluation
PartialOutcomes == Outcomes \cup {"residual"}      \* of a partial evaluation
Decisions == {"allow", "deny"}

Policies(ids, outcomes) == Seq([id : ids, effect : Effects, outcome : outcomes])

\* filterMap of satisfiedWithEffect, falseWithEffect, erroredWithEffect, residualWithEffect.
Having(ps, effect, outcome) ==
    {ps[i].id : i \in {j \in DOMAIN ps : ps[j].effect = effect /\ ps[j].outcome = outcome}}

\* Spec.errorPolicies ignores the effect.
Erroring(ps) == Having(ps, "permit", "error") \cup Having(ps, "forbid", "error")

\* Spec.isAuthorized (and Response.reauthorize, on the evaluated residuals).
IsAuthorized(ps) ==
    LET forbids == Having(ps, "forbid", "true")
        permits == Having(ps, "permit", "true") IN
    IF forbids = {} /\ permits # {}
    THEN [decision |-> "allow", determining |-> permits, erroring |-> Erroring(ps)]
    ELSE [decision |-> "deny",  determining |-> forbids, erroring |-> Erroring(ps)]

\* Mutations of PartialDecision: the row of the residual forbids is missing; a deny needs no
\* more than the absence of a satisfied permit.
PartialDecisionHasty(ps) ==
    LET some(effect, outcome) == Having(ps, effect, outcome) # {} IN
    IF some("forbid", "true") THEN "deny"
    ELSE IF ~some("permit", "true") /\ ~some("permit", "residual") THEN "deny"
    ELSE IF ~some("permit", "true") THEN "none"
    ELSE "allow"
PartialDecisionStrict(ps) ==
    LET some(effect, outcome) == Having(ps, effect, outcome) # {} IN
    IF some("forbid", "true") \/ ~some("permit", "true") THEN "deny"
    ELSE IF some("forbid", "residual") THEN "none"
    ELSE "allow"

\* The match of TPE.isAuthorizedFromResiduals, row by row; "none" is Option.none.
PartialDecision(ps) ==
    LET some(effect, outcome) == Having(ps, effect, outcome) # {} IN
    IF some("forbid", "true") THEN "deny"
    ELSE IF ~some("permit", "true") /\ ~some("permit", "residual") THEN "deny"
    ELSE IF some("forbid", "residual") THEN "none"
    ELSE IF ~some("permit", "true") THEN "none"
    ELSE "allow"

\* TPE.Response: the decision and the ids by effect and outcome.
ResidualResponse(ps) ==
    [decision |-> PartialDecision(ps),
     ids |-> [e \in Effects |-> [o \in PartialOutcomes |-> Having(ps, e, o)]]]

\* qs completes ps: it decides the residual policies of ps, the others are unchanged.
Completes(qs, ps) ==
    /\ DOMAIN qs = DOMAIN ps
    /\ \A i \in DOMAIN ps :
        /\ qs[i].id = ps[i].id /\ qs[i].effect = ps[i].effect
        /\ qs[i].outcome \in Outcomes
        /\ ps[i].outcome # "residual" => qs[i].outcome = ps[i].outcome
=============================================================================
