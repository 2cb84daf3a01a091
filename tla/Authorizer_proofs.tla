-------------------------- MODULE Authorizer_proofs --------------------------
(***************************************************************************)
(* The decision table of TPE.isAuthorizedFromResiduals is sound and tight  *)
(* for every policy list.                                                  *)
(***************************************************************************)
EXTENDS Authorizer, SequenceTheorems, TLAPS

\* What it takes to file a policy, and what a filed policy shows.
LEMMA HavingIntro ==
    ASSUME NEW ps, NEW i \in DOMAIN ps
    PROVE  ps[i].id \in Having(ps, ps[i].effect, ps[i].outcome)
  BY DEF Having

\* An id that is filed has a policy behind it.
LEMMA HavingElim ==
    ASSUME NEW ps, NEW e, NEW o, Having(ps, e, o) # {}
    PROVE  \E i \in DOMAIN ps : ps[i].effect = e /\ ps[i].outcome = o
  BY DEF Having

\* The entries of a policy list.
LEMMA PolicyAt ==
    ASSUME NEW ids, NEW outcomes, NEW ps \in Policies(ids, outcomes), NEW i \in DOMAIN ps
    PROVE  ps[i].id \in ids /\ ps[i].effect \in Effects /\ ps[i].outcome \in outcomes
<1> DEFINE Entries == [id : ids, effect : Effects, outcome : outcomes]
<1>1. ps \in Seq(Entries)
  BY DEF Policies
<1> HIDE DEF Entries
<1>2. ps[i] \in Entries
  BY <1>1, LenProperties, ElementOfSeq
<1> QED
  BY <1>2 DEF Entries

\* Spec.isAuthorized answers with a decision.
LEMMA IsAuthorizedDecides ==
    ASSUME NEW ps
    PROVE  /\ IsAuthorized(ps).decision \in Decisions
           /\ IsAuthorized(ps).decision = "allow" <=>
                (Having(ps, "forbid", "true") = {} /\ Having(ps, "permit", "true") # {})
           /\ IsAuthorized(ps).erroring = Erroring(ps)
           /\ IsAuthorized(ps).decision = "allow" =>
                IsAuthorized(ps).determining = Having(ps, "permit", "true")
  BY DEF IsAuthorized, Decisions

\* qs narrows ps: it may decide residual policies of ps, the others are unchanged.
Narrows(qs, ps) ==
    /\ DOMAIN qs = DOMAIN ps
    /\ \A i \in DOMAIN ps :
        /\ qs[i].id = ps[i].id /\ qs[i].effect = ps[i].effect
        /\ ps[i].outcome # "residual" => qs[i].outcome = ps[i].outcome

\* A completion narrows.
LEMMA CompletesNarrows ==
    ASSUME NEW ps, NEW qs, Completes(qs, ps)
    PROVE  Narrows(qs, ps)
  BY DEF Completes, Narrows

\* A policy filed as satisfied, false or in error stays filed so when a list is narrowed.
LEMMA FiledWhenNarrowed ==
    ASSUME NEW ps, NEW qs, Narrows(qs, ps), NEW e \in Effects, NEW o \in Outcomes
    PROVE  Having(ps, e, o) \subseteq Having(qs, e, o)
<1> SUFFICES ASSUME NEW i \in DOMAIN ps, ps[i].effect = e, ps[i].outcome = o
             PROVE  ps[i].id \in Having(qs, e, o)
  BY DEF Having
<1>1. o # "residual"
  BY DEF Outcomes
<1>2. i \in DOMAIN qs /\ qs[i].id = ps[i].id /\ qs[i].effect = e /\ qs[i].outcome = o
  BY <1>1 DEF Narrows
<1> QED
  BY <1>2 DEF Having

\* A narrower list has no outcome that the list does not allow for.
LEMMA NarrowedBefore ==
    ASSUME NEW ps, NEW qs, Narrows(qs, ps), NEW e \in Effects, NEW o \in PartialOutcomes,
           Having(qs, e, o) # {}
    PROVE  Having(ps, e, o) # {} \/ Having(ps, e, "residual") # {}
<1>1. PICK i \in DOMAIN qs : qs[i].effect = e /\ qs[i].outcome = o
  BY HavingElim
<1>2. i \in DOMAIN ps /\ ps[i].effect = e
      /\ (ps[i].outcome = o \/ ps[i].outcome = "residual")
  BY <1>1 DEF Narrows
<1> QED
  BY <1>2, HavingIntro

\* A policy filed as satisfied, false or in error stays filed so in every completion.
LEMMA FiledForGood ==
    ASSUME NEW ps, NEW qs, Completes(qs, ps), NEW e \in Effects, NEW o \in Outcomes
    PROVE  Having(ps, e, o) \subseteq Having(qs, e, o)
  BY CompletesNarrows, FiledWhenNarrowed

\* A completion has no outcome the policy list does not allow for.
LEMMA FiledBefore ==
    ASSUME NEW ps, NEW qs, Completes(qs, ps), NEW e \in Effects, NEW o \in Outcomes,
           Having(qs, e, o) # {}
    PROVE  Having(ps, e, o) # {} \/ Having(ps, e, "residual") # {}
  BY CompletesNarrows, NarrowedBefore DEF PartialOutcomes

\* Soundness: a decision taken on residuals is the decision of Spec.isAuthorized whatever the
\* residual policies turn out to be.
THEOREM DecisionSound ==
    ASSUME NEW ps, NEW qs, Completes(qs, ps), PartialDecision(ps) # "none"
    PROVE  IsAuthorized(qs).decision = PartialDecision(ps)
<1> USE DEF Effects, Outcomes
<1>1. CASE Having(ps, "forbid", "true") # {}
  <2>1. Having(qs, "forbid", "true") # {}
    BY <1>1, FiledForGood
  <2> QED
    BY <1>1, <2>1 DEF IsAuthorized, PartialDecision
<1>2. CASE /\ Having(ps, "forbid", "true") = {}
           /\ Having(ps, "permit", "true") = {} /\ Having(ps, "permit", "residual") = {}
  <2>1. Having(qs, "permit", "true") = {}
    BY <1>2, FiledBefore
  <2> QED
    BY <1>2, <2>1 DEF IsAuthorized, PartialDecision
<1>3. CASE /\ Having(ps, "forbid", "true") = {}
           /\ ~(Having(ps, "permit", "true") = {} /\ Having(ps, "permit", "residual") = {})
  <2>1. /\ Having(ps, "forbid", "residual") = {}
        /\ Having(ps, "permit", "true") # {}
        /\ PartialDecision(ps) = "allow"
    BY <1>3 DEF PartialDecision
  <2>2. Having(qs, "forbid", "true") = {}
    BY <1>3, <2>1, FiledBefore
  <2>3. Having(qs, "permit", "true") # {}
    BY <2>1, FiledForGood
  <2> QED
    BY <2>1, <2>2, <2>3 DEF IsAuthorized
<1> QED
  BY <1>1, <1>2, <1>3

\* Stability: a decision taken on residuals stays as it is while more of them are decided.
THEOREM DecisionMonotone ==
    ASSUME NEW ps, NEW qs, Narrows(qs, ps), PartialDecision(ps) # "none"
    PROVE  PartialDecision(qs) = PartialDecision(ps)
<1> USE DEF Effects, Outcomes, PartialOutcomes
<1>1. CASE Having(ps, "forbid", "true") # {}
  <2>1. Having(qs, "forbid", "true") # {}
    BY <1>1, FiledWhenNarrowed
  <2> QED
    BY <1>1, <2>1 DEF PartialDecision
<1>2. CASE /\ Having(ps, "forbid", "true") = {}
           /\ Having(ps, "permit", "true") = {} /\ Having(ps, "permit", "residual") = {}
  <2>1. Having(qs, "permit", "true") = {} /\ Having(qs, "permit", "residual") = {}
    BY <1>2, NarrowedBefore
  <2> QED
    BY <1>2, <2>1 DEF PartialDecision
<1>3. CASE /\ Having(ps, "forbid", "true") = {}
           /\ ~(Having(ps, "permit", "true") = {} /\ Having(ps, "permit", "residual") = {})
  <2>1. /\ Having(ps, "forbid", "residual") = {}
        /\ Having(ps, "permit", "true") # {}
        /\ PartialDecision(ps) = "allow"
    BY <1>3 DEF PartialDecision
  <2>2. Having(qs, "forbid", "true") = {} /\ Having(qs, "forbid", "residual") = {}
    BY <1>3, <2>1, NarrowedBefore
  <2>3. Having(qs, "permit", "true") # {}
    BY <2>1, FiledWhenNarrowed
  <2> QED
    BY <2>1, <2>2, <2>3 DEF PartialDecision
<1> QED
  BY <1>1, <1>2, <1>3

\* What the files of a partial response say of Spec.isAuthorized on a completion: errors are
\* errors, a satisfied forbid is determining and denies, a satisfied permit is determining
\* when the request is allowed.
THEOREM FilesSound ==
    ASSUME NEW ps, NEW qs, Completes(qs, ps)
    PROVE  LET full == IsAuthorized(qs) IN
           /\ Erroring(ps) \subseteq full.erroring
           /\ Having(ps, "forbid", "true") \subseteq full.determining
           /\ Having(ps, "forbid", "true") # {} => full.decision = "deny"
           /\ full.decision = "allow" => Having(ps, "permit", "true") \subseteq full.determining
<1> USE DEF Effects, Outcomes
<1>1. /\ Having(ps, "permit", "error") \subseteq Having(qs, "permit", "error")
      /\ Having(ps, "forbid", "error") \subseteq Having(qs, "forbid", "error")
      /\ Having(ps, "permit", "true") \subseteq Having(qs, "permit", "true")
      /\ Having(ps, "forbid", "true") \subseteq Having(qs, "forbid", "true")
  BY FiledForGood
<1>2. Erroring(ps) \subseteq IsAuthorized(qs).erroring
  BY <1>1, IsAuthorizedDecides DEF Erroring
<1>3. CASE Having(qs, "forbid", "true") = {} /\ Having(qs, "permit", "true") # {}
  <2>1. /\ IsAuthorized(qs).decision = "allow"
        /\ IsAuthorized(qs).determining = Having(qs, "permit", "true")
    BY <1>3 DEF IsAuthorized
  <2> QED
    BY <1>1, <1>2, <1>3, <2>1
<1>4. CASE ~(Having(qs, "forbid", "true") = {} /\ Having(qs, "permit", "true") # {})
  <2>1. /\ IsAuthorized(qs).decision = "deny"
        /\ IsAuthorized(qs).determining = Having(qs, "forbid", "true")
    BY <1>4 DEF IsAuthorized
  <2> QED
    BY <1>1, <1>2, <2>1
<1> QED
  BY <1>3, <1>4

\* When ids are unique, a satisfied permit does not determine a denial.
THEOREM PermitsNotDenying ==
    ASSUME NEW ps, NEW qs, Completes(qs, ps),
           \A i, j \in DOMAIN ps : ps[i].id = ps[j].id => i = j,
           IsAuthorized(qs).decision = "deny"
    PROVE  Having(ps, "permit", "true") \cap IsAuthorized(qs).determining = {}
<1>1. IsAuthorized(qs).determining = Having(qs, "forbid", "true")
  BY DEF IsAuthorized
<1>2. ASSUME NEW i \in DOMAIN ps, ps[i].effect = "permit",
             NEW j \in DOMAIN qs, qs[j].effect = "forbid", ps[i].id = qs[j].id
      PROVE  FALSE
  BY <1>2 DEF Completes
<1> QED
  BY <1>1, <1>2 DEF Having

\* The completion that settles the residual permits as p and the residual forbids as f.
Settled(ps, p, f) ==
    [i \in DOMAIN ps |->
        [id |-> ps[i].id, effect |-> ps[i].effect,
         outcome |-> IF ps[i].outcome # "residual" THEN ps[i].outcome
                     ELSE IF ps[i].effect = "permit" THEN p ELSE f]]

\* The settled list completes the list it settles.
LEMMA SettledCompletes ==
    ASSUME NEW ids, NEW ps \in Policies(ids, PartialOutcomes),
           NEW p \in Outcomes, NEW f \in Outcomes
    PROVE  Completes(Settled(ps, p, f), ps)
<1>1. \A i \in DOMAIN ps : ps[i].outcome \in PartialOutcomes
  BY PolicyAt
<1> QED
  BY <1>1 DEF Completes, Settled, PartialOutcomes

\* What a settled list files as satisfied.
LEMMA SettledSatisfied ==
    ASSUME NEW ps, NEW p, NEW f, NEW e \in Effects
    PROVE  Having(Settled(ps, p, f), e, "true") # {} <=>
             \/ Having(ps, e, "true") # {}
             \/ Having(ps, e, "residual") # {} /\ (IF e = "permit" THEN p ELSE f) = "true"
<1> DEFINE qs == Settled(ps, p, f)
<1>1. /\ DOMAIN qs = DOMAIN ps
      /\ \A i \in DOMAIN ps :
            /\ qs[i].effect = ps[i].effect
            /\ qs[i].outcome = IF ps[i].outcome # "residual" THEN ps[i].outcome
                              ELSE IF ps[i].effect = "permit" THEN p ELSE f
  BY DEF Settled
<1> HIDE DEF qs
<1>2. ASSUME NEW i \in DOMAIN qs, qs[i].effect = e, qs[i].outcome = "true"
      PROVE  \/ Having(ps, e, "true") # {}
             \/ Having(ps, e, "residual") # {} /\ (IF e = "permit" THEN p ELSE f) = "true"
  BY <1>1, <1>2, HavingIntro
<1>3. ASSUME NEW i \in DOMAIN ps, ps[i].effect = e,
             \/ ps[i].outcome = "true"
             \/ ps[i].outcome = "residual" /\ (IF e = "permit" THEN p ELSE f) = "true"
      PROVE  Having(qs, e, "true") # {}
  BY <1>1, <1>3, HavingIntro
<1>4. Having(qs, e, "true") # {} <=>
             \/ Having(ps, e, "true") # {}
             \/ Having(ps, e, "residual") # {} /\ (IF e = "permit" THEN p ELSE f) = "true"
  BY <1>2, <1>3, HavingElim
<1> QED
  BY <1>4 DEF qs

\* Tightness: when the decision on residuals is none, the residual policies can turn out so
\* that the request is allowed, and so that it is denied.
THEOREM DecisionTight ==
    ASSUME NEW ids, NEW ps \in Policies(ids, PartialOutcomes), PartialDecision(ps) = "none"
    PROVE  /\ \E qs : Completes(qs, ps) /\ IsAuthorized(qs).decision = "allow"
           /\ \E qs : Completes(qs, ps) /\ IsAuthorized(qs).decision = "deny"
<1> USE DEF Effects, Outcomes
<1>0. /\ Having(ps, "forbid", "true") = {}
      /\ Having(ps, "permit", "true") # {} \/ Having(ps, "permit", "residual") # {}
      /\ Having(ps, "forbid", "residual") # {} \/ Having(ps, "permit", "true") = {}
  BY DEF PartialDecision
<1>1. Completes(Settled(ps, "true", "false"), ps) /\ Completes(Settled(ps, "false", "true"), ps)
  BY SettledCompletes
<1>2. IsAuthorized(Settled(ps, "true", "false")).decision = "allow"
  <2>1. Having(Settled(ps, "true", "false"), "forbid", "true") = {}
    BY <1>0, SettledSatisfied
  <2>2. Having(Settled(ps, "true", "false"), "permit", "true") # {}
    BY <1>0, SettledSatisfied
  <2> QED
    BY <2>1, <2>2 DEF IsAuthorized
<1>3. IsAuthorized(Settled(ps, "false", "true")).decision = "deny"
  <2>1. \/ Having(Settled(ps, "false", "true"), "forbid", "true") # {}
        \/ Having(Settled(ps, "false", "true"), "permit", "true") = {}
    BY <1>0, SettledSatisfied
  <2> QED
    BY <2>1 DEF IsAuthorized
<1> QED
  BY <1>1, <1>2, <1>3
=============================================================================
