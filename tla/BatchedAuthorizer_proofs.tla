---------------------- MODULE BatchedAuthorizer_proofs ----------------------
(***************************************************************************)
(* The safety properties of batched authorization, for every store, every  *)
(* policy list, every loader and every partial evaluator that meets the    *)
(* assumptions of EntityLoading.                                           *)
(***************************************************************************)
EXTENDS BatchedAuthorizer, Authorizer_proofs, FiniteSetTheorems

Underway == phase \in {"loop", "done"}

\* The inductive invariant. The store is a loaded part of the backing store; a residual means
\* what the policy means; what is still open mentions an entity that is not loaded; every
\* load was paid for by a new entity.
StoreLoaded  == store = Loaded(input.es, DOMAIN store)
Accepted     == Underway => \A i \in DOMAIN input.policies :
                                Accepts(input.policies[i].body, input.req)
MeaningKept  == Underway => \A i \in DOMAIN input.policies :
                    Meaning(residuals[i], input.req, input.es)
                        = Meaning(input.policies[i].body, input.req, input.es)
OpenUnloaded == Underway => \A i \in DOMAIN input.policies :
                    ~Decided(residuals[i]) => ~(Literals(residuals[i]) \subseteq DOMAIN store)
LoadsPaid    == Len(requested) <= Cardinality(DOMAIN store)
RequestedLoaded == \A i \in DOMAIN requested : requested[i] \subseteq DOMAIN store
NotAskedTwice == \A i, j \in DOMAIN requested : i # j => requested[i] \cap requested[j] = {}
Untouched    == ~Underway => residuals = <<>> /\ DOMAIN store = {}
ResponseCurrent ==
    phase = "done" => /\ response = CurrentResponse
                      /\ response.decision = "none" => fuel = 0

IInv == /\ TypeOK /\ StoreLoaded /\ Accepted /\ MeaningKept /\ OpenUnloaded /\ LoadsPaid
        /\ RequestedLoaded /\ NotAskedTwice /\ Untouched /\ ResponseCurrent

-----------------------------------------------------------------------------
(* The input, and the store. *)

\* The parts of an input have their types.
LEMMA InputType ==
    ASSUME input \in Inputs
    PROVE  /\ input.req \in Requests /\ input.es \in Stores /\ input.iters \in Nat
           /\ \A i \in DOMAIN input.policies :
                /\ input.policies[i].id \in PolicyIDs
                /\ input.policies[i].effect \in Effects
                /\ input.policies[i].body \in Residuals
<1> DEFINE Entries == [id : PolicyIDs, effect : Effects, body : Residuals]
<1>1. /\ input.req \in Requests /\ input.es \in Stores /\ input.iters \in Nat
      /\ input.policies \in Seq(Entries)
  BY FuelsType, PolicyListsType DEF Inputs
<1> HIDE DEF Entries
<1>2. \A i \in DOMAIN input.policies : input.policies[i] \in Entries
  BY <1>1, LenProperties, ElementOfSeq
<1> QED
  BY <1>1, <1>2 DEF Entries

\* What is loaded for L covers L.
LEMMA LoadedDomain ==
    ASSUME NEW es, NEW L
    PROVE  DOMAIN Loaded(es, L) = L
  BY DEF Loaded

\* The empty store is loaded for no uid.
LEMMA EmptyLoaded ==
    ASSUME NEW es
    PROVE  EmptyStore = Loaded(es, {}) /\ DOMAIN EmptyStore = {}
  BY DEF EmptyStore, Loaded

\* Merging two loaded parts of one store loads their union.
LEMMA MergeLoaded ==
    ASSUME NEW es, NEW L, NEW M
    PROVE  Merge(Loaded(es, L), Loaded(es, M)) = Loaded(es, L \cup M)
  BY DEF Merge, Loaded

-----------------------------------------------------------------------------
(* The current residuals, and what they complete to. *)

\* The outcome of a residual is one of the partial outcomes.
LEMMA OutcomeOfType ==
    ASSUME NEW r \in Residuals, NEW req \in Requests, NEW es \in Stores
    PROVE  /\ Meaning(r, req, es) \in Outcomes
           /\ OutcomeOf(r) \in PartialOutcomes
           /\ OutcomeOf(r) # "residual" => Decided(r) /\ OutcomeOf(r) = Meaning(r, req, es)
           /\ OutcomeOf(r) = "residual" => ~Decided(r)
<1>1. Meaning(r, req, es) \in Outcomes
  BY BooleanMeaning
<1>2. Decided(r) => Outcome(r) = Meaning(r, req, es)
  BY OutcomeSound
<1> QED
  BY <1>1, <1>2 DEF OutcomeOf, Outcomes, PartialOutcomes

\* The full evaluation completes the evaluation of the residuals.
LEMMA CurrentCompletes ==
    ASSUME TypeOK, MeaningKept, Underway
    PROVE  Completes(FullOf(input), Current)
<1>1. /\ input.req \in Requests /\ input.es \in Stores
      /\ \A i \in DOMAIN input.policies : input.policies[i].body \in Residuals
  BY InputType DEF TypeOK
<1>2. /\ DOMAIN residuals = DOMAIN input.policies
      /\ \A i \in DOMAIN input.policies : residuals[i] \in Residuals
  BY DEF TypeOK, Underway
<1>3. ASSUME NEW i \in DOMAIN input.policies
      PROVE  /\ FullOf(input)[i].outcome \in Outcomes
             /\ Current[i].outcome # "residual" =>
                    FullOf(input)[i].outcome = Current[i].outcome
  <2>1. /\ FullOf(input)[i].outcome = Meaning(input.policies[i].body, input.req, input.es)
        /\ Current[i].outcome = OutcomeOf(residuals[i])
    BY <1>2 DEF FullOf, Current, Evaluated
  <2>2. Meaning(residuals[i], input.req, input.es)
            = Meaning(input.policies[i].body, input.req, input.es)
    BY DEF MeaningKept
  <2> QED
    BY <1>1, <1>2, <2>1, <2>2, OutcomeOfType
<1>4. /\ DOMAIN FullOf(input) = DOMAIN input.policies
      /\ DOMAIN Current = DOMAIN input.policies
      /\ \A i \in DOMAIN input.policies :
            /\ FullOf(input)[i].id = Current[i].id
            /\ FullOf(input)[i].effect = Current[i].effect
  BY DEF FullOf, Current, Evaluated
<1> QED
  BY <1>3, <1>4 DEF Completes

\* An open decision has an open residual, and so something to load.
LEMMA OpenLoads ==
    ASSUME TypeOK, OpenUnloaded, Underway, CurrentResponse.decision = "none"
    PROVE  ToLoad # {} /\ ToLoad \subseteq Uids
<1>1. /\ DOMAIN residuals = DOMAIN input.policies
      /\ \A i \in DOMAIN input.policies : residuals[i] \in Residuals
  BY DEF TypeOK, Underway
<1>2. PartialDecision(Current) = "none"
  BY DEF CurrentResponse, ResidualResponse
<1>3. \E e \in Effects : Having(Current, e, "residual") # {}
  BY <1>2 DEF PartialDecision, Effects
<1>4. PICK i \in DOMAIN Current : Current[i].outcome = "residual"
  BY <1>3, HavingElim
<1>5. i \in DOMAIN input.policies /\ OutcomeOf(residuals[i]) = "residual"
  BY <1>1, <1>4 DEF Current, Evaluated
<1>6. ~Decided(residuals[i])
  <2>1. residuals[i] \in Residuals /\ input.req \in Requests /\ input.es \in Stores
    BY <1>1, <1>5, InputType DEF TypeOK
  <2>2. OutcomeOf(residuals[i]) = "residual" => ~Decided(residuals[i])
    BY <2>1, OutcomeOfType
  <2> QED
    BY <1>5, <2>2
<1>7. ~(Literals(residuals[i]) \subseteq DOMAIN store)
  BY <1>5, <1>6 DEF OpenUnloaded
<1>8. \A j \in DOMAIN residuals : Literals(residuals[j]) \subseteq Uids
  BY <1>1, LiteralsInUids
<1>9. PICK u \in Literals(residuals[i]) : u \notin DOMAIN store
  BY <1>7
<1>10. u \in ToLoad
  <2>1. Literals(residuals[i]) \in {Literals(residuals[j]) : j \in DOMAIN residuals}
    BY <1>1, <1>5
  <2> QED
    BY <1>9, <2>1 DEF ToLoad
<1>11. ToLoad \subseteq Uids
  BY <1>8, ZenonT(30) DEF ToLoad
<1> QED
  BY <1>10, <1>11

-----------------------------------------------------------------------------
(* The invariant is inductive. *)

\* The call starts with the invariant.
LEMMA Initially == Init => IInv
<1> SUFFICES ASSUME Init PROVE IInv
  OBVIOUS
<1> USE DEF Init
<1>1. input.iters \in Nat
  BY InputType
<1>2. TypeOK
  BY <1>1, EmptyLoaded, EmptySeq DEF TypeOK, NoResponse
<1>3. StoreLoaded
  BY EmptyLoaded DEF StoreLoaded
<1>4. LoadsPaid
  BY EmptyLoaded, EmptySeq, FS_EmptySet DEF LoadsPaid
<1>5. RequestedLoaded /\ NotAskedTwice
  BY DEF RequestedLoaded, NotAskedTwice
<1>6. Accepted /\ MeaningKept /\ OpenUnloaded /\ Untouched /\ ResponseCurrent
  BY EmptyLoaded DEF Accepted, MeaningKept, OpenUnloaded, Untouched, ResponseCurrent, Underway
<1> QED
  BY <1>2, <1>3, <1>4, <1>5, <1>6 DEF IInv

\* The first evaluation, against no entity at all, keeps the invariant.
LEMMA EvaluatePoliciesStep ==
    ASSUME IInv, EvaluatePolicies
    PROVE  IInv'
<1> USE DEF EvaluatePolicies
<1>1. /\ input.req \in Requests /\ input.es \in Stores
      /\ \A i \in DOMAIN input.policies : input.policies[i].body \in Residuals
  BY InputType DEF IInv, TypeOK
<1>2. phase = "start" /\ ~Underway
  BY DEF Underway
<1>3. StoreLoaded' /\ LoadsPaid' /\ RequestedLoaded' /\ NotAskedTwice' /\ ResponseCurrent'
  BY DEF IInv, StoreLoaded, LoadsPaid, RequestedLoaded, NotAskedTwice, ResponseCurrent
<1>4. CASE ~(\A i \in DOMAIN input.policies : Accepts(input.policies[i].body, input.req))
  <2>1. phase' = "failed" /\ residuals' = residuals
    BY <1>4
  <2>2. TypeOK'
    BY <1>2, <2>1 DEF IInv, TypeOK
  <2>3. Accepted' /\ MeaningKept' /\ OpenUnloaded' /\ Untouched'
    BY <1>2, <2>1 DEF IInv, Accepted, MeaningKept, OpenUnloaded, Untouched, Underway
  <2> QED
    BY <1>3, <2>2, <2>3 DEF IInv
<1>5. CASE \A i \in DOMAIN input.policies : Accepts(input.policies[i].body, input.req)
  <2>1. /\ phase' = "loop" /\ Underway'
        /\ residuals' = [i \in DOMAIN input.policies |->
                            Reduce(input.policies[i].body, input.req, EmptyStore)]
    BY <1>5 DEF Underway
  <2>2. ASSUME NEW i \in DOMAIN input.policies
        PROVE  /\ residuals'[i] = Reduce(input.policies[i].body, input.req,
                                         Loaded(input.es, {}))
               /\ residuals'[i] \in Residuals
    BY <1>1, <2>1, EmptyLoaded, ReduceClosed
  <2>3. TypeOK'
    BY <1>2, <2>1, <2>2 DEF IInv, TypeOK
  <2>4. Accepted'
    BY <1>5, <2>1 DEF Accepted
  <2>5. MeaningKept'
    BY <1>1, <2>2, ReduceSound DEF MeaningKept
  <2>6. OpenUnloaded'
    <3> SUFFICES ASSUME NEW i \in DOMAIN input.policies, ~Decided(residuals'[i])
                 PROVE  ~(Literals(residuals'[i]) \subseteq {})
      BY <1>2 DEF IInv, Untouched, OpenUnloaded
    <3> QED
      BY <1>1, <2>2, ReduceProgress
  <2>7. Untouched'
    BY <2>1 DEF Untouched
  <2> QED
    BY <1>3, <2>3, <2>4, <2>5, <2>6, <2>7 DEF IInv
<1> QED
  BY <1>4, <1>5

\* Returning keeps the invariant: the response is the current one.
LEMMA ReturnStep ==
    ASSUME IInv, Return
    PROVE  IInv'
<1> USE DEF Return
<1>1. Underway /\ Underway'
  BY DEF Underway
<1>2. CurrentResponse' = CurrentResponse
  BY DEF CurrentResponse, Current
<1>3. CurrentResponse # NoResponse
  BY DEF CurrentResponse, ResidualResponse, PartialDecision, NoResponse
<1>4. TypeOK'
  BY <1>3 DEF IInv, TypeOK
<1>5. ResponseCurrent'
  BY <1>2 DEF ResponseCurrent, Exhausted
<1>6. /\ StoreLoaded' /\ LoadsPaid' /\ RequestedLoaded' /\ NotAskedTwice'
      /\ Accepted' /\ MeaningKept' /\ OpenUnloaded' /\ Untouched'
  BY <1>1 DEF IInv, StoreLoaded, LoadsPaid, RequestedLoaded, NotAskedTwice,
              Accepted, MeaningKept, OpenUnloaded, Untouched
<1> QED
  BY <1>4, <1>5, <1>6 DEF IInv

\* One turn of the loop, with the answer of the loader.
LEMMA LoadAndReduceStep ==
    ASSUME IInv, LoadAndReduce
    PROVE  IInv'
<1> USE DEF LoadAndReduce
<1>1. /\ input.req \in Requests /\ input.es \in Stores /\ input.iters \in Nat
      /\ phase = "loop" /\ Underway /\ Underway'
      /\ residuals \in [DOMAIN input.policies -> Residuals]
      /\ requested \in Seq(SUBSET Uids) /\ DOMAIN store \subseteq Uids
  BY InputType DEF IInv, TypeOK, Underway
<1>2. ToLoad # {} /\ ToLoad \subseteq Uids /\ ToLoad \cap DOMAIN store = {}
  <2>1. ToLoad \cap DOMAIN store = {}
    BY DEF ToLoad
  <2> QED
    BY <1>1, <2>1, OpenLoads DEF IInv
<1>3. PICK a \in Answers(input.es, ToLoad) :
        /\ store' = Merge(a, store)
        /\ residuals' = Reevaluated(Merge(a, store))
  OBVIOUS
<1>4. PICK extra \in Extras : a = Loaded(input.es, ToLoad \cup extra)
  BY <1>3 DEF Answers
<1> DEFINE L == ToLoad \cup extra \cup DOMAIN store
<1>5. store' = Loaded(input.es, L) /\ DOMAIN store' = L /\ L \subseteq Uids
  <2>1. store = Loaded(input.es, DOMAIN store)
    BY DEF IInv, StoreLoaded
  <2>2. Merge(a, store) = Loaded(input.es, L)
    BY <1>4, <2>1, MergeLoaded
  <2>3. L \subseteq Uids
    BY <1>1, <1>2, ExtrasType
  <2> QED
    BY <1>3, <2>2, <2>3, LoadedDomain
<1> HIDE DEF L
<1>6. /\ DOMAIN residuals' = DOMAIN input.policies
      /\ \A i \in DOMAIN input.policies :
            residuals'[i] = Reduce(residuals[i], input.req, Loaded(input.es, L))
  BY <1>1, <1>3, <1>5 DEF Reevaluated
<1>7. \A i \in DOMAIN input.policies : residuals[i] \in Residuals
  BY <1>1
<1>8. /\ requested' \in Seq(SUBSET Uids)
      /\ Len(requested') = Len(requested) + 1 /\ Len(requested) \in Nat
      /\ DOMAIN requested' = 1 .. Len(requested) + 1 /\ DOMAIN requested = 1 .. Len(requested)
      /\ \A i \in DOMAIN requested : requested'[i] = requested[i]
      /\ requested'[Len(requested) + 1] = ToLoad
  BY <1>1, <1>2, AppendProperties, LenProperties
<1>9. TypeOK'
  <2>1. residuals' \in [DOMAIN input.policies -> Residuals]
    <3>1. \A i \in DOMAIN input.policies : residuals'[i] \in Residuals
      BY <1>1, <1>5, <1>6, <1>7, ReduceClosed
    <3>2. residuals' = [i \in DOMAIN input.policies |-> residuals'[i]]
      BY <1>1, <1>3, <1>6 DEF Reevaluated
    <3> QED
      BY <3>1, <3>2
  <2>2. fuel' \in 0..input.iters /\ Len(requested') + fuel' = input.iters
    BY <1>1, <1>8 DEF IInv, TypeOK, Exhausted
  <2> QED
    BY <1>1, <1>5, <1>8, <2>1, <2>2 DEF IInv, TypeOK
<1>10. StoreLoaded'
  BY <1>5 DEF StoreLoaded
<1>11. MeaningKept'
  BY <1>1, <1>5, <1>6, <1>7, ReduceSound DEF IInv, MeaningKept
<1>12. OpenUnloaded'
  BY <1>1, <1>5, <1>6, <1>7, ReduceProgress DEF OpenUnloaded
<1>13. LoadsPaid'
  <2>1. PICK u \in ToLoad : u \notin DOMAIN store
    BY <1>2
  <2>2. IsFiniteSet(L) /\ IsFiniteSet(DOMAIN store)
    BY <1>1, <1>5, UidsFinite, FS_Subset
  <2>3. Cardinality(DOMAIN store \cup {u}) = Cardinality(DOMAIN store) + 1
    BY <2>1, <2>2, FS_AddElement
  <2>4. Cardinality(DOMAIN store \cup {u}) <= Cardinality(L)
    BY <2>1, <2>2, FS_Subset DEF L
  <2>5. Cardinality(L) \in Nat /\ Cardinality(DOMAIN store) \in Nat
    BY <2>2, FS_CardinalityType
  <2> QED
    BY <1>5, <1>8, <2>3, <2>4, <2>5 DEF IInv, LoadsPaid
<1>14. RequestedLoaded' /\ NotAskedTwice'
  <2>1. \A i \in DOMAIN requested : requested[i] \subseteq DOMAIN store
    BY DEF IInv, RequestedLoaded
  <2>2. \A i \in DOMAIN requested' : requested'[i] \subseteq L
    BY <1>8, <2>1 DEF L
  <2>3. NotAskedTwice'
    <3> SUFFICES ASSUME NEW i \in DOMAIN requested', NEW j \in DOMAIN requested', i # j
                 PROVE  requested'[i] \cap requested'[j] = {}
      BY DEF NotAskedTwice
    <3>1. CASE i \in DOMAIN requested /\ j \in DOMAIN requested
      BY <1>8, <3>1 DEF IInv, NotAskedTwice
    <3>2. CASE i = Len(requested) + 1 /\ j \in DOMAIN requested
      BY <1>2, <1>8, <2>1, <3>2
    <3>3. CASE i \in DOMAIN requested /\ j = Len(requested) + 1
      BY <1>2, <1>8, <2>1, <3>3
    <3> QED
      BY <1>8, <3>1, <3>2, <3>3
  <2> QED
    BY <1>5, <2>2, <2>3 DEF RequestedLoaded
<1>15. Accepted' /\ Untouched' /\ ResponseCurrent'
  BY <1>1 DEF IInv, Accepted, Untouched, ResponseCurrent
<1> QED
  BY <1>9, <1>10, <1>11, <1>12, <1>13, <1>14, <1>15 DEF IInv

\* A call that has returned stays as it is.
LEMMA StutterStep ==
    ASSUME IInv, UNCHANGED vars
    PROVE  IInv'
<1> USE DEF vars
<1>1. Underway' = Underway /\ CurrentResponse' = CurrentResponse
  BY DEF Underway, CurrentResponse, Current
<1>2. TypeOK' /\ StoreLoaded' /\ LoadsPaid' /\ RequestedLoaded' /\ NotAskedTwice'
  BY DEF IInv, TypeOK, StoreLoaded, LoadsPaid, RequestedLoaded, NotAskedTwice
<1>3. Accepted' /\ MeaningKept' /\ OpenUnloaded' /\ Untouched' /\ ResponseCurrent'
  BY <1>1 DEF IInv, Accepted, MeaningKept, OpenUnloaded, Untouched, ResponseCurrent
<1> QED
  BY <1>2, <1>3 DEF IInv

\* The invariant holds in every reachable state.
THEOREM Invariance == Spec => []IInv
<1>1. ASSUME IInv, [Next]_vars
      PROVE  IInv'
  BY <1>1, EvaluatePoliciesStep, ReturnStep, LoadAndReduceStep, StutterStep
     DEF Next, Returned
<1> QED
  BY <1>1, Initially, PTL DEF Spec

-----------------------------------------------------------------------------
(* The properties. *)

\* Type correctness of the loop: fuel, residuals and store stay in range, and every call to
\* the loader costs one unit of fuel.
THEOREM TypeCorrect == Spec => []TypeOK
<1>1. IInv => TypeOK
  BY DEF IInv
<1> QED
  BY <1>1, Invariance, PTL

\* Re-authorizing the residuals of any turn on the whole store gives the response of the
\* concrete authorizer.
THEOREM ReauthorizeSound == Spec => []ReauthorizeAgrees
<1>1. ASSUME IInv, Underway
      PROVE  Reauthorized = FullResponse
  <2>1. DOMAIN residuals = DOMAIN input.policies
    BY <1>1 DEF IInv, TypeOK, Underway
  <2>2. [i \in DOMAIN residuals |-> Meaning(residuals[i], input.req, input.es)]
          = [i \in DOMAIN input.policies |->
                Meaning(input.policies[i].body, input.req, input.es)]
    BY <1>1, <2>1 DEF IInv, MeaningKept
  <2> QED
    BY <2>2 DEF Reauthorized, FullResponse, FullOf
<1>2. IInv => ReauthorizeAgrees
  BY <1>1 DEF ReauthorizeAgrees, Underway
<1> QED
  BY <1>2, Invariance, PTL

\* What a finished call says agrees with the concrete authorizer.
LEMMA FinishedAgrees ==
    ASSUME IInv, phase = "done"
    PROVE  /\ response.decision # "none" => response.decision = FullResponse.decision
           /\ response.ids["permit"]["error"] \cup response.ids["forbid"]["error"]
                \subseteq FullResponse.erroring
           /\ response.decision = "allow" =>
                response.ids["permit"]["true"] \subseteq FullResponse.determining
<1>1. Completes(FullOf(input), Current)
  BY CurrentCompletes DEF IInv, Underway
<1>2. response = ResidualResponse(Current)
  BY DEF IInv, ResponseCurrent, CurrentResponse
<1>3. /\ response.decision = PartialDecision(Current)
      /\ response.ids["permit"]["error"] = Having(Current, "permit", "error")
      /\ response.ids["forbid"]["error"] = Having(Current, "forbid", "error")
      /\ response.ids["permit"]["true"] = Having(Current, "permit", "true")
  BY <1>2 DEF ResidualResponse, Effects, Outcomes, PartialOutcomes
<1>4. response.decision # "none" => response.decision = FullResponse.decision
  BY <1>1, <1>3, DecisionSound DEF FullResponse
<1>5. response.ids["permit"]["error"] \cup response.ids["forbid"]["error"]
        \subseteq FullResponse.erroring
  <2>1. FullResponse.erroring = Erroring(FullOf(input))
    BY IsAuthorizedDecides DEF FullResponse
  <2>2. /\ Having(Current, "permit", "error") \subseteq Having(FullOf(input), "permit", "error")
        /\ Having(Current, "forbid", "error") \subseteq Having(FullOf(input), "forbid", "error")
    BY <1>1, FiledForGood DEF Effects, Outcomes
  <2> QED
    BY <1>3, <2>1, <2>2 DEF Erroring
<1>6. response.decision = "allow" =>
        response.ids["permit"]["true"] \subseteq FullResponse.determining
  <2>1. FullResponse.decision = "allow" =>
          FullResponse.determining = Having(FullOf(input), "permit", "true")
    BY IsAuthorizedDecides DEF FullResponse
  <2>2. Having(Current, "permit", "true") \subseteq Having(FullOf(input), "permit", "true")
    BY <1>1, FiledForGood DEF Effects, Outcomes
  <2> QED
    BY <1>3, <1>4, <2>1, <2>2
<1> QED
  BY <1>4, <1>5, <1>6

\* A decision reached on a part of the store is the decision on the whole of it.
THEOREM DecisionCorrect == Spec => []DecisionAgrees
<1>1. IInv => DecisionAgrees
  BY FinishedAgrees DEF DecisionAgrees
<1> QED
  BY <1>1, Invariance, PTL

\* The loader is never asked for nothing.
LEMMA LoadsUseful == IInv => NoIdleLoad
  BY OpenLoads DEF IInv, NoIdleLoad, Underway

\* A call without a decision has loaded an entity for every unit of fuel, and not all of them.
LEMMA UndecidedShort ==
    ASSUME IInv, phase = "done", response.decision = "none"
    PROVE  /\ input.iters <= Cardinality(DOMAIN store)
           /\ DOMAIN store # Uids
           /\ input.iters < Cardinality(Uids)
<1>1. /\ input.iters \in Nat /\ requested \in Seq(SUBSET Uids) /\ DOMAIN store \subseteq Uids
      /\ Len(requested) + fuel = input.iters /\ fuel = 0
  BY InputType DEF IInv, TypeOK, ResponseCurrent
<1>2. ToLoad # {} /\ ToLoad \subseteq Uids
  BY OpenLoads DEF IInv, Underway, ResponseCurrent
<1>3. DOMAIN store # Uids
  BY <1>2 DEF ToLoad
<1>4. Len(requested) \in Nat /\ Len(requested) = input.iters
  BY <1>1, LenProperties
<1>5. /\ Cardinality(DOMAIN store) <= Cardinality(Uids)
      /\ Cardinality(DOMAIN store) # Cardinality(Uids)
      /\ Cardinality(DOMAIN store) \in Nat /\ Cardinality(Uids) \in Nat
  BY <1>1, <1>3, UidsFinite, FS_Subset, FS_CardinalityType
<1> QED
  BY <1>1, <1>3, <1>4, <1>5 DEF IInv, LoadsPaid

\* Convergence of batched authorization, which the Lean development leaves unproven
\* (Thm/BatchedEvaluator/Common.lean).
THEOREM Convergence == Spec => []Converges
<1>1. IInv => Converges
  BY UndecidedShort DEF Converges
<1> QED
  BY <1>1, Invariance, PTL

\* The loader is called at most once per unit of fuel, each time for something, and never twice
\* for an entity.
THEOREM LoaderUse == Spec => []LoaderContract
<1>1. IInv => LoaderContract
  <2> SUFFICES ASSUME IInv PROVE LoaderContract
    OBVIOUS
  <2>1. Len(requested) <= input.iters
    BY InputType, LenProperties DEF IInv, TypeOK
  <2> QED
    BY <2>1, LoadsUseful DEF IInv, NotAskedTwice, LoaderContract
<1> QED
  BY <1>1, Invariance, PTL

\* A decided policy keeps its outcome.
THEOREM OutcomesKept == Spec => OutcomesStable
<1> DEFINE Kept == \A i \in DOMAIN residuals : Decided(residuals[i]) =>
                       /\ Decided(residuals'[i])
                       /\ Outcome(residuals'[i]) = Outcome(residuals[i])
<1>1. ASSUME IInv, LoadAndReduce
      PROVE  Kept
  <2>1. /\ input.req \in Requests /\ input.es \in Stores
        /\ \A i \in DOMAIN residuals : residuals[i] \in Residuals
    BY <1>1, InputType DEF IInv, TypeOK, LoadAndReduce
  <2>2. PICK L \in SUBSET Uids :
          \A i \in DOMAIN residuals :
            residuals'[i] = Reduce(residuals[i], input.req, Loaded(input.es, L))
    <3>1. PICK a \in Answers(input.es, ToLoad) : residuals' = Reevaluated(Merge(a, store))
      BY <1>1 DEF LoadAndReduce
    <3>2. PICK extra \in Extras : a = Loaded(input.es, ToLoad \cup extra)
      BY <3>1 DEF Answers
    <3>3. store = Loaded(input.es, DOMAIN store) /\ DOMAIN store \subseteq Uids
      BY <1>1 DEF IInv, TypeOK, StoreLoaded
    <3>4. ToLoad \subseteq Uids
      BY <1>1, OpenLoads DEF IInv, LoadAndReduce, Underway
    <3>5. Merge(a, store) = Loaded(input.es, ToLoad \cup extra \cup DOMAIN store)
      BY <3>2, <3>3, MergeLoaded
    <3>6. ToLoad \cup extra \cup DOMAIN store \in SUBSET Uids
      BY <3>3, <3>4, ExtrasType
    <3> QED
      BY <3>1, <3>5, <3>6 DEF Reevaluated
  <2>3. ASSUME NEW i \in DOMAIN residuals, Decided(residuals[i])
        PROVE  Decided(residuals'[i]) /\ Outcome(residuals'[i]) = Outcome(residuals[i])
    <3>1. residuals'[i] \in Residuals
      BY <2>1, <2>2, ReduceClosed
    <3>2. Decided(residuals'[i])
      <4>1. Decided(Reduce(residuals[i], input.req, Loaded(input.es, L)))
        BY <2>1, <2>3, OutcomeStable
      <4> QED
        BY <2>2, <4>1
    <3>3. Meaning(residuals'[i], input.req, input.es) = Meaning(residuals[i], input.req, input.es)
      BY <2>1, <2>2, ReduceSound
    <3>4. Outcome(residuals[i]) = Meaning(residuals[i], input.req, input.es)
      BY <2>1, <2>3, OutcomeSound
    <3>5. Outcome(residuals'[i]) = Meaning(residuals'[i], input.req, input.es)
      BY <2>1, <3>1, <3>2, OutcomeSound
    <3> QED
      BY <3>2, <3>3, <3>4, <3>5
  <2> QED
    BY <2>3
<1>2. ASSUME IInv, EvaluatePolicies
      PROVE  Kept
  <2>1. residuals = <<>>
    BY <1>2 DEF IInv, Untouched, Underway, EvaluatePolicies
  <2> QED
    BY <2>1
<1>3. ASSUME IInv, Return \/ Returned
      PROVE  Kept
  BY <1>3 DEF Return, Returned, vars
<1>4. ASSUME IInv, [Next]_vars
      PROVE  [Kept]_vars
  BY <1>1, <1>2, <1>3, <1>4 DEF Next
<1> QED
  BY <1>4, Invariance, PTL DEF Spec, OutcomesStable

\* A call gives one of the promised verdicts, once: the safety part of DecideOnce.
THEOREM RefinesDecideOnce == Spec => DecideOnceSpec!SafeSpec
<1>1. Init => DecideOnceSpec!Init
  BY DEF Init, DecideOnceSpec!Init, Verdict
<1>2. ASSUME IInv, EvaluatePolicies
      PROVE  [DecideOnceSpec!Decide]_(DecideOnceSpec!vars)
  <2>1. Verdict = "pending" /\ UNCHANGED input
    BY <1>2 DEF EvaluatePolicies, Verdict
  <2>2. CASE ~(\A i \in DOMAIN input.policies : Accepts(input.policies[i].body, input.req))
    <3>1. Verdict' = "failed" /\ PromisedVerdicts(input) = {"failed"}
      BY <1>2, <2>2 DEF EvaluatePolicies, Verdict, PromisedVerdicts
    <3> QED
      BY <2>1, <3>1 DEF DecideOnceSpec!Decide
  <2>3. CASE \A i \in DOMAIN input.policies : Accepts(input.policies[i].body, input.req)
    <3>1. Verdict' = "pending"
      BY <1>2, <2>3 DEF EvaluatePolicies, Verdict
    <3> QED
      BY <2>1, <3>1 DEF DecideOnceSpec!vars
  <2> QED
    BY <2>2, <2>3
<1>3. ASSUME IInv, Return
      PROVE  [DecideOnceSpec!Decide]_(DecideOnceSpec!vars)
  <2>1. IInv' /\ phase' = "done" /\ input' = input /\ response' = CurrentResponse
    BY <1>3, ReturnStep DEF Return
  <2>2. Verdict = "pending" /\ Verdict' = response'.decision
    BY <1>3, <2>1 DEF Return, Verdict
  <2>3. \A i \in DOMAIN input.policies : Accepts(input.policies[i].body, input.req)
    BY <1>3 DEF IInv, Accepted, Return, Underway
  <2>4. PromisedVerdicts(input)
          = {FullResponse.decision} \cup (IF input.iters < Cardinality(Uids) THEN {"none"} ELSE {})
    BY <2>3 DEF PromisedVerdicts, FullResponse
  <2>5. CASE response'.decision # "none"
    <3>1. (phase = "done" => (response.decision # "none" =>
                                response.decision = FullResponse.decision))'
      BY <2>1, FinishedAgrees, PTL
    <3>2. FullResponse' = FullResponse
      BY <2>1 DEF FullResponse
    <3> QED
      BY <2>1, <2>2, <2>4, <2>5, <3>1, <3>2 DEF DecideOnceSpec!Decide
  <2>6. CASE response'.decision = "none"
    <3>1. (phase = "done" => (response.decision = "none" => input.iters < Cardinality(Uids)))'
      BY <2>1, UndecidedShort, PTL
    <3> QED
      BY <2>1, <2>2, <2>4, <2>6, <3>1 DEF DecideOnceSpec!Decide
  <2> QED
    BY <2>5, <2>6
<1>4. ASSUME IInv, LoadAndReduce
      PROVE  [DecideOnceSpec!Decide]_(DecideOnceSpec!vars)
  <2>1. Verdict = "pending" /\ Verdict' = "pending" /\ UNCHANGED input
    BY <1>4 DEF LoadAndReduce, Verdict
  <2> QED
    BY <2>1 DEF DecideOnceSpec!vars
<1>5. ASSUME UNCHANGED vars
      PROVE  [DecideOnceSpec!Decide]_(DecideOnceSpec!vars)
  <2>1. Verdict' = Verdict /\ UNCHANGED input
    BY <1>5 DEF vars, Verdict
  <2> QED
    BY <2>1 DEF DecideOnceSpec!vars
<1>6. ASSUME IInv, [Next]_vars
      PROVE  [DecideOnceSpec!Decide]_(DecideOnceSpec!vars)
  BY <1>2, <1>3, <1>4, <1>5, <1>6 DEF Next, Returned
<1> QED
  BY <1>1, <1>6, Invariance, PTL DEF Spec, DecideOnceSpec!SafeSpec
=============================================================================
