---------------------- MODULE BatchedEvaluator_proofs ----------------------
(***************************************************************************)
(* The safety properties of batchedEvaluate, for every expression, every   *)
(* loader and every partial evaluator that meets the assumptions of        *)
(* EntityLoading. The difference to batched authorization is that the loop *)
(* goes on with a residual that is an error, and then loads nothing.       *)
(***************************************************************************)
EXTENDS BatchedEvaluator, SequenceTheorems, FiniteSetTheorems, TLAPS

\* The inductive invariant. The store is a loaded part of the backing store; the residual means
\* what the expression means; while it is open it mentions an entity that is not loaded, and
\* every call to the loader so far was paid for by a new entity.
StoreLoaded  == store = Loaded(input.es, DOMAIN store)
MeaningKept  == Meaning(residual, input.req, input.es) = Meaning(input.expr, input.req, input.es)
OpenUnloaded == phase # "start" /\ ~Decided(residual) => ~(Literals(residual) \subseteq DOMAIN store)
LoadsPaid    == ~Decided(residual) => Len(requested) <= Cardinality(DOMAIN store)
RequestedLoaded == \A i \in DOMAIN requested : requested[i] \subseteq DOMAIN store
NotAskedTwice == \A i, j \in DOMAIN requested : i # j => requested[i] \cap requested[j] = {}
NotBegun     == phase = "start" => DOMAIN store = {}
DoneReason   == phase = "done" => IsValue(residual) \/ fuel = 0

IInv == /\ TypeOK /\ StoreLoaded /\ MeaningKept /\ OpenUnloaded /\ LoadsPaid
        /\ RequestedLoaded /\ NotAskedTwice /\ NotBegun /\ DoneReason

-----------------------------------------------------------------------------
(* The input, and the store. *)

\* The parts of an input have their types.
LEMMA InputType ==
    ASSUME input \in Inputs
    PROVE  /\ input.req \in Requests /\ input.es \in Stores /\ input.iters \in Nat
           /\ input.expr \in Residuals
  BY FuelsType, ExprsType DEF Inputs

\* What is loaded for L covers L.
LEMMA LoadedDomain ==
    ASSUME NEW es, NEW L
    PROVE  DOMAIN Loaded(es, L) = L
  BY DEF Loaded

\* The empty store is loaded for no uid.
LEMMA EmptyLoaded ==
    ASSUME NEW es
    PROVE  EmptyStore = Loaded(es, {}) /\ DOMAIN EmptyStore = {}
  BY DEF EmptyStore, Loaded

\* Merging two loaded parts of one store loads their union.
LEMMA MergeLoaded ==
    ASSUME NEW es, NEW L, NEW M
    PROVE  Merge(Loaded(es, L), Loaded(es, M)) = Loaded(es, L \cup M)
  BY DEF Merge, Loaded

-----------------------------------------------------------------------------
(* The invariant is inductive. *)

\* The call starts with the invariant.
LEMMA Initially == Init => IInv
<1> SUFFICES ASSUME Init PROVE IInv
  OBVIOUS
<1> USE DEF Init
<1>1. input.iters \in Nat /\ input.expr \in Residuals
  BY InputType
<1>2. Len(requested) = 0 /\ requested \in Seq(SUBSET Uids) /\ DOMAIN requested = {}
  BY EmptySeq
<1>3. Cardinality(DOMAIN store) = 0 /\ DOMAIN store = {}
  BY EmptyLoaded, FS_EmptySet
<1>4. TypeOK
  BY <1>1, <1>2, <1>3 DEF TypeOK
<1>5. StoreLoaded
  BY EmptyLoaded DEF StoreLoaded
<1>6. LoadsPaid /\ RequestedLoaded /\ NotAskedTwice
  BY <1>2, <1>3 DEF LoadsPaid, RequestedLoaded, NotAskedTwice
<1>7. MeaningKept /\ OpenUnloaded /\ NotBegun /\ DoneReason
  BY <1>3 DEF MeaningKept, OpenUnloaded, NotBegun, DoneReason
<1> QED
  BY <1>4, <1>5, <1>6, <1>7 DEF IInv

\* The first evaluation, against no entity at all.
LEMMA Evaluate0Step ==
    ASSUME IInv, Evaluate0
    PROVE  IInv'
<1> USE DEF Evaluate0
<1>1. /\ input.req \in Requests /\ input.es \in Stores /\ residual \in Residuals
      /\ DOMAIN store = {} /\ phase = "start" /\ phase' = "loop"
  BY InputType DEF IInv, TypeOK, NotBegun
<1>2. residual' = Reduce(residual, input.req, Loaded(input.es, {}))
  BY EmptyLoaded
<1>3. residual' \in Residuals
  BY <1>1, <1>2, ReduceClosed
<1>4. TypeOK'
  BY <1>1, <1>3 DEF IInv, TypeOK
<1>5. MeaningKept'
  BY <1>1, <1>2, ReduceSound DEF IInv, MeaningKept
<1>6. OpenUnloaded'
  BY <1>1, <1>2, ReduceProgress DEF OpenUnloaded
<1>7. LoadsPaid'
  BY <1>1, <1>2, OutcomeStable DEF IInv, LoadsPaid
<1>8. StoreLoaded' /\ RequestedLoaded' /\ NotAskedTwice' /\ NotBegun' /\ DoneReason'
  BY <1>1 DEF IInv, StoreLoaded, RequestedLoaded, NotAskedTwice, NotBegun, DoneReason
<1> QED
  BY <1>4, <1>5, <1>6, <1>7, <1>8 DEF IInv

\* One turn of the loop, with the answer of the loader.
LEMMA LoadAndReduceStep ==
    ASSUME IInv, LoadAndReduce
    PROVE  IInv'
<1> USE DEF LoadAndReduce
<1>1. /\ input.req \in Requests /\ input.es \in Stores /\ input.iters \in Nat
      /\ phase = "loop" /\ fuel # 0 /\ residual \in Residuals
      /\ requested \in Seq(SUBSET Uids) /\ DOMAIN store \subseteq Uids
  BY InputType DEF IInv, TypeOK, Continues, Exhausted
<1>2. ToLoad \subseteq Uids /\ ToLoad \cap DOMAIN store = {}
  BY <1>1, LiteralsInUids DEF ToLoad
<1>3. PICK a \in Answers(input.es, ToLoad) :
        /\ store' = Merge(a, store)
        /\ residual' = Reduce(residual, input.req, Merge(a, store))
        /\ phase' = IF IsValue(residual') THEN "done" ELSE "loop"
  OBVIOUS
<1>4. PICK extra \in Extras : a = Loaded(input.es, ToLoad \cup extra)
  BY <1>3 DEF Answers
<1> DEFINE L == ToLoad \cup extra \cup DOMAIN store
<1>5. store' = Loaded(input.es, L) /\ DOMAIN store' = L /\ L \subseteq Uids
  <2>1. store = Loaded(input.es, DOMAIN store)
    BY DEF IInv, StoreLoaded
  <2>2. Merge(a, store) = Loaded(input.es, L)
    BY <1>4, <2>1, MergeLoaded
  <2>3. L \subseteq Uids
    BY <1>1, <1>2, ExtrasType
  <2> QED
    BY <1>3, <2>2, <2>3, LoadedDomain
<1> HIDE DEF L
<1>6. residual' = Reduce(residual, input.req, Loaded(input.es, L)) /\ residual' \in Residuals
  BY <1>1, <1>3, <1>5, ReduceClosed
<1>7. /\ requested' \in Seq(SUBSET Uids)
      /\ Len(requested') = Len(requested) + 1 /\ Len(requested) \in Nat
      /\ DOMAIN requested' = 1 .. Len(requested) + 1 /\ DOMAIN requested = 1 .. Len(requested)
      /\ \A i \in DOMAIN requested : requested'[i] = requested[i]
      /\ requested'[Len(requested) + 1] = ToLoad
  BY <1>1, <1>2, AppendProperties, LenProperties
<1>8. TypeOK'
  <2>1. fuel' \in 0..input.iters /\ Len(requested') + fuel' = input.iters
    BY <1>1, <1>7 DEF IInv, TypeOK
  <2>2. phase' \in {"start", "loop", "done"}
    BY <1>3
  <2> QED
    BY <1>1, <1>5, <1>6, <1>7, <2>1, <2>2 DEF IInv, TypeOK
<1>9. StoreLoaded' /\ NotBegun' /\ DoneReason'
  BY <1>3, <1>5 DEF StoreLoaded, NotBegun, DoneReason
<1>10. MeaningKept'
  BY <1>1, <1>5, <1>6, ReduceSound DEF IInv, MeaningKept
<1>11. OpenUnloaded'
  BY <1>1, <1>5, <1>6, ReduceProgress DEF OpenUnloaded
<1>12. LoadsPaid'
  <2> SUFFICES ASSUME ~Decided(residual')
               PROVE  Len(requested') <= Cardinality(DOMAIN store')
    BY DEF LoadsPaid
  <2>1. ~Decided(residual)
    BY <1>1, <1>5, <1>6, OutcomeStable
  <2>2. PICK u \in ToLoad : u \notin DOMAIN store
    BY <1>1, <2>1 DEF IInv, OpenUnloaded, ToLoad
  <2>3. IsFiniteSet(L) /\ IsFiniteSet(DOMAIN store)
    BY <1>1, <1>5, UidsFinite, FS_Subset
  <2>4. Cardinality(DOMAIN store \cup {u}) = Cardinality(DOMAIN store) + 1
    BY <2>2, <2>3, FS_AddElement
  <2>5. Cardinality(DOMAIN store \cup {u}) <= Cardinality(L)
    BY <2>2, <2>3, FS_Subset DEF L
  <2>6. Cardinality(L) \in Nat /\ Cardinality(DOMAIN store) \in Nat
    BY <2>3, FS_CardinalityType
  <2> QED
    BY <1>5, <1>7, <2>1, <2>4, <2>5, <2>6 DEF IInv, LoadsPaid
<1>13. RequestedLoaded' /\ NotAskedTwice'
  <2>1. \A i \in DOMAIN requested : requested[i] \subseteq DOMAIN store
    BY DEF IInv, RequestedLoaded
  <2>2. \A i \in DOMAIN requested' : requested'[i] \subseteq L
    BY <1>7, <2>1 DEF L
  <2>3. NotAskedTwice'
    <3> SUFFICES ASSUME NEW i \in DOMAIN requested', NEW j \in DOMAIN requested', i # j
                 PROVE  requested'[i] \cap requested'[j] = {}
      BY DEF NotAskedTwice
    <3>1. CASE i \in DOMAIN requested /\ j \in DOMAIN requested
      BY <1>7, <3>1 DEF IInv, NotAskedTwice
    <3>2. CASE i = Len(requested) + 1 /\ j \in DOMAIN requested
      BY <1>2, <1>7, <2>1, <3>2
    <3>3. CASE i \in DOMAIN requested /\ j = Len(requested) + 1
      BY <1>2, <1>7, <2>1, <3>3
    <3> QED
      BY <1>7, <3>1, <3>2, <3>3
  <2> QED
    BY <1>5, <2>2, <2>3 DEF RequestedLoaded
<1> QED
  BY <1>8, <1>9, <1>10, <1>11, <1>12, <1>13 DEF IInv

\* The call ends when the fuel is gone.
LEMMA GiveUpStep ==
    ASSUME IInv, GiveUp
    PROVE  IInv'
<1> USE DEF GiveUp
<1>1. TypeOK'
  BY DEF IInv, TypeOK
<1>2. StoreLoaded' /\ MeaningKept' /\ LoadsPaid' /\ RequestedLoaded' /\ NotAskedTwice'
  BY DEF IInv, StoreLoaded, MeaningKept, LoadsPaid, RequestedLoaded, NotAskedTwice
<1>3. OpenUnloaded' /\ NotBegun' /\ DoneReason'
  BY DEF IInv, OpenUnloaded, NotBegun, DoneReason, Exhausted
<1> QED
  BY <1>1, <1>2, <1>3 DEF IInv

\* A call that has returned stays as it is.
LEMMA StutterStep ==
    ASSUME IInv, UNCHANGED vars
    PROVE  IInv'
  BY DEF vars, IInv, TypeOK, StoreLoaded, MeaningKept, OpenUnloaded, LoadsPaid,
         RequestedLoaded, NotAskedTwice, NotBegun, DoneReason

\* The invariant holds in every reachable state.
THEOREM EvaluationInvariance == Spec => []IInv
<1>1. ASSUME IInv, [Next]_vars
      PROVE  IInv'
  BY <1>1, Evaluate0Step, LoadAndReduceStep, GiveUpStep, StutterStep DEF Next, Returned
<1> QED
  BY <1>1, Initially, PTL DEF Spec

-----------------------------------------------------------------------------
(* The properties. *)

\* Fuel, residual and store stay in range, and every call to the loader costs one unit of fuel.
THEOREM EvaluationTypes == Spec => []TypeOK
<1>1. IInv => TypeOK
  BY DEF IInv
<1> QED
  BY <1>1, EvaluationInvariance, PTL

\* Whatever the loader has answered, the residual means what the expression means on the whole
\* store, and a result is the result there.
THEOREM ResultSound == Spec => []ResultAgrees
<1>1. ASSUME IInv
      PROVE  ResultAgrees
  <2>1. residual \in Residuals /\ input.req \in Requests /\ input.es \in Stores
    BY <1>1, InputType DEF IInv, TypeOK
  <2> QED
    BY <1>1, <2>1, OutcomeSound DEF IInv, MeaningKept, ResultAgrees
<1> QED
  BY <1>1, EvaluationInvariance, PTL

\* A call that returns without a result has loaded an entity for every unit of fuel, and some
\* entity is left: as many iterations as there are entities always give a result.
THEOREM EvaluationConverges == Spec => []Converges
<1>1. ASSUME IInv, phase = "done", ~Decided(residual)
      PROVE  input.iters <= Cardinality(DOMAIN store) /\ DOMAIN store # Uids
  <2>1. /\ residual \in Residuals /\ input.iters \in Nat /\ requested \in Seq(SUBSET Uids)
        /\ Len(requested) + fuel = input.iters
    BY <1>1, InputType DEF IInv, TypeOK
  <2>2. fuel = 0
    BY <1>1, <2>1, ValueDecided DEF IInv, DoneReason
  <2>3. Len(requested) \in Nat
    BY <2>1, LenProperties
  <2>4. DOMAIN store # Uids
    BY <1>1, <2>1, LiteralsInUids DEF IInv, OpenUnloaded
  <2> QED
    BY <1>1, <2>1, <2>2, <2>3, <2>4 DEF IInv, LoadsPaid
<1>2. IInv => Converges
  BY <1>1 DEF Converges
<1> QED
  BY <1>2, EvaluationInvariance, PTL

\* The loader is never asked twice for an entity, and asked for nothing only once the result
\* is there.
THEOREM EvaluationLoads == Spec => []LoaderContract
<1>1. IInv => LoaderContract
  BY DEF IInv, NotAskedTwice, OpenUnloaded, LoaderContract, ToLoad
<1> QED
  BY <1>1, EvaluationInvariance, PTL
=============================================================================
