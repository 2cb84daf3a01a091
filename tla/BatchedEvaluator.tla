-------------------------- MODULE BatchedEvaluator --------------------------
(***************************************************************************)
(* batchedEvaluate (Cedar/TPE/BatchedEvaluator.lean): evaluate a single    *)
(* expression with an entity loader. Unlike the authorization loop it      *)
(* stops on a value only: a residual that is an error keeps it calling the *)
(* loader, with nothing to ask for, until the fuel is gone; and a value    *)
(* found before the loop still costs one call.                             *)
(***************************************************************************)
EXTENDS EntityLoading

CONSTANTS
    Exprs,            \* the typed expressions, as residuals
    IsValue(_),       \* the residual is a .val
    Fuels             \* the iteration limits a caller may give

ASSUME FuelsType  == Fuels \subseteq Nat
ASSUME ExprsType  == Exprs \subseteq Residuals
ASSUME ValueDecided == \A r \in Residuals : IsValue(r) => Decided(r)

VARIABLES
    input,      \* the arguments, and the store behind the loader
    phase,      \* "start", "loop" or "done"
    residual,
    store,      \* the partial entities loaded so far
    fuel,       \* iterations left
    requested   \* what the loader was asked for, call by call (history)

vars == <<input, phase, residual, store, fuel, requested>>

EmptyStore == [u \in {} |-> {}]
Inputs == [expr : Exprs, req : Requests, es : Stores, iters : Fuels]

Init ==
    /\ input \in Inputs
    /\ phase = "start"
    /\ residual = input.expr
    /\ store = EmptyStore
    /\ fuel = input.iters
    /\ requested = <<>>

-----------------------------------------------------------------------------

Evaluate0 ==
    /\ phase = "start"
    /\ phase' = "loop"
    /\ residual' = Reduce(residual, input.req, EmptyStore)
    /\ UNCHANGED <<input, store, fuel, requested>>

\* Mutation of ToLoad: entities that are loaded are asked for again.
ToLoadAgain == Literals(residual)

ToLoad == Literals(residual) \ DOMAIN store

\* Mutations of Exhausted: the last unit of fuel is never spent; the match misses 0.
ExhaustedEarly == fuel <= 1
ExhaustedLate == fuel < 0

\* The `0` case of the match on the fuel.
Exhausted == fuel = 0

\* Mutation of Continues: the loop waits for something to ask for.
ContinuesWithNew == phase = "loop" /\ ~Exhausted /\ ToLoad # {}

\* Only the fuel is asked: a residual that can no longer change is no reason to stop.
Continues == phase = "loop" /\ ~Exhausted

\* The `n + 1` case; the residual is matched after the load.
LoadAndReduce ==
    /\ Continues
    /\ \E a \in Answers(input.es, ToLoad) :
        LET after == Reduce(residual, input.req, Merge(a, store)) IN
        /\ store' = Merge(a, store)
        /\ residual' = after
        /\ phase' = IF IsValue(after) THEN "done" ELSE "loop"
    /\ requested' = Append(requested, ToLoad)
    /\ fuel' = fuel - 1
    /\ UNCHANGED input

\* The `0` case.
GiveUp ==
    /\ phase = "loop"
    /\ Exhausted
    /\ phase' = "done"
    /\ UNCHANGED <<input, residual, store, fuel, requested>>

Returned == phase = "done" /\ UNCHANGED vars

Next == Evaluate0 \/ LoadAndReduce \/ GiveUp \/ Returned

Spec == Init /\ [][Next]_vars /\ WF_vars(Next)

-----------------------------------------------------------------------------
(* Properties. *)

TypeOK ==
    /\ input \in Inputs
    /\ phase \in {"start", "loop", "done"}
    /\ residual \in Residuals
    /\ DOMAIN store \subseteq Uids
    /\ fuel \in 0..input.iters
    /\ requested \in Seq(SUBSET Uids)
    /\ Len(requested) + fuel = input.iters

\* Whatever was loaded, the residual still means what the expression means on the whole
\* store: a value returned is its value, an error returned is an error there.
ResultAgrees ==
    /\ Meaning(residual, input.req, input.es) = Meaning(input.expr, input.req, input.es)
    /\ Decided(residual) => Outcome(residual) = Meaning(input.expr, input.req, input.es)

\* A call returns without a result only when the fuel was short: each unit bought an entity,
\* and some entity is still not loaded.
Converges ==
    phase = "done" /\ ~Decided(residual) =>
        input.iters <= Cardinality(DOMAIN store) /\ DOMAIN store # Uids

\* The loader is never asked twice for an entity, and asked for nothing only when the
\* result is there already.
LoaderContract ==
    /\ \A i, j \in DOMAIN requested : i # j => requested[i] \cap requested[j] = {}
    /\ phase # "start" /\ ToLoad = {} => Decided(residual)

\* The call returns.
Returns == <>(phase = "done")
=============================================================================
