---------------------------- MODULE EntityLoading ----------------------------
(***************************************************************************)
(* What batched evaluation assumes of its surroundings                     *)
(* (Cedar/TPE/BatchedEvaluator.lean): an entity loader in front of a       *)
(* backing store, and a partial evaluator for residuals.                   *)
(*                                                                         *)
(* The partial evaluator and the concrete one are constants here, with the *)
(* assumptions the loop relies on, so that what is proved holds for every  *)
(* evaluator that meets them. MCLoading gives them the definitions of      *)
(* CedarTPE and TLC evaluates the assumptions on those.                    *)
(***************************************************************************)
EXTENDS Naturals, Sequences, FiniteSets

CONSTANTS
    Uids,             \* the entity uids of the instance
    Extras,           \* sets of uids a loader may answer beyond those it was asked for
    Stores,           \* the backing stores
    Requests,         \* the concrete requests
    Residuals,        \* the residuals that can arise
    Fetch(_, _),      \* Fetch(es, u): partial data of u, empty data when es lacks u
    Literals(_),      \* Residual.allLiteralUIDs
    Reduce(_, _, _),  \* TPE.evaluate residual request.asPartialRequest partialStore
    Decided(_),       \* the residual is a value or an error
    Outcome(_),       \* the result a decided residual stands for
    Meaning(_, _, _)  \* what Residual.evaluate gives under a request and a full store

ASSUME UidsFinite == IsFiniteSet(Uids)
ASSUME ExtrasType == Extras \subseteq SUBSET Uids

\* The part of the backing store es that is loaded for the uids U.
Loaded(es, U) == [u \in U |-> Fetch(es, u)]

\* newEntities ++ store: Map.make keeps the left entry of a repeated key.
Merge(new, old) ==
    [u \in DOMAIN new \cup DOMAIN old |-> IF u \in DOMAIN new THEN new[u] ELSE old[u]]

\* Mutation of Answers: the data of all the uids are taken from one of them.
AnswersMixed(es, U) ==
    {[u \in U \cup extra |-> Fetch(es, CHOOSE v \in U \cup extra : TRUE)] : extra \in Extras}

\* The answers of a loader to the request for U: every uid of U, and maybe more.
Answers(es, U) == {Loaded(es, U \cup extra) : extra \in Extras}

ASSUME LiteralsInUids == \A r \in Residuals : Literals(r) \subseteq Uids

ASSUME ReduceClosed ==
    \A r \in Residuals, req \in Requests, es \in Stores, U \in SUBSET Uids :
        Reduce(r, req, Loaded(es, U)) \in Residuals

\* Partial evaluation keeps the meaning of a residual.
ASSUME ReduceSound ==
    \A r \in Residuals, req \in Requests, es \in Stores, U \in SUBSET Uids :
        Meaning(Reduce(r, req, Loaded(es, U)), req, es) = Meaning(r, req, es)

\* A residual that is decided means its outcome, and partial evaluation leaves it alone.
ASSUME OutcomeSound ==
    \A r \in Residuals, req \in Requests, es \in Stores :
        Decided(r) => Outcome(r) = Meaning(r, req, es)
ASSUME OutcomeStable ==
    \A r \in Residuals, req \in Requests, es \in Stores, U \in SUBSET Uids :
        Decided(r) => Decided(Reduce(r, req, Loaded(es, U)))

\* A residual still open after a partial evaluation mentions an entity that was not loaded.
ASSUME ReduceProgress ==
    \A r \in Residuals, req \in Requests, es \in Stores, U \in SUBSET Uids :
        LET x == Reduce(r, req, Loaded(es, U)) IN
        ~Decided(x) => ~(Literals(x) \subseteq U)
=============================================================================
