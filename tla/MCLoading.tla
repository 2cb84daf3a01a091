----------------------------- MODULE MCLoading -----------------------------
(***************************************************************************)
(* The loader and the partial evaluator of the batched modules, on the     *)
(* evaluators of CedarTPE and the world of MCCedar. The loader may answer  *)
(* more than it was asked for.                                             *)
(***************************************************************************)
EXTENDS MCCedar

Maybe(es, u) == IF u \in DOMAIN es THEN Some(es[u]) ELSE None
MCFetch(es, u) == MaybeAsPartial(Maybe(es, u))
MCLiterals(r) == AllLiteralUIDs(r)
MCReduce(r, req, pes) == PartialEvaluate(r, AsPartialRequest(req), pes)
MCExtras == {{}, {staff, bob}, MCUids}

\* A principal that is in no store, and one of a type the action does not apply to.
GhostRequest == [MCRequest EXCEPT !.principal = ghost]
WrongRequest == [MCRequest EXCEPT !.principal = doc]
MCRequests == {MCRequest, GhostRequest, WrongRequest}

\* Everything a partial evaluation makes of the residuals S.
ReducedBy(S) ==
    S \cup {MCReduce(r, req, [u \in L |-> MCFetch(es, u)]) :
                r \in S, req \in MCRequests, es \in MCStores, L \in SUBSET MCUids}
=============================================================================
