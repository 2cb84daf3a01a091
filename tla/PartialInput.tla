---------------------------- MODULE PartialInput ----------------------------
(***************************************************************************)
(* What a caller of TPE may know of a request and of the entities          *)
(* (Cedar/TPE/Input.lean), and when a concrete request and store fit what  *)
(* was known.                                                              *)
(*                                                                         *)
(* An option is a sequence of length at most one. Partial entities:        *)
(* uid :> [attrs, ancestors, tags], each an option. A partial request:     *)
(* principal and resource are [ty, eid] with eid an option, action a uid,  *)
(* context an option.                                                      *)
(***************************************************************************)

None    == <<>>
Some(x) == <<x>>
IsSome(o) == o # None
The(o)  == o[1]

AsPartialRequest(req) ==
    [principal |-> [ty |-> req.principal.ty, eid |-> Some(req.principal.eid)],
     action    |-> req.action,
     resource  |-> [ty |-> req.resource.ty, eid |-> Some(req.resource.eid)],
     context   |-> Some(req.context)]

\* PartialEntityUID.asEntityUID
AsEntityUID(p) == IF IsSome(p.eid) THEN Some([ty |-> p.ty, eid |-> The(p.eid)]) ELSE None

Parts == {"attrs", "ancestors", "tags"}

AsPartialData(d) ==
    [attrs |-> Some(d.attrs), ancestors |-> Some(d.ancestors), tags |-> Some(d.tags)]

\* PartialEntities.get: an option, absent when the entity or its component is unknown.
Known(pes, u, part) == IF u \in DOMAIN pes THEN pes[u][part] ELSE None

-----------------------------------------------------------------------------
(* The comparisons of isValidAndConsistent. *)

\* Mutation of PartialIsValid: an unknown component does not match anything.
PartialIsValidStrict(o, x) == o = Some(x)

\* partialIsValid o (. = x)
PartialIsValid(o, x) == IsSome(o) => The(o) = x

RequestConsistent(req, preq) ==
    /\ PartialIsValid(AsEntityUID(preq.principal), req.principal)
    /\ req.action = preq.action
    /\ PartialIsValid(AsEntityUID(preq.resource), req.resource)
    /\ PartialIsValid(preq.context, req.context)

\* Mutation of EntitiesConsistent: an entity that is gone matches what was shown of it.
EntitiesConsistentGone(es, pes) ==
    \A u \in DOMAIN pes \cap DOMAIN es : \A p \in Parts : PartialIsValid(pes[u][p], es[u][p])

EntitiesConsistent(es, pes) ==
    \A u \in DOMAIN pes : u \in DOMAIN es /\ \A p \in Parts : PartialIsValid(pes[u][p], es[u][p])

-----------------------------------------------------------------------------
(* Refinement, by what is known and not by how it is checked: a request    *)
(* and a store refine the partial ones when every known part of these is a *)
(* part of those (RequestAndEntitiesRefine, Cedar/Thm/TPE/Input.lean).     *)

UidRefines(uid, p) == uid.ty = p.ty /\ p.eid \in {None, Some(uid.eid)}

RequestRefines(req, preq) ==
    /\ UidRefines(req.principal, preq.principal) /\ UidRefines(req.resource, preq.resource)
    /\ req.action = preq.action
    /\ preq.context \in {None, Some(req.context)}

EntitiesRefine(es, pes) ==
    \A u \in DOMAIN pes : u \in DOMAIN es /\ \A p \in Parts : pes[u][p] \in {None, Some(es[u][p])}

\* pes2 shows all that pes1 shows, and preq2 all that preq1 shows.
ShowsMore(preq2, pes2, preq1, pes1) ==
    /\ \A r \in {"principal", "resource"} :
            preq2[r].ty = preq1[r].ty
            /\ (IsSome(preq1[r].eid) => preq2[r].eid = preq1[r].eid)
    /\ preq2.action = preq1.action
    /\ IsSome(preq1.context) => preq2.context = preq1.context
    /\ \A u \in DOMAIN pes1 : u \in DOMAIN pes2
            /\ \A p \in Parts : IsSome(pes1[u][p]) => pes2[u][p] = pes1[u][p]
=============================================================================
