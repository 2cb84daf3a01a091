------------------------ MODULE MCPartialAuthorizer ------------------------
(***************************************************************************)
(* PartialAuthorizer on the evaluators of CedarTPE and the world of        *)
(* MCCedar: a store where alice works for bob, one where she is her own    *)
(* boss, one where bob is gone, one that does not fit the schema, a        *)
(* request by somebody else, one whose context does not fit, and one by a  *)
(* principal of a type the action does not apply to.                       *)
(***************************************************************************)
EXTENDS MCCedar, PartialAuthorizer

MCReduce(r, preq, pes) == PartialEvaluate(r, preq, pes)
MCFiledAs(r) == ResidualOutcome(r)
MCMeaning(r, req, es) == ConcreteOutcome(ResidualEvaluate(r, req, es))

OnChain == [req |-> MCRequest, es |-> ChainStore]
OnSelf  == [req |-> MCRequest, es |-> SelfStore]
ByBob   == [req |-> [MCRequest EXCEPT !.principal = bob], es |-> ChainStore]
ByDoc   == [req |-> [MCRequest EXCEPT !.principal = doc], es |-> ChainStore]
NoPeer  == [req |-> [MCRequest EXCEPT !.context = NoFields], es |-> ChainStore]
Gone    == [req |-> MCRequest, es |-> [u \in DOMAIN ChainStore \ {bob} |-> ChainStore[u]]]
Unfit   == [req |-> MCRequest,
            es |-> [ChainStore EXCEPT ![bob].attrs = "admin" :> IntV(1)]]
MCWorlds == {OnChain, OnSelf, ByBob, ByDoc, NoPeer, Gone, Unfit}

\* The schema: users read documents, with a peer in the context.
MCHasEnvironment(preq) ==
    preq.principal.ty = "User" /\ preq.action = read /\ preq.resource.ty = "Doc"
ContextFits(context) == DOMAIN context = {"peer"} /\ context["peer"].t = "uid"
MCRequestValid(preq) == IsSome(preq.context) => ContextFits(The(preq.context))
MCRequestFits(req, preq) ==
    /\ req.principal.ty = preq.principal.ty /\ req.resource.ty = preq.resource.ty
    /\ req.action = preq.action
    /\ ContextFits(req.context)

AttrsFit(u, attrs) ==
    u.ty = "User" => {"admin", "age"} \subseteq DOMAIN attrs /\ attrs["admin"].t = "bool"
MCEntitiesFit(es) == \A u \in DOMAIN es : AttrsFit(u, es[u].attrs)
MCEntitiesValid(pes) == \A u \in DOMAIN pes : IsSome(pes[u].attrs) => AttrsFit(u, The(pes[u].attrs))

\* An attribute the schema does not declare.
IllTyped == GetAttrX(R, "colour")
MCTypeChecks(b, preq) == b # IllTyped
AllBodies == MCBodies \cup {IllTyped}

\* What can be known: nothing, the request, some entities in part, everything.
Whole(U0) == U0 \X {"attrs", "ancestors", "tags"}
Asked == {"principal", "resource", "context"}
MCMasks ==
    {[req |-> {}, ents |-> {}],
     [req |-> {"principal"}, ents |-> {}],
     [req |-> {"resource", "context"}, ents |-> {<<doc, "attrs">>}],
     [req |-> {}, ents |-> Whole({bob}) \cup {<<doc, "attrs">>}],
     [req |-> Asked, ents |-> {<<alice, "tags">>, <<alice, "attrs">>}],
     [req |-> Asked, ents |-> Whole({doc, bob})],
     [req |-> Asked, ents |-> Whole({alice, bob, doc, staff})]}

Body(i, e, b) == [id |-> i, effect |-> e, body |-> b]
MCPolicyIDs == {"p1", "p2"}
AllPolicyLists ==
    {<<>>, <<Body("p1", "permit", InStaff), Body("p2", "forbid", IllTyped)>>}
    \cup {<<Body("p1", "permit", b), Body("p2", "forbid", c)>> :
            b \in MCBodies, c \in {PeerAdmin, InStaff, GhostAdmin}}
    \cup {<<Body("p1", "permit", BoolX(TRUE)), Body(p, "forbid", b)>> :
            p \in {"p1", "p2"}, b \in MCBodies}
MCPolicyLists == AllPolicyLists
=============================================================================
