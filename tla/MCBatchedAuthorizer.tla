------------------------ MODULE MCBatchedAuthorizer ------------------------
(***************************************************************************)
(* BatchedAuthorizer on the evaluators of CedarTPE and the world of        *)
(* MCCedar: pairs of policies, the fuels of MCFuels, and a loader that     *)
(* may return more than it was asked for.                                  *)
(***************************************************************************)
EXTENDS MCCedar, MCLoading, BatchedAuthorizer

MCDecided(r) == IsBoolVal(r, TRUE) \/ IsBoolVal(r, FALSE) \/ IsError(r)
MCMeaning(r, req, es) == Class(ResidualEvaluate(r, req, es))
MCOutcome(r) == IF IsError(r) THEN "error" ELSE Class(r.v)

\* An attribute the schema does not declare: the typechecker refuses the body.
IllTyped == GetAttrX(R, "colour")
MCAccepts(b, req) == b # IllTyped /\ req # WrongRequest

\* (AllResiduals and AllPolicyLists are named so that TLC evaluates them once.)
AllResiduals == ReducedBy(ReducedBy(MCBodies \cup {IllTyped}))
MCResiduals == AllResiduals

Body(i, e, b) == [id |-> i, effect |-> e, body |-> b]
MCPolicyIDs == {"p1", "p2", "p3"}
Forbidding == {GhostAdmin, InStaff, BossBoss}
AllPolicyLists ==
    {<<>>, <<Body("p1", "permit", InStaff), Body("p2", "forbid", IllTyped)>>}
    \cup {<<Body("p1", "permit", b), Body("p2", "forbid", c)>> :
            b \in MCBodies, c \in Forbidding}
    \cup {<<Body("p1", "permit", OwnerAdmin), Body("p2", "permit", b),
            Body("p2", "forbid", b)>> : b \in {MateAdmin, AgeOverflow, SetContains}}
MCPolicyLists == AllPolicyLists
MCFuels == {0, 1, 2, 6}
=============================================================================
