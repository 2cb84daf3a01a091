------------------------- MODULE MCBatchedEvaluator -------------------------
(***************************************************************************)
(* BatchedEvaluator on the evaluators of CedarTPE and the world of         *)
(* MCCedar: the policy bodies, and expressions of other types.             *)
(***************************************************************************)
EXTENDS MCCedar, MCLoading, BatchedEvaluator

MCDecided(r) == IsVal(r) \/ IsError(r)
MCIsValue(r) == IsVal(r)
\* The value, or the fact that there is none: residuals do not keep the kind of an error.
Result(res) == IF IsErr(res) THEN Err("error") ELSE res
MCMeaning(r, req, es) == Result(ResidualEvaluate(r, req, es))
MCOutcome(r) == IF IsError(r) THEN Err("error") ELSE r.v

MCExprs == MCBodies \cup {Owner, Binary("add", Age(Owner), IntX(1)), SetX(<<Owner, P>>),
                          And(HasBoss(P), HasBoss(BossOf(P))), BossOf(BossOf(P))}
AllResiduals == ReducedBy(ReducedBy(ReducedBy(MCExprs)))
MCResiduals == AllResiduals
MCFuels == {0, 1, 2, 6}
=============================================================================
