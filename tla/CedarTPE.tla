------------------------------ MODULE CedarTPE ------------------------------
(***************************************************************************)
(* Typed partial evaluation (Cedar/TPE/{Residual,Evaluator}.lean).         *)
(*                                                                         *)
(* A residual has the shape of an expression, with `lit` for .val and an   *)
(* extra `error` node. Residual types are never read by the evaluator and  *)
(* are left out, so TypedExpr.toResidual maps an expression to itself here. *)
(***************************************************************************)
EXTENDS CedarEvaluator, PartialInput

CONSTANT UidRank   \* uid :> its position in the order of EntityUID

ErrorX == [op |-> "error"]
BoolX(b) == Lit(BoolV(b))

IsVal(r)   == r.op = "lit"
IsError(r) == r.op = "error"
IsBoolVal(r, b) == IsVal(r) /\ r.v = BoolV(b)

-----------------------------------------------------------------------------
(* Data that were loaded. *)

EmptyData == [attrs |-> NoFields, ancestors |-> {}, tags |-> NoFields]

\* MaybeEntityData.asPartial: an entity the store lacks loads as an empty one.
MaybeAsPartial(maybe) == AsPartialData(IF IsSome(maybe) THEN The(maybe) ELSE EmptyData)

-----------------------------------------------------------------------------
(* Which residuals may fail, and which entities a residual mentions. *)

CanError == {"add", "sub", "mul", "getTag", "neg"}

RECURSIVE ErrorFree(_)
ErrorFree(r) ==
    CASE r.op \in {"lit", "var"} -> TRUE
      [] r.op = "binary" -> r.f \notin CanError /\ ErrorFree(r.x) /\ ErrorFree(r.y)
      [] r.op = "unary"  -> r.f \notin CanError /\ ErrorFree(r.x)
      [] r.op \in {"and", "or"} -> ErrorFree(r.x) /\ ErrorFree(r.y)
      [] r.op = "ite" -> ErrorFree(r.c) /\ ErrorFree(r.x) /\ ErrorFree(r.y)
      [] r.op \in {"hasAttr", "like", "is"} -> ErrorFree(r.x)
      [] r.op = "set" -> \A i \in DOMAIN r.xs : ErrorFree(r.xs[i])
      [] r.op = "record" -> \A i \in DOMAIN r.axs : ErrorFree(r.axs[i].x)
      [] r.op \in {"getAttr", "call", "error"} -> FALSE

\* The uids of .val leaves; uids inside set and record values do not count.
RECURSIVE AllLiteralUIDs(_)
AllLiteralUIDs(r) ==
    CASE r.op = "lit" -> IF r.v.t = "uid" THEN {r.v.uid} ELSE {}
      [] r.op \in {"error", "var"} -> {}
      [] r.op = "ite" -> AllLiteralUIDs(r.c) \cup AllLiteralUIDs(r.x) \cup AllLiteralUIDs(r.y)
      [] r.op \in {"and", "or", "binary"} -> AllLiteralUIDs(r.x) \cup AllLiteralUIDs(r.y)
      [] r.op \in {"unary", "like", "is", "getAttr", "hasAttr"} -> AllLiteralUIDs(r.x)
      [] r.op \in {"set", "call"} -> UNION {AllLiteralUIDs(r.xs[i]) : i \in DOMAIN r.xs}
      [] r.op = "record" -> UNION {AllLiteralUIDs(r.axs[i].x) : i \in DOMAIN r.axs}

-----------------------------------------------------------------------------
(* Partial operators, on residuals that are already partially evaluated. *)

\* someOrError on a concrete result.
OkOrError(res) == IF IsErr(res) THEN ErrorX ELSE Lit(res)

VarP(preq, n) ==
    CASE n \in {"principal", "resource"} ->
            LET uid == AsEntityUID(preq[n])
            IN  IF IsSome(uid) THEN Lit(UidV(The(uid))) ELSE Var(n)
      [] n = "action"  -> Lit(UidV(preq.action))
      [] n = "context" -> IF IsSome(preq.context) THEN Lit(RecV(The(preq.context))) ELSE Var(n)

IteP(c, x, y) ==
    CASE IsBoolVal(c, TRUE)  -> x
      [] IsBoolVal(c, FALSE) -> y
      [] IsError(c) -> ErrorX
      [] OTHER -> Ite(c, x, y)

AndP(l, r) ==
    CASE IsBoolVal(l, TRUE)  -> r
      [] IsBoolVal(l, FALSE) -> BoolX(FALSE)
      [] IsError(l) -> ErrorX
      [] OTHER ->
            CASE IsBoolVal(r, TRUE) -> l
              [] IsBoolVal(r, FALSE) /\ ErrorFree(l) -> BoolX(FALSE)
              [] OTHER -> And(l, r)

OrP(l, r) ==
    CASE IsBoolVal(l, TRUE)  -> BoolX(TRUE)
      [] IsBoolVal(l, FALSE) -> r
      [] IsError(l) -> ErrorX
      [] OTHER ->
            CASE IsBoolVal(r, FALSE) -> l
              [] IsBoolVal(r, TRUE) /\ ErrorFree(l) -> BoolX(TRUE)
              [] OTHER -> Or(l, r)

\* apply1 for not, neg, isEmpty and like; `result` is what the operator gives on the value
\* of r, should r be one.
UnaryP(r, self, result) ==
    CASE IsError(r) -> ErrorX
      [] IsVal(r)   -> OkOrError(result)
      [] OTHER      -> self

\* apply1 for `is`: the type of an unknown principal or resource is known.
IsP(r, ety, preq) ==
    IF r.op = "var" /\ r.name \in {"principal", "resource"}
    THEN BoolX(preq[r.name].ty = ety)
    ELSE UnaryP(r, IsX(r, ety), Is(ety, r.v))

\* InEP, InSP, HasTagP: an option of a Boolean.
InEP(u1, u2, pes) ==
    LET anc == Known(pes, u1, "ancestors") IN
    CASE u1 = u2 -> Some(TRUE)
      [] u1 # u2 /\ IsSome(anc) -> Some(u2 \in The(anc))
      [] OTHER -> None

\* anyM takes the elements in the order of uids and stops at the first TRUE or unknown
\* answer: with unknown ancestors only the least element decides.
InSP(u, vs, pes) ==
    LET uids == {v.uid : v \in vs}
        anc  == Known(pes, u, "ancestors")
        least == CHOOSE w \in uids : \A x \in uids : UidRank[w] <= UidRank[x] IN
    IF \E v \in vs : v.t # "uid" THEN None
    ELSE IF vs = {} THEN Some(FALSE)
    ELSE IF IsSome(anc) THEN Some(u \in uids \/ uids \cap The(anc) # {})
    ELSE IF least = u THEN Some(TRUE)
    ELSE None

HasTagP(u, tag, pes) ==
    LET tags == Known(pes, u, "tags") IN
    IF IsSome(tags) THEN Some(tag \in DOMAIN The(tags)) ELSE None

GetTagP(u, tag, pes, self) ==
    LET tags == Known(pes, u, "tags") IN
    IF IsSome(tags) THEN OkOrError(FindOrErr(The(tags), tag, "tagDoesNotExist")) ELSE self

\* someOrSelf for the operators that answer an option of a Boolean.
BoolOrSelf(o, self) == IF IsSome(o) THEN BoolX(The(o)) ELSE self

BinaryP(f, r1, r2, pes) ==
    LET self == Binary(f, r1, r2) IN
    IF ~(IsVal(r1) /\ IsVal(r2))
    THEN IF IsError(r1) \/ IsError(r2) THEN ErrorX ELSE self
    ELSE LET v1 == r1.v  v2 == r2.v IN
    CASE f \in PureOps -> OkOrError(ApplyPure(f, v1, v2))
      [] f = "mem" /\ v1.t = "uid" /\ v2.t = "uid" ->
            BoolOrSelf(InEP(v1.uid, v2.uid, pes), self)
      [] f = "mem" /\ v1.t = "uid" /\ v2.t = "set" ->
            BoolOrSelf(InSP(v1.uid, v2.elts, pes), self)
      [] f = "hasTag" /\ v1.t = "uid" /\ v2.t = "str" ->
            BoolOrSelf(HasTagP(v1.uid, v2.s, pes), self)
      [] f = "getTag" /\ v1.t = "uid" /\ v2.t = "str" -> GetTagP(v1.uid, v2.s, pes, self)
      [] OTHER -> ErrorX

\* attrsOf: the attributes of a record value, or of an entity whose attributes are known.
AttrsOf(r, pes) ==
    CASE IsVal(r) /\ r.v.t = "rec" -> Some(r.v.fields)
      [] IsVal(r) /\ r.v.t = "uid" -> Known(pes, r.v.uid, "attrs")
      [] OTHER -> None

HasAttrP(r, a, pes) ==
    LET m == AttrsOf(r, pes) IN
    CASE IsError(r) -> ErrorX
      [] ~IsError(r) /\ IsSome(m) -> BoolX(a \in DOMAIN The(m))
      [] OTHER -> HasAttrX(r, a)

GetAttrP(r, a, pes) ==
    LET m == AttrsOf(r, pes) IN
    CASE IsError(r) -> ErrorX
      [] ~IsError(r) /\ IsSome(m) -> OkOrError(FindOrErr(The(m), a, "attrDoesNotExist"))
      [] OTHER -> GetAttrX(r, a)

ValuesOf(rs) == [i \in DOMAIN rs |-> rs[i].v]

\* set, record and call: all operands are values, or one is an error, or stay put.
NaryP(rs, self, result) ==
    CASE \A i \in DOMAIN rs : IsVal(rs[i]) -> OkOrError(result)
      [] \E i \in DOMAIN rs : IsError(rs[i]) -> ErrorX
      [] OTHER -> self

RECURSIVE PartialEvaluate(_, _, _)
PartialEvaluate(r, preq, pes) ==
    LET Pe(x) == PartialEvaluate(x, preq, pes) IN
    CASE r.op \in {"lit", "error"} -> r
      [] r.op = "var" -> VarP(preq, r.name)
      [] r.op = "ite" -> IteP(Pe(r.c), Pe(r.x), Pe(r.y))
      [] r.op = "and" -> AndP(Pe(r.x), Pe(r.y))
      [] r.op = "or"  -> OrP(Pe(r.x), Pe(r.y))
      [] r.op = "unary" ->
            LET x == Pe(r.x) IN UnaryP(x, Unary(r.f, x), Apply1(r.f, x.v))
      [] r.op = "like" ->
            LET x == Pe(r.x) IN UnaryP(x, LikeX(x, r.pat), Like(r.pat, x.v))
      [] r.op = "is" -> IsP(Pe(r.x), r.ety, preq)
      [] r.op = "binary"  -> BinaryP(r.f, Pe(r.x), Pe(r.y), pes)
      [] r.op = "hasAttr" -> HasAttrP(Pe(r.x), r.a, pes)
      [] r.op = "getAttr" -> GetAttrP(Pe(r.x), r.a, pes)
      [] r.op = "set" ->
            LET xs == [i \in DOMAIN r.xs |-> Pe(r.xs[i])]
            IN  NaryP(xs, SetX(xs), SetV(ElemsOf(ValuesOf(xs))))
      [] r.op = "record" ->
            LET keys == [i \in DOMAIN r.axs |-> r.axs[i].a]
                xs   == [i \in DOMAIN r.axs |-> Pe(r.axs[i].x)]
            IN  NaryP(xs, RecordX([i \in DOMAIN xs |-> [a |-> keys[i], x |-> xs[i]]]),
                      RecV(MakeMap(keys, ValuesOf(xs))))
      [] r.op = "call" ->
            LET xs == [i \in DOMAIN r.xs |-> Pe(r.xs[i])]
            IN  NaryP(xs, CallX(r.xfn, xs), Call(r.xfn, ValuesOf(xs)))

\* Residual.evaluate: a residual means what the same expression means, an error node fails.
ResidualEvaluate(r, req, es) == Evaluate(r, req, es)

-----------------------------------------------------------------------------
(* Outcomes of policies. *)

ConcreteOutcome(res) ==
    CASE IsErr(res) -> "error"
      [] res = BoolV(TRUE) -> "true"
      [] OTHER -> "false"          \* Spec.satisfied: only `ok true` satisfies

ResidualOutcome(r) ==
    CASE IsError(r) -> "error"
      [] IsBoolVal(r, TRUE) -> "true"
      [] IsBoolVal(r, FALSE) -> "false"
      [] OTHER -> "residual"
=============================================================================
