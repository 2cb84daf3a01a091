--------------------------- MODULE CedarEvaluator ---------------------------
(***************************************************************************)
(* The concrete semantics of Cedar expressions (Cedar/Spec/Evaluator.lean, *)
(* Value.lean, Entities.lean, ExtFun.lean): values, entity lookups, the    *)
(* operators and the recursive interpreter.                                *)
(*                                                                         *)
(* Strings, attributes, tags and entity ids are members of small sets.     *)
(* Integers keep a checked range IntMin..IntMax, which stands for Int64.   *)
(* A `like` pattern is the set of the strings it matches; an extension     *)
(* constructor parses the strings in the domain of ExtLiterals.            *)
(*                                                                         *)
(* Only TLC uses this module: its interpreters are RECURSIVE.              *)
(***************************************************************************)
EXTENDS Integers, Sequences, FiniteSets

CONSTANTS
    IntMin, IntMax,   \* the range of the checked integers
    ExtLiterals       \* string :> integer, the literals the parsers accept

ASSUME IntRange == IntMin \in Int /\ IntMax \in Int /\ IntMin < 0 /\ 0 < IntMax

-----------------------------------------------------------------------------
(* Values and results. A result is a value or an error. *)

BoolV(b) == [t |-> "bool", b |-> b]
IntV(i)  == [t |-> "int", i |-> i]
StrV(s)  == [t |-> "str", s |-> s]
UidV(u)  == [t |-> "uid", uid |-> u]
SetV(S)  == [t |-> "set", elts |-> S]
RecV(m)  == [t |-> "rec", fields |-> m]
ExtV(kind, i) == [t |-> kind, x |-> i]     \* kind: "decimal", "datetime", "duration"
ExtKinds == {"decimal", "datetime", "duration"}
Err(e)   == [t |-> "err", e |-> e]

IsErr(r) == r.t = "err"
TypeErr  == Err("typeError")

\* The monadic bind of Result: an error stops the computation.
Bind(r, F(_)) == IF IsErr(r) THEN r ELSE F(r)

\* Value.asBool through `.as Bool`.
AsBool(r) == IF IsErr(r) \/ r.t = "bool" THEN r ELSE TypeErr

\* Int64.ofInt?, which add?, sub?, mul? and neg? go through.
InRange(n) == n \in IntMin..IntMax

-----------------------------------------------------------------------------
(* Entities: a function from the uids in the store to their data. A missing *)
(* entity has no ancestors, no attributes and no tags for the total views.  *)

NoFields == [a \in {} |-> {}]

AncestorsOrEmpty(es, u) == IF u \in DOMAIN es THEN es[u].ancestors ELSE {}
AttrsOrEmpty(es, u) == IF u \in DOMAIN es THEN es[u].attrs ELSE NoFields
TagsOrEmpty(es, u)  == IF u \in DOMAIN es THEN es[u].tags ELSE NoFields

-----------------------------------------------------------------------------
(* Operators. *)

IntOrErr(n) == IF InRange(n) THEN IntV(n) ELSE Err("arithBoundsError")

Apply1(f, v) ==
    CASE f = "not" /\ v.t = "bool"    -> BoolV(~v.b)
      [] f = "neg" /\ v.t = "int"     -> IntOrErr(-v.i)
      [] f = "isEmpty" /\ v.t = "set" -> BoolV(v.elts = {})
      [] OTHER -> TypeErr

Like(pat, v) == IF v.t = "str" THEN BoolV(v.s \in pat) ELSE TypeErr
Is(ety, v)   == IF v.t = "uid" THEN BoolV(v.uid.ty = ety) ELSE TypeErr

InE(u1, u2, es) == u1 = u2 \/ u2 \in AncestorsOrEmpty(es, u1)

InS(u, vs, es) ==
    IF \A v \in vs : v.t = "uid"
    THEN BoolV(\E v \in vs : InE(u, v.uid, es))
    ELSE TypeErr

FindOrErr(m, k, e) == IF k \in DOMAIN m THEN m[k] ELSE Err(e)

GetTag(u, tag, es) ==
    IF u \in DOMAIN es THEN FindOrErr(es[u].tags, tag, "tagDoesNotExist")
                       ELSE Err("entityDoesNotExist")

\* The operators that read no entity. <, <= compare integers, datetimes and durations.
Comparable(v1, v2) == v1.t = v2.t /\ v1.t \in {"int", "datetime", "duration"}
Magnitude(v) == IF v.t = "int" THEN v.i ELSE v.x

PureOps == {"eq", "less", "lessEq", "add", "sub", "mul",
            "contains", "containsAll", "containsAny"}

ApplyPure(f, v1, v2) ==
    LET ints == v1.t = "int" /\ v2.t = "int"
        sets == v1.t = "set" /\ v2.t = "set" IN
    CASE f = "eq" -> BoolV(v1 = v2)
      [] f = "less"   /\ Comparable(v1, v2) -> BoolV(Magnitude(v1) < Magnitude(v2))
      [] f = "lessEq" /\ Comparable(v1, v2) -> BoolV(Magnitude(v1) <= Magnitude(v2))
      [] f = "add" /\ ints -> IntOrErr(v1.i + v2.i)
      [] f = "sub" /\ ints -> IntOrErr(v1.i - v2.i)
      [] f = "mul" /\ ints -> IntOrErr(v1.i * v2.i)
      [] f = "contains" /\ v1.t = "set" -> BoolV(v2 \in v1.elts)
      [] f = "containsAll" /\ sets -> BoolV(v2.elts \subseteq v1.elts)
      [] f = "containsAny" /\ sets -> BoolV(v1.elts \cap v2.elts # {})
      [] OTHER -> TypeErr

Apply2(f, v1, v2, es) ==
    CASE f \in PureOps -> ApplyPure(f, v1, v2)
      [] f = "mem" /\ v1.t = "uid" /\ v2.t = "uid" -> BoolV(InE(v1.uid, v2.uid, es))
      [] f = "mem" /\ v1.t = "uid" /\ v2.t = "set" -> InS(v1.uid, v2.elts, es)
      [] f = "hasTag" /\ v1.t = "uid" /\ v2.t = "str" ->
            BoolV(v2.s \in DOMAIN TagsOrEmpty(es, v1.uid))
      [] f = "getTag" /\ v1.t = "uid" /\ v2.t = "str" -> GetTag(v1.uid, v2.s, es)
      [] OTHER -> TypeErr

HasAttr(v, a, es) ==
    CASE v.t = "rec" -> BoolV(a \in DOMAIN v.fields)
      [] v.t = "uid" -> BoolV(a \in DOMAIN AttrsOrEmpty(es, v.uid))
      [] OTHER -> TypeErr

GetAttr(v, a, es) ==
    CASE v.t = "rec" -> FindOrErr(v.fields, a, "attrDoesNotExist")
      [] v.t = "uid" /\ v.uid \in DOMAIN es ->
            FindOrErr(es[v.uid].attrs, a, "attrDoesNotExist")
      [] v.t = "uid" /\ v.uid \notin DOMAIN es -> Err("entityDoesNotExist")
      [] OTHER -> TypeErr

\* Extension functions: constructors, decimal order, checked time arithmetic. IP addresses,
\* the other decimal comparisons, and the parts of a datetime or duration are left out.
Call(xfn, vs) ==
    LET Args(kinds) == [i \in DOMAIN vs |-> vs[i].t] = kinds
        Checked(kind, n) == IF InRange(n) THEN ExtV(kind, n) ELSE Err("extensionError") IN
    CASE xfn \in ExtKinds /\ Args(<<"str">>) ->
            IF vs[1].s \in DOMAIN ExtLiterals THEN ExtV(xfn, ExtLiterals[vs[1].s])
                                              ELSE Err("extensionError")
      [] xfn = "lessThan" /\ Args(<<"decimal", "decimal">>) -> BoolV(vs[1].x < vs[2].x)
      [] xfn = "offset" /\ Args(<<"datetime", "duration">>) ->
            Checked("datetime", vs[1].x + vs[2].x)
      [] xfn = "durationSince" /\ Args(<<"datetime", "datetime">>) ->
            Checked("duration", vs[1].x - vs[2].x)
      [] xfn = "toMilliseconds" /\ Args(<<"duration">>) -> IntV(vs[1].x)
      [] OTHER -> TypeErr

-----------------------------------------------------------------------------
(* Expressions are records tagged by "op". *)

Lit(v)        == [op |-> "lit", v |-> v]
Var(n)        == [op |-> "var", name |-> n]
Ite(c, x, y)  == [op |-> "ite", c |-> c, x |-> x, y |-> y]
And(x, y)     == [op |-> "and", x |-> x, y |-> y]
Or(x, y)      == [op |-> "or", x |-> x, y |-> y]
Unary(f, x)   == [op |-> "unary", f |-> f, x |-> x]
LikeX(x, pat) == [op |-> "like", x |-> x, pat |-> pat]
IsX(x, ety)   == [op |-> "is", x |-> x, ety |-> ety]
Binary(f, x, y)  == [op |-> "binary", f |-> f, x |-> x, y |-> y]
HasAttrX(x, a)   == [op |-> "hasAttr", x |-> x, a |-> a]
GetAttrX(x, a)   == [op |-> "getAttr", x |-> x, a |-> a]
SetX(xs)      == [op |-> "set", xs |-> xs]          \* a sequence
RecordX(axs)  == [op |-> "record", axs |-> axs]     \* a sequence of [a, x]
CallX(xfn, xs) == [op |-> "call", xfn |-> xfn, xs |-> xs]

\* mapM over the results of a list: the first error in list order, or the values.
FirstErr(rs) == LET bad == {i \in DOMAIN rs : IsErr(rs[i])}
                IN  rs[CHOOSE i \in bad : \A j \in bad : i <= j]
AllOk(rs) == \A i \in DOMAIN rs : ~IsErr(rs[i])
ElemsOf(s) == {s[i] : i \in DOMAIN s}

\* Map.make: of two pairs with the same key, the one on the left stays.
MakeMap(keys, vals) ==
    [k \in ElemsOf(keys) |->
        vals[CHOOSE i \in DOMAIN keys : keys[i] = k /\ \A j \in 1..i-1 : keys[j] # k]]

VarValue(n, req) == IF n = "context" THEN RecV(req.context) ELSE UidV(req[n])

RECURSIVE Evaluate(_, _, _)
Evaluate(e, req, es) ==
    LET Ev(x) == Evaluate(x, req, es) IN
    CASE e.op = "lit" -> e.v
      [] e.op = "var" -> VarValue(e.name, req)
      [] e.op = "error" -> Err("extensionError")    \* only in residuals
      [] e.op = "ite" -> Bind(AsBool(Ev(e.c)), LAMBDA b : IF b.b THEN Ev(e.x) ELSE Ev(e.y))
      [] e.op = "and" -> Bind(AsBool(Ev(e.x)), LAMBDA b : IF b.b THEN AsBool(Ev(e.y)) ELSE b)
      [] e.op = "or"  -> Bind(AsBool(Ev(e.x)), LAMBDA b : IF b.b THEN b ELSE AsBool(Ev(e.y)))
      [] e.op = "unary" -> Bind(Ev(e.x), LAMBDA v : Apply1(e.f, v))
      [] e.op = "like"  -> Bind(Ev(e.x), LAMBDA v : Like(e.pat, v))
      [] e.op = "is"    -> Bind(Ev(e.x), LAMBDA v : Is(e.ety, v))
      [] e.op = "binary" ->
            Bind(Ev(e.x), LAMBDA v1 : Bind(Ev(e.y), LAMBDA v2 : Apply2(e.f, v1, v2, es)))
      [] e.op = "hasAttr" -> Bind(Ev(e.x), LAMBDA v : HasAttr(v, e.a, es))
      [] e.op = "getAttr" -> Bind(Ev(e.x), LAMBDA v : GetAttr(v, e.a, es))
      [] e.op = "set" ->
            LET rs == [i \in DOMAIN e.xs |-> Ev(e.xs[i])]
            IN  IF AllOk(rs) THEN SetV(ElemsOf(rs)) ELSE FirstErr(rs)
      [] e.op = "record" ->
            LET rs == [i \in DOMAIN e.axs |-> Ev(e.axs[i].x)]
            IN  IF AllOk(rs) THEN RecV(MakeMap([i \in DOMAIN rs |-> e.axs[i].a], rs))
                             ELSE FirstErr(rs)
      [] e.op = "call" ->
            LET rs == [i \in DOMAIN e.xs |-> Ev(e.xs[i])]
            IN  IF AllOk(rs) THEN Call(e.xfn, rs) ELSE FirstErr(rs)
=============================================================================
