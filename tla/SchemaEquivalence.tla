--------------------------- MODULE SchemaEquivalence ---------------------------
(***************************************************************************)
(* When the round-trip targets take two schema fragments for equivalent    *)
(* (cedar-drt/fuzz/src/schemas.rs). A fragment that was printed and parsed *)
(* again is rarely the same value: the parser cannot tell an entity type   *)
(* from a common type, and some actions cannot be written as they were. So *)
(* the targets compare with an equivalence of their own, and what it       *)
(* accepts wrongly no round trip will ever find.                           *)
(*                                                                         *)
(* A type is <<"long">>, <<"set", t>>, <<"record", attributes>>,           *)
(* <<"entity", name>>, <<"common", name>>, or <<"either", name>> for what  *)
(* the parser makes of a name. Annotations are left out.                   *)
(***************************************************************************)
EXTENDS Sequences, FiniteSets

CONSTANT Fragments \* functions from names of namespaces, "" for none, to namespaces

VARIABLES
    left_fragment,  \* a fragment
    right_fragment, \* the fragment it became
    equivalence     \* "unknown", "equivalent" or "different"

equivalenceVars == <<left_fragment, right_fragment, equivalence>>

\* The names of the base types in the namespace __cedar.
InternalName == [long |-> "__cedar::Long", string |-> "__cedar::String"]

IsKind(t, kind) == t[1] = kind

\* The cases of two types of different kinds, in one order.
NamesType(name, t) ==
    IF t[1] \in {"entity", "common"} THEN t[2] = name
    ELSE t[1] \in DOMAIN InternalName /\ InternalName[t[1]] = name

\* Equiv for Type and TypeVariant, and for the types of attributes.
RECURSIVE EquivTypes(_, _)
EquivTypes(l, r) ==
    \/ /\ IsKind(l, "record") /\ IsKind(r, "record")
       /\ DOMAIN l[2] = DOMAIN r[2]
       /\ \A a \in DOMAIN l[2] : /\ l[2][a].required = r[2][a].required
                                 /\ EquivTypes(l[2][a].ty, r[2][a].ty)
    \/ IsKind(l, "set") /\ IsKind(r, "set") /\ EquivTypes(l[2], r[2])
    \/ IsKind(l, "either") /\ ~IsKind(r, "either") /\ NamesType(l[2], r)
    \/ IsKind(r, "either") /\ ~IsKind(l, "either") /\ NamesType(r[2], l)
    \/ l[1] = r[1] /\ l[1] \notin {"record", "set"} /\ l = r

AsSet(list) == {list[i] : i \in DOMAIN list}

\* Equiv for EntityType: the parents as sets, the choices of an enumerated type in their order.
EquivEntityTypes(l, r) ==
    /\ l.kind = r.kind
    /\ l.kind = "enum" => l.choices = r.choices
    /\ l.kind = "standard" => /\ AsSet(l.memberOf) = AsSet(r.memberOf)
                              /\ EquivTypes(l.shape, r.shape)
                              /\ DOMAIN l.tags = DOMAIN r.tags
                              /\ \A i \in DOMAIN l.tags : EquivTypes(l.tags[i], r.tags[i])

\* either_empty
EitherEmpty(spec) == spec.principals = <<>> \/ spec.resources = <<>>

\* Mutation of EquivApplies: one side that applies to nothing is enough.
EquivAppliesLoose(l, r) ==
    \/ l = <<>> /\ r = <<>>
    \/ \E spec \in AsSet(l) \cup AsSet(r) : EitherEmpty(spec)
    \/ /\ l # <<>> /\ r # <<>>
       /\ EquivTypes(l[1].context, r[1].context)
       /\ AsSet(l[1].principals) = AsSet(r[1].principals)
       /\ AsSet(l[1].resources) = AsSet(r[1].resources)

\* The applies_to of two actions, each a list with one ApplySpec or none.
EquivApplies(l, r) ==
    \/ \A spec \in AsSet(l) \cup AsSet(r) : EitherEmpty(spec)
    \/ /\ l # <<>> /\ r # <<>>
       /\ EquivTypes(l[1].context, r[1].context)
       /\ AsSet(l[1].principals) = AsSet(r[1].principals)
       /\ AsSet(l[1].resources) = AsSet(r[1].resources)

\* Equiv for ActionType: no groups are as good as an empty list of them.
EquivActions(l, r) == l.memberOf = r.memberOf /\ EquivApplies(l.appliesTo, r.appliesTo)

\* Equiv for NamespaceDefinition, and for the maps in it.
EquivNamespaces(l, r) ==
    /\ DOMAIN l.entityTypes = DOMAIN r.entityTypes
    /\ \A n \in DOMAIN l.entityTypes : EquivEntityTypes(l.entityTypes[n], r.entityTypes[n])
    /\ DOMAIN l.commonTypes = DOMAIN r.commonTypes
    /\ \A n \in DOMAIN l.commonTypes : EquivTypes(l.commonTypes[n], r.commonTypes[n])
    /\ DOMAIN l.actions = DOMAIN r.actions
    /\ \A n \in DOMAIN l.actions : EquivActions(l.actions[n], r.actions[n])

\* nontrivial_namespaces: all but an empty one without a name.
Trivial(ns) == DOMAIN ns.entityTypes \cup DOMAIN ns.commonTypes \cup DOMAIN ns.actions = {}
Nontrivial(f) == {n \in DOMAIN f : n # "" \/ ~Trivial(f[n])}

\* equivalence_check
EquivalenceCheck(l, r) ==
    /\ Cardinality(Nontrivial(l)) = Cardinality(Nontrivial(r))
    /\ \A n \in Nontrivial(l) : n \in DOMAIN r /\ EquivNamespaces(l[n], r[n])

-----------------------------------------------------------------------------
(* A target: two fragments, one comparison *)

EquivalenceInit ==
    /\ left_fragment \in Fragments /\ right_fragment \in Fragments
    /\ equivalence = "unknown"

CompareFragments ==
    /\ equivalence = "unknown"
    /\ equivalence' = IF EquivalenceCheck(left_fragment, right_fragment) THEN "equivalent" ELSE "different"
    /\ UNCHANGED <<left_fragment, right_fragment>>

EquivalenceNext == CompareFragments

EquivalenceSpec == EquivalenceInit /\ [][EquivalenceNext]_equivalenceVars

-----------------------------------------------------------------------------
(* Properties *)

EquivalenceTypes ==
    /\ left_fragment \in Fragments /\ right_fragment \in Fragments
    /\ equivalence \in {"unknown", "equivalent", "different"}

\* The type that is meant by a type in a namespace: a name the parser could not decide is a
\* common type if there is one, then a base type, then an entity type.
RECURSIVE Meant(_, _)
Meant(ns, t) ==
    CASE IsKind(t, "set") -> <<"set", Meant(ns, t[2])>>
      [] IsKind(t, "record") ->
            <<"record", [a \in DOMAIN t[2] |-> <<t[2][a].required, Meant(ns, t[2][a].ty)>>]>>
      [] t[1] \in {"common", "either"} /\ t[2] \in DOMAIN ns.commonTypes ->
            Meant(ns, ns.commonTypes[t[2]])
      [] IsKind(t, "either") /\ \E b \in DOMAIN InternalName : InternalName[b] = t[2] ->
            <<CHOOSE b \in DOMAIN InternalName : InternalName[b] = t[2]>>
      [] t[1] \in {"entity", "either"} ->
            IF t[2] \in DOMAIN ns.entityTypes THEN <<"entity", t[2]>> ELSE <<"undeclared">>
      [] IsKind(t, "common") -> <<"undeclared">>
      [] OTHER -> t

\* The requests an action is for, with the type of their context.
Environments(ns, action) ==
    {<<p, r, Meant(ns, action.appliesTo[i].context)>> :
        <<i, p, r>> \in {<<1, q, s>> : q \in UNION {AsSet(spec.principals) : spec \in AsSet(action.appliesTo)},
                                       s \in UNION {AsSet(spec.resources) : spec \in AsSet(action.appliesTo)}}}

\* What the validator makes of a namespace.
Meaning(ns) ==
    [entityTypes |-> [n \in DOMAIN ns.entityTypes |->
        LET e == ns.entityTypes[n] IN
        IF e.kind = "enum" THEN <<"enum", AsSet(e.choices)>>
        ELSE <<AsSet(e.memberOf), Meant(ns, e.shape), [i \in DOMAIN e.tags |-> Meant(ns, e.tags[i])]>>],
     actions |-> [n \in DOMAIN ns.actions |->
        <<AsSet(ns.actions[n].memberOf), Environments(ns, ns.actions[n])>>]]

\* No entity type and common type have the same name: such a fragment is not printed.
NoCollisions(f) == \A n \in DOMAIN f : DOMAIN f[n].entityTypes \cap DOMAIN f[n].commonTypes = {}

\* Two fragments that are taken for equivalent mean the same to the validator, namespace by
\* namespace, however the names and the empty lists in them are written, if no name stands
\* for two types; a fragment is always equivalent to itself, and which of the two was parsed
\* makes no difference.
EquivalenceMeans ==
    /\ equivalence = "equivalent" /\ NoCollisions(left_fragment) /\ NoCollisions(right_fragment) =>
          /\ Nontrivial(left_fragment) = Nontrivial(right_fragment)
          /\ \A n \in Nontrivial(left_fragment) : Meaning(left_fragment[n]) = Meaning(right_fragment[n])
    /\ equivalence = "different" =>
          /\ left_fragment # right_fragment
          /\ ~EquivalenceCheck(right_fragment, left_fragment)
=============================================================================
