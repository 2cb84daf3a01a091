------------------------------ MODULE CommonTypes ------------------------------
(***************************************************************************)
(* Schema::add_common_types of the input generators                        *)
(* (cedar-policy-generators/src/schema.rs): some of the types of a schema  *)
(* are bound to names, and the schema is rewritten to use the names, in a  *)
(* way that must mean the same to the validator. The target                *)
(* common-type-resolution compares the two schemas.                        *)
(*                                                                         *)
(* A type is <<"long">>, <<"set", t>>, <<"record", t>> with one attribute, *)
(* or <<"ref", name>>. A name is what was drawn and how many times "___"   *)
(* was put after it.                                                       *)
(***************************************************************************)
EXTENDS Integers, Sequences, FiniteSets

CONSTANTS
    AttributeTypes, \* the lists of attribute types a schema may have
    DrawnNames      \* the names that are drawn

VARIABLES
    attributes,  \* the attribute types: each is the attribute of one entity type or context
    unbound,     \* the types bind_type has yet to look at, in order
    bindings,    \* the names of each type that has some, in order
    commonTypes, \* the common types made so far
    rewritten,   \* the entity types and contexts rewritten so far
    commonStage  \* "bind", "define", "rewrite" or "made"

commonVars == <<attributes, unbound, bindings, commonTypes, rewritten, commonStage>>

IsSet(t) == t[1] = "set"
IsRecord(t) == t[1] = "record"

CommonInit ==
    /\ attributes \in AttributeTypes
    /\ unbound = attributes
    /\ bindings = << >> /\ commonTypes = << >> /\ rewritten = <<>>
    /\ commonStage = "bind"

BoundIds(t) == IF t \in DOMAIN bindings THEN bindings[t] ELSE <<>>
AllIds == UNION {{bindings[t][i] : i \in DOMAIN bindings[t]} : t \in DOMAIN bindings}

\* "___" is put after a name until it is a new one.
NewId(name) ==
    LET Longer(k) == <<name[1], name[2] + k>>
        k == CHOOSE n \in 0..Cardinality(AllIds) :
                 /\ Longer(n) \notin AllIds
                 /\ \A m \in 0..(n - 1) : Longer(m) \in AllIds
    IN  Longer(k)

\* add_binding, where the names of a type are a list.
AddBinding(t, name) ==
    [s \in DOMAIN bindings \cup {t} |-> IF s = t THEN Append(BoundIds(t), NewId(name)) ELSE bindings[s]]

\* bind_type: a coin for the type itself, then its element or attribute.
BindType ==
    /\ commonStage = "bind" /\ unbound # <<>>
    /\ LET t == Head(unbound) IN
       /\ \/ UNCHANGED bindings
          \/ \E name \in DrawnNames : bindings' = AddBinding(t, name)
       /\ unbound' = IF IsSet(t) \/ IsRecord(t) THEN <<t[2]>> \o Tail(unbound) ELSE Tail(unbound)
    /\ UNCHANGED <<attributes, commonTypes, rewritten, commonStage>>

TypesBound ==
    /\ commonStage = "bind" /\ unbound = <<>>
    /\ commonStage' = "define"
    /\ UNCHANGED <<attributes, unbound, bindings, commonTypes, rewritten>>

\* rewrite_type: the element of a set becomes one of its names if it has any. The attribute of
\* a record is not looked up itself.
RECURSIVE Rewritings(_)
Rewritings(t) ==
    IF IsSet(t)
    THEN IF t[2] \in DOMAIN bindings
         THEN {<<"set", <<"ref", bindings[t[2]][i]>>>> : i \in DOMAIN bindings[t[2]]}
         ELSE {<<"set", r>> : r \in Rewritings(t[2])}
    ELSE IF IsRecord(t) THEN {<<"record", r>> : r \in Rewritings(t[2])} ELSE {t}

\* rewrite_record_type: the whole type is looked up first.
RecordRewritings(t) ==
    IF t \in DOMAIN bindings THEN {<<"ref", bindings[t][i]>> : i \in DOMAIN bindings[t]}
                             ELSE Rewritings(t)

\* Mutation of LastOf: the last name of a type may stand for one of its names.
LastOfItself(t) == RecordRewritings(t)

\* What the last name of a type stands for.
LastOf(t) == Rewritings(t)

\* The types that have a name, and no common type yet.
Undefined == {t \in DOMAIN bindings : bindings[t][1] \notin DOMAIN commonTypes}

\* to_common_types for one type: each of its names is the next, and the last is the type.
DefineNames ==
    /\ commonStage = "define" /\ Undefined # {}
    /\ LET t   == CHOOSE s \in Undefined : TRUE
           ids == bindings[t]
           n   == Len(ids)
       IN  \E last \in LastOf(t) :
              commonTypes' = [id \in DOMAIN commonTypes \cup {ids[i] : i \in 1..n} |->
                  IF id \in DOMAIN commonTypes THEN commonTypes[id]
                  ELSE IF id = ids[n] THEN last
                  ELSE <<"ref", ids[1 + CHOOSE i \in 1..(n - 1) : ids[i] = id]>>]
    /\ UNCHANGED <<attributes, unbound, bindings, rewritten, commonStage>>

NamesDefined ==
    /\ commonStage = "define" /\ Undefined = {}
    /\ commonStage' = "rewrite"
    /\ UNCHANGED <<attributes, unbound, bindings, commonTypes, rewritten>>

\* The record of an entity type or of a context.
ShapeOf(i) == <<"record", attributes[i]>>

\* rewrite_entity_type, or rewrite_record_type on a context.
RewriteShape ==
    /\ commonStage = "rewrite" /\ Len(rewritten) < Len(attributes)
    /\ \E r \in RecordRewritings(ShapeOf(Len(rewritten) + 1)) : rewritten' = Append(rewritten, r)
    /\ UNCHANGED <<attributes, unbound, bindings, commonTypes, commonStage>>

SchemaRewritten ==
    /\ commonStage = "rewrite" /\ Len(rewritten) = Len(attributes)
    /\ commonStage' = "made"
    /\ UNCHANGED <<attributes, unbound, bindings, commonTypes, rewritten>>

CommonNext ==
    \/ BindType \/ TypesBound \/ DefineNames \/ NamesDefined \/ RewriteShape \/ SchemaRewritten

CommonSpec == CommonInit /\ [][CommonNext]_commonVars

-----------------------------------------------------------------------------
(* Properties *)

CommonTypesOK ==
    /\ attributes \in AttributeTypes
    /\ \A t \in DOMAIN bindings : bindings[t] # <<>>
    /\ DOMAIN commonTypes \subseteq AllIds
    /\ Len(rewritten) <= Len(attributes)
    /\ commonStage \in {"bind", "define", "rewrite", "made"}

\* What a type stands for when its names are replaced, at most so many times in a row.
RECURSIVE Resolve(_, _)
Resolve(t, times) ==
    CASE t[1] = "ref" -> IF times > 0 /\ t[2] \in DOMAIN commonTypes
                         THEN Resolve(commonTypes[t[2]], times - 1) ELSE <<"unresolved">>
      [] t[1] \in {"set", "record"} -> <<t[1], Resolve(t[2], times)>>
      [] OTHER -> t

\* The schema with common types means what the schema without them means: every name is
\* defined and stands for the type it was bound to, with no cycle among them however often
\* names were drawn again, and every entity type and context resolves to what it was.
CommonTypesResolve ==
    commonStage = "made" =>
        LET all == Cardinality(AllIds) IN
        /\ \A t \in DOMAIN bindings : \A i \in DOMAIN bindings[t] :
              Resolve(<<"ref", bindings[t][i]>>, all) = t
        /\ \A i \in DOMAIN attributes : Resolve(rewritten[i], all) = ShapeOf(i)
=============================================================================
