-------------------------- MODULE HierarchyGenerator --------------------------
(***************************************************************************)
(* HierarchyGenerator::generate of the input generators                    *)
(* (cedar-policy-generators/src/hierarchy.rs) and the conversion of its    *)
(* hierarchy to Entities. The UIDs of all the types come first; then each  *)
(* of them, in order, is given parents by one coin per candidate.          *)
(*                                                                         *)
(* Entity types are numbered in their order, and a UID is the number of    *)
(* its type and its number within the type, so the order of the pool is    *)
(* the order of these pairs. Attributes and tags refer to UIDs but make no *)
(* edges; a value that cannot be generated is an error.                    *)
(***************************************************************************)
EXTENDS Integers

CONSTANTS
    MaxTypes, \* entity types
    MaxWidth  \* the most UIDs of a type: settings.max_width, or the 4 of the rbac target

ASSUME HierarchyConstants == MaxTypes \in Nat /\ MaxWidth \in Nat

VARIABLES
    mode,           \* "schema" (of either kind), or "arbitrary"
    typeCount,      \* the number of entity types
    allowedParents, \* <<t, p>>: p is among allowed_parent_typenames of t
    pool,           \* the UIDs
    linked,         \* the UIDs whose entity is made
    edges,          \* <<x, y>>: y is a parent of x
    hierarchyStage

hierarchyVars == <<mode, typeCount, allowedParents, pool, linked, edges, hierarchyStage>>

TypeNumbers == 1..typeCount
Uids == TypeNumbers \X (1..MaxWidth)

\* A Schema allows the parents a type declares. A ValidatorSchema allows every type that has
\* it as a descendant, so its relation is a transitive one; both may have cycles.
HierarchyInit ==
    /\ mode \in {"schema", "arbitrary"}
    /\ typeCount \in 0..MaxTypes
    /\ allowedParents \in IF mode = "schema" THEN SUBSET (TypeNumbers \X TypeNumbers) ELSE {{}}
    /\ pool = {} /\ linked = {} /\ edges = {}
    /\ hierarchyStage = "uids"

HierarchyFails ==
    /\ hierarchyStage \in {"uids", "parents"}
    /\ hierarchyStage' = "failed"
    /\ pool' = {} /\ linked' = {} /\ edges' = {}
    /\ UNCHANGED <<mode, typeCount, allowedParents>>

\* The fewest UIDs of a type.
Fewest == IF mode = "schema" THEN 1 ELSE 0

\* Names may be drawn twice, and an enumerated type has only so many.
GenerateUids ==
    /\ hierarchyStage = "uids"
    /\ \E many \in [TypeNumbers -> Fewest..MaxWidth] :
          pool' = {x \in Uids : x[2] <= many[x[1]]}
    /\ hierarchyStage' = "parents"
    /\ UNCHANGED <<mode, typeCount, allowedParents, linked, edges>>

\* The order of the pool.
Before(x, y) == x[1] < y[1] \/ (x[1] = y[1] /\ x[2] < y[2])

\* Mutation of UidsForType: all the UIDs of the type.
UidsForTypeAll(x, y) == TRUE

\* uids_for_type: all the UIDs of another type, and those after x of its own.
UidsForType(x, y) == x[1] = y[1] => x[2] < y[2]

Candidates(x) ==
    {y \in pool : IF mode = "schema" THEN <<x[1], y[1]>> \in allowedParents /\ UidsForType(x, y)
                                     ELSE Before(x, y)}

\* One coin per candidate.
MakeEntity ==
    /\ hierarchyStage = "parents"
    /\ \E x \in pool \ linked :
          /\ \A y \in pool \ linked : x = y \/ Before(x, y)
          /\ \E parents \in SUBSET Candidates(x) : edges' = edges \cup {<<x, y>> : y \in parents}
          /\ linked' = linked \cup {x}
    /\ UNCHANGED <<mode, typeCount, allowedParents, pool, hierarchyStage>>

\* Some entities each have a parent among them.
Cyclic == \E S \in SUBSET pool : S # {} /\ \A x \in S : \E y \in S : <<x, y>> \in edges

\* Entities::from_entities computes the transitive closure, and a cycle is an error.
ConvertHierarchy ==
    /\ hierarchyStage = "parents" /\ linked = pool
    /\ hierarchyStage' = IF Cyclic THEN "cyclic" ELSE "ready"
    /\ UNCHANGED <<mode, typeCount, allowedParents, pool, linked, edges>>

HierarchyNext == HierarchyFails \/ GenerateUids \/ MakeEntity \/ ConvertHierarchy

HierarchySpec == HierarchyInit /\ [][HierarchyNext]_hierarchyVars

-----------------------------------------------------------------------------
(* Properties *)

HierarchyTypes ==
    /\ mode \in {"schema", "arbitrary"}
    /\ typeCount \in 0..MaxTypes
    /\ allowedParents \subseteq TypeNumbers \X TypeNumbers
    /\ linked \subseteq pool /\ pool \subseteq Uids
    /\ edges \subseteq linked \X pool
    /\ hierarchyStage \in {"uids", "parents", "ready", "cyclic", "failed"}

\* Some types, two or more, each allow another of them as a parent.
TypesCyclic ==
    \E T \in SUBSET TypeNumbers :
        T # {} /\ \A t \in T : \E p \in T : p # t /\ <<t, p>> \in allowedParents

\* The memberships that were drawn are those of the schema, and they have a cycle, which makes
\* the conversion to Entities fail, only where several types of the schema allow each other as
\* parents: a type that allows itself makes none, and without a schema there is none.
HierarchyOrdered ==
    /\ \A e \in edges : mode = "schema" => <<e[1][1], e[2][1]>> \in allowedParents
    /\ hierarchyStage = "cyclic" => mode = "schema" /\ TypesCyclic
=============================================================================
