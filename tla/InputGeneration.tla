---------------------------- MODULE InputGeneration ----------------------------
(***************************************************************************)
(* The inputs of the abac targets (cedar-drt/fuzz/src/abac.rs): a schema   *)
(* is drawn, then a hierarchy for it, then requests, and the hierarchy is  *)
(* converted last. This module composes the two generators: the entity     *)
(* types of the hierarchy and the parents they allow are those of the      *)
(* schema. A schema drawn without action groups is used by itself, by the  *)
(* targets about schemas. One request stands for the eight. The policies   *)
(* and policy sets of the targets are those of PolicyGenerator, with which *)
(* the rest shares no state.                                               *)
(***************************************************************************)
EXTENDS SchemaGenerator, HierarchyGenerator, PolicyGenerator

\* Some names can be drawn, and a schema has no more types than the bound on entity types.
ASSUME InputConstants == TypeIds # {} /\ \A ids \in TypeIds : Len(ids) <= MaxTypes

VARIABLES
    inputStage, \* "schema", "hierarchy", "requested" or "file"
    request     \* the request, when one is drawn

inputVars == <<schemaVars, hierarchyVars, inputStage, request>>

NoRequest == <<>>

\* A schema is drawn, or comes from a file (or there is none, for the rbac target) and only
\* the hierarchy is.
DrawnInit ==
    /\ mode = "schema" /\ typeCount = 0 /\ allowedParents = {}
    /\ pool = {} /\ linked = {} /\ edges = {} /\ hierarchyStage = "uids"
    /\ SchemaInit
    /\ inputStage = "schema" /\ request = NoRequest

GivenInit ==
    /\ groups = TRUE /\ typeIds = CHOOSE ids \in TypeIds : TRUE
    /\ entityTypes = <<>> /\ drawn = <<>> /\ names = 0 /\ actions = <<>>
    /\ principalTypes = {} /\ resourceTypes = {} /\ envs = 0 /\ schemaStage = "failed"
    /\ HierarchyInit
    /\ inputStage = "file" /\ request = NoRequest

InputInit == DrawnInit \/ GivenInit

DrawSchema ==
    /\ inputStage = "schema" /\ SchemaNext
    /\ UNCHANGED <<hierarchyVars, inputStage, request>>

\* entity_types and allowed_parent_typenames of the schema.
StartHierarchy ==
    /\ inputStage = "schema" /\ schemaStage = "made" /\ groups
    /\ typeCount' = Len(entityTypes)
    /\ allowedParents' = {e \in (DOMAIN entityTypes) \X (DOMAIN entityTypes) :
                             entityTypes[e[2]].name \in entityTypes[e[1]].memberOf}
    /\ inputStage' = "hierarchy"
    /\ UNCHANGED <<schemaVars, mode, pool, linked, edges, hierarchyStage, request>>

DrawHierarchy ==
    /\ inputStage \in {"hierarchy", "file"}
    /\ HierarchyFails \/ GenerateUids \/ MakeEntity
    /\ UNCHANGED <<schemaVars, inputStage, request>>

\* arbitrary_uid_with_type: an entity of the hierarchy, or a UID that is in none.
OfType(type) == {x \in pool \cup {<<t, 0>> : t \in TypeNumbers} : entityTypes[x[1]].name = type}

\* arbitrary_request: an action, then one of its principal types, then one of its resource
\* types. It fails when a list is empty.
DrawRequest ==
    /\ inputStage = "hierarchy" /\ hierarchyStage = "parents" /\ linked = pool
    /\ \/ /\ \E i \in DOMAIN actions : \E p \in actions[i].principals, r \in actions[i].resources :
                \E x \in OfType(p), y \in OfType(r) : request' = <<i, x, y>>
          /\ inputStage' = "requested"
          /\ UNCHANGED <<schemaVars, hierarchyVars>>
       \/ /\ HierarchyFails
          /\ UNCHANGED <<schemaVars, inputStage, request>>

\* Entities::try_from
DrawEntities ==
    /\ inputStage \in {"requested", "file"} /\ ConvertHierarchy
    /\ UNCHANGED <<schemaVars, inputStage, request>>

InputNext == DrawSchema \/ StartHierarchy \/ DrawHierarchy \/ DrawRequest \/ DrawEntities

InputSpec == InputInit /\ [][InputNext]_inputVars

-----------------------------------------------------------------------------
(* Properties *)

InputTypes ==
    /\ SchemaTypes /\ HierarchyTypes
    /\ inputStage \in {"schema", "hierarchy", "requested", "file"}
    /\ request = NoRequest <=> inputStage # "requested"

\* What the abac targets unwrap can be unwrapped: the schema is one that can be used, the
\* hierarchy drawn for it has no cycle, and the request is in an environment of the schema
\* and about entity types the hierarchy has entities of.
InputsUsable ==
    /\ SchemaUsable
    /\ inputStage \in {"hierarchy", "requested"} => hierarchyStage # "cyclic"
    /\ request # NoRequest =>
          LET type(x) == entityTypes[x[1]].name IN
          /\ <<type(request[2]), type(request[3])>> \in ActionEnvs(request[1])
          /\ \A x \in {request[2], request[3]} : \E y \in pool : y[1] = x[1]

\* What is generated reaches the code under test: schemas are accepted, requests are valid for
\* them, and policy sets link.
GeneratedUsable == InputsUsable /\ PoliciesLink
=============================================================================
