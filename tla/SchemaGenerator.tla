---------------------------- MODULE SchemaGenerator ----------------------------
(***************************************************************************)
(* Schema::arbitrary of the input generators                               *)
(* (cedar-policy-generators/src/schema.rs): a schema drawn from the bytes  *)
(* of the fuzzer. Entity types come first, then the memberships between    *)
(* them, then the actions with what they apply to, then the groups of      *)
(* actions. An error drops everything that was drawn.                      *)
(*                                                                         *)
(* Attributes, annotations and the pools of constants are left out: they   *)
(* decide nothing here but an early error. Actions are numbered: their     *)
(* names are distinct and nothing depends on them.                         *)
(***************************************************************************)
EXTENDS Integers, Sequences, FiniteSets

CONSTANTS
    TypeIds,    \* the lists of distinct entity type names to draw from
    MaxNames,   \* action names drawn
    MaxActions, \* settings.max_actions
    EnvLimit    \* settings.total_action_request_env_limit

ASSUME SchemaConstants ==
    /\ \A ids \in TypeIds : /\ ids \in Seq(STRING) /\ ids # <<>>
                            /\ \A i, j \in DOMAIN ids : ids[i] = ids[j] => i = j
    /\ MaxNames \in Nat /\ MaxActions \in Nat /\ EnvLimit \in Nat

VARIABLES
    groups,         \* settings.enable_action_groups_and_attrs
    typeIds,        \* entity_type_ids; entity_types of the result are these names as well
    entityTypes,    \* the entity types of the namespace definition, in order
    drawn,          \* the memberships each entity type was given by the coins
    names,          \* the number of actions
    actions,        \* the actions so far
    principalTypes, \* principal_types
    resourceTypes,  \* resource_types
    envs,           \* total_req_env_num
    schemaStage     \* what is drawn next

schemaVars == <<groups, typeIds, entityTypes, drawn, names, actions, principalTypes,
                resourceTypes, envs, schemaStage>>

SchemaStages == {"types", "members", "names", "applies", "made", "failed", "panicked"}

\* An empty list of names is replaced by one name, so the list is never empty.
SchemaInit ==
    /\ groups \in BOOLEAN
    /\ typeIds \in TypeIds
    /\ entityTypes = <<>> /\ drawn = <<>> /\ names = 0 /\ actions = <<>>
    /\ principalTypes = {} /\ resourceTypes = {} /\ envs = 0
    /\ schemaStage = "types"

Declared == {entityTypes[i].name : i \in DOMAIN entityTypes}

\* Schema::arbitrary ends with an error, or panics.
EndWith(stage) ==
    /\ schemaStage' = stage
    /\ entityTypes' = <<>> /\ drawn' = <<>> /\ names' = 0 /\ actions' = <<>>
    /\ principalTypes' = {} /\ resourceTypes' = {} /\ envs' = 0
    /\ UNCHANGED <<groups, typeIds>>

\* Too few bytes, at any of the draws.
DrawFails ==
    /\ schemaStage \in {"types", "members", "names", "applies"}
    /\ EndWith("failed")

\* Without action groups, an entity type must not be called Action.
IsTypeName(id) == groups \/ id # "Action"

\* The list without its i-th name.
Without(ids, i) == [j \in 1..(Len(ids) - 1) |-> IF j < i THEN ids[j] ELSE ids[j + 1]]

\* The names that pass the filter, in order: they are distinct, so one at most does not.
TypeNames ==
    LET dropped == {i \in DOMAIN typeIds : ~IsTypeName(typeIds[i])}
    IN  IF dropped = {} THEN typeIds ELSE Without(typeIds, CHOOSE i \in dropped : TRUE)

MakeTypes ==
    /\ schemaStage = "types"
    /\ LET ids == TypeNames IN
       \E kind \in [DOMAIN ids -> {"enum", "standard"}] :
          entityTypes' = [i \in DOMAIN ids |-> [name |-> ids[i], kind |-> kind[i], memberOf |-> {}]]
    /\ schemaStage' = "members"
    /\ UNCHANGED <<groups, typeIds, drawn, names, actions, principalTypes, resourceTypes, envs>>

\* The names that come after the i-th: of all the names, not of those that became entity types.
NamesAfter(i) == {typeIds[j] : j \in (i + 1)..Len(typeIds)}

\* member_of_types after the names of S were pushed: the vector they are pushed onto is that
\* of a clone of the kind, which is dropped.
Pushed(memberOf, S) == memberOf

\* One coin per later name; an enumerated type has no parents.
LinkType ==
    /\ schemaStage = "members" /\ Len(drawn) < Len(entityTypes)
    /\ LET i == Len(drawn) + 1 IN
       \E S \in SUBSET NamesAfter(i) :
          /\ entityTypes[i].kind = "enum" => S = {}
          /\ drawn' = Append(drawn, S)
          /\ entityTypes' = [entityTypes EXCEPT ![i].memberOf = Pushed(@, S)]
    /\ UNCHANGED <<groups, typeIds, names, actions, principalTypes, resourceTypes, envs, schemaStage>>

TypesLinked ==
    /\ schemaStage = "members" /\ Len(drawn) = Len(entityTypes)
    /\ schemaStage' = "names"
    /\ UNCHANGED <<groups, typeIds, entityTypes, drawn, names, actions, principalTypes, resourceTypes, envs>>

\* At least one name, and then no more than max_actions.
NameActions ==
    /\ schemaStage = "names"
    /\ \E n \in 0..MaxNames :
          LET some == IF n = 0 THEN 1 ELSE n IN
          names' = IF some > MaxActions THEN MaxActions ELSE some
    /\ schemaStage' = "applies"
    /\ UNCHANGED <<groups, typeIds, entityTypes, drawn, actions, principalTypes, resourceTypes, envs>>

\* pick_entity_types: one declared type or more. There is no such number when none is declared.
Picks == (SUBSET Declared) \ {{}}

\* principal_and_resource_types_exist: only a later action may lose a list.
MayClear == actions # <<>>

\* Mutation of Exceeds: the environments of this action are not counted yet.
ExceedsLate(total, more) == total > EnvLimit

Exceeds(total, more) == total + more > EnvLimit

\* The entry of the next action. A picked type counts as a principal or resource type of the
\* schema also when the list is cleared afterwards.
ApplyAction ==
    /\ schemaStage = "applies" /\ Len(actions) < names
    /\ \/ Declared = {} /\ EndWith("panicked")
       \/ \E R, P \in Picks, keepP, keepR \in BOOLEAN :
             LET principals == IF keepP THEN P ELSE {}
                 resources  == IF keepR THEN R ELSE {}
                 more       == Cardinality(principals) * Cardinality(resources)
             IN  /\ (keepP /\ keepR) \/ MayClear
                 /\ IF Exceeds(envs, more) THEN EndWith("failed")
                    ELSE /\ actions' = Append(actions, [principals |-> principals, resources |-> resources,
                                                        memberOf |-> {}])
                         /\ principalTypes' = principalTypes \cup P
                         /\ resourceTypes' = resourceTypes \cup R
                         /\ envs' = envs + more
                         /\ UNCHANGED <<groups, typeIds, entityTypes, drawn, names, schemaStage>>

\* The groups of all the actions, when there are groups: a later action or none.
GroupActions ==
    /\ schemaStage = "applies" /\ Len(actions) = names
    /\ \E memberOf \in [1..names -> SUBSET (1..names)] :
          /\ \A i \in 1..names : \A j \in memberOf[i] : groups /\ i < j
          /\ actions' = [i \in 1..names |-> [actions[i] EXCEPT !.memberOf = memberOf[i]]]
    /\ schemaStage' = "made"
    /\ UNCHANGED <<groups, typeIds, entityTypes, drawn, names, principalTypes, resourceTypes, envs>>

SchemaNext ==
    \/ DrawFails \/ MakeTypes \/ LinkType \/ TypesLinked \/ NameActions \/ ApplyAction \/ GroupActions

SchemaSpec == SchemaInit /\ [][SchemaNext]_schemaVars

-----------------------------------------------------------------------------
(* Properties *)

SchemaTypes ==
    /\ groups \in BOOLEAN /\ typeIds \in TypeIds
    /\ \A i \in DOMAIN entityTypes : /\ entityTypes[i].kind \in {"enum", "standard"}
                                     /\ entityTypes[i].memberOf \subseteq {typeIds[j] : j \in DOMAIN typeIds}
    /\ Len(drawn) <= Len(entityTypes)
    /\ names \in 0..MaxActions /\ Len(actions) <= names
    /\ principalTypes \cup resourceTypes \subseteq Declared
    /\ envs \in Nat
    /\ schemaStage \in SchemaStages

\* The request environments of the i-th action.
ActionEnvs(i) == actions[i].principals \X actions[i].resources

\* A generated schema can be used: no more actions and request environments than the settings
\* allow, a first action that some request is for, and only declared types, which its
\* principal_types and resource_types name although some were taken away again. Generation
\* panics in one case only: without action groups, when the one name drawn is Action.
SchemaUsable ==
    /\ schemaStage = "panicked" => ~groups /\ typeIds = <<"Action">>
    /\ schemaStage = "made" =>
          /\ Len(actions) <= MaxActions
          /\ actions # <<>> => ActionEnvs(1) # {}
          /\ Cardinality(UNION {{i} \X ActionEnvs(i) : i \in DOMAIN actions}) = envs
          /\ envs <= EnvLimit
          /\ \A i \in DOMAIN actions : /\ actions[i].principals \subseteq principalTypes \cap Declared
                                       /\ actions[i].resources \subseteq resourceTypes \cap Declared
          /\ \A i \in DOMAIN entityTypes : entityTypes[i].memberOf \subseteq Declared
          /\ ~groups => "Action" \notin Declared

\* A comment of schema.rs: "fill in member-relationships. WLOG we only make edges from
\* entities earlier in the entity_types list to entities later in the list; this ensures we
\* get a DAG". The memberships the coins gave an entity type are in the schema.
MembersFilledIn ==
    schemaStage = "made" => \A i \in DOMAIN entityTypes : entityTypes[i].memberOf = drawn[i]
=============================================================================
