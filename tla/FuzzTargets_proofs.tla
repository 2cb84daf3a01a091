--------------------------- MODULE FuzzTargets_proofs ---------------------------
(***************************************************************************)
(* The programs of the fuzz targets: what the generators draw, for any     *)
(* settings, and what the harness concludes from any two answers. They     *)
(* share no state; each part below has its own inductive invariant.        *)
(***************************************************************************)
EXTENDS InputGeneration, PolicyGenerator, ExprGenerator, DifferentialTesting,
        SequenceTheorems, FiniteSetTheorems, WellFoundedInduction, TLAPS

(***************************************************************************)
(* HierarchyGenerator. The memberships that are drawn are allowed and have *)
(* a cycle only where the types do, for any number of types and of UIDs.   *)
(* A cycle has a UID with the greatest number: without a schema, the       *)
(* greatest of the pool order; with one, the greatest of a type none of    *)
(* whose UIDs in the cycle has a parent of another type. Its parent would  *)
(* have a greater number still.                                            *)
(***************************************************************************)

\* An edge leads from a UID to one that uids_for_type or the order of the pool offered it.
Offered(x, y) ==
    IF mode = "schema" THEN <<x[1], y[1]>> \in allowedParents /\ UidsForType(x, y) ELSE Before(x, y)

HierarchyInv ==
    /\ HierarchyTypes
    /\ hierarchyStage = "uids" => linked = {}
    /\ \A x, y \in pool : <<x, y>> \in edges => Offered(x, y)
    /\ hierarchyStage = "cyclic" => mode = "schema" /\ TypesCyclic

-----------------------------------------------------------------------------
(* Cycles *)

\* A set of numbers up to k has a greatest one.
LEMMA Greatest ==
    ASSUME NEW k \in Nat, NEW N, N \subseteq 1..k, N # {}
    PROVE  \E m \in N : \A n \in N : n <= m
<1> DEFINE R == OpToRel(<, Nat)
           D == {k - n : n \in N}
<1>1. D \subseteq Nat /\ D # {}
    <2>1. \A n \in N : k - n \in Nat
        OBVIOUS
    <2>2. D # {}
        OBVIOUS
    <2> QED BY <2>1, <2>2
<1>2. IsWellFoundedOn(R, Nat)
    BY NatLessThanWellFounded
<1> HIDE DEF R
<1>3. PICK d \in D : \A e \in D : ~(<<e, d>> \in R)
    BY <1>1, <1>2, WFMin
<1>4. PICK m \in N : d = k - m
    BY <1>3
<1>5. ASSUME NEW n \in N PROVE n <= m
    <2>1. ~(<<k - n, k - m>> \in R)
        BY <1>3, <1>4
    <2>2. ~(k - n < k - m)
        BY <2>1, <1>1 DEF R, OpToRel
    <2> QED BY <2>2
<1> QED BY <1>4, <1>5

\* UIDs that each have a parent among them are not in the order of the pool, and their types
\* are a cycle of types.
LEMMA CycleOfTypes ==
    ASSUME HierarchyInv, Cyclic
    PROVE  mode = "schema" /\ TypesCyclic
<1>1. PICK S \in SUBSET pool : S # {} /\ \A x \in S : \E y \in S : <<x, y>> \in edges
    BY DEF Cyclic
<1>2. \A x \in S : x[1] \in TypeNumbers /\ x[2] \in 1..MaxWidth
    BY <1>1 DEF HierarchyInv, HierarchyTypes, Uids
<1>3. typeCount \in Nat /\ MaxWidth \in Nat
    BY HierarchyConstants DEF HierarchyInv, HierarchyTypes
<1> DEFINE T == {x[1] : x \in S}
           Of(t) == {x[2] : x \in {z \in S : z[1] = t}}
<1>4. T \subseteq 1..typeCount /\ T # {}
    BY <1>1, <1>2 DEF TypeNumbers
<1>5. ASSUME NEW t \in T
      PROVE  \E x \in S : x[1] = t /\ \A z \in S : z[1] = t => z[2] <= x[2]
    <2>1. Of(t) \subseteq 1..MaxWidth /\ Of(t) # {}
        BY <1>2
    <2>2. PICK m \in Of(t) : \A n \in Of(t) : n <= m
        BY <1>3, <2>1, Greatest
    <2> QED BY <2>2
<1>6. mode = "schema"
    <2> SUFFICES ASSUME mode # "schema" PROVE FALSE
        OBVIOUS
    <2>1. PICK t \in T : \A u \in T : u <= t
        BY <1>3, <1>4, Greatest
    <2>2. PICK x \in S : x[1] = t /\ \A z \in S : z[1] = t => z[2] <= x[2]
        BY <1>5
    <2>3. PICK y \in S : <<x, y>> \in edges
        BY <1>1
    <2>4. Before(x, y)
        BY <1>1, <2>3 DEF HierarchyInv, Offered
    <2>5. y[1] <= x[1] /\ (y[1] = x[1] => y[2] <= x[2])
        BY <2>1, <2>2
    <2> QED BY <1>2, <2>4, <2>5 DEF Before, TypeNumbers
<1>7. ASSUME NEW t \in T PROVE \E p \in T : p # t /\ <<t, p>> \in allowedParents
    <2>1. PICK x \in S : x[1] = t /\ \A z \in S : z[1] = t => z[2] <= x[2]
        BY <1>5
    <2>2. PICK y \in S : <<x, y>> \in edges
        BY <1>1
    <2>3. <<x[1], y[1]>> \in allowedParents /\ (x[1] = y[1] => x[2] < y[2])
        BY <1>1, <1>6, <2>2 DEF HierarchyInv, Offered, UidsForType
    <2>4. x[1] # y[1]
        <3> SUFFICES ASSUME x[1] = y[1] PROVE FALSE
            OBVIOUS
        <3>1. y[2] <= x[2]
            BY <2>1
        <3>2. x[2] < y[2]
            BY <2>3
        <3>3. x[2] \in Int /\ y[2] \in Int
            BY <1>2
        <3> QED BY <3>1, <3>2, <3>3
    <2> QED BY <2>1, <2>3, <2>4
<1> QED BY <1>4, <1>6, <1>7 DEF TypesCyclic, TypeNumbers

-----------------------------------------------------------------------------
(* The steps *)

\* There is nothing to begin with.
LEMMA HierarchyInitInv == HierarchyInit => HierarchyInv
BY DEF HierarchyInit, HierarchyInv, HierarchyTypes, TypeNumbers

\* A failure leaves nothing.
LEMMA HierarchyFailsKeeps == HierarchyInv /\ HierarchyFails => HierarchyInv'
BY DEF HierarchyInv, HierarchyTypes, HierarchyFails, TypeNumbers, Uids

\* The UIDs have no edges yet.
LEMMA GenerateUidsKeeps == HierarchyInv /\ GenerateUids => HierarchyInv'
<1> SUFFICES ASSUME HierarchyInv, GenerateUids PROVE HierarchyInv'
    OBVIOUS
<1>1. linked = {} /\ edges = {}
    BY DEF HierarchyInv, HierarchyTypes, GenerateUids
<1>2. pool' \subseteq Uids
    BY DEF GenerateUids
<1> QED
    BY <1>1, <1>2 DEF HierarchyInv, HierarchyTypes, GenerateUids, TypeNumbers, Uids

\* The edges of the next UID are to candidates of its own.
LEMMA MakeEntityKeeps == HierarchyInv /\ MakeEntity => HierarchyInv'
<1> SUFFICES ASSUME HierarchyInv, MakeEntity PROVE HierarchyInv'
    OBVIOUS
<1>0. PICK x \in pool \ linked :
          /\ \E parents \in SUBSET Candidates(x) : edges' = edges \cup {<<x, y>> : y \in parents}
          /\ linked' = linked \cup {x}
    BY DEF MakeEntity
<1>1. PICK parents \in SUBSET Candidates(x) :
          edges' = edges \cup {<<x, y>> : y \in parents} /\ linked' = linked \cup {x}
    BY <1>0
<1>2. UNCHANGED <<mode, typeCount, allowedParents, pool, hierarchyStage>> /\ hierarchyStage = "parents"
    BY DEF MakeEntity
<1>3. \A y \in parents : y \in pool /\ Offered(x, y)
    BY DEF Candidates, Offered
<1>4. HierarchyTypes'
    BY <1>1, <1>2, <1>3 DEF HierarchyInv, HierarchyTypes, TypeNumbers, Uids
<1>5. ASSUME NEW u \in pool', NEW v \in pool', <<u, v>> \in edges'
      PROVE  Offered(u, v)'
    <2>1. Offered(u, v)
        BY <1>1, <1>2, <1>3, <1>5 DEF HierarchyInv
    <2> QED BY <2>1, <1>2 DEF Offered, UidsForType, Before
<1> QED BY <1>2, <1>4, <1>5 DEF HierarchyInv

\* A cycle is one of types.
LEMMA ConvertHierarchyKeeps == HierarchyInv /\ ConvertHierarchy => HierarchyInv'
<1> SUFFICES ASSUME HierarchyInv, ConvertHierarchy PROVE HierarchyInv'
    OBVIOUS
<1>1. UNCHANGED <<mode, typeCount, allowedParents, pool, linked, edges>>
      /\ hierarchyStage' \in {"cyclic", "ready"} /\ (hierarchyStage' = "cyclic" => Cyclic)
    BY DEF ConvertHierarchy
<1>2. HierarchyTypes'
    BY <1>1 DEF HierarchyInv, HierarchyTypes, TypeNumbers, Uids
<1>3. (\A x, y \in pool : <<x, y>> \in edges => Offered(x, y))'
    BY <1>1 DEF HierarchyInv, Offered, UidsForType, Before
<1>4. hierarchyStage' = "cyclic" => mode' = "schema" /\ TypesCyclic'
    BY <1>1, CycleOfTypes DEF TypesCyclic, TypeNumbers
<1> QED BY <1>1, <1>2, <1>3, <1>4 DEF HierarchyInv

\* So does every step, and a step that does nothing.
LEMMA HierarchyStepInv == HierarchyInv /\ [HierarchyNext]_hierarchyVars => HierarchyInv'
<1>1. HierarchyInv /\ UNCHANGED hierarchyVars => HierarchyInv'
    BY DEF hierarchyVars, HierarchyInv, HierarchyTypes, TypeNumbers, Uids, Offered, UidsForType,
           Before, TypesCyclic
<1> QED BY <1>1, HierarchyFailsKeeps, GenerateUidsKeeps, MakeEntityKeeps, ConvertHierarchyKeeps
    DEF HierarchyNext

-----------------------------------------------------------------------------
(* The theorem *)

\* Whatever the types allow and however many UIDs are drawn, the memberships are those of the
\* schema, and only a cycle of several types keeps the hierarchy from becoming Entities.
THEOREM HierarchyCorrect == HierarchySpec => [](HierarchyTypes /\ HierarchyOrdered)
<1>1. HierarchyInv => HierarchyTypes /\ HierarchyOrdered
    <2> SUFFICES ASSUME HierarchyInv PROVE HierarchyTypes /\ HierarchyOrdered
        OBVIOUS
    <2>1. ASSUME NEW e \in edges, mode = "schema" PROVE <<e[1][1], e[2][1]>> \in allowedParents
        <3>1. PICK x \in pool, y \in pool : e = <<x, y>>
            BY DEF HierarchyInv, HierarchyTypes
        <3> QED BY <2>1, <3>1 DEF HierarchyInv, Offered
    <2> QED BY <2>1 DEF HierarchyInv, HierarchyOrdered
<1>2. HierarchySpec => []HierarchyInv
    BY HierarchyInitInv, HierarchyStepInv, PTL DEF HierarchySpec
<1> QED BY <1>1, <1>2, PTL

-----------------------------------------------------------------------------
(***************************************************************************)
(* SchemaGenerator. What is drawn for a schema stays within its settings,  *)
(* for any lists of names and any settings. The entity types keep no       *)
(* memberships; without action groups none of them is called Action, so    *)
(* there is none only when that was the one name. The request environments *)
(* that were counted are those of the actions so far.                      *)
(***************************************************************************)

EntityRecords == [name : STRING, kind : {"enum", "standard"}, memberOf : {{}}]
ActionRecords == [principals : SUBSET STRING, resources : SUBSET STRING, memberOf : SUBSET Int]

\* Without action groups, the one name that was drawn is Action.
OnlyAction == ~groups /\ typeIds = <<"Action">>

\* The request environments of all the actions.
EnvsOf(acts) == UNION {{i} \X (acts[i].principals \X acts[i].resources) : i \in DOMAIN acts}

TypesInv ==
    /\ groups \in BOOLEAN /\ typeIds \in TypeIds /\ schemaStage \in SchemaStages
    /\ entityTypes \in Seq(EntityRecords) /\ Len(entityTypes) <= Len(typeIds)
    /\ drawn \in Seq(SUBSET STRING) /\ Len(drawn) <= Len(entityTypes)
    /\ ~groups => "Action" \notin Declared
    /\ schemaStage = "types" => drawn = <<>>
    /\ schemaStage \in {"members", "names", "applies"} /\ entityTypes = <<>> => OnlyAction
    /\ schemaStage = "panicked" => OnlyAction

ActionsInv ==
    /\ names \in 0..MaxActions /\ actions \in Seq(ActionRecords) /\ Len(actions) <= names
    /\ schemaStage \notin {"applies", "made"} =>
          actions = <<>> /\ principalTypes = {} /\ resourceTypes = {}
    /\ actions # <<>> => ActionEnvs(1) # {}
    /\ principalTypes \cup resourceTypes \subseteq Declared
    /\ \A i \in 1..Len(actions) : /\ actions[i].principals \subseteq principalTypes
                                  /\ actions[i].resources \subseteq resourceTypes
    /\ envs \in 0..EnvLimit
    /\ IsFiniteSet(EnvsOf(actions)) /\ Cardinality(EnvsOf(actions)) = envs

SchemaInv == TypesInv /\ ActionsInv

-----------------------------------------------------------------------------
(* The entity types *)

\* Lists of names.
LEMMA NamesDrawn == TypesInv => typeIds \in Seq(STRING) /\ typeIds # <<>> /\ Len(typeIds) \in Nat \ {0}
BY SchemaConstants DEF TypesInv

\* The filter keeps a list of names, without Action when there are no action groups, and drops
\* one of them at most.
LEMMA TypeNamesKept ==
    ASSUME TypesInv
    PROVE  /\ TypeNames \in Seq(STRING) /\ Len(TypeNames) <= Len(typeIds)
           /\ ~groups => \A i \in DOMAIN TypeNames : TypeNames[i] # "Action"
           /\ TypeNames = <<>> => OnlyAction
<1>1. typeIds \in Seq(STRING) /\ typeIds # <<>> /\ Len(typeIds) \in Nat \ {0}
    BY NamesDrawn
<1> DEFINE dropped == {i \in DOMAIN typeIds : ~IsTypeName(typeIds[i])}
<1>2. CASE dropped = {}
    <2>1. TypeNames = typeIds
        BY <1>2 DEF TypeNames
    <2> QED BY <1>1, <1>2, <2>1 DEF IsTypeName
<1>3. CASE dropped # {}
    <2>1. PICK d \in dropped : TypeNames = Without(typeIds, d)
        <3>1. TypeNames = Without(typeIds, CHOOSE i \in dropped : TRUE)
            BY <1>3 DEF TypeNames
        <3>2. (CHOOSE i \in dropped : TRUE) \in dropped
            BY <1>3
        <3> QED BY <3>1, <3>2
    <2>2. d \in 1..Len(typeIds) /\ typeIds[d] = "Action" /\ ~groups
        BY <1>1 DEF IsTypeName
    <2>3. \A j \in 1..Len(typeIds) : j # d => typeIds[j] # "Action"
        BY <1>1, <2>2, SchemaConstants DEF TypesInv
    <2>4. \A j \in 1..(Len(typeIds) - 1) : TypeNames[j] \in STRING /\ TypeNames[j] # "Action"
        BY <1>1, <2>1, <2>2, <2>3 DEF Without
    <2>5. TypeNames \in [1..(Len(typeIds) - 1) -> STRING]
        BY <2>1, <2>4 DEF Without
    <2>6. TypeNames \in Seq(STRING) /\ Len(TypeNames) = Len(typeIds) - 1
        BY <1>1, <2>5
    <2>7. ASSUME TypeNames = <<>> PROVE OnlyAction
        <3>1. Len(typeIds) = 1
            BY <1>1, <2>6, <2>7
        <3>2. typeIds = <<"Action">>
            BY <1>1, <2>2, <3>1
        <3> QED BY <2>2, <3>2 DEF OnlyAction
    <2> QED BY <1>1, <2>4, <2>5, <2>6, <2>7
<1> QED BY <1>2, <1>3

\* There is nothing to begin with.
LEMMA SchemaInitInv == SchemaInit => SchemaInv
<1> SUFFICES ASSUME SchemaInit PROVE SchemaInv
    OBVIOUS
<1>1. EnvsOf(actions) = {}
    BY DEF SchemaInit, EnvsOf
<1>2. IsFiniteSet(EnvsOf(actions)) /\ Cardinality(EnvsOf(actions)) = 0
    BY <1>1, FS_EmptySet
<1>3. entityTypes = <<>> /\ drawn = <<>> /\ actions = <<>>
    BY DEF SchemaInit
<1>4. TypesInv
    <2>1. typeIds \in Seq(STRING)
        BY SchemaConstants DEF SchemaInit
    <2>2. Declared = {}
        BY <1>3 DEF Declared
    <2> QED BY <1>3, <2>1, <2>2 DEF SchemaInit, TypesInv, SchemaStages, OnlyAction
<1>5. ActionsInv
    BY <1>2, <1>3, SchemaConstants DEF SchemaInit, ActionsInv
<1> QED BY <1>4, <1>5 DEF SchemaInv

\* Nor when it ends early, with a panic only if there is no entity type.
LEMMA EndWithKeeps ==
    ASSUME SchemaInv, NEW s \in {"failed", "panicked"}, EndWith(s), s = "panicked" => OnlyAction
    PROVE  SchemaInv'
<1>1. entityTypes' = <<>> /\ drawn' = <<>> /\ actions' = <<>> /\ schemaStage' = s
    BY DEF EndWith
<1>2. EnvsOf(actions') = {}
    BY <1>1 DEF EnvsOf
<1>3. IsFiniteSet(EnvsOf(actions')) /\ Cardinality(EnvsOf(actions')) = 0
    BY <1>2, FS_EmptySet
<1>4. TypesInv'
    <2>1. Declared' = {}
        BY <1>1 DEF Declared
    <2>2. OnlyAction' <=> OnlyAction
        BY DEF EndWith, OnlyAction
    <2>3. typeIds' \in Seq(STRING)
        BY NamesDrawn DEF SchemaInv, EndWith
    <2> QED BY <1>1, <2>1, <2>2, <2>3 DEF SchemaInv, EndWith, TypesInv, SchemaStages
<1>5. ActionsInv'
    BY <1>1, <1>3, SchemaConstants DEF EndWith, ActionsInv
<1> QED BY <1>4, <1>5 DEF SchemaInv

\* The entity types have the names that pass the filter, and no memberships.
LEMMA MakeTypesKeeps == SchemaInv /\ MakeTypes => SchemaInv'
<1> SUFFICES ASSUME SchemaInv, MakeTypes PROVE SchemaInv'
    OBVIOUS
<1>1. PICK ids : ids = TypeNames
    OBVIOUS
<1>2. /\ ids \in Seq(STRING) /\ Len(ids) <= Len(typeIds)
      /\ ~groups => \A i \in DOMAIN ids : ids[i] # "Action"
      /\ ids = <<>> => OnlyAction
    BY <1>1, TypeNamesKept DEF SchemaInv
<1>3. PICK kind \in [DOMAIN ids -> {"enum", "standard"}] :
          entityTypes' = [i \in DOMAIN ids |-> [name |-> ids[i], kind |-> kind[i], memberOf |-> {}]]
    BY <1>1 DEF MakeTypes
<1>4. schemaStage = "types" /\ schemaStage' = "members"
      /\ UNCHANGED <<groups, typeIds, drawn, names, actions, principalTypes, resourceTypes, envs>>
    BY DEF MakeTypes
<1>5. entityTypes' \in [1..Len(ids) -> EntityRecords] /\ \A i \in 1..Len(ids) : entityTypes'[i].name = ids[i]
    BY <1>2, <1>3 DEF EntityRecords
<1>6. entityTypes' \in Seq(EntityRecords) /\ Len(entityTypes') = Len(ids)
    BY <1>2, <1>5
<1>7. ~groups => "Action" \notin Declared'
    BY <1>2, <1>5 DEF Declared
<1>8. entityTypes' = <<>> => OnlyAction
    BY <1>2, <1>5, <1>6
<1>9. drawn = <<>> /\ principalTypes = {} /\ resourceTypes = {} /\ actions = <<>>
    BY <1>4 DEF SchemaInv, TypesInv, ActionsInv
<1>10. TypesInv'
    <2>1. OnlyAction' <=> OnlyAction
        BY <1>4 DEF OnlyAction
    <2>2. Len(drawn') <= Len(entityTypes')
        BY <1>2, <1>4, <1>6, <1>9
    <2> QED BY <1>2, <1>4, <1>6, <1>7, <1>8, <2>1, <2>2 DEF SchemaInv, TypesInv, SchemaStages
<1>11. ActionsInv'
    BY <1>4, <1>9 DEF SchemaInv, ActionsInv
<1> QED BY <1>10, <1>11 DEF SchemaInv

\* A membership that is drawn changes no entity type.
LEMMA LinkTypeKeeps == SchemaInv /\ LinkType => SchemaInv'
<1> SUFFICES ASSUME SchemaInv, LinkType PROVE SchemaInv'
    OBVIOUS
<1>1. PICK i : i = Len(drawn) + 1
    OBVIOUS
<1>2. PICK S \in SUBSET NamesAfter(i) :
          drawn' = Append(drawn, S) /\ entityTypes' = [entityTypes EXCEPT ![i].memberOf = Pushed(@, S)]
    BY <1>1 DEF LinkType
<1>3. /\ schemaStage = "members" /\ Len(drawn) < Len(entityTypes)
      /\ UNCHANGED <<groups, typeIds, names, actions, principalTypes, resourceTypes, envs, schemaStage>>
    BY DEF LinkType
<1>4. i \in 1..Len(entityTypes) /\ entityTypes \in Seq(EntityRecords) /\ drawn \in Seq(SUBSET STRING)
    BY <1>1, <1>3 DEF SchemaInv, TypesInv
<1>5. entityTypes' = entityTypes
    <2>1. entityTypes' = [entityTypes EXCEPT ![i] = [entityTypes[i] EXCEPT !.memberOf = entityTypes[i].memberOf]]
        BY <1>2 DEF Pushed
    <2>2. entityTypes[i] \in EntityRecords
        BY <1>4
    <2>3. [entityTypes[i] EXCEPT !.memberOf = entityTypes[i].memberOf] = entityTypes[i]
        BY <2>2 DEF EntityRecords
    <2> QED BY <2>1, <2>3, <1>4
<1>6. S \in SUBSET STRING
    <2>1. typeIds \in Seq(STRING)
        BY NamesDrawn DEF SchemaInv
    <2>2. i \in Nat
        BY <1>4
    <2> QED BY <2>1, <2>2 DEF NamesAfter
<1>7. drawn' \in Seq(SUBSET STRING) /\ Len(drawn') = i
    BY <1>1, <1>2, <1>4, <1>6, AppendProperties
<1>8. TypesInv'
    BY <1>3, <1>4, <1>5, <1>7 DEF SchemaInv, TypesInv, Declared, OnlyAction
<1>9. ActionsInv'
    BY <1>3, <1>5 DEF SchemaInv, ActionsInv, Declared, ActionEnvs
<1> QED BY <1>8, <1>9 DEF SchemaInv

\* The number of actions is within its limit.
LEMMA TypesLinkedKeeps == SchemaInv /\ (TypesLinked \/ NameActions) => SchemaInv'
<1> SUFFICES ASSUME SchemaInv, TypesLinked \/ NameActions PROVE SchemaInv'
    OBVIOUS
<1>1. /\ schemaStage \in {"members", "names"} /\ schemaStage' \in {"names", "applies"}
      /\ UNCHANGED <<groups, typeIds, entityTypes, drawn, actions, principalTypes, resourceTypes, envs>>
    BY DEF TypesLinked, NameActions
<1>2. names' \in 0..MaxActions
    BY SchemaConstants DEF TypesLinked, NameActions, SchemaInv, ActionsInv
<1>3. actions = <<>>
    BY <1>1 DEF SchemaInv, ActionsInv
<1>4. TypesInv'
    BY <1>1 DEF SchemaInv, TypesInv, Declared, OnlyAction, SchemaStages
<1>5. ActionsInv'
    BY <1>1, <1>2, <1>3 DEF SchemaInv, ActionsInv, Declared
<1> QED BY <1>4, <1>5 DEF SchemaInv

-----------------------------------------------------------------------------
(* The actions *)

\* The declared entity types are finitely many names.
LEMMA DeclaredFinite ==
    ASSUME TypesInv
    PROVE  Declared \subseteq STRING /\ IsFiniteSet(Declared)
<1>1. entityTypes \in Seq(EntityRecords)
    BY DEF TypesInv
<1> DEFINE name == [i \in 1..Len(entityTypes) |-> entityTypes[i].name]
<1>2. name \in Surjection(1..Len(entityTypes), Declared)
    BY <1>1 DEF Declared, Surjection
<1>3. IsFiniteSet(1..Len(entityTypes))
    BY <1>1, FS_Interval
<1>4. Declared \subseteq STRING
    <2>1. \A i \in DOMAIN entityTypes : entityTypes[i] \in EntityRecords
        BY <1>1
    <2>2. \A i \in DOMAIN entityTypes : entityTypes[i].name \in STRING
        BY <2>1 DEF EntityRecords
    <2> QED BY <2>2 DEF Declared
<1> QED BY <1>2, <1>3, <1>4, FS_Surjection

\* A further action adds as many request environments as it has pairs.
LEMMA EnvsAppended ==
    ASSUME NEW acts \in Seq(ActionRecords), NEW a \in ActionRecords, IsFiniteSet(EnvsOf(acts)),
           IsFiniteSet(a.principals), IsFiniteSet(a.resources)
    PROVE  /\ IsFiniteSet(EnvsOf(Append(acts, a)))
           /\ Cardinality(EnvsOf(Append(acts, a))) =
                 Cardinality(EnvsOf(acts)) + Cardinality(a.principals) * Cardinality(a.resources)
<1> DEFINE n     == Len(acts) + 1
           pairs == a.principals \X a.resources
           new   == {n} \X pairs
<1>1. IsFiniteSet(pairs) /\ Cardinality(pairs) = Cardinality(a.principals) * Cardinality(a.resources)
    BY FS_Product
<1>2. IsFiniteSet({n}) /\ Cardinality({n}) = 1
    BY FS_Singleton
<1>3. IsFiniteSet(new) /\ Cardinality(new) = 1 * Cardinality(pairs)
    BY <1>1, <1>2, FS_Product
<1>4. Cardinality(pairs) \in Nat
    BY <1>1, FS_CardinalityType
<1>5. Cardinality(new) = Cardinality(a.principals) * Cardinality(a.resources)
    BY <1>1, <1>3, <1>4
<1>6. EnvsOf(Append(acts, a)) = EnvsOf(acts) \cup new
    <2>1. PICK b : b = Append(acts, a)
        OBVIOUS
    <2>2. /\ DOMAIN b = 1..n /\ DOMAIN acts = 1..(n - 1) /\ n \in Nat \ {0}
          /\ \A i \in 1..(n - 1) : b[i] = acts[i]
          /\ b[n] = a
        BY <2>1, AppendProperties
    <2>3. \A i : i \in 1..n <=> i \in 1..(n - 1) \/ i = n
        BY <2>2
    <2>4. n \notin 1..(n - 1)
        BY <2>2
    <2> HIDE DEF n
    <2>5. EnvsOf(b) = EnvsOf(acts) \cup ({n} \X (b[n].principals \X b[n].resources))
        BY <2>2, <2>3, <2>4 DEF EnvsOf
    <2> QED BY <2>1, <2>2, <2>5
<1>7. EnvsOf(acts) \cap new = {}
    <2>1. DOMAIN acts = 1..Len(acts) /\ Len(acts) \in Nat
        OBVIOUS
    <2>2. n \notin DOMAIN acts
        BY <2>1
    <2> HIDE DEF n, pairs
    <2> QED BY <2>2 DEF EnvsOf
<1> HIDE DEF new
<1>8. Cardinality(EnvsOf(acts) \cap new) = 0
    BY <1>7, FS_EmptySet
<1>9. /\ IsFiniteSet(EnvsOf(acts) \cup new)
      /\ Cardinality(EnvsOf(acts) \cup new) = Cardinality(EnvsOf(acts)) + Cardinality(new) - 0
    BY <1>3, <1>8, FS_Union
<1>10. Cardinality(EnvsOf(acts)) \in Nat /\ Cardinality(new) \in Nat
    BY <1>3, FS_CardinalityType
<1> QED BY <1>5, <1>6, <1>9, <1>10

\* An action is for declared types; only a later one may be for none.
LEMMA ApplyActionKeeps == SchemaInv /\ ApplyAction => SchemaInv'
<1> SUFFICES ASSUME SchemaInv, ApplyAction PROVE SchemaInv'
    OBVIOUS
<1>0. schemaStage = "applies" /\ Len(actions) < names
    BY DEF ApplyAction
<1>1. CASE Declared = {} /\ EndWith("panicked")
    <2>1. entityTypes \in Seq(EntityRecords)
        BY DEF SchemaInv, TypesInv
    <2>2. DOMAIN entityTypes = {}
        BY <1>1 DEF Declared
    <2>3. entityTypes = <<>>
        BY <2>1, <2>2
    <2>4. OnlyAction
        BY <1>0, <2>3 DEF SchemaInv, TypesInv
    <2> QED BY <1>1, <2>4, EndWithKeeps
<1>2. CASE EndWith("failed")
    BY <1>2, EndWithKeeps
<1>3. ASSUME NEW P \in Picks, NEW R \in Picks, NEW keepP \in BOOLEAN, NEW keepR \in BOOLEAN,
             NEW principals, NEW resources, NEW more, NEW a,
             principals = IF keepP THEN P ELSE {},
             resources  = IF keepR THEN R ELSE {},
             more       = Cardinality(principals) * Cardinality(resources),
             a = [principals |-> principals, resources |-> resources, memberOf |-> {}],
             (keepP /\ keepR) \/ MayClear,
             ~Exceeds(envs, more),
             actions' = Append(actions, a),
             principalTypes' = principalTypes \cup P,
             resourceTypes' = resourceTypes \cup R,
             envs' = envs + more,
             UNCHANGED <<groups, typeIds, entityTypes, drawn, names, schemaStage>>
      PROVE  SchemaInv'
    <2>1. Declared \subseteq STRING /\ IsFiniteSet(Declared)
        BY DeclaredFinite DEF SchemaInv
    <2>2. P \subseteq Declared /\ R \subseteq Declared /\ P # {} /\ R # {}
        BY <1>3 DEF Picks
    <2>3. principals \subseteq P /\ resources \subseteq R
        BY <1>3
    <2>4. IsFiniteSet(principals) /\ IsFiniteSet(resources)
        BY <2>1, <2>2, <2>3, FS_Subset
    <2>5. a \in ActionRecords /\ a.principals = principals /\ a.resources = resources
        BY <1>3, <2>1, <2>2, <2>3 DEF ActionRecords
    <2>6. actions \in Seq(ActionRecords) /\ names \in Nat
        BY SchemaConstants DEF SchemaInv, ActionsInv
    <2>7. more \in Nat
        BY <1>3, <2>4, FS_CardinalityType
    <2>8. IsFiniteSet(EnvsOf(actions')) /\ Cardinality(EnvsOf(actions')) = envs'
        BY <1>3, <2>4, <2>5, <2>6, EnvsAppended DEF SchemaInv, ActionsInv
    <2>9. envs' \in 0..EnvLimit
        BY <1>3, <2>7, SchemaConstants DEF SchemaInv, ActionsInv, Exceeds
    <2>10. PICK n : n = Len(actions)
        OBVIOUS
    <2>11. /\ actions' \in Seq(ActionRecords) /\ Len(actions') = n + 1 /\ n \in Nat /\ actions' # <<>>
           /\ \A i \in 1..n : actions'[i] = actions[i]
           /\ actions'[n + 1] = a
        BY <1>3, <2>5, <2>6, <2>10, AppendProperties
    <2>12. ActionEnvs(1)' # {}
        <3>1. CASE actions = <<>>
            <4>1. n = 0
                BY <2>10, <3>1
            <4>2. keepP /\ keepR
                BY <1>3, <3>1 DEF MayClear
            <4>3. principals = P /\ resources = R
                BY <1>3, <4>2
            <4>4. actions'[1] = a
                BY <2>11, <4>1
            <4>5. ActionEnvs(1)' = P \X R
                BY <2>5, <4>3, <4>4 DEF ActionEnvs
            <4>6. \E p \in P, r \in R : <<p, r>> \in P \X R
                BY <2>2
            <4> QED BY <4>5, <4>6
        <3>2. CASE actions # <<>>
            <4>1. 1 \in 1..n
                BY <2>6, <2>10, <3>2
            <4>2. actions'[1] = actions[1]
                BY <2>11, <4>1
            <4>3. ActionEnvs(1)' = ActionEnvs(1)
                BY <4>2 DEF ActionEnvs
            <4> QED BY <3>2, <4>3 DEF SchemaInv, ActionsInv
        <3> QED BY <3>1, <3>2
    <2>13. Declared' = Declared
        BY <1>3 DEF Declared
    <2>14. (principalTypes \cup resourceTypes \subseteq Declared)'
        BY <1>3, <2>2, <2>13 DEF SchemaInv, ActionsInv
    <2>15. ASSUME NEW i \in 1..Len(actions')
           PROVE  actions'[i].principals \subseteq principalTypes' /\ actions'[i].resources \subseteq resourceTypes'
        <3>1. CASE i = n + 1
            BY <1>3, <2>3, <2>5, <2>11, <3>1
        <3>2. CASE i \in 1..n
            <4>1. actions[i].principals \subseteq principalTypes /\ actions[i].resources \subseteq resourceTypes
                BY <2>10, <3>2 DEF SchemaInv, ActionsInv
            <4> QED BY <1>3, <2>11, <3>2, <4>1
        <3> QED BY <2>11, <2>15, <3>1, <3>2
    <2>16. TypesInv'
        BY <1>3, <2>13 DEF SchemaInv, TypesInv, OnlyAction
    <2>17. Len(actions') <= names'
        BY <1>0, <1>3, <2>6, <2>10, <2>11
    <2>18. ActionsInv'
        BY <1>0, <1>3, <2>8, <2>9, <2>11, <2>12, <2>14, <2>15, <2>17 DEF SchemaInv, ActionsInv
    <2> QED BY <2>16, <2>18 DEF SchemaInv
<1>4. CASE ~(Declared = {} /\ EndWith("panicked")) /\ ~EndWith("failed")
    <2>1. PICK R \in Picks, P \in Picks, keepP \in BOOLEAN, keepR \in BOOLEAN :
             LET principals == IF keepP THEN P ELSE {}
                 resources  == IF keepR THEN R ELSE {}
                 more       == Cardinality(principals) * Cardinality(resources)
             IN  /\ (keepP /\ keepR) \/ MayClear
                 /\ ~Exceeds(envs, more)
                 /\ actions' = Append(actions, [principals |-> principals, resources |-> resources,
                                                memberOf |-> {}])
                 /\ principalTypes' = principalTypes \cup P
                 /\ resourceTypes' = resourceTypes \cup R
                 /\ envs' = envs + more
                 /\ UNCHANGED <<groups, typeIds, entityTypes, drawn, names, schemaStage>>
        BY <1>4 DEF ApplyAction
    <2> QED BY <2>1, <1>3
<1> QED BY <1>1, <1>2, <1>4

\* The groups change nothing that was counted.
LEMMA GroupActionsKeeps == SchemaInv /\ GroupActions => SchemaInv'
<1> SUFFICES ASSUME SchemaInv, GroupActions PROVE SchemaInv'
    OBVIOUS
<1>1. PICK n : n = names
    OBVIOUS
<1>2. PICK memberOf \in [1..n -> SUBSET (1..n)] :
          actions' = [i \in 1..n |-> [actions[i] EXCEPT !.memberOf = memberOf[i]]]
    BY <1>1 DEF GroupActions
<1>3. /\ schemaStage = "applies" /\ Len(actions) = n /\ schemaStage' = "made"
      /\ UNCHANGED <<groups, typeIds, entityTypes, drawn, names, principalTypes, resourceTypes, envs>>
    BY <1>1 DEF GroupActions
<1>4. actions \in Seq(ActionRecords) /\ n \in Nat /\ DOMAIN actions = 1..n
    BY <1>1, <1>3, SchemaConstants DEF SchemaInv, ActionsInv
<1>5. \A i \in 1..n : /\ actions'[i] \in ActionRecords
                      /\ actions'[i].principals = actions[i].principals
                      /\ actions'[i].resources = actions[i].resources
    <2> SUFFICES ASSUME NEW i \in 1..n
                 PROVE  /\ actions'[i] \in ActionRecords
                        /\ actions'[i].principals = actions[i].principals
                        /\ actions'[i].resources = actions[i].resources
        OBVIOUS
    <2>1. actions[i] \in ActionRecords
        BY <1>4
    <2>2. actions'[i] = [actions[i] EXCEPT !.memberOf = memberOf[i]]
        BY <1>2
    <2>3. memberOf[i] \in SUBSET Int
        BY <1>2, <1>4
    <2> QED BY <2>1, <2>2, <2>3 DEF ActionRecords
<1>6. actions' \in [1..n -> ActionRecords]
    BY <1>2, <1>5
<1>7. actions' \in Seq(ActionRecords) /\ Len(actions') = n /\ DOMAIN actions' = 1..n
    BY <1>4, <1>6
<1>8. EnvsOf(actions') = EnvsOf(actions)
    BY <1>4, <1>5, <1>7 DEF EnvsOf
<1>9. actions' # <<>> => ActionEnvs(1)' # {}
    <2> SUFFICES ASSUME actions' # <<>> PROVE ActionEnvs(1)' # {}
        OBVIOUS
    <2>1. 1 \in 1..n
        BY <1>4, <1>7
    <2>2. actions # <<>>
        BY <1>4, <2>1
    <2>3. ActionEnvs(1)' = ActionEnvs(1)
        BY <1>5, <2>1 DEF ActionEnvs
    <2> QED BY <2>2, <2>3 DEF SchemaInv, ActionsInv
<1>10. TypesInv'
    BY <1>3 DEF SchemaInv, TypesInv, Declared, OnlyAction, SchemaStages
<1>11. Declared' = Declared
    BY <1>3 DEF Declared
<1>12. \A i \in 1..Len(actions') : /\ actions'[i].principals \subseteq principalTypes'
                                   /\ actions'[i].resources \subseteq resourceTypes'
    BY <1>3, <1>5, <1>7 DEF SchemaInv, ActionsInv
<1>13. Len(actions') <= names'
    BY <1>1, <1>3, <1>4, <1>7
<1>14. ActionsInv'
    BY <1>3, <1>7, <1>8, <1>9, <1>11, <1>12, <1>13 DEF SchemaInv, ActionsInv
<1> QED BY <1>10, <1>14 DEF SchemaInv

\* So does every step, and a step that does nothing.
LEMMA SchemaStepInv == SchemaInv /\ [SchemaNext]_schemaVars => SchemaInv'
<1> SUFFICES ASSUME SchemaInv, [SchemaNext]_schemaVars PROVE SchemaInv'
    OBVIOUS
<1>1. CASE DrawFails
    BY <1>1, EndWithKeeps DEF DrawFails
<1>2. CASE UNCHANGED schemaVars
    <2>1. UNCHANGED <<groups, typeIds, entityTypes, drawn, names, actions, principalTypes,
                      resourceTypes, envs, schemaStage>>
        BY <1>2 DEF schemaVars
    <2>2. TypesInv'
        BY <2>1 DEF SchemaInv, TypesInv, Declared, OnlyAction
    <2>3. ActionsInv'
        BY <2>1 DEF SchemaInv, ActionsInv, Declared, ActionEnvs, EnvsOf
    <2> QED BY <2>2, <2>3 DEF SchemaInv
<1> QED
    BY <1>1, <1>2, MakeTypesKeeps, LinkTypeKeeps, TypesLinkedKeeps, ApplyActionKeeps,
       GroupActionsKeeps DEF SchemaNext

\* The invariant is about what a user of the schema sees.
LEMMA SchemaInvUsable == SchemaInv => SchemaTypes /\ SchemaUsable
<1> SUFFICES ASSUME SchemaInv PROVE SchemaTypes /\ SchemaUsable
    OBVIOUS
<1>1. /\ entityTypes \in Seq(EntityRecords)
      /\ \A i \in DOMAIN entityTypes : entityTypes[i] \in EntityRecords
    BY DEF SchemaInv, TypesInv
<1>2. \A i \in DOMAIN entityTypes : /\ entityTypes[i].kind \in {"enum", "standard"}
                                    /\ entityTypes[i].memberOf = {}
    BY <1>1 DEF EntityRecords
<1>3. actions \in Seq(ActionRecords) /\ DOMAIN actions = 1..Len(actions)
    BY DEF SchemaInv, ActionsInv
<1>4. UNION {{i} \X ActionEnvs(i) : i \in DOMAIN actions} = EnvsOf(actions)
    BY DEF EnvsOf, ActionEnvs
<1>5. \A i \in DOMAIN actions : /\ actions[i].principals \subseteq principalTypes \cap Declared
                                /\ actions[i].resources \subseteq resourceTypes \cap Declared
    BY <1>3 DEF SchemaInv, ActionsInv
<1>6. names \in 0..MaxActions /\ Len(actions) <= names /\ Len(actions) \in Nat /\ Len(actions) <= MaxActions
    BY <1>3, SchemaConstants DEF SchemaInv, ActionsInv
<1>7. envs \in Nat /\ envs <= EnvLimit
    BY SchemaConstants DEF SchemaInv, ActionsInv
<1>8. SchemaTypes
    BY <1>2, <1>6, <1>7 DEF SchemaInv, TypesInv, ActionsInv, SchemaTypes
<1>9. Cardinality(EnvsOf(actions)) = envs
    BY DEF SchemaInv, ActionsInv
<1>10. SchemaUsable
    BY <1>2, <1>4, <1>5, <1>6, <1>7, <1>9 DEF SchemaInv, TypesInv, ActionsInv, OnlyAction, SchemaUsable
<1> QED BY <1>8, <1>10

\* Whatever is drawn, a schema that is made can be used, and generation panics only when the one
\* name is Action and there are no action groups.
THEOREM SchemaCorrect == SchemaSpec => [](SchemaTypes /\ SchemaUsable)
BY SchemaInitInv, SchemaStepInv, SchemaInvUsable, PTL DEF SchemaSpec

-----------------------------------------------------------------------------
(***************************************************************************)
(* InputGeneration. A drawn schema allows no parents, so the hierarchy for *)
(* it has no cycle, and each of its types has an entity as soon as the     *)
(* UIDs are there; a request takes its types from one environment.         *)
(***************************************************************************)

\* There is an entity of every type.
EveryTypeHasOne == \A t \in TypeNumbers : \E y \in pool : y[1] = t

\* The request is in an environment of the schema.
RequestFits ==
    /\ request[2][1] \in TypeNumbers /\ request[3][1] \in TypeNumbers
    /\ <<entityTypes[request[2][1]].name, entityTypes[request[3][1]].name>> \in ActionEnvs(request[1])

InputInv ==
    /\ SchemaInv /\ HierarchyInv
    /\ inputStage \in {"schema", "hierarchy", "requested", "file"}
    /\ inputStage # "file" => mode = "schema" /\ allowedParents = {}
    /\ inputStage = "schema" => hierarchyStage = "uids" /\ pool = {} /\ linked = {} /\ edges = {}
    /\ mode = "schema" /\ hierarchyStage \in {"parents", "ready", "cyclic"} => EveryTypeHasOne
    /\ request # NoRequest <=> inputStage = "requested"
    /\ inputStage = "requested" => hierarchyStage \in {"parents", "ready", "cyclic"} /\ RequestFits

\* A schema is drawn, or was given.
LEMMA InputInitInv == InputInit => InputInv
<1>1. CASE DrawnInit
    <2>1. SchemaInv
        BY <1>1, SchemaInitInv DEF DrawnInit
    <2>2. HierarchyInv
        BY <1>1, HierarchyConstants DEF DrawnInit, HierarchyInv, HierarchyTypes, TypeNumbers
    <2> QED BY <1>1, <2>1, <2>2 DEF DrawnInit, InputInv
<1>2. CASE GivenInit
    <2>1. entityTypes = <<>> /\ drawn = <<>> /\ actions = <<>> /\ schemaStage = "failed"
        BY <1>2 DEF GivenInit
    <2>2. EnvsOf(actions) = {} /\ Declared = {}
        BY <2>1 DEF EnvsOf, Declared
    <2>3. IsFiniteSet(EnvsOf(actions)) /\ Cardinality(EnvsOf(actions)) = 0
        BY <2>2, FS_EmptySet
    <2>4. typeIds \in TypeIds /\ groups = TRUE
        BY <1>2, InputConstants DEF GivenInit
    <2>5. typeIds \in Seq(STRING)
        BY <2>4, SchemaConstants
    <2>6. TypesInv
        BY <2>1, <2>2, <2>4, <2>5 DEF TypesInv, SchemaStages
    <2>7. ActionsInv
        BY <1>2, <2>1, <2>3, SchemaConstants DEF GivenInit, ActionsInv
    <2>8. HierarchyInv
        BY <1>2, HierarchyInitInv DEF GivenInit
    <2> QED BY <1>2, <2>6, <2>7, <2>8 DEF GivenInit, HierarchyInit, InputInv, SchemaInv
<1> QED BY <1>1, <1>2 DEF InputInit

\* The steps that draw a schema leave the hierarchy alone.
LEMMA DrawSchemaKeeps == InputInv /\ DrawSchema => InputInv'
<1> SUFFICES ASSUME InputInv, DrawSchema PROVE InputInv'
    OBVIOUS
<1>1. SchemaInv'
    BY SchemaStepInv DEF InputInv, DrawSchema
<1>2. UNCHANGED <<hierarchyVars, inputStage, request>> /\ inputStage = "schema"
    BY DEF DrawSchema
<1>3. HierarchyInv'
    BY <1>2, HierarchyStepInv DEF InputInv
<1> QED BY <1>1, <1>2, <1>3 DEF InputInv, hierarchyVars

\* The types of a schema allow no parents.
LEMMA StartHierarchyKeeps == InputInv /\ StartHierarchy => InputInv'
<1> SUFFICES ASSUME InputInv, StartHierarchy PROVE InputInv'
    OBVIOUS
<1>1. entityTypes \in Seq(EntityRecords) /\ Len(entityTypes) <= Len(typeIds) /\ typeIds \in TypeIds
    BY DEF InputInv, SchemaInv, TypesInv
<1>2. /\ inputStage = "schema" /\ inputStage' = "hierarchy" /\ typeCount' = Len(entityTypes)
      /\ allowedParents' = {e \in (DOMAIN entityTypes) \X (DOMAIN entityTypes) :
                               entityTypes[e[2]].name \in entityTypes[e[1]].memberOf}
      /\ UNCHANGED <<schemaVars, mode, pool, linked, edges, hierarchyStage, request>>
    BY DEF StartHierarchy
<1>3. typeCount' \in 0..MaxTypes
    <2>1. Len(entityTypes) \in Nat /\ Len(typeIds) \in Nat /\ Len(typeIds) <= MaxTypes
        BY <1>1, InputConstants, SchemaConstants
    <2> QED BY <1>1, <1>2, <2>1, HierarchyConstants
<1>4. allowedParents' = {}
    <2>1. \A i \in DOMAIN entityTypes : entityTypes[i] \in EntityRecords
        BY <1>1
    <2>2. \A i \in DOMAIN entityTypes : entityTypes[i].memberOf = {}
        BY <2>1 DEF EntityRecords
    <2> QED BY <1>2, <2>2
<1>5. SchemaInv'
    BY <1>2, SchemaStepInv DEF InputInv
<1>6. mode = "schema" /\ pool = {} /\ linked = {} /\ edges = {} /\ hierarchyStage = "uids" /\ request = NoRequest
    BY <1>2 DEF InputInv
<1>7. HierarchyInv'
    BY <1>2, <1>3, <1>4, <1>6 DEF HierarchyInv, HierarchyTypes, TypeNumbers, Uids
<1> QED BY <1>2, <1>4, <1>5, <1>6, <1>7 DEF InputInv

\* Every type is given a UID, and keeps it unless the generation fails.
LEMMA UidsOfEveryType ==
    ASSUME InputInv, mode = "schema",
           GenerateUids \/ (hierarchyStage = "parents" /\ UNCHANGED <<pool, typeCount>>)
    PROVE  EveryTypeHasOne'
<1>1. CASE GenerateUids
    <2>1. PICK many \in [TypeNumbers -> Fewest..MaxWidth] : pool' = {x \in Uids : x[2] <= many[x[1]]}
        BY <1>1 DEF GenerateUids
    <2>2. ASSUME NEW t \in TypeNumbers PROVE <<t, 1>> \in pool'
        <3>1. many[t] \in 1..MaxWidth
            BY <2>1, <2>2 DEF Fewest
        <3>2. 1 \in 1..MaxWidth /\ 1 <= many[t]
            BY <3>1, HierarchyConstants
        <3> QED BY <2>1, <2>2, <3>2 DEF Uids
    <2>3. TypeNumbers' = TypeNumbers
        BY <1>1 DEF GenerateUids, TypeNumbers
    <2>4. \A t \in TypeNumbers : <<t, 1>> \in pool' /\ <<t, 1>>[1] = t
        BY <2>2
    <2> QED BY <2>3, <2>4 DEF EveryTypeHasOne
<1>2. CASE hierarchyStage = "parents" /\ UNCHANGED <<pool, typeCount>>
    BY <1>2 DEF InputInv, EveryTypeHasOne, TypeNumbers
<1> QED BY <1>1, <1>2

\* The steps of the hierarchy generator.
LEMMA DrawHierarchyKeeps == InputInv /\ DrawHierarchy => InputInv'
<1> SUFFICES ASSUME InputInv, DrawHierarchy PROVE InputInv'
    OBVIOUS
<1>1. inputStage \in {"hierarchy", "file"} /\ UNCHANGED <<schemaVars, inputStage, request>>
    BY DEF DrawHierarchy
<1>2. SchemaInv'
    BY <1>1, SchemaStepInv DEF InputInv
<1>3. HierarchyInv'
    BY HierarchyStepInv DEF InputInv, DrawHierarchy, HierarchyNext
<1>4. UNCHANGED <<mode, allowedParents>>
    BY DEF DrawHierarchy, HierarchyFails, GenerateUids, MakeEntity
<1>5. mode' = "schema" /\ hierarchyStage' \in {"parents", "ready", "cyclic"} => EveryTypeHasOne'
    <2>1. CASE HierarchyFails
        BY <2>1 DEF HierarchyFails
    <2>2. CASE GenerateUids
        BY <1>4, <2>2, UidsOfEveryType
    <2>3. CASE MakeEntity
        BY <1>4, <2>3, UidsOfEveryType DEF MakeEntity
    <2> QED BY <2>1, <2>2, <2>3 DEF DrawHierarchy
<1> QED BY <1>1, <1>2, <1>3, <1>4, <1>5 DEF InputInv

\* The types of a request are those of an action, and have numbers.
LEMMA DrawRequestKeeps == InputInv /\ DrawRequest => InputInv'
<1> SUFFICES ASSUME InputInv, DrawRequest PROVE InputInv'
    OBVIOUS
<1>1. inputStage = "hierarchy" /\ hierarchyStage = "parents" /\ UNCHANGED schemaVars
    BY DEF DrawRequest
<1>2. SchemaInv'
    BY <1>1, SchemaStepInv DEF InputInv
<1>3. CASE HierarchyFails /\ UNCHANGED <<inputStage, request>>
    <2>1. HierarchyInv'
        BY <1>3, HierarchyStepInv DEF InputInv, HierarchyNext
    <2> QED BY <1>1, <1>2, <1>3, <2>1 DEF InputInv, HierarchyFails
<1>4. CASE ~(HierarchyFails /\ UNCHANGED <<inputStage, request>>)
    <2>1. PICK i \in DOMAIN actions : \E p \in actions[i].principals, r \in actions[i].resources :
              \E x \in OfType(p), y \in OfType(r) : request' = <<i, x, y>>
        BY <1>4 DEF DrawRequest
    <2>2. PICK p \in actions[i].principals, r \in actions[i].resources :
              \E x \in OfType(p), y \in OfType(r) : request' = <<i, x, y>>
        BY <2>1
    <2>3. PICK x \in OfType(p), y \in OfType(r) : request' = <<i, x, y>>
        BY <2>2
    <2>4. inputStage' = "requested" /\ UNCHANGED hierarchyVars
        BY <1>4 DEF DrawRequest
    <2>5. HierarchyInv'
        BY <2>4, HierarchyStepInv DEF InputInv
    <2>6. \A z \in pool : z[1] \in TypeNumbers
        BY DEF InputInv, HierarchyInv, HierarchyTypes, Uids
    <2>7. /\ x[1] \in TypeNumbers /\ entityTypes[x[1]].name = p
          /\ y[1] \in TypeNumbers /\ entityTypes[y[1]].name = r
        BY <2>6 DEF OfType
    <2>8. UNCHANGED <<entityTypes, actions, typeCount, pool, mode, allowedParents, hierarchyStage>>
        BY <1>1, <2>4 DEF schemaVars, hierarchyVars
    <2>9. request'[1] = i /\ request'[2] = x /\ request'[3] = y /\ request' # NoRequest
        BY <2>3 DEF NoRequest
    <2>10. RequestFits'
        <3>1. TypeNumbers' = TypeNumbers
            BY <2>8 DEF TypeNumbers
        <3>2. ActionEnvs(i)' = ActionEnvs(i)
            BY <2>8 DEF ActionEnvs
        <3>3. <<p, r>> \in ActionEnvs(i)
            BY DEF ActionEnvs
        <3>4. ActionEnvs(request[1])' = actions'[i].principals \X actions'[i].resources
            BY <2>9 DEF ActionEnvs
        <3> QED BY <2>7, <2>8, <2>9, <3>1, <3>3, <3>4 DEF RequestFits, ActionEnvs
    <2>11. EveryTypeHasOne'
        BY <1>1, <2>8 DEF InputInv, EveryTypeHasOne, TypeNumbers
    <2> QED BY <1>1, <1>2, <2>4, <2>5, <2>8, <2>9, <2>10, <2>11 DEF InputInv
<1> QED BY <1>3, <1>4

\* The conversion changes nothing but the stage.
LEMMA DrawEntitiesKeeps == InputInv /\ DrawEntities => InputInv'
<1> SUFFICES ASSUME InputInv, DrawEntities PROVE InputInv'
    OBVIOUS
<1>1. /\ inputStage \in {"requested", "file"} /\ hierarchyStage = "parents"
      /\ hierarchyStage' \in {"ready", "cyclic"}
      /\ UNCHANGED <<schemaVars, inputStage, request, mode, typeCount, allowedParents, pool, linked, edges>>
    BY DEF DrawEntities, ConvertHierarchy
<1>2. SchemaInv'
    BY <1>1, SchemaStepInv DEF InputInv
<1>3. HierarchyInv'
    BY HierarchyStepInv DEF InputInv, DrawEntities, HierarchyNext
<1>4. mode = "schema" => EveryTypeHasOne'
    BY <1>1 DEF InputInv, EveryTypeHasOne, TypeNumbers
<1>5. inputStage = "requested" => RequestFits'
    BY <1>1 DEF InputInv, RequestFits, ActionEnvs, TypeNumbers, schemaVars
<1> QED BY <1>1, <1>2, <1>3, <1>4, <1>5 DEF InputInv

\* So does every step, and a step that does nothing.
LEMMA InputStepInv == InputInv /\ [InputNext]_inputVars => InputInv'
<1>1. ASSUME InputInv, UNCHANGED inputVars PROVE InputInv'
    <2>1. UNCHANGED <<schemaVars, hierarchyVars, inputStage, request>>
        BY <1>1 DEF inputVars
    <2>2. SchemaInv' /\ HierarchyInv'
        BY <1>1, <2>1, SchemaStepInv, HierarchyStepInv DEF InputInv
    <2>3. UNCHANGED <<mode, typeCount, allowedParents, pool, linked, edges, hierarchyStage, entityTypes, actions>>
        BY <2>1 DEF schemaVars, hierarchyVars
    <2> QED
        BY <1>1, <2>1, <2>2, <2>3 DEF InputInv, EveryTypeHasOne, TypeNumbers, RequestFits, ActionEnvs
<1> QED
    BY <1>1, DrawSchemaKeeps, StartHierarchyKeeps, DrawHierarchyKeeps, DrawRequestKeeps,
       DrawEntitiesKeeps DEF InputNext

\* A cycle would be one of types that allow each other as parents, and none is allowed.
LEMMA InputInvUsable == InputInv => InputTypes /\ InputsUsable
<1> SUFFICES ASSUME InputInv PROVE InputTypes /\ InputsUsable
    OBVIOUS
<1>1. SchemaUsable
    BY SchemaInvUsable DEF InputInv
<1>2. inputStage \in {"hierarchy", "requested"} => hierarchyStage # "cyclic"
    BY DEF InputInv, HierarchyInv, TypesCyclic
<1>3. ASSUME request # NoRequest
      PROVE  /\ <<entityTypes[request[2][1]].name, entityTypes[request[3][1]].name>> \in ActionEnvs(request[1])
             /\ \A x \in {request[2], request[3]} : \E y \in pool : y[1] = x[1]
    <2>1. RequestFits /\ EveryTypeHasOne
        BY <1>3 DEF InputInv
    <2> QED BY <2>1 DEF RequestFits, EveryTypeHasOne
<1>4. InputTypes
    BY SchemaInvUsable DEF InputInv, HierarchyInv, InputTypes
<1> QED BY <1>1, <1>2, <1>3, <1>4 DEF InputsUsable

\* Whatever is drawn, or given, the targets can use it.
THEOREM InputsCorrect == InputSpec => [](InputTypes /\ InputsUsable)
BY InputInitInv, InputStepInv, InputInvUsable, PTL DEF InputSpec

-----------------------------------------------------------------------------
(***************************************************************************)
(* PolicyGenerator. What is still to be added has IDs of its own, different *)
(* from each other and from those in the policy set, and every link has a  *)
(* value for each slot of its template, whichever of the three targets     *)
(* made them and however many there are.                                   *)
(***************************************************************************)

Ids == DrawnIds \cup {PolicyIdOf(g) : g \in Nat} \cup {LinkIdOf(g, l) : g \in Nat, l \in Nat}
PolicyRecords == [id : Ids, scope : Scopes]
LinkRecords == [id : Ids, values : SUBSET Slots]

\* The IDs to be added are pairwise different.
DifferentIds(scs, lks) ==
    /\ \A i, j \in 1..Len(scs) : scs[i].id = scs[j].id => i = j
    /\ \A i, j \in 1..Len(scs) : \A k \in 1..Len(lks[i]) : lks[i][k].id # scs[j].id
    /\ \A i, j \in 1..Len(scs) : \A k \in 1..Len(lks[i]), l \in 1..Len(lks[j]) :
          lks[i][k].id = lks[j][l].id => i = j /\ k = l

\* Only what has slots has links, which have values for them; in the rbac target, all that has
\* slots does.
LinksFit(scs, lks) ==
    \A i \in 1..Len(scs) :
        /\ \A k \in 1..Len(lks[i]) : lks[i][k].values = SlotsOf(scs[i].scope)
        /\ lks[i] # <<>> => source = "rbac" /\ SlotsOf(scs[i].scope) # {}
        /\ source = "rbac" /\ SlotsOf(scs[i].scope) # {} => lks[i] # <<>>

Pending(scs, lks) ==
    /\ scs \in Seq(PolicyRecords) /\ lks \in Seq(Seq(LinkRecords)) /\ Len(lks) = Len(scs)
    /\ DifferentIds(scs, lks) /\ LinksFit(scs, lks)

\* The IDs that the rbac target makes.
RbacIds(scs, lks) ==
    \A i \in 1..Len(scs) :
        /\ scs[i].id = PolicyIdOf(i - 1)
        /\ \A k \in 1..Len(lks[i]) : lks[i][k].id = LinkIdOf(i - 1, k - 1)

TemplateOf(p) == [id |-> p.id, slots |-> SlotsOf(p.scope), of |-> p.id]

\* No ID to be added is in the policy set, but that of a template that is being linked.
NotAdded(scs, lks, linking) ==
    \A i \in 1..Len(scs) : \A p \in added :
        /\ p.id = scs[i].id => linking /\ i = 1
        /\ \A k \in 1..Len(lks[i]) : p.id # lks[i][k].id

\* Every ID in the policy set stands for one policy, and every link for a template.
AddedWhole ==
    /\ \A p, q \in added : p.id = q.id => p = q
    /\ \A p \in added : p.of # p.id => \E t \in added : t.id = p.of /\ t.slots # {}

\* A template of the rbac target has a link, or is being linked.
TemplatesLinked ==
    source = "rbac" => \A t \in added :
        t.slots # {} => \/ \E p \in added : p.of = t.id /\ p # t
                        \/ policyStage = "link" /\ t.id = scopes[1].id

PolicyInv ==
    /\ source \in {"rbac", "policyset", "abac"}
    /\ policyStage \in {"policies", "add", "link", "built", "failed"}
    /\ Pending(scopes, links) /\ Len(scopes) <= MaxPolicies + 1
    /\ policyStage = "policies" => added = {} /\ (source = "rbac" => RbacIds(scopes, links))
    /\ policyStage \in {"built", "failed"} => scopes = <<>>
    /\ policyStage = "link" => scopes # <<>> /\ links[1] # <<>> /\ TemplateOf(scopes[1]) \in added
    /\ NotAdded(scopes, links, policyStage = "link")
    /\ AddedWhole /\ TemplatesLinked

-----------------------------------------------------------------------------
(* What is to be added *)

\* Nothing is.
LEMMA NothingPending == Pending(<<>>, <<>>)
BY DEF Pending, DifferentIds, LinksFit

\* The IDs of the rbac target are different: their parts tell them apart.
LEMMA RbacIdsDiffer ==
    ASSUME NEW scs \in Seq(PolicyRecords), NEW lks \in Seq(Seq(LinkRecords)), Len(lks) = Len(scs),
           RbacIds(scs, lks)
    PROVE  DifferentIds(scs, lks)
<1>1. \A i, j \in 1..Len(scs) : scs[i].id = scs[j].id => i = j
    BY DEF RbacIds, PolicyIdOf
<1>2. ASSUME NEW i \in 1..Len(scs), NEW j \in 1..Len(scs), NEW k \in 1..Len(lks[i])
      PROVE  lks[i][k].id # scs[j].id
    <2>1. lks[i][k].id = <<"t", i - 1, "l", k - 1>> /\ scs[j].id = <<"p", j - 1>>
        BY DEF RbacIds, PolicyIdOf, LinkIdOf
    <2>2. lks[i][k].id[1] = "t" /\ scs[j].id[1] = "p"
        BY <2>1
    <2> QED BY <2>2
<1>3. ASSUME NEW i \in 1..Len(scs), NEW j \in 1..Len(scs),
             NEW k \in 1..Len(lks[i]), NEW l \in 1..Len(lks[j]), lks[i][k].id = lks[j][l].id
      PROVE  i = j /\ k = l
    <2>1. lks[i][k].id = <<"t", i - 1, "l", k - 1>> /\ lks[j][l].id = <<"t", j - 1, "l", l - 1>>
        BY DEF RbacIds, LinkIdOf
    <2>2. <<"t", i - 1, "l", k - 1>>[2] = <<"t", j - 1, "l", l - 1>>[2]
          /\ <<"t", i - 1, "l", k - 1>>[4] = <<"t", j - 1, "l", l - 1>>[4]
        BY <1>3, <2>1
    <2>5. i - 1 = j - 1 /\ k - 1 = l - 1
        BY <2>2
    <2>3. lks[i] \in Seq(LinkRecords) /\ lks[j] \in Seq(LinkRecords)
        OBVIOUS
    <2>4. i \in Int /\ j \in Int /\ k \in Int /\ l \in Int
        BY <2>3
    <2> QED BY <2>4, <2>5
<1> QED BY <1>1, <1>2, <1>3 DEF DifferentIds

\* The target does not change.
LEMMA StillPending ==
    ASSUME NEW scs, NEW lks, Pending(scs, lks), scopes' = scs, links' = lks, UNCHANGED source
    PROVE  Pending(scopes, links)'
<1>1. DifferentIds(scopes, links)'
    BY DEF Pending, DifferentIds
<1>2. LinksFit(scopes, links)'
    BY DEF Pending, LinksFit
<1> QED BY <1>1, <1>2 DEF Pending

\* A policy goes, with its links.
LEMMA TailPending ==
    ASSUME NEW scs, NEW lks, Pending(scs, lks), scs # <<>>
    PROVE  /\ Pending(Tail(scs), Tail(lks))
           /\ Len(Tail(scs)) = Len(scs) - 1
           /\ \A i \in 1..Len(Tail(scs)) : /\ i + 1 \in 1..Len(scs) /\ Tail(scs)[i] = scs[i + 1]
                                           /\ Tail(lks)[i] = lks[i + 1]
<1>1. scs \in Seq(PolicyRecords) /\ lks \in Seq(Seq(LinkRecords)) /\ Len(lks) = Len(scs) /\ lks # <<>>
    BY DEF Pending
<1>2. PICK ts, tl : ts = Tail(scs) /\ tl = Tail(lks)
    OBVIOUS
<1>3. /\ ts \in Seq(PolicyRecords) /\ tl \in Seq(Seq(LinkRecords))
      /\ Len(ts) = Len(scs) - 1 /\ Len(tl) = Len(scs) - 1
      /\ \A i \in 1..Len(ts) : ts[i] = scs[i + 1] /\ tl[i] = lks[i + 1]
    BY <1>1, <1>2, HeadTailProperties
<1>4. \A i \in 1..Len(ts) : i + 1 \in 1..Len(scs)
    BY <1>1, <1>3
<1>5. DifferentIds(ts, tl)
    <2>0. DifferentIds(scs, lks)
        BY DEF Pending
    <2>1. ASSUME NEW i \in 1..Len(ts), NEW j \in 1..Len(ts), ts[i].id = ts[j].id PROVE i = j
        <3>1. i + 1 \in 1..Len(scs) /\ j + 1 \in 1..Len(scs) /\ scs[i + 1].id = scs[j + 1].id
            BY <1>3, <1>4, <2>1
        <3>2. i + 1 = j + 1
            BY <2>0, <3>1 DEF DifferentIds
        <3> QED BY <3>2
    <2>2. ASSUME NEW i \in 1..Len(ts), NEW j \in 1..Len(ts), NEW k \in 1..Len(tl[i])
          PROVE  tl[i][k].id # ts[j].id
        <3>1. /\ i + 1 \in 1..Len(scs) /\ j + 1 \in 1..Len(scs) /\ k \in 1..Len(lks[i + 1])
              /\ tl[i][k] = lks[i + 1][k] /\ ts[j] = scs[j + 1]
            BY <1>3, <1>4
        <3> QED BY <2>0, <3>1 DEF DifferentIds
    <2>3. ASSUME NEW i \in 1..Len(ts), NEW j \in 1..Len(ts),
                 NEW k \in 1..Len(tl[i]), NEW l \in 1..Len(tl[j]), tl[i][k].id = tl[j][l].id
          PROVE  i = j /\ k = l
        <3>1. /\ i + 1 \in 1..Len(scs) /\ j + 1 \in 1..Len(scs)
              /\ k \in 1..Len(lks[i + 1]) /\ l \in 1..Len(lks[j + 1])
              /\ lks[i + 1][k].id = lks[j + 1][l].id
            BY <1>3, <1>4, <2>3
        <3>2. i + 1 = j + 1 /\ k = l
            BY <2>0, <3>1 DEF DifferentIds
        <3> QED BY <3>2
    <2> QED BY <2>1, <2>2, <2>3 DEF DifferentIds
<1>6. LinksFit(ts, tl)
    BY <1>3, <1>4 DEF Pending, LinksFit
<1> QED BY <1>2, <1>3, <1>4, <1>5, <1>6 DEF Pending

\* The links when the first one is gone and there are more of its template.
OneGone(lks, new) ==
    /\ lks[1] # <<>> /\ Tail(lks[1]) # <<>>
    /\ new \in Seq(Seq(LinkRecords)) /\ Len(new) = Len(lks) /\ new[1] = Tail(lks[1])
    /\ \A i \in 1..Len(lks) : i # 1 => new[i] = lks[i]

\* They are some of those that were there.
SomeOf(scs, lks, new) ==
    \A i \in 1..Len(scs) : \A k \in 1..Len(new[i]) :
        \E m \in 1..Len(lks[i]) : new[i][k] = lks[i][m] /\ (i = 1 => m = k + 1)

\* They are still to be added.
LEMMA RestPending ==
    ASSUME NEW scs, NEW lks, NEW new, Pending(scs, lks), scs # <<>>, OneGone(lks, new)
    PROVE  Pending(scs, new) /\ new[1] # <<>> /\ SomeOf(scs, lks, new)
<1>1. /\ scs \in Seq(PolicyRecords) /\ lks \in Seq(Seq(LinkRecords)) /\ Len(lks) = Len(scs)
      /\ Len(scs) \in Nat \ {0} /\ 1 \in 1..Len(lks)
    BY DEF Pending
<1>2. lks[1] \in Seq(LinkRecords)
    BY <1>1
<1>3. PICK rest : rest = Tail(lks[1])
    OBVIOUS
<1>4. /\ rest \in Seq(LinkRecords) /\ Len(rest) = Len(lks[1]) - 1
      /\ \A k \in 1..Len(rest) : rest[k] = lks[1][k + 1]
    BY <1>2, <1>3, HeadTailProperties DEF OneGone
<1>6. /\ new \in Seq(Seq(LinkRecords)) /\ Len(new) = Len(scs)
      /\ new[1] = rest /\ \A i \in 1..Len(scs) : i # 1 => new[i] = lks[i]
    BY <1>1, <1>3 DEF OneGone
<1> DEFINE m(i, k) == IF i = 1 THEN k + 1 ELSE k
<1>7. ASSUME NEW i \in 1..Len(scs), NEW k \in 1..Len(new[i])
      PROVE  m(i, k) \in 1..Len(lks[i]) /\ new[i][k] = lks[i][m(i, k)] /\ k \in Int
    <2>1. CASE i = 1
        <3>1. k \in 1..(Len(lks[1]) - 1) /\ Len(lks[1]) \in Nat
            BY <1>2, <1>4, <1>6, <2>1
        <3>2. k + 1 \in 1..Len(lks[1])
            BY <3>1
        <3> QED BY <1>4, <1>6, <2>1, <3>1, <3>2
    <2>2. CASE i # 1
        <3>1. lks[i] \in Seq(LinkRecords) /\ new[i] = lks[i]
            BY <1>1, <1>6, <2>2
        <3> QED BY <2>2, <3>1
    <2> QED BY <2>1, <2>2
<1>8. \A i \in 1..Len(scs) : \A k, l \in Int : m(i, k) = m(i, l) => k = l
    OBVIOUS
<1> HIDE DEF m
<1>9. DifferentIds(scs, new)
    <2>0. DifferentIds(scs, lks)
        BY DEF Pending
    <2>1. \A i, j \in 1..Len(scs) : scs[i].id = scs[j].id => i = j
        BY DEF Pending, DifferentIds
    <2>2. ASSUME NEW i \in 1..Len(scs), NEW j \in 1..Len(scs), NEW k \in 1..Len(new[i])
          PROVE  new[i][k].id # scs[j].id
        <3>1. m(i, k) \in 1..Len(lks[i]) /\ new[i][k] = lks[i][m(i, k)]
            BY <1>7
        <3> QED BY <2>0, <3>1 DEF DifferentIds
    <2>3. ASSUME NEW i \in 1..Len(scs), NEW j \in 1..Len(scs),
                 NEW k \in 1..Len(new[i]), NEW l \in 1..Len(new[j]), new[i][k].id = new[j][l].id
          PROVE  i = j /\ k = l
        <3>1. lks[i][m(i, k)].id = lks[j][m(j, l)].id
              /\ m(i, k) \in 1..Len(lks[i]) /\ m(j, l) \in 1..Len(lks[j]) /\ k \in Int /\ l \in Int
            BY <1>7, <2>3
        <3>2. i = j /\ m(i, k) = m(j, l)
            BY <2>0, <3>1 DEF DifferentIds
        <3> QED BY <1>8, <3>1, <3>2
    <2> QED BY <2>1, <2>2, <2>3 DEF DifferentIds
<1>10. LinksFit(scs, new)
    <2> SUFFICES ASSUME NEW i \in 1..Len(scs)
                 PROVE  /\ \A k \in 1..Len(new[i]) : new[i][k].values = SlotsOf(scs[i].scope)
                        /\ new[i] # <<>> => source = "rbac" /\ SlotsOf(scs[i].scope) # {}
                        /\ source = "rbac" /\ SlotsOf(scs[i].scope) # {} => new[i] # <<>>
        BY DEF LinksFit
    <2>1. \A k \in 1..Len(new[i]) : new[i][k].values = SlotsOf(scs[i].scope)
        <3> SUFFICES ASSUME NEW k \in 1..Len(new[i]) PROVE new[i][k].values = SlotsOf(scs[i].scope)
            OBVIOUS
        <3>1. m(i, k) \in 1..Len(lks[i]) /\ new[i][k] = lks[i][m(i, k)]
            BY <1>7
        <3>2. LinksFit(scs, lks)
            BY DEF Pending
        <3> QED BY <3>1, <3>2 DEF LinksFit
    <2>2. new[i] # <<>> <=> lks[i] # <<>>
        BY <1>3, <1>6 DEF OneGone
    <2> QED BY <2>1, <2>2 DEF Pending, LinksFit
<1>11. Pending(scs, new)
    BY <1>1, <1>6, <1>9, <1>10 DEF Pending
<1>12. \A i \in 1..Len(scs) : \A k \in 1..Len(new[i]) :
           \E n \in 1..Len(lks[i]) : new[i][k] = lks[i][n] /\ (i = 1 => n = k + 1)
    <2>1. \A i, k : i = 1 => m(i, k) = k + 1
        BY DEF m
    <2> QED BY <1>7, <2>1
<1> QED BY <1>3, <1>6, <1>11, <1>12 DEF OneGone, SomeOf

-----------------------------------------------------------------------------
(* Making policies *)

\* There is nothing to begin with, and nothing when the generation fails.
LEMMA PolicyInitInv == PolicyInit => PolicyInv
BY NothingPending, PolicyConstants
   DEF PolicyInit, PolicyInv, RbacIds, NotAdded, AddedWhole, TemplatesLinked

LEMMA PolicyFailsKeeps == PolicyInv /\ PolicyFails => PolicyInv'
<1> SUFFICES ASSUME PolicyInv, PolicyFails PROVE PolicyInv'
    OBVIOUS
<1>1. /\ added = {} /\ scopes' = <<>> /\ links' = <<>> /\ policyStage' = "failed"
      /\ UNCHANGED <<source, added>>
    BY DEF PolicyFails, PolicyInv
<1>2. Pending(scopes, links)'
    BY <1>1 DEF Pending, DifferentIds, LinksFit
<1> QED BY <1>1, <1>2, PolicyConstants DEF PolicyInv, NotAdded, AddedWhole, TemplatesLinked

\* A policy is made at the end, before anything is added.
LEMMA MadeKeeps ==
    ASSUME PolicyInv, policyStage = "policies", NEW p \in PolicyRecords, NEW ls \in Seq(LinkRecords),
           scopes' = Append(scopes, p), links' = Append(links, ls),
           UNCHANGED <<source, added, policyStage>>, Len(scopes') <= MaxPolicies + 1,
           source = "rbac" => /\ p.id = PolicyIdOf(Len(scopes))
                              /\ \A k \in 1..Len(ls) : ls[k].id = LinkIdOf(Len(scopes), k - 1)
                              /\ SlotsOf(p.scope) # {} <=> ls # <<>>
                              /\ \A k \in 1..Len(ls) : ls[k].values = SlotsOf(p.scope),
           source # "rbac" => ls = <<>> /\ IsNew(p.id)
    PROVE  PolicyInv'
<1>1. scopes \in Seq(PolicyRecords) /\ links \in Seq(Seq(LinkRecords)) /\ Len(links) = Len(scopes)
    BY DEF PolicyInv, Pending
<1>2. PICK n : n = Len(scopes)
    OBVIOUS
<1>3. /\ scopes' \in Seq(PolicyRecords) /\ Len(scopes') = n + 1 /\ n \in Nat
      /\ \A i \in 1..n : scopes'[i] = scopes[i]
      /\ scopes'[n + 1] = p
    BY <1>1, <1>2, AppendProperties
<1>4. /\ links' \in Seq(Seq(LinkRecords)) /\ Len(links') = n + 1
      /\ \A i \in 1..n : links'[i] = links[i]
      /\ links'[n + 1] = ls
    BY <1>1, <1>2, AppendProperties
<1>5. \A i \in 1..(n + 1) : i \in 1..n \/ i = n + 1
    BY <1>3
<1>6. source = "rbac" => RbacIds(scopes', links')
    <2> SUFFICES ASSUME source = "rbac", NEW i \in 1..(n + 1)
                 PROVE  /\ scopes'[i].id = PolicyIdOf(i - 1)
                        /\ \A k \in 1..Len(links'[i]) : links'[i][k].id = LinkIdOf(i - 1, k - 1)
        BY <1>3 DEF RbacIds
    <2>1. CASE i \in 1..n
        BY <1>2, <1>3, <1>4, <2>1 DEF PolicyInv, RbacIds
    <2>2. CASE i = n + 1
        <3>1. i - 1 = n
            BY <1>3, <2>2
        <3> QED BY <1>2, <1>3, <1>4, <2>2, <3>1
    <2> QED BY <1>5, <2>1, <2>2
<1>7. DifferentIds(scopes', links')
    <2>1. CASE source = "rbac"
        BY <1>3, <1>4, <1>6, <2>1, RbacIdsDiffer
    <2>2. CASE source # "rbac"
        <3>1. \A i \in 1..n : links[i] = <<>>
            BY <1>2, <2>2 DEF PolicyInv, Pending, LinksFit
        <3>2. \A i \in 1..(n + 1) : Len(links'[i]) = 0
            BY <1>4, <1>5, <2>2, <3>1
        <3>6. IsNew(p.id) /\ DOMAIN scopes = 1..n
            BY <1>1, <1>2, <2>2
        <3>3. \A i \in 1..n : scopes[i].id # p.id
            BY <3>6 DEF IsNew
        <3>4. \A i, j \in 1..n : scopes[i].id = scopes[j].id => i = j
            BY <1>2 DEF PolicyInv, Pending, DifferentIds
        <3>5. ASSUME NEW i \in 1..(n + 1), NEW j \in 1..(n + 1), scopes'[i].id = scopes'[j].id
              PROVE  i = j
            BY <1>3, <1>5, <3>3, <3>4, <3>5
        <3>7. ASSUME NEW i \in 1..(n + 1), NEW k \in 1..Len(links'[i]) PROVE FALSE
            <4>1. Len(links'[i]) = 0
                BY <3>2
            <4> QED BY <4>1
        <3> QED BY <1>3, <3>5, <3>7 DEF DifferentIds
    <2> QED BY <2>1, <2>2
<1>8. LinksFit(scopes', links')
    <2> SUFFICES ASSUME NEW i \in 1..(n + 1)
                 PROVE  /\ \A k \in 1..Len(links'[i]) : links'[i][k].values = SlotsOf(scopes'[i].scope)
                        /\ links'[i] # <<>> => source = "rbac" /\ SlotsOf(scopes'[i].scope) # {}
                        /\ source = "rbac" /\ SlotsOf(scopes'[i].scope) # {} => links'[i] # <<>>
        BY <1>3 DEF LinksFit
    <2>1. CASE i \in 1..n
        <3>1. LinksFit(scopes, links) /\ i \in 1..Len(scopes)
            BY <1>2, <2>1 DEF PolicyInv, Pending
        <3>2. scopes'[i] = scopes[i] /\ links'[i] = links[i]
            BY <1>3, <1>4, <2>1
        <3> QED BY <3>1, <3>2 DEF LinksFit
    <2>2. CASE i = n + 1
        BY <1>3, <1>4, <2>2
    <2> QED BY <1>5, <2>1, <2>2
<1>9. Pending(scopes, links)'
    BY <1>3, <1>4, <1>7, <1>8 DEF Pending, DifferentIds, LinksFit
<1>10. added' = {}
    BY DEF PolicyInv
<1>11. source' = "rbac" => RbacIds(scopes', links')
    BY <1>6
<1> QED
    BY <1>9, <1>10, <1>11 DEF PolicyInv, NotAdded, AddedWhole, TemplatesLinked, RbacIds

\* A group, a policy of a generated policy set, or the policy of an abac target.
LEMMA MakeGroupKeeps == PolicyInv /\ MakeGroup => PolicyInv'
<1> SUFFICES ASSUME PolicyInv, MakeGroup PROVE PolicyInv'
    OBVIOUS
<1>1. PICK g : g = Len(scopes)
    OBVIOUS
<1>2. g \in Nat /\ g < MaxPolicies /\ policyStage = "policies" /\ source = "rbac" /\ scopes \in Seq(PolicyRecords)
    BY <1>1 DEF MakeGroup, PolicyInv, Pending
<1>3. PICK scope \in Scopes :
          /\ scopes' = Append(scopes, [id |-> PolicyIdOf(g), scope |-> scope])
          /\ \E n \in IF SlotsOf(scope) = {} THEN {0} ELSE 1..MaxLinks :
                links' = Append(links, [i \in 1..n |-> [id |-> LinkIdOf(g, i - 1), values |-> ValuesOf(scope)]])
    BY <1>1 DEF MakeGroup
<1>4. PICK n \in IF SlotsOf(scope) = {} THEN {0} ELSE 1..MaxLinks :
          links' = Append(links, [i \in 1..n |-> [id |-> LinkIdOf(g, i - 1), values |-> ValuesOf(scope)]])
    BY <1>3
<1>5. PICK p, ls : p = [id |-> PolicyIdOf(g), scope |-> scope]
                   /\ ls = [i \in 1..n |-> [id |-> LinkIdOf(g, i - 1), values |-> SlotsOf(scope)]]
    OBVIOUS
<1>6. p \in PolicyRecords /\ p.id = PolicyIdOf(g) /\ p.scope = scope
    BY <1>2, <1>5 DEF PolicyRecords, Ids
<1>7. n \in Nat /\ (SlotsOf(scope) # {} <=> n > 0)
    BY <1>4, PolicyConstants
<1>8. \A i \in 1..n : ls[i] \in LinkRecords /\ ls[i].id = LinkIdOf(g, i - 1) /\ ls[i].values = SlotsOf(scope)
    <2>1. SlotsOf(scope) \in SUBSET Slots
        BY DEF SlotsOf
    <2>2. \A i \in 1..n : i - 1 \in Nat
        BY <1>7
    <2> QED BY <1>2, <1>5, <2>1, <2>2 DEF LinkRecords, Ids
<1>9. ls \in [1..n -> LinkRecords]
    BY <1>5, <1>8
<1>10. ls \in Seq(LinkRecords) /\ Len(ls) = n /\ (ls # <<>> <=> n > 0)
    BY <1>7, <1>9
<1>11. scopes' = Append(scopes, p) /\ links' = Append(links, ls)
    BY <1>3, <1>4, <1>5 DEF ValuesOf
<1>12. Len(scopes') = g + 1
    BY <1>1, <1>2, <1>6, <1>11, AppendProperties
<1>13. Len(scopes') <= MaxPolicies + 1
    BY <1>2, <1>12, PolicyConstants
<1>14. UNCHANGED <<source, added, policyStage>>
    BY DEF MakeGroup
<1>15. /\ p.id = PolicyIdOf(Len(scopes))
       /\ \A k \in 1..Len(ls) : ls[k].id = LinkIdOf(Len(scopes), k - 1)
       /\ SlotsOf(p.scope) # {} <=> ls # <<>>
       /\ \A k \in 1..Len(ls) : ls[k].values = SlotsOf(p.scope)
    BY <1>1, <1>6, <1>7, <1>8, <1>10
<1> QED BY <1>2, <1>6, <1>10, <1>11, <1>13, <1>14, <1>15, MadeKeeps

LEMMA MakePolicyKeeps == PolicyInv /\ MakePolicy => PolicyInv'
<1> SUFFICES ASSUME PolicyInv, MakePolicy PROVE PolicyInv'
    OBVIOUS
<1>1. PICK id \in DrawnIds, scope \in Scopes :
          /\ IsNew(id)
          /\ scopes' = Append(scopes, [id |-> id, scope |-> scope])
          /\ links' = Append(links, <<>>)
    BY DEF MakePolicy
<1>2. /\ source = "policyset" /\ policyStage = "policies" /\ Len(scopes) < MaxPolicies
      /\ UNCHANGED <<source, added, policyStage>>
    BY DEF MakePolicy
<1>3. PICK p : p = [id |-> id, scope |-> scope]
    OBVIOUS
<1>4. p \in PolicyRecords /\ p.id = id
    BY <1>3 DEF PolicyRecords, Ids
<1>5. scopes \in Seq(PolicyRecords)
    BY DEF PolicyInv, Pending
<1>6. Len(scopes') <= MaxPolicies + 1
    <2>1. Len(scopes') = Len(scopes) + 1
        BY <1>1, <1>3, <1>4, <1>5, AppendProperties
    <2> QED BY <1>2, <1>5, <2>1, PolicyConstants
<1>7. <<>> \in Seq(LinkRecords)
    OBVIOUS
<1> QED BY <1>1, <1>2, <1>3, <1>4, <1>6, <1>7, MadeKeeps

LEMMA MakeAbacPolicyKeeps == PolicyInv /\ MakeAbacPolicy => PolicyInv'
<1> SUFFICES ASSUME PolicyInv, MakeAbacPolicy PROVE PolicyInv'
    OBVIOUS
<1>1. PICK id \in DrawnIds : scopes' = <<[id |-> id, scope |-> [s \in Slots |-> "given"]]>>
    BY DEF MakeAbacPolicy
<1>2. /\ source = "abac" /\ policyStage = "policies" /\ scopes = <<>> /\ links' = << <<>> >>
      /\ UNCHANGED <<source, added, policyStage>>
    BY DEF MakeAbacPolicy
<1>3. links = <<>>
    BY <1>2 DEF PolicyInv, Pending
<1>4. PICK p : p = [id |-> id, scope |-> [s \in Slots |-> "given"]]
    OBVIOUS
<1>5. p \in PolicyRecords /\ p.id = id
    BY <1>4 DEF PolicyRecords, Ids, Scopes
<1>6. scopes' = Append(scopes, p) /\ links' = Append(links, <<>>)
    BY <1>1, <1>2, <1>3, <1>4
<1>7. Len(scopes') <= MaxPolicies + 1
    BY <1>1, PolicyConstants
<1>8. IsNew(p.id) /\ <<>> \in Seq(LinkRecords)
    BY <1>2 DEF IsNew
<1> QED BY <1>2, <1>5, <1>6, <1>7, <1>8, MadeKeeps

-----------------------------------------------------------------------------
(* Building the policy set *)

\* Nothing changes but the stage.
LEMMA StageKeeps ==
    ASSUME PolicyInv, UNCHANGED <<source, scopes, links, added>>,
           \/ policyStage' = policyStage
           \/ policyStage = "policies" /\ policyStage' = "add"
           \/ policyStage = "add" /\ policyStage' = "built" /\ scopes = <<>>
    PROVE  PolicyInv'
<1>1. Pending(scopes, links)'
    <2>1. PICK scs, lks : scs = scopes /\ lks = links
        OBVIOUS
    <2> QED BY <2>1, StillPending DEF PolicyInv
<1>2. NotAdded(scopes, links, policyStage = "link")'
    BY DEF PolicyInv, NotAdded
<1>3. AddedWhole' /\ TemplatesLinked'
    BY DEF PolicyInv, AddedWhole, TemplatesLinked
<1>4. source' = "rbac" /\ policyStage' = "policies" => RbacIds(scopes, links)'
    BY DEF PolicyInv, RbacIds
<1> QED BY <1>1, <1>2, <1>3, <1>4 DEF PolicyInv

\* What is left when the first policy goes is still to be added.
LEMMA TailStillPending ==
    ASSUME Pending(scopes, links), scopes # <<>>, scopes' = Tail(scopes), links' = Tail(links),
           UNCHANGED source
    PROVE  /\ Pending(scopes, links)'
           /\ Len(scopes') = Len(scopes) - 1
           /\ \A i \in 1..Len(scopes') : /\ i + 1 \in 1..Len(scopes) /\ scopes'[i] = scopes[i + 1]
                                         /\ links'[i] = links[i + 1]
<1>1. PICK scs, lks, ts, tl : scs = scopes /\ lks = links /\ ts = Tail(scs) /\ tl = Tail(lks)
    OBVIOUS
<1>2. /\ Pending(ts, tl)
      /\ Len(ts) = Len(scs) - 1
      /\ \A i \in 1..Len(ts) : i + 1 \in 1..Len(scs) /\ ts[i] = scs[i + 1] /\ tl[i] = lks[i + 1]
    <2>1. Pending(scs, lks) /\ scs # <<>>
        BY <1>1
    <2>2. /\ Pending(Tail(scs), Tail(lks))
          /\ Len(Tail(scs)) = Len(scs) - 1
          /\ \A i \in 1..Len(Tail(scs)) : /\ i + 1 \in 1..Len(scs) /\ Tail(scs)[i] = scs[i + 1]
                                          /\ Tail(lks)[i] = lks[i + 1]
        BY <2>1, TailPending
    <2> QED BY <1>1, <2>2
<1>3. scopes' = ts /\ links' = tl
    BY <1>1
<1>4. Pending(scopes, links)'
    BY <1>2, <1>3, StillPending
<1> QED BY <1>1, <1>2, <1>3, <1>4

\* What is next: a policy, with the IDs of its links.
LEMMA NextPolicy ==
    ASSUME PolicyInv, scopes # <<>>
    PROVE  /\ 1 \in 1..Len(scopes) /\ Head(scopes) = scopes[1] /\ Head(links) = links[1]
           /\ links[1] \in Seq(LinkRecords) /\ Len(scopes) \in Nat
<1>1. scopes \in Seq(PolicyRecords) /\ links \in Seq(Seq(LinkRecords)) /\ Len(links) = Len(scopes)
    BY DEF PolicyInv, Pending
<1>2. Len(scopes) \in Nat \ {0} /\ links # <<>>
    BY <1>1
<1> QED BY <1>1, <1>2

\* No ID that waits is in the policy set after a step.
LEMMA NoneIsAdded ==
    ASSUME \A i \in 1..Len(scopes') : \A p \in added' :
              /\ p.id # scopes'[i].id
              /\ \A k \in 1..Len(links'[i]) : p.id # links'[i][k].id
    PROVE  NotAdded(scopes, links, policyStage = "link")'
BY DEF NotAdded

\* A policy that has no links goes in.
LEMMA AddStaticKeeps ==
    ASSUME PolicyInv, policyStage = "add", scopes # <<>>, links[1] = <<>>,
           added' = added \cup {TemplateOf(scopes[1])}, scopes' = Tail(scopes), links' = Tail(links),
           UNCHANGED <<source, policyStage>>
    PROVE  PolicyInv'
<1>1. PICK t : t = TemplateOf(scopes[1])
    OBVIOUS
<1>2. t.id = scopes[1].id /\ t.of = t.id /\ t.slots = SlotsOf(scopes[1].scope)
    BY <1>1 DEF TemplateOf
<1>3. 1 \in 1..Len(scopes) /\ Len(scopes) \in Nat
    BY NextPolicy
<1>4. \A p \in added : p.id # t.id
    BY <1>2, <1>3 DEF PolicyInv, NotAdded
<1>5. /\ Pending(scopes, links)'
      /\ Len(scopes') = Len(scopes) - 1
      /\ \A i \in 1..Len(scopes') : /\ i + 1 \in 1..Len(scopes) /\ scopes'[i] = scopes[i + 1]
                                    /\ links'[i] = links[i + 1]
    BY TailStillPending DEF PolicyInv
<1>6. \A i \in 1..Len(scopes') : i + 1 # 1
    OBVIOUS
<1>7. ASSUME NEW i \in 1..Len(scopes'), NEW p \in added'
      PROVE  p.id # scopes'[i].id /\ \A k \in 1..Len(links'[i]) : p.id # links'[i][k].id
    <2>1. /\ i + 1 \in 1..Len(scopes) /\ scopes'[i] = scopes[i + 1] /\ links'[i] = links[i + 1]
          /\ i + 1 # 1
        BY <1>5, <1>6
    <2>2. CASE p \in added
        BY <2>1, <2>2 DEF PolicyInv, NotAdded
    <2>3. CASE p = t
        <3>1. DifferentIds(scopes, links)
            BY DEF PolicyInv, Pending
        <3>2. scopes[1].id # scopes[i + 1].id
            BY <1>3, <2>1, <3>1 DEF DifferentIds
        <3>3. \A k \in 1..Len(links[i + 1]) : links[i + 1][k].id # scopes[1].id
            BY <1>3, <2>1, <3>1 DEF DifferentIds
        <3> QED BY <1>2, <2>1, <2>3, <3>2, <3>3
    <2> QED BY <1>1, <2>2, <2>3
<1>8. NotAdded(scopes, links, policyStage = "link")'
    <2>1. \A i \in 1..Len(scopes') : \A p \in added' :
             /\ p.id # scopes'[i].id
             /\ \A k \in 1..Len(links'[i]) : p.id # links'[i][k].id
        BY <1>7, Zenon
    <2> QED BY <2>1, NoneIsAdded
<1>9. AddedWhole'
    BY <1>1, <1>2, <1>4 DEF PolicyInv, AddedWhole
<1>10. source = "rbac" => t.slots = {}
    BY <1>2, <1>3 DEF PolicyInv, Pending, LinksFit
<1>11. TemplatesLinked'
    BY <1>1, <1>10 DEF PolicyInv, TemplatesLinked
<1>12. Len(scopes') <= MaxPolicies + 1
    BY <1>3, <1>5, PolicyConstants DEF PolicyInv
<1> QED BY <1>5, <1>8, <1>9, <1>11, <1>12 DEF PolicyInv

\* A template goes in, and its links are next.
LEMMA AddTemplateKeeps ==
    ASSUME PolicyInv, policyStage = "add", scopes # <<>>, links[1] # <<>>,
           added' = added \cup {TemplateOf(scopes[1])}, policyStage' = "link",
           UNCHANGED <<source, scopes, links>>
    PROVE  PolicyInv'
<1>1. PICK t : t = TemplateOf(scopes[1])
    OBVIOUS
<1>2. t.id = scopes[1].id /\ t.of = t.id
    BY <1>1 DEF TemplateOf
<1>3. 1 \in 1..Len(scopes) /\ Len(scopes) \in Nat
    BY NextPolicy
<1>4. \A p \in added : p.id # t.id
    BY <1>2, <1>3 DEF PolicyInv, NotAdded
<1>5. Pending(scopes, links)' /\ DifferentIds(scopes, links)
    <2>1. PICK scs, lks : scs = scopes /\ lks = links
        OBVIOUS
    <2> QED BY <2>1, StillPending DEF PolicyInv, Pending
<1>6. ASSUME NEW i \in 1..Len(scopes), NEW p \in added'
      PROVE  /\ p.id = scopes[i].id => i = 1
             /\ \A k \in 1..Len(links[i]) : p.id # links[i][k].id
    <2>1. CASE p \in added
        BY <2>1 DEF PolicyInv, NotAdded
    <2>2. CASE p = t
        BY <1>2, <1>3, <1>5, <2>2 DEF DifferentIds
    <2> QED BY <1>1, <2>1, <2>2
<1>7. NotAdded(scopes, links, policyStage = "link")'
    BY <1>6 DEF NotAdded
<1>8. AddedWhole'
    BY <1>1, <1>2, <1>4 DEF PolicyInv, AddedWhole
<1>9. TemplatesLinked'
    BY <1>1, <1>2 DEF PolicyInv, TemplatesLinked
<1>10. TemplateOf(scopes[1])' = TemplateOf(scopes[1])
    BY DEF TemplateOf
<1> QED BY <1>5, <1>7, <1>8, <1>9, <1>10 DEF PolicyInv

\* Its ID is new, so it is not refused.
LEMMA AddPolicyKeeps == PolicyInv /\ AddPolicy => PolicyInv'
<1> SUFFICES ASSUME PolicyInv, AddPolicy PROVE PolicyInv'
    OBVIOUS
<1>1. policyStage = "add" /\ scopes # <<>> /\ UNCHANGED source
    BY DEF AddPolicy
<1>2. 1 \in 1..Len(scopes) /\ Head(scopes) = scopes[1] /\ Head(links) = links[1]
    BY <1>1, NextPolicy
<1>3. ~InUse(scopes[1].id)
    BY <1>1, <1>2 DEF PolicyInv, NotAdded, InUse
<1>4. /\ added' = added \cup {TemplateOf(scopes[1])}
      /\ IF links[1] = <<>> THEN scopes' = Tail(scopes) /\ links' = Tail(links) /\ UNCHANGED policyStage
         ELSE policyStage' = "link" /\ UNCHANGED <<scopes, links>>
    BY <1>2, <1>3 DEF AddPolicy, TemplateOf
<1> QED BY <1>1, <1>4, AddStaticKeeps, AddTemplateKeeps

\* Nor is a link: its ID is new, its template is there, and its values are those of the slots.
LEMMA AddLinkKeeps == PolicyInv /\ AddLink => PolicyInv'
<1> SUFFICES ASSUME PolicyInv, AddLink PROVE PolicyInv'
    OBVIOUS
<1>1. policyStage = "link" /\ scopes # <<>> /\ links[1] # <<>> /\ UNCHANGED source
    BY DEF AddLink, PolicyInv
<1>2. /\ 1 \in 1..Len(scopes) /\ Head(scopes) = scopes[1] /\ Head(links) = links[1]
      /\ links[1] \in Seq(LinkRecords) /\ Len(scopes) \in Nat
    BY <1>1, NextPolicy
<1>3. PICK p, next, t, l :
          /\ p = scopes[1] /\ next = links[1][1] /\ t = TemplateOf(p)
          /\ l = [id |-> next.id, slots |-> {}, of |-> p.id]
    OBVIOUS
<1>4. Head(links[1]) = next /\ 1 \in 1..Len(links[1])
    BY <1>1, <1>2, <1>3
<1>5. DifferentIds(scopes, links) /\ LinksFit(scopes, links)
    BY DEF PolicyInv, Pending
<1>6. next.values = SlotsOf(p.scope) /\ SlotsOf(p.scope) # {}
    BY <1>1, <1>2, <1>3, <1>4, <1>5 DEF LinksFit
<1>7. t \in added /\ t = [id |-> p.id, slots |-> next.values, of |-> p.id]
    BY <1>1, <1>3, <1>6 DEF PolicyInv, TemplateOf
<1>8. \A q \in added : q.id # next.id
    BY <1>2, <1>3, <1>4 DEF PolicyInv, NotAdded
<1>9. t.id = p.id /\ t.slots # {} /\ t.of = p.id /\ l.id = next.id /\ l.slots = {} /\ l.of = p.id
    BY <1>3, <1>6 DEF TemplateOf
<1>10. /\ added' = added \cup {l}
       /\ IF Tail(links[1]) = <<>> THEN /\ scopes' = Tail(scopes) /\ links' = Tail(links)
                                       /\ policyStage' = "add"
          ELSE links' = [links EXCEPT ![1] = Tail(links[1])] /\ UNCHANGED <<scopes, policyStage>>
    <2>1. ~InUse(next.id)
        BY <1>8 DEF InUse
    <2> QED BY <1>2, <1>3, <1>4, <1>7, <2>1 DEF AddLink
<1>11. AddedWhole'
    <2>1. \A q \in added : q.id # l.id
        BY <1>8, <1>9
    <2>2. (\A q, s \in added : q.id = s.id => q = s)'
        BY <1>10, <2>1 DEF PolicyInv, AddedWhole
    <2>3. ASSUME NEW q \in added', q.of # q.id PROVE \E s \in added' : s.id = q.of /\ s.slots # {}
        <3>1. CASE q = l
            BY <1>7, <1>9, <1>10, <3>1
        <3>2. CASE q \in added
            BY <1>10, <2>3, <3>2 DEF PolicyInv, AddedWhole
        <3> QED BY <1>10, <3>1, <3>2
    <2> QED BY <2>2, <2>3 DEF AddedWhole
<1>12. l.id # p.id
    BY <1>2, <1>3, <1>4, <1>5, <1>9 DEF DifferentIds
<1>13. ASSUME source = "rbac", NEW s \in added', s.slots # {}
       PROVE  \E q \in added' : q.of = s.id /\ q # s
    <2>1. s \in added
        BY <1>9, <1>10, <1>13
    <2>2. CASE s.id = p.id
        BY <1>9, <1>10, <1>12, <2>2
    <2>3. CASE s.id # p.id
        BY <1>3, <1>10, <1>13, <2>1, <2>3 DEF PolicyInv, TemplatesLinked
    <2> QED BY <2>2, <2>3
<1>14. TemplatesLinked'
    BY <1>1, <1>13 DEF TemplatesLinked
<1>15. CASE Tail(links[1]) = <<>>
    <2>1. /\ Pending(scopes, links)'
          /\ Len(scopes') = Len(scopes) - 1
          /\ \A i \in 1..Len(scopes') : /\ i + 1 \in 1..Len(scopes) /\ scopes'[i] = scopes[i + 1]
                                        /\ links'[i] = links[i + 1]
        BY <1>1, <1>10, <1>15, TailStillPending DEF PolicyInv
    <2>2. \A i \in 1..Len(scopes') : i + 1 # 1
        OBVIOUS
    <2>3. ASSUME NEW i \in 1..Len(scopes'), NEW q \in added'
          PROVE  q.id # scopes'[i].id /\ \A k \in 1..Len(links'[i]) : q.id # links'[i][k].id
        <3>1. /\ i + 1 \in 1..Len(scopes) /\ scopes'[i] = scopes[i + 1] /\ links'[i] = links[i + 1]
              /\ i + 1 # 1
            BY <2>1, <2>2
        <3>2. CASE q \in added
            BY <3>1, <3>2 DEF PolicyInv, NotAdded
        <3>3. CASE q = l
            <4>1. q.id = links[1][1].id
                BY <1>3, <1>9, <3>3
            <4> QED BY <1>2, <1>4, <1>5, <3>1, <4>1 DEF DifferentIds
        <3> QED BY <1>10, <3>2, <3>3
    <2>4. NotAdded(scopes, links, policyStage = "link")'
        BY <2>3 DEF NotAdded
    <2>5. Len(scopes') <= MaxPolicies + 1
        BY <1>2, <2>1, PolicyConstants DEF PolicyInv
    <2> QED BY <1>1, <1>10, <1>11, <1>14, <1>15, <2>1, <2>4, <2>5 DEF PolicyInv
<1>16. CASE Tail(links[1]) # <<>>
    <2>1. PICK new : new = [links EXCEPT ![1] = Tail(links[1])]
        OBVIOUS
    <2>2. links' = new /\ UNCHANGED <<scopes, policyStage>>
        BY <1>10, <1>16, <2>1
    <2>3. Pending(scopes, new) /\ new[1] # <<>> /\ SomeOf(scopes, links, new)
        <3>1. Pending(scopes, links) /\ links \in Seq(Seq(LinkRecords)) /\ 1 \in 1..Len(links)
            BY <1>2 DEF PolicyInv, Pending
        <3>2. Tail(links[1]) \in Seq(LinkRecords)
            BY <1>1, <1>2, HeadTailProperties
        <3>3. PICK rest : rest = Tail(links[1])
            OBVIOUS
        <3>4. new = [links EXCEPT ![1] = rest] /\ rest \in Seq(LinkRecords)
            BY <2>1, <3>2, <3>3
        <3>5. /\ new \in Seq(Seq(LinkRecords)) /\ Len(new) = Len(links) /\ new[1] = rest
              /\ \A i \in 1..Len(links) : i # 1 => new[i] = links[i]
            BY <3>1, <3>4
        <3>6. OneGone(links, new)
            BY <1>1, <1>16, <3>3, <3>5 DEF OneGone
        <3> QED BY <1>1, <3>1, <3>6, RestPending
    <2>4. Pending(scopes, links)'
        <3>1. PICK scs : scs = scopes
            OBVIOUS
        <3> QED BY <1>1, <2>2, <2>3, <3>1, StillPending
    <2>5. ASSUME NEW i \in 1..Len(scopes), NEW q \in added'
          PROVE  /\ q.id = scopes[i].id => i = 1
                 /\ \A k \in 1..Len(new[i]) : q.id # new[i][k].id
        <3>1. CASE q \in added
            BY <2>3, <3>1 DEF PolicyInv, NotAdded, SomeOf
        <3>2. CASE q = l
            <4>1. q.id = links[1][1].id
                BY <1>3, <1>9, <3>2
            <4>2. q.id # scopes[i].id
                BY <1>2, <1>4, <1>5, <4>1 DEF DifferentIds
            <4>3. ASSUME NEW k \in 1..Len(new[i]), q.id = new[i][k].id PROVE FALSE
                <5>1. PICK m \in 1..Len(links[i]) : new[i][k] = links[i][m] /\ (i = 1 => m = k + 1)
                    BY <2>3 DEF SomeOf
                <5>2. i = 1 /\ m = 1
                    <6>1. links[i][m].id = links[1][1].id
                        BY <4>1, <4>3, <5>1
                    <6> QED BY <1>2, <1>4, <1>5, <5>1, <6>1 DEF DifferentIds
                <5>3. k \in Int /\ k >= 1
                    BY <2>3 DEF Pending
                <5> QED BY <5>1, <5>2, <5>3
            <4> QED BY <4>2, <4>3
        <3> QED BY <1>10, <3>1, <3>2
    <2>6. NotAdded(scopes, links, policyStage = "link")'
        BY <1>1, <2>2, <2>5 DEF NotAdded
    <2>7. TemplateOf(scopes[1])' \in added'
        BY <1>3, <1>7, <1>10, <2>2 DEF TemplateOf
    <2> QED BY <1>1, <1>11, <1>14, <2>2, <2>3, <2>4, <2>6, <2>7 DEF PolicyInv
<1> QED BY <1>15, <1>16

\* So does every step, and a step that does nothing.
LEMMA PolicyStepInv == PolicyInv /\ [PolicyNext]_policyVars => PolicyInv'
<1>1. PolicyInv /\ (PoliciesMade \/ PoliciesBuilt \/ UNCHANGED policyVars) => PolicyInv'
    BY StageKeeps DEF PoliciesMade, PoliciesBuilt, policyVars
<1> QED
    BY <1>1, PolicyFailsKeeps, MakeGroupKeeps, MakePolicyKeeps, MakeAbacPolicyKeeps, AddPolicyKeeps,
       AddLinkKeeps DEF PolicyNext

\* The invariant is about what is in the policy set.
LEMMA PolicyInvLinks == PolicyInv => PolicyTypes /\ PoliciesLink
<1> SUFFICES ASSUME PolicyInv PROVE PolicyTypes /\ PoliciesLink
    OBVIOUS
<1>1. \A i \in DOMAIN scopes : scopes[i].scope \in Scopes
    <2>1. \A i \in DOMAIN scopes : scopes[i] \in PolicyRecords
        BY DEF PolicyInv, Pending
    <2> QED BY <2>1 DEF PolicyRecords
<1>2. PolicyTypes
    BY <1>1 DEF PolicyInv, Pending, PolicyTypes
<1>3. PoliciesLink
    BY DEF PolicyInv, AddedWhole, TemplatesLinked, PoliciesLink
<1> QED BY <1>2, <1>3

\* Whatever IDs are drawn and wherever the slots are, nothing that is added is refused.
THEOREM PoliciesCorrect == PolicySpec => [](PolicyTypes /\ PoliciesLink)
BY PolicyInitInv, PolicyStepInv, PolicyInvLinks, PTL DEF PolicySpec

\* What the generators make for the targets can be used, whatever is drawn.
THEOREM GeneratedCorrect == InputSpec /\ PolicySpec => []GeneratedUsable
<1>1. InputsUsable /\ PoliciesLink => GeneratedUsable
    BY DEF GeneratedUsable
<1> QED BY <1>1, InputsCorrect, PoliciesCorrect, PTL

-----------------------------------------------------------------------------
(***************************************************************************)
(* ExprGenerator. What max_depth bounds, for every value of it. While the  *)
(* generation goes on, the height and the depth that is left add up to     *)
(* max_depth. The type of a typed expression may grow by a container at    *)
(* each node, so at its end the type is no deeper than twice max_depth;    *)
(* the value of an attribute goes down its own type, and has entered no    *)
(* more containers than that has.                                          *)
(***************************************************************************)


IsType(t) == t = [path |-> t.path, leaf |-> t.leaf] /\ t.path \in Seq(Containers) /\ t.leaf \in Leaves

\* The types of attributes that a generated schema has.
DrawnAttribute(t) ==
    \/ Len(t.path) <= maxDepth
    \/ Len(t.path) = maxDepth + 1 /\ t.path[maxDepth + 1] = "set" /\ t.leaf = "literal"

ExprInv ==
    /\ goal \in {"value", "typed", "untyped"} /\ fromFile \in BOOLEAN
    /\ maxDepth \in Depths /\ left \in 0..maxDepth
    /\ IsType(wanted) /\ height \in Nat /\ lost \in BOOLEAN
    /\ exprStage \in {"growing", "made", "toodeep", "failed"}
    /\ exprStage = "growing" =>
          /\ height = maxDepth - left /\ ~lost
          /\ goal = "value" => maxDepth - left <= Len(wanted.path)
          /\ goal = "typed" => Len(wanted.path) <= maxDepth + (maxDepth - left)
    /\ goal = "value" /\ ~fromFile => DrawnAttribute(wanted)
    /\ GeneratedFits


-----------------------------------------------------------------------------
(* Types *)

\* max_depth is a number.
LEMMA DepthNat == ExprInv => maxDepth \in Nat /\ left \in Nat
BY DepthsAreNumbers DEF ExprInv

\* A type of up to d containers is one of them.
LEMMA UpTo ==
    ASSUME NEW d \in Nat, NEW t \in TypesUpTo(d)
    PROVE  IsType(t) /\ Len(t.path) <= d
<1>1. PICK n \in 0..d : t.path \in [1..n -> Containers]
    BY DEF TypesUpTo
<1>2. t.path \in Seq(Containers) /\ Len(t.path) = n
    BY <1>1
<1> QED BY <1>1, <1>2 DEF TypesUpTo, IsType

\* A type inside a container has one more.
LEMMA InsideType ==
    ASSUME NEW c \in Containers, NEW t, IsType(t)
    PROVE  IsType(Inside(c, t)) /\ Len(Inside(c, t).path) = Len(t.path) + 1
<1>1. Inside(c, t) = [path |-> <<c>> \o t.path, leaf |-> t.leaf]
    <2>1. \A v : [t EXCEPT !.path = v] = [path |-> v, leaf |-> t.leaf]
        BY DEF IsType
    <2> QED BY <2>1 DEF Inside
<1>2. <<c>> \o t.path \in Seq(Containers) /\ Len(<<c>> \o t.path) = Len(t.path) + 1
    <2>1. t.path \in Seq(Containers) /\ <<c>> \in Seq(Containers) /\ Len(<<c>>) = 1
        BY DEF IsType
    <2>2. \A s1, s2 \in Seq(Containers) :
              s1 \o s2 \in Seq(Containers) /\ Len(s1 \o s2) = Len(s1) + Len(s2)
        BY ConcatProperties
    <2>3. <<c>> \o t.path \in Seq(Containers) /\ Len(<<c>> \o t.path) = 1 + Len(t.path)
        BY <2>1, <2>2
    <2>4. Len(t.path) \in Nat
        BY <2>1
    <2> QED BY <2>3, <2>4
<1> QED BY <1>1, <1>2 DEF IsType

\* What is inside a container has one less.
LEMMA OutsideType ==
    ASSUME NEW t, IsType(t), t.path # <<>>
    PROVE  /\ IsType([t EXCEPT !.path = Tail(@)])
           /\ Len([t EXCEPT !.path = Tail(@)].path) = Len(t.path) - 1
<1>1. [t EXCEPT !.path = Tail(@)] = [path |-> Tail(t.path), leaf |-> t.leaf]
    <2>1. \A v : [t EXCEPT !.path = v] = [path |-> v, leaf |-> t.leaf]
        BY DEF IsType
    <2> QED BY <2>1
<1>2. Tail(t.path) \in Seq(Containers) /\ Len(Tail(t.path)) = Len(t.path) - 1
    <2>1. t.path \in Seq(Containers) /\ t.path # <<>>
        BY DEF IsType
    <2> QED BY <2>1, HeadTailProperties
<1> QED BY <1>1, <1>2 DEF IsType

\* A leaf has none.
LEMMA PlainType ==
    ASSUME NEW leaf \in Leaves
    PROVE  IsType(Plain(leaf)) /\ Len(Plain(leaf).path) = 0
BY DEF Plain, IsType

\* An operand has at most one container more than the expression, or than max_depth allows.
LEMMA OperandDepth ==
    ASSUME ExprInv, NEW t \in Operands(wanted)
    PROVE  IsType(t) /\ (\/ Len(t.path) <= Len(wanted.path) + 1
                         \/ Len(t.path) <= left + 1)
<1>1. IsType(wanted) /\ Len(wanted.path) \in Nat /\ left \in Nat
    BY DepthNat DEF ExprInv, IsType
<1>2. CASE t \in {wanted, Inside("required", wanted)}
    BY <1>1, <1>2, InsideType DEF Containers
<1>3. CASE t \in {Plain("bool"), Plain("literal"), Plain("ext")}
    BY <1>1, <1>3, PlainType DEF Leaves
<1>4. CASE wanted.path # <<>> /\ t = [wanted EXCEPT !.path = Tail(@)]
    BY <1>1, <1>4, OutsideType
<1>5. CASE t \in DrawnTypes(left)
    BY <1>1, <1>5, UpTo DEF DrawnTypes
<1>6. CASE \E s \in DrawnTypes(left) : t = Inside("set", s)
    <2>1. PICK s \in TypesUpTo(left) : t = Inside("set", s)
        BY <1>6 DEF DrawnTypes
    <2>2. IsType(s) /\ Len(s.path) <= left /\ Len(s.path) \in Nat
        BY <1>1, UpTo DEF IsType
    <2>3. IsType(t) /\ Len(t.path) = Len(s.path) + 1
        BY <2>1, <2>2, InsideType DEF Containers
    <2> QED BY <1>1, <2>2, <2>3
<1> QED BY <1>2, <1>3, <1>4, <1>5, <1>6 DEF Operands

\* An attribute type of a generated schema nests no deeper than max_depth, or is a set there.
LEMMA DrawnIsDrawn ==
    ASSUME maxDepth \in Nat, NEW t \in AttributeTypesDrawn(maxDepth)
    PROVE  IsType(t) /\ DrawnAttribute(t)
<1>1. CASE t \in TypesUpTo(maxDepth)
    BY <1>1, UpTo DEF DrawnAttribute
<1>2. CASE t \notin TypesUpTo(maxDepth)
    <2>1. PICK s \in TypesUpTo(maxDepth) :
              Len(s.path) = maxDepth /\ t = [path |-> Append(s.path, "set"), leaf |-> "literal"]
        BY <1>2 DEF AttributeTypesDrawn
    <2>2. s.path \in Seq(Containers)
        BY UpTo DEF IsType
    <2>3. /\ Append(s.path, "set") \in Seq(Containers)
          /\ Len(Append(s.path, "set")) = maxDepth + 1
          /\ Append(s.path, "set")[maxDepth + 1] = "set"
        BY <2>1, <2>2 DEF Containers
    <2> QED BY <2>1, <2>3 DEF IsType, DrawnAttribute, Leaves
<1> QED BY <1>1, <1>2

-----------------------------------------------------------------------------
(* The steps *)

\* Nothing is generated yet.
LEMMA ExprInitInv == ExprInit => ExprInv
<1> SUFFICES ASSUME ExprInit PROVE ExprInv
    OBVIOUS
<1>1. maxDepth \in Nat /\ maxDepth \in Depths /\ left = maxDepth
    BY DepthsAreNumbers DEF ExprInit
<1>2. IsType(wanted) /\ Len(wanted.path) \in Nat
    <2>1. IsType(wanted)
        <3>1. CASE goal = "value" /\ fromFile
            BY <1>1, <3>1, UpTo DEF ExprInit
        <3>2. CASE goal = "value" /\ ~fromFile
            BY <1>1, <3>2, DrawnIsDrawn DEF ExprInit
        <3>3. CASE goal = "typed"
            BY <1>1, <3>3, UpTo, PlainType DEF ExprInit, DrawnTypes, Leaves
        <3>4. CASE goal = "untyped"
            BY <3>4, PlainType DEF ExprInit, Leaves
        <3> QED BY <3>1, <3>2, <3>3, <3>4 DEF ExprInit
    <2> QED BY <2>1 DEF IsType
<1>3. goal = "typed" => Len(wanted.path) <= maxDepth
    BY <1>1, UpTo, PlainType DEF ExprInit, DrawnTypes, Leaves
<1>4. goal = "value" /\ ~fromFile => DrawnAttribute(wanted)
    BY <1>1, DrawnIsDrawn DEF ExprInit
<1>5. goal \in {"value", "typed", "untyped"} /\ fromFile \in BOOLEAN
    BY DEF ExprInit
<1>6. height = 0 /\ lost = FALSE /\ exprStage = "growing"
    BY DEF ExprInit
<1>7. GeneratedFits
    BY <1>1, <1>6 DEF GeneratedFits
<1>8. /\ left \in 0..maxDepth /\ height = maxDepth - left /\ height \in Nat /\ lost \in BOOLEAN
      /\ maxDepth - left <= Len(wanted.path)
      /\ goal = "typed" => Len(wanted.path) <= maxDepth + (maxDepth - left)
    <2>1. left \in 0..maxDepth /\ maxDepth - left = 0 /\ maxDepth + (maxDepth - left) = maxDepth
        BY <1>1
    <2>2. 0 <= Len(wanted.path)
        BY <1>2
    <2>3. height = 0 /\ height \in Nat /\ lost \in BOOLEAN
        BY <1>6
    <2> QED BY <1>3, <2>1, <2>2, <2>3
<1> QED BY <1>1, <1>2, <1>4, <1>5, <1>6, <1>7, <1>8 DEF ExprInv

\* A path may end with n more nodes if that is not too high, and with a loss only where it may.
LEMMA EndKeeps ==
    ASSUME ExprInv, exprStage = "growing", NEW n \in Nat, End(n), lost' \in BOOLEAN,
           height + n <= IF goal = "typed" THEN 3 * maxDepth + 3 ELSE maxDepth + 2,
           lost' => goal = "value" /\ fromFile /\ Len(wanted.path) > maxDepth
    PROVE  ExprInv'
<1>1. height \in Nat
    BY DEF ExprInv
<1> QED
    BY <1>1 DEF End, ExprInv, GeneratedFits, DrawnAttribute

\* A path may go on with a type that is not too deep.
LEMMA DescendKeeps ==
    ASSUME ExprInv, exprStage = "growing", left > 0, NEW t, IsType(t), Descend(t),
           goal = "value" => t = wanted /\ maxDepth - left < Len(wanted.path),
           goal = "typed" => Len(t.path) <= maxDepth + (maxDepth - left) + 1
    PROVE  ExprInv'
<1>1. height \in Nat /\ maxDepth \in Nat /\ left \in Nat /\ Len(t.path) \in Nat /\ height = maxDepth - left
    BY DepthNat DEF ExprInv, IsType
<1>2. UNCHANGED <<goal, fromFile, maxDepth, lost, exprStage>> /\ wanted' = t
      /\ left' = left - 1 /\ height' = height + 1
    BY DEF Descend
<1>3. GeneratedFits'
    BY <1>1, <1>2 DEF ExprInv, GeneratedFits
<1>4. (goal = "value" /\ ~fromFile => DrawnAttribute(wanted))'
    BY <1>2 DEF ExprInv, DrawnAttribute
<1>5. left' \in 0..maxDepth' /\ height' \in Nat /\ height' = maxDepth' - left'
    BY <1>1, <1>2 DEF ExprInv
<1>6. IsType(wanted)'
    BY <1>2 DEF IsType
<1>7. /\ goal' = "value" => maxDepth' - left' <= Len(wanted'.path)
      /\ goal' = "typed" => Len(wanted'.path) <= maxDepth' + (maxDepth' - left')
    BY <1>1, <1>2
<1> QED BY <1>2, <1>3, <1>4, <1>5, <1>6, <1>7 DEF ExprInv

\* A failure keeps what there is.
LEMMA FailsKeeps == ExprInv /\ GenerationFails => ExprInv'
BY DEF GenerationFails, ExprInv, GeneratedFits, DrawnAttribute, IsType

\* An extension value of a type that is max_depth deep is given up; other leaves are no higher
\* than the depth that is left.
LEMMA ValueOfLeafKeeps == ExprInv /\ ValueOfLeaf => ExprInv'
<1> SUFFICES ASSUME ExprInv, ValueOfLeaf PROVE ExprInv'
    OBVIOUS
<1>1. /\ maxDepth \in Nat /\ left \in Nat /\ height = maxDepth - left /\ Len(wanted.path) \in Nat
      /\ goal = "value" /\ exprStage = "growing" /\ Len(wanted.path) = maxDepth - left
    BY DepthNat DEF ExprInv, IsType, ValueOfLeaf, Growing, InContainer, Entered
<1>2. CASE wanted.leaf = "ext" /\ left = 0
    <2>1. exprStage' = "toodeep" /\ UNCHANGED <<goal, fromFile, maxDepth, wanted, left, height, lost>>
        BY <1>2 DEF ValueOfLeaf
    <2> QED BY <1>1, <1>2, <2>1 DEF ExprInv, GeneratedFits, DrawnAttribute, IsType
<1>3. CASE ~(wanted.leaf = "ext" /\ left = 0)
    <2>1. PICK n \in LeafHeights(wanted.leaf) : End(n)
        BY <1>3 DEF ValueOfLeaf
    <2>2. n \in Nat /\ height + n <= maxDepth + 2
        BY <1>1, <1>3 DEF LeafHeights
    <2>3. lost' = lost /\ lost \in BOOLEAN /\ ~lost
        BY <1>1, <1>3 DEF ValueOfLeaf, ExprInv
    <2> QED BY <1>1, <2>1, <2>2, <2>3, EndKeeps
<1> QED BY <1>2, <1>3

\* At depth 0 an attribute is lost only if the type is deeper than max_depth and not a set
\* there, which no generated schema has.
LEMMA ValueCutKeeps == ExprInv /\ ValueCut => ExprInv'
<1> SUFFICES ASSUME ExprInv, ValueCut PROVE ExprInv'
    OBVIOUS
<1>1. /\ maxDepth \in Nat /\ left = 0 /\ height = maxDepth /\ Len(wanted.path) \in Nat
      /\ goal = "value" /\ exprStage = "growing" /\ maxDepth < Len(wanted.path)
    BY DepthNat DEF ExprInv, IsType, ValueCut, Growing, InContainer, Entered
<1>2. lost' = (wanted.path[maxDepth + 1] = "required") /\ End(1)
    BY <1>1 DEF ValueCut, Container, Entered
<1>3. lost' => fromFile
    BY <1>1, <1>2 DEF ExprInv, DrawnAttribute
<1> QED BY <1>1, <1>2, <1>3, EndKeeps

\* A value may stop at a container.
LEMMA ValueStopsKeeps == ExprInv /\ ValueStops => ExprInv'
<1> SUFFICES ASSUME ExprInv, ValueStops PROVE ExprInv'
    OBVIOUS
<1>1. /\ maxDepth \in Nat /\ left \in Nat /\ height = maxDepth - left
      /\ goal = "value" /\ exprStage = "growing" /\ End(1) /\ lost' = lost /\ ~lost /\ lost \in BOOLEAN
    BY DepthNat DEF ExprInv, ValueStops, Growing
<1> QED BY <1>1, EndKeeps

\* A value goes down into the next container of its type.
LEMMA ValueDescendsKeeps == ExprInv /\ ValueDescends => ExprInv'
<1> SUFFICES ASSUME ExprInv, ValueDescends PROVE ExprInv'
    OBVIOUS
<1>1. /\ goal = "value" /\ exprStage = "growing" /\ left > 0 /\ Descend(wanted)
      /\ IsType(wanted) /\ maxDepth - left < Len(wanted.path)
    BY DEF ExprInv, ValueDescends, Growing, InContainer, Entered
<1> QED BY <1>1, DescendKeeps

\* A typed expression may follow its type to the end.
LEMMA TypedEndsKeeps == ExprInv /\ TypedEnds => ExprInv'
<1> SUFFICES ASSUME ExprInv, TypedEnds PROVE ExprInv'
    OBVIOUS
<1>1. /\ maxDepth \in Nat /\ left \in Nat /\ left <= maxDepth /\ height = maxDepth - left
      /\ goal = "typed" /\ exprStage = "growing" /\ lost' = lost /\ ~lost /\ lost \in BOOLEAN
      /\ Len(wanted.path) \in Nat /\ Len(wanted.path) <= maxDepth + (maxDepth - left)
    BY DepthNat DEF ExprInv, IsType, TypedEnds, Growing
<1>2. PICK n \in 1..Len(wanted.path) \cup {Len(wanted.path) + k : k \in LeafHeights(wanted.leaf)} : End(n)
    BY DEF TypedEnds
<1>3. n \in Nat /\ n <= Len(wanted.path) + 3
    BY <1>1, <1>2 DEF LeafHeights
<1>4. height + n <= 3 * maxDepth + 3
    BY <1>1, <1>3
<1> QED BY <1>1, <1>2, <1>3, <1>4, EndKeeps

\* It may go on with an operand.
LEMMA TypedOperandKeeps == ExprInv /\ TypedOperand => ExprInv'
<1> SUFFICES ASSUME ExprInv, TypedOperand PROVE ExprInv'
    OBVIOUS
<1>1. PICK t \in Operands(wanted) : Descend(t)
    BY DEF TypedOperand
<1>2. /\ maxDepth \in Nat /\ left \in Nat /\ left <= maxDepth /\ left > 0
      /\ goal = "typed" /\ exprStage = "growing"
      /\ Len(wanted.path) \in Nat /\ Len(wanted.path) <= maxDepth + (maxDepth - left)
    BY DepthNat DEF ExprInv, IsType, TypedOperand, Growing
<1>3. IsType(t) /\ Len(t.path) <= maxDepth + (maxDepth - left) + 1
    <2>1. IsType(t) /\ Len(t.path) \in Nat
        BY OperandDepth DEF IsType
    <2> QED BY <1>2, <2>1, OperandDepth
<1> QED BY <1>1, <1>2, <1>3, DescendKeeps

\* An untyped expression ends with up to three nodes, or goes on.
LEMMA UntypedKeeps == ExprInv /\ (UntypedEnds \/ UntypedOperand) => ExprInv'
<1> SUFFICES ASSUME ExprInv, UntypedEnds \/ UntypedOperand PROVE ExprInv'
    OBVIOUS
<1>1. /\ maxDepth \in Nat /\ left \in Nat /\ height = maxDepth - left /\ IsType(wanted)
      /\ goal = "untyped" /\ exprStage = "growing" /\ ~lost /\ lost \in BOOLEAN
    BY DepthNat DEF ExprInv, UntypedEnds, UntypedOperand, Growing
<1>2. CASE UntypedEnds
    <2>1. PICK n \in {1, 3} : End(n) /\ height + n <= maxDepth + 2
        BY <1>1, <1>2 DEF UntypedEnds
    <2> QED BY <1>1, <1>2, <2>1, EndKeeps DEF UntypedEnds
<1>3. CASE UntypedOperand
    BY <1>1, <1>3, DescendKeeps DEF UntypedOperand
<1> QED BY <1>2, <1>3

\* Every step keeps the invariant, and one that does nothing does.
LEMMA ExprStepInv == ExprInv /\ [ExprNext]_exprVars => ExprInv'
<1>1. ExprInv /\ UNCHANGED exprVars => ExprInv'
    BY DEF exprVars, ExprInv, GeneratedFits, DrawnAttribute, IsType
<1> QED BY <1>1, FailsKeeps, ValueOfLeafKeeps, ValueCutKeeps, ValueStopsKeeps, ValueDescendsKeeps,
           TypedEndsKeeps, TypedOperandKeeps, UntypedKeeps DEF ExprNext

-----------------------------------------------------------------------------
(* The theorem *)

\* For every max_depth: no value of a generated schema's type lacks a required attribute, only
\* an extension value exactly max_depth containers deep is given up, and no expression is higher
\* than its bound.
THEOREM DepthBounds == ExprSpec => [](ExprTypes /\ GeneratedFits)
<1>1. ExprInv => ExprTypes /\ GeneratedFits
    BY DEF ExprInv, ExprTypes, IsType
<1>2. ExprSpec => []ExprInv
    BY ExprInitInv, ExprStepInv, PTL DEF ExprSpec
<1> QED BY <1>1, <1>2, PTL

-----------------------------------------------------------------------------
(***************************************************************************)
(* DifferentialTesting. The harness is exact for any number of policies    *)
(* and requests: for any answers of the two sides, what a target does with *)
(* them and what they show is the same. There is one lemma for the targets *)
(* that compare in one way. The hard one is that of the authorizers: two   *)
(* responses are equal unless some policy has outcomes that a caller can   *)
(* tell apart.                                                             *)
(***************************************************************************)


\* The two sides may answer this.
MayAnswer(rust, lean) ==
    /\ rust \in [failure : RustFailures(target), value : RustValues(target)]
    /\ lean \in [failure : LeanFailures(target), value : LeanValues(target)]

Drawn ==
    /\ target \in Targets
    /\ effects \in [PoliciesOf(target) -> {"permit", "forbid"}]
    /\ target = "rbac-authorizer" => intended \in [PoliciesOf(target) -> Outcomes]
    /\ accepts \subseteq {"strict", "permissive"}

TestInv ==
    /\ Drawn
    /\ testStage \in {"ask", "answered", "agreed", "passed", "skipped", "panicked"}
    /\ testStage = "answered" => MayAnswer(answers[1], answers[2])
    /\ AlarmsExact

-----------------------------------------------------------------------------
(* Responses *)

\* Responses differ exactly where a caller can tell the outcomes apart.
LEMMA ResponsesDiffer ==
    ASSUME NEW P, effects \in [P -> {"permit", "forbid"}],
           NEW r \in [P -> Outcomes], NEW l \in [P -> Outcomes]
    PROVE  Response(r) # Response(l) <=> Distinguished(r, l)
<1> DEFINE F(o) == WithOutcome(o, "forbid", "true")
           Q(o) == WithOutcome(o, "permit", "true")
           E(o) == {p \in DOMAIN o : o[p] = "error"}
           allow(o) == F(o) = {} /\ Q(o) # {}
<1>1. \A o : /\ Response(o).decision = (IF allow(o) THEN "allow" ELSE "deny")
             /\ Response(o).determining = (IF allow(o) THEN Q(o) ELSE F(o))
             /\ Response(o).erroring = E(o)
             /\ Response(o) = [decision |-> IF allow(o) THEN "allow" ELSE "deny",
                               determining |-> IF allow(o) THEN Q(o) ELSE F(o), erroring |-> E(o)]
    BY DEF Response
<1>2. \A p \in P : /\ p \in F(r) <=> effects[p] = "forbid" /\ r[p] = "true"
                   /\ p \in F(l) <=> effects[p] = "forbid" /\ l[p] = "true"
                   /\ p \in Q(r) <=> effects[p] = "permit" /\ r[p] = "true"
                   /\ p \in Q(l) <=> effects[p] = "permit" /\ l[p] = "true"
                   /\ p \in E(r) <=> r[p] = "error"
                   /\ p \in E(l) <=> l[p] = "error"
    BY DEF WithOutcome
<1>3. /\ F(r) \subseteq P /\ F(l) \subseteq P /\ Q(r) \subseteq P /\ Q(l) \subseteq P
      /\ E(r) \subseteq P /\ E(l) \subseteq P
    BY DEF WithOutcome
<1>4. \A p \in P : effects[p] \in {"permit", "forbid"} /\ r[p] \in Outcomes /\ l[p] \in Outcomes
    OBVIOUS
<1> HIDE DEF F, Q, E
<1>5. ASSUME Distinguished(r, l) PROVE Response(r) # Response(l)
    <2>1. PICK p \in P : /\ r[p] # l[p]
                         /\ \/ "error" \in {r[p], l[p]}
                            \/ effects[p] = "forbid"
                            \/ \A q \in P : effects[q] = "forbid" => "true" \notin {r[q], l[q]}
        BY <1>5 DEF Distinguished
    <2>2. CASE "error" \in {r[p], l[p]}
        <3>1. E(r) # E(l)
            BY <1>2, <2>1, <2>2
        <3> QED BY <1>1, <3>1
    <2>3. CASE effects[p] = "forbid" /\ "error" \notin {r[p], l[p]}
        <3>1. F(r) # F(l)
            BY <1>2, <1>4, <2>1, <2>3 DEF Outcomes
        <3> QED BY <1>1, <3>1
    <2>4. CASE /\ effects[p] = "permit" /\ "error" \notin {r[p], l[p]}
               /\ \A q \in P : effects[q] = "forbid" => "true" \notin {r[q], l[q]}
        <3>1. F(r) = {} /\ F(l) = {}
            BY <1>2, <1>3, <2>4
        <3>2. Q(r) # Q(l)
            BY <1>2, <1>4, <2>1, <2>4 DEF Outcomes
        <3>3. Response(r).determining = Q(r) /\ Response(l).determining = Q(l)
            BY <1>1, <3>1
        <3> QED BY <3>2, <3>3
    <2> QED BY <1>4, <2>1, <2>2, <2>3, <2>4
<1>6. ASSUME ~Distinguished(r, l) PROVE Response(r) = Response(l)
    <2>1. \A p \in P : \/ r[p] = l[p]
                       \/ /\ "error" \notin {r[p], l[p]} /\ effects[p] # "forbid"
                          /\ \E q \in P : effects[q] = "forbid" /\ "true" \in {r[q], l[q]}
        BY <1>6 DEF Distinguished
    <2>2. E(r) = E(l)
        BY <1>2, <1>3, <2>1
    <2>3. F(r) = F(l)
        BY <1>2, <1>3, <2>1
    <2>4. CASE F(r) = {}
        <3>1. \A q \in P : effects[q] = "forbid" => "true" \notin {r[q], l[q]}
            BY <1>2, <2>3, <2>4
        <3>2. \A p \in P : r[p] = l[p]
            BY <2>1, <3>1
        <3>3. Q(r) = Q(l)
            BY <1>2, <1>3, <3>2
        <3> QED BY <1>1, <2>2, <2>3, <3>3
    <2>5. CASE F(r) # {}
        BY <1>1, <2>2, <2>3, <2>5
    <2> QED BY <2>4, <2>5
<1> QED BY <1>5, <1>6

-----------------------------------------------------------------------------
(* The targets *)

USE DEF AuthTargets, ValidationTargets, ConformanceTargets, TpeTargets, DecisionTargets, QueryTargets

\* The authorization targets, and rbac-authorizer with the outcomes it meant to have.
LEMMA AuthExact ==
    ASSUME Drawn, target \in AuthTargets, NEW rust, NEW lean, MayAnswer(rust, lean)
    PROVE  Panics(rust, lean) <=> Disagree(rust, lean)
<1> DEFINE P == PoliciesOf(target)
           r == rust.value
           l == lean.value
           meant == (\E p \in DOMAIN r : r[p] = "error") # (\E p \in DOMAIN r : intended[p] = "error")
<1>1. r \in [P -> Outcomes] /\ l \in [P -> Outcomes] /\ rust.failure = ""
    <2>0. rust.failure \in RustFailures(target) /\ r \in RustValues(target) /\ l \in LeanValues(target)
        BY DEF MayAnswer
    <2>1. CASE target = "abac"
        BY <2>0, <2>1 DEF RustValues, LeanValues, RustFailures
    <2>2. CASE target = "rbac"
        BY <2>0, <2>2 DEF RustValues, LeanValues, RustFailures
    <2>3. CASE target = "rbac-authorizer"
        BY <2>0, <2>3 DEF RustValues, LeanValues, RustFailures
    <2> QED BY <2>1, <2>2, <2>3
<1>2. Response(r) # Response(l) <=> Distinguished(r, l)
    BY <1>1, ResponsesDiffer DEF Drawn
<1>3. AuthPanics(rust, lean) <=>
          IF lean.failure # "" THEN lean.failure # "unknown extension function" ELSE Distinguished(r, l)
    BY <1>2 DEF AuthPanics, Unexpected
<1>4. CASE target # "rbac-authorizer"
    <2>1. Panics(rust, lean) <=> AuthPanics(rust, lean)
        <3>1. CASE target = "abac"
            BY <3>1 DEF Panics
        <3>2. CASE target = "rbac"
            BY <3>2 DEF Panics
        <3> QED BY <1>4, <3>1, <3>2
    <2>2. Disagree(rust, lean) <=>
              \/ lean.failure # "" /\ lean.failure # "unknown extension function"
              \/ lean.failure = "" /\ Distinguished(r, l)
        <3>1. CASE target = "abac"
            BY <1>1, <3>1 DEF Disagree, MustNotFail, Forgiven
        <3>2. CASE target = "rbac"
            BY <1>1, <3>2 DEF Disagree, MustNotFail, Forgiven
        <3> QED BY <1>4, <3>1, <3>2
    <2> QED BY <1>3, <2>1, <2>2
<1>5. CASE target = "rbac-authorizer"
    <2>1. ErrorsPanic(rust) <=> meant
        <3>1. DOMAIN intended = P /\ DOMAIN r = P
            BY <1>1, <1>5 DEF Drawn
        <3>2. Response(r).erroring = {p \in DOMAIN r : r[p] = "error"}
            BY DEF Response
        <3>3. Response(r).erroring # {} <=> \E p \in DOMAIN r : r[p] = "error"
            BY <3>2
        <3> QED BY <3>1, <3>3 DEF ErrorsPanic
    <2>2. Panics(rust, lean) <=> AuthPanics(rust, lean) \/ ErrorsPanic(rust)
        BY <1>5 DEF Panics
    <2>3. Disagree(rust, lean) <=>
              \/ lean.failure # "" /\ lean.failure # "unknown extension function"
              \/ lean.failure = "" /\ Distinguished(r, l)
              \/ meant
        BY <1>1, <1>5 DEF Disagree, MustNotFail, Forgiven
    <2> QED BY <1>3, <2>1, <2>2, <2>3
<1> QED BY <1>4, <1>5

\* The validation targets have one policy.
LEMMA ValidationExact ==
    ASSUME Drawn, target \in ValidationTargets, NEW rust, NEW lean, MayAnswer(rust, lean)
    PROVE  Panics(rust, lean) <=> Disagree(rust, lean)
<1> DEFINE r == rust.value
           l == lean.value
<1>1. /\ rust.failure = ""
      /\ r \in [{1} -> Verdicts \cup {"invalidAction"}] /\ l \in [{1} -> Verdicts]
    <2>0. rust.failure \in RustFailures(target) /\ r \in RustValues(target) /\ l \in LeanValues(target)
        BY DEF MayAnswer
    <2>1. CASE target = "validation"
        BY <2>0, <2>1 DEF RustValues, LeanValues, RustFailures, PoliciesOf, ManyPolicies
    <2>2. CASE target = "level-validation"
        BY <2>0, <2>2 DEF RustValues, LeanValues, RustFailures, PoliciesOf, ManyPolicies
    <2> QED BY <2>1, <2>2
<1>2. FirstVerdict(l) = IF l[1] = "ok" THEN {} ELSE {l[1]}
    <2> DEFINE bad == {p \in DOMAIN l : l[p] # "ok"}
    <2>1. bad = IF l[1] = "ok" THEN {} ELSE {1}
        BY <1>1
    <2>2. bad = {1} => (CHOOSE p \in bad : \A q \in bad : p <= q) = 1
        OBVIOUS
    <2> QED BY <2>1, <2>2 DEF FirstVerdict
<1>3. FilterWarnings(FirstVerdict(l)) = {} <=> l[1] # "error"
    BY <1>1, <1>2 DEF FilterWarnings, Verdicts
<1>4. (\A p \in DOMAIN r : r[p] \in {"ok", "impossible", "invalidAction"}) <=> r[1] # "error"
    BY <1>1 DEF Verdicts
<1>5. ValidationPanics(rust, lean) <=>
          IF lean.failure # ""
          THEN lean.failure \notin {"unknown extension function", "unknown extension type"}
          ELSE (r[1] = "error") # (l[1] = "error")
    BY <1>3, <1>4 DEF ValidationPanics, Unexpected, ComparisonMode
<1>6. Panics(rust, lean) <=> ValidationPanics(rust, lean)
    <2>1. CASE target = "validation"
        BY <2>1 DEF Panics
    <2>2. CASE target = "level-validation"
        BY <2>2 DEF Panics
    <2> QED BY <2>1, <2>2
<1>7. Disagree(rust, lean) <=>
          \/ lean.failure \notin {"", "unknown extension function", "unknown extension type"}
          \/ lean.failure = "" /\ \E p \in DOMAIN r : (r[p] = "error") # (l[p] = "error")
    <2>1. CASE target = "validation"
        BY <1>1, <2>1 DEF Disagree, MustNotFail, Forgiven
    <2>2. CASE target = "level-validation"
        BY <1>1, <2>2 DEF Disagree, MustNotFail, Forgiven
    <2> QED BY <2>1, <2>2
<1>8. (\E p \in DOMAIN r : (r[p] = "error") # (l[p] = "error")) <=> (r[1] = "error") # (l[1] = "error")
    BY <1>1
<1> QED BY <1>5, <1>6, <1>7, <1>8

\* The targets that compare whole answers: those of conformance.
LEMMA ConformanceExact ==
    ASSUME Drawn, target \in ConformanceTargets, NEW rust, NEW lean, MayAnswer(rust, lean)
    PROVE  Panics(rust, lean) <=> Disagree(rust, lean)
<1> DEFINE r == rust.value
           l == lean.value
<1>1. rust.failure = "" /\ r \in {"ok", "error"} /\ l \in {"ok", "error"}
    <2>0. rust.failure \in RustFailures(target) /\ r \in RustValues(target) /\ l \in LeanValues(target)
        BY DEF MayAnswer
    <2>1. CASE target = "request-validation"
        BY <2>0, <2>1 DEF RustValues, LeanValues, RustFailures
    <2>2. CASE target = "entity-validation"
        BY <2>0, <2>2 DEF RustValues, LeanValues, RustFailures
    <2> QED BY <2>1, <2>2
<1>2. Panics(rust, lean) <=> lean.failure # "" \/ (r = "ok") # (l = "ok")
    <2>1. CASE target = "request-validation"
        BY <2>1 DEF Panics, ConformancePanics, Unexpected
    <2>2. CASE target = "entity-validation"
        BY <2>2 DEF Panics, ConformancePanics, Unexpected
    <2> QED BY <2>1, <2>2
<1>3. Disagree(rust, lean) <=> lean.failure # "" \/ (lean.failure = "" /\ r # l)
    <2>1. CASE target = "request-validation"
        BY <1>1, <2>1 DEF Disagree, MustNotFail, Forgiven
    <2>2. CASE target = "entity-validation"
        BY <1>1, <2>2 DEF Disagree, MustNotFail, Forgiven
    <2> QED BY <2>1, <2>2
<1> QED BY <1>1, <1>2, <1>3

\* Those of partial evaluation: the lists of policies say no more than the residuals.
LEMMA TpeExact ==
    ASSUME Drawn, target \in TpeTargets, NEW rust, NEW lean, MayAnswer(rust, lean)
    PROVE  Panics(rust, lean) <=> Disagree(rust, lean)
<1> DEFINE r == rust.value
           l == lean.value
           O == Outcomes \cup {"residual", "otherResidual"}
<1>1. r \in [PoliciesOf(target) -> O] /\ l \in [PoliciesOf(target) -> O]
    <2>0. r \in RustValues(target) /\ l \in LeanValues(target)
        BY DEF MayAnswer
    <2>1. CASE target = "tpe"
        BY <2>0, <2>1 DEF RustValues, LeanValues
    <2>2. CASE target = "tpe-abstract"
        BY <2>0, <2>2 DEF RustValues, LeanValues
    <2> QED BY <2>1, <2>2
<1>2. r # l <=> \E p \in DOMAIN l : r[p] # l[p]
    BY <1>1
<1>3. TpePanics(rust, lean) <=>
          \/ ~(Responded(rust) <=> Responded(lean))
          \/ Responded(rust) /\ (rust.failure = BadResidual \/ lean.failure = BadResidual \/ r # l)
    BY <1>2 DEF TpePanics
<1>4. Panics(rust, lean) <=> TpePanics(rust, lean)
    <2>1. CASE target = "tpe"
        BY <2>1 DEF Panics
    <2>2. CASE target = "tpe-abstract"
        BY <2>2 DEF Panics
    <2> QED BY <2>1, <2>2
<1>5. Disagree(rust, lean) <=>
          \/ BadResidual \in {rust.failure, lean.failure}
          \/ (rust.failure = "") # (lean.failure = "")
          \/ rust.failure = "" /\ lean.failure = "" /\ r # l
    <2>1. CASE target = "tpe"
        BY <2>1 DEF Disagree, MustNotFail, Forgiven
    <2>2. CASE target = "tpe-abstract"
        BY <2>2 DEF Disagree, MustNotFail, Forgiven
    <2> QED BY <2>1, <2>2
<1>6. BadResidual # ""
    BY DEF BadResidual
<1>7. /\ Responded(rust) <=> rust.failure = "" \/ rust.failure = BadResidual
      /\ Responded(lean) <=> lean.failure = "" \/ lean.failure = BadResidual
    BY DEF Responded
<1>8. CASE BadResidual \in {rust.failure, lean.failure}
    <2>1. Responded(rust) \/ Responded(lean)
        BY <1>8 DEF Responded, BadResidual
    <2>2. TpePanics(rust, lean)
        BY <1>3, <1>8, <2>1 DEF BadResidual
    <2>3. Disagree(rust, lean)
        BY <1>5, <1>8 DEF BadResidual
    <2> QED BY <1>4, <2>2, <2>3
<1>9. CASE BadResidual \notin {rust.failure, lean.failure}
    <2>1. /\ Responded(rust) <=> rust.failure = ""
          /\ Responded(lean) <=> lean.failure = ""
        BY <1>7, <1>9
    <2>2. TpePanics(rust, lean) <=>
              \/ (rust.failure = "") # (lean.failure = "")
              \/ rust.failure = "" /\ r # l
        BY <1>3, <1>9, <2>1
    <2> QED BY <1>4, <1>5, <1>9, <2>2
<1> QED BY <1>8, <1>9

\* And the evaluation of one expression.
LEMMA EvalExact ==
    ASSUME Drawn, target = "eval", NEW rust, NEW lean, MayAnswer(rust, lean)
    PROVE  Panics(rust, lean) <=> Disagree(rust, lean)
<1>1. rust.failure = ""
    BY DEF MayAnswer, RustFailures
<1>2. Panics(rust, lean) <=> EvalPanics(rust, lean)
    BY DEF Panics
<1>3. Disagree(rust, lean) <=>
          \/ (rust.failure = "") # (lean.failure = "") /\ lean.failure # "unknown extension function"
          \/ rust.failure = "" /\ lean.failure = "" /\ rust.value # lean.value
    BY DEF Disagree, MustNotFail, Forgiven
<1> QED BY <1>1, <1>2, <1>3 DEF EvalPanics, Unexpected

\* The targets that compare decisions.
LEMMA DecisionExact ==
    ASSUME Drawn, target \in DecisionTargets, NEW rust, NEW lean, MayAnswer(rust, lean)
    PROVE  Panics(rust, lean) <=> Disagree(rust, lean)
<1>1. Panics(rust, lean) <=> DecisionPanics(rust, lean)
    <2>1. CASE target = "tpe-pbt"
        BY <2>1 DEF Panics
    <2>2. CASE target = "entity-slicing"
        BY <2>2 DEF Panics
    <2> QED BY <2>1, <2>2
<1>2. Disagree(rust, lean) <=>
          rust.failure # "" \/ Response(rust.value).decision # Response(lean.value).decision
    <2>1. CASE target = "tpe-pbt"
        BY <2>1 DEF Disagree, MustNotFail
    <2>2. CASE target = "entity-slicing"
        BY <2>2 DEF Disagree, MustNotFail
    <2> QED BY <2>1, <2>2
<1> QED BY <1>1, <1>2 DEF DecisionPanics

\* The queries for entities, whose answers are compared with a decision for each entity.
LEMMA QueryExact ==
    ASSUME Drawn, target \in QueryTargets, NEW rust, NEW lean, MayAnswer(rust, lean)
    PROVE  Panics(rust, lean) <=> Disagree(rust, lean)
<1>1. rust.value \subseteq Asked
    <2>0. rust.value \in RustValues(target)
        BY DEF MayAnswer
    <2>1. CASE target = "query-principal"
        BY <2>0, <2>1 DEF RustValues
    <2>2. CASE target = "query-resource"
        BY <2>0, <2>2 DEF RustValues
    <2> QED BY <2>1, <2>2
<1>2. Panics(rust, lean) <=> QueryPanics(rust, lean)
    <2>1. CASE target = "query-principal"
        BY <2>1 DEF Panics
    <2>2. CASE target = "query-resource"
        BY <2>2 DEF Panics
    <2> QED BY <2>1, <2>2
<1>3. Disagree(rust, lean) <=>
          \/ rust.failure # ""
          \/ \E e \in Asked \ (OfWantedType \ (Stored \cup rust.value)) :
                 (e \in rust.value) # (e \in lean.value /\ e \in OfWantedType)
    <2>1. CASE target = "query-principal"
        BY <2>1 DEF Disagree, MustNotFail
    <2>2. CASE target = "query-resource"
        BY <2>2 DEF Disagree, MustNotFail
    <2> QED BY <2>1, <2>2
<1>4. (\E e \in Asked \ (OfWantedType \ (Stored \cup rust.value)) :
            (e \in rust.value) # (e \in lean.value /\ e \in OfWantedType))
      <=> \/ \E e \in rust.value : e \notin OfWantedType \/ e \notin lean.value
          \/ \E e \in (Stored \cap OfWantedType) \ rust.value : e \in lean.value
    BY <1>1 DEF Asked, OfWantedType, Stored
<1> QED BY <1>2, <1>3, <1>4 DEF QueryPanics

\* The query for actions, batched authorization and soundness of validation.
LEMMA OtherExact ==
    ASSUME Drawn, target \in {"query-action", "batched-pbt", "batched-drt", "validation-pbt"},
           NEW rust, NEW lean, MayAnswer(rust, lean)
    PROVE  Panics(rust, lean) <=> Disagree(rust, lean)
<1>1. CASE target = "query-action"
    <2>1. rust.value \in Decisions \cup {"unknown", "absent"} /\ lean.value \in Decisions
        BY <1>1 DEF MayAnswer, RustValues, LeanValues
    <2>2. Panics(rust, lean) <=> ActionPanics(rust, lean)
        BY <1>1 DEF Panics
    <2>3. Disagree(rust, lean) <=>
              \/ rust.failure # ""
              \/ /\ rust.value # "unknown" /\ ~(rust.value = "allow" /\ lean.value = "allow")
                 /\ ~(rust.value = "absent" /\ lean.value = "deny")
        BY <1>1 DEF Disagree, MustNotFail
    <2> QED BY <2>1, <2>2, <2>3 DEF ActionPanics, Decisions
<1>2. CASE target = "batched-pbt"
    <2>1. Panics(rust, lean) <=> BatchedPanics(rust, lean)
        BY <1>2 DEF Panics
    <2>2. Disagree(rust, lean) <=> IF rust.failure = "" THEN rust.value # lean.value
                                   ELSE rust.failure = "insufficientIterations"
        BY <1>2 DEF Disagree, MustNotFail
    <2> QED BY <2>1, <2>2 DEF BatchedPanics
<1>3. CASE target = "batched-drt"
    <2>1. Panics(rust, lean) <=> BatchedDrtPanics(rust, lean)
        BY <1>3 DEF Panics
    <2>2. Disagree(rust, lean) <=> rust.failure = "" /\ (lean.failure # "" \/ rust.value # lean.value)
        BY <1>3 DEF Disagree, MustNotFail
    <2> QED BY <2>1, <2>2 DEF BatchedDrtPanics
<1>4. CASE target = "validation-pbt"
    <2>1. Panics(rust, lean) <=> SoundnessPanics(rust)
        BY <1>4 DEF Panics
    <2>2. Disagree(rust, lean) <=>
              accepts = {"strict"} \/ ("permissive" \in accepts /\ rust.value = "preventable")
        BY <1>4 DEF Disagree, MustNotFail
    <2>3. accepts = {"strict"} <=> "strict" \in accepts /\ "permissive" \notin accepts
        BY DEF Drawn
    <2> QED BY <2>1, <2>2, <2>3 DEF SoundnessPanics
<1> QED BY <1>1, <1>2, <1>3, <1>4

\* For every target, a panic and a bug that shows are the same.
LEMMA Exact ==
    ASSUME Drawn, NEW rust, NEW lean, MayAnswer(rust, lean)
    PROVE  Panics(rust, lean) <=> Disagree(rust, lean)
BY AuthExact, ValidationExact, ConformanceExact, TpeExact, EvalExact, DecisionExact, QueryExact,
   OtherExact DEF Drawn, Targets

-----------------------------------------------------------------------------
(* The steps *)

\* A comparison is exact, and no other step changes what was found.
LEMMA TestStepInv == TestInv /\ [DifferentialNext]_testVars => TestInv'
<1> SUFFICES ASSUME TestInv, [DifferentialNext]_testVars PROVE TestInv'
    OBVIOUS
<1>1. CASE UNCHANGED <<target, effects, intended, accepts>> /\ testStage' \in {"ask", "skipped", "passed"}
    BY <1>1 DEF TestInv, Drawn, AlarmsExact
<1>2. CASE AskBoth
    <2>1. PICK rust \in [failure : RustFailures(target), value : RustValues(target)],
               lean \in [failure : LeanFailures(target), value : LeanValues(target)] :
              answers' = <<rust, lean>>
        BY <1>2 DEF AskBoth
    <2>2. UNCHANGED <<target, effects, intended, accepts>> /\ testStage' = "answered"
        BY <1>2 DEF AskBoth
    <2>3. MayAnswer(answers[1], answers[2])'
        BY <2>1, <2>2 DEF MayAnswer
    <2> QED BY <2>2, <2>3 DEF TestInv, Drawn, AlarmsExact
<1>3. CASE CompareAnswers
    <2>1. Panics(answers[1], answers[2]) <=> Disagree(answers[1], answers[2])
        BY <1>3, Exact DEF CompareAnswers, TestInv
    <2>2. /\ UNCHANGED <<target, effects, intended, accepts, answers>>
          /\ testStage' = IF Panics(answers[1], answers[2]) THEN "panicked" ELSE "agreed"
        BY <1>3 DEF CompareAnswers
    <2>3. Disagree(answers[1], answers[2])' <=> Disagree(answers[1], answers[2])
        BY <2>2 DEF Disagree, MustNotFail, Distinguished, Response, WithOutcome, Forgiven
    <2>4. AlarmsExact'
        BY <2>1, <2>2, <2>3 DEF AlarmsExact
    <2> QED BY <2>2, <2>4 DEF TestInv, Drawn
<1>4. CASE SkipInput \/ SkipRequest \/ NextRequest
    BY <1>1, <1>4 DEF SkipInput, SkipRequest, NextRequest
<1>5. CASE UNCHANGED testVars
    <2>1. UNCHANGED <<target, effects, intended, accepts, answers, testStage>>
        BY <1>5 DEF testVars
    <2>2. Disagree(answers[1], answers[2])' <=> Disagree(answers[1], answers[2])
        BY <2>1 DEF Disagree, MustNotFail, Distinguished, Response, WithOutcome, Forgiven
    <2>3. AlarmsExact'
        BY <2>1, <2>2 DEF TestInv, AlarmsExact
    <2>4. MayAnswer(answers[1], answers[2])' <=> MayAnswer(answers[1], answers[2])
        BY <2>1 DEF MayAnswer
    <2> QED BY <2>1, <2>3, <2>4 DEF TestInv, Drawn
<1> QED BY <1>2, <1>3, <1>4, <1>5 DEF DifferentialNext

-----------------------------------------------------------------------------
(* The theorem *)

\* For any number of policies and of requests, a target panics exactly at a request on which the
\* answers show a bug.
THEOREM HarnessExact == DifferentialSpec => []AlarmsExact
<1>1. DifferentialInit => TestInv
    BY DEF DifferentialInit, TestInv, Drawn, AlarmsExact
<1>2. TestInv => AlarmsExact
    BY DEF TestInv
<1> QED BY <1>1, <1>2, TestStepInv, PTL DEF DifferentialSpec

-----------------------------------------------------------------------------
(* The types of the harness *)

\* An answer is about a request of the input, so the count of those that are judged stays within
\* them when it grows.
CountInv ==
    /\ DifferentialTypes
    /\ testStage = "answered" => judged < RequestsOf(target)

\* A target asks about one thing at least.
LEMMA RequestsNumber == RequestsOf(target) \in Nat \ {0}
BY DifferentialAssumption DEF RequestsOf

\* No step takes a variable out of its type or the count past the requests.
LEMMA CountStepInv == CountInv /\ [DifferentialNext]_testVars => CountInv'
<1> SUFFICES ASSUME CountInv, [DifferentialNext]_testVars PROVE CountInv'
    OBVIOUS
<1>1. UNCHANGED <<target, effects, intended, accepts>>
    BY DEF DifferentialNext, testVars, SkipInput, SkipRequest, AskBoth, CompareAnswers, NextRequest
<1>2. RequestsOf(target)' = RequestsOf(target) /\ PoliciesOf(target)' = PoliciesOf(target)
    BY <1>1 DEF RequestsOf, PoliciesOf
<1>3. RequestsOf(target) \in Nat
    BY RequestsNumber
<1>4. /\ judged' \in 0..RequestsOf(target)
      /\ testStage' \in {"ask", "answered", "agreed", "passed", "skipped", "panicked"}
      /\ testStage' = "answered" => judged' < RequestsOf(target)
    <2>1. CASE SkipInput \/ NextRequest
        BY <2>1 DEF SkipInput, NextRequest, CountInv, DifferentialTypes
    <2>2. CASE SkipRequest
        BY <1>3, <2>2 DEF SkipRequest, CountInv, DifferentialTypes
    <2>3. CASE AskBoth
        BY <2>3 DEF AskBoth, CountInv, DifferentialTypes
    <2>4. CASE CompareAnswers
        BY <1>3, <2>4 DEF CompareAnswers, CountInv, DifferentialTypes
    <2>5. CASE UNCHANGED testVars
        BY <2>5 DEF testVars, CountInv, DifferentialTypes
    <2> QED BY <2>1, <2>2, <2>3, <2>4, <2>5 DEF DifferentialNext
<1> QED BY <1>1, <1>2, <1>4 DEF CountInv, DifferentialTypes

\* The variables of the harness have their types: it never judges more requests than it drew.
THEOREM HarnessTyped == DifferentialSpec => []DifferentialTypes
<1>1. DifferentialInit => CountInv
    BY RequestsNumber DEF DifferentialInit, CountInv, DifferentialTypes
<1>2. CountInv => DifferentialTypes
    BY DEF CountInv
<1> QED BY <1>1, <1>2, CountStepInv, PTL DEF DifferentialSpec
=============================================================================
