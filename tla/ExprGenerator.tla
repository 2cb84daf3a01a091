----------------------------- MODULE ExprGenerator -----------------------------
(***************************************************************************)
(* The recursion of the input generators over types and expressions        *)
(* (cedar-policy-generators/src/expr.rs, types.rs and the types of         *)
(* attributes in schema.rs), which settings.max_depth bounds. A run        *)
(* follows one path from the root of what is generated to one leaf: the    *)
(* height is the number of nodes on it.                                    *)
(*                                                                         *)
(* A type is the containers above its leaf, from the outside: a set, or a  *)
(* record with an attribute that is required or optional. The leaf is a    *)
(* bool, another type with literals, an extension type, or a record        *)
(* without attributes. Unknowns, which no fuzz target enables, are left    *)
(* out.                                                                    *)
(***************************************************************************)
EXTENDS Integers, Sequences

CONSTANT Depths \* the values of settings.max_depth

ASSUME DepthsAreNumbers == Depths \subseteq Nat

VARIABLES
    goal,     \* "value" of an attribute, "typed" expression, or "untyped" expression
    fromFile, \* the type of the attribute is that of a schema file, of any depth
    maxDepth, \* settings.max_depth
    wanted,   \* the type to generate next; for a value, the type of the whole attribute
    left,     \* the max_depth of the next call
    height,   \* nodes so far
    lost,     \* a required attribute is left out of the value
    exprStage \* "growing", "made", "toodeep" or "failed"

exprVars == <<goal, fromFile, maxDepth, wanted, left, height, lost, exprStage>>

Containers == {"set", "required", "optional"}
Leaves == {"bool", "literal", "ext", "empty"}

Plain(leaf) == [path |-> <<>>, leaf |-> leaf]
Inside(container, t) == [t EXCEPT !.path = <<container>> \o @]

\* Types with no more than d containers.
TypesUpTo(d) == [path : UNION {[1..n -> Containers] : n \in 0..d}, leaf : Leaves]

\* TypeGenerator::generate_type: at depth 0 there are no sets, and records are empty.
DrawnTypes(d) == TypesUpTo(d)

\* Mutation of AttributeTypesDrawn: a record at depth 0 has attributes.
AttributeTypesLate(d) == TypesUpTo(d + 1)

\* arbitrary_schematype_with_bounded_depth: at depth 0 a set is one of longs.
AttributeTypesDrawn(d) ==
    TypesUpTo(d) \cup {[path |-> Append(t.path, "set"), leaf |-> "literal"] :
                          t \in {s \in TypesUpTo(d) : Len(s.path) = d}}

ExprInit ==
    /\ goal \in {"value", "typed", "untyped"}
    /\ maxDepth \in Depths /\ left = maxDepth
    /\ fromFile \in IF goal = "value" THEN BOOLEAN ELSE {FALSE}
    /\ wanted \in CASE goal = "value"   -> IF fromFile THEN TypesUpTo(maxDepth + 2)
                                                       ELSE AttributeTypesDrawn(maxDepth)
                    [] goal = "typed"   -> {Plain("bool")} \cup DrawnTypes(maxDepth)
                    [] goal = "untyped" -> {Plain("bool")}
    /\ height = 0 /\ lost = FALSE
    /\ exprStage = "growing"

Growing(what) == exprStage = "growing" /\ goal = what

\* A subexpression is generated next.
Descend(t) ==
    /\ left' = left - 1 /\ height' = height + 1 /\ wanted' = t
    /\ UNCHANGED <<goal, fromFile, maxDepth, lost, exprStage>>

\* The path ends with n more nodes.
End(n) ==
    /\ height' = height + n
    /\ exprStage' = "made"
    /\ UNCHANGED <<goal, fromFile, maxDepth, wanted, left>>

\* Too few bytes, or nothing in the schema to choose from.
GenerationFails ==
    /\ exprStage = "growing" /\ exprStage' = "failed"
    /\ UNCHANGED <<goal, fromFile, maxDepth, wanted, left, height, lost>>

-----------------------------------------------------------------------------
(* generate_attr_value_for_type *)

\* The containers of the attribute the generation is inside of.
Entered == maxDepth - left
InContainer == Entered < Len(wanted.path)
Container == wanted.path[Entered + 1]

\* A constructor of an extension value has a string, offset two constructors.
LeafHeights(leaf) == IF leaf = "ext" THEN {2, 3} ELSE {1}

ValueOfLeaf ==
    /\ Growing("value") /\ ~InContainer
    /\ IF wanted.leaf = "ext" /\ left = 0
       THEN /\ exprStage' = "toodeep"
            /\ UNCHANGED <<goal, fromFile, maxDepth, wanted, left, height, lost>>
       ELSE /\ \E n \in LeafHeights(wanted.leaf) : End(n)
            /\ UNCHANGED lost

\* At depth 0 the set or the record is empty, whatever the type requires.
ValueCut ==
    /\ Growing("value") /\ InContainer /\ left = 0
    /\ End(1)
    /\ lost' = (Container = "required")

\* A set may be empty, and an optional attribute left out.
ValueStops ==
    /\ Growing("value") /\ InContainer /\ left > 0
    /\ Container # "required"
    /\ End(1)
    /\ UNCHANGED lost

ValueDescends ==
    /\ Growing("value") /\ InContainer /\ left > 0
    /\ Descend(wanted)

-----------------------------------------------------------------------------
(* generate_expr_for_type *)

\* A literal, a variable, or structural recursion on the type, which does not count its depth:
\* at depth 0 or with few bytes left.
TypedEnds ==
    /\ Growing("typed")
    /\ LET nest == Len(wanted.path) IN
       \E n \in 1..nest \cup {nest + k : k \in LeafHeights(wanted.leaf)} : End(n)
    /\ UNCHANGED lost

\* What the operands of an expression of type t may be: of a conditional, an attribute or a
\* tag of an entity, an attribute of a record, a call of an extension function, a literal of a
\* set or record, and the operators with a boolean result.
Operands(t) ==
    {t, Plain("bool"), Plain("literal"), Inside("required", t)}
    \cup IF t.path = <<>> /\ t.leaf # "empty" THEN {Plain("ext")} ELSE {}
    \cup IF t.path # <<>> THEN {[t EXCEPT !.path = Tail(@)]} ELSE {}
    \cup IF t = Plain("bool") THEN DrawnTypes(left) \cup {Inside("set", s) : s \in DrawnTypes(left)}
                              ELSE {}

TypedOperand ==
    /\ Growing("typed") /\ left > 0
    /\ \E t \in Operands(wanted) : Descend(t)

-----------------------------------------------------------------------------
(* generate_expr *)

\* A literal or a variable; the base of an attribute that is a string literal is put into a
\* record, for the printed policy to be parsed again.
UntypedEnds ==
    /\ Growing("untyped")
    /\ \/ End(1)
       \/ left > 0 /\ End(3)
    /\ UNCHANGED lost

UntypedOperand ==
    /\ Growing("untyped") /\ left > 0
    /\ Descend(wanted)

ExprNext ==
    \/ GenerationFails
    \/ ValueOfLeaf \/ ValueCut \/ ValueStops \/ ValueDescends
    \/ TypedEnds \/ TypedOperand
    \/ UntypedEnds \/ UntypedOperand

ExprSpec == ExprInit /\ [][ExprNext]_exprVars

-----------------------------------------------------------------------------
(* Properties *)

ExprTypes ==
    /\ goal \in {"value", "typed", "untyped"} /\ fromFile \in BOOLEAN
    /\ maxDepth \in Depths /\ left \in 0..maxDepth
    /\ wanted.path \in Seq(Containers) /\ wanted.leaf \in Leaves
    /\ height \in Nat /\ lost \in BOOLEAN
    /\ exprStage \in {"growing", "made", "toodeep", "failed"}

\* A value has the attributes its type requires, except that of a schema file with types that
\* nest deeper than max_depth; it is given up as too deep only when an extension type is
\* exactly max_depth containers deep. Whatever is chosen on the way, what is generated is no
\* higher than this: for a typed expression, whose types grow on the way down and are then
\* followed to their end, three times max_depth.
GeneratedFits ==
    /\ lost => goal = "value" /\ fromFile /\ Len(wanted.path) > maxDepth
    /\ exprStage = "toodeep" => goal = "value" /\ wanted.leaf = "ext" /\ Len(wanted.path) = maxDepth
    /\ height <= IF goal = "typed" THEN 3 * maxDepth + 3 ELSE maxDepth + 2
=============================================================================
