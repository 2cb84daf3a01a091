------------------------------ MODULE SmtEncoder ------------------------------
(***************************************************************************)
(* Encoder.encode (Cedar/SymCC/Encoder.lean): terms are written to a solver *)
(* as a script of declarations and definitions, one for each type, function *)
(* and term, and three tables remember the name that each was given. Names *)
(* are numbered by the size of a table. What is encoded of an item before  *)
(* the item itself may grow the tables, or fail half way.                  *)
(*                                                                         *)
(* The recursion of encodeType, encodeTerm and encodeUUF is a stack of      *)
(* frames. Types, terms and functions are trees given by constants, and    *)
(* the three tables are one, their sizes being counted by sort. Text is    *)
(* left out but for the names in it: an encoding says what it is the text  *)
(* of and which name it mentions, if any, and for what that name is meant. *)
(* The selector eid, which every entity type declares and no command uses, *)
(* and the datatype Option, declared first, are left out.                  *)
(***************************************************************************)
EXTENDS Naturals, Sequences, FiniteSets

CONSTANTS
    Types, Terms, Funs,  \* the items: types, terms, uninterpreted functions
    Form(_),      \* the constructor of an item, as far as the encoder looks at it
    Parts(_),     \* the items that are encoded on the way to an item, in order
    Rank(_),      \* the height of an item
    Eid(_),       \* the identifier of an entity literal
    Field(_),     \* the position of the attribute that a "get" reads, 0 if there is none
    Needs(_),     \* the extension types whose constructor or selectors a term names
    Unsayable,    \* terms with text SMT-LIB has no characters for
    Jobs,         \* [asserts, members]: what encode may be called with
    MaxCalls,     \* bound: the calls of encode with one solver
    Root          \* no item: the frame of the list of asserts

Items == Types \cup Terms \cup Funs

\* "wrapper" is Option and Set; "literal" is a Boolean, a bit vector or a string; "apply" is
\* every other term that is defined by its parts.
TypeForms == {"builtin", "wrapper", "entity", "ext", "record"}
TermForms == {"var", "literal", "euid", "get", "apply"}

ASSUME SortsDisjoint ==
    /\ Types \cap Terms = {} /\ Types \cap Funs = {} /\ Terms \cap Funs = {} /\ Root \notin Items
ASSUME FormsType ==
    /\ \A x \in Types : Form(x) \in TypeForms
    /\ \A x \in Terms : Form(x) \in TermForms
    /\ \A x \in Funs  : Form(x) = "fun"
ASSUME CallsType == MaxCalls \in Nat

\* A type is encoded after the types in it, a function after its two types, a term after its
\* type, the terms in it and the function it applies. Items are trees.
ASSUME PartsType ==
    /\ \A x \in Types \cup Funs : Parts(x) \in Seq(Types)
    /\ \A x \in Terms : Parts(x) \in Seq(Items) /\ Parts(x) # <<>> /\ Parts(x)[1] \in Types
    /\ \A x \in Types : Form(x) = "wrapper" => Len(Parts(x)) = 1
    /\ \A x \in Types : Form(x) \in {"builtin", "entity", "ext"} => Parts(x) = <<>>
ASSUME Trees ==
    \A x \in Items : Rank(x) \in Nat /\ \A i \in DOMAIN Parts(x) : Rank(Parts(x)[i]) < Rank(x)

\* The type of a term.
TypeOf(t) == Parts(t)[1]

\* What Term.WellFormed gives: a literal has a builtin type, an entity literal an entity type
\* and with its identifier no other is it, an attribute is read from a record, and operators of
\* an extension type have a value of this type as result or operand.
ASSUME WellFormed ==
    /\ \A t \in Terms : Form(t) = "literal" => Form(TypeOf(t)) = "builtin"
    /\ \A t \in Terms : Form(t) = "euid" => Len(Parts(t)) = 1 /\ Form(TypeOf(t)) = "entity"
    /\ \A s, t \in Terms :
          Form(s) = "euid" /\ Form(t) = "euid" /\ TypeOf(s) = TypeOf(t) /\ Eid(s) = Eid(t) => s = t
    /\ \A t \in Terms : Form(t) = "get" =>
          /\ Len(Parts(t)) = 2 /\ Parts(t)[2] \in Terms /\ Form(TypeOf(Parts(t)[2])) = "record"
          /\ Field(t) \in Nat
    /\ \A t \in Terms : \A y \in Needs(t) :
          /\ y \in Types /\ Form(y) = "ext"
          /\ \/ y = TypeOf(t)
             \/ \E i \in DOMAIN Parts(t) : Parts(t)[i] \in Terms /\ TypeOf(Parts(t)[i]) = y

\* The asserts, and the members of the entity types that are enumerations.
ASSUME JobsType ==
    \A j \in Jobs : /\ j.asserts \in Seq(Terms)
                    /\ DOMAIN j.members \subseteq {y \in Types : Form(y) = "entity"}
                    /\ \A y \in DOMAIN j.members :
                          j.members[y] \in Seq({j.members[y][i] : i \in DOMAIN j.members[y]})

VARIABLES
    encoding,   \* where encode is
    job,        \* what it was called with
    stack,      \* the calls under way, the innermost last
    table,      \* types, terms and uufs of EncoderState
    script,     \* the commands since the solver was reset
    asserted,   \* the texts that were asserted
    calls       \* the calls so far

encoderVars == <<encoding, job, stack, table, script, asserted, calls>>

EncoderInit ==
    /\ encoding = "idle" /\ job \in Jobs
    /\ stack = <<>> /\ table = <<>> /\ script = <<>> /\ asserted = <<>> /\ calls = 0

-----------------------------------------------------------------------------
(* Names and texts. *)

\* NoId: a text without a name that is declared.
NoId == <<>>

\* Mutations of Memoised: everything is; a record type is written in full, as a set is.
MemoisedAll(x) == TRUE
MemoisedNominal(x) == Form(x) \notin {"builtin", "wrapper", "literal", "record"}

\* What is entered into a table; the rest returns early.
Memoised(x) == Form(x) \notin {"builtin", "wrapper", "literal"}

SortOf(x) == IF x \in Types THEN Types ELSE IF x \in Terms THEN Terms ELSE Funs

\* typeNum, termNum, uufNum
NumberOf(S) == Cardinality(DOMAIN table \cap S)

\* Mutation of Letter: functions are named as terms are.
LetterShared(x) ==
    CASE Form(x) = "entity" -> "E" [] Form(x) = "record" -> "R" [] OTHER -> "t"

Letter(x) ==
    CASE Form(x) = "entity" -> "E"
      [] Form(x) = "record" -> "R"
      [] Form(x) = "fun"    -> "f"
      [] OTHER              -> "t"

\* entityTypeId, recordTypeId, uufId, termId; the extension types have names of their own.
NameOf(x, n) == IF Form(x) = "ext" THEN <<"ext", x>> ELSE <<Letter(x), n>>

\* enumId and recordAttrId
PartName(id, i) == <<id[1], id[2], i>>

\* Mutation of Number: a term, too, is numbered before its parts.
NumberEarly(f) == f.number

\* encodeUUF takes its number first, the others take theirs when their parts are encoded.
Number(f) == IF f.item \in Funs THEN f.number ELSE NumberOf(SortOf(f.item))

\* What is declared with a type: the members of an enumeration, the attributes of a record.
Components(x) ==
    IF x \in DOMAIN job.members THEN job.members[x]
    ELSE IF x \in Types /\ Form(x) = "record" THEN [j \in DOMAIN Parts(x) |-> j]
    ELSE <<>>

Whole(x)   == <<x>>
Piece(x, y) == <<x, y>>

\* The names a command declares, and what for.
Declares(c) ==
    {<<c.id, Whole(c.of)>>}
        \cup {<<PartName(c.id, i), Piece(c.of, Components(c.of)[i])>> : i \in DOMAIN Components(c.of)}

\* The names a command mentions, and what for.
Mentions(c) ==
    {<<c.args[i].id, c.args[i].says>> : i \in {k \in DOMAIN c.args : c.args[k].id # NoId}} \cup c.also

\* Everything that is declared by the first n commands.
DeclaredBy(n) == UNION {Declares(script[i]) : i \in 1..n}

-----------------------------------------------------------------------------
(* The steps. *)

Frame(x) == [item |-> x, number |-> NumberOf(SortOf(x)), todo |-> Parts(x), got |-> <<>>]

Top   == stack[Len(stack)]
Under == SubSeq(stack, 1, Len(stack) - 1)

\* Mutation of Filled: the texts come out last first.
FilledBackwards(f, e) ==
    [item |-> f.item, number |-> f.number, todo |-> Tail(f.todo), got |-> <<e>> \o f.got]

\* The frame f when e is the text of the part it asked for.
Filled(f, e) ==
    [item |-> f.item, number |-> f.number, todo |-> Tail(f.todo), got |-> Append(f.got, e)]

\* The return of e to the innermost of the calls s.
Given(s, e) == [s EXCEPT ![Len(s)] = Filled(@, e)]

\* Mutation of EmptyTable: what an earlier call has defined is remembered.
KeptTable == table

\* EncoderState.init
EmptyTable == <<>>

\* encode resets the solver and begins with empty tables, whatever came before.
BeginEncode ==
    /\ encoding \in {"idle", "encoded", "failed"} /\ calls < MaxCalls
    /\ encoding' = "running" /\ calls' = calls + 1
    /\ job' \in Jobs
    /\ script' = <<>> /\ table' = EmptyTable /\ asserted' = <<>>
    /\ stack' = <<[item |-> Root, number |-> 0, todo |-> job'.asserts, got |-> <<>>]>>

Found(x) == x \in DOMAIN table

\* The part was encoded before.
Lookup ==
    /\ encoding = "running" /\ Top.todo # <<>> /\ Found(Head(Top.todo))
    /\ stack' = Given(stack, table[Head(Top.todo)])
    /\ UNCHANGED <<encoding, job, table, script, asserted, calls>>

Descend ==
    /\ encoding = "running" /\ Top.todo # <<>> /\ ~Found(Head(Top.todo))
    /\ stack' = Append(stack, Frame(Head(Top.todo)))
    /\ UNCHANGED <<encoding, job, table, script, asserted, calls>>

\* The parts of the item are encoded.
Ready == encoding = "running" /\ Top.item # Root /\ Top.todo = <<>>

IsMember(x) == x \in Terms /\ Form(x) = "euid" /\ TypeOf(x) \in DOMAIN job.members

\* idxOf?
IsIndex(i, x) ==
    LET ms == job.members[TypeOf(x)] IN
    i \in DOMAIN ms /\ ms[i] = Eid(x) /\ \A j \in DOMAIN ms : ms[j] = Eid(x) => i <= j

\* The record type that a "get" reads from.
RecordOf(x) == TypeOf(Parts(x)[2])

\* The names a term mentions besides its parts.
Also(x) ==
    IF x \notin Terms THEN {}
    ELSE IF Form(x) = "get"
    THEN {<<PartName(table[RecordOf(x)].id, Field(x)), Piece(RecordOf(x), Field(x))>>}
    ELSE {<<NameOf(y, 0), Whole(y)>> : y \in Needs(x)}

\* Mutation of Throws: unknown members pass.
ThrowsText(x) ==
    \/ x \in Unsayable
    \/ x \in Terms /\ Form(x) = "get" /\ Field(x) \notin DOMAIN Parts(RecordOf(x))

\* Characters out of range, an unknown member of an enumeration, an unknown attribute.
Throws(x) ==
    \/ x \in Unsayable
    \/ IsMember(x) /\ ~\E i \in DOMAIN job.members[TypeOf(x)] : IsIndex(i, x)
    \/ x \in Terms /\ Form(x) = "get" /\ Field(x) \notin DOMAIN Parts(RecordOf(x))

\* Builtin types, options, sets and literals are written in full at each place.
Spell ==
    /\ Ready /\ ~Memoised(Top.item) /\ ~Throws(Top.item)
    /\ LET e == IF Form(Top.item) = "wrapper"
                THEN [Top.got[1] EXCEPT !.of = Top.item]
                ELSE [of |-> Top.item, id |-> NoId, says |-> <<>>]
       IN  stack' = Given(Under, e)
    /\ UNCHANGED <<encoding, job, table, script, asserted, calls>>

\* table.insert, and the return to the caller.
Remember(e) ==
    /\ table' = [x \in DOMAIN table \cup {Top.item} |-> IF x = Top.item THEN e ELSE table[x]]
    /\ stack' = Given(Under, e)
    /\ UNCHANGED <<encoding, job, asserted, calls>>

\* A member of an enumeration has the name that came with its type.
NameMember ==
    /\ Ready /\ IsMember(Top.item) /\ ~Throws(Top.item)
    /\ \E i \in DOMAIN job.members[TypeOf(Top.item)] :
          /\ IsIndex(i, Top.item)
          /\ Remember([of |-> Top.item, id |-> PartName(Top.got[1].id, i),
                       says |-> Piece(TypeOf(Top.item), Eid(Top.item))])
    /\ UNCHANGED script

\* Everything else is declared or defined under a new name.
Define ==
    /\ Ready /\ Memoised(Top.item) /\ ~IsMember(Top.item)
    /\ ~Throws(Top.item)
    /\ LET id == NameOf(Top.item, Number(Top)) IN
       /\ script' = Append(script,
                           [of |-> Top.item, id |-> id, args |-> Top.got, also |-> Also(Top.item)])
       /\ Remember([of |-> Top.item, id |-> id, says |-> Whole(Top.item)])

Throw ==
    /\ Ready /\ Throws(Top.item)
    /\ encoding' = "failed"
    /\ UNCHANGED <<job, stack, table, script, asserted, calls>>

\* Solver.assert of every id, once all of them are known.
AssertAll ==
    /\ encoding = "running" /\ Top.item = Root /\ Top.todo = <<>>
    /\ encoding' = "encoded" /\ asserted' = Top.got
    /\ UNCHANGED <<job, stack, table, script, calls>>

EncodeStep == Lookup \/ Descend \/ Spell \/ NameMember \/ Define \/ Throw \/ AssertAll

\* No more calls are made.
Done ==
    /\ encoding \in {"encoded", "failed"} /\ calls = MaxCalls
    /\ UNCHANGED encoderVars

EncoderNext == BeginEncode \/ EncodeStep \/ Done

\* encode is a function: it runs on until it returns or throws.
EncoderSpec == EncoderInit /\ [][EncoderNext]_encoderVars /\ WF_encoderVars(EncodeStep)

-----------------------------------------------------------------------------
(* Properties. *)

EncoderTypes ==
    /\ encoding \in {"idle", "running", "encoded", "failed"}
    /\ job \in Jobs /\ calls \in 0..MaxCalls
    /\ DOMAIN table \subseteq {x \in Items : Form(x) \notin {"builtin", "wrapper", "literal"}}
    /\ \A i \in DOMAIN stack : stack[i].item \in IF i = 1 THEN {Root} ELSE Items
    /\ \A i \in DOMAIN script : script[i].of \in Items

\* "each Term construct is translated to its SMT encoding exactly once [...] necessary for
\* correctness in the case of record type declarations, UF names, and variable names": no item
\* is defined twice, and no name of a script is declared twice.
DefinedOnce ==
    \A i, j \in DOMAIN script : i # j =>
        /\ script[i].of # script[j].of
        /\ \A m \in Declares(script[i]), n \in Declares(script[j]) : m[1] # n[1]

\* A command speaks of the parts of its item, in their order, by names that were declared
\* before it, since the solver was reset, and for what they are used for.
DeclaredBeforeUse ==
    \A i \in DOMAIN script :
        /\ Len(script[i].args) = Len(Parts(script[i].of))
        /\ \A k \in DOMAIN script[i].args : script[i].args[k].of = Parts(script[i].of)[k]
        /\ Mentions(script[i]) \subseteq DeclaredBy(i - 1)

\* What is asserted at the end are the texts of the asserts the call was made with, by names
\* that were declared for them.
AssertedRight ==
    encoding = "encoded" =>
        /\ Len(asserted) = Len(job.asserts)
        /\ \A k \in DOMAIN asserted :
              /\ asserted[k].of = job.asserts[k]
              /\ asserted[k].id # NoId => <<asserted[k].id, asserted[k].says>> \in DeclaredBy(Len(script))

\* IdMaps.ofEncoderState: the decoder reads the tables backwards.
IdMap(S) == {<<table[x].id, Whole(x)>> : x \in DOMAIN table \cap S}
EnumMap ==
    UNION {{<<PartName(table[y].id, i), Piece(y, job.members[y][i])>> : i \in DOMAIN job.members[y]} :
              y \in DOMAIN job.members \cap DOMAIN table}
Vars == {t \in Terms : Form(t) = "var"}
IdMaps == IdMap(Types) \cup IdMap(Vars) \cup IdMap(Funs) \cup EnumMap

\* A model speaks of the script's names. The decoder takes each for one thing, and for what the
\* script declared it for.
DecoderReadsBack ==
    /\ \A m, n \in IdMaps : m[1] = n[1] => m = n
    /\ IdMaps \subseteq DeclaredBy(Len(script))

\* The type of what an attribute is read from was encoded before: find! does not panic.
RecordKnown ==
    Ready /\ Top.item \in Terms /\ Form(Top.item) = "get" => RecordOf(Top.item) \in DOMAIN table

\* The script is one that the solver accepts: each item is encoded once, under a name of its
\* own, after what it mentions, and on the way no name is looked up that is not there.
ScriptsRight == DefinedOnce /\ DeclaredBeforeUse /\ RecordKnown

\* What is asserted and what the decoder reads in a model mean what encode was called with.
NamesMean == AssertedRight /\ DecoderReadsBack

\* A call comes to an end.
EncodingEnds == encoding = "running" ~> encoding \in {"encoded", "failed"}
=============================================================================
