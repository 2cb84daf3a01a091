---------------------------- MODULE MCRustPrograms ----------------------------
(***************************************************************************)
(* The Rust programs around Lean, on small instances: threads that call    *)
(* Lean and what passes between them, the commands of the CLI, what the    *)
(* fuzz targets generate and how they compare. They share no state, so a   *)
(* behaviour is one run of one of them; the variables of the others stay   *)
(* as they are here.                                                       *)
(***************************************************************************)
EXTENDS LeanRuntime, PolicyAnalysis, InputGeneration, PolicyGenerator, CommonTypes, ExprGenerator,
        DifferentialTesting, SchemaEquivalence, TermConversion, CommandLine, TLC

VARIABLE program

Programs == {"runtime", "analysis", "inputs", "policies", "commontypes", "expressions",
             "testing", "equivalence", "conversion", "cli"}

programVars ==
    <<program, runtimeVars, analysisVars, inputVars, policyVars, commonVars, exprVars, testVars,
      equivalenceVars, conversionVars, cliVars>>

-----------------------------------------------------------------------------
(* Instances *)

MCMatches == {{}, {1}, {1, 2}, {2, 3}, {1, 2, 3}}
MCSizes == {<<3, 1>>, <<2, 2>>, <<1, 2>>, <<2, 0>>}

MCTypeIds == {<<"Action">>, <<"Action", "A">>, <<"A", "B">>}

Long == <<"long">>
SetOf(t) == <<"set", t>>
RecordOf(t) == <<"record", t>>
MCAttributeTypes == {<<SetOf(SetOf(Long))>>, <<RecordOf(SetOf(Long)), SetOf(Long)>>,
                     <<SetOf(RecordOf(Long)), Long>>, <<Long, RecordOf(Long)>>}
MCDrawnNames == {<<"x", 0>>, <<"x", 1>>}

\* Schema fragments: one namespace with an entity type that has one attribute, and an action.
Fragment(name, attribute, parents, common, action) ==
    name :> [entityTypes |->
                [U |-> [kind |-> "standard", memberOf |-> parents, tags |-> <<>>,
                        shape |-> <<"record", [x |-> [required |-> TRUE, ty |-> attribute]]>>],
                 P |-> [kind |-> "enum", choices |-> <<"p", "q">>]],
             commonTypes |-> common,
             actions |-> [view |-> [memberOf |-> <<>>, appliesTo |-> action]]]

Nothing == [n \in {} |-> Long]
For(principals, resources) ==
    <<[context |-> <<"record", Nothing>>, principals |-> principals, resources |-> resources]>>

Empty == "" :> [entityTypes |-> Nothing, commonTypes |-> Nothing, actions |-> Nothing]
MCFragments ==
    {Empty}
    \cup {Fragment(name, attribute, <<>>, common, For(<<"U", "P">>, <<"U">>)) :
            name \in {"", "N"},
            attribute \in {Long, <<"either", "__cedar::Long">>, <<"entity", "U">>, <<"either", "U">>,
                           <<"common", "C">>, <<"either", "C">>, SetOf(<<"either", "U">>)},
            common \in {Nothing, [C |-> Long], [C |-> SetOf(<<"either", "U">>)]}}
    \cup {Fragment("N", Long, parents, Nothing, action) :
            parents \in {<<>>, <<"U", "P">>, <<"P", "U">>, <<"P">>},
            action \in {<<>>, For(<<>>, <<"U">>), For(<<"U">>, <<>>), For(<<"U">>, <<"U">>),
                        For(<<"U", "P">>, <<"U">>), For(<<"P", "U">>, <<"U">>)}}
    \cup {Empty @@ Fragment("N", Long, <<>>, Nothing, <<>>)}

\* Terms: widths around the greatest that is sent, and a term of every form.
Bits(w, n) == <<"prim", <<"bitvec", w, n>>>>
Bool == <<"bool">>
Address == <<"var", "p", <<"ext", "ip">>>>
MCSentTerms ==
    {Bits(4, 9), Bits(20, 5), Bits(21, 5), <<"prim", <<"bool", TRUE>>>>, <<"prim", <<"entity", "e">>>>,
     <<"prim", <<"ipv4", 9, <<>>>>>>, <<"prim", <<"ipv6", 9, <<3>>>>>>, <<"prim", <<"decimal", -5>>>>,
     <<"none", <<"option", <<"record", [a |-> <<"bitvec", 21>>]>>>>>>,
     <<"none", <<"record", [a |-> <<"bitvec", 20>>, b |-> <<"ext", "ip">>]>>>>,
     <<"some", <<"var", "v", <<"entity", "E">>>>>>,
     <<"set", {Bits(4, 1), Bits(4, 2), Bits(4, 3)}, <<"bitvec", 4>>>>,
     <<"record", [a |-> Bits(4, 1), b |-> <<"set", {}, Bool>>]>>,
     <<"app", <<"uuf", "f", <<"entity", "E">>, SetOf(<<"entity", "E">>)>>,
              <<<<"var", "p", <<"entity", "E">>>>>>, SetOf(<<"entity", "E">>)>>,
     <<"app", <<"zero_extend", 12>>, <<Bits(4, 1)>>, <<"bitvec", 16>>>>,
     <<"app", <<"zero_extend", 25>>, <<Bits(4, 1)>>, <<"bitvec", 16>>>>,
     <<"app", <<"and">>, <<<<"app", <<"ext", "ipaddr.isV4">>, <<Address>>, Bool>>,
                           <<"app", <<"string.like", <<"star", "a">>>>,
                                    <<<<"prim", <<"string", "s">>>>>>, Bool>>>>, Bool>>}

MCFoundTerms ==
    {Bits(4, 17), Bits(0, 0), <<"prim", <<"ipv6", <<4, 9>>, <<>>>>>>,
     <<"prim", <<"ipv4", <<4, 9>>, <<<<3, 1>>>>>>>>, <<"prim", <<"ipv4", <<4, 9>>, <<<<2, 1>>>>>>>>,
     <<"set", <<Bits(4, 1), Bits(4, 17)>>, <<"prim", <<"bitvec", 4>>>>>>,
     <<"app", <<"string.like", <<"surrogate">>>>, <<<<"prim", <<"string", "s">>>>>>, <<"prim", Bool>>>>,
     <<"record", <<<<"a", Bits(4, 1)>>, <<"b", <<"some", Bits(0, 0)>>>>>>>>}

\* Environments: every decimal near 0, every small address, sets and records in each other.
OneAttribute(v) == <<"record", <<<<"a", v>>>>>>
Twice == <<"record", <<<<"a", <<"bool", TRUE>>>>, <<"a", <<"bool", FALSE>>>>>>>>
MCFoundEnvs ==
    {OneAttribute(<<"decimal", d>>) : d \in -250 .. 250}
    \cup {OneAttribute(<<"ipv4", <<4, a>>, prefix>>) : a \in 0 .. 15, prefix \in {<<>>, <<<<2, 3>>>>}}
    \cup {OneAttribute(<<"ipv6", <<8, 200>>, <<>>>>), OneAttribute(OneAttribute(<<"long", 3>>)),
          OneAttribute(<<"set", <<<<"datetime", -5>>, <<"duration", 7>>>>>>),
          Twice, OneAttribute(<<"set", <<Twice>>>>)}

\* Residuals: every function with one argument and with two, and some nested ones.
Context == <<"var", "context">>
MCLeftOver ==
    {<<"call", f, <<Context>> \o more>> : f \in DOMAIN OneArgument \cup DOMAIN TwoArguments,
                                         more \in {<<>>, <<<<"val", <<"decimal", -1>>>>>>}}
    \cup {<<"op", "less", <<Context, <<"error">>>>>>, <<"val", Twice>>,
          <<"op", "ite", <<Context, <<"op", "not", <<Context>>>>, <<"call", "offset", <<Context, Context>>>>>>>>,
          <<"op", "and", <<Context, <<"call", "offset", <<Context, Context, Context>>>>>>>>}

\* Policy files: the second identifier is one the parser could have made up.
MCPolicyFiles == {<<"policy0">>, <<"policy1", "policy1">>, <<"a", "b">>, <<"a", "policy1", "a">>}
MCCliSchemas ==
    {(<<"", "view">> :> <<{"U", "G"}, {"D"}>>) @@ (<<"N", "view">> :> <<{"U"}, {"D"}>>)
        @@ (<<"", "edit">> :> <<{}, {}>>),
     <<"", "view">> :> <<{}, {"D"}>>,
     (<<"N", "view">> :> <<{"U"}, {"D", "G"}>>) @@ (<<"N", "edit">> :> <<{"U"}, {"D", "G"}>>)}
MCOpenArguments == {NotGiven, "U", "G"} \X {NotGiven, "view", "edit"} \X {NotGiven, "D"}

-----------------------------------------------------------------------------
(* A program that does not run *)

RuntimeIdle ==
    /\ runtime = "down" /\ at = [t \in Threads |-> "new"] /\ owner = [t \in Threads |-> "locals"]
    /\ attached = [t \in Threads |-> 0] /\ calls = attached /\ rounds = attached
    /\ count = [t \in Threads |-> None] /\ handles = count /\ inside = count

AnalysisIdle ==
    /\ command = "check" /\ asked = {} /\ effect = <<>> /\ matched = <<>> /\ stage = "failed"
    /\ turn = <<1, 2>> /\ vacuity = <<>> /\ policyset = <<>> /\ redundant = <<>> /\ shadowed = <<>>
    /\ overridden = <<>> /\ equivalents = {} /\ classes = <<>> /\ results = <<>>

InputIdle ==
    /\ mode = "arbitrary" /\ typeCount = 0 /\ allowedParents = {}
    /\ pool = {} /\ linked = {} /\ edges = {} /\ hierarchyStage = "failed"
    /\ groups = TRUE /\ typeIds = <<"Action">>
    /\ entityTypes = <<>> /\ drawn = <<>> /\ names = 0 /\ actions = <<>>
    /\ principalTypes = {} /\ resourceTypes = {} /\ envs = 0 /\ schemaStage = "failed"
    /\ inputStage = "file" /\ request = NoRequest

PolicyIdle ==
    /\ source = "abac" /\ scopes = <<>> /\ links = <<>> /\ added = {} /\ policyStage = "failed"

CommonIdle ==
    /\ attributes = <<Long, RecordOf(Long)>> /\ unbound = attributes
    /\ bindings = <<>> /\ commonTypes = <<>> /\ rewritten = <<>> /\ commonStage = "bind"

ExprIdle ==
    /\ goal = "untyped" /\ fromFile = FALSE /\ maxDepth = 0 /\ left = 0
    /\ wanted = Plain("bool") /\ height = 0 /\ lost = FALSE /\ exprStage = "failed"

TestingIdle ==
    /\ target = "eval" /\ effects = <<"permit">> /\ intended = <<>> /\ accepts = {}
    /\ judged = 0 /\ answers = <<>> /\ testStage = "skipped"

EquivalenceIdle ==
    left_fragment = Empty /\ right_fragment = Empty /\ equivalence = "unknown"

ConversionIdle ==
    journey = "assert" /\ origin = Bits(0, 0) /\ item = <<"failed", Error>>

CliIdle ==
    /\ task = "validate" /\ printing = FALSE /\ file = <<"policy0">> /\ cliSchema = <<>>
    /\ open = <<NotGiven, NotGiven, NotGiven>> /\ inputs = <<>> /\ ids = {} /\ reqEnvs = <<>> /\ output = <<>>
    /\ cliStage = "failed"

MCInit ==
    /\ program \in Programs
    /\ IF program = "runtime" THEN RuntimeInit ELSE RuntimeIdle
    /\ IF program = "analysis" THEN AnalysisInit ELSE AnalysisIdle
    /\ IF program = "inputs" THEN InputInit ELSE InputIdle
    /\ IF program = "policies" THEN PolicyInit ELSE PolicyIdle
    /\ IF program = "commontypes" THEN CommonInit ELSE CommonIdle
    /\ IF program = "expressions" THEN ExprInit ELSE ExprIdle
    /\ IF program = "testing" THEN DifferentialInit ELSE TestingIdle
    /\ IF program = "equivalence" THEN EquivalenceInit ELSE EquivalenceIdle
    /\ IF program = "conversion" THEN ConversionInit ELSE ConversionIdle
    /\ IF program = "cli" THEN CliInit ELSE CliIdle

OthersUnchanged ==
    /\ UNCHANGED program
    /\ IF program = "runtime" THEN TRUE ELSE UNCHANGED runtimeVars
    /\ IF program = "analysis" THEN TRUE ELSE UNCHANGED analysisVars
    /\ IF program = "inputs" THEN TRUE ELSE UNCHANGED inputVars
    /\ IF program = "policies" THEN TRUE ELSE UNCHANGED policyVars
    /\ IF program = "commontypes" THEN TRUE ELSE UNCHANGED commonVars
    /\ IF program = "expressions" THEN TRUE ELSE UNCHANGED exprVars
    /\ IF program = "testing" THEN TRUE ELSE UNCHANGED testVars
    /\ IF program = "equivalence" THEN TRUE ELSE UNCHANGED equivalenceVars
    /\ IF program = "conversion" THEN TRUE ELSE UNCHANGED conversionVars
    /\ IF program = "cli" THEN TRUE ELSE UNCHANGED cliVars

MCNext ==
    \/ program = "runtime" /\ RuntimeNext /\ OthersUnchanged
    \/ program = "analysis" /\ AnalysisNext /\ OthersUnchanged
    \/ program = "inputs" /\ InputNext /\ OthersUnchanged
    \/ program = "policies" /\ PolicyNext /\ OthersUnchanged
    \/ program = "commontypes" /\ CommonNext /\ OthersUnchanged
    \/ program = "expressions" /\ ExprNext /\ OthersUnchanged
    \/ program = "testing" /\ DifferentialNext /\ OthersUnchanged
    \/ program = "equivalence" /\ EquivalenceNext /\ OthersUnchanged
    \/ program = "conversion" /\ ConversionNext /\ OthersUnchanged
    \/ program = "cli" /\ CliNext /\ OthersUnchanged

\* A thread that can go on does, and so does a program of one thread.
MCFairness ==
    /\ \A t \in Threads : WF_programVars(program = "runtime" /\ RuntimeStep(t) /\ OthersUnchanged)
    /\ WF_programVars(program # "runtime" /\ MCNext)

MCSpec == MCInit /\ [][MCNext]_programVars /\ MCFairness

-----------------------------------------------------------------------------
(* Properties *)

\* The variables of every program have their types.
TypesOK ==
    /\ program \in Programs
    /\ RuntimeTypes /\ AnalysisTypes /\ InputTypes /\ PolicyTypes /\ CommonTypesOK /\ ExprTypes
    /\ DifferentialTypes /\ EquivalenceTypes /\ ConversionTypes /\ CliTypes

\* A schema keeps its meaning when its types are given names, and two that are taken for
\* equivalent after a round trip have one meaning.
SchemasMean == CommonTypesResolve /\ EquivalenceMeans

Ended ==
    CASE program = "runtime"     -> \A t \in Threads : at[t] \in {"ended", "panicked"}
      [] program = "analysis"    -> stage \in {"printed", "failed"}
      [] program = "inputs"      -> \/ hierarchyStage \in {"ready", "cyclic", "failed"}
                                    \/ inputStage = "schema" /\ schemaStage \in {"failed", "panicked"}
                                    \/ inputStage = "schema" /\ schemaStage = "made" /\ ~groups
      [] program = "policies"    -> policyStage \in {"built", "panicked", "failed"}
      [] program = "commontypes" -> commonStage = "made"
      [] program = "expressions" -> exprStage # "growing"
      [] program = "testing"     -> testStage \in {"passed", "skipped", "panicked"}
      [] program = "equivalence" -> equivalence # "unknown"
      [] program = "conversion"  -> place \in {"back", "failed", "panicked"}
      [] program = "cli"         -> cliStage \in {"printed", "failed"}

\* Every program ends, whatever goes wrong in it: no thread waits for ever for another to
\* initialise Lean, also when that one panics, and the loops over policies, pairs, classes,
\* environments, names and types come to an end.
EveryProgramEnds == <>Ended
=============================================================================
