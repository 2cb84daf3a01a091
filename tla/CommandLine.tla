------------------------------ MODULE CommandLine ------------------------------
(***************************************************************************)
(* A command of the Cedar Lean CLI from its arguments to its output        *)
(* (cedar-lean-cli/src: cli_exec.rs, util.rs, evaluation.rs,               *)
(* validation.rs, and the loops of symcc.rs over request environments).    *)
(*                                                                         *)
(* Every command reads its inputs in a fixed order, and the first that     *)
(* cannot be read or parsed ends it. Policies take the identifier of their *)
(* annotation; the symbolic commands work out the request environments     *)
(* their arguments leave open; then Lean is asked.                         *)
(***************************************************************************)
EXTENDS PolicyAnalysis, Sequences

CONSTANTS
    PolicyFiles,    \* files: sequences of annotations, or the identifier the parser gives
    CliSchemas,     \* schemas: the principal and resource types of each action <<namespace, id>>
    OpenArguments   \* the arguments principal type, action name and resource type, or NotGiven

ASSUME CliConstants ==
    /\ \A f \in PolicyFiles : f \in Seq(STRING)
    /\ \A s \in CliSchemas :
          /\ IsFiniteSet(DOMAIN s)
          /\ \A a \in DOMAIN s : IsFiniteSet(s[a][1]) /\ IsFiniteSet(s[a][2])

NotGiven == "any"

\* What a command reads, in order; "environment" stands for the three open arguments.
Tasks ==
    [authorize |-> {<<"policies", "request", "entities">>, <<"policies", "schema", "request", "entities">>},
     evaluate  |-> {<<"expression">> \o s \o <<"entities", "request">> \o o :
                        s \in {<<>>, <<"schema">>}, o \in {<<>>, <<"expression">>}},
     validate  |-> {<<"policies", "schema">>, <<"schema", "request">>, <<"schema", "entities">>},
     analyze   |-> {<<"policies", "schema">>, <<"policies", "policies", "schema">>},
     symcc     |-> {<<"policy", "schema", "environment">>, <<"policies", "schema", "environment">>,
                    <<"policies", "policies", "schema", "environment">>}]

VARIABLES
    task,       \* the command
    printing,   \* --print-smtlib: symcc prints a script for each environment as it goes
    file,       \* the policy file it is given
    cliSchema,  \* its schema
    open,       \* OpenRequestEnv
    inputs,     \* what it still has to read
    ids,        \* the identifiers of the policies that were read
    reqEnvs,    \* req_envs
    output,     \* what it has printed
    cliStage

cliVars == <<task, printing, file, cliSchema, open, inputs, ids, reqEnvs, output, cliStage>>
cliGiven == <<task, printing, file, cliSchema, open>>

CliInit ==
    /\ task \in DOMAIN Tasks /\ inputs \in Tasks[task]
    /\ printing \in (IF task = "symcc" THEN BOOLEAN ELSE {FALSE})
    /\ file \in PolicyFiles
    /\ cliSchema \in (IF task = "symcc" THEN CliSchemas ELSE {<<>>})
    /\ open \in (IF task = "symcc" THEN OpenArguments ELSE {<<NotGiven, NotGiven, NotGiven>>})
    /\ ids = {} /\ reqEnvs = <<>> /\ output = <<>> /\ cliStage = "reading"

-----------------------------------------------------------------------------

\* Mutation of IdTaken: a later policy takes the place of an earlier one.
IdTakenNever(f) == FALSE

\* Adding a second template or policy with an identifier is an error.
IdTaken(f) == \E i, j \in DOMAIN f : i # j /\ f[i] = f[j]

\* Anything that is read may be missing or malformed.
ReadFails ==
    /\ cliStage = "reading" /\ inputs # <<>>
    /\ cliStage' = "failed"
    /\ UNCHANGED <<cliGiven, inputs, ids, reqEnvs, output>>

\* parse_policyset, rename_from_id_annotation_policyset.
ReadPolicies ==
    /\ cliStage = "reading" /\ inputs # <<>> /\ Head(inputs) = "policies"
    /\ IF IdTaken(file)
       THEN cliStage' = "failed" /\ UNCHANGED <<ids, inputs>>
       ELSE cliStage' = "reading" /\ ids' = {file[i] : i \in DOMAIN file} /\ inputs' = Tail(inputs)
    /\ UNCHANGED <<cliGiven, reqEnvs, output>>

\* A single policy has no other to collide with.
ReadInput ==
    /\ cliStage = "reading" /\ inputs # <<>> /\ Head(inputs) # "policies"
    /\ inputs' = Tail(inputs)
    /\ UNCHANGED <<cliGiven, ids, reqEnvs, output, cliStage>>

-----------------------------------------------------------------------------
(* The request environments *)

\* An action is compared by its identifier alone, whatever its namespace.
Admits(p, a, r) ==
    /\ open[1] \in {NotGiven, p}
    /\ open[2] \in {NotGiven, a[2]}
    /\ open[3] \in {NotGiven, r}

ToRequestEnvs ==
    UNION {{<<p, a, r>> : p \in cliSchema[a][1], r \in cliSchema[a][2]} : a \in DOMAIN cliSchema}

\* They are sorted before they are asked about: the order is that of their names.
Sorted(E) == CHOOSE s \in [1 .. Cardinality(E) -> E] : \A i, j \in DOMAIN s : i # j => s[i] # s[j]

OpenEnvs ==
    /\ cliStage = "reading" /\ inputs = <<>> /\ task = "symcc"
    /\ LET E == {e \in ToRequestEnvs : Admits(e[1], e[2], e[3])}
       IN IF E = {} /\ open # <<NotGiven, NotGiven, NotGiven>>
          THEN cliStage' = "failed" /\ UNCHANGED reqEnvs
          ELSE cliStage' = "asking" /\ reqEnvs' = Sorted(E)
    /\ UNCHANGED <<cliGiven, inputs, ids, output>>

\* print_check_...: the script of one environment after the other; an error comes too late
\* for the scripts that are out. The schema is loaded before the first.
PrintScript ==
    /\ cliStage = "asking" /\ printing
    /\ \/ /\ Len(output) < Len(reqEnvs)
          /\ output' = Append(output, reqEnvs[Len(output) + 1])
          /\ UNCHANGED cliStage
       \/ /\ output = <<>> \/ Len(output) < Len(reqEnvs)
          /\ cliStage' = "failed" /\ UNCHANGED output
       \/ /\ Len(output) = Len(reqEnvs)
          /\ cliStage' = "printed" /\ UNCHANGED output
    /\ UNCHANGED <<cliGiven, inputs, ids, reqEnvs>>

\* run_check_...: all results are in before any is printed.
RunChecks ==
    /\ cliStage = "asking" /\ ~printing
    /\ \/ cliStage' = "printed" /\ output' = reqEnvs
       \/ cliStage' = "failed" /\ UNCHANGED output
    /\ UNCHANGED <<cliGiven, inputs, ids, reqEnvs>>

\* The commands that make one call; the analyses are in PolicyAnalysis.
AskOnce ==
    /\ cliStage = "reading" /\ inputs = <<>> /\ task # "symcc"
    /\ \/ cliStage' = "printed" /\ output' = <<task>>
       \/ cliStage' = "failed" /\ UNCHANGED output
    /\ UNCHANGED <<cliGiven, inputs, ids, reqEnvs>>

CliNext ==
    ReadFails \/ ReadPolicies \/ ReadInput \/ OpenEnvs \/ PrintScript \/ RunChecks \/ AskOnce

CliSpec == CliInit /\ [][CliNext]_cliVars

-----------------------------------------------------------------------------
(* Properties *)

CliTypes ==
    /\ task \in DOMAIN Tasks /\ printing \in BOOLEAN /\ open \in OpenArguments \cup {<<NotGiven, NotGiven, NotGiven>>}
    /\ Len(inputs) <= 5 /\ Len(output) <= IF task = "symcc" THEN Len(reqEnvs) ELSE 1
    /\ cliStage \in {"reading", "asking", "printed", "failed"}

\* A command speaks of what it was given, all of it. The policies it works on are as many as
\* its file has: one that takes the identifier of another by its annotation, also one the
\* parser made up, is refused and never replaces it. A symbolic command prints about each
\* environment once: of those of the schema that agree with every argument, in whatever
\* namespace the named action is, it leaves out none when it succeeds, and it succeeds with
\* nothing to say only when it was given no argument. A check that fails prints nothing.
CommandsExact ==
    /\ cliStage \in {"asking", "printed"} /\ ids # {} => Cardinality(ids) = Len(file)
    /\ \A i, j \in DOMAIN output : output[i] = output[j] => i = j
    /\ task = "symcc" =>
        LET agreeing == {e \in UNION {cliSchema[a][1] \X {a} \X cliSchema[a][2] : a \in DOMAIN cliSchema} :
                            \A i \in {1, 3} : open[i] # NotGiven => open[i] = e[i]}
            named == {e \in agreeing : open[2] # NotGiven => e[2][2] = open[2]}
        IN /\ {output[i] : i \in DOMAIN output} \subseteq named
           /\ cliStage = "printed" => /\ {output[i] : i \in DOMAIN output} = named
                                      /\ named # {} \/ open = <<NotGiven, NotGiven, NotGiven>>
           /\ cliStage = "failed" /\ ~printing => output = <<>>

\* What the CLI prints is what the inputs it was given call for: the findings of an analysis,
\* the answers about every environment of a symbolic command, and no policy lost on the way.
ReportsExact == AnalysisExact /\ CommandsExact
=============================================================================
