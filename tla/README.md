# A verification project for cedar-etna

This directory holds TLA+ models of the parts of this repository that keep state or
take several steps to reach an answer, TLC configurations that check them on small
instances, and theorems with proofs that TLAPS checks for every instance.

The repository is cedar-spec, the Lean formalisation of the Cedar authorization
language with its Rust bindings, command line, fuzzers and generators, together with
the ETNA workload: twelve historical bugs as patches, and scripts that put each one
back, run a property against it and record what happened. Cedar's Lean code has
proofs of its own (`cedar-lean/Cedar/Thm`, 70k lines). The models look at what those
do not reach: loops around a loader, state that changes between two calls, processes
that answer late, scripts that are killed half way.

## Reading the project

| module | models |
|---|---|
| `CedarEvaluator` | values, entities and the operators of the concrete evaluator |
| `PartialInput` | partial requests and stores; when a concrete one fits what was shown of it |
| `CedarTPE` | residuals and the partial evaluator |
| `Authorizer` | policy lists as outcomes: `Spec.isAuthorized`, `isAuthorizedFromResiduals` |
| `EntityLoading` | what batched evaluation assumes of a loader and of an evaluator |
| `BatchedEvaluator` | `batchedEvaluate` |
| `BatchedAuthorizer` | `batchedAuthorize`; implements `DecideOnce` |
| `DecideOnce` | the abstract authorizer: one verdict, allowed by the input, then rest |
| `PartialAuthorizer` | `TPE.isAuthorized`, `isValidAndConsistent`, `reauthorize`, in a changing world |
| `EtnaWorkload` | the experiment driver and the validator in one source tree |
| `SymccFuzz` | the SymCC fuzz targets and their solver process |
| `SmtEncoder` | `Encoder.encode`: names, memo tables and the script that goes to a solver |
| `SolverSession` | the checks of `SatUnsat.lean` and their callers, on one process or one each |
| `Symcc` | these three, a behaviour being one run of one of them; `MCSymcc` is its instance |
| `LeanRuntime` | the Lean runtime inside a Rust process: initialisation, threads, reference counts |
| `TermConversion` | terms, counterexamples and residuals on their way between Rust and Lean |
| `PolicyAnalysis` | the symbolic commands of the CLI: analysis of a policy set, comparison, checks |
| `CommandLine` | a command of the CLI from its files and arguments to its output |
| `SchemaGenerator`, `HierarchyGenerator` | random schemas and hierarchies; `InputGeneration` composes them |
| `PolicyGenerator`, `CommonTypes`, `ExprGenerator` | random policies and links, common types, depth of expressions |
| `DifferentialTesting` | what the fuzz targets make of the answers of two implementations |
| `SchemaEquivalence` | when two schemas are taken for equivalent after a round trip |
| `MCRustPrograms` | one instance of all these, a behaviour being one run of one of them |
| `MCCedar`, `MCLoading` | a small Cedar world: entities, stores, requests, policy bodies |
| `MC*` otherwise | one instance for TLC each |
| `*_proofs` | the theorems |

`MCLoading` gives the constants of `EntityLoading` the definitions of `CedarTPE`.
`BatchedAuthorizer` extends `EntityLoading` and `Authorizer`; `PartialAuthorizer`
extends `PartialInput` and `Authorizer`, and `MCPartialAuthorizer` gives its constants the
definitions of `CedarTPE`. `Symcc` extends the three modules about solvers. `CommandLine` extends `PolicyAnalysis`; `InputGeneration` extends
the generators of schemas, hierarchies and policies. A definition whose comment says "Mutation of X"
is not part of a model: it is X with a plausible bug, and the property named with it in
`PROJECT.json` fails when it takes the place of X.

## Inventory

Paths are under `src/`; `Cedar/` is `cedar-lean/Cedar/`.

### Language core (Lean)

| part | state and operations | hard behaviour | correct when |
|---|---|---|---|
| concrete evaluator (`Cedar/Spec/Evaluator.lean`, `Value`, `Expr`, `Entities`, `ExtFun`, `Data/Int64`) | none; `evaluate`, `apply1`, `apply2` | missing entities and attributes, 64-bit overflow, short circuits | it is the meaning the others are measured by |
| concrete authorizer (`Spec/Authorizer.lean`) | none; `isAuthorized` | errors are skipped, forbids override | decision, determining and erroring policies |
| partial evaluator (`TPE/Evaluator.lean`, `Residual.lean`) | none; `evaluate`, `errorFree`, `allLiteralUIDs` | dropping an operand that could fail; unknown ancestors, tags, attributes | a residual means on the full data what the policy means |
| partial authorizer (`TPE/Authorizer.lean`, `Input.lean`) | the `Response` a caller keeps; `isAuthorized`, `isValidAndConsistent`, `reauthorize` | request and store change between the calls | nothing claimed early is taken back; the check accepts and refuses the right worlds |
| batched evaluation (`TPE/BatchedEvaluator.lean`) | residuals, loaded store, fuel; `batchedEvaluate`, `batchedAuthorize` | a loader with missing entities and more than was asked; stale residuals; fuel at its limits | the decision of the full store, no wasted load, convergence |
| templates and policies (`Spec/Policy.lean`, `Template.lean`) | none; link | slots unfilled, scopes | linked policies are closed |
| level slicing (`Spec/Slice.lean`), levels (`Validation/Levels.lean`) | none | off by one between checker and slicer | a policy of level n evaluates alike on slice n |
| policy slicing (`Slice/PolicySlice.lean`) | none | scope matching | a sound slice gives the same response |
| extension types, wildcard (`Spec/Ext/*`, `Spec/Wildcard.lean`) | the memo table of the matcher | limits of 64 bits, negative dates, signs | parse and arithmetic agree with their definition |
| typechecker and validators (`Validation/*`) | capabilities along an expression | capability flow, subtyping | accepted policies fail only where they may |

### Symbolic compiler (Lean)

| part | state and operations | hard behaviour | correct when |
|---|---|---|---|
| compiler, enforcer, verifier (`SymCC/*`, `SymCCOpt/*`) | none | two pipelines that must agree | verdicts are those of the concrete semantics (proved in Lean) |
| encoder (`SymCC/Encoder.lean`) | memo tables of types, terms, functions | fresh names numbered by table size; errors in the middle | names unique, declared before use |
| solver session (`SymCC/Solver.lean`, `SatUnsat.lean`) | a process with two pipes | early exits, resets, end of stream | each check answers its own question |
| decoder (`SymCC/Decoder.lean`) | none | models with partial functions | the decoded model satisfies the assertions |

### Around the core

| part | state and operations | hard behaviour | correct when |
|---|---|---|---|
| Lean FFI (`cedar-lean/CedarFFI`, `cedar-lean-ffi`) | runtime initialised once, thread state, reference counts; conversions of terms and residuals | threads that come at once, a failed initialisation, drop order, arguments Lean takes over; widths, signs, order of sets | every object released once, no use of a thread that is not attached; what is carried means the same on both sides |
| Protobuf (`cedar-lean/Protobuf`, `CedarProto`) | a cursor in a byte array | truncated varints, repeated fields | values decode as encoded |
| CLI (`cedar-lean-cli`) | verdicts per pair of policies and environment, findings, output rows | renamed policies, environments left open by arguments, hash maps in any order, an error in the middle | findings and rows are what the inputs call for |
| differential testing (`cedar-drt/src`, `fuzz/src`, `fuzz_targets`) | the input and its requests | answers folded together, failures that are forgiven | a panic exactly where the answers show a bug |
| input generators (`cedar-policy-generators`) | the schema, hierarchy, policies and types drawn so far | retries, limits, lists that go out of step, names drawn twice, depth | what is drawn is accepted by the code under test |
| SymCC fuzz harness (`cedar-drt/fuzz/src/symcc.rs`, `symcc-*` targets) | shared solver, usage count, raw model | time limits with the answer still on its way, restarts, a dead process | a verdict belongs to the query it is given for |
| round-trip targets, `dump.rs` | corpus files | files written one by one | a case is complete |
| ETNA driver and validator (`scripts/`) | patches in the tree, rows in memory, `store.jsonl` | failures and kills at every command | rows were measured with the bug they name |
| ETNA runner, generators, properties (`Cedar/Etna`, `EtnaCedar`) | none across runs | status line against exit code | the status says what the property did |

`PROJECT.json` lists the same parts with their files and status, and the hazards with
the line where each bites.

How they interact: fuzz targets call Rust Cedar and, through `cedar-lean-ffi` and
`CedarFFI`, the Lean functions, and compare. `CedarFFI` decodes a protobuf message,
calls one function, and prints JSON. `TPE.isAuthorized` calls the typechecker for each
policy, then the partial evaluator; the batched loop calls the same evaluator once per
turn and the caller's loader in between. The symbolic verifier compiles policies to
terms, the encoder writes them to a solver's pipe, and the decoder reads the model
back. The ETNA scripts drive `git apply`, `lake build` and the `EtnaCedar` runner.

## The models

### The Cedar evaluators: `CedarEvaluator`, `CedarTPE`

Both are pure and are written as operators, recursive where the code is. Values are
records tagged with their type; sorted lists without repetition are TLA+ sets and
functions. Integers are bounded by `IntMin` and `IntMax`, which stand for the limits of
64 bits: overflow is an error at the same operations. Expressions are taken after the
typechecker, as residuals, because that is what `TypedExpr.toResidual` hands on;
`Residual.evaluate` is the concrete semantics. Error values are one value (the code
keeps kinds of error that no authorizer looks at). Strings are opaque, and a
pattern of `like` is the set of strings it matches. IP addresses, most decimal
comparisons and the parts of a datetime are left out.

The partial evaluator follows `TPE/Evaluator.lean` operator by operator: which
operand is looked at first, when an open operand is dropped (`errorFree`), what is
unknown when an entity, its attributes, its ancestors or its tags are not there.

The typechecker is not modelled: `Accepts` says which bodies it lets through, and the
pool of bodies in `MCCedar` is typed by hand, with one body it must refuse.

### Batched authorization: `EntityLoading`, `BatchedAuthorizer`, `BatchedEvaluator`

| TLA+ | code |
|---|---|
| `residuals`, `store`, `fuel` | the arguments of `batchedAuthorizeLoop` |
| `EvaluatePolicies` | `policies.mapM evaluatePolicy` on the empty store; one refusal fails the call |
| `Return` | the decision is there, or no fuel |
| `LoadAndReduce` | `toLoad`, the loader, `newEntities ++ store`, every residual evaluated again |
| `requested`, `answer` | history: what the loader was asked and what it said |

The loader is any that answers what it was asked for from one backing store, empty
data for what is missing, and any of the sets `Extras` besides. The loop is
written against an evaluator given by constants (`Reduce`, `Meaning`, `Literals`,
`Decided`, `Outcome`) and assumptions on them: evaluation on loaded data keeps the
meaning (`ReduceSound`), a decided residual stays decided (`OutcomeStable`), an open
one mentions an entity that was not loaded (`ReduceProgress`). So the theorems hold for
every evaluator that meets them, and TLC evaluates the assumptions, on every run, with
the definitions of `CedarTPE` for those constants.

Two readings of the code are worth knowing. `batchedEvaluateLoop` matches only on a
value, so an expression that has become an error keeps asking for the empty set until
the fuel ends (`LoaderContract` there is worded for it). And the decision is looked at
before the fuel, so `iters = 0` can decide.

### Partial authorization: `PartialAuthorizer`

A caller shows some part of a request and a store (`Authorize(m)`, where the mask m
says what is known), the world changes (`Change`), and the residuals are re-authorized
on the world of then (`Reauthorize`). A caller may also learn more and ask again. One policy
that is refused fails the call, and it is refused for the request and the entities as well
as for itself; a call with no policies looks at neither.

Before a re-authorization comes the check, in the order of the code: the partial request
has an environment (`invalidEnvironment`), it is valid and the concrete one fits the
environment (`typeError`), the two match, the entities shown are valid and the concrete
ones fit the schema (`typeError`), and they match. `Consistency` keeps this order, which a
caller sees in the verdict.

The evaluators are constants here too. What is assumed: evaluation of an accepted policy
keeps its meaning on every world that fits the schema and refines what was shown
(`ReduceSound`; refinement is defined by what is known, not by the check), a residual that is
filed under an outcome has it (`FiledSound`) and keeps it when more is shown
(`ReduceMonotone`), a request that fits has the types of its environment (`FitsTypes`), and
what is shown of a valid world is valid (`ValidWhenShown`). TLC evaluates all of them on the
definitions of `CedarTPE`.

### The ETNA scripts: `EtnaWorkload`

One tree, two scripts, one run at a time, any run failing at any command or killed.
Actions are the commands in their order; `Raise` is the `finally` of the driver,
`Abort` the end of the validator under `set -e`. The command that takes a patch out may
fail like any other: in `finally` (`Raise`), at the end of the trials (`RestoreFailed`) and
in the validator, and the patch stays. `how` tells the ways to end apart: `done`; `failed`,
with the patch taken out where the script does so; `unrestored`, when git apply -R of the driver
failed; `unwritten`, when opening, writing or closing the store did; `killed`. The rows go
through a buffer, so a write that is cut short leaves some of its lines and maybe a part of
the next (`Cuts`; `torn` marks it), to which the next run, appending, glues its first row.
Left out: that a crash of the system may lose lines that were written, and that git may be
killed while it writes a file. A patch applies exactly when it is not
installed, and the twelve are independent (checked against `patches/`: each has one
hunk, and each applies, refuses a second time, and comes out, in every order tried). A
task's witness may or may not notice its bug (`caught`). What a trial's property
reports is left open.

### The SymCC fuzz harness: `SymccFuzz`

The client is one task on a single-threaded runtime; the solver is a process that
takes commands in order and answers each, at its own pace, or dies. Queries have the
kinds that make a difference: the solver would say sat, unsat or unknown, the
assertions are constant, or they cannot be encoded. A time limit strikes while the
client waits and there is nothing to read. `Restarted` is what happens to the process
then: `get_cex` replaces it, `check_ok_inner` keeps it. The solver itself is external
and modelled from how the code uses it.

### The encoder: `SmtEncoder`

| TLA+ | code |
|---|---|
| `table` | `types`, `terms` and `uufs` of `EncoderState`; sizes are counted by sort (`typeNum`, `termNum`, `uufNum`) |
| `stack` | the calls of `encodeType`, `encodeTerm`, `encodeUUF` under way |
| `script` | what was declared and defined since the reset, with the names each command mentions |
| `Lookup`, `Descend` | `if let (.some enc) := (← get).…[x]?`, or the recursive call |
| `Spell` | what returns early and is written in full each time: builtin types, options, sets, literals |
| `Define`, `NameMember` | a new name and `insert`; the member of an enumeration, named with its type |
| `Throw` | a character out of range, an unknown member, an unknown attribute |
| `AssertAll` | the asserts, after all of them are encoded |

Items are trees given by constants, with what a well-formed term guarantees (`WellFormed`).
`encodeUUF` takes its number before its types are encoded, the others after. A text is
reduced to what it is of and the name it mentions, with what the name is mentioned for, so
that a name used for something else than it was declared for shows. What is left out: the
text itself, the selector `eid` that every entity type declares and no command uses, and the
datatype `Option`, declared before everything else. `IdMaps` are the tables that the
decoder reads backwards (`IdMaps.ofEncoderState`).

### The checks of Lean: `SolverSession`

`SymTest`, the FFI and the Etna property each drive a solver in their own way: the tests
make all checks on one process and stop at the first exception; the FFI spawns one for each
check, looks at constant asserts first and takes unknown for an exception; a trial spawns
one, asks for a model, and says exit. `caller` says which it is. A check is `CompileCheck`,
`SpawnSolver`, `EncodeAsserts` or `EncodeFails` (half a script is left in the pipe),
`AskVerdict`, `ReadVerdict`, `AskModel`, `ReadFirstLine`, `ReadLines`, `TellExit`, `Settle`.
There is no time limit here and no error stream: the process takes a command (`Obey`)
at its own pace, prints a model in two steps, ends after an error, or perishes at any
step. The end of the stream is a line that is no answer (`ReadEof`) for `checkSat` and for the first
line of a model; within a model it is read for ever (`ReadOn`). The process is external and
is modelled from what the code sends and expects.

### The Lean runtime: `LeanRuntime`

Each thread makes a `CedarLeanFfi`, loads a schema or not, calls Lean, and drops all it
has, a few times over; handles hold raw pointers, so none leaves its thread.
`START.call_once` is `BeginInit`, `EndInit`, `PassInit` and `Poisoned`: the closure may
panic. A call (`Call`) makes its buffers, clones the schema, hands everything to Lean,
which releases it, and forgets the handles; a schema is taken out of an answer that is
dropped right after (`TakeSchema`). `owner` says where the schema lives: local variables
are dropped in reverse, the fields of an `Analyzer` in order, so an Analyzer's schema is
released after its thread was given up (`ReleaseLate`). Lean allows that for an object
of its heap, and the model says that this is the only thing that happens so late. Two
`CedarLeanFfi` alive on one thread are not modelled: no program of the repository has them.
The doc of `CedarLeanFfi::new` warns that "we can only have one Lean thread"
(`lean_ffi.rs:575`). The code under it attaches every thread that comes and detaches it when
its `CedarLeanFfi` is dropped, and nothing in it keeps a second thread out; the model has two,
and `RuntimeSafe` holds of them. It is about initialisation and reference counts; what two
threads do inside Lean is outside of the model.

### The command line: `PolicyAnalysis`, `CommandLine`

`PolicyAnalysis` has the loops of `analysis.rs`: vacuity of every policy in every
environment, then every pair once, with the three comparisons that fit its effects, then
the classes out of a hash map in any order, then the report. Lean answers exactly or
with an error, which ends the command. `CommandLine` has what is around it: reading,
renaming by annotation, the environments the arguments leave open, one row for each.
What it prints of an environment is base names and the identifier of the action, so rows
of two namespaces may look alike. `validate` exits with success when the validation finds
errors.

`FindingsExact` states the findings as `cedar-lean-cli/README.md` (lines 137-141) defines them
(`Redundant`, `ShadowedBy`, `OverriddenBy`), and then what the code leaves out of them. A
policy that applies to no request of an environment is in no finding of it, though by the
README such policies are redundant with one another, shadowed by every other policy of
their effect that applies to some request and, permits, overridden by every forbid. A forbid that applies to every request overrides
nothing, though by the README it overrides every permit; **overrides_reported** shows one that
no finding mentions. The comments in `analysis.rs` are not of one mind with the code either:
`ShadowingResult` (lines 533-542) calls both policies non-vacuous where it says equivalent or
shadowed, and says no result as soon as one is vacuous, while the code sets aside only
policies that never apply (lines 571-582, 663-674): two that always apply are equivalent, and
one that always applies shadows one that does not.

### The generators

`SchemaGenerator` follows `Schema::arbitrary` in order: entity types, memberships,
actions, groups; the filter that takes an entity type `Action` out of one list and not
the other (names are drawn into an `IndexSet`, so at most one goes); the limit on request environments; the ranges that panic when empty.
`HierarchyGenerator` draws UIDs and then parents by one coin per candidate, and
`InputGeneration` runs one on the other's schema. `PolicyGenerator` has the three ways to a
policy set. `CommonTypes` binds names to types and rewrites the schema with them.
`ExprGenerator` follows one path down a generated type, value or expression.

The bytes of the fuzzer are nondeterminism: any coin may fall either way and the bytes may
run out at any draw. Reading the code against its comments showed a few things that no run
claims as a bug: types of attributes nest `max_depth + 1` deep (a set of longs at the
bottom), where a doc says `max_depth`; typed expressions reach `3 * max_depth + 3`;
`NumEntities::Exactly` counts in a loop no target uses.

### The harness: `DifferentialTesting`, `SchemaEquivalence`

Eighteen targets, each with what the two sides may say, the comparison it makes and the
failures it forgives. Both sides answer anything. A target also panics where a step that
must succeed does not (`expect`, `unwrap`, `panic!`): the entity manifest and the slices of
entity-slicing, partial evaluation and its residuals in tpe-pbt, the queries and the requests
they are made with, the residuals of either side in the comparisons of partial responses (`RustFailures`,
`BadResidual`, `MustNotFail`). Those comparisons take two failures for agreement, and so does
the model. Not modelled are the `unwrap`s that the input cannot reach: of constant texts, of
a concrete request made without a schema, of a schema whose conversion was tried when it was
drawn (`abac.rs:78`), and of the first policy added to an empty set. `Disagree` says, without reference to
the comparisons, when two answers show a bug; the order of policies, warnings, and what a
query says of entities that are not there are no part of it. Validation is compared with
`AgreeOnAll` whatever the implementation declares, and Lean's validator stops at its first
error. `SchemaEquivalence` is the comparison of the round-trip targets; `Meaning` is
its reference, the schema a fragment denotes.

### Conversions: `TermConversion`

A journey is one conversion after the other, in the order of the code: a Rust term by way
of its message to Lean and back; an asserted term of Lean to Rust; an environment of a
counterexample to Rust values; a residual to a policy expression. Terms are trees, and
what is abstracted are the names of operators that are copied one to one. Lean keeps sets
and records in the order they were sent; that they are sorted rests on the order of Rust
being the order of Lean, and is an assumption of the model.

## Properties and runs

The runs up to **symcc** check deadlock; a call that has returned stutters by an
action of its own. The programs of **rust_programs** really stop.

**batched_authorizer** (10928 states). `ReauthorizeAgrees`, `DecisionAgrees`: whatever
has been loaded, the residuals mean what the policies mean, and a decision taken early
is the one of the whole store. `Converges`, `LoaderContract`: as many iterations as
entities always decide; no turn asks for nothing (`NoIdleLoad`), no entity is asked for
twice. `OutcomesStable`: decided policies stay decided. `Implements`: refinement of
`DecideOnce`, with its liveness. Bounds: 83 policy lists of up to three policies from 26
bodies; two stores, one with a chain of references ending in a missing entity, one with
a self reference; three requests (an ordinary one, one by a missing principal, one the
schema refuses); 0, 1, 2 and 6 iterations for 6 entities (none, too few, and enough
for any input); extra answers none, two, and everything.

**batched_evaluator** (4868 states). The same for single expressions, which need not be
Boolean; `Returns` is its liveness.

**partial_authorizer** (41419 states). `ReauthorizeAgrees` and `ClaimsHold` over seven
worlds (two stores, another requester, a requester of the wrong type, a context that does
not fit, an entity gone, a store that does not fit the schema) and seven masks;
`SameLooksAccepted` keeps the check from being vacuous by refusing too much; `DecisionsStable` compares the responses of a caller that learns
more.

**etna_workload** (1187527 states). Two tasks, two trials, three runs: enough for a
killed run, one that inherits its tree or its torn line, and one after. `TreeGivenBack`: a
run ends with the tree it started on, or with one more patch, of a task it was asked for; it
gives the tree back if it ends well, and the experiment also when any command fails but
git apply -R. `RowsTruthful`: what a row was measured on. `StoredWhole`: all rows of a run or none,
unless the write was cut short; and which lines read back. `ValidationMeans`: a validation
that succeeds started clean and saw every bug noticed.

**symcc** (257087 states). Three programs, one of which a behaviour runs. The fuzz targets:
four queries of any kinds, the solver replaced after two uses: a time limit, an inherited
answer, a limit reached and one query after (`HandedOverIdle`, `AnswersMatch`,
`NoFalseAlarm`). The encoder: two calls on one or two of eight asserts over ten
types, two functions and 26 terms, with an enumeration or without: shared parts met in different
orders, failures half way, and a call after one that failed. `ScriptsRight`: every name is
declared once, before it is mentioned, and for what it is mentioned for; `find!` never
panics. `NamesMean`: what is asserted is what was asked for, and the decoder
takes each name for what it was declared for. The checks of Lean: two of every fate, by every
caller, the process perishing anywhere (`ChecksApart`): two are enough for what a check that
failed leaves behind to be there when the next begins. `TypesOK` is about all three, and
`EveryCallEnds` is their liveness.

**rust_programs** (about 531000 states). Ten programs, one of which a behaviour runs.
`RuntimeSafe`: two threads, two rounds of two calls, either owner: enough for a thread to
come while the other initialises, after it failed, and back after it was given up.
`ReportsExact`: every command on up to three policies, three requests and two environments, policy
files with repeated identifiers, schemas with two namespaces and every choice of arguments.
`GeneratedUsable`, `HierarchyOrdered`: three type lists with and without `Action`, two
actions, two types of two UIDs (a cycle needs two), sets of two policies and two links.
`GeneratedFits`: depths 0 to 2, every path. `SchemasMean`: fragments that differ in each way
the equivalence looks at, alone and with a name that stands for two types; lists of types
nested twice, with three draws of a name. `TermsKept`: a term of every form with widths
around the greatest that is sent (20 stands for 255), every decimal with two digits from
-2.50 to 2.50, every address of a small family. `AlarmsExact`: every pair of answers of every target,
two policies, two requests. `EveryProgramEnds` is liveness, of all of them.

Six runs show a disagreement between the repository and itself; `PROJECT.json` has the
quotes:

* **etna_one_bug**: a row of a variant may have been measured with two bugs in.
* **symcc_ok_checked**: `check_ok` reads a late answer as the answer of the next
  environment.
* **symcc_raw_model**: `raw_model` is kept over an unsat answer.
* **solver_always_told**: the exit that a trial of `property_symcc_pipeline_soundness`
  is to send always is not sent when encoding or reading fails before it. The loop over the
  trials ends at such a failure, so it is one process for each run that goes untold.
* **overrides_reported**: a forbid that applies to all requests of one environment and to
  none of another is reported neither as overriding a permit nor as vacuous.
* **members_filled**: the memberships of generated entity types are pushed into a temporary
  clone. So schemas are flat, and hierarchies drawn from them have no edges: the cycle
  that `HierarchyOrdered` speaks of needs a schema from a file.

Two more were met and have no run. The loader the tests use (`entityLoaderFor`,
`TPE/BatchedEvaluator.lean:119-125`) answers none for a missing entity, as the doc of
`EntityLoader` asks (lines 32-37); the formal definition that doc points to,
`EntityLoader.WellBehaved`, wants every uid of an answer to be in the store, so the soundness
theorem of the repository does not speak of missing entities. **batched_authorizer** and
**batched_evaluator** do. And the docstring of `run_etna_experiment.py` (lines 10-15)
appends a row for each trial, and the rows are stored together when the last task is done
(lines 151-154). `StoredWhole` says what is stored then.

### Fairness

The batched loops are functions that run to their end: `WF_vars(Next)`. The fuzz client
has a timer that always fires, so some step of it is always taken in the end
(`WF_vars(Client)`); nothing is assumed of the solver. `encode` is a function that runs on
until it returns or throws. A caller of `SolverSession` does nothing else than its check; it
has no timer, so its process has to be fair as well: it works on what it was asked
(`Obey`, `EndModel`) unless it perishes. A model that is cut off is excepted from
`EveryCallEnds`: there the caller does hang. In `MCRustPrograms` each thread of
the runtime that can go on does (threads are scheduled by the system), and a program of
one thread runs on until it ends; Lean and the generators' coins come to an answer, of
whatever kind. `PartialAuthorizer` and
`EtnaWorkload` state no fairness: nobody is bound to call or to run anything, and their
properties are safety.

## Proofs

Everything below holds for every value of the constants that meets the named
assumptions.

`Authorizer_proofs` is about the decision table alone. `DecisionSound`: a decision on
residuals is the decision under every completion of the open policies. `DecisionTight`:
where it says none, one completion allows and one denies. `DecisionMonotone`: deciding
more of the residuals does not change a decision. `FilesSound`: what is filed as erroring or
satisfied is so under every completion. `PermitsNotDenying`: with distinct policy ids, no
satisfied permit determines a denial. The argument files policies by effect and outcome
(`Having`) and follows each file through a completion.

`BatchedAuthorizer_proofs`. Neither `ReauthorizeAgrees` nor `DecisionAgrees` is
inductive. The invariant `IInv` adds what they rest on. `StoreLoaded`: the store is
`Loaded(es, U)` for some U, which is why a loader that answers too much does no harm, and
what the assumptions on the evaluator can be applied to. `MeaningKept`: each residual means
on the full store what its policy means; with `DecisionSound` this carries a decision over.
`OpenUnloaded`: what is open mentions an entity that is not loaded; this gives `NoIdleLoad`
and, with `LoadsPaid` (no more calls than loaded entities), convergence.
`RequestedLoaded` makes `NotAskedTwice` inductive. From it: `TypeCorrect`,
`ReauthorizeSound`, `DecisionCorrect`, `LoadsUseful`, `Convergence`, `LoaderUse`,
`OutcomesKept`, and `RefinesDecideOnce`: initial states map to initial states and every step
to a decision or a stutter.

`BatchedEvaluator_proofs`. The same strengthening for one expression, with two differences.
The loop stops only at a value (`DoneReason`), so an expression that has become an error goes
on asking, for nothing; `NotAskedTwice` is therefore about the sets that were asked for, which
are disjoint. And nothing is loaded before the first turn (`NotBegun`). From it:
`EvaluationTypes`, `ResultSound`, `EvaluationConverges`, `EvaluationLoads`.

`PartialAuthorizer_proofs`. The invariant says what the caller holds: a response that was
computed from a view of some world, by policies all of which were accepted there
(`CallSound`), and a re-authorization, if any, of that response on the world of now
(`FinalSound`). The step from it to the properties is a lemma about the check: a world that
it lets through refines what was shown, which is what `ReduceSound` asks for. That the
decision and the files are right then follows from the theorems about the decision table.
From it: `PartialTypes`, `ReauthorizationSound`, `ClaimsSound`, `CheckNotTooStrict` (the
other direction: what looks the same and fits the schema passes) and the action property
`LearningStable`.

`EtnaWorkload_proofs`. The invariant ties the tree to the tree the run started from and
the place in the script (`TreeIs`: between apply and restore the old tree and the current
patch, otherwise the old tree). `Behind` says that the tasks a run has been through were
not installed in the tree it found, and, for the validator, that their bugs were noticed;
at the end of a run over all tasks it says that the tree was clean. `RowsFit` and
`StoreFits` relate a row to the tree its run started from. `RowsDone`
follows the loops: a run holds one row for each trial it has been through, which is every
trial by the time it stores them. `RowsOwed` says the same of a run that has ended, `InOrder` that the rows of
earlier runs come first in the store, and `StoreFits` that only a run whose write was cut
short left a torn line. From it: `WorkloadTypes`, `TreeSafe`, `ValidationSound`,
`RowsSound`, `StoreWhole`.

`Symcc_proofs` has what talks to a solver.

*Fuzz targets.* The invariant (`InStep`) says for each place of a `get_cex` client what
is in the two pipes: nothing while it asks for the solver or for an answer; the one
command it waits for or the one reply to it afterwards; and, while it waits for a model,
that the process checked the current query last. That is stronger than
`HandedOverIdle`, which says nothing of a client that waits, and is what makes the next
line read the right one. `Roles` adds that `cex-drt` holds no model between queries and
that `check_ok` gives no verdict on counterexamples; `Counted` that the usage count is at
most one behind the calls served. From it: `SolverIdle`, `AnswersRight`, `AlarmsReal`. The `check_ok` target is part of the
theorem, and none of them says its values are its own: they are not
(**symcc_ok_checked**).

*Encoder.* Whether a name is new depends on the calls under way as much as on the tables.
`Entered` says of the tables that they are closed: the parts of what is in them are in them,
under names that the script declares. `Written` says of each command that its name has a letter by its
sort and a number below the size that sort has now, that two commands of a sort have different
numbers, and that what it mentions was declared by then. `Links` is about the stack: each
frame waits for the item of the next, so ranks fall from frame to frame, no item is under way
twice, and what is got so far is the text of the parts so far. A function keeps the
number it took at first: above its frame only types are encoded, so no other function is
numbered meanwhile. `OneMeaning` then gives one meaning to each name, also to the
names of members and attributes, which are made of the name of their type. From it:
`ScriptsAreRight`, `NamesAreMeant`.

*Checks of Lean.* `Pipes` says for each place of the caller what the pipes hold: at most this
check's own commands and lines, and which script the process has when it comes to its
check-sat. `EndsWell`: a process in use has not ended except by perishing, so an error line never is in the
pipe. `Heard`: what was heard is about this check. For the tests, whose process lives on,
this holds between checks too; a script that was cut off is undone by the reset of the next.
From it: `ChecksAreApart`.

The three invariants together are `SymccInv`, and give `SymccTyped`, about the specification
that **symcc** runs.

`LeanPrograms_proofs` has the runtime and the command line.

*Runtime.* `RefsCounted` alone is not inductive: a count is right after a drop
only if the handle that is dropped exists. `Held` says for each step of a thread which
handles and inner references it has; `Ready` how the process and a thread go together,
with `OneInitializes` for the only thing threads share. `OneMoves` is the frame: a step
of one thread leaves what the others have. From it: `RuntimeTyped`, `RuntimeCorrect`.

*Analysis.* `AnalysisInv` says for each loop that what it has found so far is exact for what
it has been through: `VacuityExact` for the policies before `turn`, `PairsExact` for the
pairs before it (`Compared`), `ClassesExact` for the environments before it and, within one,
that a policy is marked only together with its whole class; the classes come in any order.
`ResultsExact` does the same for comparisons. From it: `AnalysisTyped`, `AnalysisCorrect`.

*Commands.* `CliInv`: policies are renamed one to one; the environments of a command are
`Listed`, each once, and what is printed is a prefix of them (`Prefix`). With the analysis:
`CommandsCorrect`, `ReportsCorrect`. `ArgumentsInv` is about the list of inputs, which only
gets shorter; with `CliInv` it gives `CommandsTyped`.

`FuzzTargets_proofs` has the generators and the harness.

*Schemas.* `SchemaInv`: the running count of request environments is the number of those
the actions drawn so far have (`EnvsOf`), types in use are declared, and generation panics
only when `Action` is the one name drawn and there are no action groups (`OnlyAction`).
*Hierarchies.* Every edge was offered (`Offered`). A cycle has a UID with the greatest number,
found by well-founded induction on the naturals; its parent would have a greater one, unless
it is of another type, and then the types make a cycle.
*Inputs.* `InputInv`: a schema that was drawn allows no parents at all, so its hierarchy has
no edge; every type has an entity before requests are drawn, and a request is about types of
one environment. *Policies.* `PolicyInv`: identifiers that wait to be added differ from one
another and from those in the set (`DifferentIds`, `NotAdded`); a link gives values for
exactly the slots of its template (`LinksFit`); and a template of the rbac target in the set
has a link or is being linked (`TemplatesLinked`). *Depths.* Height and what is left of the
depth add up to `max_depth`; types of typed expressions grow by at most one container at
each node. *Harness.* `Panics` and `Disagree` agree for any answers, one lemma for each way
to compare; `ResponsesDiffer` is about the fold of outcomes into a response, for any set of
policies. The count of judged requests grows only while requests are left (`CountInv`). From these: `SchemaCorrect`, `HierarchyCorrect`, `InputsCorrect`,
`PoliciesCorrect`, `GeneratedCorrect`, `DepthBounds`, `HarnessExact`,
`HarnessTyped`.

Model-checked only:

* liveness: `Implements` in its eventuality, `Returns`, `EveryCallEnds`, `EveryProgramEnds`;
* `SchemasMean` and `TermsKept`, whose definitions recurse over types and terms;
* `TypesOK` of the programs as a whole, whose module reaches those definitions. The parts
  about the runtime, the analysis, the commands, inputs, policies, expressions and the harness
  are in the theorems; those about common types, equivalence and conversion are not;
* that the definitions of `CedarTPE` meet the assumptions of `EntityLoading` and
  `PartialAuthorizer`. This is an induction over expressions; TLC evaluates it on the
  residuals and worlds of the instances.

The evaluators use recursive operators, and no theorem's module reaches them.

## Not modelled, and why

The typechecker is a constant (accepted or not). The symbolic compiler is a function
without state that Lean proves right. Of the decoder only its tables of names are modelled, not
how it reads the expressions of a model; and solvers that only write their input to a
file give no answers. Text is left out everywhere: SMT-LIB, JSON,
protobuf, tables, log lines; so are the targets that print a value and parse it again. IP
addresses and the kinds of error are left out of the evaluators. Of the generators, the
choice between operators of the same types, names, annotations and the pools of constants
are left out, and the syntax trees of `pst.rs`. Of the harness, the dump of a corpus and the
logger. Concurrency inside a fuzz target does not exist (a single-threaded runtime) and is
not modelled.

## Plan

Written so far, in the order of what matters most: the TPE and batched modules, the
workload scripts, the fuzz harness, the Rust programs around the Lean code, and the encoder and
the checks on the way to a solver. Next:

1. Proofs: what `SchemaEquivalence` and `CommonTypes` do around their recursion (lists of
   types, tables of names), in modules apart from it.
2. Pure algorithms against reference definitions: level slicing and levels, wildcard
   matching with its memo, datetimes at the limits of 64 bits, policy slicing, template
   linking, varints. Request and entity validation.
