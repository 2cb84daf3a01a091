---------------------------- MODULE EtnaWorkload ----------------------------
(***************************************************************************)
(* The two scripts that exercise the mutation workload: the experiment     *)
(* driver scripts/run_etna_experiment.py and the validator                 *)
(* scripts/validate_lean_workload.sh. Both install the patch of one task   *)
(* after the other in the same source tree, build, run, and take the patch *)
(* out again. Every command they run may fail, the one that takes a patch  *)
(* out among them, writing the rows may fail, and every run may be killed; *)
(* the next run then starts from the tree and the store it finds.          *)
(*                                                                         *)
(* A task of etna.toml is a number here, and stands for its mutation, its  *)
(* patch and its one property. The twelve patches are independent: each    *)
(* applies exactly when it is not installed.                               *)
(***************************************************************************)
EXTENDS Naturals, Sequences, FiniteSets

CONSTANTS
    N,         \* the number of tasks in etna.toml
    Trials,    \* --trials
    MaxRuns    \* bound on the script runs

ASSUME CountsType == N \in Nat /\ Trials \in Nat /\ MaxRuns \in Nat

Tasks == 1..N

VARIABLES
    caught,    \* the tasks whose witness notices their bug
    tree,      \* the patches installed in the source tree
    script,    \* the script that is running, or "none"
    pc,        \* what it does next
    sel,       \* the tasks it was asked for (--mutations)
    task,      \* where its loop over the tasks is
    trial,     \* the trial of the experiment
    rows,      \* the rows it holds in memory
    from,      \* the tree it started from (history)
    store,     \* store.jsonl
    log        \* the runs that have ended (history)

run  == <<script, pc, sel, task, trial, rows, from>>
vars == <<caught, tree, run, store, log>>

Init ==
    /\ caught \in SUBSET Tasks
    /\ tree = {}
    /\ script = "none" /\ pc = "none"
    /\ sel = {} /\ task = 1 /\ trial = 0 /\ rows = <<>> /\ from = {}
    /\ store = <<>> /\ log = <<>>

-----------------------------------------------------------------------------

AllDone == task > N

\* Mutation of Written: a run that fails still writes the rows it has.
WrittenAlways(how) == {rows}

\* What a buffered write that is cut short leaves in the file: some of the lines, and maybe
\* a beginning of the next one, a line that is torn: its end, at least the newline, is missing.
Cuts ==
    LET first(k) == SubSeq(rows, 1, k) IN
    {first(k) : k \in 0..Len(rows)} \cup {[first(k) EXCEPT ![k].torn = TRUE] : k \in 1..Len(rows)}

\* The rows go to the store after the loop, and only then. A run that is killed while it
\* writes them, or whose write fails, leaves what came through.
Written(how) ==
    LET writing == script = "experiment" /\ pc = "apply" /\ AllDone IN
    CASE how = "done" -> {rows}
      [] how \in {"killed", "unwritten"} /\ writing -> Cuts
      [] OTHER -> {<<>>}

\* The script ends, leaving the patches t in the tree.
End(how, t) ==
    /\ tree' = t
    /\ script' = "none" /\ pc' = "none"
    /\ sel' = {} /\ task' = 1 /\ trial' = 0 /\ rows' = <<>> /\ from' = {}
    /\ \E written \in Written(how) : store' = store \o written
    /\ log' = Append(log, [script |-> script, how |-> how, sel |-> sel, from |-> from, to |-> t])
    /\ UNCHANGED caught

\* The script goes on to p, leaving the patches t in the tree.
Goto(p, t) ==
    /\ pc' = p
    /\ tree' = t
    /\ UNCHANGED <<caught, script, sel, from, store, log>>

\* A command that fails ends the script (check=True, set -e).
Abort == End("failed", tree)

\* A script starts on the tree it finds; nothing looks whether it is clean.
Start(s, tasks) ==
    /\ script = "none" /\ Len(log) < MaxRuns
    /\ script' = s /\ pc' = "base"
    /\ sel' = tasks
    /\ from' = tree
    /\ UNCHANGED <<caught, tree, task, trial, rows, store, log>>

StartExperiment == \E tasks \in SUBSET Tasks : Start("experiment", tasks)
StartValidation == Start("validate", Tasks)

\* The base build.
BaseBuild ==
    /\ pc = "base"
    /\ \/ Goto("apply", tree) /\ UNCHANGED <<task, trial, rows>>
       \/ Abort

\* Mutation of Applies: a patch that is installed already is passed over.
AppliesAnyway(t) == TRUE

\* git apply refuses a patch that is installed already.
Applies(t) == t \notin tree

Apply ==
    /\ pc = "apply" /\ ~AllDone /\ task \in sel
    /\ \/ /\ Applies(task)
          /\ Goto("build", tree \cup {task}) /\ trial' = 1 /\ UNCHANGED <<task, rows>>
       \/ Abort

\* A task that was not asked for.
Skip ==
    /\ pc = "apply" /\ ~AllDone /\ task \notin sel
    /\ Goto("apply", tree)
    /\ task' = task + 1
    /\ UNCHANGED <<trial, rows>>

-----------------------------------------------------------------------------
(* The experiment driver. *)

\* Mutation of Raise: there is no `finally`.
RaisePlain == Abort

\* An exception inside the `try`: a command that fails, no JSON line in the output, or an
\* interrupt from the keyboard. `finally` takes the patch out, then the exception ends the
\* script; if git apply -R fails too, its exception does, and the patch stays.
Raise == End("failed", tree \ {task}) \/ End("unrestored", tree)

Build ==
    /\ script = "experiment" /\ pc = "build"
    /\ \/ Goto("trial", tree) /\ UNCHANGED <<task, trial, rows>>
       \/ Raise

\* Mutation of TrialsDone: range(1, trials + 1) with its bound taken as inclusive.
TrialsDoneLate == trial > Trials + 1

\* The end of range(1, trials + 1).
TrialsDone == trial > Trials

\* `lake exe` brings the build up to date first: the row is measured on the tree.
Trial ==
    /\ script = "experiment" /\ pc = "trial" /\ ~TrialsDone
    /\ \/ /\ Goto("trial", tree)
          /\ trial' = trial + 1
          /\ rows' = Append(rows, [run |-> Len(log) + 1, task |-> task,
                                   trial |-> trial, on |-> tree, torn |-> FALSE])
          /\ UNCHANGED task
       \/ Raise

\* Mutation of RestoreFailed: check=False, the driver goes on to the next task.
RestoreIgnored == Goto("apply", tree) /\ task' = task + 1 /\ UNCHANGED <<trial, rows>>

\* git apply -R fails at the end of the trials.
RestoreFailed == End("unrestored", tree)

\* git apply -R, at the end of the trials.
Restore ==
    /\ script = "experiment" /\ pc = "trial" /\ TrialsDone
    /\ \/ Goto("apply", tree \ {task}) /\ task' = task + 1 /\ UNCHANGED <<trial, rows>>
       \/ RestoreFailed

\* The store is opened for appending, written line by line and closed; each may fail.
WriteRows ==
    /\ script = "experiment" /\ pc = "apply" /\ AllDone
    /\ End("done", tree) \/ End("unwritten", tree)

-----------------------------------------------------------------------------
(* The validator. It has no `finally`: only a witness that answers wrongly on the patched
   tree has its patch taken out. *)

\* What the witness of task t may report on the tree: "aborted" if it raised an exception.
Statuses(t) == {IF t \in tree /\ t \in caught THEN "failed" ELSE "passed", "aborted"}

\* Mutation of BugNoticed: any complaint will do.
BugNoticedOrAborted(status) == status # "passed"

BugNoticed(status) == status = "failed"

BuildBuggy ==
    /\ script = "validate" /\ pc = "build"
    /\ \/ Goto("witness", tree) /\ UNCHANGED <<task, trial, rows>>
       \/ Abort

WitnessOnBuggy ==
    /\ script = "validate" /\ pc = "witness"
    /\ \/ \E status \in Statuses(task) :
            IF BugNoticed(status)
            THEN Goto("witnessBase", tree \ {task}) /\ UNCHANGED <<task, trial, rows>>
            ELSE End("failed", tree \ {task})
       \/ Abort

WitnessOnBase ==
    /\ script = "validate" /\ pc = "witnessBase"
    /\ \/ \E status \in Statuses(task) :
            IF status = "passed"
            THEN Goto("apply", tree) /\ task' = task + 1 /\ UNCHANGED <<trial, rows>>
            ELSE Abort
       \/ Abort

AllVariantsOk == script = "validate" /\ pc = "apply" /\ AllDone /\ End("done", tree)

-----------------------------------------------------------------------------

\* SIGKILL, or an interrupt while git applies a patch, before the `try`.
Kill == script # "none" /\ End("killed", tree)

Rested == script = "none" /\ Len(log) = MaxRuns /\ UNCHANGED vars

Next ==
    \/ StartExperiment \/ StartValidation \/ BaseBuild \/ Apply \/ Skip
    \/ Build \/ Trial \/ Restore \/ WriteRows
    \/ BuildBuggy \/ WitnessOnBuggy \/ WitnessOnBase \/ AllVariantsOk
    \/ Kill \/ Rested

Spec == Init /\ [][Next]_vars

-----------------------------------------------------------------------------
(* Properties. *)

TypeOK ==
    /\ tree \subseteq Tasks /\ sel \subseteq Tasks /\ task \in 1..N + 1
    /\ script \in {"none", "experiment", "validate"}
    /\ pc \in {"none", "base", "apply", "build", "trial", "witness", "witnessBase"}
    /\ pc \in {"build", "trial", "witness"} => task \in tree
    /\ trial \in 0..Trials + 1
    /\ Len(log) <= MaxRuns

\* A run ends with the tree it started on, or with one more patch: of a task it was asked for
\* and that was not installed, never two. It gives the tree back if it says that all is well,
\* and the experiment, thanks to `finally`, also when any command fails but git apply -R.
GivesBack(r) ==
    \/ log[r].how = "done"
    \/ log[r].script = "experiment" /\ log[r].how \in {"failed", "unwritten"}
TreeGivenBack ==
    \A r \in DOMAIN log :
        LET e == log[r] IN
        \/ e.to = e.from
        \/ ~GivesBack(r) /\ \E t \in e.sel \ e.from : e.to = e.from \cup {t}

\* A stored row was measured with the patch of its task and no other, if the run started
\* clean, and also if it ran every task: on a tree that a killed run left patched such a run
\* fails at that patch, and its rows are not stored.
RowsTruthful ==
    \A i \in DOMAIN store :
        LET r == store[i] IN
        log[r.run].from = {} \/ log[r.run].sel = Tasks => r.on = {r.task}

\* The trials a run owes, and the rows it stored.
Asked(r) == IF log[r].script = "experiment" /\ log[r].how = "done" THEN log[r].sel \X (1..Trials) ELSE {}
RowsOf(r) == {i \in DOMAIN store : store[i].run = r}

\* The write of a run was cut short. A line reads back if it is whole and does not continue
\* the torn line of an earlier run.
CutShort(r) == log[r].how \in {"killed", "unwritten"}
Reads(i) == ~store[i].torn /\ (i > 1 => ~store[i - 1].torn)

\* A run stores one row for each trial of each task it was asked for, or nothing; a run whose
\* write was cut short stores some of them, none twice. Every row of a run that ended well
\* reads back, except that the first is lost if the write of the run that stored last before
\* it was cut short within a line.
StoredWhole ==
    \A r \in DOMAIN log :
        LET stored == {<<store[i].task, store[i].trial>> : i \in RowsOf(r)} IN
        /\ IF CutShort(r) THEN stored \subseteq log[r].sel \X (1..Trials) ELSE stored = Asked(r)
        /\ \A i, j \in RowsOf(r) :
                store[i].task = store[j].task /\ store[i].trial = store[j].trial => i = j
        /\ log[r].how = "done" => \A i \in RowsOf(r) :
                Reads(i) \/ (i > 1 /\ store[i - 1].run < r /\ CutShort(store[i - 1].run))

\* A validation that succeeds has seen every bug noticed, one at a time and from a clean
\* tree: a tree that was left patched cannot be validated.
ValidationMeans ==
    \A r \in DOMAIN log :
        log[r].script = "validate" /\ log[r].how = "done" =>
            log[r].from = {} /\ caught = Tasks

\* "Each variant reintroduces one historical bug fix [...] against a fixed base commit"
\* (etna.toml): the row of a variant was measured with that one bug.
OneBugPerRow == \A i \in DOMAIN store : store[i].on = {store[i].task}
=============================================================================
