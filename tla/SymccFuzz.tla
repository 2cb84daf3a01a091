------------------------------ MODULE SymccFuzz ------------------------------
(***************************************************************************)
(* The SMT solver behind the SymCC fuzz targets                            *)
(* (cedar-drt/fuzz/src/symcc.rs and fuzz_targets/symcc-*.rs). A target     *)
(* sends one query after another to a solver process over a pipe and gives *)
(* each a time limit. An answer that is late is still on its way, and the  *)
(* process answers in the order it was asked.                              *)
(*                                                                         *)
(* The targets "cex-pbt" and "cex-drt" share one process across queries    *)
(* and inputs, behind get_solver and get_cex; "check-ok" (check_ok) spawns *)
(* its own for the request environments of one input. A query stands for   *)
(* the verification of one compiled policy set in one environment.         *)
(* The runtime has a single thread, so the lock of get_solver is free      *)
(* whenever it is asked for. A time limit strikes while the client waits   *)
(* for an answer.                                                          *)
(***************************************************************************)
EXTENDS Naturals, Sequences

CONSTANTS
    Targets,      \* the fuzz targets of the instance
    NumQueries,   \* the queries of a target
    UsageLimit    \* SOLVER_USAGE_LIMIT

CexTargets  == {"cex-pbt", "cex-drt"}
TargetNames == CexTargets \cup {"check-ok"}

ASSUME TargetsType == Targets \subseteq TargetNames
ASSUME LimitsType  == NumQueries \in Nat \ {0} /\ UsageLimit \in Nat \ {0}

Queries == 1..NumQueries

\* What becomes of a query: what the solver would say; "true" and "false" if the assertions
\* are decided without it; "unencodable" if SMT-LIB has no such string.
Solved == {"sat", "unsat", "unknown"}
Kinds  == Solved \cup {"true", "false", "unencodable"}

VARIABLES
    target,     \* the fuzz target
    kind,       \* the kind of each query
    cur,        \* the query the target is at
    pc,         \* what it does next
    proc,       \* the solver process and its two pipes
    usage,      \* usage_count
    raw,        \* raw_model: the query it is the model of, 0 for None
    results,    \* what each query came to (history)
    compared,   \* the counterexamples and raw models Lean was asked to compare (history)
    served      \* the calls of get_solver this process was handed out by (history)

vars == <<target, kind, cur, pc, proc, usage, raw, results, compared, served>>

\* A process that was just spawned. `last` is the query it checked last.
Fresh == [alive |-> TRUE, input |-> <<>>, output |-> <<>>, last |-> 0]

\* check_ok has its solver already, the other targets go through get_solver.
Begin == IF target = "check-ok" THEN "ask" ELSE "get"

Init ==
    /\ target \in Targets
    /\ kind \in [Queries -> Kinds]
    /\ cur = 1 /\ pc = Begin
    /\ proc = Fresh
    /\ usage = 0 /\ raw = 0
    /\ results = <<>> /\ compared = {} /\ served = 0

Ended == pc \in {"finished", "panicked"}

-----------------------------------------------------------------------------
(* The solver process: it takes commands in order and answers each. *)

\* A command is get-model, or the check-sat of a query.
GetModel == 0

\* The line, or the lines of the model, that answer a command.
Reply(cmd) ==
    IF cmd = GetModel THEN [line |-> "model", of |-> proc.last]
    ELSE [line |-> kind[cmd], of |-> cmd]

Answer ==
    /\ proc.alive /\ proc.input # <<>>
    /\ LET cmd == Head(proc.input) IN
       proc' = [proc EXCEPT !.input  = Tail(@),
                            !.output = Append(@, Reply(cmd)),
                            !.last   = IF cmd = GetModel THEN @ ELSE cmd]
    /\ UNCHANGED <<target, kind, cur, pc, usage, raw, results, compared, served>>

\* The process runs into its memory limit, or is killed.
Die ==
    /\ proc.alive /\ ~Ended
    /\ proc' = [proc EXCEPT !.alive = FALSE]
    /\ UNCHANGED <<target, kind, cur, pc, usage, raw, results, compared, served>>

-----------------------------------------------------------------------------
(* The client. *)

\* The query comes to `how`, on the word of the query `of` (0: without the solver).
Conclude(how, of) ==
    /\ results' = Append(results, [q |-> cur, how |-> how, of |-> of])
    /\ IF cur = NumQueries THEN pc' = "finished" /\ UNCHANGED cur
                           ELSE pc' = Begin /\ cur' = cur + 1
    /\ UNCHANGED <<target, kind>>

Panic ==
    /\ pc' = "panicked"
    /\ UNCHANGED <<target, kind, cur, proc, usage, raw, results, compared, served>>

\* Mutation of LimitReached: > for >=.
LimitPassed == usage + 1 > UsageLimit

\* usage_count >= SOLVER_USAGE_LIMIT, after the count
LimitReached == usage + 1 >= UsageLimit

\* get_solver: a process that was used often enough is replaced.
GetSolver ==
    /\ pc = "get"
    /\ pc' = "ask"
    /\ IF LimitReached
       THEN proc' = Fresh /\ usage' = 0 /\ raw' = 0 /\ served' = 1
       ELSE usage' = usage + 1 /\ served' = served + 1 /\ UNCHANGED <<proc, raw>>
    /\ UNCHANGED <<target, kind, cur, results, compared>>

\* The script of the query and its check-sat. A process that is gone takes nothing.
Ask ==
    /\ pc = "ask" /\ kind[cur] \in Solved
    /\ IF proc.alive
       THEN /\ proc' = [proc EXCEPT !.input = Append(@, cur)]
            /\ pc' = "answer"
            /\ UNCHANGED <<target, kind, cur, usage, raw, results, compared, served>>
       ELSE Panic

\* All the assertions are constants: there is an answer without the solver.
Decided == pc = "ask" /\ kind[cur] \in {"true", "false"}

\* Mutation of AfterTake: the model is cloned.
AfterClone(m) == m

\* std::mem::take leaves None.
AfterTake(m) == 0

\* What cex-drt does with a counterexample when raw_model is of query m: Lean is asked to
\* decode it, and nothing is compared when there is none. cex-pbt looks at no raw model.
Compare(m) ==
    IF target = "cex-drt"
    THEN /\ raw' = AfterTake(m)
         /\ compared' = IF m = 0 THEN compared ELSE compared \cup {[q |-> cur, model |-> m]}
    ELSE /\ raw' = m
         /\ UNCHANGED compared

AnswerDecided ==
    /\ Decided
    /\ IF target = "check-ok"
       THEN Conclude("value", 0) /\ UNCHANGED <<raw, compared>>
       ELSE IF kind[cur] = "true"
       THEN Conclude("cex", 0) /\ Compare(raw)
       ELSE Conclude("nocex", 0) /\ UNCHANGED <<raw, compared>>
    /\ UNCHANGED <<proc, usage, served>>

\* An encoding error is benign. check_ok returns Ok with it, and leaves the rest unchecked.
FailEncoding ==
    /\ pc = "ask" /\ kind[cur] = "unencodable"
    /\ IF ~proc.alive THEN Panic
       ELSE /\ IF target = "check-ok"
               THEN /\ results' = Append(results, [q |-> cur, how |-> "benign", of |-> 0])
                    /\ pc' = "finished"
                    /\ UNCHANGED <<target, kind, cur>>
               ELSE Conclude("benign", 0)
            /\ UNCHANGED <<proc, usage, raw, compared, served>>

\* The line that answers check-sat, as far as the client can tell.
ReadAnswer ==
    /\ pc = "answer" /\ proc.output # <<>>
    /\ LET got  == Head(proc.output)
           rest == [proc EXCEPT !.output = Tail(@)] IN
       CASE got.line = "unknown" -> Panic
         [] got.line # "unknown" /\ target = "check-ok" ->
                /\ proc' = rest
                /\ Conclude("value", got.of)
                /\ UNCHANGED <<usage, raw, compared, served>>
         [] got.line = "unsat" /\ target \in CexTargets ->
                /\ proc' = rest
                /\ Conclude("nocex", got.of)
                /\ UNCHANGED <<usage, raw, compared, served>>
         [] got.line = "sat" /\ target \in CexTargets ->
                IF proc.alive
                THEN /\ proc' = [rest EXCEPT !.input = Append(@, GetModel)]
                     /\ pc' = "model"
                     /\ UNCHANGED <<target, kind, cur, usage, raw, results, compared, served>>
                ELSE Panic

\* check_sat_with_model keeps the raw model and get_cex returns the counterexample in it.
ReadModel ==
    /\ pc = "model" /\ proc.output # <<>>
    /\ LET got == Head(proc.output) IN
       /\ proc' = [proc EXCEPT !.output = Tail(@)]
       /\ Conclude("cex", got.of)
       /\ Compare(got.of)
    /\ UNCHANGED <<usage, served>>

\* The pipe is closed: an error that no target expects.
ReadEnd ==
    /\ pc \in {"answer", "model"}
    /\ ~proc.alive /\ proc.output = <<>>
    /\ Panic

\* Mutation of Restarted: the process is kept.
RestartedNever == proc

\* The process after a time limit has struck: the targets of get_cex restart it,
\* check_ok_inner goes on with the one it has.
Restarted == IF target = "check-ok" THEN proc ELSE Fresh

\* Mutation of TimeOut: the query is tried again on a new process.
TimeOutRetry ==
    /\ pc \in {"answer", "model"}
    /\ proc.alive /\ proc.output = <<>>
    /\ pc' = Begin
    /\ proc' = Fresh
    /\ UNCHANGED <<target, kind, cur, usage, raw, results, compared, served>>

\* The timer is asked only when there is nothing to read.
TimeOut ==
    /\ pc \in {"answer", "model"}
    /\ proc.alive /\ proc.output = <<>>
    /\ proc' = Restarted
    /\ Conclude("timeout", 0)
    /\ IF target = "check-ok" THEN UNCHANGED <<usage, raw, served>>
                              ELSE usage' = 0 /\ raw' = 0 /\ served' = 0
    /\ UNCHANGED compared

Client ==
    \/ GetSolver \/ Ask \/ AnswerDecided \/ FailEncoding
    \/ ReadAnswer \/ ReadModel \/ ReadEnd \/ TimeOut

Rested == Ended /\ UNCHANGED vars

Next == Client \/ Answer \/ Die \/ Rested

\* The client is a task whose timer always fires; of the solver nothing is known.
Spec == Init /\ [][Next]_vars /\ WF_vars(Client)

-----------------------------------------------------------------------------
(* Properties. *)

TypeOK ==
    /\ target \in Targets /\ kind \in [Queries -> Kinds] /\ cur \in Queries
    /\ pc \in {"get", "ask", "answer", "model", "finished", "panicked"}
    /\ usage \in 0..UsageLimit - 1 /\ raw \in {0} \cup Queries
    /\ Len(results) = IF pc = "finished" THEN cur ELSE cur - 1

\* Whoever gets the shared solver gets it in step: nothing of an earlier query is on its way
\* in either pipe. (The reason for restarting after a time limit.)
HandedOverIdle ==
    target \in CexTargets /\ pc \in {"get", "ask"} =>
        proc.input = <<>> /\ proc.output = <<>>

\* A verdict of get_cex rests on the answer to its own query, and is the right one.
VerdictsOwn ==
    \A i \in DOMAIN results :
        LET r == results[i] IN
        /\ r.how = "cex"   => r.of \in {0, r.q} /\ kind[r.q] \in {"sat", "true"}
        /\ r.how = "nocex" => r.of \in {0, r.q} /\ kind[r.q] \in {"unsat", "false"}

\* Rust's counterexample and the raw model that is handed to Lean with it are of the same
\* query, and a counterexample found without the solver comes with none ("important that we
\* take()", symcc-cex-drt.rs).
ModelPaired == \A c \in compared : c.model = c.q /\ kind[c.q] = "sat"

\* What get_cex answers belongs to the query it is asked: verdict, counterexample and raw model.
AnswersMatch == VerdictsOwn /\ ModelPaired

\* A target of get_cex panics only on a solver that says "unknown" to the query at hand, or
\* that is gone.
NoFalseAlarm ==
    target \in CexTargets /\ pc = "panicked" => kind[cur] = "unknown" \/ ~proc.alive

\* "Maximum number of [...] calls of get_solver() [...] before we kill the solver process"
UsageKept == served <= UsageLimit

\* A target gets through its queries, whatever the solver does.
GetsThrough == <>Ended

\* check_ok "checks that when this task is performed [...] it either times out or produces a
\* value": where it finds nothing wrong, every query it concluded did one or the other.
OkChecked ==
    pc = "finished" =>
        \A i \in DOMAIN results : results[i].how = "value" => kind[results[i].q] # "unknown"

\* "If check_sat_with_model() returned anything other than Ok(Sat) [...] this will be None":
\* the raw model is that of the last query that went to the solver.
AskedSolver(i) == results[i].of # 0
RawModelOfLastCall ==
    raw # 0 =>
        \E i \in DOMAIN results :
            /\ results[i].q = raw
            /\ \A j \in DOMAIN results : AskedSolver(j) => j <= i
=============================================================================
