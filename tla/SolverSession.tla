---------------------------- MODULE SolverSession -----------------------------
(***************************************************************************)
(* The checks that Lean code makes with a solver process (SymCC/Solver.lean *)
(* and SatUnsat.lean): commands go down one pipe without waiting, and only *)
(* check-sat and get-model have answers, which are read line by line from  *)
(* the other. There is no time limit and no error stream.                  *)
(*                                                                         *)
(* Three callers use it. "tests" (SymTest/Main.lean) makes all its checks  *)
(* on one process and stops at the first exception. "ffi" (CedarFFI) and   *)
(* "trial" (property_symcc_pipeline_soundness) spawn a process for each    *)
(* check and live on after an exception; "trial" tells the process to exit *)
(* when it is done with it. "ffi" asks check by check for a counterexample *)
(* or only for a verdict. What is decoded from a model, and whether it     *)
(* satisfies the asserts, is a choice.                                     *)
(***************************************************************************)
EXTENDS Naturals, Sequences

CONSTANTS
    Callers,    \* the callers of the instance
    NumChecks   \* the checks a caller makes

CallerNames == {"tests", "ffi", "trial"}

ASSUME CallersType == Callers \subseteq CallerNames
ASSUME ChecksType  == NumChecks \in Nat \ {0}

Checks == 1..NumChecks

\* What becomes of a check: what the solver would say of its asserts; "true" and "false" if
\* they are constants; "unencodable" if encode throws on the way; "uncompiled" if the symbolic
\* compiler makes none.
Fates == {"sat", "unsat", "unknown", "true", "false", "unencodable", "uncompiled"}

\* The solver's word for asserts. (Constants are answered by it, too, if it is asked.)
Word(f) == CASE f = "true" -> "sat" [] f = "false" -> "unsat" [] OTHER -> f

VARIABLES
    caller,     \* who makes the checks
    fate,       \* the fate of each
    wanted,     \* whether ffi asks for a counterexample
    check,      \* the check at hand
    at,         \* what the caller does next
    solver,     \* the process and its two pipes
    heard,      \* what the process said of the check at hand
    told,       \* whether the process was told to exit
    outcomes    \* what the checks came to (history)

sessionVars == <<caller, fate, wanted, check, at, solver, heard, told, outcomes>>

\* A process that was just spawned. `script` is the check whose script it holds, 0 if none, it
\* is printing when it has begun a model, and `end` is the way it ended.
NewSolver(end) == [end |-> end, input |-> <<>>, output |-> <<>>, script |-> 0, printing |-> FALSE]
Spawned == NewSolver("")

Alive == solver.end = ""

\* A word that no process said, and no word at all.
Unasked(how) == [how |-> how, word |-> 0, model |-> 0]
Nothing == Unasked("")

SessionInit ==
    /\ caller \in Callers /\ fate \in [Checks -> Fates]
    /\ wanted \in IF caller = "ffi" THEN [Checks -> BOOLEAN] ELSE {[c \in Checks |-> TRUE]}
    /\ solver = NewSolver(IF caller = "tests" THEN "" ELSE "none")
    /\ check = 1 /\ at = "compile" /\ heard = Nothing /\ told = FALSE /\ outcomes = <<>>

-----------------------------------------------------------------------------
(* The process: it takes the commands in order. *)

Say(s, line) == [s EXCEPT !.output = Append(@, line)]

\* A command is "reset", "script" (declarations and asserts), "part" (of a script, where encode
\* threw), "check-sat", "get-model" or "exit", and is of a check.
\* Names that are declared again are an error, after which the process ends; so is get-model
\* where nothing is satisfiable.
Fails(s) == [Say(s, [line |-> "error", of |-> s.script]) EXCEPT !.end = "error"]

\* The solver's word for the script it holds.
Verdict(s) == IF s.script = 0 THEN "sat" ELSE Word(fate[s.script])

Obeyed(s, c) ==
    CASE c.cmd = "reset" -> [s EXCEPT !.script = 0]
      [] c.cmd \in {"script", "part"} ->
            IF s.script = 0 THEN [s EXCEPT !.script = c.of] ELSE Fails(s)
      [] c.cmd = "check-sat" ->
            Say(s, [line |-> Verdict(s), of |-> s.script])
      [] c.cmd = "get-model" ->
            IF Verdict(s) = "sat"
            THEN [Say(s, [line |-> "(", of |-> s.script]) EXCEPT !.printing = TRUE] ELSE Fails(s)
      [] c.cmd = "exit" -> [s EXCEPT !.end = "exit"]

Obey ==
    /\ Alive /\ ~solver.printing /\ solver.input # <<>>
    /\ solver' = Obeyed([solver EXCEPT !.input = Tail(@)], Head(solver.input))
    /\ UNCHANGED <<caller, fate, wanted, check, at, heard, told, outcomes>>

\* The model ends with a parenthesis on a line of its own.
EndModel ==
    /\ Alive /\ solver.printing
    /\ solver' = [Say(solver, [line |-> ")", of |-> solver.script]) EXCEPT !.printing = FALSE]
    /\ UNCHANGED <<caller, fate, wanted, check, at, heard, told, outcomes>>

\* It runs out of memory, or is killed.
Perish ==
    /\ Alive /\ at \notin {"ended", "aborted"}
    /\ solver' = [solver EXCEPT !.end = "perished"]
    /\ UNCHANGED <<caller, fate, wanted, check, at, heard, told, outcomes>>

-----------------------------------------------------------------------------
(* The caller. *)

\* Mutation of Finish: an exception leaves no trace.
FinishAnswers(said) ==
    /\ outcomes' = IF said.how = "error" THEN outcomes
                   ELSE Append(outcomes, [check |-> check, how |-> said.how, word |-> said.word,
                                          model |-> said.model, end |-> solver.end, told |-> told])
    /\ IF said.how \in {"error", "rejected"} /\ caller = "tests"
       THEN at' = "aborted" /\ UNCHANGED check
       ELSE IF check = NumChecks
       THEN at' = "ended" /\ UNCHANGED check
       ELSE at' = "compile" /\ check' = check + 1
    /\ heard' = Nothing
    /\ UNCHANGED <<caller, fate, wanted, told>>

\* What the check came to. Then the next one is made; nobody catches an exception in the tests.
Finish(said) ==
    /\ outcomes' = Append(outcomes, [check |-> check, how |-> said.how, word |-> said.word,
                                     model |-> said.model, end |-> solver.end, told |-> told])
    /\ IF said.how \in {"error", "rejected"} /\ caller = "tests"
       THEN at' = "aborted" /\ UNCHANGED check
       ELSE IF check = NumChecks
       THEN at' = "ended" /\ UNCHANGED check
       ELSE at' = "compile" /\ check' = check + 1
    /\ heard' = Nothing
    /\ UNCHANGED <<caller, fate, wanted, told>>

Except == Finish(Unasked("error"))

GoOn(next) ==
    /\ at' = next
    /\ UNCHANGED <<caller, fate, wanted, check, heard, told, outcomes>>

\* emitln; a process that is gone takes nothing.
Emit(commands, next) ==
    IF Alive
    THEN solver' = [solver EXCEPT !.input = @ \o commands] /\ GoOn(next)
    ELSE UNCHANGED solver /\ Except

\* (A trial without asserts is discarded, which is no failure of the property.)
CompileCheck ==
    /\ at = "compile"
    /\ IF fate[check] = "uncompiled" THEN Except
       ELSE GoOn(IF caller = "tests" THEN "encode" ELSE "spawn")
    /\ UNCHANGED solver

SpawnSolver ==
    /\ at = "spawn"
    /\ solver' = Spawned /\ told' = FALSE /\ at' = "encode"
    /\ UNCHANGED <<caller, fate, wanted, check, heard, outcomes>>

\* Only ffi comes through checkSatAsserts and checkUnsatAsserts, which look at constants first.
Constant == caller = "ffi" /\ fate[check] \in {"true", "false"}

Reset == [cmd |-> "reset", of |-> 0]

DecideConstants ==
    /\ at = "encode" /\ Constant
    /\ IF Alive
       THEN /\ solver' = [solver EXCEPT !.input = Append(@, Reset)]
            /\ Finish(Unasked(Word(fate[check])))
       ELSE UNCHANGED solver /\ Except

\* Mutation of Script: without the reset.
ScriptOnTop(cmd) == <<[cmd |-> cmd, of |-> check]>>

\* Mutation of Script: the reset comes last.
ScriptThenReset(cmd) == <<[cmd |-> cmd, of |-> check], Reset>>

\* encode resets the process first.
Script(cmd) == <<Reset, [cmd |-> cmd, of |-> check]>>

EncodeAsserts ==
    /\ at = "encode" /\ ~Constant /\ fate[check] # "unencodable"
    /\ Emit(Script("script"), "ask")

\* encode throws: what was written of the script stays with the process.
EncodeFails ==
    /\ at = "encode" /\ fate[check] = "unencodable"
    /\ solver' = IF Alive THEN [solver EXCEPT !.input = @ \o Script("part")] ELSE solver
    /\ Except

AskVerdict == at = "ask" /\ Emit(<<[cmd |-> "check-sat", of |-> check]>>, "verdict")

\* The lines that are there, then the end of the stream.
HasLine  == solver.output # <<>>
AtEof    == solver.output = <<>> /\ ~Alive
Line     == Head(solver.output)
ReadLine == solver' = [solver EXCEPT !.output = Tail(@)]

\* Where a check goes on that has all it needs from the process.
Enough == IF caller = "trial" THEN "exit" ELSE "conclude"

\* The lines of check-sat that are no exception.
Understood == IF caller = "ffi" THEN {"sat", "unsat"} ELSE {"sat", "unsat", "unknown"}

AfterVerdict(line) == IF line = "sat" /\ wanted[check] THEN "get-model" ELSE Enough

ReadVerdict ==
    /\ at = "verdict" /\ HasLine /\ ReadLine
    /\ IF Line.line \in Understood
       THEN /\ heard' = [how |-> Line.line, word |-> Line.of, model |-> 0]
            /\ at' = AfterVerdict(Line.line)
            /\ UNCHANGED <<caller, fate, wanted, check, told, outcomes>>
       ELSE Except

AskModel == at = "get-model" /\ Emit(<<[cmd |-> "get-model", of |-> check]>>, "first line")

\* The first line of a model is a parenthesis.
ReadFirstLine ==
    /\ at = "first line" /\ HasLine /\ ReadLine
    /\ IF Line.line = "(" THEN GoOn("model") ELSE Except

\* Mutation of ReadEof: the end of the stream is waited out.
ReadEofAgain == at \in {"verdict", "first line"} /\ AtEof /\ UNCHANGED sessionVars

\* The end of the stream is a line that is no answer.
ReadEof ==
    /\ at \in {"verdict", "first line"} /\ AtEof
    /\ UNCHANGED solver /\ Except

\* Mutation of ReadLines: the first line is enough.
ReadLinesShort ==
    /\ at = "model"
    /\ heard' = [heard EXCEPT !.model = check] /\ at' = Enough
    /\ UNCHANGED <<caller, fate, wanted, check, solver, told, outcomes>>

\* The lines up to the one that closes it.
ReadLines ==
    /\ at = "model" /\ HasLine /\ ReadLine
    /\ heard' = [heard EXCEPT !.model = Line.of] /\ at' = Enough
    /\ UNCHANGED <<caller, fate, wanted, check, told, outcomes>>

\* The end of the stream closes nothing: getModel reads on for ever.
ReadOn == at = "model" /\ AtEof /\ UNCHANGED sessionVars

\* Solver.exit
TellExit ==
    /\ at = "exit"
    /\ IF Alive
       THEN /\ solver' = [solver EXCEPT !.input = Append(@, [cmd |-> "exit", of |-> check])]
            /\ told' = TRUE /\ at' = "conclude"
            /\ UNCHANGED <<caller, fate, wanted, check, heard, outcomes>>
       ELSE UNCHANGED solver /\ Except

\* The model is decoded, and the asserts hold in it, or not.
Settle ==
    /\ at = "conclude"
    /\ \/ Finish(heard)
       \/ heard.model # 0 /\ Finish([heard EXCEPT !.how = "rejected"])
    /\ UNCHANGED solver

CallerStep ==
    \/ CompileCheck \/ SpawnSolver \/ DecideConstants \/ EncodeAsserts \/ EncodeFails \/ AskVerdict
    \/ ReadVerdict \/ AskModel \/ ReadFirstLine \/ ReadEof \/ ReadLines \/ TellExit \/ Settle

Over == at \in {"ended", "aborted"} /\ UNCHANGED sessionVars

SessionNext == CallerStep \/ ReadOn \/ Obey \/ EndModel \/ Perish \/ Over

\* The caller does nothing else, and the process works on what it is asked, unless it perishes.
SessionSpec ==
    /\ SessionInit /\ [][SessionNext]_sessionVars
    /\ WF_sessionVars(CallerStep) /\ WF_sessionVars(Obey) /\ WF_sessionVars(EndModel)

-----------------------------------------------------------------------------
(* Properties. *)

SessionTypes ==
    /\ caller \in Callers /\ fate \in [Checks -> Fates] /\ check \in Checks
    /\ at \in {"compile", "spawn", "encode", "ask", "verdict", "get-model", "first line", "model",
               "exit", "conclude", "ended", "aborted"}
    /\ Len(outcomes) = IF at \in {"ended", "aborted"} THEN check ELSE check - 1

\* A verdict is the solver's, or the constants', on this check's own asserts, its model is a model
\* of them, and where a model was wanted there is one: checks that failed half way leave nothing
\* behind. ("This call resets the solver.")
AnswersOwn ==
    \A i \in DOMAIN outcomes :
        LET o == outcomes[i] IN
        /\ o.word \in {0, o.check} /\ o.model \in {0, o.check}
        /\ o.how \in {"sat", "unsat", "unknown"} => o.how = Word(fate[o.check])
        /\ o.how = "sat" /\ o.word # 0 /\ wanted[o.check] => o.model = o.check

\* An exception has its reason in the check itself or in the end of the process, never in what an
\* earlier check left in the pipes or in the process.
ErrorsOwn ==
    \A i \in DOMAIN outcomes :
        LET o == outcomes[i] IN
        o.how = "error" =>
            \/ o.end = "perished"
            \/ fate[o.check] \in {"uncompiled", "unencodable"}
            \/ fate[o.check] = "unknown" /\ caller = "ffi"

\* A check begins with no answer on its way.
BegunInStep ==
    at = "encode" /\ Alive =>
        /\ solver.output = <<>> /\ ~solver.printing
        /\ \A i \in DOMAIN solver.input : solver.input[i].cmd \notin {"check-sat", "get-model"}

\* Checks stay apart: each begins in step with the process, and comes to what its own asserts and
\* its own process make of it.
ChecksApart == BegunInStep /\ AnswersOwn /\ ErrorsOwn

\* A check is settled, unless the process ends within its model.
CheckSettled ==
    \A c \in Checks :
        check = c ~> \/ check # c \/ at \in {"ended", "aborted"}
                     \/ at = "model" /\ AtEof

\* "Always issue (exit) so the CVC5 subprocess terminates cleanly between trials."
AlwaysTold ==
    caller = "trial" => \A i \in DOMAIN outcomes : outcomes[i].told \/ outcomes[i].end # ""
=============================================================================
