----------------------------- MODULE Symcc_proofs -----------------------------
(***************************************************************************)
(* The symbolic compiler's way to a solver and back, in three parts.       *)
(*                                                                         *)
(* The fuzz targets that share a solver behind get_cex stay in step with   *)
(* it: every verdict and every model belongs to the query it is given for, *)
(* for any number of queries and any usage limit (SymccFuzz).              *)
(*                                                                         *)
(* The encoder gives every type, function and term its own name, declared  *)
(* before it is used, that stands for just what it was made of, so that    *)
(* the asserts say what was asked and the decoder finds what it looks for, *)
(* for any terms, schemas and number of calls (SmtEncoder).                *)
(*                                                                         *)
(* The Lean code that drives a solver process is never out of step with    *)
(* it, however its checks end (SolverSession).                             *)
(***************************************************************************)
EXTENDS Symcc, SequenceTheorems, FiniteSetTheorems, TLAPS


-----------------------------------------------------------------------------
(* The inductive invariant. *)

Commands == 0..NumQueries
Lines    == [line : Kinds \cup {"model"}, of : Commands]
Process  == [alive : BOOLEAN, input : Seq(Commands), output : Seq(Lines), last : Commands]
Hows     == {"cex", "nocex", "value", "benign", "timeout"}
Result   == [q : Queries, how : Hows, of : Commands]

DataType ==
    /\ TypeOK
    /\ proc \in Process
    /\ results \in Seq(Result)

\* The pipes while the client waits for x, which `cmd` will be or was answered with.
Awaiting(cmd, x) ==
    \/ proc.input = <<cmd>> /\ proc.output = <<>>
    \/ proc.input = <<>> /\ proc.output = <<x>>

\* Between a client of get_cex and its solver nothing is on its way but the command the client
\* waits for, or its answer.
InStep ==
    /\ pc \in {"get", "ask"} => proc.input = <<>> /\ proc.output = <<>>
    /\ pc = "answer" =>
            /\ kind[cur] \in Solved
            /\ Awaiting(cur, [line |-> kind[cur], of |-> cur])
            /\ proc.input = <<>> => proc.last = cur
    /\ pc = "model" =>
            /\ kind[cur] = "sat" /\ proc.last = cur
            /\ Awaiting(GetModel, [line |-> "model", of |-> cur])

\* A target of get_cex is in step, and cex-drt has taken the model out; check_ok gives no
\* verdict on counterexamples and asks for no model.
Roles ==
    /\ target \in CexTargets => InStep
    /\ target = "cex-drt" => raw = 0
    /\ target = "check-ok" =>
            /\ pc # "model"
            /\ \A i \in DOMAIN results : results[i].how \notin {"cex", "nocex"}

\* The count is one behind the calls served, if the process was replaced on the way in.
Counted == served \in Nat /\ served <= usage + 1

IInv == DataType /\ Roles /\ VerdictsOwn /\ ModelPaired /\ NoFalseAlarm /\ Counted

-----------------------------------------------------------------------------
(* Facts about pipes and results. *)

\* The queries and the commands.
LEMMA Numbers ==
    /\ NumQueries \in Nat \ {0} /\ UsageLimit \in Nat \ {0}
    /\ Queries \subseteq Commands /\ GetModel \in Commands /\ GetModel \notin Queries
    /\ 1 \in Queries
  BY LimitsType DEF Queries, Commands, GetModel

\* The two kinds of targets.
LEMMA TargetOf ==
    ASSUME DataType
    PROVE  target \in CexTargets <=> target # "check-ok"
  BY TargetsType DEF DataType, TypeOK, TargetNames, CexTargets

\* A pipe with one thing in it.
LEMMA OneInPipe ==
    ASSUME NEW x
    PROVE  /\ Append(<<>>, x) = <<x>> /\ Head(<<x>>) = x /\ Tail(<<x>>) = <<>>
           /\ <<x>> # <<>>
  OBVIOUS

\* A result is put behind the others; verdicts stay right if the new one is.
LEMMA ResultsGrow ==
    ASSUME DataType, VerdictsOwn,
           NEW how \in Hows, NEW of \in Commands,
           how = "cex" => of \in {0, cur} /\ kind[cur] \in {"sat", "true"},
           how = "nocex" => of \in {0, cur} /\ kind[cur] \in {"unsat", "false"},
           results' = Append(results, [q |-> cur, how |-> how, of |-> of]),
           UNCHANGED kind
    PROVE  /\ results' \in Seq(Result)
           /\ Len(results') = Len(results) + 1
           /\ VerdictsOwn'
           /\ \A i \in DOMAIN results' : results'[i].how = how
                    \/ \E j \in DOMAIN results : results'[i].how = results[j].how
<1> DEFINE r == [q |-> cur, how |-> how, of |-> of]
<1>1. r \in Result /\ results \in Seq(Result)
  BY DEF DataType, TypeOK, Result
<1>2. /\ results' \in Seq(Result)
      /\ Len(results') = Len(results) + 1
      /\ DOMAIN results' = 1 .. Len(results) + 1 /\ DOMAIN results = 1 .. Len(results)
      /\ \A i \in 1 .. Len(results) : results'[i] = results[i]
      /\ results'[Len(results) + 1] = r
  BY <1>1, AppendProperties, LenProperties
<1>3. \A i \in DOMAIN results' : results'[i] = r
                                \/ \E j \in DOMAIN results : results'[i] = results[j]
  BY <1>2, <1>1, LenProperties
<1>4. VerdictsOwn'
  <2> SUFFICES ASSUME NEW i \in DOMAIN results'
               PROVE  /\ results'[i].how = "cex" =>
                            /\ results'[i].of \in {0, results'[i].q}
                            /\ kind[results'[i].q] \in {"sat", "true"}
                      /\ results'[i].how = "nocex" =>
                            /\ results'[i].of \in {0, results'[i].q}
                            /\ kind[results'[i].q] \in {"unsat", "false"}
    BY DEF VerdictsOwn
  <2> QED
    BY <1>3 DEF VerdictsOwn
<1> QED
  BY <1>2, <1>3, <1>4

\* Concluding a query moves on to the next one, or ends.
LEMMA Concluded ==
    ASSUME IInv, ~Ended, NEW how \in Hows, NEW of \in Commands, Conclude(how, of),
           how \in {"cex", "nocex"} => target \in CexTargets,
           how = "cex" => of \in {0, cur} /\ kind[cur] \in {"sat", "true"},
           how = "nocex" => of \in {0, cur} /\ kind[cur] \in {"unsat", "false"}
    PROVE  /\ target' = target /\ kind' = kind /\ cur' \in Queries
           /\ pc' \in {"finished", Begin}
           /\ results' \in Seq(Result) /\ VerdictsOwn'
           /\ Len(results') = IF pc' = "finished" THEN cur' ELSE cur' - 1
           /\ target = "check-ok" =>
                    \A i \in DOMAIN results' : results'[i].how \notin {"cex", "nocex"}
<1>1. /\ results' \in Seq(Result)
      /\ Len(results') = Len(results) + 1
      /\ VerdictsOwn'
      /\ \A i \in DOMAIN results' : results'[i].how = how
                    \/ \E j \in DOMAIN results : results'[i].how = results[j].how
  BY ResultsGrow DEF IInv, Conclude
<1>2. Len(results) = cur - 1 /\ cur \in 1 .. NumQueries
  BY DEF IInv, DataType, TypeOK, Ended, Queries
<1>3. /\ cur' \in Queries /\ pc' \in {"finished", Begin}
      /\ Len(results') = IF pc' = "finished" THEN cur' ELSE cur' - 1
  BY <1>1, <1>2, Numbers DEF Conclude, Queries, Begin
<1>4. target = "check-ok" =>
        \A i \in DOMAIN results' : results'[i].how \notin {"cex", "nocex"}
  BY <1>1 DEF IInv, Roles, CexTargets
<1> QED
  BY <1>1, <1>3, <1>4 DEF Conclude

-----------------------------------------------------------------------------
(* The initial states, and one lemma for each action. *)

\* A target starts with a fresh process and nothing on its way.
LEMMA InitInvariant ==
    ASSUME Init
    PROVE  IInv
<1>1. pc \in {"get", "ask"} /\ proc = Fresh /\ results = <<>>
  BY DEF Init, Begin
<1>2. proc \in Process
  BY <1>1, Numbers DEF Fresh, Process, Commands
<1>3. TypeOK
  BY <1>1, Numbers DEF Init, TypeOK
<1>4. results \in Seq(Result) /\ DOMAIN results = {}
  BY <1>1
<1>5. Roles
  BY <1>1, <1>4 DEF Roles, InStep, Fresh, Init
<1> QED
  BY <1>1, <1>2, <1>3, <1>4, <1>5
     DEF IInv, DataType, VerdictsOwn, ModelPaired, NoFalseAlarm, Counted, Init

\* The solver answers: what was on its way in is on its way out.
LEMMA AnswerStep ==
    ASSUME IInv, Answer
    PROVE  IInv'
<1> DEFINE cmd == Head(proc.input)
<1>1. /\ proc \in Process /\ cmd \in Commands /\ Tail(proc.input) \in Seq(Commands)
      /\ Reply(cmd) \in Lines
  <2>1. proc \in Process /\ proc.input \in Seq(Commands) /\ proc.input # <<>>
    BY DEF IInv, DataType, Answer, Process
  <2>2. cmd \in Commands /\ Tail(proc.input) \in Seq(Commands)
    BY <2>1, HeadTailProperties
  <2>3. Reply(cmd) \in Lines
    BY <2>1, <2>2, Numbers
       DEF Reply, Lines, IInv, DataType, TypeOK, Queries, Commands, GetModel, Process
  <2> QED
    BY <2>1, <2>2, <2>3
<1>2. /\ proc' = [proc EXCEPT !.input  = Tail(@),
                             !.output = Append(@, Reply(cmd)),
                             !.last   = IF cmd = GetModel THEN @ ELSE cmd]
      /\ UNCHANGED <<target, kind, cur, pc, usage, raw, results, compared, served>>
  BY DEF Answer
<1> HIDE DEF cmd
<1>3. proc' \in Process
  <2>1. Append(proc.output, Reply(cmd)) \in Seq(Lines)
    BY <1>1, AppendProperties DEF Process
  <2> QED
    BY <1>1, <1>2, <2>1 DEF Process
<1>4. DataType'
  BY <1>2, <1>3 DEF IInv, DataType, TypeOK
<1>5. target \in CexTargets => InStep'
  <2> SUFFICES ASSUME target \in CexTargets
               PROVE  InStep'
    OBVIOUS
  <2>1. InStep /\ proc.input # <<>>
    BY DEF IInv, Roles, Answer
  <2>2. pc \notin {"get", "ask"}
    BY <2>1 DEF InStep
  <2>3. CASE pc = "answer"
    <3>1. proc.input = <<cur>> /\ proc.output = <<>> /\ cmd = cur
      BY <2>1, <2>3, OneInPipe DEF InStep, Awaiting, cmd
    <3>2. cur # GetModel
      BY Numbers DEF IInv, DataType, TypeOK
    <3>3. /\ proc'.input = <<>> /\ proc'.last = cur
          /\ proc'.output = <<[line |-> kind[cur], of |-> cur]>>
      BY <1>1, <1>2, <3>1, <3>2, OneInPipe DEF Reply, Process
    <3> QED
      BY <1>2, <2>1, <2>3, <3>3 DEF InStep, Awaiting
  <2>4. CASE pc = "model"
    <3>1. proc.input = <<GetModel>> /\ proc.output = <<>> /\ cmd = GetModel /\ proc.last = cur
      BY <2>1, <2>4, OneInPipe DEF InStep, Awaiting, cmd
    <3>2. /\ proc'.input = <<>> /\ proc'.last = cur
          /\ proc'.output = <<[line |-> "model", of |-> cur]>>
      BY <1>1, <1>2, <3>1, OneInPipe DEF Reply, Process
    <3> QED
      BY <1>2, <2>1, <2>4, <3>2 DEF InStep, Awaiting
  <2> QED
    BY <1>2, <2>2, <2>3, <2>4 DEF InStep
<1>6. Roles'
  BY <1>2, <1>5 DEF IInv, Roles
<1>7. proc'.alive = proc.alive
  BY <1>1, <1>2 DEF Process
<1> QED
  BY <1>2, <1>4, <1>6, <1>7
     DEF IInv, VerdictsOwn, ModelPaired, NoFalseAlarm, Counted

\* The process dies: what it has written can still be read.
LEMMA DieStep ==
    ASSUME IInv, Die
    PROVE  IInv'
<1>1. proc \in Process
  BY DEF IInv, DataType
<1>2. /\ proc' \in Process /\ proc'.input = proc.input /\ proc'.output = proc.output
      /\ proc'.last = proc.last /\ ~proc'.alive
  BY <1>1 DEF Die, Process
<1>3. DataType'
  BY <1>2 DEF Die, IInv, DataType, TypeOK
<1>4. Roles'
  BY <1>2 DEF Die, IInv, Roles, InStep, Awaiting
<1> QED
  BY <1>2, <1>3, <1>4 DEF Die, IInv, VerdictsOwn, ModelPaired, NoFalseAlarm, Counted

\* A panic is harmless to what was found, and is no false alarm for a good reason.
LEMMA PanicStep ==
    ASSUME IInv, Panic, target \in CexTargets => kind[cur] = "unknown" \/ ~proc.alive, ~Ended
    PROVE  IInv'
<1>1. DataType'
  BY DEF Panic, IInv, DataType, TypeOK, Ended
<1>2. Roles'
  BY DEF Panic, IInv, Roles, InStep, CexTargets
<1> QED
  BY <1>1, <1>2 DEF Panic, IInv, VerdictsOwn, ModelPaired, NoFalseAlarm, Counted

\* get_solver hands out the process it has, or a fresh one with a fresh count.
LEMMA GetSolverStep ==
    ASSUME IInv, GetSolver
    PROVE  IInv'
<1>1. /\ pc = "get" /\ pc' = "ask"
      /\ UNCHANGED <<target, kind, cur, results, compared>>
  BY DEF GetSolver
<1>2. CASE LimitReached
  <2>1. proc' = Fresh /\ usage' = 0 /\ raw' = 0 /\ served' = 1
    BY <1>2 DEF GetSolver
  <2>2. DataType'
    BY <1>1, <2>1, Numbers DEF IInv, DataType, TypeOK, Fresh, Process, Commands
  <2>3. Roles'
    BY <1>1, <2>1 DEF IInv, Roles, InStep, Fresh
  <2> QED
    BY <1>1, <2>1, <2>2, <2>3 DEF IInv, VerdictsOwn, ModelPaired, NoFalseAlarm, Counted
<1>3. CASE ~LimitReached
  <2>1. usage' = usage + 1 /\ served' = served + 1 /\ UNCHANGED <<proc, raw>>
    BY <1>3 DEF GetSolver
  <2>2. DataType'
    BY <1>1, <1>3, <2>1, Numbers DEF IInv, DataType, TypeOK, LimitReached
  <2>3. Roles'
    BY <1>1, <2>1 DEF IInv, Roles, InStep
  <2>4. Counted'
    BY <2>1, Numbers DEF IInv, Counted, DataType, TypeOK
  <2> QED
    BY <1>1, <2>1, <2>2, <2>3, <2>4 DEF IInv, VerdictsOwn, ModelPaired, NoFalseAlarm
<1> QED
  BY <1>2, <1>3

\* The check-sat of the query is the one thing in the pipe of a target that is in step.
LEMMA AskStep ==
    ASSUME IInv, Ask
    PROVE  IInv'
<1>1. pc = "ask" /\ kind[cur] \in Solved /\ proc \in Process /\ cur \in Commands
  BY Numbers DEF Ask, IInv, DataType, TypeOK
<1>2. CASE ~proc.alive
  BY <1>1, <1>2, PanicStep DEF Ask, Ended
<1>3. CASE proc.alive
  <2>1. /\ proc' = [proc EXCEPT !.input = Append(@, cur)] /\ pc' = "answer"
        /\ UNCHANGED <<target, kind, cur, usage, raw, results, compared, served>>
    BY <1>3 DEF Ask
  <2>2. Append(proc.input, cur) \in Seq(Commands)
    BY <1>1, AppendProperties DEF Process
  <2>3. DataType'
    BY <1>1, <2>1, <2>2 DEF IInv, DataType, TypeOK, Process
  <2>4. target \in CexTargets => InStep'
    <3>1. target \in CexTargets => proc.input = <<>> /\ proc.output = <<>>
      BY <1>1 DEF IInv, Roles, InStep
    <3>2. target \in CexTargets =>
            proc'.input = <<cur>> /\ proc'.output = <<>> /\ proc'.input # <<>>
      BY <1>1, <2>1, <3>1, OneInPipe DEF Process
    <3> QED
      BY <1>1, <2>1, <3>2 DEF InStep, Awaiting
  <2>5. Roles'
    BY <2>1, <2>4 DEF IInv, Roles
  <2> QED
    BY <2>1, <2>3, <2>5 DEF IInv, VerdictsOwn, ModelPaired, NoFalseAlarm, Counted
<1> QED
  BY <1>2, <1>3

\* What is left to show of a step that concludes a query.
LEMMA ConcludeStep ==
    ASSUME IInv, ~Ended, NEW how \in Hows, NEW of \in Commands, Conclude(how, of),
           how \in {"cex", "nocex"} => target \in CexTargets,
           how = "cex" => of \in {0, cur} /\ kind[cur] \in {"sat", "true"},
           how = "nocex" => of \in {0, cur} /\ kind[cur] \in {"unsat", "false"},
           proc' \in Process,
           target \in CexTargets => proc'.input = <<>> /\ proc'.output = <<>>,
           usage' \in 0 .. UsageLimit - 1, raw' \in {0} \cup Queries,
           target = "cex-drt" => raw' = 0,
           ModelPaired', Counted'
    PROVE  IInv'
<1>1. /\ target' = target /\ kind' = kind /\ cur' \in Queries
      /\ pc' \in {"finished", Begin}
      /\ results' \in Seq(Result) /\ VerdictsOwn'
      /\ Len(results') = IF pc' = "finished" THEN cur' ELSE cur' - 1
      /\ target = "check-ok" =>
            \A i \in DOMAIN results' : results'[i].how \notin {"cex", "nocex"}
  BY Concluded
<1>2. pc' \in {"get", "ask", "finished"}
  BY <1>1 DEF Begin
<1>3. DataType'
  BY <1>1, <1>2 DEF IInv, DataType, TypeOK
<1>4. Roles'
  BY <1>1, <1>2 DEF Roles, InStep
<1>5. NoFalseAlarm'
  BY <1>2 DEF NoFalseAlarm
<1> QED
  BY <1>1, <1>3, <1>4, <1>5 DEF IInv

\* cex-drt takes the model of its own query, or none.
LEMMA CompareStep ==
    ASSUME IInv, target \in CexTargets, NEW m \in {0} \cup Queries, Compare(m),
           target = "cex-drt" => m = 0 \/ (m = cur /\ kind[cur] = "sat"),
           UNCHANGED kind
    PROVE  /\ raw' \in {0} \cup Queries
           /\ target = "cex-drt" => raw' = 0
           /\ ModelPaired'
<1>1. CASE target = "cex-drt"
  <2>1. raw' = 0
    BY <1>1 DEF Compare, AfterTake
  <2>2. \/ compared' = compared
        \/ compared' = compared \cup {[q |-> cur, model |-> cur]} /\ kind[cur] = "sat"
    BY <1>1 DEF Compare
  <2>3. ModelPaired'
    BY <2>2 DEF IInv, ModelPaired
  <2> QED
    BY <2>1, <2>3
<1>2. CASE target # "cex-drt"
  BY <1>2 DEF Compare, IInv, ModelPaired
<1> QED
  BY <1>1, <1>2

\* A verdict without the solver leaves the pipes as they are.
LEMMA AnswerDecidedStep ==
    ASSUME IInv, AnswerDecided
    PROVE  IInv'
<1>1. /\ pc = "ask" /\ kind[cur] \in {"true", "false"} /\ ~Ended
      /\ UNCHANGED <<proc, usage, served>>
  BY DEF AnswerDecided, Decided, Ended
<1>2. /\ proc' \in Process /\ usage' \in 0 .. UsageLimit - 1 /\ Counted'
      /\ target \in CexTargets => proc'.input = <<>> /\ proc'.output = <<>>
  BY <1>1 DEF IInv, DataType, TypeOK, Counted, Roles, InStep
<1>3. 0 \in Commands /\ raw \in {0} \cup Queries /\ (target = "cex-drt" => raw = 0)
  BY Numbers DEF IInv, DataType, TypeOK, Roles, GetModel
<1>4. UNCHANGED kind
  BY DEF AnswerDecided, Conclude
<1>5. CASE target = "check-ok"
  <2>1. Conclude("value", 0) /\ UNCHANGED <<raw, compared>>
    BY <1>5 DEF AnswerDecided
  <2>2. ModelPaired'
    BY <1>4, <2>1 DEF IInv, ModelPaired
  <2> QED
    BY <1>1, <1>2, <1>3, <1>5, <2>1, <2>2, ConcludeStep DEF Hows
<1>6. CASE target # "check-ok" /\ kind[cur] = "true"
  <2>1. Conclude("cex", 0) /\ Compare(raw) /\ target \in CexTargets
    BY <1>6, TargetOf DEF AnswerDecided, IInv
  <2>2. raw' \in {0} \cup Queries /\ (target = "cex-drt" => raw' = 0) /\ ModelPaired'
    BY <1>3, <1>4, <2>1, CompareStep
  <2> QED
    BY <1>1, <1>2, <1>3, <1>6, <2>1, <2>2, ConcludeStep DEF Hows
<1>7. CASE target # "check-ok" /\ kind[cur] # "true"
  <2>1. /\ Conclude("nocex", 0) /\ UNCHANGED <<raw, compared>> /\ target \in CexTargets
        /\ kind[cur] = "false"
    BY <1>1, <1>7, TargetOf DEF AnswerDecided, IInv
  <2>2. ModelPaired'
    BY <1>4, <2>1 DEF IInv, ModelPaired
  <2> QED
    BY <1>1, <1>2, <1>3, <2>1, <2>2, ConcludeStep DEF Hows
<1> QED
  BY <1>5, <1>6, <1>7

\* An encoding error is reported before anything is asked.
LEMMA FailEncodingStep ==
    ASSUME IInv, FailEncoding
    PROVE  IInv'
<1>1. pc = "ask" /\ ~Ended /\ "benign" \in Hows /\ 0 \in Commands
  BY Numbers DEF FailEncoding, Ended, Hows, GetModel
<1>2. CASE ~proc.alive
  BY <1>1, <1>2, PanicStep DEF FailEncoding
<1>3. CASE proc.alive
  <2>1. UNCHANGED <<kind, target, proc, usage, raw, compared, served>>
    BY <1>3 DEF FailEncoding, Conclude
  <2>2. /\ proc' \in Process /\ usage' \in 0 .. UsageLimit - 1 /\ Counted' /\ ModelPaired'
        /\ target \in CexTargets => proc'.input = <<>> /\ proc'.output = <<>>
        /\ raw' \in {0} \cup Queries /\ (target = "cex-drt" => raw' = 0)
    BY <1>1, <2>1 DEF IInv, DataType, TypeOK, Counted, ModelPaired, Roles, InStep
  <2>3. CASE target # "check-ok"
    <3>1. Conclude("benign", 0)
      BY <1>3, <2>3 DEF FailEncoding
    <3> QED
      BY <1>1, <2>2, <3>1, ConcludeStep
  <2>4. CASE target = "check-ok"
    <3>1. /\ results' = Append(results, [q |-> cur, how |-> "benign", of |-> 0])
          /\ pc' = "finished" /\ cur' = cur
      BY <1>3, <2>4 DEF FailEncoding
    <3>2. /\ results' \in Seq(Result)
          /\ Len(results') = Len(results) + 1
          /\ VerdictsOwn'
          /\ \A i \in DOMAIN results' : results'[i].how = "benign"
                    \/ \E j \in DOMAIN results : results'[i].how = results[j].how
      BY <1>1, <2>1, <3>1, ResultsGrow DEF IInv
    <3>3. Len(results) = cur - 1 /\ cur \in 1 .. NumQueries
      BY <1>1 DEF IInv, DataType, TypeOK, Queries
    <3>4. DataType'
      BY <2>1, <2>2, <3>1, <3>2, <3>3 DEF IInv, DataType, TypeOK
    <3>5. \A i \in DOMAIN results' : results'[i].how \notin {"cex", "nocex"}
      BY <2>4, <3>2 DEF IInv, Roles
    <3>6. Roles'
      BY <2>1, <2>4, <3>1, <3>5 DEF Roles, CexTargets
    <3>7. NoFalseAlarm'
      BY <3>1 DEF NoFalseAlarm
    <3> QED
      BY <2>2, <3>2, <3>4, <3>6, <3>7 DEF IInv
  <2> QED
    BY <2>3, <2>4
<1> QED
  BY <1>2, <1>3

\* The line that is read is the answer to the query at hand, if the target is in step.
LEMMA ReadAnswerStep ==
    ASSUME IInv, ReadAnswer
    PROVE  IInv'
<1> DEFINE got  == Head(proc.output)
           rest == [proc EXCEPT !.output = Tail(@)]
<1>1. pc = "answer" /\ ~Ended /\ proc \in Process /\ proc.output # <<>>
  BY DEF ReadAnswer, Ended, IInv, DataType
<1>2. got \in Lines /\ got.of \in Commands /\ Tail(proc.output) \in Seq(Lines)
  <2>1. proc.output \in Seq(Lines)
    BY <1>1 DEF Process
  <2>2. got \in Lines /\ Tail(proc.output) \in Seq(Lines)
    BY <1>1, <2>1, HeadTailProperties
  <2> QED
    BY <2>2 DEF Lines
<1>3. /\ rest \in Process /\ rest.input = proc.input /\ rest.output = Tail(proc.output)
      /\ rest.alive = proc.alive /\ rest.last = proc.last
  BY <1>1, <1>2 DEF Process
<1>4. target \in CexTargets =>
        /\ got = [line |-> kind[cur], of |-> cur] /\ kind[cur] \in Solved
        /\ rest.input = <<>> /\ rest.output = <<>> /\ rest.last = cur
  BY <1>1, <1>3, OneInPipe DEF IInv, Roles, InStep, Awaiting
<1>5. /\ usage \in 0 .. UsageLimit - 1 /\ raw \in {0} \cup Queries /\ Counted /\ ModelPaired
      /\ target = "cex-drt" => raw = 0
  BY DEF IInv, DataType, TypeOK, Roles
<1>6. CASE got.line = "unknown"
  <2>1. Panic
    BY <1>6 DEF ReadAnswer
  <2>2. target \in CexTargets => kind[cur] = "unknown"
    BY <1>4, <1>6
  <2> QED
    BY <1>1, <2>1, <2>2, PanicStep
<1>7. CASE got.line # "unknown" /\ target = "check-ok"
  <2>1. /\ proc' = rest /\ Conclude("value", got.of)
        /\ UNCHANGED <<usage, raw, compared, served>>
    BY <1>7, TargetOf DEF ReadAnswer, IInv
  <2>2. Counted' /\ ModelPaired'
    BY <1>5, <2>1 DEF Counted, ModelPaired, Conclude
  <2>3. target \notin CexTargets
    BY <1>7 DEF CexTargets
  <2> QED
    BY <1>1, <1>2, <1>3, <1>5, <2>1, <2>2, <2>3, ConcludeStep DEF Hows
<1>8. CASE got.line = "unsat" /\ target \in CexTargets
  <2>1. /\ proc' = rest /\ Conclude("nocex", got.of)
        /\ UNCHANGED <<usage, raw, compared, served>>
    BY <1>8, TargetOf DEF ReadAnswer, IInv
  <2>2. Counted' /\ ModelPaired'
    BY <1>5, <2>1 DEF Counted, ModelPaired, Conclude
  <2>3. got.of = cur /\ kind[cur] = "unsat"
    BY <1>4, <1>8
  <2> QED
    BY <1>1, <1>2, <1>3, <1>4, <1>5, <1>8, <2>1, <2>2, <2>3, ConcludeStep DEF Hows
<1>9. CASE got.line = "sat" /\ target \in CexTargets
  <2>1. CASE ~proc.alive
    <3>1. Panic
      BY <1>9, <2>1, TargetOf DEF ReadAnswer, IInv
    <3> QED
      BY <1>1, <2>1, <3>1, PanicStep
  <2>2. CASE proc.alive
    <3>1. /\ proc' = [rest EXCEPT !.input = Append(@, GetModel)] /\ pc' = "model"
          /\ UNCHANGED <<target, kind, cur, usage, raw, results, compared, served>>
      BY <1>9, <2>2, TargetOf DEF ReadAnswer, IInv
    <3>2. /\ proc' \in Process /\ proc'.input = <<GetModel>> /\ proc'.output = <<>>
          /\ proc'.last = cur
      <4>1. rest.input = <<>> /\ rest.output = <<>> /\ rest.last = cur
        BY <1>4, <1>9
      <4> HIDE DEF rest
      <4>2. Append(rest.input, GetModel) = <<GetModel>>
        BY <4>1, OneInPipe
      <4>3. <<GetModel>> \in Seq(Commands)
        BY Numbers
      <4> QED
        BY <1>3, <3>1, <4>1, <4>2, <4>3 DEF Process
    <3>3. DataType'
      BY <1>1, <3>1, <3>2 DEF IInv, DataType, TypeOK
    <3>4. kind[cur] = "sat"
      BY <1>4, <1>9
    <3>5. Roles'
      BY <1>9, <3>1, <3>2, <3>4 DEF IInv, Roles, InStep, Awaiting, CexTargets
    <3> QED
      BY <3>1, <3>3, <3>5 DEF IInv, VerdictsOwn, ModelPaired, NoFalseAlarm, Counted
  <2> QED
    BY <2>1, <2>2
<1>10. target \in CexTargets => got.line \in Solved
  BY <1>4
<1> QED
  BY <1>6, <1>7, <1>8, <1>9, <1>10, TargetOf DEF IInv, Solved

\* The model that is read is of the query at hand.
LEMMA ReadModelStep ==
    ASSUME IInv, ReadModel
    PROVE  IInv'
<1> DEFINE got == Head(proc.output)
<1>1. /\ pc = "model" /\ ~Ended /\ proc \in Process /\ proc.output # <<>>
      /\ target \in CexTargets
  BY TargetOf DEF ReadModel, Ended, IInv, DataType, Roles
<1>2. /\ proc.input = <<>> /\ proc.output = <<[line |-> "model", of |-> cur]>>
      /\ kind[cur] = "sat"
  BY <1>1 DEF IInv, Roles, InStep, Awaiting
<1>3. got.of = cur /\ Tail(proc.output) = <<>>
  BY <1>2, OneInPipe
<1>4. /\ proc' = [proc EXCEPT !.output = Tail(@)] /\ Conclude("cex", cur) /\ Compare(cur)
      /\ UNCHANGED <<usage, served>>
  BY <1>3 DEF ReadModel
<1>5. /\ proc' \in Process /\ proc'.input = <<>> /\ proc'.output = <<>>
  BY <1>1, <1>2, <1>3, <1>4 DEF Process
<1>6. cur \in Queries /\ cur \in Commands
  BY Numbers DEF IInv, DataType, TypeOK
<1>7. UNCHANGED kind
  BY <1>4 DEF Conclude
<1>8. raw' \in {0} \cup Queries /\ (target = "cex-drt" => raw' = 0) /\ ModelPaired'
  BY <1>1, <1>2, <1>4, <1>6, <1>7, CompareStep
<1>9. usage' \in 0 .. UsageLimit - 1 /\ Counted'
  BY <1>4 DEF IInv, DataType, TypeOK, Counted
<1> QED
  BY <1>1, <1>2, <1>4, <1>5, <1>6, <1>8, <1>9, ConcludeStep DEF Hows

\* The end of the pipe is met only when the process is gone.
LEMMA ReadEndStep ==
    ASSUME IInv, ReadEnd
    PROVE  IInv'
  BY PanicStep DEF ReadEnd, Ended

\* After a time limit the targets of get_cex have a new process, with nothing on its way.
LEMMA TimeOutStep ==
    ASSUME IInv, TimeOut
    PROVE  IInv'
<1>1. /\ ~Ended /\ Conclude("timeout", 0) /\ proc' = Restarted
      /\ "timeout" \in Hows /\ 0 \in Commands
      /\ UNCHANGED <<kind, compared>>
  BY Numbers DEF TimeOut, Ended, Hows, Conclude, GetModel
<1>2. /\ proc' \in Process
      /\ target \in CexTargets => proc'.input = <<>> /\ proc'.output = <<>>
  BY <1>1, TargetOf, Numbers
     DEF Restarted, Fresh, Process, IInv, DataType, Commands, GetModel
<1>3. usage' \in 0 .. UsageLimit - 1 /\ raw' \in {0} \cup Queries /\ Counted'
  BY Numbers DEF TimeOut, IInv, DataType, TypeOK, Counted
<1>4. (target = "cex-drt" => raw' = 0) /\ ModelPaired'
  BY <1>1 DEF TimeOut, IInv, ModelPaired, Roles
<1> QED
  BY <1>1, <1>2, <1>3, <1>4, ConcludeStep

-----------------------------------------------------------------------------
(* The theorems. *)

\* Every step of a fuzz target and of its solver keeps the invariant.
LEMMA FuzzStep ==
    ASSUME IInv, [Next]_vars
    PROVE  IInv'
<1>1. CASE Client
  BY <1>1, GetSolverStep, AskStep, AnswerDecidedStep, FailEncodingStep,
     ReadAnswerStep, ReadModelStep, ReadEndStep, TimeOutStep DEF Client
<1>2. CASE UNCHANGED vars
  BY <1>2 DEF vars, IInv, DataType, TypeOK, Roles, InStep, Awaiting, VerdictsOwn,
             ModelPaired, NoFalseAlarm, Counted
<1> QED
  BY <1>1, <1>2, AnswerStep, DieStep DEF Next, Rested

\* The pipes, the verdicts and the counts of a fuzz target are in order in every state.
THEOREM FuzzInvariance == Spec => []IInv
<1> QED
  BY InitInvariant, FuzzStep, PTL DEF Spec

\* get_solver hands out a solver that owes no answer.
THEOREM SolverIdle == Spec => []HandedOverIdle
<1>1. IInv => HandedOverIdle
  BY DEF IInv, Roles, InStep, HandedOverIdle
<1> QED
  BY <1>1, FuzzInvariance, PTL

\* A verdict of get_cex is the right one, and rests on the answer to its own query. The
\* counterexample and the raw model that Lean compares are of one query.
THEOREM AnswersRight == Spec => []AnswersMatch
<1>1. IInv => AnswersMatch
  BY DEF IInv, AnswersMatch
<1> QED
  BY <1>1, FuzzInvariance, PTL

\* A target of get_cex panics only on an unknown of the query at hand, or a dead solver.
THEOREM AlarmsReal == Spec => []NoFalseAlarm
<1>1. IInv => NoFalseAlarm
  BY DEF IInv
<1> QED
  BY <1>1, FuzzInvariance, PTL

\* Type correctness of the harness; no process is handed out more often than the limit says.
LEMMA FuzzTyped == IInv => TypeOK /\ UsageKept
  BY Numbers DEF IInv, Counted, DataType, TypeOK, UsageKept

-----------------------------------------------------------------------------
(* SmtEncoder: what its inductive invariant speaks of. *)

\* The names of commands, the names of texts, and what they are for.
OwnIds  == ({"E", "R", "f", "t"} \X Nat) \cup ({"ext"} \X Types)
Ids     == {NoId} \cup OwnIds \cup ({"E", "R"} \X Nat \X Nat)
Sayings == {<<>>} \cup {Whole(x) : x \in Items} \cup {Piece(TypeOf(t), Eid(t)) : t \in Terms}
Texts   == [of : Items, id : Ids, says : Sayings]
Frames  == [item : Items \cup {Root}, number : Nat, todo : Seq(Items), got : Seq(Texts)]

\* What was asked for and has a name has it.
Covered(x) == Memoised(x) => x \in DOMAIN table

\* e is the table's text for its item, by a name that was declared for its use.
TextOK(e) ==
    /\ e \in Texts /\ Covered(e.of)
    /\ Memoised(e.of) => e = table[e.of]
    /\ e.id # NoId => <<e.id, e.says>> \in DeclaredBy(Len(script))

Named(x) == \E i \in 1..Len(script) : script[i].of = x /\ script[i].id = table[x].id

EntryOK(x) ==
    /\ x \in Items /\ Memoised(x) /\ table[x] \in Texts /\ table[x].of = x
    /\ table[x].id # NoId
    /\ \A k \in 1..Len(Parts(x)) : Covered(Parts(x)[k])
    /\ ~IsMember(x) => Named(x) /\ table[x].says = Whole(x)
    /\ IsMember(x) =>
          /\ table[x].says = Piece(TypeOf(x), Eid(x))
          /\ \E i \in DOMAIN job.members[TypeOf(x)] :
                IsIndex(i, x) /\ table[x].id = PartName(table[TypeOf(x)].id, i)

Entered == IsFiniteSet(DOMAIN table) /\ \A x \in DOMAIN table : EntryOK(x)

NumberedOK(c) ==
    IF Form(c.of) = "ext" THEN c.id = <<"ext", c.of>>
    ELSE /\ c.id = <<Letter(c.of), c.id[2]>>
         /\ c.id[2] \in Nat /\ c.id[2] < NumberOf(SortOf(c.of))

CommandOK(c, i) ==
    /\ c.of \in DOMAIN table /\ ~IsMember(c.of) /\ c.id = table[c.of].id
    /\ NumberedOK(c)
    /\ c.args \in Seq(Texts) /\ Len(c.args) = Len(Parts(c.of))
    /\ \A k \in 1..Len(c.args) : c.args[k].of = Parts(c.of)[k]
    /\ Mentions(c) \subseteq DeclaredBy(i - 1)

Differ(c, d) ==
    /\ c.of # d.of
    /\ SortOf(c.of) = SortOf(d.of) /\ Form(c.of) # "ext" /\ Form(d.of) # "ext" => c.id[2] # d.id[2]

IsScript(s) == s = [i \in DOMAIN s |-> s[i]]

Written ==
    /\ Len(script) \in Nat /\ DOMAIN script = 1..Len(script)
    /\ IsScript(script)
    /\ \A i \in 1..Len(script) : CommandOK(script[i], i)
    /\ \A i, j \in 1..Len(script) : i # j => Differ(script[i], script[j])

PartsOf(f) == IF f.item = Root THEN job.asserts ELSE Parts(f.item)

FrameOK(f) ==
    /\ Len(f.got) + Len(f.todo) = Len(PartsOf(f))
    /\ \A i \in 1..Len(f.got) : TextOK(f.got[i]) /\ f.got[i].of = PartsOf(f)[i]
    /\ \A i \in 1..Len(f.todo) : f.todo[i] = PartsOf(f)[Len(f.got) + i]

Links(s) ==
    /\ s \in Seq(Frames) /\ Len(s) >= 1 /\ s[1].item = Root
    /\ \A k \in 1..Len(s) : FrameOK(s[k])
    /\ \A k \in 2..Len(s) :
          /\ s[k].item \in Items /\ s[k].item \notin DOMAIN table
          /\ s[k - 1].todo # <<>> /\ Head(s[k - 1].todo) = s[k].item
          /\ s[k].item \in Funs => s[k].number = NumberOf(Funs)
    /\ \A j, k \in 2..Len(s) : j < k =>
          /\ Rank(s[k].item) < Rank(s[j].item)
          /\ s[j].item \notin Terms => s[k].item \in Types

EncoderInv ==
    /\ encoding \in {"idle", "running", "encoded", "failed"}
    /\ job \in Jobs /\ calls \in 0..MaxCalls
    /\ Entered /\ Written
    /\ encoding = "idle" => stack = <<>>
    /\ encoding # "idle" => Links(stack)
    /\ AssertedRight

-----------------------------------------------------------------------------
(* Names. *)

\* A term's type, and what items are to each other.
LEMMA ItemFacts ==
    /\ \A x \in Items : Parts(x) \in Seq(Items) /\ Len(Parts(x)) \in Nat
    /\ \A x \in Terms : Len(Parts(x)) >= 1 /\ TypeOf(x) \in Types
    /\ \A x \in Types : SortOf(x) = Types /\ x \notin Terms /\ x \notin Funs
    /\ \A x \in Terms : SortOf(x) = Terms /\ x \notin Types /\ x \notin Funs
    /\ \A x \in Funs  : SortOf(x) = Funs /\ x \notin Types /\ x \notin Terms
  <1>1. \A x \in Types \cup Funs : Parts(x) \in Seq(Items) /\ Len(Parts(x)) \in Nat
    <2>1. Types \subseteq Items
      BY DEF Items
    <2>2. SUFFICES ASSUME NEW x \in Types \cup Funs PROVE Parts(x) \in Seq(Items) /\ Len(Parts(x)) \in Nat
      OBVIOUS
    <2>3. Parts(x) \in Seq(Types)
      BY PartsType
    <2> QED BY <2>1, <2>3
  <1>2. \A x \in Terms : Parts(x) \in Seq(Items) /\ Len(Parts(x)) >= 1 /\ TypeOf(x) \in Types
    BY PartsType DEF TypeOf
  <1> QED BY <1>1, <1>2, SortsDisjoint DEF Items, SortOf

\* How commands are named: other sorts, other letters.
LEMMA Letters ==
    ASSUME NEW x \in Items, NEW y \in Items, Memoised(x), Memoised(y),
           Form(x) # "ext", Form(y) # "ext"
    PROVE  /\ Letter(x) \in {"E", "R", "f", "t"} /\ Letter(y) \in {"E", "R", "f", "t"}
           /\ Letter(x) = Letter(y) => SortOf(x) = SortOf(y)
  BY FormsType, SortsDisjoint DEF Items, SortOf, Letter, Memoised, TypeForms, TermForms

\* What is written of one item.
LEMMA OneItem ==
    ASSUME NEW c, NEW m \in Declares(c), NEW n \in Declares(c), c.id \in OwnIds, m[1] = n[1]
    PROVE  m = n
  <1>1. Len(c.id) = 2
    BY DEF OwnIds
  <1>2. \A i \in DOMAIN Components(c.of) : Len(PartName(c.id, i)) = 3 /\ PartName(c.id, i)[3] = i
    BY DEF PartName
  <1> QED BY <1>1, <1>2 DEF Declares

\* The names of two pieces of one command differ from those of another, if its own name does.
LEMMA TwoItems ==
    ASSUME NEW c, NEW d, c.id \in OwnIds, d.id \in OwnIds, c.id # d.id,
           NEW m \in Declares(c), NEW n \in Declares(d)
    PROVE  m[1] # n[1]
  <1>1. Len(c.id) = 2 /\ Len(d.id) = 2 /\ (c.id[1] # d.id[1] \/ c.id[2] # d.id[2])
    BY DEF OwnIds
  <1>2. \A i : /\ Len(PartName(c.id, i)) = 3 /\ PartName(c.id, i)[1] = c.id[1] /\ PartName(c.id, i)[2] = c.id[2]
               /\ Len(PartName(d.id, i)) = 3 /\ PartName(d.id, i)[1] = d.id[1] /\ PartName(d.id, i)[2] = d.id[2]
    BY DEF PartName
  <1>3. m[1] = c.id \/ \E i : m[1] = PartName(c.id, i)
    BY DEF Declares
  <1>4. n[1] = d.id \/ \E i : n[1] = PartName(d.id, i)
    BY DEF Declares
  <1> QED BY <1>1, <1>2, <1>3, <1>4

\* The own names of commands.
LEMMA OwnNames ==
    ASSUME Entered, Written
    PROVE  \A i \in 1..Len(script) : /\ script[i].of \in Items /\ Memoised(script[i].of)
                                     /\ script[i].id \in OwnIds
  <1> SUFFICES ASSUME NEW i \in 1..Len(script)
               PROVE  script[i].of \in Items /\ Memoised(script[i].of) /\ script[i].id \in OwnIds
    OBVIOUS
  <1>1. CommandOK(script[i], i) /\ script[i].of \in DOMAIN table
    BY DEF Written, CommandOK
  <1>2. script[i].of \in Items /\ Memoised(script[i].of)
    BY <1>1 DEF Entered, EntryOK
  <1>3. NumberedOK(script[i])
    BY <1>1 DEF CommandOK
  <1>4. CASE Form(script[i].of) = "ext"
    <2>1. script[i].of \in Types
      BY <1>2, <1>4, FormsType DEF Items, TermForms
    <2>2. script[i].id = <<"ext", script[i].of>>
      BY <1>3, <1>4 DEF NumberedOK
    <2>3. script[i].id \in {"ext"} \X Types
      BY <2>1, <2>2
    <2> QED BY <2>3, <1>2 DEF OwnIds
  <1>5. CASE Form(script[i].of) # "ext"
    <2>1. Letter(script[i].of) \in {"E", "R", "f", "t"}
      BY DEF Letter
    <2>2. script[i].id = <<Letter(script[i].of), script[i].id[2]>> /\ script[i].id[2] \in Nat
      BY <1>3, <1>5 DEF NumberedOK
    <2>3. PICK l \in {"E", "R", "f", "t"}, n \in Nat : script[i].id = <<l, n>>
      BY <2>1, <2>2
    <2>4. script[i].id \in {"E", "R", "f", "t"} \X Nat
      BY <2>3
    <2> QED BY <2>4, <1>2 DEF OwnIds
  <1> QED BY <1>4, <1>5

\* Two commands have two names.
LEMMA TwoNames ==
    ASSUME Entered, Written, NEW i \in 1..Len(script), NEW j \in 1..Len(script), i # j
    PROVE  script[i].of # script[j].of /\ script[i].id # script[j].id
  <1> DEFINE c == script[i]
             d == script[j]
  <1>1. c.of \in Items /\ Memoised(c.of) /\ d.of \in Items /\ Memoised(d.of)
    BY OwnNames
  <1>2. NumberedOK(c) /\ NumberedOK(d) /\ Differ(c, d)
    BY DEF Written, CommandOK
  <1>3. CASE Form(c.of) = "ext" /\ Form(d.of) = "ext"
    BY <1>2, <1>3 DEF NumberedOK, Differ
  <1>4. CASE Form(c.of) # "ext" /\ Form(d.of) # "ext"
    <2>1. c.id[1] = Letter(c.of) /\ d.id[1] = Letter(d.of)
      BY <1>2, <1>4 DEF NumberedOK
    <2>2. Letter(c.of) = Letter(d.of) => SortOf(c.of) = SortOf(d.of)
      BY <1>1, <1>4, Letters
    <2> QED BY <2>1, <2>2, <1>2, <1>4 DEF Differ
  <1>5. CASE (Form(c.of) = "ext") # (Form(d.of) = "ext")
    <2>1. Letter(c.of) # "ext" /\ Letter(d.of) # "ext"
      BY DEF Letter
    <2> QED BY <2>1, <1>2, <1>5 DEF NumberedOK, Differ
  <1> QED BY <1>3, <1>4, <1>5

\* The script declares a name for one thing only.
LEMMA OneMeaning ==
    ASSUME Entered, Written
    PROVE  /\ DefinedOnce
           /\ \A m, n \in DeclaredBy(Len(script)) : m[1] = n[1] => m = n
  <1>1. ASSUME NEW i \in 1..Len(script), NEW j \in 1..Len(script), i # j,
               NEW m \in Declares(script[i]), NEW n \in Declares(script[j])
        PROVE  script[i].of # script[j].of /\ m[1] # n[1]
    BY <1>1, OwnNames, TwoNames, TwoItems
  <1>2. DefinedOnce
    <2>1. DOMAIN script = 1..Len(script)
      BY DEF Written
    <2> QED BY <1>1, <2>1, TwoNames DEF DefinedOnce
  <1>3. ASSUME NEW m \in DeclaredBy(Len(script)), NEW n \in DeclaredBy(Len(script)), m[1] = n[1]
        PROVE  m = n
    <2>1. PICK i \in 1..Len(script) : m \in Declares(script[i])
      BY DEF DeclaredBy
    <2>2. PICK j \in 1..Len(script) : n \in Declares(script[j])
      BY DEF DeclaredBy
    <2>3. i = j
      BY <2>1, <2>2, <1>1, <1>3
    <2> QED BY <2>1, <2>2, <2>3, <1>3, OneItem, OwnNames
  <1> QED BY <1>2, <1>3

-----------------------------------------------------------------------------
(* The tables. *)

\* A table that grows by x grows by one in the sort of x and in no other.
LEMMA OneCounted ==
    ASSUME NEW D, NEW x, IsFiniteSet(D), x \notin D, NEW S
    PROVE  /\ IsFiniteSet(D \cup {x})
           /\ Cardinality(D \cap S) \in Nat
           /\ x \in S => Cardinality((D \cup {x}) \cap S) = Cardinality(D \cap S) + 1
           /\ x \notin S => Cardinality((D \cup {x}) \cap S) = Cardinality(D \cap S)
  <1>1. IsFiniteSet(D \cup {x})
    BY FS_AddElement
  <1>2. IsFiniteSet(D \cap S) /\ Cardinality(D \cap S) \in Nat
    BY FS_Subset, FS_CardinalityType
  <1>3. ASSUME x \in S PROVE Cardinality((D \cup {x}) \cap S) = Cardinality(D \cap S) + 1
    <2>1. (D \cup {x}) \cap S = (D \cap S) \cup {x} /\ x \notin D \cap S
      BY <1>3
    <2> QED BY <2>1, <1>2, FS_AddElement
  <1>4. ASSUME x \notin S PROVE Cardinality((D \cup {x}) \cap S) = Cardinality(D \cap S)
    <2>1. (D \cup {x}) \cap S = D \cap S
      BY <1>4
    <2> QED BY <2>1
  <1> QED BY <1>1, <1>2, <1>3, <1>4

\* A table that grows by x in a step, and a script that grows or does not.
Grows(x) ==
    /\ x \notin DOMAIN table /\ IsFiniteSet(DOMAIN table)
    /\ DOMAIN table' = DOMAIN table \cup {x}
    /\ \A y \in DOMAIN table : table'[y] = table[y]
    /\ Len(script) \in Nat /\ Len(script') \in Nat /\ Len(script) <= Len(script')
    /\ \A i \in 1..Len(script) : script'[i] = script[i]
    /\ job' = job

\* What was said before stays true.
LEMMA Growth ==
    ASSUME NEW x, Grows(x)
    PROVE  /\ \A y : Covered(y) => Covered(y)'
           /\ \A n \in 0..Len(script) : DeclaredBy(n)' = DeclaredBy(n)
           /\ DeclaredBy(Len(script)) \subseteq DeclaredBy(Len(script))'
           /\ \A e : TextOK(e) => TextOK(e)'
           /\ \A y \in DOMAIN table : Named(y) => Named(y)'
           /\ \A S : /\ NumberOf(S) \in Nat
                     /\ x \in S => NumberOf(S)' = NumberOf(S) + 1
                     /\ x \notin S => NumberOf(S)' = NumberOf(S)
           /\ IsFiniteSet(DOMAIN table')
  <1> USE DEF Grows
  <1>1. \A y : Covered(y) => Covered(y)'
    BY DEF Covered
  <1>2. \A c : Declares(c)' = Declares(c)
    BY DEF Declares, Components
  <1>3. \A n \in 0..Len(script) : DeclaredBy(n)' = DeclaredBy(n)
    BY <1>2 DEF DeclaredBy
  <1>4. DeclaredBy(Len(script)) \subseteq DeclaredBy(Len(script))'
    BY <1>2 DEF DeclaredBy
  <1>5. \A e : TextOK(e) => TextOK(e)'
    BY <1>1, <1>4 DEF TextOK, Covered
  <1>6. \A y \in DOMAIN table : Named(y) => Named(y)'
    BY DEF Named
  <1>7. \A S : /\ NumberOf(S) \in Nat
               /\ x \in S => NumberOf(S)' = NumberOf(S) + 1
               /\ x \notin S => NumberOf(S)' = NumberOf(S)
    <2> SUFFICES ASSUME NEW S
                 PROVE  /\ NumberOf(S) \in Nat
                        /\ x \in S => NumberOf(S)' = NumberOf(S) + 1
                        /\ x \notin S => NumberOf(S)' = NumberOf(S)
      OBVIOUS
    <2>1. NumberOf(S)' = Cardinality((DOMAIN table \cup {x}) \cap S)
      BY DEF NumberOf
    <2>2. NumberOf(S) = Cardinality(DOMAIN table \cap S)
      BY DEF NumberOf
    <2>3. x \notin DOMAIN table /\ IsFiniteSet(DOMAIN table)
      OBVIOUS
    <2> HIDE DEF Grows
    <2>4. Cardinality(DOMAIN table \cap S) \in Nat
      BY <2>3, OneCounted
    <2>5. ASSUME x \in S
          PROVE  Cardinality((DOMAIN table \cup {x}) \cap S) = Cardinality(DOMAIN table \cap S) + 1
      <3>1. (DOMAIN table \cup {x}) \cap S = (DOMAIN table \cap S) \cup {x}
        BY <2>5
      <3>2. IsFiniteSet(DOMAIN table \cap S) /\ x \notin DOMAIN table \cap S
        BY <2>3, FS_Subset
      <3> QED BY <3>1, <3>2, FS_AddElement
    <2>6. x \notin S => Cardinality((DOMAIN table \cup {x}) \cap S) = Cardinality(DOMAIN table \cap S)
      BY <2>3, OneCounted
    <2> QED BY <2>1, <2>2, <2>4, <2>5, <2>6
  <1>8. IsFiniteSet(DOMAIN table')
    BY OneCounted
  <1> QED BY <1>1, <1>3, <1>4, <1>5, <1>6, <1>7, <1>8

\* An entry stays what it is.
LEMMA EntryStays ==
    ASSUME NEW x, Grows(x), NEW y \in DOMAIN table, EntryOK(y)
    PROVE  EntryOK(y)'
  <1>1. /\ y \in Items /\ Memoised(y) /\ table'[y] = table[y] /\ table[y] \in Texts /\ table[y].of = y
        /\ table[y].id # NoId
    BY DEF EntryOK, Grows
  <1>2. \A k \in 1..Len(Parts(y)) : Covered(Parts(y)[k])'
    BY Growth DEF EntryOK
  <1>3. IsMember(y)' = IsMember(y) /\ \A i : IsIndex(i, y)' = IsIndex(i, y)
    BY DEF IsMember, IsIndex, Grows
  <1>4. ~IsMember(y) => Named(y)' /\ table[y].says = Whole(y)
    BY Growth DEF EntryOK
  <1>5. ASSUME IsMember(y)
        PROVE  /\ table[y].says = Piece(TypeOf(y), Eid(y))
               /\ \E i \in DOMAIN job.members[TypeOf(y)] :
                     IsIndex(i, y) /\ table[y].id = PartName(table'[TypeOf(y)].id, i)
    <2>1. Form(y) = "euid" /\ y \in Terms
      BY <1>5 DEF IsMember
    <2>2. Form(TypeOf(y)) = "entity" /\ TypeOf(y) = Parts(y)[1] /\ Len(Parts(y)) = 1
      BY <2>1, WellFormed DEF TypeOf
    <2>3. Covered(TypeOf(y))
      BY <2>2 DEF EntryOK
    <2>4. TypeOf(y) \in DOMAIN table
      BY <2>2, <2>3 DEF Covered, Memoised
    <2>5. table'[TypeOf(y)] = table[TypeOf(y)]
      BY <2>4 DEF Grows
    <2> QED BY <2>5, <1>5 DEF EntryOK
  <1>6. job' = job
    BY DEF Grows
  <1>7. \A i : IsMember(y) => job.members[TypeOf(y)] = job'.members[TypeOf(y)]
    BY <1>6
  <1> QED BY <1>1, <1>2, <1>3, <1>4, <1>5, <1>6 DEF EntryOK

\* So does a command.
LEMMA CommandStays ==
    ASSUME NEW x, Grows(x), NEW c, NEW i \in 1..Len(script), CommandOK(c, i)
    PROVE  CommandOK(c, i)'
  <1>1. c.of \in DOMAIN table' /\ table'[c.of] = table[c.of] /\ IsMember(c.of)' = IsMember(c.of)
    BY DEF CommandOK, IsMember, Grows
  <1>2. NumberedOK(c)'
    BY Growth DEF NumberedOK, CommandOK
  <1>3. DeclaredBy(i - 1)' = DeclaredBy(i - 1)
    <2>1. i - 1 \in 0..Len(script)
      BY DEF Grows
    <2> QED BY <2>1, Growth
  <1> QED BY <1>1, <1>2, <1>3 DEF CommandOK, Mentions

-----------------------------------------------------------------------------
(* The stack. *)

\* The caller is given what it asked for.
LEMMA FrameAnswered ==
    ASSUME NEW f \in Frames, NEW e, FrameOK(f)', f.todo # <<>>, TextOK(e)', e.of = Head(f.todo)
    PROVE  LET g == Filled(f, e) IN
           /\ g \in Frames /\ FrameOK(g)' /\ g.item = f.item /\ g.number = f.number
  <1> DEFINE g == Filled(f, e)
  <1>1. e \in Texts
    BY DEF TextOK
  <1>2. /\ f.todo \in Seq(Items) /\ f.got \in Seq(Texts) /\ f.item \in Items \cup {Root}
        /\ f.number \in Nat
    BY DEF Frames
  <1>3. g = [item |-> f.item, number |-> f.number, todo |-> Tail(f.todo), got |-> Append(f.got, e)]
    BY DEF Filled
  <1>4. Tail(f.todo) \in Seq(Items) /\ Append(f.got, e) \in Seq(Texts)
    BY <1>1, <1>2
  <1>5. g \in Frames
    BY <1>2, <1>3, <1>4 DEF Frames
  <1> HIDE DEF g
  <1>6. FrameOK(g)'
    <2>1. (PartsOf(g))' = (PartsOf(f))'
      BY <1>3 DEF PartsOf
    <2> DEFINE ps == (PartsOf(f))'
    <2>2. /\ Len(f.got) + Len(f.todo) = Len(ps)
          /\ \A i \in 1..Len(f.got) : TextOK(f.got[i])' /\ f.got[i].of = ps[i]
          /\ \A i \in 1..Len(f.todo) : f.todo[i] = ps[Len(f.got) + i]
      BY DEF FrameOK
    <2> HIDE DEF ps
    <2>3. /\ Len(g.got) = Len(f.got) + 1 /\ Len(g.todo) = Len(f.todo) - 1 /\ Len(f.todo) >= 1
          /\ Len(f.got) \in Nat /\ Len(f.todo) \in Nat
      BY <1>2, <1>3
    <2>4. /\ \A i \in 1..Len(f.got) : g.got[i] = f.got[i]
          /\ g.got[Len(f.got) + 1] = e
      BY <1>1, <1>2, <1>3
    <2>5. \A i \in 1..Len(g.todo) : g.todo[i] = f.todo[i + 1]
      BY <1>2, <1>3, <2>3
    <2>6. Head(f.todo) = ps[Len(f.got) + 1]
      <3>1. 1 \in 1..Len(f.todo) /\ Head(f.todo) = f.todo[1]
        BY <2>3, <1>2
      <3> QED BY <3>1, <2>2
    <2>7. \A i \in 1..Len(g.got) : TextOK(g.got[i])' /\ g.got[i].of = ps[i]
      <3> SUFFICES ASSUME NEW i \in 1..Len(g.got) PROVE TextOK(g.got[i])' /\ g.got[i].of = ps[i]
        OBVIOUS
      <3>1. CASE i = Len(f.got) + 1
        BY <3>1, <2>4, <2>6
      <3>2. CASE i # Len(f.got) + 1
        <4>1. i \in 1..Len(f.got)
          BY <3>2, <2>3
        <4> QED BY <4>1, <2>2, <2>4
      <3> QED BY <3>1, <3>2
    <2>8. \A i \in 1..Len(g.todo) : g.todo[i] = ps[Len(g.got) + i]
      <3> SUFFICES ASSUME NEW i \in 1..Len(g.todo) PROVE g.todo[i] = ps[Len(g.got) + i]
        OBVIOUS
      <3>1. PICK a \in Nat, b \in Nat : a = Len(f.got) /\ b = Len(f.todo)
        BY <2>3
      <3>2. i \in Nat /\ i >= 1 /\ i <= b - 1
        BY <2>3, <3>1
      <3>3. i + 1 \in 1..b
        BY <3>1, <3>2
      <3>4. \A m \in Nat : a + (m + 1) = (a + 1) + m
        OBVIOUS
      <3>5. a + (i + 1) = (a + 1) + i
        BY <3>2, <3>4
      <3> QED BY <3>1, <3>3, <3>5, <2>2, <2>3, <2>5
    <2>9. Len(g.got) + Len(g.todo) = Len(ps)
      <3>1. PICK a \in Nat, b \in Nat : a = Len(f.got) /\ b = Len(f.todo)
        BY <2>3
      <3>2. (a + 1) + (b - 1) = a + b
        OBVIOUS
      <3> QED BY <3>1, <3>2, <2>2, <2>3
    <2> QED BY <2>1, <2>7, <2>8, <2>9 DEF FrameOK, ps
  <1>7. g.item = f.item /\ g.number = f.number
    BY <1>3
  <1> QED BY <1>5, <1>6, <1>7 DEF g

LEMMA Answered ==
    ASSUME NEW s, NEW e, Links(s)', s[Len(s)].todo # <<>>, TextOK(e)', e.of = Head(s[Len(s)].todo)
    PROVE  Links(Given(s, e))'
  <1> DEFINE n == Len(s)
             f == s[n]
             g == Filled(f, e)
             r == Given(s, e)
  <1>1. s \in Seq(Frames) /\ n \in Nat /\ n >= 1 /\ f \in Frames /\ FrameOK(f)'
    BY DEF Links
  <1>2. g \in Frames /\ FrameOK(g)' /\ g.item = f.item /\ g.number = f.number
    BY <1>1, FrameAnswered
  <1>3. r = [s EXCEPT ![n] = g]
    BY DEF Given
  <1> HIDE DEF g, r
  <1>4. /\ r \in Seq(Frames) /\ Len(r) = n /\ r[n] = g
        /\ \A k \in 1..n : k # n => r[k] = s[k]
    BY <1>1, <1>2, <1>3
  <1>5. \A k \in 1..n : r[k].item = s[k].item /\ r[k].number = s[k].number
    BY <1>2, <1>4
  <1>6. \A k \in 1..n : FrameOK(r[k])'
    BY <1>2, <1>4 DEF Links
  <1>7. \A k \in 2..n : r[k - 1] = s[k - 1]
    BY <1>1, <1>4
  <1>8. r[1].item = Root
    BY <1>1, <1>5 DEF Links
  <1>9. \A k \in 2..n :
          /\ r[k].item \in Items /\ r[k].item \notin DOMAIN table'
          /\ r[k - 1].todo # <<>> /\ Head(r[k - 1].todo) = r[k].item
          /\ r[k].item \in Funs => r[k].number = NumberOf(Funs)'
    BY <1>1, <1>5, <1>7 DEF Links
  <1>10. \A j, k \in 2..n : j < k =>
          /\ Rank(r[k].item) < Rank(r[j].item)
          /\ r[j].item \notin Terms => r[k].item \in Types
    BY <1>1, <1>5 DEF Links
  <1>11. Links(r)'
    BY <1>1, <1>4, <1>6, <1>8, <1>9, <1>10 DEF Links
  <1> QED BY <1>11 DEF r

\* The caller of the innermost frame asked for its item.
LEMMA Returned ==
    ASSUME NEW s, Links(s), Len(s) >= 2
    PROVE  LET r == SubSeq(s, 1, Len(s) - 1) IN
           /\ Links(r) /\ r[Len(r)].todo # <<>> /\ Head(r[Len(r)].todo) = s[Len(s)].item
           /\ Len(r) = Len(s) - 1 /\ \A k \in 1..Len(r) : r[k] = s[k]
  <1> DEFINE r == SubSeq(s, 1, Len(s) - 1)
  <1>1. s \in Seq(Frames) /\ Len(s) \in Nat
    BY DEF Links
  <1>2. r \in Seq(Frames) /\ Len(r) = Len(s) - 1 /\ \A k \in 1..Len(r) : r[k] = s[k]
    BY <1>1
  <1>3. \A k \in 2..Len(r) : r[k] = s[k] /\ r[k - 1] = s[k - 1]
    BY <1>1, <1>2
  <1> HIDE DEF r
  <1>4. Links(r)
    <2>1. Len(r) >= 1 /\ r[1].item = Root
      BY <1>1, <1>2 DEF Links
    <2>2. ASSUME NEW k \in 1..Len(r) PROVE FrameOK(r[k])
      <3>1. k \in 1..Len(s) /\ r[k] = s[k]
        BY <1>1, <1>2
      <3> QED BY <3>1 DEF Links
    <2>3. ASSUME NEW k \in 2..Len(r)
          PROVE  /\ r[k].item \in Items /\ r[k].item \notin DOMAIN table
                 /\ r[k - 1].todo # <<>> /\ Head(r[k - 1].todo) = r[k].item
                 /\ r[k].item \in Funs => r[k].number = NumberOf(Funs)
      <3>1. k \in 2..Len(s)
        BY <1>1, <1>2
      <3> QED BY <3>1, <1>3 DEF Links
    <2>4. ASSUME NEW j \in 2..Len(r), NEW k \in 2..Len(r), j < k
          PROVE  /\ Rank(r[k].item) < Rank(r[j].item)
                 /\ r[j].item \notin Terms => r[k].item \in Types
      <3>1. k \in 2..Len(s) /\ j \in 2..Len(s)
        BY <1>1, <1>2
      <3> QED BY <3>1, <2>4, <1>3 DEF Links
    <2> QED BY <1>2, <2>1, <2>2, <2>3, <2>4 DEF Links
  <1>5. r[Len(r)] = s[Len(s) - 1] /\ s[Len(s) - 1].todo # <<>> /\ Head(s[Len(s) - 1].todo) = s[Len(s)].item
    BY <1>1, <1>2 DEF Links
  <1> QED BY <1>2, <1>4, <1>5 DEF r

\* The frames below stay, when the table grows by an item that none of them is for.
LEMMA FramesStay ==
    ASSUME NEW s, NEW x, Links(s), Grows(x), \A k \in 2..Len(s) : s[k].item # x,
           \A k \in 2..Len(s) : s[k].item \in Funs => x \notin Funs
    PROVE  Links(s)'
  <1>1. \A k \in 1..Len(s) : FrameOK(s[k])'
    <2> SUFFICES ASSUME NEW k \in 1..Len(s) PROVE FrameOK(s[k])'
      OBVIOUS
    <2> DEFINE f == s[k]
    <2>1. FrameOK(f)
      BY DEF Links
    <2> HIDE DEF f
    <2>2. (PartsOf(f))' = PartsOf(f)
      BY DEF PartsOf, Grows
    <2>3. \A e : TextOK(e) => TextOK(e)'
      BY Growth
    <2> QED BY <2>1, <2>2, <2>3 DEF FrameOK, f
  <1>2. \A k \in 2..Len(s) : s[k].item \notin DOMAIN table'
    BY DEF Links, Grows
  <1>3. \A k \in 2..Len(s) : s[k].item \in Funs => s[k].number = NumberOf(Funs)'
    BY Growth DEF Links
  <1> QED BY <1>1, <1>2, <1>3 DEF Links

\* A step that leaves the tables alone leaves alone what is said about them.
LEMMA NothingGrows ==
    ASSUME UNCHANGED <<job, table, script>>
    PROVE  /\ \A s : Links(s) => Links(s)'
           /\ \A e : TextOK(e) => TextOK(e)'
           /\ Entered => Entered'
           /\ Written => Written'
  <1>1. \A n : DeclaredBy(n)' = DeclaredBy(n)
    BY DEF DeclaredBy, Declares, Components
  <1>2. \A e : TextOK(e)' = TextOK(e)
    BY <1>1 DEF TextOK, Covered
  <1>3. \A f : FrameOK(f)' = FrameOK(f)
    <2>1. \A f : (PartsOf(f))' = PartsOf(f)
      BY DEF PartsOf
    <2> QED BY <1>2, <2>1 DEF FrameOK
  <1>4. NumberOf(Funs)' = NumberOf(Funs) /\ \A S : NumberOf(S)' = NumberOf(S)
    BY DEF NumberOf
  <1>5. \A s : Links(s) => Links(s)'
    BY <1>3, <1>4 DEF Links
  <1>6. Entered => Entered'
    BY DEF Entered, EntryOK, Covered, Named, IsMember, IsIndex
  <1>7. \A c, i : CommandOK(c, i) => CommandOK(c, i)'
    <2>1. \A c : NumberedOK(c)' = NumberedOK(c)
      BY <1>4 DEF NumberedOK
    <2>2. \A c : IsMember(c.of)' = IsMember(c.of)
      BY DEF IsMember
    <2>3. \A i : DeclaredBy(i - 1)' = DeclaredBy(i - 1)
      BY <1>1
    <2> QED BY <2>1, <2>2, <2>3 DEF CommandOK, Mentions
  <1>8. Written => Written'
    BY <1>7 DEF Written, Differ
  <1> QED BY <1>2, <1>5, <1>6, <1>8

-----------------------------------------------------------------------------
(* The steps. *)

\* What there is to know of the innermost call, when its parts are encoded.
LEMMA Innermost ==
    ASSUME Links(stack), Top.todo = <<>>, Top.item # Root
    PROVE  /\ Len(stack) \in Nat /\ Len(stack) >= 2 /\ Top.item \in Items \ DOMAIN table
           /\ Top.got \in Seq(Texts) /\ Len(Top.got) = Len(Parts(Top.item))
           /\ \A k \in 1..Len(Top.got) : TextOK(Top.got[k]) /\ Top.got[k].of = Parts(Top.item)[k]
           /\ Links(Under) /\ Under[Len(Under)].todo # <<>> /\ Head(Under[Len(Under)].todo) = Top.item
           /\ \A k \in 2..Len(Under) : /\ Under[k].item # Top.item
                                       /\ Under[k].item \in Funs => Top.item \notin Funs
           /\ Top.number \in Nat
           /\ Top.item \in Funs => Top.number = NumberOf(Funs)
  <1>1. stack \in Seq(Frames) /\ Len(stack) \in Nat /\ Len(stack) >= 1 /\ stack[1].item = Root
    BY DEF Links
  <1>2. Len(stack) >= 2
    BY <1>1 DEF Top
  <1>3. Top \in Frames /\ FrameOK(Top)
    BY <1>1 DEF Top, Links
  <1>4. Len(stack) \in 2..Len(stack)
    BY <1>1, <1>2
  <1>5. /\ Top.item \in Items \ DOMAIN table
        /\ Top.item \in Funs => Top.number = NumberOf(Funs)
    BY <1>4 DEF Top, Links
  <1>6. PartsOf(Top) = Parts(Top.item)
    BY DEF PartsOf
  <1>7. Top.got \in Seq(Texts) /\ Top.number \in Nat /\ Len(Top.got) \in Nat
    BY <1>3 DEF Frames
  <1>8. Len(Top.got) = Len(Parts(Top.item))
    BY <1>3, <1>6, <1>7 DEF FrameOK
  <1>9. \A k \in 1..Len(Top.got) : TextOK(Top.got[k]) /\ Top.got[k].of = Parts(Top.item)[k]
    BY <1>3, <1>6 DEF FrameOK
  <1>10. /\ Links(Under) /\ Under[Len(Under)].todo # <<>> /\ Head(Under[Len(Under)].todo) = Top.item
         /\ Len(Under) = Len(stack) - 1 /\ \A k \in 1..Len(Under) : Under[k] = stack[k]
    BY <1>2, Returned DEF Under, Top
  <1>11. ASSUME NEW k \in 2..Len(Under)
         PROVE  Under[k].item # Top.item /\ (Under[k].item \in Funs => Top.item \notin Funs)
    <2>1. k \in 2..Len(stack) /\ k < Len(stack) /\ Under[k] = stack[k]
      BY <1>1, <1>10
    <2>2. Rank(Top.item) < Rank(stack[k].item) /\ (stack[k].item \notin Terms => Top.item \in Types)
      BY <2>1, <1>4 DEF Top, Links
    <2>3. Rank(Top.item) \in Nat
      BY <1>5, Trees
    <2>4. Under[k].item # Top.item
      BY <2>1, <2>2, <2>3
    <2> QED BY <2>1, <2>2, <2>4, SortsDisjoint
  <1> QED BY <1>1, <1>2, <1>5, <1>7, <1>8, <1>9, <1>10, <1>11

\* encode begins: nothing is known and the asserts are asked for.
LEMMA BeginStep ==
    ASSUME BeginEncode
    PROVE  /\ job' \in Jobs /\ encoding' = "running"
           /\ Entered' /\ Written' /\ Links(stack)'
  <1>1. /\ encoding' = "running" /\ job' \in Jobs /\ script' = <<>> /\ table' = <<>>
        /\ stack' = <<[item |-> Root, number |-> 0, todo |-> job'.asserts, got |-> <<>>]>>
    BY DEF BeginEncode, EmptyTable
  <1>2. Entered'
    <2>1. DOMAIN table' = {}
      BY <1>1
    <2> QED BY <2>1, FS_EmptySet DEF Entered
  <1>3. Written'
    BY <1>1 DEF Written, IsScript
  <1>4. Links(stack)'
    <2>1. PICK a \in Seq(Items) : a = job'.asserts
      <3>1. job'.asserts \in Seq(Terms)
        BY <1>1, JobsType
      <3> QED BY <3>1 DEF Items
    <2>2. PICK f : f = [item |-> Root, number |-> 0, todo |-> a, got |-> <<>>]
      OBVIOUS
    <2>3. f \in Frames /\ f.item = Root
      BY <2>2 DEF Frames
    <2>4. FrameOK(f)'
      <3>1. (PartsOf(f))' = a
        BY <2>1, <2>3 DEF PartsOf
      <3>2. Len(f.got) = 0 /\ f.todo = a /\ Len(a) \in Nat
        BY <2>2
      <3> QED BY <3>1, <3>2 DEF FrameOK
    <2>5. PICK s : s = <<f>>
      OBVIOUS
    <2>6. s \in Seq(Frames) /\ Len(s) = 1 /\ s[1] = f
      BY <2>3, <2>5
    <2>7. Links(s)'
      BY <2>3, <2>4, <2>6 DEF Links
    <2>8. stack' = s
      BY <1>1, <2>1, <2>2, <2>5
    <2> QED BY <2>7, <2>8 DEF Links
  <1> QED BY <1>1, <1>2, <1>3, <1>4

\* A part that is in the table is a text as it should be.
LEMMA TableText ==
    ASSUME Entered, NEW x \in DOMAIN table, Written
    PROVE  TextOK(table[x]) /\ table[x].of = x
  <1>1. EntryOK(x)
    BY DEF Entered
  <1>2. table[x] \in Texts /\ table[x].of = x /\ Covered(x) /\ x \in Items /\ Memoised(x)
    BY <1>1 DEF EntryOK, Covered
  <1>3. <<table[x].id, table[x].says>> \in DeclaredBy(Len(script))
    <2>1. CASE ~IsMember(x)
      <3>1. PICK i \in 1..Len(script) : script[i].of = x /\ script[i].id = table[x].id
        BY <1>1, <2>1 DEF EntryOK, Named
      <3>2. table[x].says = Whole(script[i].of)
        BY <1>1, <2>1, <3>1 DEF EntryOK
      <3>3. <<table[x].id, table[x].says>> \in Declares(script[i])
        BY <3>1, <3>2 DEF Declares
      <3> QED BY <3>3 DEF DeclaredBy
    <2>2. CASE IsMember(x)
      <3> DEFINE y == TypeOf(x)
      <3>1. Form(x) = "euid" /\ x \in Terms /\ y \in DOMAIN job.members
        BY <2>2 DEF IsMember
      <3>2. Form(y) = "entity" /\ y = Parts(x)[1] /\ Len(Parts(x)) = 1 /\ y \in Types
        BY <3>1, WellFormed, ItemFacts DEF TypeOf
      <3>3. y \in DOMAIN table
        BY <1>1, <3>2 DEF EntryOK, Covered, Memoised
      <3>4. ~IsMember(y)
        BY <3>2, SortsDisjoint DEF IsMember
      <3>5. PICK j \in 1..Len(script) : script[j].of = y /\ script[j].id = table[y].id
        BY <3>3, <3>4 DEF Entered, EntryOK, Named
      <3>6. PICK i \in DOMAIN job.members[y] : IsIndex(i, x) /\ table[x].id = PartName(table[y].id, i)
        BY <1>1, <2>2 DEF EntryOK
      <3>7. table[x].says = Piece(y, job.members[y][i])
        BY <1>1, <2>2, <3>6 DEF EntryOK, IsIndex
      <3>8. Components(y) = job.members[y]
        BY <3>1 DEF Components
      <3>9. <<table[x].id, table[x].says>> \in Declares(script[j])
        BY <3>5, <3>6, <3>7, <3>8 DEF Declares
      <3> QED BY <3>9 DEF DeclaredBy
    <2> QED BY <2>1, <2>2
  <1> QED BY <1>2, <1>3 DEF TextOK

LEMMA LookupStep ==
    ASSUME Entered, Written, Links(stack), Lookup
    PROVE  Entered' /\ Written' /\ Links(stack)'
  <1> DEFINE x == Head(Top.todo)
  <1>1. UNCHANGED <<job, table, script>> /\ Top.todo # <<>> /\ x \in DOMAIN table
    BY DEF Lookup, Found
  <1>2. Entered' /\ Written'
    BY <1>1, NothingGrows
  <1>3. PICK s : s = stack
    OBVIOUS
  <1>4. PICK e : e = table[x]
    OBVIOUS
  <1>5. Links(s)' /\ TextOK(e)' /\ e.of = Head(s[Len(s)].todo)
    BY <1>1, <1>3, <1>4, NothingGrows, TableText DEF Top
  <1>6. Links(Given(s, e))'
    BY <1>1, <1>3, <1>5, Answered DEF Top
  <1>7. stack' = Given(s, e)
    BY <1>3, <1>4 DEF Lookup
  <1>8. PICK r : r = Given(s, e)
    OBVIOUS
  <1>9. Links(r)'
    BY <1>6, <1>8
  <1> QED BY <1>2, <1>7, <1>8, <1>9 DEF Links

\* What an item asks for is smaller, and a type if the item is not a term.
LEMMA Smaller ==
    ASSUME NEW f \in Frames, FrameOK(f), f.todo # <<>>
    PROVE  /\ Head(f.todo) \in Items
           /\ f.item # Root =>
                /\ Rank(Head(f.todo)) < Rank(f.item)
                /\ f.item \notin Terms => Head(f.todo) \in Types
  <1>1. f.todo \in Seq(Items) /\ f.got \in Seq(Texts) /\ f.item \in Items \cup {Root}
    BY DEF Frames
  <1>2. PICK a \in Nat, b \in Nat : a = Len(f.got) /\ b = Len(f.todo) /\ b >= 1
    BY <1>1
  <1>3. Head(f.todo) = f.todo[1] /\ f.todo[1] \in Items
    BY <1>1, <1>2
  <1>4. ASSUME f.item # Root
        PROVE  /\ Rank(Head(f.todo)) < Rank(f.item)
               /\ f.item \notin Terms => Head(f.todo) \in Types
    <2> DEFINE x == f.item
    <2>1. x \in Items /\ Parts(x) \in Seq(Items)
      BY <1>1, <1>4, ItemFacts
    <2>2. /\ a + b = Len(Parts(x))
          /\ \A i \in 1..b : f.todo[i] = Parts(x)[a + i]
      BY <1>2, <1>4 DEF FrameOK, PartsOf
    <2>3. Head(f.todo) = Parts(x)[a + 1]
      BY <1>2, <1>3, <2>2
    <2>4. a + 1 \in 1..Len(Parts(x))
      <3>1. \A m, n \in Nat : n >= 1 => m + 1 \in 1..(m + n)
        OBVIOUS
      <3> QED BY <3>1, <2>2, <1>2
    <2>5. a + 1 \in DOMAIN Parts(x)
      BY <2>1, <2>4
    <2>6. Rank(Head(f.todo)) < Rank(x)
      BY <2>1, <2>3, <2>5, Trees
    <2>7. x \notin Terms => Parts(x) \in Seq(Types)
      BY <2>1, PartsType DEF Items
    <2>8. x \notin Terms => Head(f.todo) \in Types
      BY <2>3, <2>4, <2>7
    <2> QED BY <2>6, <2>8
  <1> QED BY <1>3, <1>4

LEMMA DescendStep ==
    ASSUME Entered, Written, Links(stack), Descend
    PROVE  Entered' /\ Written' /\ Links(stack)'
  <1>1. UNCHANGED <<job, table, script>> /\ Top.todo # <<>> /\ Head(Top.todo) \notin DOMAIN table
    BY DEF Descend, Found
  <1>2. Entered' /\ Written'
    BY <1>1, NothingGrows
  <1>3. PICK s, x : s = stack /\ x = Head(Top.todo)
    OBVIOUS
  <1>4. /\ s \in Seq(Frames) /\ Len(s) \in Nat /\ Len(s) >= 1 /\ s[Len(s)] \in Frames /\ FrameOK(s[Len(s)])
        /\ s[Len(s)].todo # <<>> /\ x = Head(s[Len(s)].todo) /\ x \notin DOMAIN table
    BY <1>1, <1>3 DEF Links, Top
  <1>5. /\ x \in Items
        /\ s[Len(s)].item # Root =>
              /\ Rank(x) < Rank(s[Len(s)].item)
              /\ s[Len(s)].item \notin Terms => x \in Types
    BY <1>4, Smaller
  <1>6. PICK f : f = Frame(x)
    OBVIOUS
  <1>7. f = [item |-> x, number |-> NumberOf(SortOf(x)), todo |-> Parts(x), got |-> <<>>]
    BY <1>6 DEF Frame
  <1>8. f \in Frames /\ f.item = x /\ (x \in Funs => f.number = NumberOf(Funs))
    <2>1. NumberOf(SortOf(x)) \in Nat
      <3>1. IsFiniteSet(DOMAIN table)
        BY DEF Entered
      <3>2. IsFiniteSet(DOMAIN table \cap SortOf(x))
        BY <3>1, FS_Subset
      <3> QED BY <3>2, FS_CardinalityType DEF NumberOf
    <2>2. Parts(x) \in Seq(Items)
      BY <1>5, ItemFacts
    <2>3. x \in Funs => SortOf(x) = Funs
      BY ItemFacts
    <2> QED BY <1>5, <1>7, <2>1, <2>2, <2>3 DEF Frames
  <1>9. FrameOK(f)'
    <2>1. (PartsOf(f))' = Parts(x)
      BY <1>5, <1>8, SortsDisjoint DEF PartsOf
    <2>2. f.got = <<>> /\ f.todo = Parts(x) /\ Len(Parts(x)) \in Nat /\ Len(f.got) = 0
      BY <1>5, <1>7, ItemFacts
    <2> QED BY <2>1, <2>2 DEF FrameOK
  <1>10. PICK r : r = Append(s, f)
    OBVIOUS
  <1>11. /\ r \in Seq(Frames) /\ Len(r) = Len(s) + 1 /\ r[Len(s) + 1] = f
         /\ \A k \in 1..Len(s) : r[k] = s[k]
    BY <1>4, <1>8, <1>10
  <1>12. Links(s)'
    BY <1>1, <1>3, NothingGrows
  <1>13. Links(r)'
    <2>1. Len(r) >= 1 /\ r[1].item = Root
      BY <1>4, <1>11, <1>12 DEF Links
    <2>2. ASSUME NEW k \in 1..Len(r) PROVE FrameOK(r[k])'
      <3>1. CASE k = Len(s) + 1
        BY <3>1, <1>9, <1>11
      <3>2. CASE k # Len(s) + 1
        <4>1. k \in 1..Len(s)
          BY <3>2, <1>4, <1>11
        <4> QED BY <4>1, <1>11, <1>12 DEF Links
      <3> QED BY <3>1, <3>2
    <2>3. ASSUME NEW k \in 2..Len(r)
          PROVE  /\ r[k].item \in Items /\ r[k].item \notin DOMAIN table'
                 /\ r[k - 1].todo # <<>> /\ Head(r[k - 1].todo) = r[k].item
                 /\ r[k].item \in Funs => r[k].number = NumberOf(Funs)'
      <3>1. CASE k = Len(s) + 1
        <4>1. r[k] = f /\ r[k - 1] = s[Len(s)]
          BY <3>1, <1>4, <1>11
        <4>2. NumberOf(Funs)' = NumberOf(Funs) /\ DOMAIN table' = DOMAIN table
          BY <1>1 DEF NumberOf
        <4> QED BY <4>1, <4>2, <1>4, <1>5, <1>8
      <3>2. CASE k # Len(s) + 1
        <4>1. k \in 2..Len(s) /\ r[k] = s[k] /\ r[k - 1] = s[k - 1]
          BY <3>2, <1>4, <1>11
        <4> QED BY <4>1, <1>12 DEF Links
      <3> QED BY <3>1, <3>2
    <2>4. ASSUME NEW j \in 2..Len(r), NEW k \in 2..Len(r), j < k
          PROVE  /\ Rank(r[k].item) < Rank(r[j].item)
                 /\ r[j].item \notin Terms => r[k].item \in Types
      <3>1. j \in 2..Len(s) /\ r[j] = s[j]
        BY <2>4, <1>4, <1>11
      <3>2. CASE k # Len(s) + 1
        <4>1. k \in 2..Len(s) /\ r[k] = s[k]
          BY <3>2, <1>4, <1>11
        <4> QED BY <4>1, <3>1, <2>4, <1>12 DEF Links
      <3>3. CASE k = Len(s) + 1
        <4>1. r[k].item = x
          BY <3>3, <1>8, <1>11
        <4>2. s[Len(s)].item \in Items /\ s[Len(s)].item # Root
          BY <3>1, <1>4, <1>12, SortsDisjoint DEF Links
        <4>3. Rank(x) < Rank(s[Len(s)].item) /\ (s[Len(s)].item \notin Terms => x \in Types)
          BY <4>2, <1>5
        <4>4. CASE j = Len(s)
          BY <4>1, <4>3, <4>4, <3>1
        <4>5. CASE j # Len(s)
          <5>1. j < Len(s) /\ Len(s) \in 2..Len(s)
            BY <4>5, <3>1, <1>4
          <5>2. /\ Rank(s[Len(s)].item) < Rank(s[j].item)
                /\ s[j].item \notin Terms => s[Len(s)].item \in Types
            BY <5>1, <3>1, <1>12 DEF Links
          <5>3. s[j].item \in Items
            BY <3>1, <1>12 DEF Links
          <5>4. Rank(x) \in Nat /\ Rank(s[Len(s)].item) \in Nat /\ Rank(s[j].item) \in Nat
            BY <5>3, <4>2, <1>5, Trees
          <5>5. Rank(x) < Rank(s[j].item)
            BY <5>2, <5>4, <4>3
          <5>6. s[j].item \notin Terms => x \in Types
            BY <5>2, <4>3, SortsDisjoint
          <5> QED BY <5>5, <5>6, <4>1, <3>1
        <4> QED BY <4>4, <4>5
      <3> QED BY <3>2, <3>3
    <2> QED BY <1>11, <2>1, <2>2, <2>3, <2>4 DEF Links
  <1>14. stack' = r
    BY <1>3, <1>6, <1>10 DEF Descend
  <1> QED BY <1>2, <1>13, <1>14 DEF Links

LEMMA SpellStep ==
    ASSUME Entered, Written, Links(stack), Spell
    PROVE  Entered' /\ Written' /\ Links(stack)'
  <1> DEFINE x == Top.item
             t == IF Form(x) = "wrapper" THEN [Top.got[1] EXCEPT !.of = x]
                  ELSE [of |-> x, id |-> NoId, says |-> <<>>]
  <1>1. /\ UNCHANGED <<job, table, script>> /\ Top.todo = <<>> /\ x # Root /\ ~Memoised(x)
        /\ stack' = Given(Under, t)
    BY DEF Spell, Ready
  <1>2. Entered' /\ Written'
    BY <1>1, NothingGrows
  <1>3. /\ x \in Items /\ Links(Under) /\ Under[Len(Under)].todo # <<>>
        /\ Head(Under[Len(Under)].todo) = x
        /\ Len(Top.got) = Len(Parts(x)) /\ \A k \in 1..Len(Top.got) : TextOK(Top.got[k])
    BY <1>1, Innermost
  <1>4. PICK s, e : s = Under /\ e = t
    OBVIOUS
  <1>5. TextOK(e) /\ e.of = x
    <2>1. CASE Form(x) = "wrapper"
      <3>1. x \in Types
        BY <2>1, <1>3, FormsType DEF Items, TermForms
      <3>2. Len(Top.got) = 1 /\ 1 \in 1..Len(Top.got)
        <4>1. Len(Parts(x)) = 1
          BY <3>1, <2>1, PartsType
        <4> QED BY <4>1, <1>3
      <3>3. PICK g : g = Top.got[1]
        OBVIOUS
      <3>4. TextOK(g) /\ g \in Texts /\ (g.id # NoId => <<g.id, g.says>> \in DeclaredBy(Len(script)))
        BY <3>2, <3>3, <1>3 DEF TextOK
      <3>5. e = [g EXCEPT !.of = x]
        BY <3>3, <1>4, <2>1
      <3>6. e \in Texts /\ e.of = x /\ e.id = g.id /\ e.says = g.says
        BY <3>4, <3>5, <1>3 DEF Texts
      <3> QED BY <3>4, <3>6, <1>1 DEF TextOK, Covered
    <2>2. CASE Form(x) # "wrapper"
      <3>1. e = [of |-> x, id |-> NoId, says |-> <<>>]
        BY <2>2, <1>4
      <3>2. e \in Texts /\ e.of = x /\ e.id = NoId
        BY <3>1, <1>3 DEF Texts, Ids, Sayings
      <3> QED BY <3>2, <1>1 DEF TextOK, Covered
    <2> QED BY <2>1, <2>2
  <1>6. Links(s)' /\ TextOK(e)'
    BY <1>1, <1>3, <1>4, <1>5, NothingGrows
  <1>7. Links(Given(s, e))'
    BY <1>3, <1>4, <1>5, <1>6, Answered
  <1>8. PICK r : r = Given(s, e)
    OBVIOUS
  <1>9. Links(r)' /\ stack' = r
    BY <1>1, <1>4, <1>7, <1>8
  <1> QED BY <1>2, <1>9 DEF Links

\* The end of a call, in an error or with the asserts.
LEMMA EndStep ==
    ASSUME Entered, Written, Links(stack), Throw \/ AssertAll
    PROVE  Entered' /\ Written' /\ Links(stack)'
  <1>1. UNCHANGED <<job, table, script, stack>>
    BY DEF Throw, AssertAll
  <1>2. PICK s : s = stack
    OBVIOUS
  <1>3. Entered' /\ Written' /\ Links(s)'
    BY <1>1, <1>2, NothingGrows
  <1> QED BY <1>1, <1>2, <1>3 DEF Links

\* A type that was encoded and has a name is in the script under this name.
LEMMA TypeNamed ==
    ASSUME Entered, Written, NEW y \in Types, Memoised(y), Covered(y)
    PROVE  /\ y \in DOMAIN table /\ table[y].id \in OwnIds
           /\ \E j \in 1..Len(script) : script[j].of = y /\ script[j].id = table[y].id
           /\ Form(y) = "ext" => table[y].id = NameOf(y, 0)
           /\ Form(y) \in {"entity", "record"} =>
                 table[y].id[1] \in {"E", "R"} /\ table[y].id[2] \in Nat
  <1>1. y \in DOMAIN table /\ ~IsMember(y)
    BY ItemFacts DEF Covered, IsMember
  <1>2. PICK j \in 1..Len(script) : script[j].of = y /\ script[j].id = table[y].id
    BY <1>1 DEF Entered, EntryOK, Named
  <1>3. script[j].id \in OwnIds
    BY OwnNames
  <1>4. NumberedOK(script[j])
    BY DEF Written, CommandOK
  <1>5. Form(y) = "ext" => table[y].id = NameOf(y, 0)
    BY <1>2, <1>4 DEF NumberedOK, NameOf
  <1>6. ASSUME Form(y) \in {"entity", "record"}
        PROVE  table[y].id[1] \in {"E", "R"} /\ table[y].id[2] \in Nat
    <2>1. script[j].id[1] = Letter(y) /\ script[j].id[2] \in Nat
      BY <1>2, <1>4, <1>6 DEF NumberedOK
    <2> QED BY <2>1, <1>2, <1>6 DEF Letter
  <1> QED BY <1>1, <1>2, <1>3, <1>5, <1>6

\* The types of a term's parts are encoded with them.
LEMMA PartTypes ==
    ASSUME Entered, NEW x \in Terms, \A k \in 1..Len(Parts(x)) : Covered(Parts(x)[k]),
           NEW k \in 1..Len(Parts(x)), Parts(x)[k] \in Terms, Form(TypeOf(Parts(x)[k])) # "builtin"
    PROVE  Covered(TypeOf(Parts(x)[k]))
  <1> DEFINE p == Parts(x)[k]
  <1>1. Form(p) # "literal" /\ Form(p) \in TermForms
    BY WellFormed, FormsType
  <1>2. Memoised(p)
    BY <1>1 DEF Memoised, TermForms
  <1>3. p \in DOMAIN table
    BY <1>2 DEF Covered
  <1>4. EntryOK(p)
    BY <1>3 DEF Entered
  <1>5. 1 \in 1..Len(Parts(p)) /\ TypeOf(p) = Parts(p)[1]
    BY ItemFacts DEF TypeOf, Items
  <1> QED BY <1>4, <1>5 DEF EntryOK

\* A step that remembers a text for the innermost item.
LEMMA RememberStep ==
    ASSUME Entered, Written, Links(stack), Ready, NEW x, x = Top.item, NEW e, Remember(e),
           Grows(x), TextOK(e)', e.of = x, EntryOK(x)'
    PROVE  Entered' /\ Links(stack)'
  <1>1. PICK s : s = Under
    OBVIOUS
  <1>2. /\ Grows(x) /\ Links(s) /\ s[Len(s)].todo # <<>> /\ Head(s[Len(s)].todo) = x
        /\ \A k \in 2..Len(s) : s[k].item # x /\ (s[k].item \in Funs => x \notin Funs)
    BY <1>1, Innermost DEF Ready
  <1>3. Entered'
    <2>1. IsFiniteSet(DOMAIN table')
      BY <1>2, Growth
    <2>2. ASSUME NEW y \in DOMAIN table' PROVE EntryOK(y)'
      <3>1. CASE y = x
        BY <3>1
      <3>2. CASE y # x
        <4>1. y \in DOMAIN table
          BY <3>2, <1>2 DEF Grows
        <4> QED BY <4>1, <1>2, EntryStays DEF Entered
      <3> QED BY <3>1, <3>2
    <2> QED BY <2>1, <2>2 DEF Entered
  <1>4. Links(s)'
    BY <1>2, FramesStay
  <1>5. Links(Given(s, e))'
    BY <1>1, <1>2, <1>4, Answered
  <1>6. PICK r : r = Given(s, e)
    OBVIOUS
  <1>7. Links(r)' /\ stack' = r
    BY <1>1, <1>5, <1>6 DEF Remember
  <1> QED BY <1>3, <1>7 DEF Links

\* How the tables grow in such a step.
LEMMA RememberGrows ==
    ASSUME Entered, Written, Links(stack), Ready, NEW x, x = Top.item, NEW e, Remember(e),
           Len(script') \in Nat, Len(script) <= Len(script'),
           \A i \in 1..Len(script) : script'[i] = script[i]
    PROVE  Grows(x) /\ table'[x] = e /\ x \in DOMAIN table' /\ x \in Items
  <1>1. x \in Items /\ x \notin DOMAIN table
    BY Innermost DEF Ready
  <1>2. table' = [y \in DOMAIN table \cup {x} |-> IF y = x THEN e ELSE table[y]] /\ job' = job
    BY DEF Remember
  <1>3. IsFiniteSet(DOMAIN table) /\ Len(script) \in Nat
    BY DEF Entered, Written
  <1> QED BY <1>1, <1>2, <1>3 DEF Grows

LEMMA NameMemberStep ==
    ASSUME job \in Jobs, Entered, Written, Links(stack), NameMember
    PROVE  Entered' /\ Written' /\ Links(stack)'
  <1>1. PICK x : x = Top.item
    OBVIOUS
  <1>2. Ready /\ IsMember(x) /\ script' = script
    BY <1>1 DEF NameMember
  <1>3. PICK y : y = TypeOf(x)
    OBVIOUS
  <1>4. PICK i \in DOMAIN job.members[y] :
           /\ IsIndex(i, x)
           /\ Remember([of |-> x, id |-> PartName(Top.got[1].id, i), says |-> Piece(y, Eid(x))])
    BY <1>1, <1>3 DEF NameMember
  <1>5. PICK e : e = [of |-> x, id |-> PartName(Top.got[1].id, i), says |-> Piece(y, Eid(x))]
    OBVIOUS
  <1>6. Remember(e)
    BY <1>4, <1>5
  <1>7. Len(script) \in Nat /\ Len(script') \in Nat /\ Len(script) <= Len(script')
    BY <1>2 DEF Written
  <1>8. Grows(x) /\ table'[x] = e /\ x \in DOMAIN table' /\ x \in Items
    BY <1>1, <1>2, <1>6, <1>7, RememberGrows
  <1>9. x \in Terms /\ Form(x) = "euid" /\ y \in DOMAIN job.members
    BY <1>2, <1>3 DEF IsMember
  <1>10. y = Parts(x)[1] /\ Len(Parts(x)) = 1 /\ Form(y) = "entity" /\ y \in Types /\ y \in Items
    BY <1>3, <1>9, WellFormed, ItemFacts DEF TypeOf, Items
  <1>11. Memoised(x) /\ Memoised(y)
    BY <1>9, <1>10 DEF Memoised
  <1>12. Len(Top.got) = 1 /\ TextOK(Top.got[1]) /\ Top.got[1].of = y
    <2>1. /\ Len(Top.got) = Len(Parts(x))
          /\ \A k \in 1..Len(Top.got) : TextOK(Top.got[k]) /\ Top.got[k].of = Parts(x)[k]
      BY <1>1, <1>2, Innermost DEF Ready
    <2>2. 1 \in 1..Len(Top.got)
      BY <2>1, <1>10
    <2> QED BY <2>1, <2>2, <1>10
  <1>13. Covered(y) /\ Top.got[1] = table[y]
    BY <1>11, <1>12 DEF TextOK
  <1>14. /\ y \in DOMAIN table /\ table[y].id[1] \in {"E", "R"} /\ table[y].id[2] \in Nat
         /\ \E j \in 1..Len(script) : script[j].of = y /\ script[j].id = table[y].id
    BY <1>10, <1>11, <1>13, TypeNamed
  <1>15. PICK j \in 1..Len(script) : script[j].of = y /\ script[j].id = table[y].id
    BY <1>14
  <1>16. i \in Nat /\ job.members[y][i] = Eid(x)
    <2>1. PICK m : m = job.members[y]
      OBVIOUS
    <2>2. m \in Seq({m[k] : k \in DOMAIN m})
      BY <1>9, <2>1, JobsType
    <2>3. i \in Nat
      BY <1>4, <2>1, <2>2
    <2>4. job.members[y][i] = Eid(x)
      BY <1>3, <1>4 DEF IsIndex
    <2> QED BY <2>3, <2>4
  <1>17. e.id = PartName(table[y].id, i) /\ e.of = x /\ e.says = Piece(y, Eid(x))
    BY <1>5, <1>13
  <1>18. <<e.id, e.says>> \in DeclaredBy(Len(script))
    <2>1. Components(y) = job.members[y]
      BY <1>9 DEF Components
    <2>2. <<e.id, e.says>> \in Declares(script[j])
      BY <2>1, <1>4, <1>15, <1>16, <1>17 DEF Declares
    <2> QED BY <2>2 DEF DeclaredBy
  <1>19. e \in Texts /\ e.id # NoId
    <2>1. e.id = <<table[y].id[1], table[y].id[2], i>>
      BY <1>17 DEF PartName
    <2>2. e.id \in {"E", "R"} \X Nat \X Nat
      BY <2>1, <1>14, <1>16
    <2>3. e.id # <<>>
      BY <2>1
    <2>4. e.says \in Sayings
      BY <1>3, <1>9, <1>17 DEF Sayings
    <2> QED BY <2>2, <2>3, <2>4, <1>5, <1>8 DEF Texts, Ids, NoId
  <1>20. TextOK(e)'
    <2>1. <<e.id, e.says>> \in DeclaredBy(Len(script))'
      BY <1>8, <1>18, Growth
    <2> QED BY <2>1, <1>8, <1>17, <1>19 DEF TextOK, Covered
  <1>21. EntryOK(x)'
    <2>1. \A k \in 1..Len(Parts(x)) : Covered(Parts(x)[k])'
      <3>1. Covered(y)'
        BY <1>8, <1>13, Growth
      <3> QED BY <3>1, <1>10
    <2>2. IsMember(x)' /\ IsIndex(i, x)' /\ job' = job /\ table'[y] = table[y]
      BY <1>2, <1>4, <1>8, <1>14 DEF IsMember, IsIndex, Grows
    <2>3. \E k \in DOMAIN job'.members[TypeOf(x)] :
             IsIndex(k, x)' /\ table'[x].id = PartName(table'[TypeOf(x)].id, k)
      BY <2>2, <1>3, <1>4, <1>8, <1>17
    <2> QED BY <2>1, <2>2, <2>3, <1>3, <1>8, <1>11, <1>17, <1>19 DEF EntryOK
  <1>22. Entered' /\ Links(stack)'
    BY <1>1, <1>2, <1>6, <1>8, <1>17, <1>20, <1>21, RememberStep
  <1>23. Written'
    <2>1. ASSUME NEW k \in 1..Len(script) PROVE CommandOK(script[k], k)'
      <3>1. PICK c : c = script[k] /\ c = script'[k]
        BY <1>2
      <3>2. CommandOK(c, k)'
        BY <3>1, <1>8, CommandStays DEF Written
      <3> QED BY <3>1, <3>2 DEF CommandOK
    <2> QED BY <2>1, <1>2 DEF Written, Differ
  <1> QED BY <1>22, <1>23

\* The names a definition mentions besides its parts' were declared.
LEMMA AlsoDeclared ==
    ASSUME job \in Jobs, Entered, Written, NEW x \in Items, ~Throws(x),
           \A k \in 1..Len(Parts(x)) : Covered(Parts(x)[k])
    PROVE  Also(x) \subseteq DeclaredBy(Len(script))
  <1>1. CASE x \notin Terms
    BY <1>1 DEF Also
  <1>2. CASE x \in Terms /\ Form(x) = "get"
    <2> DEFINE y == RecordOf(x)
    <2>1. /\ Len(Parts(x)) = 2 /\ Parts(x)[2] \in Terms /\ y = TypeOf(Parts(x)[2])
          /\ Form(y) = "record" /\ y \in Types /\ Field(x) \in DOMAIN Parts(y)
      BY <1>2, WellFormed, ItemFacts DEF RecordOf, Throws
    <2> HIDE DEF y
    <2>2. Covered(y)
      BY <1>2, <2>1, PartTypes
    <2>3. PICK j \in 1..Len(script) : script[j].of = y /\ script[j].id = table[y].id
      BY <2>1, <2>2, TypeNamed DEF Memoised
    <2>4. \A z \in DOMAIN job.members : Form(z) = "entity"
      BY JobsType
    <2>5. Components(y) = [k \in DOMAIN Parts(y) |-> k]
      BY <2>1, <2>4 DEF Components
    <2>6. <<PartName(table[y].id, Field(x)), Piece(y, Field(x))>> \in Declares(script[j])
      BY <2>1, <2>3, <2>5 DEF Declares
    <2>7. Also(x) = {<<PartName(table[y].id, Field(x)), Piece(y, Field(x))>>}
      BY <1>2 DEF Also, y
    <2> QED BY <2>6, <2>7 DEF DeclaredBy
  <1>3. CASE x \in Terms /\ Form(x) # "get"
    <2>1. ASSUME NEW y \in Needs(x) PROVE <<NameOf(y, 0), Whole(y)>> \in DeclaredBy(Len(script))
      <3>1. /\ y \in Types /\ Form(y) = "ext"
            /\ \/ y = TypeOf(x)
               \/ \E i \in DOMAIN Parts(x) : Parts(x)[i] \in Terms /\ TypeOf(Parts(x)[i]) = y
        BY <1>3, <2>1, WellFormed
      <3>2. Parts(x) \in Seq(Items) /\ Len(Parts(x)) >= 1
        BY <1>3, ItemFacts
      <3>3. Covered(y)
        <4>1. CASE y = TypeOf(x)
          <5>1. 1 \in 1..Len(Parts(x))
            BY <3>2
          <5> QED BY <4>1, <5>1 DEF TypeOf
        <4>2. CASE \E i \in DOMAIN Parts(x) : Parts(x)[i] \in Terms /\ TypeOf(Parts(x)[i]) = y
          <5>1. PICK i \in 1..Len(Parts(x)) : Parts(x)[i] \in Terms /\ TypeOf(Parts(x)[i]) = y
            BY <4>2, <3>2
          <5> QED BY <5>1, <3>1, <1>3, PartTypes
        <4> QED BY <3>1, <4>1, <4>2
      <3>4. PICK j \in 1..Len(script) : script[j].of = y /\ script[j].id = NameOf(y, 0)
        BY <3>1, <3>3, TypeNamed DEF Memoised
      <3>5. <<NameOf(y, 0), Whole(y)>> \in Declares(script[j])
        BY <3>4 DEF Declares
      <3> QED BY <3>5 DEF DeclaredBy
    <2>2. Also(x) = {<<NameOf(y, 0), Whole(y)>> : y \in Needs(x)}
      BY <1>3 DEF Also
    <2> QED BY <2>1, <2>2
  <1> QED BY <1>1, <1>2, <1>3

\* The number that a new name gets.
LEMMA NumberTaken ==
    ASSUME Links(stack), Ready
    PROVE  Number(Top) = NumberOf(SortOf(Top.item))
  <1>1. Top.item \in Funs => SortOf(Top.item) = Funs /\ Top.number = NumberOf(Funs)
    BY Innermost, ItemFacts DEF Ready
  <1> QED BY <1>1 DEF Number

LEMMA DefineStep ==
    ASSUME job \in Jobs, Entered, Written, Links(stack), Define
    PROVE  Entered' /\ Written' /\ Links(stack)'
  <1>1. PICK x, id : x = Top.item /\ id = NameOf(x, Number(Top))
    OBVIOUS
  <1>2. PICK c, e : /\ c = [of |-> x, id |-> id, args |-> Top.got, also |-> Also(x)]
                    /\ e = [of |-> x, id |-> id, says |-> Whole(x)]
    OBVIOUS
  <1>3. /\ Ready /\ Memoised(x) /\ ~IsMember(x) /\ ~Throws(x)
        /\ script' = Append(script, c) /\ Remember(e)
    BY <1>1, <1>2 DEF Define
  <1>4. PICK n \in Nat : n = Len(script)
    BY DEF Written
  <1>5. /\ Len(script') = n + 1 /\ script'[n + 1] = c
        /\ \A i \in 1..n : script'[i] = script[i]
        /\ DOMAIN script' = 1..(n + 1) /\ IsScript(script')
    <2>1. PICK S : S = {script[i] : i \in 1..n} \cup {c}
      OBVIOUS
    <2>2. script \in [1..n -> S]
      BY <1>4, <2>1 DEF Written, IsScript
    <2>3. script \in Seq(S) /\ c \in S
      BY <2>1, <2>2, SeqDef
    <2>4. /\ script' \in Seq(S) /\ Len(script') = n + 1 /\ script'[n + 1] = c
          /\ \A i \in 1..n : script'[i] = script[i]
      BY <1>3, <1>4, <2>3, AppendProperties
    <2>5. script' \in [1..(n + 1) -> S]
      BY <2>4, LenProperties
    <2>6. DOMAIN script' = 1..(n + 1) /\ IsScript(script')
      BY <2>5 DEF IsScript
    <2> QED BY <2>4, <2>6
  <1>6. Grows(x) /\ table'[x] = e /\ x \in DOMAIN table' /\ x \in Items
    BY <1>1, <1>3, <1>4, <1>5, RememberGrows
  <1>7. /\ Top.got \in Seq(Texts) /\ Len(Top.got) = Len(Parts(x))
        /\ \A k \in 1..Len(Top.got) : TextOK(Top.got[k]) /\ Top.got[k].of = Parts(x)[k]
    BY <1>1, <1>3, Innermost DEF Ready
  <1>8. \A k \in 1..Len(Parts(x)) : Covered(Parts(x)[k])
    BY <1>7 DEF TextOK
  <1>9. PICK m : m = NumberOf(SortOf(x))
    OBVIOUS
  <1>10. m \in Nat /\ NumberOf(SortOf(x))' = m + 1 /\ id = NameOf(x, m)
    <2>1. x \in SortOf(x)
      BY <1>6, ItemFacts DEF Items
    <2>2. PICK S : S = SortOf(x)
      OBVIOUS
    <2>3. NumberOf(S) \in Nat /\ NumberOf(S)' = NumberOf(S) + 1
      BY <1>6, <2>1, <2>2, Growth
    <2>4. id = NameOf(x, m)
      BY <1>1, <1>3, <1>9, NumberTaken
    <2> QED BY <1>9, <2>2, <2>3, <2>4
  <1>11. id \in OwnIds /\ id # NoId
    <2>1. CASE Form(x) = "ext"
      <3>1. x \in Types
        BY <2>1, <1>6, FormsType DEF Items, TermForms
      <3>2. id = <<"ext", x>>
        BY <2>1, <1>10 DEF NameOf
      <3> QED BY <3>1, <3>2 DEF OwnIds, NoId
    <2>2. CASE Form(x) # "ext"
      <3>1. PICK l \in {"E", "R", "f", "t"} : l = Letter(x)
        BY DEF Letter
      <3>2. id = <<l, m>>
        BY <2>2, <3>1, <1>10 DEF NameOf
      <3>3. id \in {"E", "R", "f", "t"} \X Nat
        BY <3>2, <1>10
      <3> QED BY <3>2, <3>3 DEF OwnIds, NoId
    <2> QED BY <2>1, <2>2
  <1>12. Mentions(c) \subseteq DeclaredBy(n)
    <2>1. \A k \in DOMAIN c.args : c.args[k].id # NoId => <<c.args[k].id, c.args[k].says>> \in DeclaredBy(n)
      BY <1>2, <1>4, <1>7 DEF TextOK
    <2>2. c.also \subseteq DeclaredBy(n)
      BY <1>2, <1>3, <1>4, <1>6, <1>8, AlsoDeclared
    <2> QED BY <2>1, <2>2 DEF Mentions
  <1>13. IsMember(x)' = IsMember(x)
    BY <1>6 DEF IsMember, Grows
  <1>14. NumberedOK(c)'
    <2>1. CASE Form(x) = "ext"
      BY <2>1, <1>2, <1>10 DEF NumberedOK, NameOf
    <2>2. CASE Form(x) # "ext"
      <3>1. id = <<Letter(x), m>>
        BY <2>2, <1>10 DEF NameOf
      <3>2. id = <<Letter(x), id[2]>> /\ id[2] \in Nat /\ id[2] < m + 1
        BY <3>1, <1>10
      <3> QED BY <3>2, <2>2, <1>2, <1>10 DEF NumberedOK
    <2> QED BY <2>1, <2>2
  <1>15. PICK n1 : n1 = n + 1
    OBVIOUS
  <1>16. CommandOK(c, n1)'
    <2>1. n1 - 1 = n
      BY <1>15
    <2>2. DeclaredBy(n)' = DeclaredBy(n)
      BY <1>4, <1>6, Growth
    <2>3. DeclaredBy(n1 - 1)' = DeclaredBy(n)
      BY <2>1, <2>2
    <2> QED BY <2>3, <1>2, <1>3, <1>6, <1>7, <1>12, <1>13, <1>14 DEF CommandOK, Mentions
  <1>17. \A i \in 1..n : /\ CommandOK(script[i], i) /\ script[i].of \in DOMAIN table
                         /\ NumberedOK(script[i])
    BY <1>4 DEF Written, CommandOK
  <1>18. \A i \in 1..n : Differ(script[i], c) /\ Differ(c, script[i])
    <2> SUFFICES ASSUME NEW i \in 1..n PROVE Differ(script[i], c) /\ Differ(c, script[i])
      OBVIOUS
    <2>1. script[i].of # x
      BY <1>6, <1>17 DEF Grows
    <2>2. ASSUME SortOf(script[i].of) = SortOf(x), Form(script[i].of) # "ext", Form(x) # "ext"
          PROVE  script[i].id[2] # c.id[2]
      <3>1. c.id[2] = m
        BY <2>2, <1>2, <1>10 DEF NameOf
      <3>2. script[i].id[2] \in Nat /\ script[i].id[2] < m
        BY <2>2, <1>9, <1>17 DEF NumberedOK
      <3> QED BY <3>1, <3>2, <1>10
    <2> QED BY <2>1, <2>2, <1>2 DEF Differ
  <1>19. Written'
    <2>1. ASSUME NEW i \in 1..(n + 1), NEW d, d = script'[i] PROVE CommandOK(d, i)'
      <3>1. CASE i = n + 1
        BY <3>1, <2>1, <1>5, <1>15, <1>16
      <3>2. CASE i # n + 1
        <4>1. i \in 1..n /\ d = script[i]
          BY <3>2, <2>1, <1>4, <1>5
        <4>2. CommandOK(d, i)
          BY <4>1, <1>17
        <4> QED BY <4>1, <4>2, <1>4, <1>6, CommandStays
      <3> QED BY <3>1, <3>2
    <2>2. \A i \in 1..(n + 1) : i \in 1..n \/ i = n + 1
      BY <1>4
    <2>3. \A i, j \in 1..n : i # j => Differ(script[i], script[j])
      BY <1>4 DEF Written
    <2>4. \A i, j \in 1..(n + 1) : i # j => Differ(script'[i], script'[j])
      BY <2>2, <2>3, <1>5, <1>18
    <2>5. \A i, j \in 1..(n + 1) : i # j => Differ(script[i], script[j])'
      BY <2>4 DEF Differ
    <2>6. \A i \in 1..(n + 1) : CommandOK(script[i], i)'
      BY <2>1 DEF CommandOK
    <2>7. n + 1 \in Nat
      OBVIOUS
    <2>8. /\ Len(script') \in Nat /\ DOMAIN script' = 1..Len(script')
          /\ IsScript(script')
      BY <2>7, <1>5
    <2>9. /\ \A i \in 1..Len(script') : CommandOK(script[i], i)'
          /\ \A i, j \in 1..Len(script') : i # j => Differ(script[i], script[j])'
      BY <2>5, <2>6, <1>5
    <2> QED BY <2>8, <2>9 DEF Written
  <1>20. e \in Texts /\ e.of = x /\ e.id = id /\ e.says = Whole(x)
    BY <1>2, <1>6, <1>11 DEF Texts, Ids, Sayings
  <1>21. TextOK(e)'
    <2>1. <<e.id, e.says>> \in Declares(c)'
      BY <1>2, <1>20 DEF Declares
    <2>2. <<e.id, e.says>> \in DeclaredBy(Len(script))'
      <3>1. n + 1 \in 1..(n + 1)
        BY <1>4
      <3>2. Declares(script[n + 1])' = Declares(c)'
        BY <1>5 DEF Declares
      <3> QED BY <2>1, <3>1, <3>2, <1>5 DEF DeclaredBy
    <2> QED BY <2>2, <1>6, <1>20 DEF TextOK, Covered
  <1>22. EntryOK(x)'
    <2>1. \A k \in 1..Len(Parts(x)) : Covered(Parts(x)[k])'
      BY <1>6, <1>8, Growth
    <2>2. Named(x)'
      <3>1. n + 1 \in 1..Len(script') /\ script'[n + 1].of = x /\ script'[n + 1].id = table'[x].id
        BY <1>2, <1>4, <1>5, <1>6, <1>20
      <3> QED BY <3>1 DEF Named
    <2> QED BY <2>1, <2>2, <1>3, <1>6, <1>11, <1>13, <1>20 DEF EntryOK
  <1>23. Entered' /\ Links(stack)'
    BY <1>1, <1>3, <1>6, <1>20, <1>21, <1>22, RememberStep
  <1> QED BY <1>19, <1>23

-----------------------------------------------------------------------------
(* The theorems. *)

\* The end of encode: the texts of the asserts are asserted.
LEMMA AssertStep ==
    ASSUME job \in Jobs, Links(stack), AssertAll
    PROVE  AssertedRight'
  <1>1. stack \in Seq(Frames) /\ Len(stack) >= 1 /\ Top \in Frames /\ FrameOK(Top)
    BY DEF Links, Top
  <1>2. Top.todo = <<>> /\ Top.item = Root /\ asserted' = Top.got
        /\ UNCHANGED <<job, script>>
    BY DEF AssertAll
  <1>3. PICK g \in Seq(Texts) : g = Top.got
    BY <1>1 DEF Frames
  <1>4. Len(g) = Len(job.asserts) /\ \A k \in 1..Len(g) : TextOK(g[k]) /\ g[k].of = job.asserts[k]
    <2>1. PartsOf(Top) = job.asserts /\ Len(Top.todo) = 0
      BY <1>2 DEF PartsOf
    <2>2. Len(g) + 0 = Len(job.asserts)
      BY <2>1, <1>1, <1>3 DEF FrameOK
    <2>3. Len(g) \in Nat
      BY <1>3
    <2> QED BY <2>1, <2>2, <2>3, <1>1, <1>3 DEF FrameOK
  <1>5. \A n : DeclaredBy(n)' = DeclaredBy(n)
    BY <1>2 DEF DeclaredBy, Declares, Components
  <1>6. \A k \in DOMAIN g :
           /\ g[k].of = job.asserts[k]
           /\ g[k].id # NoId => <<g[k].id, g[k].says>> \in DeclaredBy(Len(script))'
    <2>1. DeclaredBy(Len(script))' = DeclaredBy(Len(script))
      BY <1>2 DEF DeclaredBy, Declares, Components
    <2>2. DOMAIN g = 1..Len(g)
      BY <1>3
    <2> QED BY <2>1, <2>2, <1>4 DEF TextOK
  <1>7. asserted' = g /\ job' = job
    BY <1>2, <1>3
  <1> QED BY <1>4, <1>6, <1>7 DEF AssertedRight

\* Before the first call nothing is encoded.
LEMMA EncoderStarts ==
    ASSUME EncoderInit
    PROVE  EncoderInv
  <1>1. /\ encoding = "idle" /\ job \in Jobs /\ calls = 0 /\ stack = <<>> /\ script = <<>>
        /\ DOMAIN table = {}
    BY DEF EncoderInit
  <1>2. Entered
    BY <1>1, FS_EmptySet DEF Entered
  <1>3. Written
    BY <1>1 DEF Written, IsScript
  <1>4. AssertedRight
    BY <1>1 DEF AssertedRight
  <1> QED BY <1>1, <1>2, <1>3, <1>4, CallsType DEF EncoderInv

\* Every step of a call keeps the encoder's invariant.
LEMMA EncoderStep ==
    ASSUME EncoderInv, [EncoderNext]_encoderVars
    PROVE  EncoderInv'
  <1>1. job \in Jobs /\ Entered /\ Written /\ calls \in 0..MaxCalls
    BY DEF EncoderInv
  <1>2. CASE BeginEncode
    <2>1. job' \in Jobs /\ encoding' = "running" /\ Entered' /\ Written' /\ Links(stack)'
      BY <1>2, BeginStep
    <2>2. calls' \in 0..MaxCalls
      BY <1>1, <1>2, CallsType DEF BeginEncode
    <2> QED BY <2>1, <2>2 DEF EncoderInv, AssertedRight
  <1>3. CASE EncodeStep
    <2>1. encoding = "running" /\ Links(stack)
      BY <1>3 DEF EncoderInv, EncodeStep, Lookup, Descend, Spell, NameMember, Define, Throw,
                  AssertAll, Ready
    <2>2. Entered' /\ Written' /\ Links(stack)'
      BY <1>1, <1>3, <2>1, LookupStep, DescendStep, SpellStep, NameMemberStep, DefineStep, EndStep
         DEF EncodeStep
    <2>3. job' = job /\ calls' = calls
      BY <1>3 DEF EncodeStep, Lookup, Descend, Spell, NameMember, Define, Throw, AssertAll, Remember
    <2>4. encoding' \in {"running", "encoded", "failed"} /\ AssertedRight'
      <3>1. CASE AssertAll
        BY <3>1, <1>1, <2>1, AssertStep DEF AssertAll
      <3>2. CASE ~AssertAll
        <4>1. encoding' \in {"running", "failed"}
          BY <3>2, <1>3, <2>1 DEF EncodeStep, Lookup, Descend, Spell, NameMember, Define, Throw, Remember
        <4> QED BY <4>1 DEF AssertedRight
      <3> QED BY <3>1, <3>2
    <2> QED BY <1>1, <2>2, <2>3, <2>4 DEF EncoderInv
  <1>4. CASE UNCHANGED encoderVars
    <2>1. PICK s : s = stack
      OBVIOUS
    <2>2. UNCHANGED <<job, table, script>> /\ UNCHANGED <<encoding, stack, asserted, calls>>
      BY <1>4 DEF encoderVars
    <2>3. Entered' /\ Written' /\ (Links(s) => Links(s)')
      BY <1>1, <2>2, NothingGrows
    <2>4. Links(stack) => Links(stack)'
      BY <2>1, <2>2, <2>3 DEF Links
    <2>5. AssertedRight'
      <3>1. AssertedRight
        BY DEF EncoderInv
      <3>2. DeclaredBy(Len(script))' = DeclaredBy(Len(script))
        BY <2>2 DEF DeclaredBy, Declares, Components
      <3> QED BY <2>2, <3>1, <3>2 DEF AssertedRight
    <2> QED BY <1>1, <2>2, <2>3, <2>4, <2>5 DEF EncoderInv
  <1> QED BY <1>2, <1>3, <1>4 DEF EncoderNext, Done

\* The inductive invariant.
THEOREM EncoderInvariant == EncoderSpec => []EncoderInv
  BY EncoderStarts, EncoderStep, PTL DEF EncoderSpec

\* What encode keeps is of its types: only what has a name is in the tables.
LEMMA EncoderTyped == EncoderInv => EncoderTypes
  <1> SUFFICES ASSUME EncoderInv PROVE EncoderTypes
    OBVIOUS
  <1>1. \A x \in DOMAIN table : x \in Items /\ Form(x) \notin {"builtin", "wrapper", "literal"}
    BY DEF EncoderInv, Entered, EntryOK, Memoised
  <1>2. \A i \in DOMAIN stack : stack[i].item \in IF i = 1 THEN {Root} ELSE Items
    <2>1. CASE encoding = "idle"
      BY <2>1 DEF EncoderInv
    <2>2. CASE encoding # "idle"
      <3>1. Links(stack)
        BY <2>2 DEF EncoderInv
      <3>2. stack \in Seq(Frames)
        BY <3>1 DEF Links
      <3>3. DOMAIN stack = 1..Len(stack) /\ Len(stack) \in Nat
        BY <3>2
      <3>4. \A i \in 1..Len(stack) : i # 1 => i \in 2..Len(stack)
        BY <3>3
      <3> QED BY <3>1, <3>3, <3>4 DEF Links
    <2> QED BY <2>1, <2>2
  <1>3. \A i \in DOMAIN script : script[i].of \in Items
    BY OwnNames DEF EncoderInv, Written
  <1> QED BY <1>1, <1>2, <1>3 DEF EncoderInv, EncoderTypes

\* Each item is encoded once and no name is declared twice, however types, terms and functions
\* share their parts.
LEMMA EachDefinedOnce == EncoderInv => DefinedOnce
  BY OneMeaning DEF EncoderInv

\* No command speaks of a name that was not declared before it in the same script.
LEMMA DeclaredFirst == EncoderInv => DeclaredBeforeUse
  <1> SUFFICES ASSUME EncoderInv, NEW i \in DOMAIN script
               PROVE  /\ Len(script[i].args) = Len(Parts(script[i].of))
                      /\ \A k \in DOMAIN script[i].args :
                            script[i].args[k].of = Parts(script[i].of)[k]
                      /\ Mentions(script[i]) \subseteq DeclaredBy(i - 1)
    BY DEF DeclaredBeforeUse
  <1>1. CommandOK(script[i], i)
    BY DEF EncoderInv, Written
  <1>2. PICK c : c = script[i]
    OBVIOUS
  <1>3. CommandOK(c, i)
    BY <1>1, <1>2
  <1>4. DOMAIN c.args = 1..Len(c.args)
    BY <1>3 DEF CommandOK
  <1>5. /\ Len(c.args) = Len(Parts(c.of)) /\ Mentions(c) \subseteq DeclaredBy(i - 1)
        /\ \A k \in DOMAIN c.args : c.args[k].of = Parts(c.of)[k]
    BY <1>3, <1>4 DEF CommandOK
  <1> QED BY <1>2, <1>5

\* The solver is given the asserts that encode was called with.
LEMMA RightAsserts == EncoderInv => AssertedRight
  BY DEF EncoderInv

\* A name in a model is read for what it was declared for.
LEMMA ModelReadBack == EncoderInv => DecoderReadsBack
  <1> SUFFICES ASSUME EncoderInv PROVE DecoderReadsBack
    OBVIOUS
  <1>1. Entered /\ Written /\ job \in Jobs
    BY DEF EncoderInv
  <1>2. ASSUME NEW x \in DOMAIN table, ~IsMember(x)
        PROVE  <<table[x].id, Whole(x)>> \in DeclaredBy(Len(script))
    <2>1. PICK i \in 1..Len(script) : script[i].of = x /\ script[i].id = table[x].id
      BY <1>1, <1>2 DEF Entered, EntryOK, Named
    <2>2. <<table[x].id, Whole(x)>> \in Declares(script[i])
      BY <2>1 DEF Declares
    <2> QED BY <2>2 DEF DeclaredBy
  <1>3. \A x \in Types \cup Vars \cup Funs : ~IsMember(x)
    BY SortsDisjoint DEF Vars, IsMember
  <1>4. IdMap(Types) \cup IdMap(Vars) \cup IdMap(Funs) \subseteq DeclaredBy(Len(script))
    BY <1>2, <1>3 DEF IdMap
  <1>5. EnumMap \subseteq DeclaredBy(Len(script))
    <2>1. ASSUME NEW y \in DOMAIN job.members \cap DOMAIN table, NEW i \in DOMAIN job.members[y]
          PROVE  <<PartName(table[y].id, i), Piece(y, job.members[y][i])>> \in DeclaredBy(Len(script))
      <3>1. y \in Types
        BY <1>1, JobsType
      <3>2. PICK j \in 1..Len(script) : script[j].of = y /\ script[j].id = table[y].id
        BY <1>1, <1>3, <3>1 DEF Entered, EntryOK, Named
      <3>3. Components(y) = job.members[y]
        BY DEF Components
      <3>4. <<PartName(table[y].id, i), Piece(y, job.members[y][i])>> \in Declares(script[j])
        BY <3>2, <3>3 DEF Declares
      <3> QED BY <3>4 DEF DeclaredBy
    <2> QED BY <2>1 DEF EnumMap
  <1>6. IdMaps \subseteq DeclaredBy(Len(script))
    BY <1>4, <1>5 DEF IdMaps
  <1>7. \A m, n \in IdMaps : m[1] = n[1] => m = n
    BY <1>1, <1>6, OneMeaning
  <1> QED BY <1>6, <1>7 DEF DecoderReadsBack

\* The record type that an attribute is read from is in the table when its name is looked up.
LEMMA RecordFound == EncoderInv => RecordKnown
  <1> SUFFICES ASSUME EncoderInv, Ready, Top.item \in Terms, Form(Top.item) = "get"
               PROVE  RecordOf(Top.item) \in DOMAIN table
    BY DEF RecordKnown
  <1> DEFINE x == Top.item
  <1>1. Entered /\ Written /\ Links(stack)
    BY DEF EncoderInv, Ready
  <1>2. Len(Top.got) = Len(Parts(x)) /\ \A k \in 1..Len(Top.got) : TextOK(Top.got[k]) /\ Top.got[k].of = Parts(x)[k]
    BY <1>1, Innermost DEF Ready
  <1>3. \A k \in 1..Len(Parts(x)) : Covered(Parts(x)[k])
    BY <1>2 DEF TextOK
  <1>4. /\ Len(Parts(x)) = 2 /\ Parts(x)[2] \in Terms /\ RecordOf(x) = TypeOf(Parts(x)[2])
        /\ Form(RecordOf(x)) = "record"
    BY WellFormed DEF RecordOf
  <1>5. Covered(RecordOf(x))
    BY <1>1, <1>3, <1>4, PartTypes
  <1> QED BY <1>4, <1>5 DEF Covered, Memoised

\* Each item is encoded once, no name is declared twice however types, terms and functions share
\* their parts, none is mentioned before it is declared, and find! never panics.
THEOREM ScriptsAreRight == EncoderSpec => []ScriptsRight
  <1>1. EncoderInv => ScriptsRight
    BY EachDefinedOnce, DeclaredFirst, RecordFound DEF ScriptsRight
  <1> QED BY <1>1, EncoderInvariant, PTL

\* The solver is given the asserts that encode was called with, and a name in a model is read for
\* what it was declared for.
THEOREM NamesAreMeant == EncoderSpec => []NamesMean
  <1>1. EncoderInv => NamesMean
    BY RightAsserts, ModelReadBack DEF NamesMean
  <1> QED BY <1>1, EncoderInvariant, PTL

-----------------------------------------------------------------------------
(* SolverSession: what its inductive invariant speaks of. *)

Ends      == {"", "none", "perished", "error", "exit"}
Orders    == [cmd : {"reset", "script", "part", "check-sat", "get-model", "exit"}, of : 0..NumChecks]
Words     == {"sat", "unsat", "unknown"}
Said      == [line : Fates \cup {"(", ")", "error"}, of : 0..NumChecks]
Solvers   == [end : Ends, input : Seq(Orders), output : Seq(Said), script : 0..NumChecks,
              printing : BOOLEAN]
Endings   == Words \cup {"", "error", "rejected"}
Hearings  == [how : Endings, word : 0..NumChecks, model : 0..NumChecks]
Outcomes  == [check : Checks, how : Endings, word : 0..NumChecks, model : 0..NumChecks,
              end : Ends, told : BOOLEAN]
Underway  == {"ask", "verdict", "get-model", "first line", "model", "exit"}
Stages    == Underway \cup {"compile", "spawn", "encode", "conclude", "ended", "aborted"}

SessionTyped ==
    /\ caller \in Callers /\ fate \in [Checks -> Fates] /\ wanted \in [Checks -> BOOLEAN]
    /\ check \in Checks /\ at \in Stages /\ solver \in Solvers /\ heard \in Hearings
    /\ told \in BOOLEAN /\ outcomes \in Seq(Outcomes)
    /\ Len(outcomes) = IF at \in {"ended", "aborted"} THEN check ELSE check - 1

\* Where a check has got to says what its asserts are like, and who is making it.
Fated ==
    /\ at \in Underway \cup {"spawn", "encode", "conclude"} => fate[check] # "uncompiled"
    /\ at \in Underway => fate[check] # "unencodable"
    /\ at = "exit" => caller = "trial"

\* A process in use has not ended but by perishing.
InUse    == solver.end \in {"", "perished"}
EndsWell ==
    (at \in Underway \cup {"encode"} \/ (at \in {"compile", "conclude"} /\ caller = "tests"))
        => InUse

Order(cmd) == [cmd |-> cmd, of |-> check]
Spoken(line) == [line |-> line, of |-> check]

Idle == solver.input = <<>> /\ solver.output = <<>> /\ ~solver.printing

\* What is in the pipes where the caller is: never more than this check's own.
Pipes ==
    /\ at \in {"encode", "get-model", "exit"} => Idle
    /\ at \in {"compile", "conclude"} /\ caller = "tests" => Idle
    /\ at = "ask" =>
        /\ solver.output = <<>> /\ ~solver.printing
        /\ \/ solver.input = <<Reset, Order("script")>>
           \/ solver.input = <<Order("script")>> /\ solver.script = 0
           \/ solver.input = <<>> /\ solver.script = check
    /\ at = "verdict" =>
        /\ ~solver.printing
        /\ \/ /\ solver.output = <<>>
              /\ \/ solver.input = <<Reset, Order("script"), Order("check-sat")>>
                 \/ solver.input = <<Order("script"), Order("check-sat")>> /\ solver.script = 0
                 \/ solver.input = <<Order("check-sat")>> /\ solver.script = check
           \/ /\ solver.input = <<>> /\ solver.script = check
              /\ solver.output = <<Spoken(Word(fate[check]))>>
    /\ at \in {"get-model", "first line", "model"} => solver.script = check
    /\ at = "first line" =>
        \/ solver.input = <<Order("get-model")>> /\ solver.output = <<>> /\ ~solver.printing
        \/ solver.input = <<>> /\ solver.output = <<Spoken("(")>> /\ solver.printing
        \/ solver.input = <<>> /\ solver.output = <<Spoken("("), Spoken(")")>> /\ ~solver.printing
    /\ at = "model" =>
        /\ solver.input = <<>>
        /\ \/ solver.output = <<>> /\ solver.printing
           \/ solver.output = <<Spoken(")")>> /\ ~solver.printing

\* What was heard is about the check at hand.
Heard ==
    /\ at \in {"get-model", "first line", "model"} =>
        heard = [how |-> "sat", word |-> check, model |-> 0] /\ Word(fate[check]) = "sat"
    /\ at \in {"exit", "conclude"} =>
        /\ heard.how = Word(fate[check]) /\ heard.how \in Words /\ heard.word = check
        /\ heard.model \in {0, check}
        /\ heard.how = "sat" /\ wanted[check] => heard.model = check

OutcomeOK(o) ==
    /\ o.word \in {0, o.check} /\ o.model \in {0, o.check}
    /\ o.how \in Words => o.how = Word(fate[o.check])
    /\ o.how = "sat" /\ o.word # 0 /\ wanted[o.check] => o.model = o.check
    /\ o.how = "error" =>
        \/ o.end = "perished"
        \/ fate[o.check] \in {"uncompiled", "unencodable"}
        \/ fate[o.check] = "unknown" /\ caller = "ffi"

OutcomesOK == \A i \in 1..Len(outcomes) : OutcomeOK(outcomes[i])

SessionInv == SessionTyped /\ Fated /\ EndsWell /\ Pipes /\ Heard /\ OutcomesOK

-----------------------------------------------------------------------------

LEMMA WordOf ==
    ASSUME NEW f \in Fates
    PROVE  /\ Word(f) \in Fates
           /\ f \notin {"unencodable", "uncompiled"} => Word(f) \in Words
  BY DEF Word, Fates, Words

LEMMA Added ==
    ASSUME NEW S, NEW s \in Seq(S), NEW e \in S
    PROVE  /\ Append(s, e) \in Seq(S)
           /\ Len(Append(s, e)) = Len(s) + 1
           /\ \A i \in 1..Len(s) : Append(s, e)[i] = s[i]
           /\ Append(s, e)[Len(s) + 1] = e
  BY AppendProperties

LEMMA Taken ==
    ASSUME NEW S, NEW s \in Seq(S), s # <<>>
    PROVE  Head(s) \in S /\ Tail(s) \in Seq(S)
  BY HeadTailProperties

\* The short sequences of the pipes.
LEMMA Pair ==
    ASSUME NEW a, NEW b
    PROVE  Append(<<a>>, b) = <<a, b>> /\ <<a>> \o <<b>> = <<a, b>>
<1> DEFINE S == {a, b}
           t == <<a, b>>
<1>1. /\ <<a>> \in Seq(S) /\ <<b>> \in Seq(S) /\ t \in Seq(S)
      /\ Len(<<a>>) = 1 /\ Len(<<b>>) = 1 /\ Len(t) = 2 /\ t[1] = a /\ t[2] = b
      /\ <<a>>[1] = a /\ <<b>>[1] = b
  OBVIOUS
<1>2. ASSUME NEW u \in Seq(S), Len(u) = 2, u[1] = a, u[2] = b PROVE u = t
  <2>1. \A i \in 1..2 : i = 1 \/ i = 2
    OBVIOUS
  <2> HIDE DEF S, t
  <2> QED BY <1>1, <1>2, <2>1, SeqEqual
<1>3. Append(<<a>>, b) = t
  <2> DEFINE s == <<a>>
  <2> HIDE DEF s
  <2>1. s \in Seq(S) /\ Len(s) = 1 /\ s[1] = a /\ b \in S
    BY <1>1 DEF s
  <2> HIDE DEF S, t
  <2>2. Append(s, b) \in Seq(S) /\ Len(Append(s, b)) = 2 /\ Append(s, b)[1] = a /\ Append(s, b)[2] = b
    <3>1. /\ Append(s, b) \in Seq(S) /\ Len(Append(s, b)) = Len(s)+1
          /\ \A i \in 1..Len(s) : Append(s, b)[i] = s[i]
          /\ Append(s, b)[Len(s) + 1] = b
      BY <2>1, Added
    <3>2. 1 \in 1..1 /\ 1+1 = 2
      OBVIOUS
    <3> QED BY <3>1, <3>2, <2>1
  <2>3. Append(s, b) = t
    BY <2>2, <1>2
  <2> QED BY <2>3 DEF s
<1>4. <<a>> \o <<b>> = t
  <2> DEFINE s == <<a>>
             r == <<b>>
  <2> HIDE DEF s, r
  <2>1. s \in Seq(S) /\ r \in Seq(S) /\ Len(s) = 1 /\ Len(r) = 1 /\ s[1] = a /\ r[1] = b
    BY <1>1 DEF s, r
  <2> HIDE DEF S, t
  <2>2. s \o r \in Seq(S) /\ Len(s \o r) = 2 /\ (s \o r)[1] = a /\ (s \o r)[2] = b
    <3>1. /\ s \o r \in Seq(S) /\ Len(s \o r) = Len(s) + Len(r)
          /\ \A i \in 1..Len(s)+Len(r) : (s \o r)[i] = IF i <= Len(s) THEN s[i] ELSE r[i - Len(s)]
      BY <2>1, ConcatProperties
    <3>2. 1 \in 1..2 /\ 2 \in 1..2 /\ 1+1 = 2 /\ 2-1 = 1 /\ 1 <= 1 /\ ~(2 <= 1)
      OBVIOUS
    <3> QED BY <3>1, <3>2, <2>1
  <2>3. s \o r = t
    BY <2>2, <1>2
  <2> QED BY <2>3 DEF s, r
<1> QED BY <1>3, <1>4

LEMMA Triple ==
    ASSUME NEW a, NEW b, NEW c
    PROVE  <<a, b>> \o <<c>> = <<a, b, c>>
<1> DEFINE S == {a, b, c}
           s == <<a, b>>
           r == <<c>>
           t == <<a, b, c>>
<1>1. /\ s \in Seq(S) /\ r \in Seq(S) /\ t \in Seq(S)
      /\ Len(s) = 2 /\ Len(r) = 1 /\ Len(t) = 3
      /\ s[1] = a /\ s[2] = b /\ r[1] = c /\ t[1] = a /\ t[2] = b /\ t[3] = c
  OBVIOUS
<1>2. \A i \in 1..3 : i = 1 \/ i = 2 \/ i = 3
  OBVIOUS
<1> HIDE DEF S, s, r, t
<1>3. /\ s \o r \in Seq(S) /\ Len(s \o r) = 3
      /\ (s \o r)[1] = a /\ (s \o r)[2] = b /\ (s \o r)[3] = c
  <2>1. /\ s \o r \in Seq(S) /\ Len(s \o r) = Len(s) + Len(r)
        /\ \A i \in 1..Len(s)+Len(r) : (s \o r)[i] = IF i <= Len(s) THEN s[i] ELSE r[i - Len(s)]
    BY <1>1, ConcatProperties
  <2>2. /\ 1 \in 1..3 /\ 2 \in 1..3 /\ 3 \in 1..3 /\ 2+1 = 3 /\ 3-2 = 1
        /\ 1 <= 2 /\ 2 <= 2 /\ ~(3 <= 2)
    OBVIOUS
  <2> QED BY <2>1, <2>2, <1>1
<1>4. s \o r = t
  BY <1>1, <1>2, <1>3, SeqEqual
<1> QED BY <1>4 DEF s, r, t

LEMMA Short ==
    ASSUME NEW a, NEW b, NEW c
    PROVE  /\ Head(<<a>>) = a /\ Tail(<<a>>) = <<>>
           /\ Head(<<a, b>>) = a /\ Tail(<<a, b>>) = <<b>>
           /\ Head(<<a, b, c>>) = a /\ Tail(<<a, b, c>>) = <<b, c>>
           /\ <<>> \o <<a>> = <<a>> /\ <<>> \o <<a, b>> = <<a, b>>
           /\ Append(<<>>, a) = <<a>>
           /\ <<a>> # <<>> /\ <<a, b>> # <<>> /\ <<a, b, c>> # <<>>
<1>1. Head(<<a>>) = a /\ Tail(<<a>>) = <<>>
  OBVIOUS
<1>2. Head(<<a, b>>) = a /\ Tail(<<a, b>>) = <<b>>
  OBVIOUS
<1>3. Head(<<a, b, c>>) = a /\ Tail(<<a, b, c>>) = <<b, c>>
  OBVIOUS
<1>4. <<>> \o <<a>> = <<a>>
  OBVIOUS
<1>5. <<>> \o <<a, b>> = <<a, b>>
  OBVIOUS
<1>6. Append(<<>>, a) = <<a>>
  OBVIOUS
<1>7. <<a>> # <<>> /\ <<a, b>> # <<>> /\ <<a, b, c>> # <<>>
  OBVIOUS
<1> QED BY <1>1, <1>2, <1>3, <1>4, <1>5, <1>6, <1>7

LEMMA Orderly ==
    ASSUME SessionTyped
    PROVE  /\ \A cmd \in {"reset", "script", "part", "check-sat", "get-model", "exit"} :
                 Order(cmd) \in Orders
           /\ Reset \in Orders
           /\ \A cmd \in {"script", "part"} : Script(cmd) \in Seq(Orders)
  BY ChecksType DEF SessionTyped, Checks, Order, Orders, Reset, Script

LEMMA CheckNumbers ==
    ASSUME SessionTyped
    PROVE  /\ check \in Nat /\ check \in 1..NumChecks
           /\ check # NumChecks => check + 1 \in 1..NumChecks
           /\ check + 1 - 1 = check /\ check = check - 1 + 1
           /\ 0 \in 0..NumChecks /\ check \in 0..NumChecks
<1>1. check \in 1..NumChecks
  BY DEF SessionTyped, Checks
<1> QED BY <1>1, ChecksType

\* What Finish adds to the history.
Outcome(said) == [check |-> check, how |-> said.how, word |-> said.word,
                  model |-> said.model, end |-> solver.end, told |-> told]

LEMMA UnaskedHeard == Nothing \in Hearings /\ \A how \in Endings : Unasked(how) \in Hearings
<1>1. 0 \in 0..NumChecks /\ "" \in Endings
  BY ChecksType DEF Endings
<1>2. \A how \in Endings : Unasked(how) \in Hearings
  BY <1>1 DEF Hearings, Unasked
<1> QED BY <1>1, <1>2 DEF Nothing

LEMMA FinishStep ==
    ASSUME SessionInv, NEW said \in Hearings, Finish(said), at \notin {"ended", "aborted"},
           solver' \in Solvers,
           OutcomeOK(Outcome(said)),
           caller = "tests" => InUse',
           caller = "tests" /\ said.how \notin {"error", "rejected"} => Idle'
    PROVE  SessionInv'
<1> DEFINE o == Outcome(said)
<1> USE DEF SessionInv
<1>1. o \in Outcomes
  BY DEF SessionTyped, Outcomes, Outcome, Hearings, Solvers
<1>2. outcomes' = Append(outcomes, o) /\ Len(outcomes) = check - 1 /\ outcomes \in Seq(Outcomes)
  BY DEF Finish, SessionTyped, Outcome
<1> HIDE DEF o
<1>3. /\ outcomes' \in Seq(Outcomes) /\ Len(outcomes') = check
      /\ \A i \in 1..Len(outcomes) : outcomes'[i] = outcomes[i]
      /\ outcomes'[check] = o
  <2> QED BY <1>1, <1>2, CheckNumbers, Added
<1>4. \/ at' = "aborted" /\ check' = check
      \/ at' = "ended" /\ check' = check
      \/ /\ at' = "compile" /\ check' = check + 1 /\ check # NumChecks
         /\ caller = "tests" => said.how \notin {"error", "rejected"}
  BY DEF Finish
<1>5. /\ caller' = caller /\ fate' = fate /\ wanted' = wanted /\ told' = told
      /\ heard' = Nothing
  BY DEF Finish
<1>6. SessionTyped'
  <2>1. heard' \in Hearings
    BY <1>5, UnaskedHeard
  <2>2. check' \in Checks /\ at' \in Stages
        /\ Len(outcomes') = IF at' \in {"ended", "aborted"} THEN check' ELSE check' - 1
    <3> QED BY <1>3, <1>4, CheckNumbers DEF Stages, Checks
  <2> QED BY <1>3, <1>5, <2>1, <2>2 DEF SessionTyped
<1>7. Fated' /\ EndsWell' /\ Heard'
  BY <1>4, <1>5 DEF Fated, EndsWell, Heard, Underway
<1>8. Pipes'
  BY <1>4, <1>5 DEF Pipes
<1>9. OutcomesOK'
  <2>1. check = Len(outcomes) + 1
    BY <1>2, CheckNumbers
  <2>2. ASSUME NEW i \in 1..Len(outcomes') PROVE i \in 1..Len(outcomes) \/ i = check
    BY <1>2, <1>3, <2>1
  <2>3. OutcomeOK(o)
    BY DEF o
  <2>4. \A i \in 1..Len(outcomes') : OutcomeOK(outcomes'[i])
    <3> QED BY <1>3, <2>2, <2>3 DEF OutcomesOK
  <2> QED BY <1>5, <2>4 DEF OutcomesOK, OutcomeOK
<1> QED BY <1>6, <1>7, <1>8, <1>9

LEMMA ExceptStep ==
    ASSUME SessionInv, Except, at \notin {"ended", "aborted"}, solver' \in Solvers,
           caller = "tests" => InUse',
           \/ solver.end = "perished"
           \/ fate[check] \in {"uncompiled", "unencodable"}
           \/ fate[check] = "unknown" /\ caller = "ffi"
    PROVE  SessionInv'
<1> DEFINE said == Unasked("error")
<1>1. said \in Hearings
  BY UnaskedHeard DEF Endings
<1>2. OutcomeOK(Outcome(said))
  BY DEF OutcomeOK, Outcome, Words, Unasked
<1>3. Finish(said)
  BY DEF Except
<1>4. said.how \in {"error", "rejected"}
  BY DEF Unasked
<1> HIDE DEF said
<1> QED BY <1>1, <1>2, <1>3, <1>4, FinishStep

\* A step of the caller to `next` leaves the history alone.
LEMMA Onward ==
    ASSUME SessionInv, UNCHANGED <<caller, fate, wanted, check, told, outcomes>>,
           at \notin {"ended", "aborted"}, at' \in Stages \ {"ended", "aborted"},
           heard' \in Hearings, solver' \in Solvers
    PROVE  SessionTyped' /\ OutcomesOK'
  BY DEF SessionInv, SessionTyped, OutcomesOK, OutcomeOK
-----------------------------------------------------------------------------
(* One lemma for each step. *)

LEMMA SessionStarts == SessionInit => SessionInv
<1> SUFFICES ASSUME SessionInit PROVE SessionInv
  OBVIOUS
<1>1. 1 \in Checks /\ 0 \in 0..NumChecks
  BY ChecksType DEF Checks
<1>2. /\ caller \in Callers /\ fate \in [Checks -> Fates] /\ check = 1 /\ at = "compile"
      /\ heard = Nothing /\ told = FALSE /\ outcomes = <<>>
      /\ solver = NewSolver(IF caller = "tests" THEN "" ELSE "none")
  BY DEF SessionInit
<1>3. wanted \in [Checks -> BOOLEAN]
  BY DEF SessionInit
<1>4. solver \in Solvers
  <2>1. ASSUME NEW end \in Ends PROVE NewSolver(end) \in Solvers
    BY <1>1 DEF NewSolver, Solvers
  <2> QED BY <1>2, <2>1 DEF Ends
<1>5. /\ outcomes \in Seq(Outcomes) /\ told \in BOOLEAN
      /\ Len(outcomes) = IF at \in {"ended", "aborted"} THEN check ELSE check - 1
  <2>1. <<>> \in Seq(Outcomes) /\ Len(<<>>) = 0 /\ 1 - 1 = 0
    OBVIOUS
  <2>2. FALSE \in BOOLEAN
    OBVIOUS
  <2>3. outcomes \in Seq(Outcomes) /\ told \in BOOLEAN
    BY <1>2, <2>1, <2>2, Zenon
  <2>4. Len(outcomes) = 0 /\ check - 1 = 0 /\ at \notin {"ended", "aborted"}
    BY <1>2, <2>1
  <2> QED BY <2>3, <2>4
<1>6. SessionTyped
  BY <1>1, <1>2, <1>3, <1>4, <1>5, UnaskedHeard DEF SessionTyped, Stages
<1>7. Fated /\ EndsWell /\ Heard
  BY <1>2 DEF Fated, EndsWell, InUse, Heard, NewSolver, Underway
<1>8. Pipes
  BY <1>2 DEF Pipes, Idle, NewSolver
<1>9. OutcomesOK
  <2>1. \A i \in 1..Len(<<>>) : FALSE
    OBVIOUS
  <2> QED BY <1>2, <2>1, Zenon DEF OutcomesOK
<1> QED BY <1>6, <1>7, <1>8, <1>9 DEF SessionInv

\* What emitln leaves.
LEMMA Emitted ==
    ASSUME solver \in Solvers, NEW cs \in Seq(Orders),
           solver' = [solver EXCEPT !.input = @ \o cs]
    PROVE  /\ solver' \in Solvers
           /\ solver'.input = solver.input \o cs /\ solver'.output = solver.output
           /\ solver'.end = solver.end /\ solver'.script = solver.script
           /\ solver'.printing = solver.printing
<1>1. solver.input \o cs \in Seq(Orders)
  BY ConcatProperties DEF Solvers
<1> QED BY <1>1 DEF Solvers

LEMMA CompileStep ==
    ASSUME SessionInv, CompileCheck
    PROVE  SessionInv'
<1>1. at = "compile" /\ solver' = solver /\ solver \in Solvers
  BY DEF SessionInv, SessionTyped, CompileCheck
<1>2. CASE fate[check] = "uncompiled"
  <2>1. Except
    BY <1>2 DEF CompileCheck
  <2>2. caller = "tests" => InUse'
    BY <1>1 DEF SessionInv, EndsWell, InUse
  <2> QED BY <1>1, <1>2, <2>1, <2>2, ExceptStep
<1>3. CASE fate[check] # "uncompiled"
  <2>1. /\ UNCHANGED <<caller, fate, wanted, check, heard, told, outcomes>>
        /\ at' = IF caller = "tests" THEN "encode" ELSE "spawn"
    BY <1>3 DEF CompileCheck, GoOn
  <2>2. SessionTyped' /\ OutcomesOK'
    BY <1>1, <2>1, Onward DEF SessionInv, SessionTyped, Stages
  <2>3. Fated' /\ EndsWell' /\ Pipes' /\ Heard'
    BY <1>1, <1>3, <2>1 DEF SessionInv, Fated, EndsWell, InUse, Pipes, Idle, Heard, Underway
  <2> QED BY <2>2, <2>3 DEF SessionInv
<1> QED BY <1>2, <1>3

LEMMA SpawnStep ==
    ASSUME SessionInv, SpawnSolver
    PROVE  SessionInv'
<1>1. /\ at = "spawn" /\ at' = "encode" /\ solver' = Spawned /\ told' = FALSE
      /\ UNCHANGED <<caller, fate, wanted, check, heard, outcomes>>
  BY DEF SpawnSolver
<1>2. Spawned \in Solvers
  BY ChecksType DEF Spawned, NewSolver, Solvers, Ends
<1>3. SessionTyped'
  BY <1>1, <1>2 DEF SessionInv, SessionTyped, Stages
<1>4. OutcomesOK'
  BY <1>1 DEF SessionInv, OutcomesOK, OutcomeOK
<1>5. Fated' /\ EndsWell' /\ Pipes' /\ Heard'
  BY <1>1 DEF SessionInv, Fated, EndsWell, InUse, Pipes, Idle, Heard, Spawned, NewSolver, Underway
<1> QED BY <1>3, <1>4, <1>5 DEF SessionInv

LEMMA ConstantsStep ==
    ASSUME SessionInv, DecideConstants
    PROVE  SessionInv'
<1>1. /\ at = "encode" /\ caller = "ffi" /\ fate[check] \in {"true", "false"}
      /\ solver \in Solvers /\ InUse
  BY DEF SessionInv, SessionTyped, EndsWell, DecideConstants, Constant
<1>2. CASE Alive
  <2> DEFINE said == Unasked(Word(fate[check]))
  <2>1. solver' = [solver EXCEPT !.input = Append(@, Reset)] /\ Finish(said)
    BY <1>2 DEF DecideConstants
  <2>2. Append(solver.input, Reset) \in Seq(Orders)
    BY <1>1, Orderly, Added DEF Solvers, SessionInv
  <2>3. solver' \in Solvers
    BY <1>1, <2>1, <2>2 DEF Solvers
  <2>4. fate[check] \in Fates
    BY DEF SessionInv, SessionTyped
  <2>5. Word(fate[check]) \in Words
    BY <1>1, <2>4, WordOf
  <2>6. said \in Hearings
    BY <2>5, UnaskedHeard DEF Endings
  <2>7. OutcomeOK(Outcome(said))
    BY <2>5 DEF OutcomeOK, Outcome, Unasked, Words
  <2> HIDE DEF said
  <2> QED BY <1>1, <2>1, <2>3, <2>6, <2>7, FinishStep
<1>3. CASE ~Alive
  <2>1. solver' = solver /\ Except
    BY <1>3 DEF DecideConstants
  <2>2. solver.end = "perished"
    BY <1>1, <1>3 DEF InUse, Alive
  <2> QED BY <1>1, <2>1, <2>2, ExceptStep
<1> QED BY <1>2, <1>3

\* A command that cannot be written is an exception, and the process had perished.
LEMMA Unwritten ==
    ASSUME SessionInv, at \in Underway \cup {"encode"}, ~Alive, solver' = solver, Except
    PROVE  SessionInv'
<1>1. solver.end = "perished" /\ InUse /\ solver \in Solvers
  BY DEF SessionInv, SessionTyped, EndsWell, InUse, Alive
<1>2. at \notin {"ended", "aborted"}
  BY DEF Underway
<1>3. InUse'
  BY <1>1 DEF InUse
<1> QED BY <1>1, <1>2, <1>3, ExceptStep

LEMMA EncodeAssertsStep ==
    ASSUME SessionInv, EncodeAsserts
    PROVE  SessionInv'
<1>1. at = "encode" /\ fate[check] # "unencodable" /\ Emit(Script("script"), "ask")
  BY DEF EncodeAsserts
<1>2. CASE ~Alive
  BY <1>1, <1>2, Unwritten DEF Emit
<1>3. CASE Alive
  <2>1. /\ solver' = [solver EXCEPT !.input = @ \o Script("script")] /\ at' = "ask"
        /\ UNCHANGED <<caller, fate, wanted, check, heard, told, outcomes>>
    BY <1>1, <1>3 DEF Emit, GoOn
  <2>2. solver \in Solvers /\ heard \in Hearings /\ Idle /\ InUse
    BY <1>1 DEF SessionInv, SessionTyped, Pipes, EndsWell
  <2>3. Script("script") \in Seq(Orders)
    BY Orderly DEF SessionInv
  <2>4. /\ solver' \in Solvers /\ solver'.input = solver.input \o Script("script")
        /\ solver'.output = solver.output /\ solver'.end = solver.end
        /\ solver'.printing = solver.printing
    BY <2>1, <2>2, <2>3, Emitted
  <2>5. solver'.input = <<Reset, Order("script")>>
    BY <2>2, <2>4, Short DEF Idle, Script, Order
  <2>6. SessionTyped' /\ OutcomesOK'
    BY <1>1, <2>1, <2>2, <2>4, Onward DEF Stages, Underway
  <2>7. Fated'
    BY <1>1, <2>1 DEF SessionInv, Fated, Underway
  <2>8. EndsWell'
    BY <2>2, <2>4 DEF EndsWell, InUse
  <2>9. Pipes'
    BY <2>1, <2>2, <2>4, <2>5 DEF Pipes, Idle, Reset, Order
  <2>10. Heard'
    BY <2>1 DEF Heard
  <2> QED BY <2>6, <2>7, <2>8, <2>9, <2>10 DEF SessionInv
<1> QED BY <1>2, <1>3

LEMMA EncodeFailsStep ==
    ASSUME SessionInv, EncodeFails
    PROVE  SessionInv'
<1>1. /\ at = "encode" /\ fate[check] = "unencodable" /\ Except
      /\ solver' = IF Alive THEN [solver EXCEPT !.input = @ \o Script("part")] ELSE solver
  BY DEF EncodeFails
<1>2. solver \in Solvers /\ InUse
  BY <1>1 DEF SessionInv, SessionTyped, EndsWell
<1>3. solver' \in Solvers /\ InUse'
  <2>1. CASE ~Alive
    BY <1>1, <1>2, <2>1 DEF InUse
  <2>2. CASE Alive
    <3>1. Script("part") \in Seq(Orders)
      BY Orderly DEF SessionInv
    <3>2. solver' \in Solvers /\ solver'.end = solver.end
      BY <1>1, <1>2, <2>2, <3>1, Emitted
    <3> QED BY <1>2, <3>2 DEF InUse
  <2> QED BY <2>1, <2>2
<1> QED BY <1>1, <1>3, ExceptStep

LEMMA AskVerdictStep ==
    ASSUME SessionInv, AskVerdict
    PROVE  SessionInv'
<1> DEFINE cs == <<Order("check-sat")>>
<1>1. at = "ask" /\ Emit(cs, "verdict")
  BY DEF AskVerdict, Order
<1>2. CASE ~Alive
  BY <1>1, <1>2, Unwritten DEF Emit, Underway
<1>3. CASE Alive
  <2>1. /\ solver' = [solver EXCEPT !.input = @ \o cs] /\ at' = "verdict"
        /\ UNCHANGED <<caller, fate, wanted, check, heard, told, outcomes>>
    BY <1>1, <1>3 DEF Emit, GoOn
  <2>2. solver \in Solvers /\ heard \in Hearings /\ InUse
    BY <1>1 DEF SessionInv, SessionTyped, EndsWell, Underway
  <2>3. cs \in Seq(Orders)
    BY Orderly DEF SessionInv
  <2> HIDE DEF cs
  <2>4. /\ solver' \in Solvers /\ solver'.input = solver.input \o cs
        /\ solver'.output = solver.output /\ solver'.end = solver.end
        /\ solver'.printing = solver.printing /\ solver'.script = solver.script
    BY <2>1, <2>2, <2>3, Emitted
  <2>5. /\ solver'.output = <<>> /\ ~solver'.printing
        /\ \/ solver'.input = <<Reset, Order("script"), Order("check-sat")>>
           \/ solver'.input = <<Order("script"), Order("check-sat")>> /\ solver'.script = 0
           \/ solver'.input = <<Order("check-sat")>> /\ solver'.script = check
    <3>1. /\ solver.output = <<>> /\ ~solver.printing
          /\ \/ solver.input = <<Reset, Order("script")>>
             \/ solver.input = <<Order("script")>> /\ solver.script = 0
             \/ solver.input = <<>> /\ solver.script = check
      BY <1>1 DEF SessionInv, Pipes
    <3>2. /\ <<Reset, Order("script")>> \o cs = <<Reset, Order("script"), Order("check-sat")>>
          /\ <<Order("script")>> \o cs = <<Order("script"), Order("check-sat")>>
          /\ <<>> \o cs = <<Order("check-sat")>>
      BY Short, Pair, Triple DEF cs
    <3>3. solver'.output = <<>> /\ ~solver'.printing
      BY <2>4, <3>1
    <3> DEFINE i == solver.input
               j == solver'.input
    <3>4. j = i \o cs
      BY <2>4
    <3> HIDE DEF i, j
    <3>5. CASE i = <<Reset, Order("script")>>
      BY <3>2, <3>3, <3>4, <3>5, Zenon DEF j
    <3>6. CASE i = <<Order("script")>> /\ solver.script = 0
      BY <2>4, <3>2, <3>3, <3>4, <3>6, Zenon DEF j
    <3>7. CASE i = <<>> /\ solver.script = check
      BY <2>4, <3>2, <3>3, <3>4, <3>7, Zenon DEF j
    <3> QED BY <3>1, <3>5, <3>6, <3>7, Zenon DEF i
  <2>6. SessionTyped' /\ OutcomesOK'
    BY <1>1, <2>1, <2>2, <2>4, Onward DEF Stages, Underway
  <2>7. Fated'
    BY <1>1, <2>1 DEF SessionInv, Fated, Underway
  <2>8. EndsWell'
    BY <2>2, <2>4 DEF EndsWell, InUse
  <2>9. Pipes'
    BY <2>1, <2>5 DEF Pipes, Reset, Order
  <2>10. Heard'
    BY <2>1 DEF Heard
  <2> QED BY <2>6, <2>7, <2>8, <2>9, <2>10 DEF SessionInv
<1> QED BY <1>2, <1>3

LEMMA AskModelStep ==
    ASSUME SessionInv, AskModel
    PROVE  SessionInv'
<1> DEFINE cs == <<Order("get-model")>>
<1>1. at = "get-model" /\ Emit(cs, "first line")
  BY DEF AskModel, Order
<1>2. CASE ~Alive
  BY <1>1, <1>2, Unwritten DEF Emit, Underway
<1>3. CASE Alive
  <2>1. /\ solver' = [solver EXCEPT !.input = @ \o cs] /\ at' = "first line"
        /\ UNCHANGED <<caller, fate, wanted, check, heard, told, outcomes>>
    BY <1>1, <1>3 DEF Emit, GoOn
  <2>2. solver \in Solvers /\ heard \in Hearings /\ InUse /\ Idle /\ solver.script = check
    BY <1>1 DEF SessionInv, SessionTyped, EndsWell, Underway, Pipes
  <2>3. cs \in Seq(Orders)
    BY Orderly DEF SessionInv
  <2> HIDE DEF cs
  <2>4. /\ solver' \in Solvers /\ solver'.input = solver.input \o cs
        /\ solver'.output = solver.output /\ solver'.end = solver.end
        /\ solver'.printing = solver.printing /\ solver'.script = solver.script
    BY <2>1, <2>2, <2>3, Emitted
  <2>5. solver'.input = <<Order("get-model")>>
    BY <2>2, <2>4, Short DEF Idle, cs
  <2>6. SessionTyped' /\ OutcomesOK'
    BY <1>1, <2>1, <2>2, <2>4, Onward DEF Stages, Underway
  <2>7. Fated'
    BY <1>1, <2>1 DEF SessionInv, Fated, Underway
  <2>8. EndsWell'
    BY <2>2, <2>4 DEF EndsWell, InUse
  <2>9. Pipes'
    BY <2>1, <2>2, <2>4, <2>5 DEF Pipes, Idle, Order
  <2>10. Heard'
    BY <1>1, <2>1 DEF SessionInv, Heard
  <2> QED BY <2>6, <2>7, <2>8, <2>9, <2>10 DEF SessionInv
<1> QED BY <1>2, <1>3

LEMMA OneRead ==
    ASSUME solver \in Solvers, HasLine, ReadLine
    PROVE  /\ solver' \in Solvers /\ Line \in Said
           /\ solver'.output = Tail(solver.output) /\ solver'.input = solver.input
           /\ solver'.end = solver.end /\ solver'.script = solver.script
           /\ solver'.printing = solver.printing
<1>1. solver.output \in Seq(Said)
  BY DEF Solvers
<1>2. Head(solver.output) \in Said /\ Tail(solver.output) \in Seq(Said)
  BY <1>1, Taken DEF HasLine
<1> QED BY <1>2 DEF Solvers, Line, ReadLine

LEMMA VerdictStep ==
    ASSUME SessionInv, ReadVerdict
    PROVE  SessionInv'
<1>1. at = "verdict" /\ HasLine /\ ReadLine /\ solver \in Solvers /\ InUse
  BY DEF ReadVerdict, SessionInv, SessionTyped, EndsWell, Underway
<1>2. /\ solver' \in Solvers
      /\ solver'.output = Tail(solver.output) /\ solver'.input = solver.input
      /\ solver'.end = solver.end /\ solver'.script = solver.script
      /\ solver'.printing = solver.printing
  BY <1>1, OneRead
<1>3. InUse'
  BY <1>1, <1>2 DEF InUse
<1>4. /\ solver.input = <<>> /\ solver.script = check /\ ~solver.printing
      /\ solver.output = <<Spoken(Word(fate[check]))>>
  BY <1>1 DEF SessionInv, Pipes, HasLine
<1>5. Line = Spoken(Word(fate[check])) /\ Idle' /\ solver'.script = check
  BY <1>2, <1>4, Short DEF Line, Idle
<1>6. Line.line = Word(fate[check]) /\ Line.of = check
  BY <1>5 DEF Spoken
<1>7. /\ fate[check] \in Fates \ {"unencodable", "uncompiled"}
      /\ check \in 0..NumChecks /\ 0 \in 0..NumChecks
  BY <1>1, CheckNumbers DEF SessionInv, SessionTyped, Fated, Underway
<1>8. Word(fate[check]) \in Words
  BY <1>7, WordOf
<1>9. CASE Line.line \notin Understood
  <2>1. Except
    BY <1>9 DEF ReadVerdict
  <2>2. Word(fate[check]) = "unknown" /\ caller = "ffi"
    BY <1>6, <1>8, <1>9 DEF Understood, Words
  <2>3. fate[check] = "unknown"
    BY <2>2 DEF Word
  <2> QED BY <1>1, <1>2, <1>3, <2>1, <2>2, <2>3, ExceptStep
<1>10. CASE Line.line \in Understood
  <2>1. /\ heard' = [how |-> Line.line, word |-> Line.of, model |-> 0]
        /\ at' = AfterVerdict(Line.line)
        /\ UNCHANGED <<caller, fate, wanted, check, told, outcomes>>
    BY <1>10 DEF ReadVerdict
  <2>2. heard' = [how |-> Word(fate[check]), word |-> check, model |-> 0]
    BY <2>1, <1>6
  <2>3. heard' \in Hearings
    BY <2>2, <1>7, <1>8 DEF Hearings, Endings
  <2>4. \/ at' = "get-model" /\ Word(fate[check]) = "sat"
        \/ at' \in {"exit", "conclude"} /\ ~(Word(fate[check]) = "sat" /\ wanted[check])
    BY <2>1, <1>6 DEF AfterVerdict, Enough
  <2>5. SessionTyped' /\ OutcomesOK'
    BY <1>1, <1>2, <2>1, <2>3, <2>4, Onward DEF Stages, Underway
  <2>6. Fated'
    <3>1. at' = "exit" => caller = "trial"
      BY <2>1 DEF AfterVerdict, Enough
    <3> QED BY <1>7, <2>1, <3>1 DEF Fated
  <2>7. EndsWell'
    BY <1>3 DEF EndsWell
  <2>8. Pipes'
    BY <2>1, <2>4, <1>5 DEF Pipes
  <2>9. Heard'
    <3>1. heard'.how = Word(fate[check]) /\ heard'.word = check /\ heard'.model = 0
      BY <2>2
    <3>2. CASE at' = "get-model" /\ Word(fate[check]) = "sat"
      BY <2>1, <2>2, <3>2 DEF Heard
    <3>3. CASE at' \in {"exit", "conclude"} /\ ~(Word(fate[check]) = "sat" /\ wanted[check])
      BY <2>1, <3>1, <3>3, <1>8 DEF Heard
    <3> QED BY <2>4, <3>2, <3>3
  <2> QED BY <2>5, <2>6, <2>7, <2>8, <2>9 DEF SessionInv
<1> QED BY <1>9, <1>10

LEMMA FirstLineStep ==
    ASSUME SessionInv, ReadFirstLine
    PROVE  SessionInv'
<1>1. at = "first line" /\ HasLine /\ ReadLine /\ solver \in Solvers /\ InUse /\ heard \in Hearings
  BY DEF ReadFirstLine, SessionInv, SessionTyped, EndsWell, Underway
<1>2. /\ solver' \in Solvers
      /\ solver'.output = Tail(solver.output) /\ solver'.input = solver.input
      /\ solver'.end = solver.end /\ solver'.script = solver.script
      /\ solver'.printing = solver.printing
  BY <1>1, OneRead
<1>3. InUse'
  BY <1>1, <1>2 DEF InUse
<1>4. /\ solver.input = <<>> /\ solver.script = check
      /\ \/ solver.output = <<Spoken("(")>> /\ solver.printing
         \/ solver.output = <<Spoken("("), Spoken(")")>> /\ ~solver.printing
  BY <1>1 DEF SessionInv, Pipes, HasLine
<1>5. /\ Line = Spoken("(") /\ solver'.input = <<>> /\ solver'.script = check
      /\ \/ solver'.output = <<>> /\ solver'.printing
         \/ solver'.output = <<Spoken(")")>> /\ ~solver'.printing
  <2>1. CASE solver.output = <<Spoken("(")>> /\ solver.printing
    BY <1>2, <1>4, <2>1, Short DEF Line
  <2>2. CASE solver.output = <<Spoken("("), Spoken(")")>> /\ ~solver.printing
    BY <1>2, <1>4, <2>2, Short DEF Line
  <2> QED BY <1>4, <2>1, <2>2
<1>6. /\ at' = "model" /\ UNCHANGED <<caller, fate, wanted, check, heard, told, outcomes>>
  BY <1>5 DEF ReadFirstLine, GoOn, Spoken
<1>7. SessionTyped' /\ OutcomesOK'
  BY <1>1, <1>2, <1>6, Onward DEF Stages, Underway
<1>8. Fated' /\ EndsWell' /\ Heard'
  BY <1>1, <1>3, <1>6 DEF SessionInv, Fated, EndsWell, Heard, Underway
<1>9. Pipes'
  BY <1>5, <1>6 DEF Pipes, Spoken
<1> QED BY <1>7, <1>8, <1>9 DEF SessionInv

LEMMA EofStep ==
    ASSUME SessionInv, ReadEof
    PROVE  SessionInv'
<1>1. at \in {"verdict", "first line"} /\ ~Alive /\ solver' = solver /\ Except
  BY DEF ReadEof, AtEof
<1> QED BY <1>1, Unwritten DEF Underway

LEMMA LinesStep ==
    ASSUME SessionInv, ReadLines
    PROVE  SessionInv'
<1>1. at = "model" /\ HasLine /\ ReadLine /\ solver \in Solvers /\ InUse
  BY DEF ReadLines, SessionInv, SessionTyped, EndsWell, Underway
<1>2. /\ solver' \in Solvers
      /\ solver'.output = Tail(solver.output) /\ solver'.input = solver.input
      /\ solver'.end = solver.end /\ solver'.printing = solver.printing
  BY <1>1, OneRead
<1>3. InUse'
  BY <1>1, <1>2 DEF InUse
<1>4. solver.input = <<>> /\ solver.output = <<Spoken(")")>> /\ ~solver.printing
  BY <1>1 DEF SessionInv, Pipes, HasLine
<1>5. Line = Spoken(")") /\ Idle'
  BY <1>2, <1>4, Short DEF Line, Idle
<1>6. /\ heard = [how |-> "sat", word |-> check, model |-> 0] /\ Word(fate[check]) = "sat"
      /\ check \in 0..NumChecks
  BY <1>1, CheckNumbers DEF SessionInv, Heard
<1>7. /\ heard' = [heard EXCEPT !.model = check] /\ at' = Enough
      /\ UNCHANGED <<caller, fate, wanted, check, told, outcomes>>
  BY <1>5 DEF ReadLines, Spoken
<1>8. heard \in Hearings
  BY DEF SessionInv, SessionTyped
<1>9. /\ heard'.how = "sat" /\ heard'.word = check /\ heard'.model = check
      /\ heard' \in Hearings
  BY <1>6, <1>7, <1>8 DEF Hearings
<1>10. (at' = "exit" /\ caller = "trial") \/ at' = "conclude"
  BY <1>7 DEF Enough
<1>11. SessionTyped' /\ OutcomesOK'
  BY <1>1, <1>2, <1>7, <1>9, <1>10, Onward DEF Stages, Underway
<1>12. Fated' /\ EndsWell' /\ Pipes'
  BY <1>1, <1>3, <1>5, <1>7, <1>10 DEF SessionInv, Fated, EndsWell, Pipes, Underway
<1>13. Heard'
  BY <1>6, <1>7, <1>9, <1>10 DEF Heard, Words
<1> QED BY <1>11, <1>12, <1>13 DEF SessionInv

LEMMA ExitStep ==
    ASSUME SessionInv, TellExit
    PROVE  SessionInv'
<1>1. at = "exit"
  BY DEF TellExit
<1>2. CASE ~Alive
  BY <1>1, <1>2, Unwritten DEF TellExit, Underway
<1>3. CASE Alive
  <2>1. /\ solver' = [solver EXCEPT !.input = Append(@, Order("exit"))]
        /\ told' = TRUE /\ at' = "conclude"
        /\ UNCHANGED <<caller, fate, wanted, check, heard, outcomes>>
    BY <1>3 DEF TellExit, Order
  <2>2. solver \in Solvers /\ InUse
    BY <1>1 DEF SessionInv, SessionTyped, EndsWell, Underway
  <2>3. Order("exit") \in Orders /\ solver.input \in Seq(Orders)
    BY <2>2, Orderly DEF SessionInv, Solvers
  <2>4. Append(solver.input, Order("exit")) \in Seq(Orders)
    BY <2>3, Added
  <2>5. solver' \in Solvers /\ solver'.end = solver.end
    BY <2>1, <2>2, <2>4 DEF Solvers
  <2>6. caller # "tests"
    BY <1>1 DEF SessionInv, Fated
  <2>7. SessionTyped'
    BY <1>1, <2>1, <2>5 DEF SessionInv, SessionTyped, Stages, Underway
  <2>8. OutcomesOK'
    BY <2>1 DEF SessionInv, OutcomesOK, OutcomeOK
  <2>9. Fated' /\ EndsWell' /\ Pipes' /\ Heard'
    BY <1>1, <2>1, <2>6 DEF SessionInv, Fated, EndsWell, Pipes, Heard, Underway
  <2> QED BY <2>7, <2>8, <2>9 DEF SessionInv
<1> QED BY <1>2, <1>3

LEMMA SettleStep ==
    ASSUME SessionInv, Settle
    PROVE  SessionInv'
<1>1. at = "conclude" /\ solver' = solver /\ solver \in Solvers /\ heard \in Hearings
  BY DEF Settle, SessionInv, SessionTyped
<1>2. caller = "tests" => InUse' /\ Idle'
  BY <1>1 DEF SessionInv, EndsWell, InUse, Pipes, Idle
<1>3. /\ heard.how = Word(fate[check]) /\ heard.how \in Words /\ heard.word = check
      /\ heard.model \in {0, check}
      /\ heard.how = "sat" /\ wanted[check] => heard.model = check
  BY <1>1 DEF SessionInv, Heard
<1>4. CASE Finish(heard)
  <2>1. OutcomeOK(Outcome(heard))
    BY <1>3 DEF OutcomeOK, Outcome, Words
  <2> QED BY <1>1, <1>2, <1>4, <2>1, FinishStep
<1>5. CASE Finish([heard EXCEPT !.how = "rejected"])
  <2> DEFINE said == [heard EXCEPT !.how = "rejected"]
  <2>1. /\ said \in Hearings /\ said.how = "rejected"
        /\ said.word = heard.word /\ said.model = heard.model
    BY <1>1 DEF Hearings, Endings
  <2> HIDE DEF said
  <2>2. OutcomeOK(Outcome(said))
    BY <1>3, <2>1 DEF OutcomeOK, Outcome, Words
  <2>3. Finish(said)
    BY <1>5 DEF said
  <2> QED BY <1>1, <1>2, <2>1, <2>2, <2>3, FinishStep
<1> QED BY <1>4, <1>5 DEF Settle

LEMMA PerishStep ==
    ASSUME SessionInv, Perish
    PROVE  SessionInv'
<1>1. /\ at \notin {"ended", "aborted"} /\ solver' = [solver EXCEPT !.end = "perished"]
      /\ UNCHANGED <<caller, fate, wanted, check, at, heard, told, outcomes>>
      /\ solver \in Solvers /\ at \in Stages /\ heard \in Hearings
  BY DEF Perish, SessionInv, SessionTyped
<1>2. /\ solver' \in Solvers /\ solver'.end = "perished"
      /\ solver'.input = solver.input /\ solver'.output = solver.output
      /\ solver'.script = solver.script /\ solver'.printing = solver.printing
  BY <1>1 DEF Solvers, Ends
<1>3. SessionTyped' /\ OutcomesOK'
  BY <1>1, <1>2, Onward
<1>4. Fated' /\ EndsWell' /\ Heard'
  BY <1>1, <1>2 DEF SessionInv, Fated, EndsWell, InUse, Heard
<1>5. Pipes'
  BY <1>1, <1>2 DEF SessionInv, Pipes, Idle, Reset, Order, Spoken
<1> QED BY <1>3, <1>4, <1>5 DEF SessionInv

LEMMA Saying ==
    ASSUME NEW s \in Solvers, NEW l \in Said
    PROVE  /\ Say(s, l) \in Solvers /\ Say(s, l).input = s.input
           /\ Say(s, l).output = Append(s.output, l) /\ Say(s, l).end = s.end
           /\ Say(s, l).script = s.script /\ Say(s, l).printing = s.printing
<1>1. s.output \in Seq(Said)
  BY DEF Solvers
<1>2. Append(s.output, l) \in Seq(Said)
  BY <1>1, Added
<1> QED BY <1>2 DEF Say, Solvers

\* What a command makes of the process.
LEMMA Obedience ==
    ASSUME SessionTyped, NEW s \in Solvers, NEW c \in Orders
    PROVE  /\ Obeyed(s, c) \in Solvers /\ Obeyed(s, c).input = s.input
           /\ c.cmd = "reset" =>
                 /\ Obeyed(s, c).script = 0 /\ Obeyed(s, c).output = s.output
                 /\ Obeyed(s, c).end = s.end /\ Obeyed(s, c).printing = s.printing
           /\ c.cmd = "script" /\ s.script = 0 =>
                 /\ Obeyed(s, c).script = c.of /\ Obeyed(s, c).output = s.output
                 /\ Obeyed(s, c).end = s.end /\ Obeyed(s, c).printing = s.printing
           /\ c.cmd = "check-sat" =>
                 /\ Obeyed(s, c).script = s.script
                 /\ Obeyed(s, c).output
                       = Append(s.output, [line |-> Verdict(s), of |-> s.script])
                 /\ Obeyed(s, c).end = s.end /\ Obeyed(s, c).printing = s.printing
           /\ c.cmd = "get-model" /\ Verdict(s) = "sat" =>
                 /\ Obeyed(s, c).script = s.script
                 /\ Obeyed(s, c).output = Append(s.output, [line |-> "(", of |-> s.script])
                 /\ Obeyed(s, c).end = s.end /\ Obeyed(s, c).printing = TRUE
<1>1. 0 \in 0..NumChecks /\ s.script \in 0..NumChecks /\ c.of \in 0..NumChecks
  BY ChecksType DEF Solvers, Orders
<1>2. Verdict(s) \in Fates
  <2>1. CASE s.script = 0
    BY <2>1 DEF Verdict, Fates
  <2>2. CASE s.script # 0
    <3>1. s.script \in Checks
      BY <1>1, <2>2, ChecksType DEF Checks
    <3>2. fate[s.script] \in Fates
      BY <3>1 DEF SessionTyped
    <3> QED BY <2>2, <3>2, WordOf DEF Verdict
  <2> QED BY <2>1, <2>2
<1> DEFINE l(line) == [line |-> line, of |-> s.script]
<1>3. l("error") \in Said /\ l(Verdict(s)) \in Said /\ l("(") \in Said
  BY <1>1, <1>2 DEF Said
<1>4. Fails(s) \in Solvers /\ Fails(s).input = s.input
  <2> DEFINE t == Say(s, l("error"))
  <2>1. t \in Solvers /\ t.input = s.input
    BY <1>3, Saying
  <2>2. Fails(s) = [t EXCEPT !.end = "error"]
    BY DEF Fails
  <2> HIDE DEF t
  <2> QED BY <2>1, <2>2 DEF Solvers, Ends
<1>5. CASE c.cmd = "reset"
  BY <1>1, <1>5 DEF Obeyed, Solvers
<1>6. CASE c.cmd \in {"script", "part"}
  <2>1. Obeyed(s, c) = IF s.script = 0 THEN [s EXCEPT !.script = c.of] ELSE Fails(s)
    BY <1>6 DEF Obeyed
  <2>2. CASE s.script = 0
    BY <1>1, <1>6, <2>1, <2>2 DEF Solvers
  <2>3. CASE s.script # 0
    BY <1>4, <1>6, <2>1, <2>3
  <2> QED BY <2>2, <2>3
<1>7. CASE c.cmd = "check-sat"
  <2>1. Obeyed(s, c) = Say(s, l(Verdict(s)))
    BY <1>7 DEF Obeyed
  <2> QED BY <1>3, <1>7, <2>1, Saying
<1>8. CASE c.cmd = "get-model"
  <2> DEFINE t == Say(s, l("("))
  <2>1. Obeyed(s, c) = IF Verdict(s) = "sat" THEN [t EXCEPT !.printing = TRUE] ELSE Fails(s)
    BY <1>8 DEF Obeyed
  <2>2. /\ t \in Solvers /\ t.input = s.input /\ t.output = Append(s.output, l("("))
        /\ t.end = s.end /\ t.script = s.script
    BY <1>3, Saying
  <2> HIDE DEF t
  <2>3. CASE Verdict(s) = "sat"
    BY <1>8, <2>1, <2>2, <2>3 DEF Solvers
  <2>4. CASE Verdict(s) # "sat"
    BY <1>4, <1>8, <2>1, <2>4
  <2> QED BY <2>3, <2>4
<1>9. CASE c.cmd = "exit"
  BY <1>9 DEF Obeyed, Solvers, Ends
<1>10. c.cmd \in {"reset", "script", "part", "check-sat", "get-model", "exit"}
  BY DEF Orders
<1> QED BY <1>5, <1>6, <1>7, <1>8, <1>9, <1>10

LEMMA ObeyStep ==
    ASSUME SessionInv, Obey
    PROVE  SessionInv'
<1> DEFINE c == Head(solver.input)
           s == [solver EXCEPT !.input = Tail(@)]
<1>1. /\ solver.end = "" /\ ~solver.printing /\ solver.input # <<>> /\ solver' = Obeyed(s, c)
      /\ UNCHANGED <<caller, fate, wanted, check, at, heard, told, outcomes>>
      /\ solver \in Solvers /\ at \in Stages /\ heard \in Hearings
  BY DEF Obey, Alive, SessionInv, SessionTyped
<1>2. c \in Orders /\ Tail(solver.input) \in Seq(Orders)
  BY <1>1, Taken DEF Solvers
<1>3. /\ s \in Solvers /\ s.input = Tail(solver.input) /\ s.output = solver.output
      /\ s.end = "" /\ s.script = solver.script /\ s.printing = FALSE
  BY <1>1, <1>2 DEF Solvers
<1> HIDE DEF c, s
<1>4. /\ SessionTyped /\ check \in 1..NumChecks /\ check # 0
  <2>1. \A n \in 1..NumChecks : n # 0
    BY ChecksType
  <2> QED BY <2>1, CheckNumbers DEF SessionInv
<1>5. solver' \in Solvers /\ solver'.input = Tail(solver.input)
  BY <1>1, <1>2, <1>3, <1>4, Obedience
<1>6. SessionTyped' /\ OutcomesOK'
  BY <1>1, <1>5 DEF SessionInv, SessionTyped, OutcomesOK, OutcomeOK
<1>7. Fated' /\ Heard'
  BY <1>1 DEF SessionInv, Fated, Heard
<1>8. c = Reset => c.cmd = "reset"
  BY DEF Reset
<1>9. \A cmd : c = Order(cmd) => c.cmd = cmd /\ c.of = check
  BY DEF Order
<1>10. s.script = check => Verdict(s) = Word(fate[check])
  BY <1>4 DEF Verdict
<1>11. at \notin {"encode", "get-model", "exit", "model"}
       /\ ~(at \in {"compile", "conclude"} /\ caller = "tests")
  BY <1>1 DEF SessionInv, Pipes, Idle
<1>12. CASE at = "ask"
  <2>1. /\ solver.output = <<>>
        /\ \/ solver.input = <<Reset, Order("script")>>
           \/ solver.input = <<Order("script")>> /\ solver.script = 0
    BY <1>1, <1>12 DEF SessionInv, Pipes
  <2>2. CASE solver.input = <<Reset, Order("script")>>
    <3>1. c = Reset /\ solver'.input = <<Order("script")>>
      BY <1>5, <2>2, Short DEF c
    <3>2. /\ solver'.script = 0 /\ solver'.output = <<>> /\ solver'.end = ""
          /\ solver'.printing = FALSE
      BY <1>1, <1>2, <1>3, <1>4, <1>8, <2>1, <3>1, Obedience
    <3>3. Pipes'
      BY <1>1, <1>12, <3>1, <3>2 DEF Pipes, Order
    <3>4. EndsWell'
      BY <3>2 DEF EndsWell, InUse
    <3> QED BY <1>6, <1>7, <3>3, <3>4 DEF SessionInv
  <2>3. CASE solver.input = <<Order("script")>> /\ solver.script = 0
    <3>1. c = Order("script") /\ solver'.input = <<>>
      BY <1>5, <2>3, Short DEF c
    <3>2. /\ solver'.script = check /\ solver'.output = <<>> /\ solver'.end = ""
          /\ solver'.printing = FALSE
      <4>1. c.cmd = "script" /\ c.of = check
        BY <1>9, <3>1
      <4>2. s \in Solvers /\ c \in Orders /\ s.script = 0 /\ s.end = "" /\ s.printing = FALSE
            /\ s.output = <<>>
        BY <1>2, <1>3, <2>1, <2>3
      <4> QED BY <1>1, <1>4, <4>1, <4>2, Obedience
    <3>3. Pipes'
      BY <1>1, <1>12, <3>1, <3>2 DEF Pipes
    <3>4. EndsWell'
      BY <3>2 DEF EndsWell, InUse
    <3> QED BY <1>6, <1>7, <3>3, <3>4 DEF SessionInv
  <2> QED BY <2>1, <2>2, <2>3
<1>13. CASE at = "verdict"
  <2>1. /\ solver.output = <<>>
        /\ \/ solver.input = <<Reset, Order("script"), Order("check-sat")>>
           \/ solver.input = <<Order("script"), Order("check-sat")>> /\ solver.script = 0
           \/ solver.input = <<Order("check-sat")>> /\ solver.script = check
    BY <1>1, <1>13 DEF SessionInv, Pipes
  <2>2. CASE solver.input = <<Reset, Order("script"), Order("check-sat")>>
    <3>1. c = Reset /\ solver'.input = <<Order("script"), Order("check-sat")>>
      BY <1>5, <2>2, Short DEF c
    <3>2. /\ solver'.script = 0 /\ solver'.output = <<>> /\ solver'.end = ""
          /\ solver'.printing = FALSE
      BY <1>1, <1>2, <1>3, <1>4, <1>8, <2>1, <3>1, Obedience
    <3>3. Pipes'
      BY <1>1, <1>13, <3>1, <3>2 DEF Pipes, Order
    <3>4. EndsWell'
      BY <3>2 DEF EndsWell, InUse
    <3> QED BY <1>6, <1>7, <3>3, <3>4 DEF SessionInv
  <2>3. CASE solver.input = <<Order("script"), Order("check-sat")>> /\ solver.script = 0
    <3>1. c = Order("script") /\ solver'.input = <<Order("check-sat")>>
      BY <1>5, <2>3, Short DEF c
    <3>2. /\ solver'.script = check /\ solver'.output = <<>> /\ solver'.end = ""
          /\ solver'.printing = FALSE
      <4>1. c.cmd = "script" /\ c.of = check
        BY <1>9, <3>1
      <4>2. s \in Solvers /\ c \in Orders /\ s.script = 0 /\ s.end = "" /\ s.printing = FALSE
            /\ s.output = <<>>
        BY <1>2, <1>3, <2>1, <2>3
      <4> QED BY <1>1, <1>4, <4>1, <4>2, Obedience
    <3>3. Pipes'
      BY <1>1, <1>13, <3>1, <3>2 DEF Pipes, Order
    <3>4. EndsWell'
      BY <3>2 DEF EndsWell, InUse
    <3> QED BY <1>6, <1>7, <3>3, <3>4 DEF SessionInv
  <2>4. CASE solver.input = <<Order("check-sat")>> /\ solver.script = check
    <3>1. c = Order("check-sat") /\ solver'.input = <<>>
      BY <1>5, <2>4, Short DEF c
    <3>2. /\ solver'.script = check /\ solver'.end = "" /\ solver'.printing = FALSE
          /\ solver'.output = Append(s.output, [line |-> Verdict(s), of |-> s.script])
      BY <1>1, <1>2, <1>3, <1>4, <1>9, <2>4, <3>1, Obedience
    <3>3. solver'.output = <<Spoken(Word(fate[check]))>>
      <4>1. s.output = <<>> /\ s.script = check /\ Verdict(s) = Word(fate[check])
        BY <1>3, <1>10, <2>1, <2>4
      <4>2. solver'.output = Append(<<>>, Spoken(Word(fate[check])))
        BY <3>2, <4>1 DEF Spoken
      <4> QED BY <4>2, Short
    <3>4. Pipes'
      BY <1>1, <1>13, <3>1, <3>2, <3>3 DEF Pipes, Spoken
    <3>5. EndsWell'
      BY <3>2 DEF EndsWell, InUse
    <3> QED BY <1>6, <1>7, <3>4, <3>5 DEF SessionInv
  <2> QED BY <2>1, <2>2, <2>3, <2>4
<1>14. CASE at = "first line"
  <2>1. /\ solver.output = <<>> /\ solver.input = <<Order("get-model")>>
        /\ solver.script = check /\ Word(fate[check]) = "sat"
    BY <1>1, <1>14 DEF SessionInv, Pipes, Heard
  <2>2. c = Order("get-model") /\ solver'.input = <<>>
    BY <1>5, <2>1, Short DEF c
  <2>3. c.cmd = "get-model" /\ s.script = check /\ s.output = <<>> /\ Verdict(s) = "sat"
    BY <1>3, <1>9, <1>10, <2>1, <2>2
  <2>4. /\ solver'.script = check /\ solver'.end = "" /\ solver'.printing = TRUE
        /\ solver'.output = Append(s.output, [line |-> "(", of |-> s.script])
    BY <1>1, <1>2, <1>3, <1>4, <2>3, Obedience
  <2>5. solver'.output = <<Spoken("(")>>
    <3>1. solver'.output = Append(<<>>, Spoken("("))
      BY <2>3, <2>4 DEF Spoken
    <3> QED BY <3>1, Short
  <2>6. Pipes'
    BY <1>1, <1>14, <2>2, <2>4, <2>5 DEF Pipes, Spoken
  <2>7. EndsWell'
    BY <2>4 DEF EndsWell, InUse
  <2> QED BY <1>6, <1>7, <2>6, <2>7 DEF SessionInv
<1>15. CASE at \notin {"ask", "verdict", "first line"}
  <2>1. EndsWell' /\ Pipes'
    BY <1>1, <1>11, <1>15 DEF EndsWell, Pipes, Underway
  <2> QED BY <1>6, <1>7, <2>1 DEF SessionInv
<1> QED BY <1>12, <1>13, <1>14, <1>15

LEMMA EndModelStep ==
    ASSUME SessionInv, EndModel
    PROVE  SessionInv'
<1> DEFINE l == [line |-> ")", of |-> solver.script]
           s == Say(solver, l)
<1>1. /\ solver.end = "" /\ solver.printing /\ solver' = [s EXCEPT !.printing = FALSE]
      /\ UNCHANGED <<caller, fate, wanted, check, at, heard, told, outcomes>>
      /\ solver \in Solvers
  BY DEF EndModel, Alive, SessionInv, SessionTyped
<1>2. l \in Said
  BY <1>1 DEF Said, Solvers
<1>3. /\ s \in Solvers /\ s.input = solver.input /\ s.output = Append(solver.output, l)
      /\ s.end = solver.end /\ s.script = solver.script
  BY <1>1, <1>2, Saying
<1> HIDE DEF s
<1>4. /\ solver' \in Solvers /\ solver'.input = solver.input
      /\ solver'.output = Append(solver.output, l)
      /\ solver'.end = "" /\ solver'.script = solver.script /\ solver'.printing = FALSE
  BY <1>1, <1>3 DEF Solvers
<1>5. SessionTyped' /\ OutcomesOK'
  BY <1>1, <1>4 DEF SessionInv, SessionTyped, OutcomesOK, OutcomeOK
<1>6. Fated' /\ Heard' /\ EndsWell'
  BY <1>1, <1>4 DEF SessionInv, Fated, Heard, EndsWell, InUse
<1>7. at \notin {"encode", "ask", "verdict", "get-model", "exit"}
      /\ ~(at \in {"compile", "conclude"} /\ caller = "tests")
  BY <1>1 DEF SessionInv, Pipes, Idle
<1>8. CASE at = "first line"
  <2>1. solver.script = check /\ solver.input = <<>> /\ solver.output = <<Spoken("(")>>
    BY <1>1, <1>8 DEF SessionInv, Pipes
  <2>2. l = Spoken(")")
    BY <2>1 DEF Spoken
  <2>3. solver'.output = <<Spoken("("), Spoken(")")>>
    BY <1>4, <2>1, <2>2, Pair
  <2>4. Pipes'
    BY <1>1, <1>4, <1>8, <2>1, <2>3 DEF Pipes, Spoken
  <2> QED BY <1>5, <1>6, <2>4 DEF SessionInv
<1>9. CASE at = "model"
  <2>1. solver.script = check /\ solver.input = <<>> /\ solver.output = <<>>
    BY <1>1, <1>9 DEF SessionInv, Pipes
  <2>2. l = Spoken(")")
    BY <2>1 DEF Spoken
  <2>3. solver'.output = <<Spoken(")")>>
    BY <1>4, <2>1, <2>2, Short
  <2>4. Pipes'
    BY <1>1, <1>4, <1>9, <2>1, <2>3 DEF Pipes, Spoken
  <2> QED BY <1>5, <1>6, <2>4 DEF SessionInv
<1>10. CASE at \notin {"first line", "model"}
  <2>1. Pipes'
    BY <1>1, <1>7, <1>10 DEF Pipes
  <2> QED BY <1>5, <1>6, <2>1 DEF SessionInv
<1> QED BY <1>8, <1>9, <1>10

-----------------------------------------------------------------------------
(* The theorems. *)

\* Every step of the caller and of the process keeps the session's invariant.
LEMMA SessionStep ==
    ASSUME SessionInv, [SessionNext]_sessionVars
    PROVE  SessionInv'
<1>1. CASE CallerStep
  BY <1>1, CompileStep, SpawnStep, ConstantsStep, EncodeAssertsStep, EncodeFailsStep, AskVerdictStep,
     VerdictStep, AskModelStep, FirstLineStep, EofStep, LinesStep, ExitStep, SettleStep
     DEF CallerStep
<1>2. CASE Obey
  BY <1>2, ObeyStep
<1>3. CASE EndModel
  BY <1>3, EndModelStep
<1>4. CASE Perish
  BY <1>4, PerishStep
<1>5. CASE UNCHANGED sessionVars
  <2>1. UNCHANGED <<caller, fate, wanted, check, at, solver, heard, told, outcomes>>
    BY <1>5 DEF sessionVars
  <2>2. SessionTyped' /\ Fated' /\ EndsWell' /\ Heard'
    BY <2>1 DEF SessionInv, SessionTyped, Fated, EndsWell, InUse, Heard
  <2>3. Pipes'
    BY <2>1 DEF SessionInv, Pipes, Idle, Order, Spoken
  <2>4. OutcomesOK'
    BY <2>1 DEF SessionInv, OutcomesOK, OutcomeOK
  <2> QED BY <2>2, <2>3, <2>4 DEF SessionInv
<1> QED BY <1>1, <1>2, <1>3, <1>4, <1>5 DEF SessionNext, ReadOn, Over

\* At every step the pipes hold only what belongs to the check at hand.
THEOREM SessionInvariant == SessionSpec => []SessionInv
  BY SessionStarts, SessionStep, PTL DEF SessionSpec

\* Each check that was made has one outcome.
LEMMA SessionTypesHold == SessionInv => SessionTypes
  BY DEF SessionInv, SessionTyped, SessionTypes, Stages, Underway

\* Verdicts and models are those of the check they are given for.
LEMMA AnswersAreOwn == SessionInv => AnswersOwn
<1> SUFFICES ASSUME SessionInv, NEW i \in DOMAIN outcomes
             PROVE  LET o == outcomes[i] IN
                    /\ o.word \in {0, o.check} /\ o.model \in {0, o.check}
                    /\ o.how \in {"sat", "unsat", "unknown"} => o.how = Word(fate[o.check])
                    /\ o.how = "sat" /\ o.word # 0 /\ wanted[o.check] => o.model = o.check
  BY DEF AnswersOwn
<1>1. i \in 1..Len(outcomes)
  BY LenProperties DEF SessionInv, SessionTyped
<1> QED BY <1>1 DEF SessionInv, OutcomesOK, OutcomeOK, Words

\* An exception has its reason in the check itself or in the end of its process.
LEMMA ErrorsAreOwn == SessionInv => ErrorsOwn
<1> SUFFICES ASSUME SessionInv, NEW i \in DOMAIN outcomes
             PROVE  LET o == outcomes[i] IN
                    o.how = "error" =>
                        \/ o.end = "perished"
                        \/ fate[o.check] \in {"uncompiled", "unencodable"}
                        \/ fate[o.check] = "unknown" /\ caller = "ffi"
  BY DEF ErrorsOwn
<1>1. i \in 1..Len(outcomes)
  BY LenProperties DEF SessionInv, SessionTyped
<1> QED BY <1>1 DEF SessionInv, OutcomesOK, OutcomeOK

\* A check begins with no answer on its way.
LEMMA BeginsInStep == SessionInv => BegunInStep
  BY DEF SessionInv, Pipes, Idle, BegunInStep

\* Checks on one process stay apart, however each of them ends.
THEOREM ChecksAreApart == SessionSpec => []ChecksApart
<1>1. SessionInv => ChecksApart
  BY BeginsInStep, AnswersAreOwn, ErrorsAreOwn DEF ChecksApart
<1> QED BY <1>1, SessionInvariant, PTL

-----------------------------------------------------------------------------
(* The programs together. *)

\* The program that runs keeps its invariant; the others do not move.
SymccInv ==
    /\ program \in Programs
    /\ program = "fuzz"    => IInv
    /\ program = "encoder" => EncoderInv
    /\ program = "session" => SessionInv

\* The inductive invariant of whichever program runs.
THEOREM SymccInvariance == SymccSpec => []SymccInv
<1>1. ASSUME SymccInit PROVE SymccInv
  BY <1>1, InitInvariant, EncoderStarts, SessionStarts DEF SymccInit, SymccInv
<1>2. ASSUME SymccInv, [SymccNext]_symccVars PROVE SymccInv'
  <2>1. program' = program /\ program \in Programs
    BY <1>2 DEF SymccNext, OthersUnchanged, symccVars, SymccInv
  <2>2. CASE program = "fuzz"
    <3>1. IInv /\ [Next]_vars
      BY <1>2, <2>2 DEF SymccNext, symccVars, SymccInv
    <3> QED BY <2>1, <2>2, <3>1, FuzzStep DEF SymccInv
  <2>3. CASE program = "encoder"
    <3>1. EncoderInv /\ [EncoderNext]_encoderVars
      BY <1>2, <2>3 DEF SymccNext, symccVars, SymccInv
    <3> QED BY <2>1, <2>3, <3>1, EncoderStep DEF SymccInv
  <2>4. CASE program = "session"
    <3>1. SessionInv /\ [SessionNext]_sessionVars
      BY <1>2, <2>4 DEF SymccNext, symccVars, SymccInv
    <3> QED BY <2>1, <2>4, <3>1, SessionStep DEF SymccInv
  <2> QED BY <2>1, <2>2, <2>3, <2>4 DEF Programs
<1> QED BY <1>1, <1>2, PTL DEF SymccSpec

\* The variables have their types, each check has one outcome, only what has a name is in the
\* encoder's tables, and no process is handed out more often than the limit says.
THEOREM SymccTyped == SymccSpec => []TypesOK
<1>1. SymccInv => TypesOK
  BY FuzzTyped, EncoderTyped, SessionTypesHold DEF SymccInv, TypesOK
<1> QED BY <1>1, SymccInvariance, PTL
=============================================================================
