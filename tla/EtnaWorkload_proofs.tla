------------------------- MODULE EtnaWorkload_proofs -------------------------
(***************************************************************************)
(* The properties of the workload scripts, for every number of tasks,      *)
(* trials and runs, and wherever the runs are killed.                      *)
(***************************************************************************)
EXTENDS EtnaWorkload, TLAPS, SequenceTheorems

Row   == [run : Nat, task : Tasks, trial : Nat, on : SUBSET Tasks, torn : BOOLEAN]
Hows  == {"done", "failed", "unrestored", "unwritten", "killed"}
Entry == [script : {"experiment", "validate"}, how : Hows,
          sel : SUBSET Tasks, from : SUBSET Tasks, to : SUBSET Tasks]

Installed == pc \in {"build", "trial", "witness"}

\* The inductive invariant. A running script has the patch of its task in the tree it found,
\* and no other; the tasks that are behind it were not in that tree; what the rows say of the
\* tree is what was there; the runs that ended have the properties.
TypesOK ==
    /\ TypeOK
    /\ from \subseteq Tasks /\ caught \subseteq Tasks
    /\ rows \in Seq(Row) /\ store \in Seq(Row) /\ log \in Seq(Entry)
PcFits ==
    /\ script = "none" <=> pc = "none"
    /\ script # "none" => Len(log) < MaxRuns
    /\ pc = "trial" => script = "experiment"
    /\ pc \in {"witness", "witnessBase"} => script = "validate"
    /\ Installed \/ pc = "witnessBase" => task \in Tasks /\ task \notin from
    /\ script = "validate" => sel = Tasks
    /\ pc = "witnessBase" => task \in caught
TreeIs == script # "none" => tree = from \cup (IF Installed THEN {task} ELSE {})
Behind ==
    script # "none" => \A t \in sel : t < task =>
        t \notin from /\ (script = "validate" => t \in caught)
Idle == script = "none" => task = 1
RowsFit ==
    /\ script # "experiment" => rows = <<>>
    /\ \A i \in 1..Len(rows) :
            /\ rows[i].run = Len(log) + 1 /\ rows[i].on = from \cup {rows[i].task}
            /\ ~rows[i].torn
\* A run holds one row for each trial it has been through of each task it was asked for.
Measured(t, k) == t < task \/ (pc = "trial" /\ t = task /\ k < trial)
RowsDone ==
    script = "experiment" =>
        /\ pc \in {"build", "trial"} => task \in sel
        /\ pc = "build" => trial = 1
        /\ pc = "trial" => trial >= 1
        /\ \A i \in 1..Len(rows) :
                /\ rows[i].task \in sel /\ rows[i].trial \in 1..Trials
                /\ Measured(rows[i].task, rows[i].trial)
        /\ \A t \in sel, k \in 1..Trials :
                Measured(t, k) => \E i \in 1..Len(rows) : rows[i].task = t /\ rows[i].trial = k
        /\ \A i, j \in 1..Len(rows) :
                rows[i].task = rows[j].task /\ rows[i].trial = rows[j].trial => i = j
StoreFits ==
    \A i \in 1..Len(store) :
        LET r == store[i] IN
        /\ r.run \in 1..Len(log)
        /\ r.on = log[r.run].from \cup {r.task}
        /\ log[r.run].sel = Tasks => log[r.run].from = {}
        /\ r.torn => CutShort(r.run)
\* The runs append one after the other.
InOrder == \A i, j \in 1..Len(store) : i <= j => store[i].run <= store[j].run
\* What the runs stored, leaving aside what reads back.
Owed(r) ==
    LET stored == {<<store[i].task, store[i].trial>> : i \in RowsOf(r)} IN
    /\ IF CutShort(r) THEN stored \subseteq log[r].sel \X (1..Trials) ELSE stored = Asked(r)
    /\ \A i, j \in RowsOf(r) :
            store[i].task = store[j].task /\ store[i].trial = store[j].trial => i = j
RowsOwed == \A r \in DOMAIN log : Owed(r)
LogFits == TreeGivenBack /\ ValidationMeans

IInv == /\ TypesOK /\ PcFits /\ TreeIs /\ Behind /\ Idle /\ RowsFit /\ RowsDone
        /\ StoreFits /\ InOrder /\ LogFits /\ RowsOwed

-----------------------------------------------------------------------------

\* The scripts start with the invariant: nothing is patched, nothing is logged.
LEMMA InitEstablishes == Init => IInv
<1> SUFFICES ASSUME Init PROVE IInv
  OBVIOUS
<1>1. TypesOK
  BY CountsType DEF Init, TypesOK, TypeOK, Tasks
<1>2. RowsOwed /\ RowsDone /\ InOrder
  BY EmptySeq DEF Init, RowsOwed, RowsDone, InOrder
<1>3. PcFits /\ TreeIs /\ Behind /\ Idle /\ RowsFit /\ StoreFits /\ LogFits
  BY DEF Init, PcFits, TreeIs, Behind, Idle, RowsFit, StoreFits, LogFits, TreeGivenBack,
         ValidationMeans, Installed
<1> QED
  BY <1>1, <1>2, <1>3 DEF IInv

\* Going on to the next step of a run: what a step may change, in terms of the new values.
LEMMA GoingOn ==
    ASSUME IInv, NEW p, NEW t, Goto(p, t), script # "none", p # "none",
           TypeOK', rows' \in Seq(Row), PcFits', TreeIs', Behind', RowsFit', RowsDone', Idle'
    PROVE  IInv'
<1>1. UNCHANGED <<caught, from, store, log>>
  BY DEF Goto
<1>2. TypesOK'
  BY <1>1 DEF IInv, TypesOK
<1>3. StoreFits' /\ InOrder'
  BY <1>1 DEF IInv, StoreFits, InOrder, CutShort
<1>4. LogFits'
  BY <1>1 DEF IInv, LogFits, TreeGivenBack, GivesBack, ValidationMeans
<1>5. RowsOwed'
  BY <1>1 DEF IInv, RowsOwed, Owed, RowsOf, Asked, CutShort
<1> QED
  BY <1>2, <1>3, <1>4, <1>5 DEF IInv

\* The first rows of a sequence, the last of them torn.
LEMMA TornRows ==
    ASSUME NEW s \in Seq(Row), NEW k \in 1..Len(s), \A i \in 1..k : s[i] \in Row,
           Len(s) = k
    PROVE  LET w == [s EXCEPT ![k].torn = TRUE] IN
           /\ w \in Seq(Row) /\ Len(w) = k
           /\ \A i \in 1..k : /\ w[i].run = s[i].run /\ w[i].task = s[i].task
                             /\ w[i].trial = s[i].trial /\ w[i].on = s[i].on
<1> DEFINE row == [s[k] EXCEPT !.torn = TRUE]
           w == [s EXCEPT ![k] = row]
<1>2. row \in Row /\ row.run = s[k].run /\ row.task = s[k].task /\ row.trial = s[k].trial
      /\ row.on = s[k].on
  BY DEF Row
<1> HIDE DEF row
<1>3. w \in Seq(Row) /\ Len(w) = k /\ \A i \in 1..k : w[i] = IF i = k THEN row ELSE s[i]
  BY <1>2, ExceptSeq
<1>4. [s EXCEPT ![k].torn = TRUE] = w
  BY DEF row
<1> HIDE DEF w
<1> QED
  BY <1>2, <1>3, <1>4

\* What reaches the store is a sequence of the rows held, but for a torn line of a run whose
\* write was cut short.
LEMMA WrittenRows ==
    ASSUME IInv, NEW how \in Hows, NEW w \in Written(how)
    PROVE  /\ w \in Seq(Row) /\ Len(w) <= Len(rows)
           /\ \A i \in 1..Len(w) :
                /\ w[i].run = rows[i].run /\ w[i].task = rows[i].task
                /\ w[i].trial = rows[i].trial /\ w[i].on = rows[i].on
                /\ w[i].torn => how \in {"killed", "unwritten"}
           /\ w # <<>> => how = "done" \/ AllDone
           /\ how \notin {"killed", "unwritten"} => w = IF how = "done" THEN rows ELSE <<>>
<1>1. rows \in Seq(Row) /\ Len(rows) \in Nat /\ \A i \in 1..Len(rows) : rows[i] \in Row
  BY LenProperties, ElementOfSeq DEF IInv, TypesOK
<1>2. CASE w = rows /\ how = "done"
  BY <1>1, <1>2 DEF IInv, RowsFit
<1>3. CASE w = <<>> /\ how # "done"
  BY <1>1, <1>3, EmptySeq
<1>4. CASE w \in Cuts /\ how \in {"killed", "unwritten"} /\ AllDone
  <2>1. PICK k \in 0..Len(rows) :
            LET s == SubSeq(rows, 1, k) IN w = s \/ (k >= 1 /\ w = [s EXCEPT ![k].torn = TRUE])
    BY <1>1, <1>4 DEF Cuts
  <2> DEFINE s == SubSeq(rows, 1, k)
  <2>2. s \in Seq(Row) /\ Len(s) = k /\ \A i \in 1..k : s[i] = rows[i]
    BY <1>1, SubSeqProperties
  <2>3. k \in Nat /\ k <= Len(rows) /\ 1..k \subseteq 1..Len(rows)
    BY <1>1
  <2>4. ASSUME k >= 1
        PROVE  LET v == [s EXCEPT ![k].torn = TRUE] IN
               /\ v \in Seq(Row) /\ Len(v) = k
               /\ \A i \in 1..k : /\ v[i].run = s[i].run /\ v[i].task = s[i].task
                                 /\ v[i].trial = s[i].trial /\ v[i].on = s[i].on
    <3>1. k \in 1..Len(s) /\ \A i \in 1..k : s[i] \in Row
      BY <1>1, <2>2, <2>3, <2>4
    <3> HIDE DEF s
    <3> QED
      BY <2>2, <3>1, TornRows
  <2> HIDE DEF s
  <2>5. w = s \/ (k >= 1 /\ w = [s EXCEPT ![k].torn = TRUE])
    BY <2>1 DEF s
  <2>6. CASE w = s
    BY <1>4, <2>2, <2>3, <2>6
  <2>7. CASE k >= 1 /\ w = [s EXCEPT ![k].torn = TRUE]
    <3>1. /\ w \in Seq(Row) /\ Len(w) = k
          /\ \A i \in 1..k : /\ w[i].run = s[i].run /\ w[i].task = s[i].task
                            /\ w[i].trial = s[i].trial /\ w[i].on = s[i].on
      BY <2>4, <2>7
    <3> QED
      BY <1>4, <2>2, <2>3, <3>1
  <2> QED
    BY <2>5, <2>6, <2>7
<1> QED
  BY <1>2, <1>3, <1>4 DEF Written, Hows

\* What a run that is through its tasks holds is what it was asked for.
LEMMA RowsWhole ==
    ASSUME IInv, script = "experiment", AllDone
    PROVE  {<<rows[i].task, rows[i].trial>> : i \in 1..Len(rows)} = sel \X (1..Trials)
<1>1. \A t \in sel, k \in 1..Trials : Measured(t, k)
  BY CountsType DEF AllDone, Tasks, IInv, TypesOK, TypeOK, Measured
<1>2. \A i \in 1..Len(rows) : rows[i].task \in sel /\ rows[i].trial \in 1..Trials
  BY DEF IInv, RowsDone
<1>3. \A t \in sel, k \in 1..Trials :
        \E i \in 1..Len(rows) : rows[i].task = t /\ rows[i].trial = k
  BY <1>1 DEF IInv, RowsDone
<1> DEFINE pairs == {<<rows[i].task, rows[i].trial>> : i \in 1..Len(rows)}
<1>4. pairs \subseteq sel \X (1..Trials)
  BY <1>2
<1>5. ASSUME NEW u \in sel, NEW k \in 1..Trials PROVE <<u, k>> \in pairs
  <2>1. PICK i \in 1..Len(rows) : rows[i].task = u /\ rows[i].trial = k
    BY <1>3, <1>5
  <2> QED
    BY <2>1
<1> HIDE DEF pairs
<1>6. sel \X (1..Trials) \subseteq pairs
  BY <1>5
<1>7. pairs = sel \X (1..Trials)
  BY <1>4, <1>6
<1> QED
  BY <1>7 DEF pairs

\* The end of a run.
LEMMA Ending ==
    ASSUME IInv, script # "none", NEW how \in Hows,
           NEW t \in SUBSET Tasks, End(how, t),
           how = "done" => AllDone,
           t = from \/ (Installed /\ t = from \cup {task}),
           Installed /\ t # from =>
                /\ how # "done"
                /\ script = "experiment" => how \in {"killed", "unrestored"}
    PROVE  IInv'
<1> DEFINE e == [script |-> script, how |-> how, sel |-> sel, from |-> from, to |-> t]
<1>1. /\ tree' = t /\ script' = "none" /\ pc' = "none" /\ sel' = {} /\ task' = 1
      /\ trial' = 0 /\ rows' = <<>> /\ from' = {} /\ caught' = caught
      /\ log' = Append(log, e)
  BY DEF End
<1>2. /\ log \in Seq(Entry) /\ e \in Entry /\ Len(log) \in Nat /\ DOMAIN log = 1..Len(log)
  <2>1. script \in {"experiment", "validate"} /\ sel \in SUBSET Tasks /\ from \in SUBSET Tasks
    BY DEF IInv, TypesOK, TypeOK
  <2> QED
    BY <2>1, LenProperties DEF IInv, TypesOK, Entry, Hows
<1>3. /\ log' \in Seq(Entry) /\ Len(log') = Len(log) + 1 /\ DOMAIN log' = 1..(Len(log) + 1)
      /\ \A i \in 1..Len(log) : log'[i] = log[i]
      /\ log'[Len(log) + 1] = e
  <2> HIDE DEF e
  <2> QED
    BY <1>1, <1>2, AppendProperties, LenProperties
<1>4. AllDone => /\ sel = Tasks => from = {}
                 /\ script = "validate" => caught = Tasks
  <2> SUFFICES ASSUME AllDone
               PROVE  /\ sel = Tasks => from = {}
                      /\ script = "validate" => caught = Tasks
    OBVIOUS
  <2>1. \A u \in Tasks : u < task
    BY CountsType DEF AllDone, Tasks, IInv, TypesOK, TypeOK
  <2> QED
    BY <2>1 DEF IInv, TypesOK, Behind, PcFits
<1>5. PICK w \in Written(how) : store' = store \o w
  BY DEF End
<1>6. /\ w \in Seq(Row) /\ Len(w) <= Len(rows)
      /\ \A i \in 1..Len(w) :
            /\ w[i].run = rows[i].run /\ w[i].task = rows[i].task
            /\ w[i].trial = rows[i].trial /\ w[i].on = rows[i].on
            /\ w[i].torn => how \in {"killed", "unwritten"}
      /\ w # <<>> => AllDone
      /\ how = "done" => w = rows
      /\ how \in {"failed", "unrestored"} => w = <<>>
  BY <1>5, WrittenRows DEF Hows
<1>7. /\ store \in Seq(Row) /\ Len(store) \in Nat /\ Len(w) \in Nat
      /\ store' \in Seq(Row) /\ Len(store') = Len(store) + Len(w)
      /\ \A i \in 1..Len(store') :
            store'[i] = IF i <= Len(store) THEN store[i] ELSE w[i - Len(store)]
  BY <1>5, <1>6, ConcatProperties, LenProperties DEF IInv, TypesOK
<1>8. TypesOK'
  <2>1. Len(log) < MaxRuns
    BY DEF IInv, PcFits
  <2> QED
    BY <1>1, <1>2, <1>3, <1>7, <2>1, CountsType, EmptySeq DEF IInv, TypesOK, TypeOK
<1>9. PcFits' /\ TreeIs' /\ Behind' /\ Idle'
  BY <1>1 DEF PcFits, TreeIs, Behind, Installed, Idle
<1>10. RowsFit' /\ RowsDone'
  BY <1>1, EmptySeq DEF RowsFit, RowsDone
<1>11. StoreFits'
  <2> SUFFICES ASSUME NEW i \in 1..Len(store')
               PROVE  LET r == store'[i] IN
                      /\ r.run \in 1..Len(log')
                      /\ r.on = log'[r.run].from \cup {r.task}
                      /\ log'[r.run].sel = Tasks => log'[r.run].from = {}
                      /\ r.torn => log'[r.run].how \in {"killed", "unwritten"}
    BY DEF StoreFits, CutShort
  <2>1. CASE i <= Len(store)
    <3>1. i \in 1..Len(store) /\ store'[i] = store[i]
      BY <1>7, <2>1
    <3>2. /\ store[i].run \in 1..Len(log)
          /\ store[i].on = log[store[i].run].from \cup {store[i].task}
          /\ log[store[i].run].sel = Tasks => log[store[i].run].from = {}
          /\ store[i].torn => log[store[i].run].how \in {"killed", "unwritten"}
      BY <3>1 DEF IInv, StoreFits, CutShort
    <3> QED
      BY <1>2, <1>3, <3>1, <3>2
  <2>2. CASE i > Len(store)
    <3>1. i - Len(store) \in 1..Len(w) /\ store'[i] = w[i - Len(store)]
      BY <1>7, <2>2
    <3>2. i - Len(store) \in 1..Len(rows)
      BY <1>6, <1>7, <3>1, LenProperties DEF IInv, TypesOK
    <3>3. /\ store'[i].run = Len(log) + 1 /\ store'[i].on = from \cup {store'[i].task}
          /\ store'[i].torn => how \in {"killed", "unwritten"}
      BY <1>6, <3>1, <3>2 DEF IInv, RowsFit
    <3>4. AllDone
      <4>1. w # <<>>
        BY <3>1, <1>7, EmptySeq
      <4> QED
        BY <4>1, <1>6
    <3>5. log'[store'[i].run] = e
      BY <1>3, <3>3
    <3> QED
      BY <1>2, <1>3, <1>4, <3>3, <3>4, <3>5
  <2> QED
    BY <1>7, <2>1, <2>2
<1>12. LogFits'
  <2>1. \A r \in DOMAIN log : log'[r] = log[r]
    BY <1>2, <1>3
  <2>2. \A r \in DOMAIN log' : r \in DOMAIN log \/ log'[r] = e
    BY <1>2, <1>3
  <2>3. e.script = "validate" /\ e.how = "done" => e.from = {} /\ caught = Tasks
    BY <1>4 DEF IInv, PcFits
  <2>4. \/ e.to = e.from
        \/ /\ ~(e.how = "done" \/ (e.script = "experiment" /\ e.how \in {"failed", "unwritten"}))
           /\ \E u \in e.sel \ e.from : e.to = e.from \cup {u}
    <3>1. CASE t = from
      BY <3>1
    <3>2. CASE t # from
      <4>1. Installed /\ t = from \cup {task} /\ task \notin from
        BY <3>2 DEF IInv, PcFits
      <4>2. script = "experiment" \/ script = "validate"
        BY <1>2 DEF IInv, TypesOK, TypeOK
      <4>3. task \in sel
        BY <4>1, <4>2 DEF Installed, IInv, PcFits, RowsDone
      <4> QED
        BY <3>2, <4>1, <4>2, <4>3
    <3> QED
      BY <3>1, <3>2
  <2> HIDE DEF e
  <2>6. TreeGivenBack'
    BY <2>1, <2>2, <2>4 DEF IInv, LogFits, TreeGivenBack, GivesBack
  <2>5. ValidationMeans'
    BY <1>1, <2>1, <2>2, <2>3 DEF IInv, LogFits, ValidationMeans
  <2> QED
    BY <2>5, <2>6 DEF LogFits
<1>13. RowsOwed'
  <2> DEFINE old == Len(store)
             new == Len(log) + 1
  <2>1. /\ DOMAIN store = 1..old /\ DOMAIN store' = 1..(old + Len(w)) /\ old \in Nat
        /\ \A i \in 1..old : store'[i] = store[i] /\ store[i].run \in 1..Len(log)
        /\ \A i \in 1..Len(w) : store'[old + i] = w[i] /\ store'[old + i].run = new
    <3>1. \A i \in 1..Len(w) : w[i].run = new
      <4>1. \A i \in 1..Len(w) : i \in 1..Len(rows)
        BY <1>6, <1>7, LenProperties DEF IInv, TypesOK
      <4> QED
        BY <1>6, <4>1 DEF IInv, RowsFit
    <3>2. \A i \in 1..old : store[i].run \in 1..Len(log)
      BY DEF IInv, StoreFits
    <3>3. /\ \A i \in 1..old : i \in 1..Len(store') /\ i <= Len(store)
          /\ \A i \in 1..Len(w) : /\ old + i \in 1..Len(store') /\ ~(old + i <= Len(store))
                               /\ (old + i) - Len(store) = i
      BY <1>7
    <3>4. DOMAIN store = 1..old /\ DOMAIN store' = 1..(old + Len(w)) /\ old \in Nat
      BY <1>7, LenProperties
    <3> QED
      BY <1>7, <3>1, <3>2, <3>3, <3>4
  <2>2. \A i \in DOMAIN store' : i \in 1..old \/ \E k \in 1..Len(w) : i = old + k
    <3> SUFFICES ASSUME NEW i \in 1..(old + Len(w)), i \notin 1..old
                 PROVE  i - old \in 1..Len(w) /\ i = old + (i - old)
      BY <2>1
    <3> QED
      BY <1>7, <2>1
  <2>3. ASSUME NEW r, r = new
        PROVE  RowsOf(r)' = {old + k : k \in 1..Len(w)}
    <3>1. \A i \in 1..old : store'[i].run # r
      BY <1>2, <2>1, <2>3
    <3>2. \A k \in 1..Len(w) : old + k \in DOMAIN store' /\ store'[old + k].run = r
      BY <1>7, <2>1, <2>3
    <3> QED
      BY <2>2, <3>1, <3>2 DEF RowsOf
  <2>4. ASSUME NEW r \in DOMAIN log
        PROVE  RowsOf(r)' = RowsOf(r) /\ r # new
    <3>1. r # new /\ r \in Nat
      BY <1>2
    <3>2. \A k \in 1..Len(w) : store'[old + k].run # r
      BY <2>1, <3>1
    <3>3. 1..old \subseteq 1..(old + Len(w))
      BY <1>7
    <3> QED
      BY <2>1, <2>2, <3>1, <3>2, <3>3 DEF RowsOf
  <2> SUFFICES ASSUME NEW r \in DOMAIN log' PROVE Owed(r)'
    BY DEF RowsOwed
  <2>5. CASE r \in DOMAIN log
    <3>1. RowsOf(r)' = RowsOf(r) /\ log'[r] = log[r] /\ Owed(r)
      BY <1>2, <1>3, <2>4, <2>5 DEF IInv, RowsOwed
    <3>2. \A i \in RowsOf(r) : store'[i] = store[i]
      BY <2>1 DEF RowsOf
    <3> QED
      BY <2>5, <3>1, <3>2 DEF Owed, Asked, CutShort
  <2>6. CASE r = new
    <3> DEFINE cut == how \in {"killed", "unwritten"}
               pairs == {<<store'[i].task, store'[i].trial>> : i \in RowsOf(r)'}
    <3>1. log'[r] = e /\ RowsOf(r)' = {old + k : k \in 1..Len(w)}
      BY <1>3, <2>3, <2>6
    <3>2. \A k \in 1..Len(w) : /\ k \in 1..Len(rows)
                             /\ store'[old + k].task = rows[k].task
                             /\ store'[old + k].trial = rows[k].trial
      <4>1. \A k \in 1..Len(w) : k \in 1..Len(rows)
        BY <1>6, <1>7, LenProperties DEF IInv, TypesOK
      <4> QED
        BY <1>6, <2>1, <4>1
    <3>3. w # <<>> => script = "experiment"
      <4>1. w # <<>> => Len(w) >= 1
        BY <1>6, <1>7, EmptySeq
      <4>2. rows = <<>> => Len(w) <= 0
        BY <1>6
      <4> QED
        BY <1>7, <4>1, <4>2 DEF IInv, RowsFit
    <3>4. ASSUME NEW i \in RowsOf(r)', NEW j \in RowsOf(r)',
                 store'[i].task = store'[j].task, store'[i].trial = store'[j].trial
          PROVE  i = j
      <4>1. PICK k \in 1..Len(w), l \in 1..Len(w) : i = old + k /\ j = old + l
        BY <3>1
      <4>2. k \in 1..Len(rows) /\ l \in 1..Len(rows) /\ w # <<>>
        BY <3>2, <4>1, EmptySeq
      <4>3. rows[k].task = rows[l].task /\ rows[k].trial = rows[l].trial
        BY <3>2, <3>4, <4>1
      <4>4. k = l
        BY <3>3, <4>2, <4>3 DEF IInv, RowsDone
      <4> QED
        BY <4>1, <4>4
    <3>5. cut => pairs \subseteq sel \X (1..Trials)
      <4> SUFFICES ASSUME NEW i \in RowsOf(r)'
                   PROVE  store'[i].task \in sel /\ store'[i].trial \in 1..Trials
        OBVIOUS
      <4>1. PICK k \in 1..Len(w) : i = old + k
        BY <3>1
      <4>2. k \in 1..Len(rows) /\ w # <<>>
        BY <3>2, <4>1, EmptySeq
      <4> QED
        BY <3>2, <3>3, <4>1, <4>2 DEF IInv, RowsDone
    <3>6. ~cut => pairs = Asked(r)'
      <4>1. CASE how = "done" /\ script = "experiment"
        <5>1. w = rows /\ AllDone /\ Asked(r)' = sel \X (1..Trials)
          BY <1>6, <3>1, <4>1 DEF Asked
        <5>2. pairs = {<<rows[k].task, rows[k].trial>> : k \in 1..Len(rows)}
          <6> HIDE DEF old
          <6> QED
            BY <3>1, <3>2, <5>1
        <5> QED
          BY <4>1, <5>1, <5>2, RowsWhole
      <4>2. CASE ~(how = "done" /\ script = "experiment") /\ ~cut
        <5>1. w = <<>> /\ Asked(r)' = {}
          BY <1>6, <3>1, <4>2 DEF Asked, IInv, RowsFit, Hows
        <5>2. RowsOf(r)' = {}
          BY <3>1, <5>1, EmptySeq
        <5> QED
          BY <5>1, <5>2
      <4> QED
        BY <4>1, <4>2
    <3>7. /\ CutShort(r)' <=> cut
          /\ log'[r].sel = sel
      BY <3>1 DEF CutShort
    <3> HIDE DEF cut, pairs
    <3>8. /\ IF cut THEN pairs \subseteq sel \X (1..Trials) ELSE pairs = Asked(r)'
      BY <3>5, <3>6
    <3> USE DEF pairs
    <3> QED
      BY <3>4, <3>7, <3>8 DEF Owed
  <2> QED
    BY <1>2, <1>3, <2>5, <2>6
<1>14. InOrder'
  <2> SUFFICES ASSUME NEW i \in 1..Len(store'), NEW j \in 1..Len(store'), i <= j
               PROVE  store'[i].run <= store'[j].run
    BY DEF InOrder
  <2>1. \A k \in 1..Len(store') : k > Len(store) => store'[k].run = Len(log) + 1
    <3> SUFFICES ASSUME NEW k \in 1..Len(store'), k > Len(store)
                 PROVE  store'[k].run = Len(log) + 1
      OBVIOUS
    <3>1. k - Len(store) \in 1..Len(w) /\ store'[k] = w[k - Len(store)]
      BY <1>7
    <3>2. k - Len(store) \in 1..Len(rows)
      BY <1>6, <1>7, <3>1, LenProperties DEF IInv, TypesOK
    <3> QED
      BY <1>6, <3>1, <3>2 DEF IInv, RowsFit
  <2>2. \A k \in 1..Len(store') : k <= Len(store) =>
            k \in 1..Len(store) /\ store'[k] = store[k] /\ store[k].run \in 1..Len(log)
    BY <1>7 DEF IInv, StoreFits
  <2>3. CASE j <= Len(store)
    BY <1>7, <2>2, <2>3 DEF IInv, InOrder
  <2>4. CASE j > Len(store)
    <3>1. store'[j].run = Len(log) + 1
      BY <2>1, <2>4
    <3>2. store'[i].run \in 1..Len(log) \/ store'[i].run = Len(log) + 1
      BY <1>7, <2>1, <2>2
    <3>3. Len(log) \in Nat
      BY <1>2
    <3> QED
      BY <3>1, <3>2, <3>3
  <2> QED
    BY <1>7, <2>3, <2>4
<1> QED
  BY <1>8, <1>9, <1>10, <1>11, <1>12, <1>13, <1>14 DEF IInv

\* A command fails where the tree is as the run found it.
LEMMA AbortKeeps ==
    ASSUME IInv, script # "none", script = "validate" \/ ~Installed, Abort
    PROVE  IInv'
<1>1. /\ tree \in SUBSET Tasks /\ (~Installed => tree = from)
      /\ tree = from \/ (Installed /\ tree = from \cup {task})
  BY DEF IInv, TypesOK, TypeOK, TreeIs
<1>2. script = "experiment" => ~Installed
  OBVIOUS
<1> HIDE DEF Installed
<1> QED
  BY <1>1, <1>2, Ending DEF Abort, Hows

\* A command fails inside the `try`: `finally` takes the patch of the task out, if it can.
LEMMA RaiseKeeps ==
    ASSUME IInv, script = "experiment", Installed, Raise
    PROVE  IInv'
<1>1. tree \ {task} = from /\ tree \ {task} \in SUBSET Tasks
  BY DEF IInv, TypesOK, TypeOK, TreeIs, PcFits
<1>2. CASE End("failed", tree \ {task})
  BY <1>1, <1>2, Ending DEF Hows
<1>3. CASE End("unrestored", tree)
  <2>1. tree = from \cup {task} /\ tree \in SUBSET Tasks
    BY DEF IInv, TypesOK, TypeOK, TreeIs
  <2> QED
    BY <1>3, <2>1, Ending DEF Hows
<1> QED
  BY <1>2, <1>3 DEF Raise

\* A run starts on the tree it finds.
LEMMA StartKeeps ==
    ASSUME IInv, NEW s \in {"experiment", "validate"}, NEW T \in SUBSET Tasks,
           s = "validate" => T = Tasks, Start(s, T)
    PROVE  IInv'
<1>1. /\ script = "none" /\ Len(log) < MaxRuns /\ script' = s /\ pc' = "base" /\ sel' = T
      /\ from' = tree /\ UNCHANGED <<caught, tree, task, trial, rows, store, log>>
  BY DEF Start
<1>2. task = 1 /\ rows = <<>>
  BY <1>1 DEF IInv, Idle, RowsFit
<1>3. TypesOK'
  BY <1>1 DEF IInv, TypesOK, TypeOK
<1>4. PcFits' /\ TreeIs' /\ Idle'
  BY <1>1 DEF IInv, PcFits, TreeIs, Installed, TypesOK, TypeOK, Idle
<1>5. Behind' /\ RowsFit'
  BY <1>1, <1>2, EmptySeq DEF Behind, RowsFit, Tasks
<1>6. RowsDone'
  <2>1. rows' = <<>> /\ pc' = "base" /\ \A t \in sel', k \in 1..Trials : ~Measured(t, k)'
    BY <1>1, <1>2 DEF Measured, Tasks
  <2> QED
    BY <2>1, EmptySeq DEF RowsDone
<1>7. StoreFits' /\ InOrder' /\ LogFits' /\ RowsOwed'
  BY <1>1 DEF IInv, StoreFits, InOrder, LogFits, TreeGivenBack, GivesBack, ValidationMeans,
              RowsOwed, Owed, RowsOf, Asked, CutShort
<1> QED
  BY <1>3, <1>4, <1>5, <1>6, <1>7 DEF IInv

\* The loop moves to the next task.
LEMMA Advancing ==
    ASSUME IInv, script # "none", Goto("apply", from), task' = task + 1,
           UNCHANGED <<trial, rows>>, task \in Tasks,
           task \in sel => task \notin from /\ (script = "validate" => task \in caught),
           script = "experiment" =>
                IF task \in sel THEN pc = "trial" /\ TrialsDone ELSE pc = "apply"
    PROVE  IInv'
<1>1. pc' = "apply" /\ tree' = from /\ UNCHANGED <<caught, script, sel, from, store, log>>
  BY DEF Goto
<1>2. TypeOK' /\ rows' \in Seq(Row)
  BY <1>1, CountsType DEF IInv, TypesOK, TypeOK, Tasks
<1>3. PcFits' /\ TreeIs' /\ RowsFit' /\ Idle'
  BY <1>1 DEF IInv, PcFits, TreeIs, RowsFit, Installed, Idle
<1>4. Behind'
  <2>1. \A t \in sel : t < task + 1 => t < task \/ t = task
    BY CountsType DEF IInv, TypesOK, TypeOK, Tasks
  <2> QED
    BY <1>1, <2>1 DEF IInv, Behind
<1>5. RowsDone'
  <2> SUFFICES ASSUME script = "experiment" PROVE RowsDone'
    BY <1>1 DEF RowsDone
  <2>1. \A t \in sel, k \in 1..Trials : Measured(t, k) <=> Measured(t, k)'
    <3>1. task \in Nat /\ trial \in Nat /\ Trials \in Nat /\ sel \subseteq Nat
      BY CountsType DEF IInv, TypesOK, TypeOK, Tasks
    <3> QED
      BY <1>1, <3>1 DEF Measured, TrialsDone
  <2> HIDE DEF Measured
  <2> QED
    BY <1>1, <2>1 DEF IInv, RowsDone
<1> QED
  BY <1>2, <1>3, <1>4, <1>5, GoingOn

\* The run stays with its task.
LEMMA Staying ==
    ASSUME IInv, script # "none", NEW p, NEW t, Goto(p, t), UNCHANGED <<task, rows>>,
           TypeOK', PcFits', TreeIs', RowsDone'
    PROVE  IInv'
<1>1. UNCHANGED <<caught, script, sel, from, store, log>> /\ p # "none"
  BY DEF Goto, PcFits
<1>2. rows' \in Seq(Row) /\ Behind' /\ RowsFit' /\ Idle'
  BY <1>1 DEF IInv, TypesOK, Behind, RowsFit, Idle
<1> QED
  BY <1>1, <1>2, GoingOn

\* Every step of either script keeps the invariant, whatever fails.
LEMMA StepKeeps == IInv /\ [Next]_vars => IInv'
<1> SUFFICES ASSUME IInv, [Next]_vars PROVE IInv'
  OBVIOUS
<1> USE DEF Installed
<1>1. CASE StartExperiment
  BY <1>1, StartKeeps DEF StartExperiment
<1>2. CASE StartValidation
  BY <1>2, StartKeeps DEF StartValidation
<1>3. CASE BaseBuild
  <2>1. pc = "base" /\ script # "none"
    BY <1>3 DEF BaseBuild, IInv, PcFits
  <2>2. CASE Goto("apply", tree) /\ UNCHANGED <<task, trial, rows>>
    <3>1. TypeOK' /\ PcFits' /\ TreeIs'
      BY <2>1, <2>2 DEF Goto, IInv, TypesOK, TypeOK, PcFits, TreeIs
    <3>2. RowsDone'
      BY <2>1, <2>2 DEF Goto, IInv, RowsDone, Measured
    <3> QED
      BY <2>1, <2>2, <3>1, <3>2, Staying
  <2> QED
    BY <1>3, <2>1, <2>2, AbortKeeps DEF BaseBuild
<1>4. CASE Apply
  <2>1. /\ pc = "apply" /\ script # "none" /\ task \in sel /\ task \in Tasks /\ tree = from
    BY <1>4 DEF Apply, IInv, PcFits, TypesOK, TypeOK, TreeIs
  <2>2. CASE /\ Applies(task) /\ Goto("build", tree \cup {task})
             /\ trial' = 1 /\ UNCHANGED <<task, rows>>
    <3>1. TypeOK' /\ PcFits' /\ TreeIs'
      BY <2>1, <2>2, CountsType DEF Applies, Goto, IInv, TypesOK, TypeOK, PcFits, TreeIs
    <3>2. RowsDone'
      BY <2>1, <2>2 DEF Goto, IInv, RowsDone, Measured
    <3> QED
      BY <2>1, <2>2, <3>1, <3>2, Staying
  <2> QED
    BY <1>4, <2>1, <2>2, AbortKeeps DEF Apply
<1>5. CASE Skip
  <2>1. pc = "apply" /\ script # "none" /\ task \notin sel /\ tree = from
    BY <1>5 DEF Skip, IInv, PcFits, TreeIs
  <2>2. task \in Tasks
    BY <1>5, CountsType DEF Skip, AllDone, Tasks, IInv, TypesOK, TypeOK
  <2> QED
    BY <1>5, <2>1, <2>2, Advancing DEF Skip
<1>6. CASE Build
  <2>1. CASE Goto("trial", tree) /\ UNCHANGED <<task, trial, rows>>
    <3>1. TypeOK' /\ PcFits' /\ TreeIs'
      BY <1>6, <2>1 DEF Build, Goto, IInv, TypesOK, TypeOK, PcFits, TreeIs
    <3>2. RowsDone'
      <4>1. /\ pc = "build" /\ pc' = "trial" /\ trial' = 1 /\ task \in sel
            /\ UNCHANGED <<script, sel, task, rows>>
        BY <1>6, <2>1 DEF Build, Goto, IInv, RowsDone
      <4>2. \A t \in sel, k \in 1..Trials : Measured(t, k) <=> Measured(t, k)'
        BY <4>1 DEF Measured
      <4> HIDE DEF Measured
      <4> QED
        BY <4>1, <4>2 DEF IInv, RowsDone
    <3> QED
      BY <1>6, <2>1, <3>1, <3>2, Staying DEF Build
  <2> QED
    BY <1>6, <2>1, RaiseKeeps DEF Build
<1>7. CASE Trial
  <2>1. script = "experiment" /\ pc = "trial" /\ trial <= Trials /\ trial \in Nat
    BY <1>7, CountsType DEF Trial, TrialsDone, IInv, TypesOK, TypeOK
  <2> DEFINE r == [run |-> Len(log) + 1, task |-> task, trial |-> trial, on |-> tree,
                    torn |-> FALSE]
  <2>2. CASE /\ Goto("trial", tree) /\ trial' = trial + 1
             /\ rows' = Append(rows, r) /\ UNCHANGED task
    <3>1. UNCHANGED <<caught, script, sel, from, store, log, tree>> /\ pc' = "trial"
      BY <2>2 DEF Goto
    <3>2. /\ rows \in Seq(Row) /\ r \in Row
          /\ r.run = Len(log) + 1 /\ r.on = from \cup {r.task} /\ ~r.torn
      BY <2>1, LenProperties DEF IInv, TypesOK, TypeOK, PcFits, TreeIs, Row
    <3>3. /\ rows' \in Seq(Row) /\ Len(rows') = Len(rows) + 1 /\ Len(rows) \in Nat
          /\ \A i \in 1..Len(rows) : rows'[i] = rows[i]
          /\ rows'[Len(rows) + 1] = r
      <4> HIDE DEF r
      <4> QED
        BY <2>2, <3>2, AppendProperties, LenProperties
    <3>4. TypeOK' /\ PcFits' /\ TreeIs' /\ Idle'
      BY <2>1, <2>2, <3>1, CountsType DEF IInv, TypesOK, TypeOK, PcFits, TreeIs, Idle
    <3>5. Behind'
      BY <2>2, <3>1 DEF IInv, Behind
    <3>6. RowsFit'
      <4>1. \A i \in 1..Len(rows') : i \in 1..Len(rows) \/ rows'[i] = r
        BY <3>3
      <4> HIDE DEF r
      <4> QED
        BY <2>1, <3>1, <3>2, <3>3, <4>1 DEF IInv, RowsFit
    <3>7. RowsDone'
      <4> DEFINE n == Len(rows)
                 Now(t, k) == t < task \/ (t = task /\ k < trial + 1)
      <4>1. /\ UNCHANGED <<script, sel, task>> /\ pc = "trial" /\ pc' = "trial"
            /\ trial' = trial + 1 /\ trial \in 1..Trials /\ task \in sel /\ sel \subseteq Nat
            /\ n \in Nat /\ Len(rows') = n + 1 /\ r.task = task /\ r.trial = trial
        BY <2>1, <2>2, <3>1, <3>3 DEF IInv, RowsDone, TypesOK, TypeOK, Tasks, PcFits
      <4>2. \A t \in sel, k \in 1..Trials :
                Now(t, k) <=> Measured(t, k) \/ (t = task /\ k = trial)
        BY <4>1, CountsType DEF Measured
      <4>3. ~Measured(task, trial)
        BY <4>1 DEF Measured
      <4>4. \A i \in 1..n : /\ rows[i].task \in sel /\ rows[i].trial \in 1..Trials
                            /\ Measured(rows[i].task, rows[i].trial)
        BY <2>1 DEF IInv, RowsDone
      <4>5. \A t \in sel, k \in 1..Trials :
                Measured(t, k) => \E i \in 1..n : rows[i].task = t /\ rows[i].trial = k
        BY <2>1 DEF IInv, RowsDone
      <4>6. \A i, j \in 1..n :
                rows[i].task = rows[j].task /\ rows[i].trial = rows[j].trial => i = j
        BY <2>1 DEF IInv, RowsDone
      <4>7. \A i \in 1..n : rows'[i] = rows[i]
        BY <3>3
      <4>8. rows'[n + 1] = r
        BY <3>3
      <4> HIDE DEF r, Measured, n, Now
      <4>9. /\ n + 1 \in 1..(n + 1) /\ 1..n \subseteq 1..(n + 1)
            /\ \A i \in 1..(n + 1) : i \in 1..n \/ i = n + 1
        BY <4>1
      <4>10. \A i \in 1..(n + 1) :
                /\ rows'[i].task \in sel /\ rows'[i].trial \in 1..Trials
                /\ Now(rows'[i].task, rows'[i].trial)
        <5> SUFFICES ASSUME NEW i \in 1..(n + 1)
                     PROVE  /\ rows'[i].task \in sel /\ rows'[i].trial \in 1..Trials
                            /\ Now(rows'[i].task, rows'[i].trial)
          OBVIOUS
        <5>1. CASE i \in 1..n
          BY <4>2, <4>4, <4>7, <5>1
        <5>2. CASE i = n + 1
          BY <4>1, <4>2, <4>8, <5>2
        <5> QED
          BY <4>9, <5>1, <5>2
      <4>11. \A t \in sel, k \in 1..Trials :
                Now(t, k) => \E i \in 1..(n + 1) : rows'[i].task = t /\ rows'[i].trial = k
        BY <4>1, <4>2, <4>5, <4>7, <4>8, <4>9
      <4>12. \A i, j \in 1..(n + 1) :
                rows'[i].task = rows'[j].task /\ rows'[i].trial = rows'[j].trial => i = j
        BY <4>1, <4>3, <4>4, <4>6, <4>7, <4>8, <4>9
      <4>13. (\A i \in 1..Len(rows) : /\ rows[i].task \in sel /\ rows[i].trial \in 1..Trials
                                      /\ Measured(rows[i].task, rows[i].trial))'
        BY <4>1, <4>10 DEF Measured, Now, n
      <4>14. \A t \in sel', k \in 1..Trials :
                Measured(t, k)' => \E i \in 1..Len(rows') : rows'[i].task = t /\ rows'[i].trial = k
        <5> TAKE t \in sel', k \in 1..Trials
        <5> HAVE Measured(t, k)'
        <5>1. t \in sel /\ 1..Len(rows') = 1..(n + 1)
          BY <4>1
        <5>2. Now(t, k)
          BY <4>1, <5>1 DEF Measured, Now
        <5>3. PICK i \in 1..(n + 1) : rows'[i].task = t /\ rows'[i].trial = k
          BY <4>11, <5>1, <5>2
        <5> QED
          BY <5>1, <5>3
      <4>15. (\A i, j \in 1..Len(rows) :
                rows[i].task = rows[j].task /\ rows[i].trial = rows[j].trial => i = j)'
        <5>1. 1..Len(rows') = 1..(n + 1)
          BY <4>1
        <5> QED
          BY <4>12, <5>1
      <4>16. pc' = "trial" /\ task' \in sel' /\ trial' >= 1
        BY <4>1
      <4> QED
        BY <4>13, <4>14, <4>15, <4>16 DEF RowsDone
    <3> QED
      BY <2>1, <2>2, <3>3, <3>4, <3>5, <3>6, <3>7, GoingOn
  <2> QED
    BY <1>7, <2>1, <2>2, RaiseKeeps DEF Trial
<1>8. CASE Restore
  <2>1. /\ script = "experiment" /\ task \in Tasks /\ task \notin from /\ tree \ {task} = from
        /\ task \in sel /\ pc = "trial" /\ TrialsDone
    BY <1>8 DEF Restore, IInv, PcFits, TreeIs, RowsDone
  <2>2. CASE Goto("apply", tree \ {task}) /\ task' = task + 1 /\ UNCHANGED <<trial, rows>>
    BY <2>1, <2>2, Advancing
  <2>3. CASE End("unrestored", tree)
    <3>1. tree = from \cup {task} /\ tree \in SUBSET Tasks
      BY <2>1 DEF IInv, TypesOK, TypeOK, TreeIs
    <3> QED
      BY <2>1, <2>3, <3>1, Ending DEF Hows
  <2> QED
    BY <1>8, <2>2, <2>3 DEF Restore, RestoreFailed
<1>9. CASE WriteRows
  <2>1. tree = from /\ tree \in SUBSET Tasks
    BY <1>9 DEF WriteRows, IInv, TreeIs, TypesOK, TypeOK
  <2> QED
    BY <1>9, <2>1, Ending DEF WriteRows, Hows
<1>10. CASE BuildBuggy
  <2>1. CASE Goto("witness", tree) /\ UNCHANGED <<task, trial, rows>>
    <3>1. TypeOK' /\ PcFits' /\ TreeIs'
      BY <1>10, <2>1 DEF BuildBuggy, Goto, IInv, TypesOK, TypeOK, PcFits, TreeIs
    <3>2. RowsDone'
      BY <1>10, <2>1 DEF BuildBuggy, Goto, RowsDone
    <3> QED
      BY <1>10, <2>1, <3>1, <3>2, Staying DEF BuildBuggy
  <2> QED
    BY <1>10, <2>1, AbortKeeps DEF BuildBuggy
<1>11. CASE WitnessOnBuggy
  <2>1. /\ script = "validate" /\ pc = "witness" /\ tree \ {task} = from
        /\ tree \ {task} \in SUBSET Tasks
    BY <1>11 DEF WitnessOnBuggy, IInv, PcFits, TreeIs, TypesOK, TypeOK
  <2>2. CASE \E status \in Statuses(task) :
                /\ BugNoticed(status)
                /\ Goto("witnessBase", tree \ {task}) /\ UNCHANGED <<task, trial, rows>>
    <3>1. task \in caught
      BY <2>2 DEF Statuses, BugNoticed
    <3>2. TypeOK' /\ PcFits' /\ TreeIs'
      BY <2>1, <2>2, <3>1 DEF Goto, IInv, TypesOK, TypeOK, PcFits, TreeIs
    <3>3. RowsDone'
      BY <2>1, <2>2 DEF Goto, RowsDone
    <3> QED
      BY <2>1, <2>2, <3>2, <3>3, Staying
  <2>3. CASE End("failed", tree \ {task})
    BY <2>1, <2>3, Ending DEF Hows
  <2> QED
    BY <1>11, <2>1, <2>2, <2>3, AbortKeeps DEF WitnessOnBuggy
<1>12. CASE WitnessOnBase
  <2>1. /\ script = "validate" /\ tree = from /\ task \in Tasks /\ task \notin from
        /\ task \in caught
    BY <1>12 DEF WitnessOnBase, IInv, PcFits, TreeIs
  <2>2. CASE Goto("apply", tree) /\ task' = task + 1 /\ UNCHANGED <<trial, rows>>
    BY <2>1, <2>2, Advancing
  <2>3. CASE Abort
    BY <2>1, <2>3, AbortKeeps
  <2> QED
    BY <1>12, <2>2, <2>3 DEF WitnessOnBase
<1>13. CASE AllVariantsOk
  <2>1. tree = from /\ tree \in SUBSET Tasks
    BY <1>13 DEF AllVariantsOk, IInv, TreeIs, TypesOK, TypeOK
  <2> QED
    BY <1>13, <2>1, Ending DEF AllVariantsOk, Hows
<1>14. CASE Kill
  <2>1. tree \in SUBSET Tasks /\ (tree = from \/ (Installed /\ tree = from \cup {task}))
    BY <1>14 DEF Kill, IInv, TypesOK, TypeOK, TreeIs
  <2> QED
    BY <1>14, <2>1, Ending DEF Kill, Hows
<1>15. CASE Rested \/ UNCHANGED vars
  <2>1. UNCHANGED <<caught, tree, script, pc, sel, task, trial, rows, from, store, log>>
    BY <1>15 DEF Rested, vars, run
  <2> QED
    BY <2>1 DEF IInv, TypesOK, TypeOK, PcFits, TreeIs, Behind, RowsFit, RowsDone, Measured,
                StoreFits, InOrder, LogFits, TreeGivenBack, GivesBack, ValidationMeans,
                RowsOwed, Owed, RowsOf, Asked, CutShort, Idle
<1> QED
  BY <1>1, <1>2, <1>3, <1>4, <1>5, <1>6, <1>7, <1>8, <1>9, <1>10, <1>11, <1>12, <1>13,
     <1>14, <1>15 DEF Next

\* The inductive invariant holds in every state of every behaviour of the scripts.
THEOREM WorkloadInvariance == Spec => []IInv
  BY InitEstablishes, StepKeeps, PTL DEF Spec

\* Type correctness (TypeOK): the patch of the task at hand is installed where it is built and
\* run, and trials and runs stay within their bounds.
THEOREM WorkloadTypes == Spec => []TypeOK
<1>1. IInv => TypeOK
  BY DEF IInv, TypesOK
<1> QED
  BY <1>1, WorkloadInvariance, PTL

\* A script that succeeds, and an experiment that fails in any command but git apply -R, give
\* the tree back; no run leaves more than one patch, of a task it was asked for (TreeGivenBack).
THEOREM TreeSafe == Spec => []TreeGivenBack
<1>1. IInv => TreeGivenBack
  BY DEF IInv, LogFits
<1> QED
  BY <1>1, WorkloadInvariance, PTL

\* A validation that succeeds saw every bug noticed, starting from a clean tree.
THEOREM ValidationSound == Spec => []ValidationMeans
<1>1. IInv => ValidationMeans
  BY DEF IInv, LogFits
<1> QED
  BY <1>1, WorkloadInvariance, PTL

\* A stored row was measured with the patch of its task alone, if its run started clean or
\* ran every task (RowsTruthful).
THEOREM RowsSound == Spec => []RowsTruthful
<1>1. ASSUME IInv PROVE RowsTruthful
  <2>1. store \in Seq(Row) /\ DOMAIN store = 1..Len(store)
    BY <1>1, LenProperties DEF IInv, TypesOK
  <2> QED
    BY <1>1, <2>1 DEF IInv, StoreFits, RowsTruthful
<1> QED
  BY <1>1, WorkloadInvariance, PTL

\* StoredWhole: an experiment that came to its end stored one row for each trial of each task
\* it was asked for, a run whose write was cut short some of them, any other run none; what an
\* experiment that came to its end stored reads back, but for a first row glued to the torn
\* line of an earlier run.
THEOREM StoreWhole == Spec => []StoredWhole
<1>1. ASSUME IInv PROVE StoredWhole
  <2>1. store \in Seq(Row) /\ DOMAIN store = 1..Len(store) /\ Len(store) \in Nat
    BY <1>1, LenProperties DEF IInv, TypesOK
  <2>2. ASSUME NEW r \in DOMAIN log, log[r].how = "done", NEW i \in RowsOf(r)
        PROVE  Reads(i) \/ (i > 1 /\ store[i - 1].run < r /\ CutShort(store[i - 1].run))
    <3>1. i \in 1..Len(store) /\ store[i].run = r /\ ~store[i].torn
      BY <1>1, <2>1, <2>2 DEF RowsOf, IInv, StoreFits, CutShort
    <3>2. CASE i > 1 /\ store[i - 1].torn
      <4>1. i - 1 \in 1..Len(store) /\ i - 1 <= i
        BY <2>1, <3>1, <3>2
      <4>2. /\ CutShort(store[i - 1].run) /\ store[i - 1].run \in 1..Len(log)
            /\ store[i - 1].run <= r /\ r \in 1..Len(log)
        BY <1>1, <3>1, <3>2, <4>1 DEF IInv, StoreFits, InOrder
      <4>3. store[i - 1].run # r
        BY <2>2, <4>2 DEF CutShort
      <4>4. Len(log) \in Nat
        BY <1>1, LenProperties DEF IInv, TypesOK
      <4> QED
        BY <3>2, <4>2, <4>3, <4>4
    <3> QED
      BY <3>1, <3>2 DEF Reads
  <2> QED
    BY <1>1, <2>2 DEF IInv, RowsOwed, Owed, StoredWhole
<1> QED
  BY <1>1, WorkloadInvariance, PTL
=============================================================================
