-------------------------- MODULE LeanPrograms_proofs --------------------------
(***************************************************************************)
(* The Rust programs that call Lean: the calls themselves, from any number *)
(* of threads, and the commands of the CLI, for any policies, environments *)
(* and files. They share no state; each part below has its own inductive   *)
(* invariant.                                                              *)
(***************************************************************************)
EXTENDS LeanRuntime, CommandLine, SequenceTheorems, FiniteSetTheorems, WellFoundedInduction, TLAPS

(***************************************************************************)
(* LeanRuntime. The reference counts and the thread states are right for   *)
(* any number of threads, calls and rounds. The invariant says, for each   *)
(* step a thread is at, which handles it has; the counts follow from it    *)
(* because no step of a thread touches the objects of another. The process *)
(* is the one thing the threads share: at most one of them initialises it, *)
(* and until it is done no other is past the start.                        *)
(***************************************************************************)

\* What a thread at step a, with a schema of such an owner, has in its counts, its handles
\* and inside its objects.
Held(a, who, c, h, i) ==
    /\ c \in [Objects -> Nat] /\ h \in [Objects -> Nat] /\ i \in [Objects -> 0..1]
    /\ \A o \in Objects : c[o] = h[o] + i[o]
    /\ h["message"] = 0 /\ h["model"] = 0
    /\ i["message"] = 0 /\ i["model"] = 0 /\ i["response"] = 0
    /\ h["response"] = IF a \in {"loaded", "answered"} THEN 1 ELSE 0
    /\ h["schema"] = 0 \/ (h["schema"] = 1 /\ a \in {"ask", "answered", "release", "detach", "late"})
    /\ i["schema"] = 1 => a = "loaded"
    /\ a = "late" => h["schema"] = 1
    /\ a \in {"detach", "late"} /\ h["schema"] = 1 => who = "analyzer"

\* The steps of a thread for which Lean is initialised.
Attached == {"load", "loaded", "ask", "answered", "release", "detach"}

\* How the process and a thread go together.
Ready(r, a, n) ==
    /\ n = IF a \in Attached THEN 1 ELSE 0
    /\ a = "initialize" => r = "starting"
    /\ a \in Attached \cup {"attach", "late"} => r = "up"

Typed ==
    /\ runtime \in {"down", "starting", "up", "poisoned"}
    /\ at \in [Threads -> Steps]
    /\ owner \in [Threads -> Owners]
    /\ attached \in [Threads -> Nat]
    /\ count \in [Threads -> [Objects -> Nat]]
    /\ handles \in [Threads -> [Objects -> Nat]]
    /\ inside \in [Threads -> [Objects -> 0..1]]
    /\ calls \in [Threads -> 0..MaxCalls]
    /\ rounds \in [Threads -> 0..MaxRounds]

OneInitializes == \A t, u \in Threads : at[t] = "initialize" /\ at[u] = "initialize" => t = u

RoundLeft(a, n) == a \in {"new", "initialize", "attach"} => n < MaxRounds

RuntimeInv ==
    /\ Typed
    /\ OneInitializes
    /\ \A t \in Threads : /\ Held(at[t], owner[t], count[t], handles[t], inside[t])
                          /\ Ready(runtime, at[t], attached[t])
                          /\ RoundLeft(at[t], rounds[t])

-----------------------------------------------------------------------------
(* One thread moves *)

\* A step of t to s that leaves the process alone, after which the rest of what is t's is this.
Moves(t, s, n, c, h, i, k, m) ==
    /\ s \in Steps \ {"initialize"} /\ n \in Nat /\ k \in 0..MaxCalls /\ m \in 0..MaxRounds
    /\ at' = [at EXCEPT ![t] = s] /\ attached' = [attached EXCEPT ![t] = n]
    /\ count' = [count EXCEPT ![t] = c] /\ handles' = [handles EXCEPT ![t] = h]
    /\ inside' = [inside EXCEPT ![t] = i]
    /\ calls' = [calls EXCEPT ![t] = k] /\ rounds' = [rounds EXCEPT ![t] = m]
    /\ UNCHANGED <<runtime, owner>>

\* It keeps the invariant if this is right: the other threads have what they had.
LEMMA OneMoves ==
    ASSUME RuntimeInv, NEW t \in Threads,
           NEW s, NEW n, NEW c, NEW h, NEW i, NEW k, NEW m, Moves(t, s, n, c, h, i, k, m),
           Held(s, owner[t], c, h, i), Ready(runtime, s, n), RoundLeft(s, m)
    PROVE  RuntimeInv'
<1>1. c \in [Objects -> Nat] /\ h \in [Objects -> Nat] /\ i \in [Objects -> 0..1]
    BY DEF Held
<1>2. Typed'
    BY <1>1 DEF RuntimeInv, Typed, Moves
<1>3. OneInitializes'
    BY DEF RuntimeInv, Typed, OneInitializes, Moves
<1>4. ASSUME NEW u \in Threads
      PROVE  /\ Held(at'[u], owner'[u], count'[u], handles'[u], inside'[u])
             /\ Ready(runtime', at'[u], attached'[u])
             /\ RoundLeft(at'[u], rounds'[u])
    <2>1. CASE u = t
        <3>1. /\ at'[u] = s /\ attached'[u] = n /\ count'[u] = c /\ handles'[u] = h
              /\ inside'[u] = i /\ rounds'[u] = m /\ owner'[u] = owner[t] /\ runtime' = runtime
            BY <2>1 DEF RuntimeInv, Typed, Moves
        <3> QED BY <3>1
    <2>2. CASE u # t
        <3>1. /\ at'[u] = at[u] /\ attached'[u] = attached[u] /\ count'[u] = count[u]
              /\ handles'[u] = handles[u] /\ inside'[u] = inside[u] /\ rounds'[u] = rounds[u]
              /\ owner'[u] = owner[u] /\ runtime' = runtime
            BY <2>2 DEF RuntimeInv, Typed, Moves
        <3> QED BY <3>1 DEF RuntimeInv
    <2> QED BY <2>1, <2>2
<1> QED BY <1>2, <1>3, <1>4 DEF RuntimeInv

\* A component a step leaves alone is the one with its own value for t.
LEMMA Unmoved ==
    ASSUME RuntimeInv, NEW t \in Threads
    PROVE  /\ at = [at EXCEPT ![t] = at[t]] /\ attached = [attached EXCEPT ![t] = attached[t]]
           /\ count = [count EXCEPT ![t] = count[t]] /\ handles = [handles EXCEPT ![t] = handles[t]]
           /\ inside = [inside EXCEPT ![t] = inside[t]]
           /\ calls = [calls EXCEPT ![t] = calls[t]] /\ rounds = [rounds EXCEPT ![t] = rounds[t]]
           /\ at[t] \in Steps /\ attached[t] \in Nat
           /\ calls[t] \in 0..MaxCalls /\ rounds[t] \in 0..MaxRounds
           /\ Held(at[t], owner[t], count[t], handles[t], inside[t])
           /\ Ready(runtime, at[t], attached[t]) /\ RoundLeft(at[t], rounds[t])
BY DEF RuntimeInv, Typed

-----------------------------------------------------------------------------
(* The steps *)

\* What is passed to Lean is given back by it.
LEMMA GivenBack ==
    ASSUME NEW f \in [Objects -> Nat], NEW args
    PROVE  AfterCall(Minus(Plus(f, args), args), args) = f
BY DEF AfterCall, Minus, Plus

\* A call adds its response to the count, and what that holds.
LEMMA CallCounts ==
    ASSUME RuntimeInv, NEW t \in Threads, NEW buffers, NEW schema, NEW S, Call(t, buffers, schema, S)
    PROVE  count' = [count EXCEPT ![t] = Plus(count[t], {"response"} \cup S)]
<1>1. count[t] \in [Objects -> Nat]
    BY DEF RuntimeInv, Typed
<1>2. AfterCall(Minus(Plus(count[t], buffers \cup schema), buffers \cup schema), buffers \cup schema)
        = count[t]
    BY <1>1, GivenBack
<1> QED
    BY <1>2 DEF Call

\* The first thread begins to initialise the process.
LEMMA BeginInitKeeps ==
    ASSUME RuntimeInv, NEW t \in Threads, BeginInit(t)
    PROVE  RuntimeInv'
<1>1. Typed'
    BY DEF RuntimeInv, Typed, BeginInit, Goto, objects, Steps
<1>2. \A u \in Threads : at[u] # "initialize"
    BY DEF RuntimeInv, BeginInit, Ready
<1>3. OneInitializes'
    BY <1>2 DEF RuntimeInv, Typed, BeginInit, Goto, OneInitializes
<1>4. ASSUME NEW u \in Threads
      PROVE  /\ Held(at'[u], owner'[u], count'[u], handles'[u], inside'[u])
             /\ Ready(runtime', at'[u], attached'[u])
             /\ RoundLeft(at'[u], rounds'[u])
    <2>1. /\ Held(at[u], owner[u], count[u], handles[u], inside[u])
          /\ Ready(runtime, at[u], attached[u]) /\ RoundLeft(at[u], rounds[u])
        BY DEF RuntimeInv
    <2>2. /\ at'[u] = (IF u = t THEN "initialize" ELSE at[u]) /\ at[t] = "new" /\ runtime = "down"
          /\ runtime' = "starting"
          /\ UNCHANGED <<owner, attached, count, handles, inside, rounds>>
        BY DEF RuntimeInv, Typed, BeginInit, Goto, objects
    <2>3. Held(at'[u], owner'[u], count'[u], handles'[u], inside'[u])
        BY <2>1, <2>2 DEF Held
    <2>4. Ready(runtime', at'[u], attached'[u])
        BY <2>1, <2>2 DEF Ready, Attached
    <2>5. RoundLeft(at'[u], rounds'[u])
        BY <2>1, <2>2 DEF RoundLeft
    <2> QED BY <2>3, <2>4, <2>5
<1> QED BY <1>1, <1>3, <1>4 DEF RuntimeInv

\* It ends, well or in a panic. No thread is past the start then.
LEMMA EndInitKeeps ==
    ASSUME RuntimeInv, NEW t \in Threads, EndInit(t)
    PROVE  RuntimeInv'
<1>1. Typed'
    BY DEF RuntimeInv, Typed, EndInit, Goto, objects, Steps
<1>2. \A u \in Threads : at'[u] # "initialize" /\ (u # t => at[u] # "initialize")
    BY DEF RuntimeInv, Typed, EndInit, Goto, OneInitializes
<1>3. OneInitializes'
    BY <1>2 DEF OneInitializes
<1>4. ASSUME NEW u \in Threads
      PROVE  /\ Held(at'[u], owner'[u], count'[u], handles'[u], inside'[u])
             /\ Ready(runtime', at'[u], attached'[u])
             /\ RoundLeft(at'[u], rounds'[u])
    <2>1. /\ Held(at[u], owner[u], count[u], handles[u], inside[u])
          /\ Ready(runtime, at[u], attached[u]) /\ RoundLeft(at[u], rounds[u])
        BY DEF RuntimeInv
    <2>2. /\ at[t] = "initialize" /\ runtime = "starting"
          /\ UNCHANGED <<owner, attached, count, handles, inside, rounds>>
          /\ u # t => at'[u] = at[u]
          /\ u = t => \/ at'[u] = "attach" /\ runtime' = "up"
                      \/ at'[u] = "panicked" /\ runtime' = "poisoned"
        BY DEF RuntimeInv, Typed, EndInit, Goto, objects, Ready
    <2>3. Held(at'[u], owner'[u], count'[u], handles'[u], inside'[u])
        BY <2>1, <2>2 DEF Held
    <2>4. Ready(runtime', at'[u], attached'[u])
        BY <1>2, <2>1, <2>2 DEF Ready, Attached
    <2>5. RoundLeft(at'[u], rounds'[u])
        BY <2>1, <2>2 DEF RoundLeft
    <2> QED BY <2>3, <2>4, <2>5
<1> QED BY <1>1, <1>3, <1>4 DEF RuntimeInv

\* A thread passes, when the process is initialised.
LEMMA PassInitKeeps ==
    ASSUME RuntimeInv, NEW t \in Threads, PassInit(t)
    PROVE  RuntimeInv'
<1>1. Moves(t, "attach", attached[t], count[t], handles[t], inside[t], calls[t], rounds[t])
    BY Unmoved DEF PassInit, Goto, objects, Moves, Steps
<1>2. Held("attach", owner[t], count[t], handles[t], inside[t])
    BY Unmoved DEF PassInit, Held
<1>3. Ready(runtime, "attach", attached[t]) /\ RoundLeft("attach", rounds[t])
    BY Unmoved DEF PassInit, MayPass, Ready, Attached, RoundLeft
<1> QED BY <1>1, <1>2, <1>3, OneMoves

\* A thread that comes after a failed initialisation panics too.
LEMMA PoisonedKeeps ==
    ASSUME RuntimeInv, NEW t \in Threads, Poisoned(t)
    PROVE  RuntimeInv'
<1>1. Moves(t, "panicked", attached[t], count[t], handles[t], inside[t], calls[t], rounds[t])
    BY Unmoved DEF Poisoned, Goto, objects, Moves, Steps
<1>2. Held("panicked", owner[t], count[t], handles[t], inside[t])
    BY Unmoved DEF Poisoned, Held
<1>3. Ready(runtime, "panicked", attached[t]) /\ RoundLeft("panicked", rounds[t])
    BY Unmoved DEF Poisoned, Ready, Attached, RoundLeft
<1> QED BY <1>1, <1>2, <1>3, OneMoves

\* The thread is attached, and may load a schema.
LEMMA AttachKeeps ==
    ASSUME RuntimeInv, NEW t \in Threads, Attach(t)
    PROVE  RuntimeInv'
<1>1. PICK s \in {"load", "ask"} : at' = [at EXCEPT ![t] = s]
    BY DEF Attach, Goto
<1>2. attached' = [attached EXCEPT ![t] = attached[t] + 1] /\ rounds' = [rounds EXCEPT ![t] = rounds[t] + 1]
    BY DEF Attach
<1>3. RoundLeft(s, rounds[t] + 1) /\ rounds[t] + 1 \in 0..MaxRounds
    BY Unmoved, RuntimeConstants DEF Attach, RoundLeft
<1>4. Moves(t, s, attached[t] + 1, count[t], handles[t], inside[t], 0, rounds[t] + 1)
    BY <1>1, <1>2, <1>3, Unmoved, RuntimeConstants DEF Attach, objects, Moves, Steps
<1>5. Held(s, owner[t], count[t], handles[t], inside[t])
    BY Unmoved DEF Attach, Held
<1>6. Ready(runtime, s, attached[t] + 1)
    BY Unmoved DEF Attach, Ready, Attached
<1> QED BY <1>3, <1>4, <1>5, <1>6, OneMoves

\* The response to a schema may hold the schema.
LEMMA LoadSchemaKeeps ==
    ASSUME RuntimeInv, NEW t \in Threads, LoadSchema(t)
    PROVE  RuntimeInv'
<1>1. PICK S \in {{}, {"schema"}} : Call(t, TakesProtobuf, {}, S)
    BY DEF LoadSchema
<1> DEFINE c == Plus(count[t], {"response"} \cup S)
           h == Plus(handles[t], {"response"})
           i == Plus(inside[t], S)
<1>2. Held("loaded", owner[t], c, h, i)
    <2>1. Held("load", owner[t], count[t], handles[t], inside[t])
        BY Unmoved DEF LoadSchema
    <2>2. c \in [Objects -> Nat] /\ h \in [Objects -> Nat] /\ i \in [Objects -> 0..1]
        BY <2>1 DEF Held, Plus, Objects
    <2>3. \A o \in Objects : c[o] = h[o] + i[o]
        BY <2>1 DEF Held, Plus, Objects
    <2>4. /\ h["message"] = 0 /\ h["model"] = 0 /\ h["response"] = 1 /\ h["schema"] = 0
          /\ i["message"] = 0 /\ i["model"] = 0 /\ i["response"] = 0
        BY <2>1 DEF Held, Plus, Objects
    <2> HIDE DEF c, h, i
    <2> QED BY <2>2, <2>3, <2>4 DEF Held
<1>3. Ready(runtime, "loaded", attached[t]) /\ RoundLeft("loaded", rounds[t])
    BY Unmoved DEF LoadSchema, Ready, Attached, RoundLeft
<1>4. /\ count' = [count EXCEPT ![t] = c] /\ handles' = [handles EXCEPT ![t] = h]
      /\ inside' = [inside EXCEPT ![t] = i]
    BY <1>1, CallCounts DEF Call
<1> HIDE DEF c, h, i
<1>5. Moves(t, "loaded", attached[t], c, h, i, calls[t], rounds[t])
    BY <1>4, Unmoved DEF LoadSchema, Goto, Moves, Steps
<1> QED BY <1>2, <1>3, <1>5, OneMoves

\* The schema is taken out of it, and what is left of the response is released.
LEMMA TakeSchemaKeeps ==
    ASSUME RuntimeInv, NEW t \in Threads, TakeSchema(t)
    PROVE  RuntimeInv'
<1> DEFINE S == {o \in {"schema"} : inside[t][o] = 1}
           c == Minus(Taken(count[t], S), {"response"} \cup S)
           h == Minus(Plus(handles[t], S), {"response"})
           i == Minus(inside[t], S)
           s == IF S = {} THEN "detach" ELSE "ask"
<1>1. Held("loaded", owner[t], count[t], handles[t], inside[t])
    BY Unmoved DEF TakeSchema
<1>2. /\ "schema" \in S <=> inside[t]["schema"] = 1
      /\ S = {} <=> inside[t]["schema"] = 0
      /\ \A o \in {"message", "model", "response"} : o \notin S
    BY <1>1 DEF Held, Objects
<1>3. /\ c = [o \in Objects |-> (IF o \in S THEN count[t][o] + 1 ELSE count[t][o])
                                  - (IF o \in {"response"} \cup S THEN 1 ELSE 0)]
      /\ h = [o \in Objects |-> (IF o \in S THEN handles[t][o] + 1 ELSE handles[t][o])
                                  - (IF o \in {"response"} THEN 1 ELSE 0)]
      /\ i = [o \in Objects |-> IF o \in S THEN inside[t][o] - 1 ELSE inside[t][o]]
    BY <1>1 DEF Held, Taken, Plus, Minus
<1>4. /\ s \in Steps \ {"initialize"}
      /\ c = [o \in Objects |-> c[o]] /\ h = [o \in Objects |-> h[o]] /\ i = [o \in Objects |-> i[o]]
    BY DEF Steps, Minus
<1>5. /\ count' = [count EXCEPT ![t] = c] /\ handles' = [handles EXCEPT ![t] = h]
      /\ inside' = [inside EXCEPT ![t] = i] /\ at' = [at EXCEPT ![t] = s]
    BY DEF TakeSchema, Goto
<1>6. Ready(runtime, s, attached[t]) /\ RoundLeft(s, rounds[t])
    BY Unmoved DEF TakeSchema, Ready, Attached, RoundLeft
<1>7. s = IF S = {} THEN "detach" ELSE "ask"
    OBVIOUS
<1> HIDE DEF c, h, i, s, S
<1>8. Held(s, owner[t], c, h, i)
    <2>1. /\ \A o \in {"message", "model"} : count[t][o] = 0 /\ handles[t][o] = 0 /\ inside[t][o] = 0
          /\ count[t]["response"] = 1 /\ handles[t]["response"] = 1 /\ inside[t]["response"] = 0
          /\ handles[t]["schema"] = 0 /\ inside[t]["schema"] \in 0..1
          /\ count[t]["schema"] = inside[t]["schema"]
        BY <1>1 DEF Held, Objects
    <2>2. \A o \in {"message", "model", "response"} : c[o] = 0 /\ h[o] = 0 /\ i[o] = 0
        BY <1>2, <1>3, <2>1 DEF Objects
    <2>3. c["schema"] = inside[t]["schema"] /\ h["schema"] = inside[t]["schema"] /\ i["schema"] = 0
        <3>1. CASE inside[t]["schema"] = 1
            BY <1>2, <1>3, <2>1, <3>1 DEF Objects
        <3>2. CASE inside[t]["schema"] = 0
            BY <1>2, <1>3, <2>1, <3>2 DEF Objects
        <3> QED BY <2>1, <3>1, <3>2
    <2>4. c \in [Objects -> Nat] /\ h \in [Objects -> Nat] /\ i \in [Objects -> 0..1]
        <3>1. \A o \in Objects : c[o] \in Nat /\ h[o] \in Nat /\ i[o] \in 0..1
            BY <2>1, <2>2, <2>3 DEF Objects
        <3> QED BY <1>4, <3>1
    <2>5. h["schema"] = 0 \/ (h["schema"] = 1 /\ s = "ask")
        BY <1>2, <1>7, <2>1, <2>3
    <2> QED BY <1>7, <2>2, <2>3, <2>4, <2>5 DEF Held, Objects
<1>9. Moves(t, s, attached[t], c, h, i, calls[t], rounds[t])
    BY <1>4, <1>5, Unmoved DEF TakeSchema, Moves
<1> QED BY <1>6, <1>8, <1>9, OneMoves

\* Any call but that for the schema holds nothing in its response.
LEMMA AskKeeps ==
    ASSUME RuntimeInv, NEW t \in Threads, NEW buffers, NEW schema, Ask(t, buffers, schema)
    PROVE  RuntimeInv'
<1> DEFINE c == Plus(count[t], {"response"} \cup {})
           h == Plus(handles[t], {"response"})
           i == Plus(inside[t], {})
<1>1. Held("ask", owner[t], count[t], handles[t], inside[t])
    BY Unmoved DEF Ask
<1>2. Held("answered", owner[t], c, h, i)
    <2>2. c \in [Objects -> Nat] /\ h \in [Objects -> Nat] /\ i \in [Objects -> 0..1]
        BY <1>1 DEF Held, Plus, Objects
    <2>3. \A o \in Objects : c[o] = h[o] + i[o]
        BY <1>1 DEF Held, Plus, Objects
    <2>4. /\ h["message"] = 0 /\ h["model"] = 0 /\ h["response"] = 1
          /\ h["schema"] = handles[t]["schema"] /\ i = inside[t]
        BY <1>1 DEF Held, Plus, Objects
    <2> HIDE DEF c, h, i
    <2> QED BY <1>1, <2>2, <2>3, <2>4 DEF Held
<1>3. Ready(runtime, "answered", attached[t]) /\ RoundLeft("answered", rounds[t])
    BY Unmoved DEF Ask, Ready, Attached, RoundLeft
<1>4. Call(t, buffers, schema, {})
    BY DEF Ask
<1>5. /\ count' = [count EXCEPT ![t] = c] /\ handles' = [handles EXCEPT ![t] = h]
      /\ inside' = [inside EXCEPT ![t] = i]
    <2>1. count' = [count EXCEPT ![t] = c]
        BY <1>4, CallCounts
    <2>2. handles' = [handles EXCEPT ![t] = h] /\ inside' = [inside EXCEPT ![t] = i]
        BY <1>4 DEF Call
    <2> QED BY <2>1, <2>2
<1>6. calls[t] + 1 \in 0..MaxCalls /\ calls' = [calls EXCEPT ![t] = calls[t] + 1]
    BY Unmoved, RuntimeConstants DEF Ask
<1> HIDE DEF c, h, i
<1>7. Moves(t, "answered", attached[t], c, h, i, calls[t] + 1, rounds[t])
    BY <1>5, <1>6, Unmoved DEF Ask, Goto, Moves, Steps
<1> QED BY <1>2, <1>3, <1>7, OneMoves

\* The response is read and released.
LEMMA ReadResponseKeeps ==
    ASSUME RuntimeInv, NEW t \in Threads, ReadResponse(t)
    PROVE  RuntimeInv'
<1> DEFINE c == Minus(count[t], {"response"})
           h == Minus(handles[t], {"response"})
<1>1. PICK s \in {"ask", "release"} : at' = [at EXCEPT ![t] = s]
    BY DEF ReadResponse, Goto
<1>2. Held("answered", owner[t], count[t], handles[t], inside[t])
    BY Unmoved DEF ReadResponse
<1>3. Held(s, owner[t], c, h, inside[t])
    BY <1>2 DEF Held, Minus, Objects
<1>4. Ready(runtime, s, attached[t]) /\ RoundLeft(s, rounds[t])
    BY Unmoved DEF ReadResponse, Ready, Attached, RoundLeft
<1>5. count' = [count EXCEPT ![t] = c] /\ handles' = [handles EXCEPT ![t] = h]
    BY DEF ReadResponse
<1> HIDE DEF c, h
<1>6. Moves(t, s, attached[t], c, h, inside[t], calls[t], rounds[t])
    BY <1>1, <1>5, Unmoved DEF ReadResponse, Moves, Steps
<1> QED BY <1>3, <1>4, <1>6, OneMoves

\* There is no more to ask.
LEMMA FinishKeeps ==
    ASSUME RuntimeInv, NEW t \in Threads, Finish(t)
    PROVE  RuntimeInv'
<1>1. Moves(t, "release", attached[t], count[t], handles[t], inside[t], calls[t], rounds[t])
    BY Unmoved DEF Finish, Goto, objects, Moves, Steps
<1>2. Held("release", owner[t], count[t], handles[t], inside[t])
    BY Unmoved DEF Finish, Held
<1>3. Ready(runtime, "release", attached[t]) /\ RoundLeft("release", rounds[t])
    BY Unmoved DEF Finish, Ready, Attached, RoundLeft
<1> QED BY <1>1, <1>2, <1>3, OneMoves

\* A schema that is dropped was held by its handle alone.
LEMMA Dropped ==
    ASSUME NEW a, NEW who, NEW c, NEW h, NEW i, Held(a, who, c, h, i), h["schema"] = 1,
           a \in {"release", "late"}, NEW s \in {"detach", "ended"}
    PROVE  Held(s, who, Minus(c, {"schema"}), Minus(h, {"schema"}), i)
BY DEF Held, Minus, Objects

\* The schema goes first when it is a local variable, and stays when it is an Analyzer's.
LEMMA ReleaseKeeps ==
    ASSUME RuntimeInv, NEW t \in Threads, Release(t)
    PROVE  RuntimeInv'
<1> DEFINE c == Minus(count[t], {"schema"})
           h == Minus(handles[t], {"schema"})
<1>1. Held("release", owner[t], count[t], handles[t], inside[t])
    BY Unmoved DEF Release
<1>2. Ready(runtime, "detach", attached[t]) /\ RoundLeft("detach", rounds[t])
    BY Unmoved DEF Release, Ready, Attached, RoundLeft
<1>3. CASE owner[t] = "locals" /\ HasSchema(t)
    <2>1. handles[t]["schema"] = 1
        BY <1>1, <1>3 DEF Held, HasSchema
    <2>2. Held("detach", owner[t], c, h, inside[t])
        BY <1>1, <2>1, Dropped
    <2>3. count' = [count EXCEPT ![t] = c] /\ handles' = [handles EXCEPT ![t] = h]
        BY <1>3 DEF Release, DropSchema
    <2> HIDE DEF c, h
    <2>4. Moves(t, "detach", attached[t], c, h, inside[t], calls[t], rounds[t])
        BY <2>3, Unmoved DEF Release, Goto, Moves, Steps
    <2> QED BY <1>2, <2>2, <2>4, OneMoves
<1>4. CASE ~(owner[t] = "locals" /\ HasSchema(t))
    <2>1. Moves(t, "detach", attached[t], count[t], handles[t], inside[t], calls[t], rounds[t])
        BY <1>4, Unmoved DEF Release, Goto, Moves, Steps
    <2>2. owner[t] \in Owners
        BY DEF RuntimeInv, Typed
    <2>3. handles[t]["schema"] = 1 => owner[t] = "analyzer"
        BY <1>4, <2>2, RuntimeConstants DEF HasSchema
    <2>4. Held("detach", owner[t], count[t], handles[t], inside[t])
        BY <1>1, <2>3 DEF Held
    <2> QED BY <1>2, <2>1, <2>4, OneMoves
<1> QED BY <1>3, <1>4

\* The thread is given up, before the schema of an Analyzer is.
LEMMA DetachKeeps ==
    ASSUME RuntimeInv, NEW t \in Threads, Detach(t)
    PROVE  RuntimeInv'
<1>1. Held("detach", owner[t], count[t], handles[t], inside[t]) /\ handles[t]["schema"] \in Nat
    BY Unmoved DEF Detach, Held, Objects
<1>2. PICK s \in {"late", "new", "ended"} :
          /\ at' = [at EXCEPT ![t] = s]
          /\ s = "late" <=> HasSchema(t)
          /\ s = "new" => rounds[t] < MaxRounds
    BY DEF Detach, Goto
<1>3. Moves(t, s, attached[t] - 1, count[t], handles[t], inside[t], calls[t], rounds[t])
    <2>1. attached[t] - 1 \in Nat
        BY Unmoved DEF Detach, Ready, Attached
    <2> QED BY <1>2, <2>1, Unmoved DEF Detach, objects, Moves, Steps
<1>4. Held(s, owner[t], count[t], handles[t], inside[t])
    BY <1>1, <1>2 DEF Held, HasSchema
<1>5. Ready(runtime, s, attached[t] - 1)
    BY <1>2, Unmoved DEF Detach, Ready, Attached
<1>6. RoundLeft(s, rounds[t])
    BY <1>2 DEF RoundLeft
<1> QED BY <1>3, <1>4, <1>5, <1>6, OneMoves

\* The schema of an Analyzer goes last.
LEMMA ReleaseLateKeeps ==
    ASSUME RuntimeInv, NEW t \in Threads, ReleaseLate(t)
    PROVE  RuntimeInv'
<1> DEFINE c == Minus(count[t], {"schema"})
           h == Minus(handles[t], {"schema"})
<1>1. Held("late", owner[t], count[t], handles[t], inside[t]) /\ handles[t]["schema"] = 1
    BY Unmoved DEF ReleaseLate, Held
<1>2. Held("ended", owner[t], c, h, inside[t])
    BY <1>1, Dropped
<1>3. Ready(runtime, "ended", attached[t]) /\ RoundLeft("ended", rounds[t])
    BY Unmoved DEF ReleaseLate, Ready, Attached, RoundLeft
<1>4. count' = [count EXCEPT ![t] = c] /\ handles' = [handles EXCEPT ![t] = h]
    BY DEF ReleaseLate, DropSchema
<1> HIDE DEF c, h
<1>5. Moves(t, "ended", attached[t], c, h, inside[t], calls[t], rounds[t])
    BY <1>4, Unmoved DEF ReleaseLate, Goto, Moves, Steps
<1> QED BY <1>2, <1>3, <1>5, OneMoves

-----------------------------------------------------------------------------
(* The theorems *)

\* At the start no thread has anything.
LEMMA RuntimeInitInv == RuntimeInit => RuntimeInv
<1> SUFFICES ASSUME RuntimeInit PROVE RuntimeInv
    OBVIOUS
<1>1. None \in [Objects -> Nat] /\ None \in [Objects -> 0..1] /\ \A o \in Objects : None[o] = 0
    BY DEF None
<1>2. /\ runtime = "down" /\ owner \in [Threads -> Owners]
      /\ \A t \in Threads : /\ at[t] = "new" /\ attached[t] = 0 /\ count[t] = None
                            /\ handles[t] = None /\ inside[t] = None /\ rounds[t] = 0
    BY DEF RuntimeInit
<1>3. Typed
    BY <1>1, RuntimeConstants DEF RuntimeInit, Typed, Steps
<1>4. OneInitializes
    BY <1>2 DEF OneInitializes
<1>5. ASSUME NEW t \in Threads
      PROVE  /\ Held(at[t], owner[t], count[t], handles[t], inside[t])
             /\ Ready(runtime, at[t], attached[t])
             /\ RoundLeft(at[t], rounds[t])
    <2>1. Held("new", owner[t], None, None, None)
        <3> HIDE DEF None
        <3> QED BY <1>1 DEF Held, Objects
    <2>2. Ready("down", "new", 0) /\ RoundLeft("new", 0)
        BY RuntimeConstants DEF Ready, Attached, RoundLeft
    <2> QED BY <1>2, <2>1, <2>2
<1> QED BY <1>3, <1>4, <1>5 DEF RuntimeInv

\* Every step of a thread keeps the invariant.
LEMMA RuntimeStepInv == RuntimeInv /\ [RuntimeNext]_runtimeVars => RuntimeInv'
<1> SUFFICES ASSUME RuntimeInv, [RuntimeNext]_runtimeVars PROVE RuntimeInv'
    OBVIOUS
<1>1. CASE RuntimeNext
    <2>1. PICK t \in Threads : RuntimeStep(t)
        BY <1>1 DEF RuntimeNext
    <2>2. CASE BeginInit(t) \/ EndInit(t) \/ PassInit(t) \/ Poisoned(t) \/ Attach(t)
        BY <2>2, BeginInitKeeps, EndInitKeeps, PassInitKeeps, PoisonedKeeps, AttachKeeps
    <2>3. CASE LoadSchema(t) \/ TakeSchema(t) \/ ReadResponse(t)
        BY <2>3, LoadSchemaKeeps, TakeSchemaKeeps, ReadResponseKeeps
    <2>4. CASE AskOnSchema(t) \/ AskOnModel(t) \/ AskPlain(t)
        BY <2>4, AskKeeps DEF AskOnSchema, AskOnModel, AskPlain
    <2>5. CASE Finish(t) \/ Release(t) \/ Detach(t) \/ ReleaseLate(t)
        BY <2>5, FinishKeeps, ReleaseKeeps, DetachKeeps, ReleaseLateKeeps
    <2> QED BY <2>1, <2>2, <2>3, <2>4, <2>5 DEF RuntimeStep
<1>2. CASE UNCHANGED runtimeVars
    BY <1>2 DEF runtimeVars, objects, RuntimeInv, Typed, OneInitializes, Held, Ready, RoundLeft
<1> QED BY <1>1, <1>2

\* The invariant holds of every behaviour: any number of threads, calls and rounds.
THEOREM RuntimeInvariance == RuntimeSpec => []RuntimeInv
BY RuntimeInitInv, RuntimeStepInv, PTL DEF RuntimeSpec

\* The variables have their types; a thread is attached at most once.
THEOREM RuntimeTyped == RuntimeSpec => []RuntimeTypes
<1>1. RuntimeInv => RuntimeTypes
    <2> SUFFICES ASSUME RuntimeInv PROVE RuntimeTypes
        OBVIOUS
    <2>1. ASSUME NEW t \in Threads PROVE attached[t] \in 0..1
        <3>1. Ready(runtime, at[t], attached[t])
            BY Unmoved
        <3> QED BY <3>1 DEF Ready
    <2>2. attached \in [Threads -> 0..1]
        BY <2>1 DEF RuntimeInv, Typed
    <2> QED BY <2>2 DEF RuntimeInv, Typed, RuntimeTypes
<1> QED BY <1>1, RuntimeInvariance, PTL

\* No Lean object is freed under a holder, released twice or left behind, and Lean runs only
\* where it is initialised, whatever the threads do at once and whatever fails.
THEOREM RuntimeCorrect == RuntimeSpec => []RuntimeSafe
<1>1. RuntimeInv => RuntimeSafe
    <2> SUFFICES ASSUME RuntimeInv PROVE RuntimeSafe
        OBVIOUS
    <2>1. ASSUME NEW t \in Threads
          PROVE  /\ Held(at[t], owner[t], count[t], handles[t], inside[t])
                 /\ Ready(runtime, at[t], attached[t])
        BY DEF RuntimeInv
    <2>2. RefsCounted
        <3>1. ASSUME NEW t \in Threads, at[t] \in {"new", "ended"}
              PROVE  count[t] = None
            <4>1. \A o \in Objects : count[t][o] = 0
                BY <2>1, <3>1 DEF Held, Objects
            <4> QED BY <2>1, <4>1 DEF Held, None
        <3> QED BY <2>1, <3>1 DEF RefsCounted, Held
    <2>3. ThreadReady
        <3>1. ASSUME NEW t \in Threads, at[t] = "late"
              PROVE  owner[t] = "analyzer" /\ count[t]["schema"] = 1
            BY <2>1, <3>1 DEF Held, Objects
        <3> QED BY <2>1, <3>1 DEF ThreadReady, Ready, Attached
    <2> QED BY <2>2, <2>3 DEF RuntimeSafe
<1> QED BY <1>1, RuntimeInvariance, PTL

-----------------------------------------------------------------------------
(***************************************************************************)
(* PolicyAnalysis. The invariant says what is known half-way: the findings *)
(* are those of the pairs before the one at hand, the classes those of the *)
(* environments before it and, in it, those without a policy that is left, *)
(* and the results those of the environments that were asked about.        *)
(***************************************************************************)

\* What is said of one policy and another in an environment.
Alike(p, q, e) == effect[p] = effect[q] /\ matched[e][p] # {} /\ matched[e][p] = matched[e][q]
Covered(p, q, e) ==
    /\ effect[p] = effect[q] /\ matched[e][p] # {}
    /\ matched[e][p] \subseteq matched[e][q] /\ matched[e][p] # matched[e][q]
Denied(p, q, e) ==
    /\ effect[p] = "permit" /\ effect[q] = "forbid" /\ matched[e][p] # {}
    /\ matched[e][p] \subseteq matched[e][q] /\ matched[e][q] # Requests

\* The pairs that have been compared: those before turn, and after the last one all of them.
Passed(p, q) == p < q /\ (p < turn[1] \/ (p = turn[1] /\ q < turn[2]))
Compared(p, q) ==
    /\ p # q
    /\ stage \in {"classes", "printed"} \/ (stage = "pairs" /\ (Passed(p, q) \/ Passed(q, p)))

\* The classes of an environment.
ClassesOf(e) ==
    {C \in {SameAs(p, e) : p \in {o \in Policies : matched[e][o] # {}}} : Cardinality(C) >= 2}

\* The result for an environment.
ResultTrue(e) ==
    IF command = "check" THEN results[e] = (matched[e][1] = Requests)
    ELSE /\ results[e][1] \in {"equivalent", "less permissive"} <=> matched[e][1] \subseteq matched[e][2]
         /\ results[e][1] \in {"equivalent", "more permissive"} <=> matched[e][2] \subseteq matched[e][1]
         /\ results[e][2] \subseteq matched[e][1] \ matched[e][2]
         /\ results[e][3] \subseteq matched[e][2] \ matched[e][1]

Given ==
    /\ command \in Commands
    /\ \E n \in Nat \ {0}, k \in Nat :
          effect \in [1..n -> Effects] /\ matched \in [1..k -> [1..n -> Matches]]
    /\ asked \subseteq Envs

InOrder ==
    /\ stage \in {"begin", "vacuity", "pairs", "classes", "verdicts", "printed", "failed"}
    /\ stage \in {"vacuity", "pairs", "classes"} => command = "analyze"
    /\ stage = "verdicts" => command # "analyze"
    /\ stage = "vacuity" => turn[1] \in Policies
    /\ stage = "pairs" =>
          /\ turn[1] \in Policies /\ turn[2] \in Nat /\ turn[1] < turn[2]
          /\ turn[2] \notin Policies => turn[1] + 1 \notin Policies
    /\ stage = "classes" => turn[1] \in Envs

VacuityTrue(p) == vacuity[p] = [e \in Envs |-> Vacuity(matched[e][p])]

VacuityExact ==
    /\ vacuity \in [Policies -> [Envs -> {"all", "some", "none"}]]
    /\ policyset \in [Envs -> {"all", "some", "none"}]
    /\ stage = "vacuity" => \A p \in Policies : p < turn[1] => VacuityTrue(p)
    /\ stage \in {"pairs", "classes"} \/ (stage = "printed" /\ command = "analyze") =>
          (\A p \in Policies : VacuityTrue(p)) /\ policyset = [e \in Envs |-> Vacuity(Allowed(e))]

Findings == [Policies -> [Envs -> SUBSET Policies]]

PairsExact ==
    /\ redundant \in Findings /\ shadowed \in Findings /\ overridden \in Findings
    /\ command = "analyze" /\ stage # "failed" =>
          \A p, q \in Policies, e \in Envs :
              /\ q \in redundant[p][e] <=> Compared(p, q) /\ Alike(p, q, e)
              /\ q \in shadowed[p][e] <=> Compared(p, q) /\ Covered(p, q, e)
              /\ q \in overridden[p][e] <=> Compared(p, q) /\ Denied(p, q, e)

ClassesExact ==
    /\ equivalents \subseteq Policies
    /\ classes \in [Envs -> SUBSET SUBSET Policies]
    /\ stage \in {"begin", "vacuity", "pairs"} => \A e \in Envs : classes[e] = {}
    /\ stage = "classes" =>
          /\ \A e \in Envs : /\ e < turn[1] => classes[e] = ClassesOf(e)
                             /\ e > turn[1] => classes[e] = {}
          /\ classes[turn[1]] = {C \in ClassesOf(turn[1]) : C \cap equivalents = {}}
          /\ \A p \in equivalents : matched[turn[1]][p] # {} => SameAs(p, turn[1]) \subseteq equivalents
    /\ stage = "printed" /\ command = "analyze" => \A e \in Envs : classes[e] = ClassesOf(e)

ResultsExact ==
    /\ DOMAIN results \subseteq asked
    /\ \A e \in DOMAIN results : ResultTrue(e)
    /\ stage = "printed" /\ command # "analyze" => asked \subseteq DOMAIN results

AnalysisInv == Given /\ InOrder /\ VacuityExact /\ PairsExact /\ ClassesExact /\ ResultsExact

-----------------------------------------------------------------------------

\* Policies and environments are numbered from 1, and a policy matches requests.
LEMMA Numbered ==
    ASSUME Given
    PROVE  \E n \in Nat \ {0}, k \in Nat :
             /\ Policies = 1..n /\ Envs = 1..k
             /\ effect \in [1..n -> Effects]
             /\ \A e \in 1..k, p \in 1..n : matched[e][p] \in SUBSET Requests
<1>1. PICK n \in Nat \ {0}, k \in Nat :
            effect \in [1..n -> Effects] /\ matched \in [1..k -> [1..n -> Matches]]
    BY DEF Given
<1>2. Policies = 1..n /\ Envs = 1..k
    BY <1>1 DEF Policies, Envs
<1>3. \A e \in 1..k, p \in 1..n : matched[e][p] \in SUBSET Requests
    BY <1>1, AnalysisConstants
<1> QED BY <1>1, <1>2, <1>3

\* update_findings adds one policy to the findings of another in the environments it is given.
LEMMA Updated ==
    ASSUME NEW fs \in Findings, NEW p \in Policies, NEW q \in Policies, NEW E
    PROVE  /\ UpdateFindings(fs, p, q, E) \in Findings
           /\ \A a \in Policies, e \in Envs, b \in Policies :
                b \in UpdateFindings(fs, p, q, E)[a][e] <=> b \in fs[a][e] \/ (a = p /\ b = q /\ e \in E)
    BY DEF Findings, UpdateFindings

\* Nothing is found at the beginning.
LEMMA AnalysisInitInv == AnalysisInit => AnalysisInv
<1> SUFFICES ASSUME AnalysisInit PROVE AnalysisInv
    OBVIOUS
<1>1. PICK size \in Sizes :
          LET P == 1..size[1]
              E == 1..size[2]
          IN  /\ command \in {c \in Commands : c # "analyze" => size[1] = IF c = "compare" THEN 2 ELSE 1}
              /\ asked \in IF command = "check" THEN SUBSET E ELSE {E}
              /\ effect \in [P -> IF command = "analyze" THEN Effects ELSE {"permit"}]
              /\ matched \in [E -> [P -> Matches]]
              /\ stage = "begin"
              /\ vacuity = [p \in P |-> [e \in E |-> "none"]]
              /\ policyset = [e \in E |-> "none"]
              /\ redundant = NoFindings(P, E)
              /\ shadowed = NoFindings(P, E)
              /\ overridden = NoFindings(P, E)
              /\ equivalents = {}
              /\ classes = [e \in E |-> {}]
              /\ results = <<>>
    BY DEF AnalysisInit
<1>2. size[1] \in Nat \ {0} /\ size[2] \in Nat
    BY AnalysisConstants
<1> DEFINE P == 1..size[1]
           E == 1..size[2]
<1>3. effect \in [P -> Effects] /\ Policies = P /\ Envs = E
    BY <1>1 DEF Policies, Envs, Effects
<1>4. Given
    BY <1>1, <1>2, <1>3 DEF Given
<1>5. InOrder
    BY <1>1 DEF InOrder
<1>6. VacuityExact
    BY <1>1, <1>3 DEF VacuityExact
<1>7. PairsExact
    BY <1>1, <1>3 DEF PairsExact, NoFindings, Findings, Compared
<1>8. ClassesExact
    BY <1>1, <1>3 DEF ClassesExact
<1>9. ResultsExact
    BY <1>1 DEF ResultsExact
<1> QED BY <1>4, <1>5, <1>6, <1>7, <1>8, <1>9 DEF AnalysisInv

\* What a step that leaves the input alone leaves alone.
LEMMA SameGiven ==
    ASSUME UNCHANGED given
    PROVE  /\ command' = command /\ asked' = asked /\ effect' = effect /\ matched' = matched
           /\ Policies' = Policies /\ Envs' = Envs /\ Findings' = Findings
           /\ \A e \in Envs : Allowed(e)' = Allowed(e) /\ ClassesOf(e)' = ClassesOf(e)
           /\ Given => Given'
    BY DEF given, Policies, Envs, Findings, Allowed, ClassesOf, SameAs, Redundant, Given

\* A step that ends with an error keeps the findings it has, and says nothing of them.
LEMMA FailKeeps ==
    ASSUME AnalysisInv, NEW some, Fail(some)
    PROVE  AnalysisInv'
<1>1. /\ UNCHANGED <<turn, vacuity, policyset, redundant, shadowed, overridden, equivalents, classes, results>>
      /\ stage' = "failed" /\ UNCHANGED given
    BY DEF Fail, findings
<1> USE SameGiven
<1>2. Given' /\ InOrder'
    BY <1>1 DEF AnalysisInv, InOrder
<1>3. VacuityExact'
    BY <1>1 DEF AnalysisInv, VacuityExact
<1>4. PairsExact'
    BY <1>1 DEF AnalysisInv, PairsExact
<1>5. ClassesExact'
    BY <1>1 DEF AnalysisInv, ClassesExact
<1>6. ResultsExact'
    BY <1>1 DEF AnalysisInv, ResultsExact, ResultTrue
<1> QED BY <1>2, <1>3, <1>4, <1>5, <1>6 DEF AnalysisInv

\* The command starts where it should, and nothing is found yet.
LEMMA BeginKeeps == AnalysisInv /\ BeginAnalysis => AnalysisInv'
<1> SUFFICES ASSUME AnalysisInv, BeginAnalysis PROVE AnalysisInv'
    OBVIOUS
<1>1. /\ UNCHANGED <<vacuity, policyset, redundant, shadowed, overridden, equivalents, classes, results>>
      /\ UNCHANGED given /\ stage = "begin" /\ turn' = <<1, 2>>
      /\ stage' = IF command = "check" /\ asked = {} THEN "failed"
                  ELSE IF command = "analyze" THEN "vacuity" ELSE "verdicts"
    BY DEF BeginAnalysis, findings
<1> USE SameGiven
<1>2. PICK n \in Nat \ {0} : Policies = 1..n
    BY Numbered DEF AnalysisInv
<1>3. Given' /\ InOrder'
    BY <1>1, <1>2 DEF AnalysisInv, InOrder, Commands
<1>4. VacuityExact'
    BY <1>1, <1>2 DEF AnalysisInv, VacuityExact
<1>5. PairsExact'
    BY <1>1 DEF AnalysisInv, PairsExact, Compared
<1>6. ClassesExact'
    BY <1>1 DEF AnalysisInv, ClassesExact
<1>7. ResultsExact'
    BY <1>1 DEF AnalysisInv, ResultsExact, ResultTrue
<1> QED BY <1>3, <1>4, <1>5, <1>6, <1>7 DEF AnalysisInv

\* One more policy has its vacuity, and after the last the policy set has its own.
LEMMA VacuityKeeps == AnalysisInv /\ AskVacuity => AnalysisInv'
<1> SUFFICES ASSUME AnalysisInv, AskVacuity PROVE AnalysisInv'
    OBVIOUS
<1>1. CASE Fail(Envs # {})
    BY <1>1, FailKeeps
<1>2. CASE ~Fail(Envs # {})
    <2> DEFINE p == turn[1]
               v == [e \in Envs |-> Vacuity(matched[e][p])]
    <2>1. /\ UNCHANGED <<redundant, shadowed, overridden, equivalents, classes, results>>
          /\ UNCHANGED given /\ stage = "vacuity"
          /\ vacuity' = [vacuity EXCEPT ![p] = v]
          /\ IF p + 1 \in Policies
             THEN turn' = <<p + 1, p + 2>> /\ stage' = stage /\ policyset' = policyset
             ELSE /\ policyset' = [e \in Envs |-> Vacuity(Allowed(e))]
                  /\ turn' = <<1, 2>>
                  /\ stage' = "pairs"
        BY <1>2 DEF AskVacuity, findings
    <2> USE SameGiven
    <2>2. PICK n \in Nat \ {0} : Policies = 1..n
        BY Numbered DEF AnalysisInv
    <2>3. p \in Policies /\ command = "analyze"
        BY <2>1 DEF AnalysisInv, InOrder
    <2>4. Given' /\ InOrder'
        BY <2>1, <2>2, <2>3 DEF AnalysisInv, InOrder
    <2>5. VacuityExact'
        <3>1. v \in [Envs -> {"all", "some", "none"}]
            BY DEF Vacuity
        <3>2. vacuity' \in [Policies -> [Envs -> {"all", "some", "none"}]]
            BY <2>1, <3>1 DEF AnalysisInv, VacuityExact
        <3>3. vacuity'[p] = v /\ \A q \in Policies : q # p => vacuity'[q] = vacuity[q]
            BY <2>1, <2>3 DEF AnalysisInv, VacuityExact
        <3>4. \A q \in Policies : q <= p => VacuityTrue(q)'
            <4>1. \A q \in Policies : q < p => VacuityTrue(q)
                BY <2>1 DEF AnalysisInv, VacuityExact
            <4>2. \A q \in Policies : q <= p => q < p \/ q = p
                BY <2>2, <2>3
            <4>3. \A q \in Policies : q < p => q # p
                BY <2>2, <2>3
            <4>4. \A q \in Policies : q <= p => vacuity'[q] = [e \in Envs |-> Vacuity(matched[e][q])]
                BY <3>3, <4>1, <4>2, <4>3 DEF VacuityTrue
            <4>5. Envs' = Envs /\ matched' = matched
                BY <2>1
            <4> QED BY <4>4, <4>5 DEF VacuityTrue
        <3>5. policyset' \in [Envs -> {"all", "some", "none"}]
            BY <2>1 DEF AnalysisInv, VacuityExact, Vacuity
        <3>6. CASE p + 1 \in Policies
            <4>1. stage' = "vacuity" /\ turn'[1] = p + 1
                BY <2>1, <3>6
            <4>2. \A q \in Policies : q < p + 1 => q <= p
                BY <2>2, <2>3
            <4> QED BY <2>1, <3>2, <3>4, <3>5, <4>1, <4>2 DEF VacuityExact
        <3>7. CASE p + 1 \notin Policies
            <4>1. stage' = "pairs" /\ policyset' = [e \in Envs |-> Vacuity(Allowed(e))]
                BY <2>1, <3>7
            <4>2. \A q \in Policies : q <= p
                BY <2>2, <2>3, <3>7
            <4>3. policyset' = [e \in Envs |-> Vacuity(Allowed(e))]'
                BY <2>1, <4>1
            <4> QED BY <2>1, <3>2, <3>4, <3>5, <4>1, <4>2, <4>3 DEF VacuityExact
        <3> QED BY <3>6, <3>7
    <2>6. PairsExact'
        <3>1. \A a, b \in Policies : ~Compared(a, b) /\ ~Compared(a, b)'
            <4>1. \A a, b \in Policies : ~(a < 1) /\ ~(a = 1 /\ b < 2 /\ a < b)
                BY <2>2
            <4>2. stage' = "vacuity" \/ (stage' = "pairs" /\ turn' = <<1, 2>>)
                BY <2>1
            <4> QED BY <2>1, <4>1, <4>2 DEF Compared, Passed
        <3> QED BY <2>1, <3>1 DEF AnalysisInv, PairsExact
    <2>7. ClassesExact'
        BY <2>1 DEF AnalysisInv, ClassesExact
    <2>8. ResultsExact'
        BY <2>1, <2>3 DEF AnalysisInv, ResultsExact, ResultTrue
    <2> QED BY <2>4, <2>5, <2>6, <2>7, <2>8 DEF AnalysisInv
<1> QED BY <1>1, <1>2

\* The table that decides a pair is right, also where a vacuity decides it without Lean.
LEMMA PairDecided ==
    ASSUME AnalysisInv, stage = "pairs", NEW p \in Policies, NEW q \in Policies, NEW e \in Envs
    PROVE  /\ effect[p] = effect[q] =>
                /\ e \in Having(p, q, "equivalent") <=> Alike(p, q, e)
                /\ e \in Having(p, q, "equivalent") <=> Alike(q, p, e)
                /\ e \in Having(p, q, "2 shadows 1") <=> Covered(p, q, e)
                /\ e \in Having(p, q, "1 shadows 2") <=> Covered(q, p, e)
           /\ effect[p] = "permit" /\ effect[q] = "forbid" =>
                (e \in Overrides(q, p) <=> Denied(p, q, e))
<1>1. /\ vacuity[p][e] = Vacuity(matched[e][p]) /\ vacuity[q][e] = Vacuity(matched[e][q])
      /\ matched[e][p] \in SUBSET Requests /\ matched[e][q] \in SUBSET Requests
    BY Numbered DEF AnalysisInv, VacuityExact, VacuityTrue
<1> DEFINE r == Shadowing(vacuity[p][e], vacuity[q][e], Implies(p, q, e), Implies(q, p, e))
<1>2. \A result : e \in Having(p, q, result) <=> r = result
    BY DEF Having
<1>3. /\ r = "equivalent" <=> matched[e][p] # {} /\ matched[e][p] = matched[e][q]
      /\ r = "2 shadows 1" <=> matched[e][p] # {} /\ matched[e][p] \subseteq matched[e][q]
                                /\ matched[e][p] # matched[e][q]
      /\ r = "1 shadows 2" <=> matched[e][q] # {} /\ matched[e][q] \subseteq matched[e][p]
                                /\ matched[e][q] # matched[e][p]
    <2> DEFINE S == matched[e][p]
               T == matched[e][q]
    <2>1. r = LET v1 == Vacuity(S) v2 == Vacuity(T) IN
              IF "none" \in {v1, v2} THEN "none"
              ELSE IF v1 = "all" /\ v2 = "all" THEN "equivalent"
              ELSE IF v1 = "all" THEN "1 shadows 2"
              ELSE IF v2 = "all" THEN "2 shadows 1"
              ELSE IF S \subseteq T /\ T \subseteq S THEN "equivalent"
              ELSE IF S \subseteq T THEN "2 shadows 1"
              ELSE IF T \subseteq S THEN "1 shadows 2" ELSE "none"
        BY <1>1 DEF Shadowing, Implies
    <2>2. S \in SUBSET Requests /\ T \in SUBSET Requests
        BY <1>1
    <2> HIDE DEF r, S, T
    <2>3. /\ r = "equivalent" <=> S # {} /\ S = T
          /\ r = "2 shadows 1" <=> S # {} /\ S \subseteq T /\ S # T
          /\ r = "1 shadows 2" <=> T # {} /\ T \subseteq S /\ T # S
        BY <2>1, <2>2, AnalysisConstants DEF Vacuity
    <2> QED BY <2>3 DEF S, T
<1> HIDE DEF r
<1>4. effect[p] = effect[q] =>
                /\ e \in Having(p, q, "equivalent") <=> Alike(p, q, e)
                /\ e \in Having(p, q, "equivalent") <=> Alike(q, p, e)
                /\ e \in Having(p, q, "2 shadows 1") <=> Covered(p, q, e)
                /\ e \in Having(p, q, "1 shadows 2") <=> Covered(q, p, e)
    BY <1>2, <1>3 DEF Alike, Covered
<1>5. e \in Undecided(q, p) <=> Vacuity(matched[e][q]) = "some" /\ Vacuity(matched[e][p]) = "some"
    BY <1>1 DEF Undecided
<1>6. /\ Vacuity(matched[e][p]) = "some" <=> matched[e][p] # {} /\ matched[e][p] # Requests
      /\ Vacuity(matched[e][q]) = "some" <=> matched[e][q] # {} /\ matched[e][q] # Requests
    BY AnalysisConstants DEF Vacuity
<1>7. e \in Overrides(q, p) <=> e \in Undecided(q, p) /\ matched[e][p] \subseteq matched[e][q]
    BY DEF Overrides, Implies
<1>8. effect[p] = "permit" /\ effect[q] = "forbid" => (e \in Overrides(q, p) <=> Denied(p, q, e))
    BY <1>1, <1>5, <1>6, <1>7 DEF Denied
<1> QED BY <1>4, <1>8

\* The pairs come one after the other, and none is left out.
LEMMA PairAfterPair ==
    ASSUME AnalysisInv, stage = "pairs", turn[2] \in Policies, turn' = NextPair, UNCHANGED <<stage, given>>
    PROVE  /\ turn'[1] \in Policies /\ turn'[2] \in Nat /\ turn'[1] < turn'[2]
           /\ turn'[2] \notin Policies => turn'[1] + 1 \notin Policies
           /\ \A a, b \in Policies :
                Compared(a, b)' <=> Compared(a, b) \/ (a = turn[1] /\ b = turn[2]) \/ (a = turn[2] /\ b = turn[1])
<1> DEFINE p == turn[1]
           q == turn[2]
<1>1. PICK n \in Nat \ {0} : Policies = 1..n
    BY Numbered DEF AnalysisInv
<1>2. p \in 1..n /\ q \in 1..n /\ p < q
    BY <1>1 DEF AnalysisInv, InOrder
<1> HIDE DEF p, q
<1>3. turn' = IF q < n THEN <<p, q + 1>> ELSE <<p + 1, p + 2>>
    BY <1>1, <1>2 DEF NextPair, p, q
<1>4. \A a, b \in 1..n : Compared(a, b) <=> a # b /\ (Passed(a, b) \/ Passed(b, a))
    BY DEF Compared
<1>5. \A a, b \in 1..n : Compared(a, b)' <=> a # b /\ (Passed(a, b)' \/ Passed(b, a)')
    BY DEF Compared
<1>6. \A a, b \in 1..n : Passed(a, b)' <=> Passed(a, b) \/ (a = p /\ b = q)
    <2> SUFFICES ASSUME NEW a \in 1..n, NEW b \in 1..n
                 PROVE  Passed(a, b)' <=> Passed(a, b) \/ (a = p /\ b = q)
        OBVIOUS
    <2>1. Passed(a, b) <=> a < b /\ (a < p \/ (a = p /\ b < q))
        BY DEF Passed, p, q
    <2>2. CASE q < n
        <3>1. Passed(a, b)' <=> a < b /\ (a < p \/ (a = p /\ b < q + 1))
            BY <1>3, <2>2 DEF Passed
        <3> QED BY <1>2, <2>1, <3>1
    <2>3. CASE ~(q < n)
        <3>1. Passed(a, b)' <=> a < b /\ (a < p + 1 \/ (a = p + 1 /\ b < p + 2))
            BY <1>3, <2>3 DEF Passed
        <3> QED BY <1>2, <2>1, <2>3, <3>1
    <2> QED BY <2>2, <2>3
<1>7. /\ turn'[1] \in Policies /\ turn'[2] \in Nat /\ turn'[1] < turn'[2]
      /\ turn'[2] \notin Policies => turn'[1] + 1 \notin Policies
    BY <1>1, <1>2, <1>3
<1>8. \A a, b \in 1..n : Compared(a, b)' <=> Compared(a, b) \/ (a = p /\ b = q) \/ (a = q /\ b = p)
    BY <1>2, <1>4, <1>5, <1>6
<1> QED BY <1>1, <1>7, <1>8 DEF p, q

\* The findings of one more pair are in: both directions of it, and no others.
LEMMA PairKeeps == AnalysisInv /\ ComparePair => AnalysisInv'
<1> SUFFICES ASSUME AnalysisInv, ComparePair PROVE AnalysisInv'
    OBVIOUS
<1> DEFINE p == turn[1]
           q == turn[2]
<1>1. CASE Fail(Undecided(p, q) # {})
    BY <1>1, FailKeeps
<1>2. CASE ~Fail(Undecided(p, q) # {})
    <2>1. /\ UNCHANGED <<stage, vacuity, policyset, equivalents, classes, results>>
          /\ UNCHANGED given /\ turn' = NextPair /\ stage = "pairs" /\ q \in Policies
          /\ SameEffect(p, q) \/ OtherEffect(p, q)
        BY <1>2 DEF ComparePair
    <2> USE SameGiven
    <2>2. p \in Policies /\ p # q /\ command = "analyze"
        <3>1. PICK n \in Nat \ {0} : Policies = 1..n
            BY Numbered DEF AnalysisInv
        <3> QED BY <2>1, <3>1 DEF AnalysisInv, InOrder
    <2>3. /\ turn'[1] \in Policies /\ turn'[2] \in Nat /\ turn'[1] < turn'[2]
          /\ turn'[2] \notin Policies => turn'[1] + 1 \notin Policies
          /\ \A a, b \in Policies :
                Compared(a, b)' <=> Compared(a, b) \/ (a = p /\ b = q) \/ (a = q /\ b = p)
        BY <2>1, PairAfterPair
    <2>4. Given' /\ InOrder'
        BY <2>1, <2>2, <2>3 DEF AnalysisInv, InOrder
    <2>5. VacuityExact'
        BY <2>1, <2>2 DEF AnalysisInv, VacuityExact, VacuityTrue
    <2>6. PairsExact'
        <3>1. /\ redundant \in Findings /\ shadowed \in Findings /\ overridden \in Findings
              /\ \A a, b \in Policies, e \in Envs :
                    /\ b \in redundant[a][e] <=> Compared(a, b) /\ Alike(a, b, e)
                    /\ b \in shadowed[a][e] <=> Compared(a, b) /\ Covered(a, b, e)
                    /\ b \in overridden[a][e] <=> Compared(a, b) /\ Denied(a, b, e)
            BY <2>1, <2>2 DEF AnalysisInv, PairsExact
        <3>2. \A e \in Envs :
                 /\ effect[p] = effect[q] =>
                      /\ e \in Having(p, q, "equivalent") <=> Alike(p, q, e)
                      /\ e \in Having(p, q, "equivalent") <=> Alike(q, p, e)
                      /\ e \in Having(p, q, "2 shadows 1") <=> Covered(p, q, e)
                      /\ e \in Having(p, q, "1 shadows 2") <=> Covered(q, p, e)
                 /\ effect[p] = "permit" /\ effect[q] = "forbid" => (e \in Overrides(q, p) <=> Denied(p, q, e))
                 /\ effect[q] = "permit" /\ effect[p] = "forbid" => (e \in Overrides(p, q) <=> Denied(q, p, e))
            BY <2>1, <2>2, PairDecided
        <3>3. \A a, b \in Policies, e \in Envs :
                 (Alike(a, b, e)' <=> Alike(a, b, e)) /\ (Covered(a, b, e)' <=> Covered(a, b, e))
                 /\ (Denied(a, b, e)' <=> Denied(a, b, e))
            BY <2>1 DEF Alike, Covered, Denied
        <3>4. \A e \in Envs :
                 /\ effect[p] # effect[q] => ~Alike(p, q, e) /\ ~Alike(q, p, e) /\ ~Covered(p, q, e) /\ ~Covered(q, p, e)
                 /\ ~(effect[p] = "permit" /\ effect[q] = "forbid") => ~Denied(p, q, e)
                 /\ ~(effect[q] = "permit" /\ effect[p] = "forbid") => ~Denied(q, p, e)
            BY DEF Alike, Covered, Denied
        <3>5. effect[p] \in Effects /\ effect[q] \in Effects
            BY <2>1, <2>2, Numbered DEF AnalysisInv
        <3>6. /\ redundant' \in Findings /\ shadowed' \in Findings /\ overridden' \in Findings
              /\ \A a, b \in Policies, e \in Envs :
                    /\ b \in redundant'[a][e] <=>
                          b \in redundant[a][e] \/ (((a = p /\ b = q) \/ (a = q /\ b = p)) /\ Alike(a, b, e))
                    /\ b \in shadowed'[a][e] <=>
                          b \in shadowed[a][e] \/ (((a = p /\ b = q) \/ (a = q /\ b = p)) /\ Covered(a, b, e))
                    /\ b \in overridden'[a][e] <=>
                          b \in overridden[a][e] \/ (((a = p /\ b = q) \/ (a = q /\ b = p)) /\ Denied(a, b, e))
            <4>1. CASE SameEffect(p, q)
                <5> DEFINE R == Having(p, q, "equivalent")
                           S2 == Having(p, q, "2 shadows 1")
                           S1 == Having(p, q, "1 shadows 2")
                <5>1. /\ effect[p] = effect[q] /\ overridden' = overridden
                      /\ redundant' = UpdateFindings(UpdateFindings(redundant, p, q, R), q, p, R)
                      /\ shadowed' = UpdateFindings(UpdateFindings(shadowed, p, q, S2), q, p, S1)
                    BY <4>1 DEF SameEffect
                <5>0. \A e \in Envs : /\ (e \in R <=> Alike(p, q, e)) /\ (e \in R <=> Alike(q, p, e))
                                      /\ (e \in S2 <=> Covered(p, q, e)) /\ (e \in S1 <=> Covered(q, p, e))
                    BY <3>2, <5>1
                <5> HIDE DEF R, S1, S2
                <5>2. /\ redundant' \in Findings
                      /\ \A a \in Policies, e \in Envs, b \in Policies :
                            b \in redundant'[a][e] <=> \/ b \in redundant[a][e]
                                                       \/ a = p /\ b = q /\ e \in R
                                                       \/ a = q /\ b = p /\ e \in R
                    <6> DEFINE F == UpdateFindings(redundant, p, q, R)
                    <6>1. /\ F \in Findings
                          /\ \A a \in Policies, e \in Envs, b \in Policies :
                                b \in F[a][e] <=> b \in redundant[a][e] \/ (a = p /\ b = q /\ e \in R)
                        BY <2>1, <2>2, <3>1, Updated
                    <6>2. redundant' = UpdateFindings(F, q, p, R)
                        BY <5>1
                    <6> HIDE DEF F
                    <6> QED BY <2>1, <2>2, <6>1, <6>2, Updated
                <5>3. /\ shadowed' \in Findings
                      /\ \A a \in Policies, e \in Envs, b \in Policies :
                            b \in shadowed'[a][e] <=> \/ b \in shadowed[a][e]
                                                      \/ a = p /\ b = q /\ e \in S2
                                                      \/ a = q /\ b = p /\ e \in S1
                    <6> DEFINE F == UpdateFindings(shadowed, p, q, S2)
                    <6>1. /\ F \in Findings
                          /\ \A a \in Policies, e \in Envs, b \in Policies :
                                b \in F[a][e] <=> b \in shadowed[a][e] \/ (a = p /\ b = q /\ e \in S2)
                        BY <2>1, <2>2, <3>1, Updated
                    <6>2. shadowed' = UpdateFindings(F, q, p, S1)
                        BY <5>1
                    <6> HIDE DEF F
                    <6> QED BY <2>1, <2>2, <6>1, <6>2, Updated
                <5>4. \A e \in Envs : ~Denied(p, q, e) /\ ~Denied(q, p, e)
                    BY <5>1, <3>4
                <5> QED BY <3>1, <5>0, <5>1, <5>2, <5>3, <5>4
            <4>2. CASE OtherEffect(p, q)
                <5>1. /\ effect[p] # effect[q] /\ redundant' = redundant /\ shadowed' = shadowed
                      /\ overridden' = IF effect[p] = "permit" THEN UpdateFindings(overridden, p, q, Overrides(q, p))
                                                               ELSE UpdateFindings(overridden, q, p, Overrides(p, q))
                    BY <4>2 DEF OtherEffect
                <5>2. CASE effect[p] = "permit"
                    <6>1. effect[q] = "forbid"
                        BY <3>5, <5>1, <5>2 DEF Effects
                    <6>2. /\ overridden' \in Findings
                          /\ \A a \in Policies, e \in Envs, b \in Policies :
                                b \in overridden'[a][e] <=>
                                    b \in overridden[a][e] \/ (a = p /\ b = q /\ e \in Overrides(q, p))
                        BY <2>1, <2>2, <3>1, <5>1, <5>2, Updated
                    <6> QED BY <3>1, <3>2, <3>4, <5>1, <5>2, <6>1, <6>2
                <5>3. CASE effect[p] # "permit"
                    <6>1. effect[q] = "permit" /\ effect[p] = "forbid"
                        BY <3>5, <5>1, <5>3 DEF Effects
                    <6>2. /\ overridden' \in Findings
                          /\ \A a \in Policies, e \in Envs, b \in Policies :
                                b \in overridden'[a][e] <=>
                                    b \in overridden[a][e] \/ (a = q /\ b = p /\ e \in Overrides(p, q))
                        BY <2>1, <2>2, <3>1, <5>1, <5>3, Updated
                    <6> QED BY <3>1, <3>2, <3>4, <5>1, <5>3, <6>1, <6>2
                <5> QED BY <5>2, <5>3
            <4> QED BY <2>1, <4>1, <4>2
        <3>7. \A a, b \in Policies, e \in Envs :
                    /\ b \in redundant'[a][e] <=> Compared(a, b)' /\ Alike(a, b, e)'
                    /\ b \in shadowed'[a][e] <=> Compared(a, b)' /\ Covered(a, b, e)'
                    /\ b \in overridden'[a][e] <=> Compared(a, b)' /\ Denied(a, b, e)'
            BY <2>3, <3>1, <3>3, <3>6
        <3> QED BY <2>1, <3>6, <3>7 DEF PairsExact
    <2>7. ClassesExact'
        BY <2>1 DEF AnalysisInv, ClassesExact
    <2>8. ResultsExact'
        BY <2>1, <2>2 DEF AnalysisInv, ResultsExact, ResultTrue
    <2> QED BY <2>4, <2>5, <2>6, <2>7, <2>8 DEF AnalysisInv
<1> QED BY <1>1, <1>2

\* After the last pair every pair has been compared.
LEMMA PairsDoneKeeps == AnalysisInv /\ PairsDone => AnalysisInv'
<1> SUFFICES ASSUME AnalysisInv, PairsDone PROVE AnalysisInv'
    OBVIOUS
<1>1. /\ UNCHANGED <<vacuity, policyset, redundant, shadowed, overridden, classes, results>>
      /\ UNCHANGED given /\ turn' = <<1, 2>> /\ equivalents' = Policies
      /\ stage = "pairs" /\ turn[2] \notin Policies
      /\ stage' = IF Envs = {} THEN "printed" ELSE "classes"
    BY DEF PairsDone, findings
<1> USE SameGiven
<1>2. PICK n \in Nat \ {0}, k \in Nat : Policies = 1..n /\ Envs = 1..k
    BY Numbered DEF AnalysisInv
<1>3. command = "analyze" /\ turn[1] \in 1..n /\ turn[2] \in Nat /\ turn[1] < turn[2] /\ turn[1] + 1 \notin 1..n
    BY <1>1, <1>2 DEF AnalysisInv, InOrder
<1>4. Given' /\ InOrder'
    BY <1>1, <1>2, <1>3 DEF AnalysisInv, InOrder
<1>5. VacuityExact'
    <2>1. (\A p \in Policies : VacuityTrue(p)) /\ policyset = [e \in Envs |-> Vacuity(Allowed(e))]
        BY <1>1 DEF AnalysisInv, VacuityExact
    <2>2. \A p \in Policies : VacuityTrue(p)'
        BY <1>1, <2>1 DEF VacuityTrue
    <2>3. policyset' = [e \in Envs |-> Vacuity(Allowed(e))]'
        BY <1>1, <2>1
    <2> QED BY <1>1, <2>2, <2>3 DEF AnalysisInv, VacuityExact
<1>6. PairsExact'
    <2>1. \A a, b \in Policies : Compared(a, b)' <=> Compared(a, b)
        <3>1. \A a, b \in Policies : a < b => Passed(a, b)
            BY <1>1, <1>2, <1>3 DEF Passed
        <3>2. \A a, b \in Policies : a # b => a < b \/ b < a
            BY <1>2
        <3> QED BY <1>1, <3>1, <3>2 DEF Compared
    <2>2. \A a, b \in Policies, e \in Envs :
            /\ b \in redundant[a][e] <=> Compared(a, b) /\ Alike(a, b, e)
            /\ b \in shadowed[a][e] <=> Compared(a, b) /\ Covered(a, b, e)
            /\ b \in overridden[a][e] <=> Compared(a, b) /\ Denied(a, b, e)
        BY <1>1, <1>3 DEF AnalysisInv, PairsExact
    <2>3. \A a, b \in Policies, e \in Envs :
             /\ Alike(a, b, e)' <=> Alike(a, b, e)
             /\ Covered(a, b, e)' <=> Covered(a, b, e)
             /\ Denied(a, b, e)' <=> Denied(a, b, e)
        BY <1>1 DEF Alike, Covered, Denied
    <2>4. \A a, b \in Policies, e \in Envs :
            /\ b \in redundant'[a][e] <=> Compared(a, b)' /\ Alike(a, b, e)'
            /\ b \in shadowed'[a][e] <=> Compared(a, b)' /\ Covered(a, b, e)'
            /\ b \in overridden'[a][e] <=> Compared(a, b)' /\ Denied(a, b, e)'
        BY <1>1, <2>1, <2>2, <2>3
    <2> QED BY <1>1, <2>4 DEF AnalysisInv, PairsExact
<1>7. ClassesExact'
    <2>1. \A e \in Envs : classes'[e] = {}
        BY <1>1 DEF AnalysisInv, ClassesExact
    <2>2. ASSUME NEW e \in Envs, NEW C \in ClassesOf(e)
          PROVE  C \cap Policies # {}
        <3>1. PICK o \in Policies : C = SameAs(o, e)
            BY DEF ClassesOf
        <3>2. o \in C
            BY <3>1 DEF SameAs, Redundant
        <3> QED BY <3>2
    <2>3. \A e \in Envs, p \in Policies : SameAs(p, e)' \subseteq Policies
        BY <1>1 DEF SameAs, Redundant
    <2>4. CASE Envs = {}
        BY <1>1, <2>4 DEF AnalysisInv, ClassesExact
    <2>5. CASE Envs # {}
        <3>1. 1 \in Envs /\ turn'[1] = 1 /\ stage' = "classes"
            BY <1>1, <1>2, <2>5
        <3>2. \A e \in Envs : ~(e < 1)
            BY <1>2
        <3>3. classes'[1] = {C \in ClassesOf(1) : C \cap Policies = {}}
            BY <2>1, <2>2, <3>1
        <3>4. classes'[1] = {C \in ClassesOf(1)' : C \cap Policies = {}}
            BY <1>1, <3>1, <3>3
        <3> QED BY <1>1, <2>1, <2>3, <3>1, <3>2, <3>4 DEF AnalysisInv, ClassesExact
    <2> QED BY <2>4, <2>5
<1>8. ResultsExact'
    BY <1>1, <1>3 DEF AnalysisInv, ResultsExact, ResultTrue
<1> QED BY <1>4, <1>5, <1>6, <1>7, <1>8 DEF AnalysisInv

\* What is not about the classes stays as it is while they are collected.
LEMMA CollectingKeeps ==
    ASSUME AnalysisInv, stage = "classes", stage' \in {"classes", "printed"},
           UNCHANGED <<given, vacuity, policyset, findings, results>>,
           stage' = "classes" => turn'[1] \in Envs, ClassesExact'
    PROVE  AnalysisInv'
<1>1. UNCHANGED given /\ command = "analyze" /\ UNCHANGED <<vacuity, policyset, redundant, shadowed, overridden, results>>
    BY DEF AnalysisInv, InOrder, findings
<1> USE SameGiven
<1>2. Given' /\ InOrder'
    BY <1>1 DEF AnalysisInv, InOrder
<1>3. VacuityExact'
    <2>1. (\A p \in Policies : VacuityTrue(p)) /\ policyset = [e \in Envs |-> Vacuity(Allowed(e))]
        BY DEF AnalysisInv, VacuityExact
    <2>2. \A p \in Policies : VacuityTrue(p)'
        BY <1>1, <2>1 DEF VacuityTrue
    <2>3. policyset' = [e \in Envs |-> Vacuity(Allowed(e))]'
        BY <1>1, <2>1
    <2> QED BY <1>1, <2>2, <2>3 DEF AnalysisInv, VacuityExact
<1>4. PairsExact'
    <2>1. \A a, b \in Policies : Compared(a, b)' <=> Compared(a, b)
        BY DEF Compared
    <2>2. \A a, b \in Policies, e \in Envs :
            /\ b \in redundant[a][e] <=> Compared(a, b) /\ Alike(a, b, e)
            /\ b \in shadowed[a][e] <=> Compared(a, b) /\ Covered(a, b, e)
            /\ b \in overridden[a][e] <=> Compared(a, b) /\ Denied(a, b, e)
        BY <1>1 DEF AnalysisInv, PairsExact
    <2>3. \A a, b \in Policies, e \in Envs :
             /\ Alike(a, b, e)' <=> Alike(a, b, e)
             /\ Covered(a, b, e)' <=> Covered(a, b, e)
             /\ Denied(a, b, e)' <=> Denied(a, b, e)
        BY <1>1 DEF Alike, Covered, Denied
    <2>4. \A a, b \in Policies, e \in Envs :
            /\ b \in redundant'[a][e] <=> Compared(a, b)' /\ Alike(a, b, e)'
            /\ b \in shadowed'[a][e] <=> Compared(a, b)' /\ Covered(a, b, e)'
            /\ b \in overridden'[a][e] <=> Compared(a, b)' /\ Denied(a, b, e)'
        BY <1>1, <2>1, <2>2, <2>3
    <2> QED BY <1>1, <2>4 DEF AnalysisInv, PairsExact
<1>5. ResultsExact'
    BY <1>1 DEF AnalysisInv, ResultsExact, ResultTrue
<1> QED BY <1>2, <1>3, <1>4, <1>5 DEF AnalysisInv

\* A class is taken whole, with the keys of it: no other class loses a policy.
LEMMA ClassKeeps == AnalysisInv /\ TakeClass => AnalysisInv'
<1> SUFFICES ASSUME AnalysisInv, TakeClass PROVE AnalysisInv'
    OBVIOUS
<1>0. PICK e : e = turn[1]
    OBVIOUS
<1>1. PICK p \in equivalents :
            /\ equivalents' = equivalents \ (ClassOf(p, e) \cup {p})
            /\ classes' = IF Cardinality(ClassOf(p, e)) >= 2
                          THEN [classes EXCEPT ![e] = @ \cup {ClassOf(p, e)}] ELSE classes
    BY <1>0 DEF TakeClass
<1>2. UNCHANGED <<given, stage, turn, vacuity, policyset, findings, results>> /\ stage = "classes"
    BY DEF TakeClass
<1>3. /\ e \in Envs /\ p \in Policies /\ equivalents \subseteq Policies /\ command = "analyze"
      /\ classes \in [Envs -> SUBSET SUBSET Policies]
      /\ \A d \in Envs : /\ d < e => classes[d] = ClassesOf(d)
                         /\ d > e => classes[d] = {}
      /\ classes[e] = {C \in ClassesOf(e) : C \cap equivalents = {}}
      /\ \A q \in equivalents : matched[e][q] # {} => SameAs(q, e) \subseteq equivalents
    BY <1>0, <1>2 DEF AnalysisInv, InOrder, ClassesExact
<1>4. ClassOf(p, e) = IF matched[e][p] # {} THEN SameAs(p, e) ELSE {p}
    <2>1. \A q \in Policies : q \in redundant[p][e] <=> q # p /\ Alike(p, q, e)
        BY <1>2, <1>3 DEF AnalysisInv, PairsExact, Compared
    <2>2. redundant[p][e] \subseteq Policies
        BY <1>3 DEF AnalysisInv, PairsExact, Findings
    <2> QED BY <1>3, <2>1, <2>2 DEF ClassOf, Alike, SameAs, Redundant
<1> DEFINE class == ClassOf(p, e)
<1>5. class \subseteq Policies /\ p \in class /\ equivalents' = equivalents \ class
    BY <1>1, <1>3, <1>4 DEF SameAs, Redundant
<1>6. matched[e][p] = {} => Cardinality(class) = 1
    BY <1>4, FS_Singleton
<1>7. \A C \in ClassesOf(e) : C \cap equivalents' = {} <=> C \cap equivalents = {} \/ C = class
    <2> SUFFICES ASSUME NEW C \in ClassesOf(e)
                 PROVE  C \cap equivalents' = {} <=> C \cap equivalents = {} \/ C = class
        OBVIOUS
    <2>1. PICK o \in Policies : C = SameAs(o, e) /\ matched[e][o] # {}
        BY DEF ClassesOf
    <2>2. \A x \in C : x \in Policies /\ effect[x] = effect[o] /\ matched[e][x] = matched[e][o]
        BY <2>1 DEF SameAs, Redundant
    <2>3. ASSUME NEW x \in C \cap class
          PROVE  C = class
        <3>1. CASE matched[e][p] # {}
            BY <1>4, <2>1, <2>2, <2>3, <3>1 DEF SameAs, Redundant
        <3>2. CASE matched[e][p] = {}
            BY <1>4, <2>1, <2>2, <2>3, <3>2
        <3> QED BY <3>1, <3>2
    <2> HIDE DEF class
    <2> QED BY <1>5, <2>3
<1>8. matched[e][p] # {} /\ Cardinality(class) >= 2 <=> class \in ClassesOf(e)
    <2>1. matched[e][p] # {} /\ Cardinality(class) >= 2 => class \in ClassesOf(e)
        BY <1>3, <1>4 DEF ClassesOf
    <2>2. ASSUME class \in ClassesOf(e)
          PROVE  matched[e][p] # {} /\ Cardinality(class) >= 2
        <3>1. Cardinality(class) >= 2
            BY <2>2 DEF ClassesOf
        <3> HIDE DEF class
        <3> QED BY <1>6, <3>1
    <2> QED BY <2>1, <2>2
<1>9. classes' = IF class \in ClassesOf(e) THEN [classes EXCEPT ![e] = @ \cup {class}] ELSE classes
    <2>1. Cardinality(class) >= 2 => matched[e][p] # {}
        <3> HIDE DEF class
        <3> QED BY <1>6
    <2> QED BY <1>1, <1>8, <2>1
<1> HIDE DEF class
<1>10. ClassesExact'
    <2>1. classes' \in [Envs -> SUBSET SUBSET Policies]
        BY <1>3, <1>5, <1>9
    <2>2. \A d \in Envs : d # e => classes'[d] = classes[d]
        BY <1>3, <1>9
    <2>3. classes'[e] = {C \in ClassesOf(e) : C \cap equivalents' = {}}
        BY <1>3, <1>7, <1>9
    <2>4. \A q \in equivalents' : matched[e][q] # {} => SameAs(q, e) \subseteq equivalents'
        <3> SUFFICES ASSUME NEW q \in equivalents', matched[e][q] # {}, NEW x \in SameAs(q, e), x \in class
                     PROVE  FALSE
            BY <1>3, <1>5
        <3>1. q \in Policies /\ q \notin class
            BY <1>3, <1>5
        <3>2. x \in Policies /\ effect[x] = effect[q] /\ matched[e][x] = matched[e][q]
            BY DEF SameAs, Redundant
        <3> QED BY <1>4, <3>1, <3>2 DEF SameAs, Redundant, class
    <2>5. \A d \in Envs : d < e \/ d > e => d # e
        <3>1. \E k \in Nat : Envs = 1..k
            BY Numbered DEF AnalysisInv
        <3> QED BY <1>3, <3>1
    <2>6. /\ Policies' = Policies /\ Envs' = Envs /\ turn'[1] = e /\ e \in Envs /\ stage' = "classes"
          /\ \A d \in Envs : ClassesOf(d)' = ClassesOf(d)
          /\ matched' = matched
        BY <1>0, <1>2, <1>3, SameGiven
    <2>7. \A q \in Policies : SameAs(q, e)' = SameAs(q, e)
        BY <1>2, <2>6, SameGiven DEF SameAs, Redundant
    <2>8. \A d \in Envs : /\ d < e => classes'[d] = ClassesOf(d)'
                          /\ d > e => classes'[d] = {}
        BY <1>3, <2>2, <2>5, <2>6
    <2>9. classes'[e] = {C \in ClassesOf(e)' : C \cap equivalents' = {}}
        BY <2>3, <2>6
    <2>10. \A q \in equivalents' : matched'[e][q] # {} => SameAs(q, e)' \subseteq equivalents'
        BY <1>3, <1>5, <2>4, <2>6, <2>7
    <2>11. equivalents' \subseteq Policies
        BY <1>3, <1>5
    <2> QED BY <2>1, <2>6, <2>8, <2>9, <2>10, <2>11 DEF ClassesExact
<1> QED BY <1>0, <1>2, <1>3, <1>10, CollectingKeeps

\* When no key is left, all the classes of the environment are there.
LEMMA SignatureKeeps == AnalysisInv /\ NextSignature => AnalysisInv'
<1> SUFFICES ASSUME AnalysisInv, NextSignature PROVE AnalysisInv'
    OBVIOUS
<1>0. PICK e : e = turn[1]
    OBVIOUS
<1>1. /\ stage = "classes" /\ equivalents = {} /\ UNCHANGED <<given, vacuity, policyset, findings, classes, results>>
      /\ IF e + 1 \in Envs
         THEN turn' = <<e + 1, e + 2>> /\ equivalents' = Policies /\ stage' = stage
         ELSE stage' = "printed" /\ turn' = turn /\ equivalents' = equivalents
    BY <1>0 DEF NextSignature
<1>2. PICK k \in Nat : Envs = 1..k
    BY Numbered DEF AnalysisInv
<1>3. /\ e \in 1..k /\ classes \in [Envs -> SUBSET SUBSET Policies]
      /\ \A d \in Envs : /\ d < e => classes[d] = ClassesOf(d)
                         /\ d > e => classes[d] = {}
      /\ classes[e] = {C \in ClassesOf(e) : C \cap equivalents = {}}
    BY <1>0, <1>1, <1>2 DEF AnalysisInv, InOrder, ClassesExact
<1>4. classes[e] = ClassesOf(e)
    BY <1>1, <1>3
<1>5. \A d \in Envs : d <= e => classes[d] = ClassesOf(d)
    <2>1. \A d \in Envs : d <= e => d < e \/ d = e
        BY <1>2, <1>3
    <2> QED BY <1>3, <1>4, <2>1
<1>6. /\ Policies' = Policies /\ Envs' = Envs /\ classes' = classes
      /\ \A d \in Envs : ClassesOf(d)' = ClassesOf(d)
    BY <1>1, SameGiven
<1>7. ClassesExact'
    <2>1. CASE e + 1 \in Envs
        <3>1. turn'[1] = e + 1 /\ equivalents' = Policies /\ stage' = "classes"
            BY <1>1, <2>1
        <3>2. \A d \in Envs : (d < e + 1 => d <= e) /\ (d > e + 1 => d > e)
            BY <1>2, <1>3
        <3>3. e + 1 > e
            BY <1>2, <1>3
        <3>4. \A C \in ClassesOf(e + 1) : C \cap Policies # {}
            BY DEF ClassesOf, SameAs, Redundant
        <3>5. classes'[e + 1] = {C \in ClassesOf(e + 1)' : C \cap Policies = {}}
            BY <1>3, <1>6, <2>1, <3>3, <3>4
        <3>6. \A q \in Policies : SameAs(q, e + 1)' \subseteq Policies
            BY <1>6 DEF SameAs, Redundant
        <3>7. \A d \in Envs : /\ d < e + 1 => classes'[d] = ClassesOf(d)'
                              /\ d > e + 1 => classes'[d] = {}
            BY <1>3, <1>5, <1>6, <3>2
        <3> QED BY <1>3, <1>6, <3>1, <3>5, <3>6, <3>7 DEF ClassesExact
    <2>2. CASE e + 1 \notin Envs
        <3>1. \A d \in Envs : d <= e
            BY <1>2, <1>3, <2>2
        <3>2. \A d \in Envs : classes'[d] = ClassesOf(d)'
            BY <1>5, <1>6, <3>1
        <3> QED BY <1>1, <1>3, <1>6, <2>2, <3>2 DEF ClassesExact
    <2> QED BY <2>1, <2>2
<1>8. stage' \in {"classes", "printed"} /\ (stage' = "classes" => turn'[1] \in Envs)
    BY <1>1
<1> QED BY <1>1, <1>7, <1>8, CollectingKeeps

\* A set of environments that is not empty has a first one.
LEMMA First ==
    ASSUME NEW E \in SUBSET Nat, E # {}
    PROVE  \E e \in E : \A d \in E : e <= d
<1> DEFINE R == OpToRel(<, Nat)
<1>1. IsWellFoundedOn(R, Nat)
    BY NatLessThanWellFounded
<1>2. PICK e \in E : \A d \in E : ~(<<d, e>> \in R)
    <2> HIDE DEF R
    <2> QED BY <1>1, WFMin
<1>3. \A d \in E : ~(d < e)
    BY <1>2 DEF OpToRel
<1>4. \A d \in E : e <= d
    BY <1>3
<1> QED BY <1>4

\* What is not about the results stays as it is while they are collected.
LEMMA AnsweringKeeps ==
    ASSUME AnalysisInv, stage = "verdicts", stage' \in {"verdicts", "printed"},
           UNCHANGED <<given, turn, vacuity, policyset, findings, equivalents, classes>>, ResultsExact'
    PROVE  AnalysisInv'
<1>1. /\ UNCHANGED given /\ command # "analyze"
      /\ UNCHANGED <<turn, vacuity, policyset, redundant, shadowed, overridden, equivalents, classes>>
    BY DEF AnalysisInv, InOrder, findings
<1> USE SameGiven
<1>2. Given' /\ InOrder'
    BY <1>1 DEF AnalysisInv, InOrder
<1>3. VacuityExact'
    BY <1>1 DEF AnalysisInv, VacuityExact
<1>4. PairsExact'
    BY <1>1 DEF AnalysisInv, PairsExact
<1>5. ClassesExact'
    BY <1>1 DEF AnalysisInv, ClassesExact
<1> QED BY <1>2, <1>3, <1>4, <1>5 DEF AnalysisInv

\* The result for the next environment is true, and no other changes.
LEMMA VerdictKeeps == AnalysisInv /\ AskVerdict => AnalysisInv'
<1> SUFFICES ASSUME AnalysisInv, AskVerdict PROVE AnalysisInv'
    OBVIOUS
<1>1. CASE Fail(TRUE)
    BY <1>1, FailKeeps
<1>2. CASE ~Fail(TRUE)
    <2>0. PICK e : e = NextEnv
        OBVIOUS
    <2>1. /\ stage = "verdicts" /\ asked \ DOMAIN results # {}
          /\ UNCHANGED <<given, stage, turn, vacuity, policyset, findings, equivalents, classes>>
        BY <1>2 DEF AskVerdict
    <2>2. e \in asked \ DOMAIN results
        <3>1. asked \ DOMAIN results \in SUBSET Nat
            <4>1. PICK k \in Nat : Envs = 1..k
                BY Numbered DEF AnalysisInv
            <4>2. asked \subseteq Envs
                BY DEF AnalysisInv, Given
            <4>3. \A x \in asked : x \in Nat
                BY <4>1, <4>2
            <4> QED BY <4>3
        <3>2. \E c \in asked \ DOMAIN results : \A d \in asked \ DOMAIN results : c <= d
            BY <2>1, <3>1, First
        <3> QED BY <2>0, <3>2 DEF NextEnv
    <2>3. PICK result : /\ results' = With(e, result)
                        /\ IF command = "check" THEN result = (matched[e][1] = Requests)
                           ELSE \E more \in Counterexamples(1, 2, e), less \in Counterexamples(2, 1, e) :
                                    result = <<Status(more, less), more, less>>
        BY <1>2, <2>0 DEF AskVerdict
    <2>4. /\ DOMAIN results' = DOMAIN results \cup {e} /\ results'[e] = result
          /\ \A d \in DOMAIN results : results'[d] = results[d]
        BY <2>2, <2>3 DEF With
    <2>5. command' = command /\ matched' = matched /\ asked' = asked
        BY <2>1, SameGiven
    <2>6. ResultTrue(e)'
        <3>1. CASE command = "check"
            BY <2>3, <2>4, <2>5, <3>1 DEF ResultTrue
        <3>2. CASE command # "check"
            <4> DEFINE a == matched[e][1]
                       b == matched[e][2]
            <4>1. PICK more \in Counterexamples(1, 2, e), less \in Counterexamples(2, 1, e) :
                        result = <<Status(more, less), more, less>>
                BY <2>3, <3>2
            <4>2. (more = {} <=> a \subseteq b) /\ more \subseteq a \ b
                BY DEF Counterexamples, Implies
            <4>3. (less = {} <=> b \subseteq a) /\ less \subseteq b \ a
                BY DEF Counterexamples, Implies
            <4>4. /\ Status(more, less) \in {"equivalent", "less permissive"} <=> more = {}
                  /\ Status(more, less) \in {"equivalent", "more permissive"} <=> less = {}
                BY DEF Status
            <4>5. result[1] = Status(more, less) /\ result[2] = more /\ result[3] = less
                BY <4>1
            <4>6. result[1] \in {"equivalent", "less permissive"} <=> a \subseteq b
                BY <4>2, <4>4, <4>5
            <4>7. result[1] \in {"equivalent", "more permissive"} <=> b \subseteq a
                BY <4>3, <4>4, <4>5
            <4>8. result[2] \subseteq a \ b /\ result[3] \subseteq b \ a
                BY <4>2, <4>3, <4>5
            <4> QED BY <2>4, <2>5, <3>2, <4>6, <4>7, <4>8 DEF ResultTrue
        <3> QED BY <3>1, <3>2
    <2>7. \A d \in DOMAIN results : ResultTrue(d)'
        <3>1. \A d \in DOMAIN results : ResultTrue(d)
            BY DEF AnalysisInv, ResultsExact
        <3> QED BY <2>4, <2>5, <3>1 DEF ResultTrue
    <2>8. ResultsExact'
        BY <2>1, <2>2, <2>4, <2>5, <2>6, <2>7 DEF AnalysisInv, ResultsExact
    <2> QED BY <2>1, <2>8, AnsweringKeeps
<1> QED BY <1>1, <1>2

\* The results are printed when every environment has one.
LEMMA VerdictsKeep == AnalysisInv /\ PrintVerdicts => AnalysisInv'
<1> SUFFICES ASSUME AnalysisInv, PrintVerdicts PROVE AnalysisInv'
    OBVIOUS
<1>1. /\ stage = "verdicts" /\ asked \subseteq DOMAIN results /\ stage' = "printed"
      /\ UNCHANGED <<given, turn, vacuity, policyset, findings, equivalents, classes, results>>
    BY DEF PrintVerdicts
<1>2. command' = command /\ matched' = matched /\ asked' = asked
    BY <1>1, SameGiven
<1>3. ResultsExact'
    BY <1>1, <1>2 DEF AnalysisInv, ResultsExact, ResultTrue
<1> QED BY <1>1, <1>3, AnsweringKeeps

\* No step of an analysis, a comparison or a check breaks the invariant.
LEMMA AnalysisStepInv == AnalysisInv /\ [AnalysisNext]_analysisVars => AnalysisInv'
<1>1. ASSUME AnalysisInv, UNCHANGED analysisVars
      PROVE  AnalysisInv'
    <2>1. /\ UNCHANGED <<stage, turn, vacuity, policyset, redundant, shadowed, overridden, equivalents, classes, results>>
          /\ UNCHANGED given
        BY <1>1 DEF analysisVars, given
    <2> USE SameGiven
    <2>2. Given' /\ InOrder'
        BY <1>1, <2>1 DEF AnalysisInv, InOrder
    <2>3. VacuityExact'
        <3>1. \A p \in Policies : VacuityTrue(p)' <=> VacuityTrue(p)
            BY <2>1 DEF VacuityTrue
        <3>2. [e \in Envs |-> Vacuity(Allowed(e))]' = [e \in Envs |-> Vacuity(Allowed(e))]
            BY <2>1
        <3> QED BY <1>1, <2>1, <3>1, <3>2 DEF AnalysisInv, VacuityExact
    <2>4. PairsExact'
        <3>1. \A a, b \in Policies, e \in Envs :
                 /\ Compared(a, b)' <=> Compared(a, b)
                 /\ Alike(a, b, e)' <=> Alike(a, b, e)
                 /\ Covered(a, b, e)' <=> Covered(a, b, e)
                 /\ Denied(a, b, e)' <=> Denied(a, b, e)
            BY <2>1 DEF Alike, Covered, Denied, Compared, Passed
        <3> QED BY <1>1, <2>1, <3>1 DEF AnalysisInv, PairsExact
    <2>5. ClassesExact'
        <3>1. \A p \in Policies, e \in Envs : SameAs(p, e)' = SameAs(p, e)
            BY <2>1 DEF SameAs, Redundant
        <3>2. stage = "classes" => turn[1] \in Envs
            BY <1>1 DEF AnalysisInv, InOrder
        <3> QED BY <1>1, <2>1, <3>1, <3>2 DEF AnalysisInv, ClassesExact
    <2>6. ResultsExact'
        BY <1>1, <2>1 DEF AnalysisInv, ResultsExact, ResultTrue
    <2> QED BY <2>2, <2>3, <2>4, <2>5, <2>6 DEF AnalysisInv
<1> QED BY <1>1, BeginKeeps, VacuityKeeps, PairKeeps, PairsDoneKeeps, ClassKeeps, SignatureKeeps,
           VerdictKeeps, VerdictsKeep DEF AnalysisNext

\* What the invariant says at the end is that what is printed is exact.
LEMMA AnalysisInvExact == AnalysisInv => AnalysisExact
<1> SUFFICES ASSUME AnalysisInv PROVE AnalysisExact
    OBVIOUS
<1>1. ASSUME stage = "printed", command = "analyze"
      PROVE  FindingsExact
    <2>1. policyset = [e \in Envs |-> Vacuity(Allowed(e))]
        BY <1>1 DEF AnalysisInv, VacuityExact
    <2>2. \A e \in Envs : /\ policyset[e] = "all" <=> Allowed(e) = Requests
                          /\ policyset[e] = "none" <=> Allowed(e) = {}
        <3>1. \A e \in Envs : Allowed(e) \subseteq Requests
            BY DEF Allowed
        <3> QED BY <2>1, <3>1, AnalysisConstants DEF Vacuity
    <2>3. DOMAIN policyset = Envs
        BY <2>1
    <2>4. (Overall(policyset) = "all") <=> \A e \in Envs : Allowed(e) = Requests
        BY <2>2, <2>3 DEF Overall
    <2>5. (Overall(policyset) = "none") <=> (Envs # {} /\ \A e \in Envs : Allowed(e) = {})
        BY <2>2, <2>3 DEF Overall
    <2>6. \A p, q \in Policies, e \in Envs :
            /\ q \in shadowed[p][e] <=> Compared(p, q) /\ Covered(p, q, e)
            /\ q \in overridden[p][e] <=> Compared(p, q) /\ Denied(p, q, e)
        BY <1>1 DEF AnalysisInv, PairsExact
    <2>7. \A p, q \in Policies, e \in Envs :
            Compared(p, q) <=> p # q
        BY <1>1 DEF Compared
    <2>8. \A p, q \in Policies, e \in Envs :
            /\ q \in shadowed[p][e] <=> Covered(p, q, e)
            /\ q \in overridden[p][e] <=> Denied(p, q, e)
        BY <2>6, <2>7 DEF Covered, Denied
    <2>9. \A e \in Envs : classes[e] = ClassesOf(e)
        BY <1>1 DEF AnalysisInv, ClassesExact
    <2>10. \A p \in Policies :
             /\ (Overall(vacuity[p]) = "all") <=> \A e \in Envs : AlwaysApplies(p, e)
             /\ (Overall(vacuity[p]) = "none") <=> (Envs # {} /\ \A e \in Envs : NeverApplies(p, e))
        <3> SUFFICES ASSUME NEW p \in Policies
                     PROVE  /\ (Overall(vacuity[p]) = "all") <=> \A e \in Envs : AlwaysApplies(p, e)
                            /\ (Overall(vacuity[p]) = "none") <=>
                                   (Envs # {} /\ \A e \in Envs : NeverApplies(p, e))
            OBVIOUS
        <3>1. vacuity[p] = [e \in Envs |-> Vacuity(matched[e][p])]
            BY <1>1 DEF AnalysisInv, VacuityExact, VacuityTrue
        <3>2. \A e \in Envs : /\ vacuity[p][e] = "all" <=> AlwaysApplies(p, e)
                              /\ vacuity[p][e] = "none" <=> NeverApplies(p, e)
            BY <3>1, AnalysisConstants DEF Vacuity, AlwaysApplies, NeverApplies
        <3>3. DOMAIN vacuity[p] = Envs
            BY <3>1
        <3> QED BY <3>2, <3>3 DEF Overall
    <2>11. VacuousExact
        BY <2>4, <2>5, <2>10 DEF VacuousExact
    <2>12. \A p, q \in Policies, e \in Envs :
             /\ q \in shadowed[p][e] <=> ShadowedBy(p, q, e) /\ ~NeverApplies(p, e)
             /\ q \in overridden[p][e] <=>
                   OverriddenBy(p, q, e) /\ ~NeverApplies(p, e) /\ ~AlwaysApplies(q, e)
        BY <2>8 DEF Covered, Denied, ShadowedBy, Redundant, OverriddenBy, NeverApplies, AlwaysApplies
    <2> QED BY <2>9, <2>11, <2>12 DEF FindingsExact, ClassesOf, NeverApplies
<1>2. ASSUME stage = "printed", command # "analyze"
      PROVE  VerdictsExact
    <2>1. DOMAIN results = asked /\ \A e \in asked : ResultTrue(e)
        BY <1>2 DEF AnalysisInv, ResultsExact
    <2> QED BY <2>1 DEF VerdictsExact, ResultTrue
<1> QED BY <1>1, <1>2 DEF AnalysisExact, FindingsExact, VerdictsExact

\* At every step the findings are those of the pairs that were compared, and so on.
THEOREM AnalysisInvariance == AnalysisSpec => []AnalysisInv
    BY AnalysisInitInv, AnalysisStepInv, PTL DEF AnalysisSpec

\* The variables of an analysis have their types.
THEOREM AnalysisTyped == AnalysisSpec => []AnalysisTypes
<1>1. AnalysisInv => AnalysisTypes
    <2> SUFFICES ASSUME AnalysisInv PROVE AnalysisTypes
        OBVIOUS
    <2>1. effect \in [Policies -> Effects]
        BY Numbered DEF AnalysisInv
    <2> QED BY <2>1 DEF AnalysisInv, AnalysisTypes, Given, InOrder, VacuityExact, PairsExact, ClassesExact,
                        ResultsExact, Findings
<1> QED BY <1>1, AnalysisInvariance, PTL

\* What an analysis, a comparison or a check prints is true and complete, for any number of
\* policies and environments, any order of the keys, and any requests the policies match.
THEOREM AnalysisCorrect == AnalysisSpec => []AnalysisExact
    BY AnalysisInvariance, AnalysisInvExact, PTL

-----------------------------------------------------------------------------
(***************************************************************************)
(* CommandLine. The environments are listed once each, and what is printed *)
(* of them so far is a prefix of the list.                                 *)
(***************************************************************************)

\* The environments of the schema that agree with the arguments.
Agreeing == {e \in ToRequestEnvs : Admits(e[1], e[2], e[3])}

\* The environments are listed, each once, and none only without arguments.
Listed ==
    /\ reqEnvs \in Seq(Agreeing)
    /\ \A i, j \in 1..Len(reqEnvs) : reqEnvs[i] = reqEnvs[j] => i = j
    /\ \A e \in Agreeing : \E i \in 1..Len(reqEnvs) : reqEnvs[i] = e
    /\ Agreeing # {} \/ open = <<NotGiven, NotGiven, NotGiven>>

\* What is printed of them so far.
Prefix ==
    /\ output \in Seq(Agreeing)
    /\ Len(output) <= Len(reqEnvs)
    /\ \A i \in 1..Len(output) : output[i] = reqEnvs[i]

CliInv ==
    /\ file \in PolicyFiles
    /\ task = "symcc" => cliSchema \in CliSchemas
    /\ cliStage \in {"reading", "asking", "printed", "failed"}
    /\ ids # {} => ids = {file[i] : i \in DOMAIN file} /\ ~IdTaken(file)
    /\ cliStage = "reading" => reqEnvs = <<>> /\ output = <<>>
    /\ cliStage = "asking" => task = "symcc" /\ Listed
    /\ cliStage \in {"asking", "failed"} /\ ~printing => output = <<>>
    /\ task = "symcc" => output = <<>> \/ (Listed /\ Prefix)
    /\ task = "symcc" /\ cliStage = "printed" => Listed /\ Prefix /\ Len(output) = Len(reqEnvs)
    /\ task # "symcc" => output \in {<<>>, <<task>>}

\* A list without duplicates has as many elements as its range.
LEMMA CountedOnce ==
    ASSUME NEW T, NEW f \in Seq(T), \A i, j \in DOMAIN f : f[i] = f[j] => i = j
    PROVE  Cardinality({f[i] : i \in DOMAIN f}) = Len(f)
<1> DEFINE R == {f[i] : i \in DOMAIN f}
<1>1. f \in Bijection(1..Len(f), R)
    BY DEF Bijection, Injection, Surjection, IsInjective
<1>2. IsFiniteSet(1..Len(f)) /\ Cardinality(1..Len(f)) = Len(f)
    <2>1. Len(f) \in Nat
        OBVIOUS
    <2> QED BY <2>1, FS_Interval
<1>3. ExistsBijection(1..Len(f), R)
    BY <1>1 DEF ExistsBijection
<1> QED BY <1>2, <1>3, FS_Bijection

\* A finite set can be listed.
LEMMA SortedLists ==
    ASSUME NEW E, IsFiniteSet(E)
    PROVE  /\ Sorted(E) \in Seq(E)
           /\ \A i, j \in 1..Len(Sorted(E)) : Sorted(E)[i] = Sorted(E)[j] => i = j
           /\ \A e \in E : \E i \in 1..Len(Sorted(E)) : Sorted(E)[i] = e
<1> DEFINE n == Cardinality(E)
           Lists(s) == s \in [1..n -> E] /\ \A i, j \in DOMAIN s : i # j => s[i] # s[j]
           s == Sorted(E)
<1>1. n \in Nat /\ ExistsBijection(1..n, E)
    BY FS_CardinalityType
<1>2. PICK f : f \in Bijection(1..n, E)
    BY <1>1 DEF ExistsBijection
<1>3. Lists(f)
    BY <1>2 DEF Bijection, Injection, IsInjective
<1>4. Lists(s)
    BY <1>3 DEF Sorted
<1>5. s \in Injection(1..n, E)
    BY <1>4 DEF Injection, IsInjective
<1>6. IsFiniteSet(1..n) /\ Cardinality(1..n) = n
    BY <1>1, FS_Interval
<1>7. s \in Surjection(1..n, E)
    BY <1>5, <1>6, FS_Injection
<1>8. s \in Seq(E) /\ Len(s) = n
    BY <1>1, <1>4
<1>9. \A e \in E : \E i \in 1..n : s[i] = e
    BY <1>7 DEF Surjection
<1> QED BY <1>4, <1>8, <1>9

\* A schema has finitely many environments.
LEMMA FinitelyMany ==
    ASSUME cliSchema \in CliSchemas
    PROVE  IsFiniteSet(Agreeing)
<1> DEFINE Of(a) == {<<p, a, r>> : p \in cliSchema[a][1], r \in cliSchema[a][2]}
           All == {Of(a) : a \in DOMAIN cliSchema}
<1>1. ASSUME NEW a \in DOMAIN cliSchema
      PROVE  IsFiniteSet(Of(a))
    <2> DEFINE Pairs == cliSchema[a][1] \X cliSchema[a][2]
               f == [x \in Pairs |-> <<x[1], a, x[2]>>]
    <2>1. IsFiniteSet(Pairs)
        BY CliConstants, FS_Product
    <2>2. \A x \in Pairs : <<x[1], a, x[2]>> \in Of(a)
        OBVIOUS
    <2>3. ASSUME NEW y \in Of(a)
          PROVE  \E x \in Pairs : f[x] = y
        <3>1. PICK p \in cliSchema[a][1], r \in cliSchema[a][2] : y = <<p, a, r>>
            OBVIOUS
        <3>2. <<p, r>> \in Pairs /\ f[<<p, r>>] = y
            BY <3>1
        <3> QED BY <3>2
    <2> HIDE DEF Of, Pairs
    <2>4. f \in Surjection(Pairs, Of(a))
        BY <2>2, <2>3 DEF Surjection
    <2> HIDE DEF f
    <2> QED BY <2>1, <2>4, FS_Surjection
<1> HIDE DEF Of
<1>2. IsFiniteSet(All)
    <2> DEFINE f == [a \in DOMAIN cliSchema |-> Of(a)]
    <2>1. f \in Surjection(DOMAIN cliSchema, All)
        BY DEF Surjection
    <2>2. IsFiniteSet(DOMAIN cliSchema)
        BY CliConstants
    <2> HIDE DEF f, All
    <2> QED BY <2>1, <2>2, FS_Surjection
<1>3. IsFiniteSet(UNION All)
    <2>1. \A T \in All : IsFiniteSet(T)
        BY <1>1
    <2> HIDE DEF All
    <2> QED BY <1>2, <2>1, FS_UNION
<1>4. Agreeing \in SUBSET (UNION All)
    BY DEF Agreeing, ToRequestEnvs, Of
<1> HIDE DEF All
<1> QED BY <1>3, <1>4, FS_Subset

\* A command begins with nothing read and nothing printed.
LEMMA CliInitInv == CliInit => CliInv
    BY DEF CliInit, CliInv

\* Reading the inputs, and the commands that make one call.
LEMMA ReadsKeep == CliInv /\ (ReadFails \/ ReadPolicies \/ ReadInput \/ AskOnce) => CliInv'
<1> SUFFICES ASSUME CliInv PROVE (ReadFails \/ ReadPolicies \/ ReadInput \/ AskOnce) => CliInv'
    OBVIOUS
<1> USE DEF CliInv, cliGiven, Listed, Prefix, Agreeing, ToRequestEnvs, Admits, IdTaken
<1>1. ReadFails => CliInv'
    BY DEF ReadFails
<1>2. ReadPolicies => CliInv'
    BY DEF ReadPolicies
<1>3. ReadInput => CliInv'
    BY DEF ReadInput
<1>4. AskOnce => CliInv'
    <2>1. AskOnce => output' \in {<<>>, <<task>>} /\ (cliStage' = "failed" => output' = <<>>)
        BY DEF AskOnce
    <2> HIDE DEF Listed, Prefix, Agreeing, ToRequestEnvs, Admits
    <2> QED BY <2>1 DEF AskOnce
<1> HIDE DEF CliInv, cliGiven
<1> QED BY <1>1, <1>2, <1>3, <1>4

\* The environments the arguments leave open are listed, or there are none and it is an error.
LEMMA OpenEnvsKeeps == CliInv /\ OpenEnvs => CliInv'
<1> SUFFICES ASSUME CliInv, OpenEnvs PROVE CliInv'
    OBVIOUS
<1>1. IsFiniteSet(Agreeing)
    BY FinitelyMany DEF CliInv, OpenEnvs
<1>2. UNCHANGED <<task, printing, file, cliSchema, open, ids, output>> /\ Agreeing' = Agreeing
    BY DEF OpenEnvs, cliGiven, Agreeing, ToRequestEnvs, Admits
<1>3. task = "symcc" /\ output = <<>> /\ cliStage = "reading"
    BY DEF CliInv, OpenEnvs
<1>4. CASE Agreeing = {} /\ open # <<NotGiven, NotGiven, NotGiven>>
    <2>1. cliStage' = "failed"
        BY <1>4 DEF OpenEnvs, Agreeing
    <2> QED BY <1>2, <1>3, <2>1 DEF CliInv, IdTaken
<1>5. CASE ~(Agreeing = {} /\ open # <<NotGiven, NotGiven, NotGiven>>)
    <2>1. cliStage' = "asking" /\ reqEnvs' = Sorted(Agreeing)
        BY <1>5 DEF OpenEnvs, Agreeing
    <2>2. Listed'
        BY <1>1, <1>2, <1>5, <2>1, SortedLists DEF Listed
    <2> QED BY <1>2, <1>3, <2>1, <2>2 DEF CliInv, IdTaken
<1> QED BY <1>4, <1>5

\* Scripts are printed in the order of the list, and results all at once.
LEMMA ChecksKeep == CliInv /\ (PrintScript \/ RunChecks) => CliInv'
<1> SUFFICES ASSUME CliInv, PrintScript \/ RunChecks PROVE CliInv'
    OBVIOUS
<1>1. UNCHANGED <<task, printing, file, cliSchema, open, ids, reqEnvs>> /\ Agreeing' = Agreeing
    BY DEF PrintScript, RunChecks, cliGiven, Agreeing, ToRequestEnvs, Admits
<1>2. cliStage = "asking" /\ task = "symcc" /\ Listed /\ Listed'
    BY <1>1 DEF CliInv, PrintScript, RunChecks, Listed
<1>3. Prefix
    <2>1. CASE output = <<>>
        BY <1>2, <2>1, EmptySeq DEF Prefix, Listed
    <2>2. CASE output # <<>>
        BY <1>2, <2>2 DEF CliInv
    <2> QED BY <2>1, <2>2
<1>4. CASE RunChecks
    <2>1. CASE output' = reqEnvs /\ cliStage' = "printed"
        <3>1. Prefix' /\ Len(output') = Len(reqEnvs)
            BY <1>1, <1>2, <2>1 DEF Prefix, Listed
        <3> QED BY <1>1, <1>2, <2>1, <3>1 DEF CliInv, IdTaken
    <2>2. CASE output' = output /\ cliStage' = "failed"
        BY <1>1, <1>2, <1>4, <2>2 DEF CliInv, IdTaken, RunChecks, Prefix
    <2> QED BY <1>4, <2>1, <2>2 DEF RunChecks
<1>5. CASE PrintScript
    <2>1. CASE Len(output) < Len(reqEnvs) /\ output' = Append(output, reqEnvs[Len(output) + 1]) /\ cliStage' = cliStage
        <3>1. reqEnvs[Len(output) + 1] \in Agreeing
            BY <1>2, <1>3, <2>1 DEF Prefix, Listed
        <3>2. Prefix'
            <4>1. output \in Seq(Agreeing) /\ Len(output) \in Nat /\ Len(reqEnvs) \in Nat
                <5>1. output \in Seq(Agreeing)
                    BY <1>3 DEF Prefix
                <5>2. reqEnvs \in Seq(Agreeing)
                    BY <1>2 DEF Listed
                <5> QED BY <5>1, <5>2
            <4>2. output' \in Seq(Agreeing) /\ Len(output') = Len(output) + 1
                BY <2>1, <3>1, <4>1, AppendProperties
            <4>3. \A i \in 1..(Len(output) + 1) :
                    output'[i] = IF i = Len(output) + 1 THEN reqEnvs[Len(output) + 1] ELSE output[i]
                BY <2>1, <3>1, <4>1, AppendProperties
            <4>4. \A i \in 1..(Len(output) + 1) : output'[i] = reqEnvs[i]
                BY <1>3, <4>1, <4>3 DEF Prefix
            <4>5. output' \in Seq(Agreeing') /\ reqEnvs' = reqEnvs
                BY <1>1, <4>2
            <4>6. Len(output') <= Len(reqEnvs)
                BY <2>1, <4>1, <4>2
            <4> QED BY <4>2, <4>4, <4>5, <4>6 DEF Prefix
        <3> QED BY <1>1, <1>2, <1>5, <2>1, <3>2 DEF CliInv, IdTaken, PrintScript
    <2>2. CASE output' = output /\ cliStage' = "failed"
        <3>1. Prefix'
            BY <1>1, <1>3, <2>2 DEF Prefix
        <3> QED BY <1>1, <1>2, <1>5, <2>2, <3>1 DEF CliInv, IdTaken, PrintScript
    <2>3. CASE Len(output) = Len(reqEnvs) /\ output' = output /\ cliStage' = "printed"
        <3>1. Prefix'
            BY <1>1, <1>3, <2>3 DEF Prefix
        <3> QED BY <1>1, <1>2, <1>5, <2>3, <3>1 DEF CliInv, IdTaken, PrintScript
    <2> QED BY <1>5, <2>1, <2>2, <2>3 DEF PrintScript
<1> QED BY <1>4, <1>5

\* No step of a command breaks the invariant.
LEMMA CliStepInv == CliInv /\ [CliNext]_cliVars => CliInv'
<1>1. CliInv /\ UNCHANGED cliVars => CliInv'
    BY DEF CliInv, cliVars, Listed, Prefix, Agreeing, ToRequestEnvs, Admits, IdTaken
<1> QED BY <1>1, ReadsKeep, OpenEnvsKeeps, ChecksKeep DEF CliNext

\* What the invariant says is that the command is exact.
LEMMA CliInvExact == CliInv => CommandsExact
<1> SUFFICES ASSUME CliInv PROVE CommandsExact
    OBVIOUS
<1>1. cliStage \in {"asking", "printed"} /\ ids # {} => Cardinality(ids) = Len(file)
    <2>1. ids # {} => \A i, j \in DOMAIN file : file[i] = file[j] => i = j
        BY DEF CliInv, IdTaken
    <2>2. file \in Seq(STRING)
        BY CliConstants DEF CliInv
    <2> QED BY <2>1, <2>2, CountedOnce DEF CliInv
<1>2. \A i, j \in DOMAIN output : output[i] = output[j] => i = j
    <2>1. CASE task = "symcc"
        <3>1. CASE output = <<>>
            BY <3>1
        <3>2. CASE output # <<>>
            <4>1. Listed /\ Prefix
                BY <2>1, <3>2 DEF CliInv
            <4>2. DOMAIN output = 1..Len(output) /\ Len(output) \in Nat /\ Len(reqEnvs) \in Nat
                BY <4>1 DEF Prefix, Listed
            <4>3. \A i \in DOMAIN output : i \in 1..Len(reqEnvs) /\ output[i] = reqEnvs[i]
                BY <4>1, <4>2 DEF Prefix
            <4> QED BY <4>1, <4>3 DEF Listed
        <3> QED BY <3>1, <3>2
    <2>2. CASE task # "symcc"
        BY <2>2 DEF CliInv
    <2> QED BY <2>1, <2>2
<1>3. ASSUME task = "symcc"
      PROVE  LET agreeing == {e \in UNION {cliSchema[a][1] \X {a} \X cliSchema[a][2] : a \in DOMAIN cliSchema} :
                                  \A i \in {1, 3} : open[i] # NotGiven => open[i] = e[i]}
                 named == {e \in agreeing : open[2] # NotGiven => e[2][2] = open[2]}
             IN /\ {output[i] : i \in DOMAIN output} \subseteq named
                /\ cliStage = "printed" => /\ {output[i] : i \in DOMAIN output} = named
                                           /\ named # {} \/ open = <<NotGiven, NotGiven, NotGiven>>
                /\ cliStage = "failed" /\ ~printing => output = <<>>
    <2> DEFINE all == UNION {cliSchema[a][1] \X {a} \X cliSchema[a][2] : a \in DOMAIN cliSchema}
               agreeing == {e \in all : \A i \in {1, 3} : open[i] # NotGiven => open[i] = e[i]}
               named == {e \in agreeing : open[2] # NotGiven => e[2][2] = open[2]}
    <2>1. all = ToRequestEnvs
        BY DEF ToRequestEnvs
    <2>2. named = Agreeing
        BY <2>1 DEF Agreeing, Admits
    <2> HIDE DEF named
    <2>3. output \in Seq(Agreeing)
        <3>1. output = <<>> \/ Prefix
            BY <1>3 DEF CliInv
        <3> QED BY <3>1, EmptySeq DEF Prefix
    <2>4. {output[i] : i \in DOMAIN output} \subseteq named
        BY <2>2, <2>3
    <2>5. ASSUME cliStage = "printed"
          PROVE  Agreeing \subseteq {output[i] : i \in DOMAIN output}
        <3>1. Listed /\ Prefix /\ Len(output) = Len(reqEnvs)
            BY <1>3, <2>5 DEF CliInv
        <3>2. DOMAIN output = 1..Len(reqEnvs)
            BY <2>3, <3>1
        <3>3. \A i \in 1..Len(reqEnvs) : output[i] = reqEnvs[i]
            BY <3>1 DEF Prefix
        <3> QED BY <3>1, <3>2, <3>3 DEF Listed
    <2>6. cliStage = "printed" => Agreeing # {} \/ open = <<NotGiven, NotGiven, NotGiven>>
        BY <1>3 DEF CliInv, Listed
    <2>7. cliStage = "failed" /\ ~printing => output = <<>>
        BY DEF CliInv
    <2> QED BY <2>2, <2>4, <2>5, <2>6, <2>7 DEF named
<1> QED BY <1>1, <1>2, <1>3 DEF CommandsExact

\* A command works on every policy of its file, and prints each environment that agrees with
\* its arguments once, for any files, schemas and arguments.
THEOREM CommandsCorrect == CliSpec => []CommandsExact
<1>1. CliSpec => []CliInv
    BY CliInitInv, CliStepInv, PTL DEF CliSpec
<1> QED BY <1>1, CliInvExact, PTL

\* What the CLI prints is what its inputs call for: its two parts share no variable.
THEOREM ReportsCorrect == AnalysisSpec /\ CliSpec => []ReportsExact
    BY AnalysisCorrect, CommandsCorrect, PTL DEF ReportsExact

-----------------------------------------------------------------------------
(* The types of a command *)

\* What a command may have to read.
InputNames ==
    {"policies", "policy", "request", "entities", "schema", "expression", "environment"}

\* A command reads at most five inputs.
InputList(l) == l \in Seq(InputNames) /\ Len(l) <= 5

\* The command and its arguments stay as they are; the list of inputs only gets shorter.
ArgumentsInv ==
    /\ task \in DOMAIN Tasks /\ printing \in BOOLEAN
    /\ open \in OpenArguments \cup {<<NotGiven, NotGiven, NotGiven>>}
    /\ InputList(inputs)

\* Lists of one to four names.
LEMMA ListsOfNames ==
    ASSUME NEW a \in InputNames, NEW b \in InputNames, NEW c \in InputNames, NEW d \in InputNames
    PROVE  /\ <<a>> \in Seq(InputNames) /\ Len(<<a>>) = 1
           /\ <<a, b>> \in Seq(InputNames) /\ Len(<<a, b>>) = 2
           /\ InputList(<<a, b>>) /\ InputList(<<a, b, c>>) /\ InputList(<<a, b, c, d>>)
<1>1. <<a>> \in Seq(InputNames) /\ Len(<<a>>) = 1
    OBVIOUS
<1>2. <<a, b>> \in Seq(InputNames) /\ Len(<<a, b>>) = 2
    OBVIOUS
<1>3. <<a, b, c>> \in Seq(InputNames) /\ Len(<<a, b, c>>) = 3
    OBVIOUS
<1>4. <<a, b, c, d>> \in Seq(InputNames) /\ Len(<<a, b, c, d>>) = 4
    OBVIOUS
<1>5. InputList(<<a, b>>) /\ InputList(<<a, b, c>>) /\ InputList(<<a, b, c, d>>)
    BY <1>2, <1>3, <1>4 DEF InputList
<1> QED BY <1>1, <1>2, <1>5

\* The lists of inputs of every command are lists of at most five.
LEMMA InputLists ==
    ASSUME NEW t \in DOMAIN Tasks, NEW l \in Tasks[t]
    PROVE  InputList(l)
<1>1. /\ "policies" \in InputNames /\ "policy" \in InputNames /\ "request" \in InputNames
      /\ "entities" \in InputNames /\ "schema" \in InputNames /\ "expression" \in InputNames
      /\ "environment" \in InputNames
    BY DEF InputNames
<1>2. CASE t = "evaluate"
    <2>1. PICK s \in {<<>>, <<"schema">>}, o \in {<<>>, <<"expression">>} :
                l = <<"expression">> \o s \o <<"entities", "request">> \o o
        BY <1>2 DEF Tasks
    <2>2. s \in Seq(InputNames) /\ Len(s) \in {0, 1}
        <3>1. CASE s = <<>>
            BY <3>1, EmptySeq
        <3>2. CASE s = <<"schema">>
            BY <1>1, <3>2, ListsOfNames
        <3> QED BY <3>1, <3>2
    <2>3. o \in Seq(InputNames) /\ Len(o) \in {0, 1}
        <3>1. CASE o = <<>>
            BY <3>1, EmptySeq
        <3>2. CASE o = <<"expression">>
            BY <1>1, <3>2, ListsOfNames
        <3> QED BY <3>1, <3>2
    <2>4. <<"expression">> \in Seq(InputNames) /\ Len(<<"expression">>) = 1
        BY <1>1, ListsOfNames
    <2>5. <<"entities", "request">> \in Seq(InputNames) /\ Len(<<"entities", "request">>) = 2
        BY <1>1, ListsOfNames
    <2>6. ASSUME NEW e \in Seq(InputNames), NEW r \in Seq(InputNames), Len(e) = 1, Len(r) = 2
          PROVE  InputList(e \o s \o r \o o)
        <3> DEFINE u == e \o s
                   v == u \o r
        <3>1. u \in Seq(InputNames) /\ Len(u) = Len(e) + Len(s)
            BY <2>2, ConcatProperties
        <3> HIDE DEF u
        <3>2. v \in Seq(InputNames) /\ Len(v) = Len(u) + Len(r)
            BY <3>1, ConcatProperties
        <3> HIDE DEF v
        <3>3. v \o o \in Seq(InputNames) /\ Len(v \o o) = Len(v) + Len(o)
            BY <2>3, <3>2, ConcatProperties
        <3>4. Len(v \o o) <= 5
            <4>1. \A i, j \in {0, 1} : 1 + i + 2 + j <= 5
                OBVIOUS
            <4>2. Len(v \o o) = 1 + Len(s) + 2 + Len(o)
                BY <2>6, <3>1, <3>2, <3>3, Zenon
            <4> QED BY <2>2, <2>3, <4>1, <4>2, Zenon
        <3> QED BY <3>3, <3>4 DEF InputList, u, v
    <2> QED BY <2>1, <2>4, <2>5, <2>6, Zenon
<1>3. CASE t = "authorize"
    <2>1. \/ l = <<"policies", "request", "entities">>
          \/ l = <<"policies", "schema", "request", "entities">>
        BY <1>3 DEF Tasks
    <2> QED BY <1>1, <2>1, ListsOfNames, Zenon
<1>4. CASE t = "validate"
    <2>1. \/ l = <<"policies", "schema">> \/ l = <<"schema", "request">>
          \/ l = <<"schema", "entities">>
        BY <1>4 DEF Tasks
    <2> QED BY <1>1, <2>1, ListsOfNames, Zenon
<1>5. CASE t = "analyze"
    <2>1. l = <<"policies", "schema">> \/ l = <<"policies", "policies", "schema">>
        BY <1>5 DEF Tasks
    <2> QED BY <1>1, <2>1, ListsOfNames, Zenon
<1>6. CASE t = "symcc"
    <2>1. \/ l = <<"policy", "schema", "environment">>
          \/ l = <<"policies", "schema", "environment">>
          \/ l = <<"policies", "policies", "schema", "environment">>
        BY <1>6 DEF Tasks
    <2> QED BY <1>1, <2>1, ListsOfNames, Zenon
<1> QED BY <1>2, <1>3, <1>4, <1>5, <1>6 DEF Tasks

\* A step takes the first input off the list, or leaves the list alone.
LEMMA ArgumentsStepInv == ArgumentsInv /\ [CliNext]_cliVars => ArgumentsInv'
<1> SUFFICES ASSUME ArgumentsInv, [CliNext]_cliVars PROVE ArgumentsInv'
    OBVIOUS
<1>1. UNCHANGED <<task, printing, open>>
    BY DEF CliNext, cliVars, cliGiven, ReadFails, ReadPolicies, ReadInput, OpenEnvs, PrintScript,
           RunChecks, AskOnce
<1>2. inputs' = inputs \/ (inputs # <<>> /\ inputs' = Tail(inputs))
    BY DEF CliNext, cliVars, ReadFails, ReadPolicies, ReadInput, OpenEnvs, PrintScript, RunChecks,
           AskOnce
<1>3. InputList(inputs')
    <2>1. CASE inputs' = inputs
        BY <2>1 DEF ArgumentsInv
    <2>2. CASE inputs # <<>> /\ inputs' = Tail(inputs)
        <3>1. inputs' \in Seq(InputNames) /\ Len(inputs') = Len(inputs) - 1 /\ Len(inputs) \in Nat
            BY <2>2, HeadTailProperties, LenProperties DEF ArgumentsInv, InputList
        <3> QED BY <3>1 DEF ArgumentsInv, InputList
    <2> QED BY <1>2, <2>1, <2>2
<1> QED BY <1>1, <1>3 DEF ArgumentsInv

\* The variables of a command have their types: a symbolic one prints about no more environments
\* than it listed, any other one answer.
THEOREM CommandsTyped == CliSpec => []CliTypes
<1>1. CliInit => ArgumentsInv
    BY InputLists DEF CliInit, ArgumentsInv
<1>2. ArgumentsInv /\ CliInv => CliTypes
    <2> SUFFICES ASSUME ArgumentsInv, CliInv PROVE CliTypes
        OBVIOUS
    <2>1. CASE task = "symcc"
        <3>1. reqEnvs \in Seq(Agreeing) \/ output = <<>>
            BY <2>1 DEF CliInv, Listed
        <3> QED BY <2>1, <3>1 DEF CliInv, Prefix, CliTypes, ArgumentsInv, InputList
    <2>2. CASE task # "symcc"
        <3>1. Len(output) \in {0, 1}
            <4>1. CASE output = <<>>
                BY <4>1
            <4>2. CASE output = <<task>>
                BY <4>2
            <4> QED BY <2>2, <4>1, <4>2 DEF CliInv
        <3>2. \A n \in {0, 1} : n <= 1
            OBVIOUS
        <3>3. Len(output) <= 1
            BY <3>1, <3>2, Zenon
        <3> QED BY <2>2, <3>3, Zenon DEF CliInv, CliTypes, ArgumentsInv, InputList
    <2> QED BY <2>1, <2>2
<1> QED BY <1>1, <1>2, ArgumentsStepInv, CliInitInv, CliStepInv, PTL DEF CliSpec
=============================================================================
