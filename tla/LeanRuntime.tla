----------------------------- MODULE LeanRuntime -----------------------------
(***************************************************************************)
(* The Lean runtime inside a Rust process (cedar-lean-ffi/src/lean_ffi.rs  *)
(* and lean_object.rs). The process initialises Lean once, every           *)
(* CedarLeanFfi initialises it for the thread that made it, and gives the  *)
(* thread up when it is dropped. Lean objects are counted by hand: Rust    *)
(* releases what it owns when a handle is dropped, and Lean releases the   *)
(* arguments of a call, so their handles are forgotten.                    *)
(*                                                                         *)
(* A thread makes a CedarLeanFfi, loads a schema (or works without one),   *)
(* calls Lean a few times and drops everything, a few times over, as the   *)
(* fuzz targets, the tests and the commands of the CLI do. Handles hold a  *)
(* raw pointer, so none of them leaves its thread.                         *)
(***************************************************************************)
EXTENDS Integers

CONSTANTS
    Threads,   \* the threads of the process
    Owners,    \* who holds the CedarLeanFfi and the schema: "locals", or "analyzer"
    MaxCalls,  \* calls of one CedarLeanFfi
    MaxRounds  \* CedarLeanFfi a thread makes, one after the other

ASSUME RuntimeConstants ==
    /\ Owners \subseteq {"locals", "analyzer"}
    /\ MaxCalls \in Nat /\ MaxRounds \in Nat \ {0}

\* The Lean objects a thread has at a time: the loaded schema, the buffers of a call's
\* message and raw model, and what a call returned.
Objects == {"schema", "message", "model", "response"}

\* What a thread does next. "load" and "ask" begin a call; at "loaded" and "answered" its
\* response is there to be read.
Steps == {"new", "initialize", "attach", "load", "loaded", "ask", "answered",
          "release", "detach", "late", "ended", "panicked"}

VARIABLES
    runtime,  \* the process: "down", "starting", "up" or "poisoned" (START and what it guards)
    at,       \* what each thread does next
    owner,    \* who holds the thread's CedarLeanFfi
    attached, \* lean_initialize_thread calls not yet undone, per thread
    count,    \* the reference count of each object
    handles,  \* the Rust handles of each object (OwnedLeanObject values that will be dropped)
    inside,   \* the references other Lean objects hold to each object
    calls,    \* the calls made by the current CedarLeanFfi
    rounds    \* the CedarLeanFfi made so far

objects     == <<count, handles, inside>>
runtimeVars == <<runtime, at, owner, attached, count, handles, inside, calls, rounds>>

None == [o \in Objects |-> 0]

RuntimeInit ==
    /\ runtime = "down"
    /\ at = [t \in Threads |-> "new"]
    /\ owner \in [Threads -> Owners]
    /\ attached = [t \in Threads |-> 0]
    /\ count = [t \in Threads |-> None]
    /\ handles = [t \in Threads |-> None]
    /\ inside = [t \in Threads |-> None]
    /\ calls = [t \in Threads |-> 0]
    /\ rounds = [t \in Threads |-> 0]

Goto(t, s) == at' = [at EXCEPT ![t] = s]

\* One more, or one less, for the objects of S.
Plus(f, S)  == [o \in Objects |-> IF o \in S THEN f[o] + 1 ELSE f[o]]
Minus(f, S) == [o \in Objects |-> IF o \in S THEN f[o] - 1 ELSE f[o]]

-----------------------------------------------------------------------------
(* CedarLeanFfi::new *)

\* START.call_once: the first caller initialises the process, and the others wait for it.
BeginInit(t) ==
    /\ at[t] = "new" /\ runtime = "down"
    /\ runtime' = "starting"
    /\ Goto(t, "initialize")
    /\ UNCHANGED <<owner, attached, objects, calls, rounds>>

\* The initialisation succeeds, or panics and leaves START poisoned.
EndInit(t) ==
    /\ at[t] = "initialize"
    /\ \/ runtime' = "up" /\ Goto(t, "attach")
       \/ runtime' = "poisoned" /\ Goto(t, "panicked")
    /\ UNCHANGED <<owner, attached, objects, calls, rounds>>

\* Mutation of MayPass: a caller does not wait for the one that initialises.
MayPassAtOnce == runtime \in {"starting", "up"}

\* call_once returns at once when it has run.
MayPass == runtime = "up"

PassInit(t) ==
    /\ at[t] = "new" /\ MayPass
    /\ Goto(t, "attach")
    /\ UNCHANGED <<runtime, owner, attached, objects, calls, rounds>>

\* call_once panics when its closure panicked before.
Poisoned(t) ==
    /\ at[t] = "new" /\ runtime = "poisoned"
    /\ Goto(t, "panicked")
    /\ UNCHANGED <<runtime, owner, attached, objects, calls, rounds>>

\* lean_initialize_thread. A target that loads a schema does it next.
Attach(t) ==
    /\ at[t] = "attach"
    /\ attached' = [attached EXCEPT ![t] = @ + 1]
    /\ rounds' = [rounds EXCEPT ![t] = @ + 1]
    /\ calls' = [calls EXCEPT ![t] = 0]
    /\ \/ Goto(t, "load")
       \/ owner[t] = "locals" /\ Goto(t, "ask")
    /\ UNCHANGED <<runtime, owner, objects>>

-----------------------------------------------------------------------------
(* Calls *)

\* Mutation of AfterCall: the handles of the arguments are dropped, not forgotten.
AfterCallDropped(f, args) == Minus(f, args)

\* Lean has released the arguments, and Rust forgets their handles without releasing them.
AfterCall(f, args) == f

\* A call of Lean on buffers made for it and, if the call takes one, on a clone of the
\* schema. Lean releases the arguments it was given and returns an object Rust owns, which
\* holds the objects of S.
Call(t, buffers, schema, S) ==
    LET args   == buffers \cup schema
        made   == Plus(count[t], args)
        during == Minus(made, args)
    IN  /\ count' = [count EXCEPT ![t] = Plus(AfterCall(during, args), {"response"} \cup S)]
        /\ handles' = [handles EXCEPT ![t] = Plus(@, {"response"})]
        /\ inside' = [inside EXCEPT ![t] = Plus(@, S)]

\* The arguments of the three ways to call Lean that are not the schema.
TakesProtobuf == {"message"}
TakesObjProtobufAndString == {"message", "model"}

\* load_lean_schema_object asks Lean for the schema. The answer is an Except that holds the
\* schema, or an error.
LoadSchema(t) ==
    /\ at[t] = "load"
    /\ \E S \in {{}, {"schema"}} : Call(t, TakesProtobuf, {}, S)
    /\ Goto(t, "loaded")
    /\ UNCHANGED <<runtime, owner, attached, calls, rounds>>

\* Mutation of Taken: as_borrowed in the place of to_owned, with a handle all the same.
TakenBorrowed(f, S) == f

\* to_owned: one more reference.
Taken(f, S) == Plus(f, S)

\* The schema is taken out of the answer, whose drop frees it and what it alone holds. An
\* error ends the work of this CedarLeanFfi.
TakeSchema(t) ==
    /\ at[t] = "loaded"
    /\ LET S == {o \in {"schema"} : inside[t][o] = 1} IN
       /\ count' = [count EXCEPT ![t] = Minus(Taken(@, S), {"response"} \cup S)]
       /\ handles' = [handles EXCEPT ![t] = Minus(Plus(@, S), {"response"})]
       /\ inside' = [inside EXCEPT ![t] = Minus(@, S)]
       /\ IF S = {} THEN Goto(t, "detach") ELSE Goto(t, "ask")
    /\ UNCHANGED <<runtime, owner, attached, calls, rounds>>

Ask(t, buffers, schema) ==
    /\ at[t] = "ask" /\ calls[t] < MaxCalls
    /\ Call(t, buffers, schema, {})
    /\ calls' = [calls EXCEPT ![t] = @ + 1]
    /\ Goto(t, "answered")
    /\ UNCHANGED <<runtime, owner, attached, rounds>>

HasSchema(t) == handles[t]["schema"] > 0

\* The run_check, print_check, smtlib_of and asserts_of functions: a clone of the schema and a message.
AskOnSchema(t) == HasSchema(t) /\ Ask(t, TakesProtobuf, {"schema"})

\* The functions that are given the raw model of the solver as well.
AskOnModel(t) == HasSchema(t) /\ Ask(t, TakesObjProtobufAndString, {"schema"})

\* Authorization, evaluation and validation: the message holds everything.
AskPlain(t) == Ask(t, TakesProtobuf, {})

\* The response is deserialised and dropped. An error, of Lean or of the deserialisation,
\* may end the work of this CedarLeanFfi.
ReadResponse(t) ==
    /\ at[t] = "answered"
    /\ count' = [count EXCEPT ![t] = Minus(@, {"response"})]
    /\ handles' = [handles EXCEPT ![t] = Minus(@, {"response"})]
    /\ \/ Goto(t, "ask")
       \/ Goto(t, "release")
    /\ UNCHANGED <<runtime, owner, attached, inside, calls, rounds>>

-----------------------------------------------------------------------------
(* The end of a CedarLeanFfi *)

\* There is no more to ask.
Finish(t) ==
    /\ at[t] = "ask"
    /\ Goto(t, "release")
    /\ UNCHANGED <<runtime, owner, attached, objects, calls, rounds>>

DropSchema(t) ==
    /\ count' = [count EXCEPT ![t] = Minus(@, {"schema"})]
    /\ handles' = [handles EXCEPT ![t] = Minus(@, {"schema"})]

\* Local variables are dropped in reverse: the schema, then the CedarLeanFfi it came from.
\* The fields of an Analyzer are dropped in order, and its lean_ffi comes first.
Release(t) ==
    /\ at[t] = "release"
    /\ IF owner[t] = "locals" /\ HasSchema(t) THEN DropSchema(t) ELSE UNCHANGED <<count, handles>>
    /\ Goto(t, "detach")
    /\ UNCHANGED <<runtime, owner, attached, inside, calls, rounds>>

\* lean_finalize_thread. The thread may make another CedarLeanFfi.
Detach(t) ==
    /\ at[t] = "detach"
    /\ attached' = [attached EXCEPT ![t] = @ - 1]
    /\ \/ HasSchema(t) /\ Goto(t, "late")
       \/ ~HasSchema(t) /\ rounds[t] < MaxRounds /\ Goto(t, "new")
       \/ ~HasSchema(t) /\ Goto(t, "ended")
    /\ UNCHANGED <<runtime, owner, objects, calls, rounds>>

\* The schema of an Analyzer, when its thread is given up already.
ReleaseLate(t) ==
    /\ at[t] = "late"
    /\ DropSchema(t)
    /\ Goto(t, "ended")
    /\ UNCHANGED <<runtime, owner, attached, inside, calls, rounds>>

RuntimeStep(t) ==
    \/ BeginInit(t) \/ EndInit(t) \/ PassInit(t) \/ Poisoned(t) \/ Attach(t)
    \/ LoadSchema(t) \/ TakeSchema(t)
    \/ AskOnSchema(t) \/ AskOnModel(t) \/ AskPlain(t) \/ ReadResponse(t)
    \/ Finish(t) \/ Release(t) \/ Detach(t) \/ ReleaseLate(t)

RuntimeNext == \E t \in Threads : RuntimeStep(t)

RuntimeSpec == RuntimeInit /\ [][RuntimeNext]_runtimeVars

-----------------------------------------------------------------------------
(* Properties *)

RuntimeTypes ==
    /\ runtime \in {"down", "starting", "up", "poisoned"}
    /\ at \in [Threads -> Steps]
    /\ owner \in [Threads -> Owners]
    /\ attached \in [Threads -> 0..1]
    /\ count \in [Threads -> [Objects -> Nat]]
    /\ handles \in [Threads -> [Objects -> Nat]]
    /\ inside \in [Threads -> [Objects -> 0..1]]
    /\ calls \in [Threads -> 0..MaxCalls]
    /\ rounds \in [Threads -> 0..MaxRounds]

\* No Lean object is freed while something holds it, none is released twice, and none is
\* left when its thread is done: the count of every object is the number of Rust handles and
\* of Lean objects that hold it, across calls that take over their arguments, answers that
\* are taken apart, errors and early returns.
RefsCounted ==
    \A t \in Threads :
        /\ \A o \in Objects : count[t][o] = handles[t][o] + inside[t][o]
        /\ at[t] \in {"new", "ended"} => count[t] = None

\* Lean runs on a thread only when the process is initialised, and this thread is: also when
\* several threads make their first CedarLeanFfi at once, or the initialisation fails. Only
\* the schema of an Analyzer is released after its thread was given up.
ThreadReady ==
    \A t \in Threads :
        /\ at[t] \in {"load", "loaded", "ask", "answered", "release", "detach"}
              => runtime = "up" /\ attached[t] = 1
        /\ at[t] \in {"new", "initialize", "attach", "ended", "panicked"} => attached[t] = 0
        /\ at[t] = "late" => owner[t] = "analyzer" /\ count[t]["schema"] = 1

\* No call into Lean frees an object that is still held, keeps one that is not, or runs
\* where Lean does not.
RuntimeSafe == RefsCounted /\ ThreadReady
=============================================================================
