-------------------------------- MODULE Symcc ---------------------------------
(***************************************************************************)
(* The programs around an SMT solver: the fuzz targets with the solver they *)
(* share, the encoder, and the checks that Lean makes with a process. The  *)
(* encoder writes what a check of SolverSession sends as its script; there *)
(* only the check it is of matters. They share no state, so a behaviour is *)
(* one run of one of them, and the variables of the others stay as they    *)
(* are here.                                                               *)
(***************************************************************************)
EXTENDS SymccFuzz, SmtEncoder, SolverSession

VARIABLE program

Programs == {"fuzz", "encoder", "session"}

symccVars == <<program, vars, encoderVars, sessionVars>>

-----------------------------------------------------------------------------
(* A program that does not run *)

FuzzIdle ==
    /\ target = "check-ok" /\ kind = [q \in Queries |-> "sat"] /\ cur = 1 /\ pc = "finished"
    /\ proc = Fresh /\ usage = 0 /\ raw = 0 /\ results = <<>> /\ compared = {} /\ served = 0

EncoderIdle ==
    /\ encoding = "idle" /\ job = [asserts |-> <<>>, members |-> <<>>] /\ stack = <<>>
    /\ table = <<>> /\ script = <<>> /\ asserted = <<>> /\ calls = 0

SessionIdle ==
    /\ caller = "tests" /\ fate = [c \in Checks |-> "sat"] /\ wanted = [c \in Checks |-> TRUE]
    /\ check = 1 /\ at = "ended" /\ solver = NewSolver("none") /\ heard = Nothing
    /\ told = FALSE /\ outcomes = <<>>

SymccInit ==
    /\ program \in Programs
    /\ IF program = "fuzz"    THEN Init        ELSE FuzzIdle
    /\ IF program = "encoder" THEN EncoderInit ELSE EncoderIdle
    /\ IF program = "session" THEN SessionInit ELSE SessionIdle

OthersUnchanged ==
    /\ UNCHANGED program
    /\ program # "fuzz"    => UNCHANGED vars
    /\ program # "encoder" => UNCHANGED encoderVars
    /\ program # "session" => UNCHANGED sessionVars

SymccNext ==
    \/ program = "fuzz"    /\ Next        /\ OthersUnchanged
    \/ program = "encoder" /\ EncoderNext /\ OthersUnchanged
    \/ program = "session" /\ SessionNext /\ OthersUnchanged

\* Each program has the fairness of its own specification.
SymccFairness ==
    /\ WF_symccVars(program = "fuzz" /\ Client /\ OthersUnchanged)
    /\ WF_symccVars(program = "encoder" /\ EncodeStep /\ OthersUnchanged)
    /\ WF_symccVars(program = "session" /\ CallerStep /\ OthersUnchanged)
    /\ WF_symccVars(program = "session" /\ Obey /\ OthersUnchanged)
    /\ WF_symccVars(program = "session" /\ EndModel /\ OthersUnchanged)

SymccSpec == SymccInit /\ [][SymccNext]_symccVars /\ SymccFairness

-----------------------------------------------------------------------------
(* Properties. *)

\* The variables of the program that runs have their types, and the counts their bounds: what
\* each check came to is recorded once, only what has a name is in the encoder's tables, and
\* get_solver hands no process out more often than its limit says.
TypesOK ==
    /\ program \in Programs
    /\ program = "fuzz"    => TypeOK /\ UsageKept
    /\ program = "encoder" => EncoderTypes
    /\ program = "session" => SessionTypes

\* Whatever the solver does, a fuzz target gets through its queries, a call of encode returns
\* or throws, and a check is settled (if the process does not end within its model).
EveryCallEnds == (program = "fuzz" => GetsThrough) /\ EncodingEnds /\ CheckSettled
=============================================================================
