----------------------------- MODULE DecideOnce -----------------------------
(***************************************************************************)
(* What a call of an authorizer promises, whatever it does inside: it      *)
(* gives one of the verdicts its input allows, once, and then stays put.   *)
(***************************************************************************)
CONSTANTS
    Inputs,        \* the inputs of a call
    Verdicts(_)    \* the verdicts an input allows

VARIABLES input, verdict

vars == <<input, verdict>>

Init == input \in Inputs /\ verdict = "pending"

Decide ==
    /\ verdict = "pending"
    /\ verdict' \in Verdicts(input)
    /\ UNCHANGED input

SafeSpec == Init /\ [][Decide]_vars

Spec == SafeSpec /\ <>(verdict # "pending")
=============================================================================
