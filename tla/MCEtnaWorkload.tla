--------------------------- MODULE MCEtnaWorkload ---------------------------
(***************************************************************************)
(* EtnaWorkload with two tasks and three runs: enough for a run that is    *)
(* killed, a run on the tree it left, and one after that.                  *)
(***************************************************************************)
EXTENDS EtnaWorkload
=============================================================================
