-------------------------- MODULE MCStopAndWaitArq --------------------------
(* Two radio nodes for the model checker; the .cfg files say who talks. *)
EXTENDS StopAndWaitArq

CONSTANTS a, b
=============================================================================
