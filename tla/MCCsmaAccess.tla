----------------------------- MODULE MCCsmaAccess -----------------------------
(* Two frames and short timers for the model checker. *)
EXTENDS CsmaAccess
=============================================================================
