----------------------------- MODULE MCAckTimeout -----------------------------
(* A sender of a few frames for the model checker. *)
EXTENDS AckTimeout
=============================================================================
