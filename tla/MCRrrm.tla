-------------------------------- MODULE MCRrrm --------------------------------
(* An access point and a client for the model checker. *)
EXTENDS Rrrm

CONSTANTS ap, client
=============================================================================
