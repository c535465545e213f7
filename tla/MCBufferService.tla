--------------------------- MODULE MCBufferService ---------------------------
(* A small frame buffer in its service loop for the model checker. *)
EXTENDS BufferService
=============================================================================
