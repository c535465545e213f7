------------------------------ MODULE MCGoBackN ------------------------------
(* A small window for the model checker. *)
EXTENDS GoBackN
=============================================================================
