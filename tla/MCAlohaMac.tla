------------------------------ MODULE MCAlohaMac ------------------------------
(* Two stations for the model checker; the .cfg files say who talks. *)
EXTENDS AlohaMac

CONSTANTS a, b

TwoAndOne == [n \in Node |-> IF n = a THEN 2 ELSE 1]
ThreeAndNone == [n \in Node |-> IF n = a THEN 3 ELSE 0]
=============================================================================
