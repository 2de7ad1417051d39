------------------------------ MODULE MCRunStream ------------------------------
(* Small instances of RunStream for TLC. *)
EXTENDS RunStream, TLC

CONSTANTS q1, q2, q3

TwoRequests == {q1, q2}
ThreeRequests == {q1, q2, q3}

===============================================================================
