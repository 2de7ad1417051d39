------------------------------ MODULE MCRustClient -------------------------------
(* Small instances of RustClient for TLC. *)
EXTENDS RustClient, TLC

CONSTANTS q1, q2, q3

TwoRequests == {q1, q2}
ThreeRequests == {q1, q2, q3}

===============================================================================
