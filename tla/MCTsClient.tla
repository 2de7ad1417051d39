------------------------------ MODULE MCTsClient -------------------------------
(* Small instances of TsClient for TLC. *)
EXTENDS TsClient, TLC

CONSTANTS q1, q2, q3

TwoRequests == {q1, q2}
ThreeRequests == {q1, q2, q3}

===============================================================================
