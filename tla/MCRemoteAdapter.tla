---------------------------- MODULE MCRemoteAdapter ----------------------------
(* Small instances of RemoteAdapter for TLC. *)
EXTENDS RemoteAdapter, TLC

CONSTANTS main, helper, q1, q2, q3

OneCaller == {main}
TwoCallers == {main, helper}
TwoRequests == {q1, q2}
ThreeRequests == {q1, q2, q3}

===============================================================================
