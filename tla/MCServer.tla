-------------------------------- MODULE MCServer --------------------------------
(* A small instance of Server for TLC. *)
EXTENDS Server, TLC

CONSTANTS s1, s2, s3, k1, k2, p1

TwoStreams == {s1, s2}
ThreeStreams == {s1, s2, s3}
OneRunId == {k1}
OnePoll == {p1}

===============================================================================
