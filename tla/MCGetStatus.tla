------------------------------ MODULE MCGetStatus ------------------------------
(* Small instances of GetStatus for TLC. *)
EXTENDS GetStatus, TLC

CONSTANTS s1, s2, s3, k1, k2

TwoStreams == {s1, s2}
ThreeStreams == {s1, s2, s3}
OneRunId == {k1}
TwoRunIds == {k1, k2}

\* Streams and run ids are interchangeable.
Symmetry == Permutations(Streams) \cup Permutations(RunIds)

===============================================================================
