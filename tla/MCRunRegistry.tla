----------------------------- MODULE MCRunRegistry -----------------------------
(* Small instances of RunRegistry for TLC. *)
EXTENDS RunRegistry, TLC

CONSTANTS s1, s2, s3, k1, k2, k3

TwoStreams == {s1, s2}
ThreeStreams == {s1, s2, s3}
OneRunId == {k1}
TwoRunIds == {k1, k2}
ThreeRunIds == {k1, k2, k3}

\* Streams and run ids are interchangeable.
Symmetry == Permutations(Streams) \cup Permutations(RunIds)

===============================================================================
