------------------------------ MODULE MCProgress -------------------------------
(* A small instance of Progress for TLC: of the three scores, two are the    *)
(* same on the wire.                                                         *)
EXTENDS Progress, TLC

CONSTANTS c1, c2

TwoCandidates == {c1, c2}
Rounded == (0 :> 0) @@ (1 :> 1) @@ (2 :> 1)

\* Candidates are interchangeable.
Symmetry == Permutations(Candidates)

===============================================================================
