------------------------------ MODULE MCOmniBatch ------------------------------
(* A small instance of OmniBatch for TLC: the first two candidates are       *)
(* different objects with the same text; the engine evaluates the client's   *)
(* example, one of whose fields is called "fields", and None.                *)
EXTENDS OmniBatch, TLC

CONSTANTS c1, c2, c3

ThreeCandidates == {c1, c2, c3}
TwoTexts == (c1 :> "a") @@ (c2 :> "a") @@ (c3 :> "b")
OneExample == {[id |-> "1", fields |-> [fields |-> "x"]]}
NoExample == {PyValue("None", "None")}

===============================================================================
