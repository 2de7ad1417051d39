------------------------------ MODULE RemoteCall ------------------------------
(***************************************************************************)
(* What the server promises the optimizer about a call that is answered by *)
(* the client at the other end of a gRPC stream, with no threads, lock or  *)
(* table in sight.  A call is opened while the stream is open, and is then *)
(* settled exactly once: with an answer of the client, or, when the stream *)
(* has closed, with a failure.  RemoteAdapter implements this              *)
(* specification with gepa_rpc/adapter.py's table of futures.              *)
(***************************************************************************)

CONSTANTS
  Requests,   \* request ids; one id names one call
  Payloads    \* what a client can answer

Nothing == "nothing"   \* the reply of a call that has none

VARIABLES
  state,      \* where each call stands
  reply,      \* the payload an answered call got
  closed      \* the stream has ended, for whatever reason

vars == <<state, reply, closed>>

CallStates == {"unused", "open", "answered", "failed"}

TypeOK ==
  /\ state \in [Requests -> CallStates]
  /\ reply \in [Requests -> Payloads \cup {Nothing}]
  /\ closed \in BOOLEAN

Init ==
  /\ state = [r \in Requests |-> "unused"]
  /\ reply = [r \in Requests |-> Nothing]
  /\ closed = FALSE

\* A call starts only while the stream is open.
Open(r) ==
  /\ ~closed
  /\ state[r] = "unused"
  /\ state' = [state EXCEPT ![r] = "open"]
  /\ UNCHANGED <<reply, closed>>

\* The client's answer reaches an open call.  An answer that was already
\* being handled when the stream closed may still win.
Answer(r, p) ==
  /\ state[r] = "open"
  /\ state' = [state EXCEPT ![r] = "answered"]
  /\ reply' = [reply EXCEPT ![r] = p]
  /\ UNCHANGED closed

Close ==
  /\ ~closed
  /\ closed' = TRUE
  /\ UNCHANGED <<state, reply>>

Fail(r) ==
  /\ closed
  /\ state[r] = "open"
  /\ state' = [state EXCEPT ![r] = "failed"]
  /\ UNCHANGED <<reply, closed>>

Next ==
  \/ \E r \in Requests : Open(r)
  \/ \E r \in Requests, p \in Payloads : Answer(r, p)
  \/ Close
  \/ \E r \in Requests : Fail(r)

SafetySpec == Init /\ [][Next]_vars

\* Once the stream has closed, an open call does not stay open.
Fairness == \A r \in Requests : WF_vars(Fail(r))

Spec == SafetySpec /\ Fairness

===============================================================================
