------------------------------- MODULE RunContract -------------------------------
(***************************************************************************)
(* What gepa_rpc/servicer.py promises the client of one optimization       *)
(* stream: the run is refused, or begins, asks, and is decided once; the   *)
(* client hears the decision after everything else and sees the stream end *)
(* after it.  A run may break before it is decided, and then its stream    *)
(* ends without a decision.  Of a client that leaves nothing more is said. *)
(* RunStream implements this.                                              *)
(***************************************************************************)
CONSTANT Requests

VARIABLES
  run,      \* the run, for a client that has not left
  asked,    \* requests the client has received
  heard,    \* terminal message the client has received
  client    \* has the client seen the stream end

vars == <<run, asked, heard, client>>

Terminal == {"complete", "error"}

Init ==
  /\ run = "waiting"
  /\ asked = {}
  /\ heard = "nothing"
  /\ client = "on"

Begin ==
  /\ run = "waiting" /\ client = "on"
  /\ run' = "running"
  /\ UNCHANGED <<asked, heard, client>>

Decide ==
  /\ run = "running"
  /\ run' \in Terminal
  /\ UNCHANGED <<asked, heard, client>>

\* A thread cannot be started, or the optimizer ends in a BaseException: there
\* will be no decision.
Break ==
  /\ run = "running" \/ (run = "waiting" /\ client = "on")
  /\ run' = "broken"
  /\ UNCHANGED <<asked, heard, client>>

\* A request may still be under way when the run is decided or broken, never after
\* the decision has been heard; and each request is made once.
Ask(r) ==
  /\ run \notin {"waiting", "lost"}
  /\ heard = "nothing"
  /\ r \notin asked
  /\ asked' = asked \cup {r}
  /\ UNCHANGED <<run, heard, client>>

Hear ==
  /\ run \in Terminal
  /\ heard = "nothing"
  /\ heard' = run
  /\ UNCHANGED <<run, asked, client>>

\* Refused, broken, or heard to the end.
SeeEnd ==
  /\ client = "on"
  /\ run \in {"waiting", "broken"} \/ (run \in Terminal /\ heard = run)
  /\ client' = "ended"
  /\ UNCHANGED <<run, asked, heard>>

Leave ==
  /\ client = "on"
  /\ run' = "lost"
  /\ UNCHANGED <<asked, heard, client>>

Next ==
  \/ Begin \/ Decide \/ Break
  \/ \E r \in Requests : Ask(r)
  \/ Hear \/ SeeEnd \/ Leave

Spec == Init /\ [][Next]_vars

===============================================================================
