--------------------------------- MODULE Server ---------------------------------
(***************************************************************************)
(* gepa_rpc/server.py around the runs of RunRegistry: the process from its *)
(* launch (cli.py) to its exit.  grpc queues an accepted call for a thread *)
(* pool that streams and polls share; a stream holds its thread from       *)
(* next(request_iterator) until its handler returns.  SIGTERM and SIGINT   *)
(* stop the server with a grace period, serve returns when no call is      *)
(* left, and the interpreter joins the pool's threads before it exits; the *)
(* reader and runner threads are daemons and die wherever they are.        *)
(***************************************************************************)
EXTENDS RunRegistry

CONSTANTS
  Polls         \* GetStatus calls

ASSUME PollsAssumption == Polls \cap Streams = {}

VARIABLES
  stage,        \* how far the process is
  calls,        \* calls accepted and not yet taken by a thread
  opening,      \* streams whose thread is in next(request_iterator)
  poll          \* how far a GetStatus call is

server == <<stage, calls, opening, poll>>
serverVars == <<vars, server>>

ServerTypeOK ==
  /\ TypeOK
  /\ stage \in {"off", "failed", "serving", "grace", "cut", "exiting", "exited"}
  /\ calls \in Seq(Streams \cup Polls)
  /\ opening \subseteq Streams
  /\ poll \in [Polls -> {"none", "waiting", "answered", "cancelled"}]

ServerInit ==
  /\ Init
  /\ stage = "off"
  /\ calls = <<>>
  /\ opening = {}
  /\ poll = [p \in Polls |-> "none"]

Alive == stage \in {"serving", "grace", "cut", "exiting"}

Move(from, to) == stage = from /\ stage' = to

-------------------------------------------------------------------------------
(* Calls and the thread pool *)

Waiting == ToSet(calls)

\* Threads of the pool at work.
Held == opening \cup Busy

\* A stream of which the server has not seen the end.
Connected(s) == handler[s] = "open" \/ s \in opening \cup Waiting

CallStream(s) ==
  /\ stage = "serving"
  /\ handler[s] = "new" /\ ~Connected(s)
  /\ calls' = Append(calls, s)
  /\ UNCHANGED <<vars, stage, opening, poll>>

CallGetStatus(p) ==
  /\ stage = "serving"
  /\ poll[p] = "none"
  /\ poll' = [poll EXCEPT ![p] = "waiting"]
  /\ calls' = Append(calls, p)
  /\ UNCHANGED <<vars, stage, opening>>

\* A free thread takes the oldest call.  GetStatus is over at once (its steps
\* are module GetStatus); a call that was cancelled in the queue has no answer.
ThreadTakesCall ==
  /\ Alive
  /\ calls # <<>>
  /\ Cardinality(Held) < Workers
  /\ calls' = Tail(calls)
  /\ IF Head(calls) \in Polls
     THEN /\ poll' = [poll EXCEPT ![Head(calls)] =
                        IF @ = "waiting" THEN "answered" ELSE @]
          /\ UNCHANGED opening
     ELSE /\ opening' = opening \cup {Head(calls)}
          /\ UNCHANGED poll
  /\ UNCHANGED <<vars, stage>>

\* The first message, or the end of the client's half.
ReadFirst(s) ==
  /\ Alive
  /\ s \in opening /\ link[s] = "up"
  /\ Register(s)
  /\ opening' = opening \ {s}
  /\ UNCHANGED <<stage, calls, poll>>

\* A faulty variant, without keepalive pings: only the server's own cancelling
\* of the call is noticed.
WithoutKeepalive(s) == link[s] = "down" /\ stage # "serving"

Interrupted(s) == link[s] = "down"

\* The client is lost before it has sent anything: next() raises an RpcError,
\* which the handler does not catch.
OpeningFails(s) ==
  /\ Alive
  /\ s \in opening /\ Interrupted(s)
  /\ RejectStart(s)
  /\ opening' = opening \ {s}
  /\ UNCHANGED <<stage, calls, poll>>

\* A client leaves, or a keepalive ping goes unanswered.
CallerLeaves(s) ==
  /\ Alive
  /\ link[s] = "up"
  /\ Connected(s)
  /\ link' = [link EXCEPT ![s] = "down"]
  /\ UNCHANGED <<registry, runId, threads, runStatus, terminal, cancelled, disk,
                 crashes, server>>

\* The handler, reader and runner threads go on until the exit.
ThreadStep(s) ==
  /\ Alive
  /\ HandlerReturns(s) \/ ReaderCancels(s) \/ RunnerStep(s)
  /\ UNCHANGED server

-------------------------------------------------------------------------------
(* The process *)

\* The port is out of range, or cannot be bound.
LaunchFails == Move("off", "failed") /\ UNCHANGED <<vars, calls, opening, poll>>

Launch == Move("off", "serving") /\ UNCHANGED <<vars, calls, opening, poll>>

\* server.stop(grace): no call is accepted any more.
Signal == Move("serving", "grace") /\ UNCHANGED <<vars, calls, opening, poll>>

\* A faulty variant: only the calls that have begun a run are cancelled.
CutRuns == Busy

Cut == {s \in Streams : Connected(s)}

\* The grace period is over: cancel_all_calls.
GraceEnds ==
  /\ Move("grace", "cut")
  /\ link' = [s \in Streams |-> IF s \in Cut THEN "down" ELSE link[s]]
  /\ poll' = [p \in Polls |-> IF poll[p] = "waiting" THEN "cancelled" ELSE poll[p]]
  /\ UNCHANGED <<registry, runId, threads, runStatus, terminal, cancelled, disk,
                 crashes, calls, opening>>

\* No call is left that grpc still serves.
Drained ==
  /\ \A s \in Streams : Connected(s) => link[s] = "down"
  /\ \A p \in Polls : poll[p] # "waiting"

\* wait_for_termination comes back, and with it serve and main.
ServeReturns ==
  /\ stage \in {"grace", "cut"}
  /\ Drained
  /\ stage' = "exiting"
  /\ UNCHANGED <<vars, calls, opening, poll>>

Joined == calls = <<>> /\ Held = {}

\* The pool's threads have finished: the process ends, and the run table with
\* it.  What the clients have been sent, they have.
Exit ==
  /\ Move("exiting", "exited")
  /\ Joined
  /\ order' = <<>>
  /\ entry' = [k \in RunIds |-> None]
  /\ status' = [s \in Streams |-> "none"]
  /\ UNCHANGED <<runId, threads, message, stream, disk, crashes, calls, opening, poll>>

Off == stage \in {"failed", "exited"} /\ UNCHANGED serverVars

ServerNext ==
  \/ LaunchFails \/ Launch \/ Signal \/ GraceEnds \/ ServeReturns \/ Exit \/ Off
  \/ ThreadTakesCall
  \/ \E p \in Polls : CallGetStatus(p)
  \/ \E s \in Streams :
       CallStream(s) \/ ReadFirst(s) \/ OpeningFails(s) \/ CallerLeaves(s) \/ ThreadStep(s)

\* As in RunRegistry, while the process is there.  No client has to send its
\* first message, and the optimizer need not come to an end by itself.
ThreadFairness(s) ==
  /\ WF_serverVars(Alive /\ runner[s] = "done" /\ HandlerReturns(s) /\ UNCHANGED server)
  /\ WF_serverVars(Alive /\ ReaderCancels(s) /\ UNCHANGED server)
  /\ WF_serverVars(Alive /\ OptimizerStarts(s) /\ UNCHANGED server)
  /\ WF_serverVars(Alive /\ cancelled[s] /\ OptimizerEnds(s) /\ UNCHANGED server)
  /\ WF_serverVars(Alive /\ RunnerReports(s) /\ UNCHANGED server)
  /\ WF_serverVars(OpeningFails(s))

ServerSpec ==
  /\ ServerInit /\ [][ServerNext]_serverVars
  /\ \A s \in Streams : ThreadFairness(s)
  /\ WF_serverVars(ThreadTakesCall)
  /\ WF_serverVars(GraceEnds) /\ WF_serverVars(ServeReturns) /\ WF_serverVars(Exit)

-------------------------------------------------------------------------------
(* Properties *)

\* The server takes no run away from a client that is still connected: a run
\* the exit finds begun has ended and said so, or its client was lost or cut
\* off at the end of the grace period.
ExitIsClean ==
  stage = "exited" =>
    \A s \in Streams : (handler[s] \notin {"new", "duplicate"} /\ runner[s] # "off")
                         => link[s] = "down" \/ terminal[s] # "none"

\* A signalled server exits, whatever its clients do: streams that are queued,
\* that never send a first message or never answer included.
ShutdownCompletes == (stage = "grace") ~> (stage = "exited")

\* A client that is lost gives its thread back, also one that had sent nothing.
WorkerComesBack ==
  \A s \in Streams : (s \in Held /\ link[s] = "down") ~> (s \notin Held)

\* A poll waits for as long as connected streams hold every thread, and no longer.
PollIsServed ==
  \A p \in Polls :
    (poll[p] = "waiting") ~>
      (poll[p] # "waiting" \/ Cardinality({s \in Held : link[s] = "up"}) = Workers)

===============================================================================
