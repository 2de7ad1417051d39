-------------------------------- MODULE RunStream --------------------------------
(***************************************************************************)
(* One optimization stream from end to end: RunOptimization (and, message  *)
(* names apart, RunOptimizationOmni) of gepa_rpc/servicer.py.  The handler *)
(* thread reads the start message and then yields what is on the outbound  *)
(* queue; the reader thread takes the client's answers to the adapter; the *)
(* runner thread optimizes, reports and ends the queue with None.  The     *)
(* client may stay, end its half of the stream, or go away at any time.    *)
(* The adapter is the abstract one of RemoteCall, which RemoteAdapter      *)
(* implements.                                                             *)
(***************************************************************************)
EXTENDS Naturals, Sequences, SequencesExt

CONSTANTS
  Requests,      \* ids of the requests to the client; bounds their number
  None,          \* no request
  MaxProgress,   \* bound on progress updates
  MaxUplink      \* bound on client messages that are not read yet

ASSUME NoneAssumption == None \notin Requests
ASSUME RunStreamBounds == MaxProgress \in Nat /\ MaxUplink \in Nat \ {0}

Payloads == {"good", "bad"}   \* bad: the lengths do not match the batch

VARIABLES
  handler,       \* handler thread
  reader,        \* reader thread
  runner,        \* runner thread
  awaited,       \* calls the runner thread is blocked in: at most one
  outbound,      \* the queue the handler drains
  downlink,      \* messages the client has not received yet
  uplink,        \* client messages the server has not read yet
  link,          \* what the client keeps open of the stream
  asked,         \* requests the client has received
  heard,         \* terminal message the client has received
  client,        \* has the client seen the stream end
  progress,      \* progress updates made
  broken,        \* history: a fault that nothing catches has ended the run
  state, reply, closed   \* of RemoteCall

Calls == INSTANCE RemoteCall
callVars == <<state, reply, closed>>
serverVars == <<handler, reader, runner, awaited, outbound, progress, broken>>
wireVars == <<downlink, uplink, link>>
clientVars == <<asked, heard, client>>
vars == <<serverVars, wireVars, clientVars, callVars>>

\* Messages: to the client, a request is its id.
Progress == "progress"
Complete == "complete"
Error == "error"
End == "None"
Terminal == {Complete, Error}
ToClient == Requests \cup {Progress} \cup Terminal

\* A message is of one kind.
ASSUME KindsAssumption == Requests \cap ({Progress, End} \cup Terminal) = {}

\* From the client: start, a first message of another kind, answers.
Start == [id |-> None, payload |-> "start"]
Other == [id |-> None, payload |-> "other"]
Answers == [id : Requests, payload : Payloads]
IsAnswer(m) == m.id # None

TypeOK ==
  /\ handler \in {"first", "drain", "done"}
  /\ reader \in {"off", "read", "cancel", "done"}
  /\ runner \in {"off", "optimize", "complete", "error", "end", "cancel", "done"}
  /\ awaited \in SUBSET Requests
  /\ outbound \in Seq(ToClient \cup {End})
  /\ downlink \in Seq(ToClient)
  /\ uplink \in Seq({Start, Other} \cup Answers)
  /\ link \in {"open", "half", "gone"}
  /\ asked \in SUBSET Requests
  /\ heard \in Terminal \cup {"nothing"}
  /\ client \in {"on", "ended"}
  /\ progress \in 0..MaxProgress
  /\ broken \in BOOLEAN
  /\ Calls!TypeOK

Init ==
  /\ handler = "first" /\ reader = "off" /\ runner = "off"
  /\ awaited = {}
  /\ outbound = <<>> /\ downlink = <<>> /\ uplink = <<>>
  /\ link = "open"
  /\ asked = {}
  /\ heard = "nothing"
  /\ client = "on"
  /\ progress = 0
  /\ broken = FALSE
  /\ Calls!Init

-------------------------------------------------------------------------------
(* The client *)

Listening == link # "gone" /\ client = "on"

Send(m) ==
  /\ link = "open"
  /\ client = "on"
  /\ Len(uplink) < MaxUplink
  /\ uplink' = Append(uplink, m)
  /\ UNCHANGED <<serverVars, downlink, link, clientVars, callVars>>

SendFirst(m) == handler = "first" /\ uplink = <<>> /\ Send(m)

\* An answer to a request it has received: to one still open, or again.
SendAnswer(r, p) == r \in asked /\ Send([id |-> r, payload |-> p])

SendSecondStart == handler = "drain" /\ Send(Start)

HalfClose ==
  /\ link = "open"
  /\ client = "on"
  /\ link' = "half"
  /\ UNCHANGED <<serverVars, downlink, uplink, clientVars, callVars>>

\* It cancels the call, or its process or network is lost: what is under way
\* in either direction is lost too.
Leave ==
  /\ Listening
  /\ link' = "gone"
  /\ uplink' = <<>>
  /\ downlink' = <<>>
  /\ UNCHANGED <<serverVars, clientVars, callVars>>

Receive ==
  /\ Listening
  /\ downlink # <<>>
  /\ downlink' = Tail(downlink)
  /\ LET m == Head(downlink) IN
       /\ asked' = IF m \in Requests THEN asked \cup {m} ELSE asked
       /\ heard' = IF m \in Terminal THEN m ELSE heard
  /\ UNCHANGED <<serverVars, uplink, link, client, callVars>>

SeeEnd ==
  /\ Listening
  /\ handler = "done"
  /\ downlink = <<>>
  /\ client' = "ended"
  /\ uplink' = <<>>
  /\ UNCHANGED <<serverVars, downlink, link, asked, heard, callVars>>

-------------------------------------------------------------------------------
(* The handler thread *)

\* The first message is a start and the run is registered: both threads start.
StartRun ==
  /\ handler = "first"
  /\ uplink # <<>> /\ Head(uplink) = Start
  /\ uplink' = Tail(uplink)
  /\ handler' = "drain"
  /\ reader' = "read"
  /\ runner' = "optimize"
  /\ UNCHANGED <<awaited, outbound, progress, broken, downlink, link, clientVars,
                 callVars>>

\* The run is registered, but a thread cannot be started: the reader, or behind
\* it the runner.  The handler raises, and gRPC ends the stream with a status.
StartFails ==
  /\ handler = "first"
  /\ uplink # <<>> /\ Head(uplink) = Start
  /\ uplink' = Tail(uplink)
  /\ handler' = "done"
  /\ reader' \in {"off", "read"}
  /\ broken' = TRUE
  /\ UNCHANGED <<runner, awaited, outbound, progress, downlink, link, clientVars,
                 callVars>>

\* Refused: no start_request, a bad run_id or a duplicate one; or there is no
\* first message to come.
RefuseRun ==
  /\ handler = "first"
  /\ uplink # <<>> \/ link # "open"
  /\ uplink' = <<>>
  /\ handler' = "done"
  /\ UNCHANGED <<reader, runner, awaited, outbound, progress, broken, downlink, link,
                 clientVars, callVars>>

IsEnd(m) == m = End

\* The handler yields a message; when the client is gone gRPC closes the
\* generator instead.
Yield ==
  /\ handler = "drain"
  /\ outbound # <<>> /\ ~IsEnd(Head(outbound))
  /\ outbound' = Tail(outbound)
  /\ IF link = "gone"
     THEN handler' = "done" /\ UNCHANGED downlink
     ELSE downlink' = Append(downlink, Head(outbound)) /\ UNCHANGED handler
  /\ UNCHANGED <<reader, runner, awaited, progress, broken, uplink, link, clientVars,
                 callVars>>

HandlerReturns ==
  /\ handler = "drain"
  /\ outbound # <<>> /\ IsEnd(Head(outbound))
  /\ outbound' = Tail(outbound)
  /\ handler' = "done"
  /\ UNCHANGED <<reader, runner, awaited, progress, broken, wireVars, clientVars,
                 callVars>>

-------------------------------------------------------------------------------
(* The reader thread *)

\* A faulty variant, like each operator below whose comment calls it one: the
\* code does not do this, and the properties must notice if it did.  An answer
\* that does not fit the request is ignored.
DeliverGood(m) ==
  IF state[m.id] = "open" /\ m.payload = "good"
  THEN Calls!Answer(m.id, m.payload) ELSE UNCHANGED callVars

\* An answer settles the call it names; to a settled one, or after the
\* cancel, it is dropped.
Deliver(m) ==
  IF state[m.id] = "open" THEN Calls!Answer(m.id, m.payload)
                          ELSE UNCHANGED callVars

\* A second start_request is ignored.
ReadMessage ==
  /\ reader = "read"
  /\ handler # "done"
  /\ uplink # <<>>
  /\ uplink' = Tail(uplink)
  /\ IF IsAnswer(Head(uplink)) THEN Deliver(Head(uplink)) ELSE UNCHANGED callVars
  /\ UNCHANGED <<serverVars, downlink, link, clientVars>>

\* The iterator ends, or raises, when the client has ended its half or is
\* gone, or the handler has returned.
ReaderEnds ==
  /\ reader = "read"
  /\ (link # "open" /\ uplink = <<>>) \/ handler = "done"
  /\ reader' = "cancel"
  /\ UNCHANGED <<handler, runner, awaited, outbound, progress, broken, wireVars,
                 clientVars, callVars>>

\* A faulty variant: nothing is cancelled.
CancelNothing == UNCHANGED callVars

\* adapter.cancel; a second cancel finds nothing to do.
CancelAdapter == IF closed THEN UNCHANGED callVars ELSE Calls!Close

ReaderCancels ==
  /\ reader = "cancel"
  /\ reader' = "done"
  /\ CancelAdapter
  /\ UNCHANGED <<handler, runner, awaited, outbound, progress, broken, wireVars,
                 clientVars>>

\* What a cancel leaves to do: each open call fails.
FailCall(r) ==
  /\ Calls!Fail(r)
  /\ UNCHANGED <<serverVars, wireVars, clientVars>>

-------------------------------------------------------------------------------
(* The runner thread *)

\* A faulty variant: the optimizer calls from several threads.
OptimizingInParallel == runner = "optimize"

Optimizing == runner = "optimize" /\ awaited = {}

\* adapter.evaluate or make_reflective_dataset, up to fut.result().
CallClient(r) ==
  /\ Optimizing
  /\ Calls!Open(r)
  /\ outbound' = Append(outbound, r)
  /\ awaited' = {r}
  /\ UNCHANGED <<handler, reader, runner, progress, broken, wireVars, clientVars>>

\* fut.result() returns an answer that passes the length checks.
CallReturns ==
  /\ \E r \in awaited : state[r] = "answered" /\ reply[r] = "good"
  /\ awaited' = {}
  /\ UNCHANGED <<handler, reader, runner, outbound, progress, broken, wireVars,
                 clientVars, callVars>>

\* The answer is malformed, the call failed, or it was refused: the optimizer
\* gives up (raise_on_exception=True).
CallRaises ==
  /\ runner = "optimize"
  /\ \/ \E r \in awaited :
          state[r] = "failed" \/ (state[r] = "answered" /\ reply[r] = "bad")
     \/ awaited = {} /\ closed
  /\ awaited' = {}
  /\ runner' = "error"
  /\ UNCHANGED <<handler, reader, outbound, progress, broken, wireVars, clientVars,
                 callVars>>

\* _ProgressCallback._emit
EmitProgress ==
  /\ Optimizing
  /\ progress < MaxProgress
  /\ progress' = progress + 1
  /\ outbound' = Append(outbound, Progress)
  /\ UNCHANGED <<handler, reader, runner, awaited, broken, wireVars, clientVars,
                 callVars>>

\* The optimizer returns, or raises an error of its own.
OptimizerEnds ==
  /\ Optimizing
  /\ runner' \in {"complete", "error"}
  /\ UNCHANGED <<handler, reader, awaited, outbound, progress, broken, wireVars,
                 clientVars, callVars>>

\* It ends in a BaseException, which passes the except clause: nothing is
\* reported, and finally puts None.
OptimizerExits ==
  /\ Optimizing
  /\ runner' = "end"
  /\ broken' = TRUE
  /\ UNCHANGED <<handler, reader, awaited, outbound, progress, wireVars, clientVars,
                 callVars>>

Put(from, m, to) ==
  /\ runner = from
  /\ outbound' = Append(outbound, m)
  /\ runner' = to
  /\ UNCHANGED <<handler, reader, awaited, progress, broken, wireVars, clientVars,
                 callVars>>

\* A faulty variant: the except clause is entered after a complete run too.
PutCompleteThenFail == Put("complete", Complete, "error")

PutComplete == Put("complete", Complete, "end")

\* Building the completion message raises.
CompleteFails ==
  /\ runner = "complete"
  /\ runner' = "error"
  /\ UNCHANGED <<handler, reader, awaited, outbound, progress, broken, wireVars,
                 clientVars, callVars>>

\* A faulty variant: the queue ends without a word.
FailSilently ==
  /\ runner = "error"
  /\ runner' = "end"
  /\ UNCHANGED <<handler, reader, awaited, outbound, progress, broken, wireVars,
                 clientVars, callVars>>

PutError == Put("error", Error, "end")

\* A faulty variant: None is not put.
PutNoEnd ==
  /\ runner = "end"
  /\ runner' = "cancel"
  /\ UNCHANGED <<handler, reader, awaited, outbound, progress, broken, wireVars,
                 clientVars, callVars>>

PutEnd == Put("end", End, "cancel")

RunnerCancels ==
  /\ runner = "cancel"
  /\ runner' = "done"
  /\ CancelAdapter
  /\ UNCHANGED <<handler, reader, awaited, outbound, progress, broken, wireVars,
                 clientVars>>

-------------------------------------------------------------------------------
ThreadsEnded == handler = "done" /\ reader \in {"off", "done"} /\ runner \in {"off", "done"}

Over ==
  /\ ThreadsEnded
  /\ link = "gone" \/ client = "ended"
  /\ UNCHANGED vars

ClientStep ==
  \/ \E m \in {Start, Other} : SendFirst(m)
  \/ \E r \in Requests, p \in Payloads : SendAnswer(r, p)
  \/ SendSecondStart
  \/ HalfClose \/ Leave

Handler == StartRun \/ StartFails \/ RefuseRun \/ Yield \/ HandlerReturns
Reader == ReadMessage \/ ReaderEnds \/ ReaderCancels
Report == PutComplete \/ CompleteFails \/ PutError \/ PutEnd \/ RunnerCancels
Runner ==
  \/ \E r \in Requests : CallClient(r)
  \/ CallReturns \/ CallRaises \/ EmitProgress \/ OptimizerEnds \/ OptimizerExits
  \/ Report

Next ==
  \/ ClientStep \/ Receive \/ SeeEnd
  \/ Handler \/ Reader \/ Runner
  \/ \E r \in Requests : FailCall(r)
  \/ Over

SafetySpec == Init /\ [][Next]_vars

\* The server's threads run on, and gRPC delivers to a client that stays.  The
\* optimizer gives up on a failed call; on its own it need not end.
Fairness ==
  /\ WF_vars(Receive) /\ WF_vars(SeeEnd)
  /\ WF_vars(Handler) /\ WF_vars(Reader)
  /\ WF_vars(CallReturns) /\ WF_vars(CallRaises) /\ WF_vars(Report)
  /\ \A r \in Requests : WF_vars(FailCall(r))

Spec == SafetySpec /\ Fairness

\* A client that answers what it is asked, whatever else it sends (strongly
\* fair, for MaxUplink may be in its way), and an optimizer with a budget.
Diligence ==
  /\ WF_vars(OptimizerEnds)
  /\ \A r \in Requests :
       SF_vars(state[r] = "open" /\ \E p \in Payloads : SendAnswer(r, p))

-------------------------------------------------------------------------------
(* Properties *)

\* The decision, under way to the client or heard.
Told == {m \in Terminal : m \in ToSet(outbound) \cup ToSet(downlink) \/ m = heard}

\* The run as its client can know it.
Run ==
  IF link = "gone" THEN "lost"
  ELSE IF Told # {} THEN CHOOSE m \in Told : TRUE
  ELSE IF broken THEN "broken"
  ELSE IF runner = "off" THEN "waiting" ELSE "running"

Contract == INSTANCE RunContract WITH run <- Run

\* The stream keeps RunContract's promises: the run is decided once, nothing
\* reaches the client after the decision it hears, no request reaches it twice,
\* and nothing but a failed thread start or a BaseException of the optimizer lets
\* a stream whose run began end unexplained for a client that stayed.
ImplementsContract == Contract!Spec

\* A client that ends its half of the stream, or does not answer any more
\* once it has, is not left hanging: the calls it owes are failed and the
\* stream ends, with the threads that served it.
HalfClosedStreamEnds ==
  (link = "half") ~> (client = "ended" \/ link = "gone")

\* Whatever way the client goes, no thread of its stream outlives it for ever:
\* not the handler in outbound.get(), not the runner in fut.result(), not the
\* reader.
LostClientFreesThreads == (link = "gone") ~> ThreadsEnded

\* A client that stays and answers, badly, late or twice even, sees the stream
\* end, whatever becomes of its run; and it hears how the run ended, unless the
\* run was lost to one of those faults.
StayingClientHears == Diligence =>
  (runner # "off" \/ broken)
    ~> ((client = "ended" /\ (heard # "nothing" \/ broken)) \/ link = "gone")

===============================================================================
