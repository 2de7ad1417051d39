----------------------------- MODULE RemoteAdapter -----------------------------
(***************************************************************************)
(* gepa_rpc/adapter.py, the future table: RemoteAdapter, and the same code *)
(* again in OmniRemoteEvaluator.  An optimizer thread that needs the       *)
(* client registers a concurrent.futures.Future under a fresh request id,  *)
(* queues the request for the stream and blocks in fut.result().  The      *)
(* reader thread pops the future a response names and sets it; when the    *)
(* client's stream ends it cancels the adapter, and so does the runner     *)
(* thread once the optimizer has returned.  Each action is one critical    *)
(* section of self._lock, or one step taken outside it: `fut.done()` and   *)
(* `fut.set_...` are separate steps of the thread.                         *)
(***************************************************************************)
EXTENDS Naturals

CONSTANTS
  Callers,      \* optimizer threads that call the adapter
  MainCaller,   \* the one that is the runner thread itself
  Requests,     \* request ids; bounds the number of calls
  None          \* no request

ASSUME CallersAssumption == MainCaller \in Callers
ASSUME NoneAssumption == None \notin Requests

Reader == "reader"
Runner == "runner"
Settlers == {Reader, Runner}   \* the threads that settle futures

\* evaluate(capture_traces=False), evaluate(capture_traces=True) and
\* make_reflective_dataset.
Ops == {"evaluate", "traced_evaluate", "reflect"}

\* What a response carries: one output and one score per example, those and
\* one trajectory per example, a list of another length, or the message of
\* the other kind.
Payloads == {"scores", "traces", "mismatched", "reflective"}
Nothing == "nothing"

VARIABLES
  pending,      \* keys of self._pending
  cancelled,    \* self._cancelled
  future,       \* state of the Future made for each request id
  payload,      \* the result a future was set to
  outbound,     \* requests that were put on the stream
  callerPc, call, op, outcome,         \* per optimizer thread
  settlerPc, hand, target, message     \* per settling thread: the futures it
                                       \* took out of the table, the one it
                                       \* is about to set, and the reader's
                                       \* current response

tableVars == <<pending, cancelled, future, payload>>
callerVars == <<outbound, callerPc, call, op, outcome>>
settlerVars == <<settlerPc, hand, target, message>>
vars == <<tableVars, callerVars, settlerVars>>

NoMessage == [id |-> None, payload |-> Nothing]
Messages == [id : Requests, payload : Payloads]

TypeOK ==
  /\ pending \in SUBSET Requests
  /\ cancelled \in BOOLEAN
  /\ future \in [Requests -> {"none", "unset", "result", "exception"}]
  /\ payload \in [Requests -> Payloads \cup {Nothing}]
  /\ outbound \in SUBSET Requests
  /\ callerPc \in [Callers -> {"idle", "put", "await"}]
  /\ call \in [Callers -> Requests \cup {None}]
  /\ op \in [Callers -> Ops]
  /\ outcome \in [Callers -> {"none", "returned", "raised"}]
  /\ settlerPc \in [Settlers -> {"receive", "pop", "check", "set", "optimize",
                                 "cancel", "loop", "fail", "done", "died"}]
  /\ hand \in [Settlers -> SUBSET Requests]
  /\ target \in [Settlers -> Requests \cup {None}]
  /\ message \in Messages \cup {NoMessage}

Init ==
  /\ pending = {}
  /\ cancelled = FALSE
  /\ future = [r \in Requests |-> "none"]
  /\ payload = [r \in Requests |-> Nothing]
  /\ outbound = {}
  /\ callerPc = [c \in Callers |-> "idle"]
  /\ call = [c \in Callers |-> None]
  /\ op = [c \in Callers |-> "evaluate"]
  /\ outcome = [c \in Callers |-> "none"]
  /\ settlerPc = [t \in Settlers |-> IF t = Reader THEN "receive" ELSE "optimize"]
  /\ hand = [t \in Settlers |-> {}]
  /\ target = [t \in Settlers |-> None]
  /\ message = NoMessage

-------------------------------------------------------------------------------
(* Optimizer threads *)

Done(r) == future[r] \in {"result", "exception"}

\* The runner thread calls only from inside the optimizer; a helper thread of
\* an engine may still be calling after the optimizer has returned.
MayCall(c) ==
  /\ callerPc[c] = "idle"
  /\ c = MainCaller => settlerPc[Runner] = "optimize"

Raise(c) == outcome' = [outcome EXCEPT ![c] = "raised"]

\* _new_pending does not check self._cancelled (a faulty variant, like each
\* operator below whose comment calls it one: the code does not do this, and
\* the properties must notice if it did).
AcceptingAlways == TRUE

Accepting == ~cancelled

\* _new_pending: a fresh id and future are entered in the table.
NewPending(c, o) ==
  /\ MayCall(c)
  /\ Accepting
  /\ \E r \in Requests :
       /\ future[r] = "none"
       /\ future' = [future EXCEPT ![r] = "unset"]
       /\ pending' = pending \cup {r}
       /\ call' = [call EXCEPT ![c] = r]
  /\ callerPc' = [callerPc EXCEPT ![c] = "put"]
  /\ op' = [op EXCEPT ![c] = o]
  /\ outcome' = [outcome EXCEPT ![c] = "none"]
  /\ UNCHANGED <<cancelled, payload, outbound, settlerVars>>

\* _new_pending after cancel: the cancellation is raised in the caller.
RefuseCall(c) ==
  /\ MayCall(c)
  /\ ~Accepting
  /\ Raise(c)
  /\ UNCHANGED <<tableVars, outbound, callerPc, call, op, settlerVars>>

\* make_reflective_dataset given an evaluation without trajectories.
ReflectWithoutTraces(c) ==
  /\ MayCall(c)
  /\ Raise(c)
  /\ UNCHANGED <<tableVars, outbound, callerPc, call, op, settlerVars>>

PutRequest(c) ==
  /\ callerPc[c] = "put"
  /\ outbound' = outbound \cup {call[c]}
  /\ callerPc' = [callerPc EXCEPT ![c] = "await"]
  /\ UNCHANGED <<tableVars, call, op, outcome, settlerVars>>

\* Building the protobuf request raises (a value protobuf does not accept):
\* the call is over, its future stays in the table with nobody waiting.
BuildRequestFails(c) ==
  /\ callerPc[c] = "put"
  /\ callerPc' = [callerPc EXCEPT ![c] = "idle"]
  /\ Raise(c)
  /\ UNCHANGED <<tableVars, outbound, call, op, settlerVars>>

\* The length checks of evaluate, and reading the fields of the other message.
Accepts(o, p) ==
  \/ o = "evaluate" /\ p \in {"scores", "traces"}
  \/ o = "traced_evaluate" /\ p = "traces"
  \/ o = "reflect" /\ p = "reflective"

\* fut.result() returns or raises, and so does the call.
FutureResult(c) ==
  /\ callerPc[c] = "await"
  /\ Done(call[c])
  /\ callerPc' = [callerPc EXCEPT ![c] = "idle"]
  /\ outcome' = [outcome EXCEPT ![c] =
                   IF future[call[c]] = "result" /\ Accepts(op[c], payload[call[c]])
                   THEN "returned" ELSE "raised"]
  /\ UNCHANGED <<tableVars, outbound, call, op, settlerVars>>

-------------------------------------------------------------------------------
(* The reader: responses *)

\* The client knows the ids it was sent.  It may answer them in any order,
\* late, more than once, and with any payload.
ReceiveResponse(r, p) ==
  /\ settlerPc[Reader] = "receive"
  /\ r \in outbound
  /\ message' = [id |-> r, payload |-> p]
  /\ settlerPc' = [settlerPc EXCEPT ![Reader] = "pop"]
  /\ UNCHANGED <<tableVars, callerVars, hand, target>>

NextResponse ==
  /\ settlerPc' = [settlerPc EXCEPT ![Reader] = "receive"]
  /\ hand' = [hand EXCEPT ![Reader] = {}]
  /\ message' = NoMessage

\* A faulty variant: the future is looked up and left in the table.
LeftAfterPop == pending

LeftInTable == pending \ {message.id}

\* _resolve, under the lock.
PopPending ==
  /\ settlerPc[Reader] = "pop"
  /\ pending' = LeftInTable
  /\ IF message.id \in pending
     THEN /\ hand' = [hand EXCEPT ![Reader] = {message.id}]
          /\ settlerPc' = [settlerPc EXCEPT ![Reader] = "check"]
          /\ UNCHANGED message
     ELSE NextResponse
  /\ UNCHANGED <<cancelled, future, payload, callerVars, target>>

\* A faulty variant: the test is the wrong way round.
CheckNotDone ==
  /\ settlerPc[Reader] = "check"
  /\ ~Done(message.id)
  /\ NextResponse
  /\ UNCHANGED <<tableVars, callerVars, target>>

\* _resolve, after the lock: `if fut is not None and not fut.done()`.
CheckDone ==
  /\ settlerPc[Reader] = "check"
  /\ IF Done(message.id)
     THEN NextResponse /\ UNCHANGED target
     ELSE /\ settlerPc' = [settlerPc EXCEPT ![Reader] = "set"]
          /\ target' = [target EXCEPT ![Reader] = message.id]
          /\ UNCHANGED <<hand, message>>
  /\ UNCHANGED <<tableVars, callerVars>>

\* fut.set_result.  On a future that is already done it raises, and the
\* reader's except clause takes the error for the end of the stream.
SetResult ==
  LET r == target[Reader] IN
  /\ settlerPc[Reader] = "set"
  /\ IF Done(r)
     THEN /\ settlerPc' = [settlerPc EXCEPT ![Reader] = "cancel"]
          /\ UNCHANGED <<future, payload>>
     ELSE /\ settlerPc' = [settlerPc EXCEPT ![Reader] = "receive"]
          /\ future' = [future EXCEPT ![r] = "result"]
          /\ payload' = [payload EXCEPT ![r] = message.payload]
  /\ hand' = [hand EXCEPT ![Reader] = {}]
  /\ target' = [target EXCEPT ![Reader] = None]
  /\ message' = NoMessage
  /\ UNCHANGED <<pending, cancelled, callerVars>>

-------------------------------------------------------------------------------
(* cancel, by the reader when the stream ends and by the runner at the end *)

\* The client half-closes, cancels, or is gone; or the handler has finished.
StreamEnds ==
  /\ settlerPc[Reader] = "receive"
  /\ settlerPc' = [settlerPc EXCEPT ![Reader] = "cancel"]
  /\ UNCHANGED <<tableVars, callerVars, hand, target, message>>

\* The optimizer has returned or raised: the runner's finally clause.
OptimizerEnds ==
  /\ settlerPc[Runner] = "optimize"
  /\ callerPc[MainCaller] = "idle"
  /\ settlerPc' = [settlerPc EXCEPT ![Runner] = "cancel"]
  /\ UNCHANGED <<tableVars, callerVars, hand, target, message>>

\* A faulty variant: the table is not cleared.
CancelKeepsTable == pending

LeftAfterCancel == {}

\* cancel, under the lock: mark, copy the table, clear it.
CancelTable(t) ==
  /\ settlerPc[t] = "cancel"
  /\ cancelled' = TRUE
  /\ hand' = [hand EXCEPT ![t] = pending]
  /\ pending' = LeftAfterCancel
  /\ settlerPc' = [settlerPc EXCEPT ![t] = "loop"]
  /\ UNCHANGED <<future, payload, callerVars, target, message>>

\* cancel, after the lock: the next future of the copy is skipped if done.
CancelNext(t) ==
  /\ settlerPc[t] = "loop"
  /\ \E r \in hand[t] :
       IF Done(r)
       THEN /\ hand' = [hand EXCEPT ![t] = @ \ {r}]
            /\ UNCHANGED <<settlerPc, target>>
       ELSE /\ target' = [target EXCEPT ![t] = r]
            /\ settlerPc' = [settlerPc EXCEPT ![t] = "fail"]
            /\ UNCHANGED hand
  /\ UNCHANGED <<tableVars, callerVars, message>>

\* fut.set_exception.  On a future that is already done it raises out of
\* cancel, and the futures not yet reached are never failed.
SetException(t) ==
  LET r == target[t] IN
  /\ settlerPc[t] = "fail"
  /\ IF Done(r)
     THEN /\ settlerPc' = [settlerPc EXCEPT ![t] = "died"]
          /\ UNCHANGED <<future, hand>>
     ELSE /\ settlerPc' = [settlerPc EXCEPT ![t] = "loop"]
          /\ future' = [future EXCEPT ![r] = "exception"]
          /\ hand' = [hand EXCEPT ![t] = @ \ {r}]
  /\ target' = [target EXCEPT ![t] = None]
  /\ UNCHANGED <<pending, cancelled, payload, callerVars, message>>

\* A faulty variant: the loop is left after the first future.
CancelReturnsEarly(t) ==
  /\ settlerPc[t] = "loop"
  /\ settlerPc' = [settlerPc EXCEPT ![t] = "done"]
  /\ UNCHANGED <<tableVars, callerVars, hand, target, message>>

CancelReturns(t) ==
  /\ settlerPc[t] = "loop"
  /\ hand[t] = {}
  /\ settlerPc' = [settlerPc EXCEPT ![t] = "done"]
  /\ UNCHANGED <<tableVars, callerVars, hand, target, message>>

-------------------------------------------------------------------------------
\* Reader and runner have finished and no caller waits.
Finished ==
  /\ \A t \in Settlers : settlerPc[t] = "done"
  /\ \A c \in Callers : callerPc[c] = "idle"
  /\ UNCHANGED vars

CallerStep(c) == PutRequest(c) \/ BuildRequestFails(c) \/ FutureResult(c)

Cancel(t) == CancelTable(t) \/ CancelNext(t) \/ SetException(t) \/ CancelReturns(t)

SettlerStep(t) ==
  \/ t = Reader /\ (PopPending \/ CheckDone \/ SetResult)
  \/ Cancel(t)

Next ==
  \/ \E c \in Callers, o \in Ops : NewPending(c, o)
  \/ \E c \in Callers : RefuseCall(c) \/ ReflectWithoutTraces(c) \/ CallerStep(c)
  \/ \E r \in Requests, p \in Payloads : ReceiveResponse(r, p)
  \/ StreamEnds
  \/ OptimizerEnds
  \/ \E t \in Settlers : SettlerStep(t)
  \/ Finished

\* A started thread runs on; nothing says that the client answers, that its
\* stream ends or that the optimizer returns.
Fairness ==
  /\ \A c \in Callers : WF_vars(CallerStep(c))
  /\ \A t \in Settlers : WF_vars(SettlerStep(t))

SafetySpec == Init /\ [][Next]_vars
Spec == SafetySpec /\ Fairness

-------------------------------------------------------------------------------
(* Properties *)

Owners(r) == {t \in Settlers : r \in hand[t]}

\* An unsettled future is in the table or in the hands of one thread, never
\* both and never neither; a settled one is with nobody.
OneOwner ==
  \A r \in Requests :
    /\ future[r] = "unset" <=> (r \in pending \/ Owners(r) # {})
    /\ r \in pending => Owners(r) = {}
    /\ \A t, u \in Owners(r) : t = u

\* A thread that found a future unsettled finds it so when it sets it: reader
\* and canceller never set the same future (InvalidStateError), although
\* neither holds the lock between the check and the set.
SettledOnce ==
  \A t \in Settlers :
    settlerPc[t] \in {"set", "fail"} => future[target[t]] = "unset"

\* After a cancel, once no thread has a future left in hand, no call is left
\* waiting on a future nobody will set: a call that was registering while the
\* stream ended is either refused or failed, never lost.
NoOrphanedCall ==
  (cancelled /\ \A t \in Settlers : hand[t] = {}) =>
    \A c \in Callers : callerPc[c] # "idle" => Done(call[c])

CallState(f) == CASE f = "none" -> "unused"
                  [] f = "unset" -> "open"
                  [] f = "result" -> "answered"
                  [] OTHER -> "failed"

\* The futures implement the calls of RemoteCall: opened only before the
\* cancel, settled once, failed only after the cancel.
Calls == INSTANCE RemoteCall WITH
  state <- [r \in Requests |-> CallState(future[r])],
  reply <- payload,
  closed <- cancelled

ImplementsRemoteCall == Calls!Spec

\* A call blocked in fut.result() when the adapter is cancelled comes back.
CancelWakesCallers ==
  \A c \in Callers :
    (cancelled /\ callerPc[c] = "await") ~> (callerPc[c] = "idle")

\* A response being handled wakes the call it answers, whatever is cancelled
\* in the meantime, and even if the call does not wait for it yet: the client
\* can answer as soon as the request is queued, and finds the future in the
\* table then.
ResponseWakesCaller ==
  \A c \in Callers :
    (settlerPc[Reader] = "pop" /\ callerPc[c] # "idle" /\ message.id = call[c])
      ~> (callerPc[c] = "idle")

===============================================================================
