-------------------------------- MODULE TsClient --------------------------------
(***************************************************************************)
(* The TypeScript SDK's optimize() and optimizeOmni()                      *)
(* (sdk/typescript/src/client.ts) at the other end of RunStream.  All of   *)
(* it runs in the event loop: an event's listener runs to its end, a       *)
(* callback of the user that is awaited goes on in between.  call.write    *)
(* and call.end hand over to grpc-js, which sends in order and later.      *)
(***************************************************************************)
EXTENDS RunStream

VARIABLES
  promise,   \* the promise optimize() returned
  running,   \* requests whose evaluate or makeReflectiveDataset is awaited
  written,   \* messages passed to call.write and not sent yet
  ended      \* call.end() was called

tsVars == <<promise, running, written, ended>>
allVars == <<vars, tsVars>>

TsTypeOK ==
  /\ TypeOK
  /\ promise \in {"pending", "resolved", "rejected"}
  /\ running \in SUBSET Requests
  /\ written \in Seq({Start} \cup Answers)
  /\ ended \in BOOLEAN

\* The start request is written before any event is handled.
TsInit ==
  /\ Init
  /\ promise = "pending"
  /\ running = {}
  /\ written = <<Start>>
  /\ ended = FALSE

\* A faulty variant, like each operator below whose comment calls it one: the
\* code does not do this, and the properties must notice if it did.  The
\* client's half stays open.
SettleKeepsOpen(result) ==
  /\ promise' = IF promise = "pending" THEN result ELSE promise
  /\ UNCHANGED ended

\* settle: the first outcome counts, and ends the client's half.
Settle(result) ==
  IF promise = "pending"
  THEN promise' = result /\ ended' = TRUE
  ELSE UNCHANGED <<promise, ended>>

-------------------------------------------------------------------------------
(* Events of the call *)

\* Faulty variant: the answer carries no request id.
AnswerWithoutId(r, p) == [id |-> None, payload |-> p]

Answer(r, p) == [id |-> r, payload |-> p]

\* Faulty variant: the callback is not awaited.
OnRequestWithoutAwait ==
  /\ Receive
  /\ Head(downlink) \in Requests
  /\ running' = running \cup {Head(downlink)}
  /\ written' = Append(written, Answer(Head(downlink), "good"))
  /\ UNCHANGED <<promise, ended>>

\* "data" with a request: the user's callback is started, settled or not.
OnRequest ==
  /\ Receive
  /\ Head(downlink) \in Requests
  /\ running' = running \cup {Head(downlink)}
  /\ UNCHANGED <<promise, written, ended>>

\* "data" with a progress update: onProgress is not there, returns, or throws.
OnProgress ==
  /\ Receive
  /\ Head(downlink) = Progress
  /\ UNCHANGED <<promise, ended>> \/ Settle("rejected")
  /\ UNCHANGED <<running, written>>

OnComplete ==
  /\ Receive
  /\ Head(downlink) = Complete
  /\ Settle("resolved")
  /\ UNCHANGED <<running, written>>

OnOptimizationError ==
  /\ Receive
  /\ Head(downlink) = Error
  /\ Settle("rejected")
  /\ UNCHANGED <<running, written>>

\* Faulty variant: "end" has no listener.
OnEndIgnored == SeeEnd /\ UNCHANGED tsVars

\* "end", or "error" with the status of a refused stream.
OnEnd ==
  /\ SeeEnd
  /\ Settle("rejected")
  /\ UNCHANGED <<running, written>>

\* "error" of a connection that is lost.
OnError ==
  /\ link = "gone"
  /\ promise = "pending"
  /\ Settle("rejected")
  /\ UNCHANGED <<vars, running, written>>

-------------------------------------------------------------------------------
(* The awaited callbacks *)

\* The callback resolves and the answer is written; after call.end() the write
\* fails on its own, in an "error" event that settles nothing any more.
CallbackResolves(r) ==
  /\ r \in running
  /\ running' = running \ {r}
  /\ IF ended
     THEN UNCHANGED written
     ELSE \E p \in Payloads : written' = Append(written, Answer(r, p))
  /\ UNCHANGED <<vars, promise, ended>>

\* It rejects, or its result cannot be written.
CallbackRejects(r) ==
  /\ r \in running
  /\ running' = running \ {r}
  /\ Settle("rejected")
  /\ UNCHANGED <<vars, written>>

-------------------------------------------------------------------------------
(* grpc-js and the network *)

SendWritten ==
  /\ written # <<>>
  /\ Send(Head(written))
  /\ written' = Tail(written)
  /\ UNCHANGED <<promise, running, ended>>

SendEnd ==
  /\ ended
  /\ written = <<>>
  /\ HalfClose
  /\ UNCHANGED tsVars

Disconnect ==
  /\ Leave
  /\ UNCHANGED tsVars

-------------------------------------------------------------------------------
Callback(r) == CallbackResolves(r) \/ CallbackRejects(r)

Event == OnRequest \/ OnProgress \/ OnComplete \/ OnOptimizationError \/ OnEnd

ServerStep == Handler \/ Reader \/ Runner \/ \E r \in Requests : FailCall(r)

TsOver ==
  /\ Over
  /\ promise # "pending"
  /\ UNCHANGED tsVars

TsNext ==
  \/ Event \/ OnError
  \/ \E r \in Requests : Callback(r)
  \/ SendWritten \/ SendEnd \/ Disconnect
  \/ ServerStep /\ UNCHANGED tsVars
  \/ TsOver

TsSafetySpec == TsInit /\ [][TsNext]_allVars

\* The server's threads, as in RunStream, the event loop and grpc-js run on.
ServerFairness ==
  /\ WF_allVars(Handler /\ UNCHANGED tsVars)
  /\ WF_allVars(Reader /\ UNCHANGED tsVars)
  /\ WF_allVars((CallReturns \/ CallRaises \/ Report) /\ UNCHANGED tsVars)
  /\ \A r \in Requests : WF_allVars(FailCall(r) /\ UNCHANGED tsVars)

TsFairness == WF_allVars(Event) /\ WF_allVars(OnError) /\ WF_allVars(SendWritten \/ SendEnd)

TsSpec == TsSafetySpec /\ ServerFairness /\ TsFairness

\* The user's callbacks settle, and the optimizer has a budget.
TsDiligence ==
  /\ \A r \in Requests : WF_allVars(Callback(r))
  /\ WF_allVars(OptimizerEnds /\ UNCHANGED tsVars)

-------------------------------------------------------------------------------
(* Properties *)

\* The SDK's client does nothing that RunStream's does not, so what is shown
\* there of the server holds with it.
IsRunStreamClient == SafetySpec

\* optimize() resolves only with the server's completion, when every request
\* was answered and no callback of the user is still at work.
ResolvedIsQuiet ==
  promise = "resolved" =>
    /\ heard = Complete
    /\ running = {}
    /\ \A r \in asked : state[r] = "answered"

\* When optimize() rejects, for whatever reason, the run on the server ends.
RejectedEndsRun == (promise = "rejected") ~> ThreadsEnded

\* optimize() settles, if the user's callbacks do.
PromiseSettles == TsDiligence => <>(promise # "pending")

===============================================================================
