------------------------------ MODULE TsClientProofs ------------------------------
(***************************************************************************)
(* Proofs about TsClient: the TypeScript SDK is one of RunStream's         *)
(* clients, and resolves only when all of its work is done.  What it wrote *)
(* and grpc-js has not sent yet starts with the start request, while       *)
(* nothing was sent, and is answers to requests it has received otherwise. *)
(***************************************************************************)
EXTENDS TsClient, RunStreamProofs

\* Nothing has been sent, or never will be.
Fresh == link = "gone" \/ (link = "open" /\ handler = "first" /\ uplink = <<>>)

SentInv ==
  /\ written \in Seq({Start} \cup Answers)
  /\ running \subseteq asked
  /\ \A i \in 1..Len(written) :
       IF written[i] = Start THEN i = 1 /\ Fresh ELSE written[i].id \in asked

LEMMA StartIsNoAnswer == Start \notin Answers /\ ~IsAnswer(Start)
BY NoneAssumption DEF Start, Answers, IsAnswer

LEMMA InitSentInv == TsInit => SentInv
<1> SUFFICES ASSUME TsInit PROVE SentInv
  OBVIOUS
<1>1. written = <<Start>> /\ running = {} /\ Fresh
  BY DEF TsInit, Init, Fresh
<1> QED BY <1>1 DEF SentInv

\* The start request stays unsent, or ahead of everything else, in all steps
\* but its own sending.
LEMMA StaysFresh ==
  ASSUME Fresh, TsNext, ~SendWritten, ~SendEnd
  PROVE  Fresh'
<1> USE DEF Fresh, serverVars, wireVars
<1>1. CASE Receive
  BY <1>1 DEF Receive
<1>2. CASE SeeEnd
  BY <1>2 DEF SeeEnd, Listening
<1>3. CASE Leave
  BY <1>3 DEF Leave
<1>4. CASE Handler
  BY <1>4 DEF Handler, StartRun, StartFails, RefuseRun, Yield, HandlerReturns
<1>5. CASE Reader \/ \E r \in Requests : FailCall(r)
  BY <1>5 DEF Reader, ReadMessage, ReaderEnds, ReaderCancels, FailCall
<1>6. CASE Runner
  BY <1>6
  DEF Runner, Report, CallClient, CallReturns, CallRaises, EmitProgress, OptimizerEnds,
      OptimizerExits, PutComplete, CompleteFails, PutError, PutEnd, Put, RunnerCancels
<1>7. CASE UNCHANGED vars
  BY <1>7 DEF vars
<1> QED
  BY <1>1, <1>2, <1>3, <1>4, <1>5, <1>6, <1>7
  DEF TsNext, Event, OnRequest, OnProgress, OnComplete, OnOptimizationError, OnEnd,
      OnError, Callback, CallbackResolves, CallbackRejects, Disconnect, ServerStep,
      TsOver, Over

\* Only the listener of a request adds to asked.
LEMMA AskedGrows ==
  ASSUME TsNext
  PROVE  /\ asked \subseteq asked'
         /\ running' \subseteq running \cup (asked' \ asked) \/ OnRequest
<1> USE DEF clientVars, tsVars
<1>1. asked \subseteq asked'
  BY DEF TsNext, Event, OnRequest, OnProgress, OnComplete, OnOptimizationError, OnEnd,
         OnError, Callback, CallbackResolves, CallbackRejects, Disconnect, SendWritten,
         SendEnd, Send, HalfClose, Leave, Receive, SeeEnd, ServerStep, Handler,
         StartRun, StartFails, RefuseRun, Yield, HandlerReturns, Reader, ReadMessage,
         ReaderEnds, ReaderCancels, FailCall, Runner, Report, CallClient, CallReturns,
         CallRaises, EmitProgress, OptimizerEnds, OptimizerExits, PutComplete,
         CompleteFails, PutError, PutEnd, Put, RunnerCancels, TsOver, Over, vars
<1>2. running' \subseteq running \/ OnRequest
  BY DEF TsNext, Event, OnProgress, OnComplete, OnOptimizationError, OnEnd, OnError,
         Callback, CallbackResolves, CallbackRejects, Disconnect, SendWritten, SendEnd,
         TsOver
<1> QED BY <1>1, <1>2

LEMMA NextSentInv == SentInv /\ [TsNext]_allVars => SentInv'
<1> SUFFICES ASSUME SentInv, [TsNext]_allVars PROVE SentInv'
  OBVIOUS
<1>0. CASE UNCHANGED allVars
  BY <1>0 DEF allVars, vars, tsVars, serverVars, wireVars, clientVars, SentInv, Fresh
<1>1. CASE TsNext
  <2>1. /\ written \in Seq({Start} \cup Answers) /\ Len(written) \in Nat
        /\ running \subseteq asked /\ asked \subseteq asked'
        /\ \A i \in 1..Len(written) :
             IF written[i] = Start THEN i = 1 /\ Fresh ELSE written[i].id \in asked
    BY <1>1, AskedGrows, LenProperties DEF SentInv
  <2>2. running' \subseteq asked'
    <3>1. CASE OnRequest
      BY <2>1, <3>1 DEF OnRequest, Receive
    <3>2. CASE ~OnRequest
      BY <1>1, <2>1, <3>2, AskedGrows
    <3> QED BY <3>1, <3>2
  <2>3. CASE SendWritten
    <3>1. /\ written' = Tail(written) /\ written' \in Seq({Start} \cup Answers)
          /\ Len(written') = Len(written) - 1 /\ Len(written) # 0
          /\ \A i \in 1..(Len(written) - 1) : written'[i] = written[i + 1]
      BY <2>1, <2>3, HeadTailProperties, EmptySeq DEF SendWritten
    <3>2. \A i \in 1..(Len(written) - 1) : i + 1 \in 1..Len(written) /\ i + 1 # 1
      BY <2>1
    <3> QED BY <2>1, <2>2, <3>1, <3>2 DEF SentInv
  <2>4. CASE SendEnd
    BY <2>1, <2>2, <2>4, EmptySeq DEF SendEnd, tsVars, SentInv
  <2>5. CASE ~SendWritten /\ ~SendEnd /\ UNCHANGED written
    <3>1. Fresh => Fresh'
      BY <1>1, <2>5, StaysFresh
    <3> QED BY <2>1, <2>2, <2>5, <3>1 DEF SentInv
  <2>6. ASSUME NEW r \in Requests, CallbackResolves(r), ~UNCHANGED written,
               ~SendWritten, ~SendEnd
        PROVE  SentInv'
    <3>1. PICK p \in Payloads : written' = Append(written, Answer(r, p))
      BY <2>6 DEF CallbackResolves
    <3> DEFINE a == Answer(r, p)
    <3>2. a \in Answers /\ a # Start /\ a.id = r /\ r \in asked
      BY <2>1, <2>6, StartIsNoAnswer DEF Answer, Answers, CallbackResolves
    <3> HIDE DEF a
    <3>3. /\ written' \in Seq({Start} \cup Answers) /\ Len(written') = Len(written) + 1
          /\ \A i \in 1..Len(written) : written'[i] = written[i]
          /\ written'[Len(written) + 1] = a
      BY <2>1, <3>1, <3>2, AppendProperties DEF a
    <3>4. \A i \in 1..(Len(written) + 1) : i \in 1..Len(written) \/ i = Len(written) + 1
      BY <2>1
    <3>5. Fresh => Fresh'
      BY <1>1, <2>6, StaysFresh
    <3> QED BY <2>1, <2>2, <3>2, <3>3, <3>4, <3>5 DEF SentInv
  <2> QED
    BY <1>1, <2>3, <2>4, <2>5, <2>6
    DEF TsNext, Event, OnRequest, OnProgress, OnComplete, OnOptimizationError, OnEnd,
        OnError, Callback, CallbackRejects, Disconnect, TsOver, tsVars
<1> QED BY <1>0, <1>1

\* What grpc-js sends is a start request on a stream that has none, or an
\* answer to a request.
LEMMA SendIsClientStep ==
  ASSUME SentInv, SendWritten
  PROVE  ClientStep
<1> DEFINE m == Head(written)
<1>1. /\ m \in {Start} \cup Answers /\ Send(m) /\ link = "open"
      /\ IF m = Start THEN Fresh ELSE m.id \in asked
  <2>1. Len(written) \in Nat \ {0} /\ m = written[1] /\ m \in {Start} \cup Answers
    BY HeadTailProperties, EmptySeq, LenProperties DEF SendWritten, SentInv
  <2> QED BY <2>1 DEF SentInv, SendWritten, Send
<1> HIDE DEF m
<1>2. CASE m = Start
  BY <1>1, <1>2 DEF Fresh, SendFirst, ClientStep
<1>3. CASE m # Start
  <2>1. PICK r \in Requests, p \in Payloads : m = [id |-> r, payload |-> p]
    BY <1>1, <1>3 DEF Answers
  <2>2. SendAnswer(r, p)
    BY <1>1, <1>3, <2>1 DEF SendAnswer
  <2> QED BY <2>2 DEF ClientStep
<1> QED BY <1>2, <1>3

LEMMA StepIsStreamStep == SentInv /\ [TsNext]_allVars => [Next]_vars
<1> SUFFICES ASSUME SentInv, TsNext PROVE [Next]_vars
  BY DEF allVars
<1>1. CASE SendWritten
  BY <1>1, SendIsClientStep DEF Next
<1>2. CASE Event \/ SendEnd \/ Disconnect
  BY <1>2
  DEF Event, OnRequest, OnProgress, OnComplete, OnOptimizationError, OnEnd, SendEnd,
      Disconnect, Next, ClientStep
<1>3. CASE OnError \/ \E r \in Requests : Callback(r)
  BY <1>3 DEF OnError, Callback, CallbackResolves, CallbackRejects
<1>4. CASE ServerStep \/ TsOver
  BY <1>4 DEF ServerStep, TsOver, Next
<1> QED BY <1>1, <1>2, <1>3, <1>4 DEF TsNext

\* Whatever the user's callbacks do, the TypeScript client is one of the
\* clients RunStream allows: all that holds of the server there holds with it.
THEOREM ClientIsStreamClient == TsSafetySpec => IsRunStreamClient
<1>1. TsInit => Init
  BY DEF TsInit
<1> QED
  BY InitSentInv, NextSentInv, StepIsStreamStep, <1>1, PTL
  DEF TsSafetySpec, IsRunStreamClient, SafetySpec

-------------------------------------------------------------------------------
(* A resolved promise *)

\* Nowhere is there an answer to r.
Unanswered(r) ==
  /\ state[r] # "answered"
  /\ \A m \in ToSet(written) \cup ToSet(uplink) : m.id # r

\* A request has an answer only once its callback is done, and promise and
\* terminal message go together.
QuietInv ==
  /\ \A r \in Requests : (r \notin asked \/ r \in running) => Unanswered(r)
  /\ promise = "resolved" => heard = Complete

TsInv == SentInv /\ StreamInv /\ AnsweredInv /\ QuietInv

LEMMA InitTsInv == TsInit => TsInv
<1> SUFFICES ASSUME TsInit PROVE TsInv
  OBVIOUS
<1>1. Init /\ written = <<Start>> /\ running = {} /\ promise = "pending" /\ uplink = <<>>
  BY DEF TsInit, Init
<1>2. \A m \in ToSet(written) \cup ToSet(uplink) : m = Start
  BY <1>1 DEF ToSet
<1>3. \A r \in Requests : state[r] = "unused" /\ r # Start.id
  BY <1>1, NoneAssumption DEF Init, Calls!Init, Start
<1>4. QuietInv
  BY <1>1, <1>2, <1>3 DEF QuietInv, Unanswered
<1> QED BY <1>1, <1>4, InitSentInv, InitStreamInv, InitAnsweredInv DEF TsInv

\* An answer comes from the callback, then from what it wrote, then from what
\* the server has not read yet.
LEMMA AnswersFollowCallback ==
  ASSUME TsInv, TsNext, NEW r \in Requests, Unanswered(r), ~CallbackResolves(r)
  PROVE  Unanswered(r)'
<1> USE DEF serverVars, wireVars, clientVars, callVars, tsVars, Unanswered
<1>1. /\ written \in Seq({Start} \cup Answers)
      /\ uplink \in Seq({Start, Other} \cup Answers)
      /\ state \in [Requests -> Calls!CallStates]
  BY DEF TsInv, SentInv, StreamInv, TypeOK, Calls!TypeOK
<1>2. CASE UNCHANGED <<written, uplink, state>>
  BY <1>2
<1>3. ASSUME NEW q \in Requests, CallbackResolves(q), ~UNCHANGED written PROVE Unanswered(r)'
  <2>1. PICK p \in Payloads : written' = Append(written, Answer(q, p))
    BY <1>3 DEF CallbackResolves
  <2>2. Answer(q, p) \in {Start} \cup Answers /\ Answer(q, p).id = q /\ q # r
    BY <1>3 DEF Answer, Answers
  <2>3. ToSet(written') \subseteq ToSet(written) \cup {Answer(q, p)}
    BY <1>1, <2>1, <2>2, ElementsOfQueue
  <2>4. UNCHANGED <<uplink, state>>
    BY <1>3 DEF CallbackResolves, vars
  <2> QED BY <2>2, <2>3, <2>4
<1>4. CASE SendWritten
  <2>1. /\ written # <<>> /\ written' = Tail(written)
        /\ uplink' = Append(uplink, Head(written)) /\ UNCHANGED state
    BY <1>4 DEF SendWritten, Send
  <2>2. /\ Head(written) \in ToSet(written) /\ ToSet(written') \subseteq ToSet(written)
        /\ Head(written) \in {Start, Other} \cup Answers
    BY <1>1, <2>1, ElementsOfQueue, HeadTailProperties
  <2>3. ToSet(uplink') \subseteq ToSet(uplink) \cup {Head(written)}
    BY <1>1, <2>1, <2>2, ElementsOfQueue
  <2> QED BY <2>1, <2>2, <2>3
<1>5. CASE UNCHANGED <<written, state>> /\ uplink' = <<>>
  <2>1. ToSet(uplink') = {}
    BY <1>5 DEF ToSet
  <2> QED BY <1>5, <2>1
<1>6. CASE UNCHANGED <<written, state>> /\ uplink # <<>> /\ uplink' = Tail(uplink)
  <2>1. ToSet(uplink') \subseteq ToSet(uplink)
    BY <1>1, <1>6, ElementsOfQueue
  <2> QED BY <1>6, <2>1
<1>7. CASE ReadMessage /\ UNCHANGED tsVars
  <2>1. /\ uplink # <<>> /\ uplink' = Tail(uplink)
        /\ UNCHANGED state \/ state' = [state EXCEPT ![Head(uplink).id] = "answered"]
    BY <1>7 DEF ReadMessage, Deliver, Calls!Answer
  <2>2. Head(uplink) \in ToSet(uplink) /\ ToSet(uplink') \subseteq ToSet(uplink)
    BY <1>1, <2>1, ElementsOfQueue
  <2>3. state'[r] # "answered"
    BY <1>1, <2>1, <2>2
  <2> QED BY <1>7, <2>2, <2>3
<1>8. ASSUME NEW q \in Requests, CallClient(q) \/ FailCall(q), UNCHANGED tsVars
      PROVE  Unanswered(r)'
  <2>1. UNCHANGED uplink /\ state'[r] # "answered"
    BY <1>1, <1>8 DEF CallClient, Calls!Open, FailCall, Calls!Fail
  <2> QED BY <1>8, <2>1
<1>9. CASE (ReaderEnds \/ ReaderCancels \/ RunnerCancels) /\ UNCHANGED tsVars
  BY <1>2, <1>9 DEF ReaderEnds, ReaderCancels, RunnerCancels, CancelAdapter, Calls!Close
<1>10. CASE Event
  <2>1. CASE Receive
    BY <1>2, <1>10, <2>1
    DEF Receive, Event, OnRequest, OnProgress, OnComplete, OnOptimizationError, OnEnd
  <2>2. CASE OnEnd
    BY <1>5, <2>2 DEF OnEnd, SeeEnd
  <2> QED BY <1>10, <2>1, <2>2 DEF Event, OnRequest, OnProgress, OnComplete, OnOptimizationError
<1>11. CASE Disconnect
  BY <1>5, <1>11 DEF Disconnect, Leave
<1>12. CASE Handler /\ UNCHANGED tsVars
  BY <1>2, <1>5, <1>6, <1>12 DEF Handler, StartRun, StartFails, RefuseRun, Yield,
                                 HandlerReturns
<1>13. CASE OnError \/ SendEnd \/ TsOver \/ \E q \in Requests : CallbackRejects(q)
  BY <1>2, <1>13 DEF OnError, SendEnd, HalfClose, TsOver, Over, CallbackRejects, vars
<1>14. ASSUME NEW q \in Requests, CallbackResolves(q), UNCHANGED written PROVE Unanswered(r)'
  BY <1>2, <1>14 DEF CallbackResolves, vars
<1>15. CASE (CallReturns \/ CallRaises \/ EmitProgress \/ OptimizerEnds \/ OptimizerExits
              \/ PutComplete \/ CompleteFails \/ PutError \/ PutEnd) /\ UNCHANGED tsVars
  BY <1>2, <1>15
  DEF CallReturns, CallRaises, EmitProgress, OptimizerEnds, OptimizerExits, PutComplete,
      CompleteFails, PutError, PutEnd, Put
<1> QED
  BY <1>3, <1>4, <1>7, <1>8, <1>9, <1>10, <1>11, <1>12, <1>13, <1>14, <1>15
  DEF TsNext, Callback, ServerStep, Reader, Runner, Report

LEMMA NextQuietInv ==
  ASSUME TsInv, TsNext
  PROVE  QuietInv'
<1> USE DEF clientVars, tsVars
<1>1. ASSUME NEW r \in Requests, r \notin asked' \/ r \in running' PROVE Unanswered(r)'
  <2>1. r \notin asked \/ r \in running
    <3>1. CASE OnRequest
      <4>1. running' = running \cup {Head(downlink)} /\ Head(downlink) \notin asked
            /\ asked \subseteq asked'
        BY <3>1, ReceivedIsNew, AskedGrows DEF OnRequest, TsInv
      <4> QED BY <1>1, <4>1
    <3>2. CASE ~OnRequest
      BY <1>1, <3>2, AskedGrows DEF TsInv, SentInv
    <3> QED BY <3>1, <3>2
  <2>2. ~CallbackResolves(r)
    BY <1>1, AskedGrows DEF CallbackResolves, TsInv, SentInv, vars
  <2> QED BY <2>1, <2>2, AnswersFollowCallback DEF TsInv, QuietInv
<1>2. ASSUME promise' = "resolved" PROVE heard' = Complete
  <2>1. CASE OnComplete
    <3>1. heard = "nothing" /\ heard' = Complete
      BY <2>1, ReceivedIsNew DEF OnComplete, Receive, TsInv, Terminal
    <3> QED BY <3>1
  <2>2. CASE ~OnComplete
    <3>1. promise = "resolved"
      BY <1>2, <2>2
      DEF TsNext, Event, OnRequest, OnProgress, OnOptimizationError, OnEnd, OnError,
          Callback, CallbackResolves, CallbackRejects, SendWritten, SendEnd, Disconnect,
          TsOver, Settle
    <3>2. heard = Complete /\ Complete # "nothing"
      BY <3>1 DEF TsInv, QuietInv, Complete
    <3>3. ~Receive
      BY <3>2, ReceivedIsNew DEF TsInv
    <3>4. UNCHANGED heard
      BY <3>3
      DEF TsNext, Event, OnRequest, OnProgress, OnComplete, OnOptimizationError, OnEnd,
          OnError, Callback, CallbackResolves, CallbackRejects, Disconnect, SendWritten,
          SendEnd, Send, HalfClose, Leave, SeeEnd, ServerStep, Handler, StartRun,
          StartFails, RefuseRun, Yield, HandlerReturns, Reader, ReadMessage, ReaderEnds,
          ReaderCancels, FailCall, Runner, Report, CallClient, CallReturns, CallRaises,
          EmitProgress, OptimizerEnds, OptimizerExits, PutComplete, CompleteFails,
          PutError, PutEnd, Put, RunnerCancels, TsOver, Over, vars
    <3> QED BY <3>2, <3>4
  <2> QED BY <2>1, <2>2
<1> QED BY <1>1, <1>2 DEF QuietInv

LEMMA NextTsInv == TsInv /\ [TsNext]_allVars => TsInv'
<1> SUFFICES ASSUME TsInv, [TsNext]_allVars PROVE TsInv'
  OBVIOUS
<1>1. SentInv' /\ StreamInv' /\ AnsweredInv'
  BY NextSentInv, StepIsStreamStep, NextStreamInv, NextAnsweredInv DEF TsInv
<1>2. CASE UNCHANGED allVars
  BY <1>1, <1>2
  DEF TsInv, QuietInv, Unanswered, allVars, vars, tsVars, wireVars, clientVars, callVars
<1> QED BY <1>1, <1>2, NextQuietInv DEF TsInv

\* optimize() resolves only with the server's completion, when every request
\* was answered and no callback of the user is still at work, for any number
\* of requests.
THEOREM ResolvesQuietly == TsSafetySpec => []ResolvedIsQuiet
<1>1. TsInv => ResolvedIsQuiet
  <2> SUFFICES ASSUME TsInv, promise = "resolved"
               PROVE  /\ heard = Complete
                      /\ running = {}
                      /\ \A r \in asked : state[r] = "answered"
    BY DEF ResolvedIsQuiet
  <2>1. heard = Complete
    BY DEF TsInv, QuietInv
  <2>2. \A r \in Requests : Answered(r)
    BY <2>1 DEF TsInv, AnsweredInv, Told, Terminal
  <2>3. \A r \in Requests : r \in asked => state[r] # "unused"
    BY DEF TsInv, StreamInv, LineInv
  <2>4. asked \subseteq Requests /\ running \subseteq asked
    BY DEF TsInv, StreamInv, TypeOK, SentInv
  <2>5. \A r \in asked : state[r] = "answered"
    BY <2>2, <2>3, <2>4 DEF Answered
  <2>6. running = {}
    BY <2>4, <2>5 DEF TsInv, QuietInv, Unanswered
  <2> QED BY <2>1, <2>5, <2>6
<1> QED BY InitTsInv, NextTsInv, <1>1, PTL DEF TsSafetySpec

===============================================================================
