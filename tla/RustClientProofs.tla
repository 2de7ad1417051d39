----------------------------- MODULE RustClientProofs -----------------------------
(***************************************************************************)
(* Proofs about RustClient: the Rust SDK is one of RunStream's clients,    *)
(* and returns Ok only for a complete run.  Its channel starts with the    *)
(* start request, while nothing was sent, and holds answers to requests it *)
(* has received otherwise; it is empty whenever the future has an answer   *)
(* to send.                                                                *)
(***************************************************************************)
EXTENDS RustClient, RunStreamProofs

\* Nothing has been sent, or never will be.
Fresh == link = "gone" \/ (link = "open" /\ handler = "first" /\ uplink = <<>>)

SentInv ==
  /\ channel \in Seq({Start} \cup Answers)
  /\ future \in {"callback", "send"} => serving \in Requests /\ serving \in asked
  /\ \A i \in 1..Len(channel) :
       IF channel[i] = Start THEN i = 1 /\ Fresh ELSE channel[i].id \in asked

LEMMA StartIsNoAnswer == Start \notin Answers
BY NoneAssumption DEF Start, Answers

LEMMA InitSentInv == RustInit => SentInv
<1> SUFFICES ASSUME RustInit PROVE SentInv
  OBVIOUS
<1>1. channel = <<Start>> /\ future = "message" /\ Fresh
  BY DEF RustInit, Init, Fresh
<1> QED BY <1>1 DEF SentInv

\* The start request stays unsent, or ahead of everything else, in all steps
\* but its own sending.
LEMMA StaysFresh ==
  ASSUME Fresh, RustNext, ~SendFromChannel
  PROVE  Fresh'
<1> USE DEF Fresh, serverVars, wireVars
<1>1. CASE Receive
  BY <1>1 DEF Receive
<1>2. CASE SeeEnd
  BY <1>2 DEF SeeEnd, Listening
<1>3. CASE Leave
  BY <1>3 DEF Leave
<1>4. CASE Handler
  BY <1>4 DEF Handler, StartRun, StartFails, RefuseRun, Yield, HandlerReturns
<1>5. CASE Reader \/ \E r \in Requests : FailCall(r)
  BY <1>5 DEF Reader, ReadMessage, ReaderEnds, ReaderCancels, FailCall
<1>6. CASE Runner
  BY <1>6
  DEF Runner, Report, CallClient, CallReturns, CallRaises, EmitProgress, OptimizerEnds,
      OptimizerExits, PutComplete, CompleteFails, PutError, PutEnd, Put, RunnerCancels
<1>7. CASE UNCHANGED vars
  BY <1>7 DEF vars
<1> QED
  BY <1>1, <1>2, <1>3, <1>4, <1>5, <1>6, <1>7
  DEF RustNext, Message, OnRequest, OnProgress, OnComplete, OnOptimizationError, OnEnd,
      OnLost, Callback, CallbackOk, CallbackErr, SendToChannel, DropFuture, ResetStream,
      Disconnect, ServerStep, RustOver, Over

LEMMA AskedGrows ==
  ASSUME RustNext
  PROVE  asked \subseteq asked'
BY DEF RustNext, Message, OnRequest, OnProgress, OnComplete, OnOptimizationError, OnEnd,
       OnLost, Callback, CallbackOk, CallbackErr, SendToChannel, DropFuture,
       SendFromChannel, ResetStream, Disconnect, Send, Leave, Receive, SeeEnd,
       ServerStep, Handler, StartRun, StartFails, RefuseRun, Yield, HandlerReturns,
       Reader, ReadMessage, ReaderEnds, ReaderCancels, FailCall, Runner, Report,
       CallClient, CallReturns, CallRaises, EmitProgress, OptimizerEnds, OptimizerExits,
       PutComplete, CompleteFails, PutError, PutEnd, Put, RunnerCancels, RustOver, Over,
       vars, clientVars

LEMMA NextSentInv == SentInv /\ [RustNext]_allVars => SentInv'
<1> SUFFICES ASSUME SentInv, [RustNext]_allVars PROVE SentInv'
  OBVIOUS
<1>0. CASE UNCHANGED allVars
  BY <1>0 DEF allVars, vars, rustVars, serverVars, wireVars, clientVars, SentInv, Fresh
<1>1. CASE RustNext
  <2>1. /\ channel \in Seq({Start} \cup Answers) /\ Len(channel) \in Nat
        /\ asked \subseteq asked'
        /\ \A i \in 1..Len(channel) :
             IF channel[i] = Start THEN i = 1 /\ Fresh ELSE channel[i].id \in asked
    BY <1>1, AskedGrows, LenProperties DEF SentInv
  <2>2. future' \in {"callback", "send"} => serving' \in Requests /\ serving' \in asked'
    <3>1. CASE OnRequest
      BY <3>1 DEF OnRequest, Receive
    <3>2. CASE CallbackOk
      BY <2>1, <3>2 DEF CallbackOk, SentInv, vars, clientVars
    <3>3. CASE OnComplete \/ OnOptimizationError \/ OnEnd \/ OnLost \/ CallbackErr
               \/ SendToChannel \/ DropFuture
      BY <3>3 DEF OnComplete, OnOptimizationError, OnEnd, OnLost, CallbackErr,
                  SendToChannel, DropFuture, Return
    <3>4. CASE UNCHANGED <<future, serving>>
      BY <2>1, <3>4 DEF SentInv
    <3> QED
      BY <1>1, <3>1, <3>2, <3>3, <3>4
      DEF RustNext, Message, OnProgress, Callback, SendFromChannel, ResetStream,
          Disconnect, RustOver, rustVars
  <2>3. CASE SendFromChannel
    <3>1. /\ channel' = Tail(channel) /\ channel' \in Seq({Start} \cup Answers)
          /\ Len(channel') = Len(channel) - 1 /\ Len(channel) # 0
          /\ \A i \in 1..(Len(channel) - 1) : channel'[i] = channel[i + 1]
      BY <2>1, <2>3, HeadTailProperties, EmptySeq DEF SendFromChannel
    <3>2. \A i \in 1..(Len(channel) - 1) : i + 1 \in 1..Len(channel) /\ i + 1 # 1
      BY <2>1
    <3> QED BY <2>1, <2>2, <3>1, <3>2 DEF SentInv
  <2>4. CASE ResetStream
    BY <2>2, <2>4, EmptySeq DEF ResetStream, SentInv
  <2>5. CASE ~SendFromChannel /\ UNCHANGED channel
    <3>1. Fresh => Fresh'
      BY <1>1, <2>5, StaysFresh
    <3> QED BY <2>1, <2>2, <2>5, <3>1 DEF SentInv
  <2>6. CASE SendToChannel /\ ~SendFromChannel
    <3>1. PICK p \in Payloads : channel' = Append(channel, Answer(serving, p))
      BY <2>6 DEF SendToChannel
    <3> DEFINE a == Answer(serving, p)
    <3>2. a \in Answers /\ a # Start /\ a.id = serving /\ serving \in asked
      BY <2>6, StartIsNoAnswer DEF Answer, Answers, SendToChannel, SentInv
    <3> HIDE DEF a
    <3>3. /\ channel' \in Seq({Start} \cup Answers) /\ Len(channel') = Len(channel) + 1
          /\ \A i \in 1..Len(channel) : channel'[i] = channel[i]
          /\ channel'[Len(channel) + 1] = a
      BY <2>1, <3>1, <3>2, AppendProperties DEF a
    <3>4. \A i \in 1..(Len(channel) + 1) : i \in 1..Len(channel) \/ i = Len(channel) + 1
      BY <2>1
    <3>5. Fresh => Fresh'
      BY <1>1, <2>6, StaysFresh
    <3> QED BY <2>1, <2>2, <3>2, <3>3, <3>4, <3>5 DEF SentInv
  <2> QED
    BY <1>1, <2>3, <2>4, <2>5, <2>6
    DEF RustNext, Message, OnRequest, OnProgress, OnComplete, OnOptimizationError,
        OnEnd, OnLost, Callback, CallbackOk, CallbackErr, DropFuture, Disconnect,
        RustOver, rustVars
<1> QED BY <1>0, <1>1

\* What leaves the channel is a start request on a stream that has none, or an
\* answer to a request.
LEMMA SendIsClientStep ==
  ASSUME SentInv, SendFromChannel
  PROVE  ClientStep
<1> DEFINE m == Head(channel)
<1>1. /\ m \in {Start} \cup Answers /\ Send(m) /\ link = "open"
      /\ IF m = Start THEN Fresh ELSE m.id \in asked
  <2>1. Len(channel) \in Nat \ {0} /\ m = channel[1] /\ m \in {Start} \cup Answers
    BY HeadTailProperties, EmptySeq, LenProperties DEF SendFromChannel, SentInv
  <2> QED BY <2>1 DEF SentInv, SendFromChannel, Send
<1> HIDE DEF m
<1>2. CASE m = Start
  BY <1>1, <1>2 DEF Fresh, SendFirst, ClientStep
<1>3. CASE m # Start
  <2>1. PICK r \in Requests, p \in Payloads : m = [id |-> r, payload |-> p]
    BY <1>1, <1>3 DEF Answers
  <2>2. SendAnswer(r, p)
    BY <1>1, <1>3, <2>1 DEF SendAnswer
  <2> QED BY <2>2 DEF ClientStep
<1> QED BY <1>2, <1>3

LEMMA StepIsStreamStep == SentInv /\ [RustNext]_allVars => [Next]_vars
<1> SUFFICES ASSUME SentInv, RustNext PROVE [Next]_vars
  BY DEF allVars
<1>1. CASE SendFromChannel
  BY <1>1, SendIsClientStep DEF Next
<1>2. CASE Message \/ ResetStream \/ Disconnect
  BY <1>2
  DEF Message, OnRequest, OnProgress, OnComplete, OnOptimizationError, OnEnd,
      ResetStream, Disconnect, Next, ClientStep
<1>3. CASE OnLost \/ Callback \/ SendToChannel \/ DropFuture
  BY <1>3 DEF OnLost, Callback, CallbackOk, CallbackErr, SendToChannel, DropFuture
<1>4. CASE ServerStep \/ RustOver
  BY <1>4 DEF ServerStep, RustOver, Next
<1> QED BY <1>1, <1>2, <1>3, <1>4 DEF RustNext

\* Whatever the user's callbacks do, and whenever the future is dropped, the
\* Rust client is one of the clients RunStream allows.
THEOREM ClientIsStreamClient == RustSafetySpec => IsRunStreamClient
<1>1. RustInit => Init
  BY DEF RustInit
<1> QED
  BY InitSentInv, NextSentInv, StepIsStreamStep, <1>1, PTL
  DEF RustSafetySpec, IsRunStreamClient, SafetySpec

-------------------------------------------------------------------------------
(* Ok *)

\* The future returns Ok at the server's completion and reads no further.
OkInv ==
  /\ result # "none" => future = "returned"
  /\ result = "ok" => heard = Complete

RustInv == SentInv /\ StreamInv /\ AnsweredInv /\ OkInv

LEMMA NextOkInv ==
  ASSUME OkInv, RustNext
  PROVE  OkInv'
<1> USE DEF OkInv, rustVars, clientVars
<1>1. CASE Message
  BY <1>1
  DEF Message, OnRequest, OnProgress, OnComplete, OnOptimizationError, OnEnd, Return,
      Receive, Terminal
<1>2. CASE OnLost \/ Callback \/ SendToChannel \/ DropFuture
  BY <1>2 DEF OnLost, Callback, CallbackOk, CallbackErr, SendToChannel, DropFuture,
              Return, vars
<1>3. CASE UNCHANGED <<future, result, heard>>
  BY <1>3
<1>4. CASE SendFromChannel \/ ResetStream \/ Disconnect \/ RustOver
  BY <1>3, <1>4 DEF SendFromChannel, ResetStream, Disconnect, RustOver, Over, Send,
                    Leave, vars
<1>5. CASE ServerStep /\ UNCHANGED rustVars
  BY <1>3, <1>5
  DEF ServerStep, Handler, StartRun, StartFails, RefuseRun, Yield, HandlerReturns,
      Reader, ReadMessage, ReaderEnds, ReaderCancels, FailCall, Runner, Report,
      CallClient, CallReturns, CallRaises, EmitProgress, OptimizerEnds, OptimizerExits,
      PutComplete, CompleteFails, PutError, PutEnd, Put, RunnerCancels
<1> QED BY <1>1, <1>2, <1>4, <1>5 DEF RustNext

LEMMA NextRustInv == RustInv /\ [RustNext]_allVars => RustInv'
<1> SUFFICES ASSUME RustInv, [RustNext]_allVars PROVE RustInv'
  OBVIOUS
<1>1. SentInv' /\ StreamInv' /\ AnsweredInv'
  BY NextSentInv, StepIsStreamStep, NextStreamInv, NextAnsweredInv DEF RustInv
<1>2. CASE UNCHANGED allVars
  BY <1>1, <1>2 DEF RustInv, OkInv, allVars, vars, rustVars, clientVars
<1> QED BY <1>1, <1>2, NextOkInv DEF RustInv

\* optimize returns Ok only with the server's completion, when the server has
\* had the answer to each request it sent, for any number of requests and any
\* size of the channel.
THEOREM OkOnlyIfComplete == RustSafetySpec => []OkIsComplete
<1>1. RustInit => RustInv
  BY InitSentInv, InitStreamInv, InitAnsweredInv DEF RustInit, RustInv, OkInv
<1>2. RustInv => OkIsComplete
  <2> SUFFICES ASSUME RustInv, result = "ok"
               PROVE  heard = Complete /\ \A r \in asked : state[r] = "answered"
    BY DEF OkIsComplete
  <2>1. heard = Complete
    BY DEF RustInv, OkInv
  <2>2. \A r \in Requests : Answered(r)
    BY <2>1 DEF RustInv, AnsweredInv, Told, Terminal
  <2>3. \A r \in Requests : r \in asked => state[r] # "unused"
    BY DEF RustInv, StreamInv, LineInv
  <2>4. asked \subseteq Requests
    BY DEF RustInv, StreamInv, TypeOK
  <2> QED BY <2>1, <2>2, <2>3, <2>4 DEF Answered
<1> QED BY <1>1, NextRustInv, <1>2, PTL DEF RustSafetySpec

-------------------------------------------------------------------------------
(* The channel *)

\* The one call the runner waits for.
Turn(r) == awaited = {r} /\ state[r] = "open"

\* What a message says that the server has not read.
Says(m) == IF m = Start THEN handler = "first" ELSE m.id \in asked /\ Turn(m.id)

\* A request on its way, at work in the callback, or answered with the answer
\* on its way is the runner's one call, and is at one of these places only; a
\* client that is gone is not waited for.
TurnInv ==
  /\ Len(channel) + Len(uplink) <= 1
  /\ serving # None => channel = <<>> /\ uplink = <<>>
  /\ awaited # {} => runner = "optimize"
  /\ handler = "first" => reader = "off" /\ ~closed
  /\ link # "gone" =>
       /\ link = "open"
       /\ reader \in {"cancel", "done"} => handler = "done"
       /\ closed => runner # "optimize"
       /\ serving # None => serving \in asked /\ Turn(serving)
       /\ channel # <<>> => Says(channel[1])
       /\ uplink # <<>> => Says(uplink[1])
       /\ \A i \in Places : Line[i] \in Requests => Turn(Line[i])

LEMMA QueueTypes ==
  ASSUME SentInv, StreamInv
  PROVE  /\ channel \in Seq({Start} \cup Answers) /\ uplink \in Seq({Start, Other} \cup Answers)
         /\ Len(channel) \in Nat /\ (Len(channel) = 0 <=> channel = <<>>)
         /\ Len(uplink) \in Nat /\ (Len(uplink) = 0 <=> uplink = <<>>)
         /\ Len(<<>>) = 0
BY EmptySeq, LenProperties DEF SentInv, StreamInv, TypeOK

LEMMA InitTurnInv == RustInit => TurnInv
<1> SUFFICES ASSUME RustInit PROVE TurnInv
  OBVIOUS
<1>1. SentInv /\ StreamInv
  BY InitSentInv, InitStreamInv DEF RustInit
<1>2. /\ channel = <<Start>> /\ channel[1] = Start /\ Len(channel) = 1
      /\ uplink = <<>> /\ Len(uplink) = 0 /\ serving = None
      /\ handler = "first" /\ reader = "off" /\ runner = "off" /\ awaited = {}
      /\ link = "open" /\ ~closed
  BY DEF RustInit, Init, Calls!Init
<1>3. Places = {}
  <2>1. Len(Line) = 0
    BY <1>1, <1>2 DEF StreamInv, RunnerInv
  <2> QED BY <2>1 DEF Places
<1> QED BY <1>2, <1>3 DEF TurnInv, Says

\* A step that puts no request or answer anywhere, and whatever it changes of
\* the threads leaves the runner's call alone.
LeavesTurn ==
  /\ \A i \in Places' : Line'[i] \in Requests => \E j \in Places : Line[j] = Line'[i]
  /\ channel' \in {channel, <<>>} /\ uplink' \in {uplink, <<>>}
  /\ serving' \in {serving, None} /\ asked \subseteq asked'
  /\ UNCHANGED <<awaited, state>>
  /\ link' = link \/ link' = "gone"
  /\ handler' = handler \/ (handler = "drain" /\ handler' = "done")
  /\ \/ reader' = reader
     \/ reader # "off" /\ (link # "open" \/ handler = "done")
  /\ runner' = runner \/ (awaited = {} /\ runner # "off" /\ runner' # "optimize")
  /\ closed' = closed \/ (handler # "first" /\ (link = "gone" \/ runner # "optimize"))

LEMMA LeavesTurnKeeps ==
  ASSUME SentInv, StreamInv, TurnInv, LeavesTurn
  PROVE  TurnInv'
<1> USE DEF TurnInv, LeavesTurn
<1>1. Len(channel') + Len(uplink') <= 1
  BY QueueTypes
<1>2. serving' # None => channel' = <<>> /\ uplink' = <<>>
  OBVIOUS
<1>3. (awaited' # {} => runner' = "optimize")
      /\ (handler' = "first" => reader' = "off" /\ ~closed')
  BY DEF StreamInv, RunnerInv
<1>4. ASSUME link' # "gone"
      PROVE  /\ link' = "open"
             /\ reader' \in {"cancel", "done"} => handler' = "done"
             /\ closed' => runner' # "optimize"
  BY <1>4
<1>5. ASSUME link' # "gone"
      PROVE  /\ serving' # None => serving' \in asked' /\ Turn(serving)'
             /\ channel' # <<>> => Says(channel[1])'
             /\ uplink' # <<>> => Says(uplink[1])'
  BY <1>5 DEF Turn, Says
<1>6. ASSUME link' # "gone", NEW i \in Places', Line'[i] \in Requests
      PROVE  Turn(Line[i])'
  BY <1>6 DEF Turn
<1> QED BY <1>1, <1>2, <1>3, <1>4, <1>5, <1>6

\* While the runner waits for no answer, nothing of a call is with the client.
LEMMA NoCallWithClient ==
  ASSUME TurnInv, \A r : ~Turn(r), link # "gone"
  PROVE  /\ serving = None
         /\ channel # <<>> => channel[1] = Start /\ handler = "first"
         /\ uplink # <<>> => uplink[1] = Start /\ handler = "first"
         /\ \A i \in Places : Line[i] \notin Requests
BY DEF TurnInv, Says

\* A call ends: nothing of it is with the client then.
LEMMA EndKeepsTurnInv ==
  ASSUME TurnInv, link # "gone" => \A r : ~Turn(r),
         UNCHANGED <<rustVars, wireVars, clientVars, outbound, handler, reader, closed>>,
         awaited' # {} => runner' = "optimize",
         runner' = runner \/ runner' # "optimize"
  PROVE  TurnInv'
<1>1. UNCHANGED <<serving, channel, uplink, link, downlink, asked>> /\ Line' = Line
      /\ Places' = Places
  BY DEF rustVars, wireVars, clientVars, Line, Places
<1>2. ASSUME link' # "gone"
      PROVE  /\ serving' = None
             /\ channel' # <<>> => Says(channel[1])'
             /\ uplink' # <<>> => Says(uplink[1])'
             /\ \A i \in Places' : Line'[i] \notin Requests
  BY <1>1, <1>2, NoCallWithClient DEF Says
<1> QED BY <1>1, <1>2 DEF TurnInv

\* A request that the future takes from the line is new, so that no answer to
\* it is on its way, nor the start request, without which there is none.
LEMMA OnlyRequestOut ==
  ASSUME SentInv, StreamInv, TurnInv, link # "gone",
         NEW i \in Places, Line[i] \in Requests
  PROVE  channel = <<>> /\ uplink = <<>> /\ serving = None
<1>1. Turn(Line[i]) /\ Line[i] \notin asked
  BY DEF TurnInv, StreamInv, LineInv
<1>2. handler # "first"
  BY DEF StreamInv, RunnerInv, Places
<1>3. ASSUME NEW m, Says(m) PROVE FALSE
  BY <1>1, <1>2, <1>3 DEF Says, Turn
<1> QED BY <1>1, <1>3 DEF TurnInv, Turn

LEMMA OnRequestKeepsTurnInv ==
  ASSUME SentInv, StreamInv, TurnInv, OnRequest
  PROVE  TurnInv'
<1>1. /\ downlink # <<>> /\ downlink' = Tail(downlink) /\ link = "open"
      /\ asked' = asked \cup {Head(downlink)}
      /\ Head(downlink) \in Requests /\ serving' = Head(downlink)
      /\ UNCHANGED <<awaited, state, closed, handler, reader, runner, outbound, uplink, link,
                     channel>>
  BY DEF OnRequest, Receive, Listening, serverVars, callVars, TurnInv
<1>2. Moves(1) /\ Len(Line) \in Nat
  BY <1>1, TailMoves, LineTypes DEF StreamInv
<1>3. 1 \in Places /\ Line[1] = Head(downlink)
  <2>1. Len(downlink) \in Nat /\ Len(downlink) # 0 /\ Head(downlink) = downlink[1]
    BY <1>1, LineTypes, EmptySeq, HeadTailProperties DEF StreamInv
  <2> QED BY <1>2, <2>1, LineTypes DEF StreamInv, Moves, Places
<1>4. channel = <<>> /\ uplink = <<>> /\ Turn(Line[1])
  BY <1>1, <1>3, OnlyRequestOut DEF TurnInv
<1>5. \A i \in Places' : i + 1 \in Places /\ Line'[i] = Line[i + 1]
  BY <1>2 DEF Moves, Places
<1>6. \A i \in Places' : Line'[i] \in Requests => Turn(Line[i])'
  BY <1>1, <1>5 DEF TurnInv, Turn
<1>7. serving' \in asked' /\ Turn(serving)'
  BY <1>1, <1>3, <1>4 DEF Turn
<1> QED BY <1>1, <1>4, <1>6, <1>7 DEF TurnInv

\* The future's other steps, the client's loss and tonic's reset.
LEMMA FutureLeavesTurn ==
  ASSUME SentInv, StreamInv, TurnInv,
         \/ OnProgress \/ OnComplete \/ OnOptimizationError \/ OnEnd \/ OnLost
         \/ Callback \/ DropFuture \/ ResetStream \/ Disconnect
  PROVE  LeavesTurn
<1> USE DEF LeavesTurn, Return, rustVars, serverVars, callVars, clientVars
<1>1. ASSUME UNCHANGED <<downlink, outbound>>
      PROVE  \A i \in Places' : Line'[i] \in Requests => \E j \in Places : Line[j] = Line'[i]
  BY <1>1 DEF Line, Places
<1>2. ASSUME NEW k \in Nat, Moves(k)
      PROVE  \A i \in Places' : Line'[i] \in Requests => \E j \in Places : Line[j] = Line'[i]
  <2>1. Len(Line) \in Nat
    BY LineTypes DEF StreamInv
  <2>2. \A i \in Places' : i + k \in Places /\ Line'[i] = Line[i + k]
    BY <1>2, <2>1 DEF Moves, Places
  <2> QED BY <2>2
<1>3. CASE Leave
  <2>1. Moves(Len(downlink)) /\ Len(downlink) \in Nat
    BY <1>3, LeaveMoves, LineTypes DEF Leave, StreamInv, serverVars
  <2>2. ResetStream \/ Disconnect
        => channel' \in {channel, <<>>} /\ serving' \in {serving, None}
    BY DEF ResetStream, Disconnect
  <2>3. /\ uplink' = <<>> /\ link' = "gone"
        /\ UNCHANGED <<awaited, state, closed, runner, reader, handler, asked>>
    BY <1>3 DEF Leave
  <2>4. \A i \in Places' : Line'[i] \in Requests => \E j \in Places : Line[j] = Line'[i]
    BY <1>2, <2>1
  <2>5. channel' \in {channel, <<>>} /\ serving' \in {serving, None}
    BY <2>2
    DEF OnProgress, OnComplete, OnOptimizationError, OnEnd, OnLost, Callback,
        CallbackOk, CallbackErr, DropFuture
  <2> QED BY <2>3, <2>4, <2>5
<1>4. CASE Receive /\ (OnProgress \/ OnComplete \/ OnOptimizationError)
  <2>1. Moves(1)
    BY <1>4, TailMoves DEF Receive, StreamInv, serverVars
  <2>2. /\ asked \subseteq asked'
        /\ UNCHANGED <<awaited, state, closed, runner, reader, handler, uplink, link>>
    BY <1>4 DEF Receive
  <2>3. UNCHANGED channel /\ serving' \in {serving, None}
    BY <1>4 DEF OnProgress, OnComplete, OnOptimizationError
  <2> QED BY <1>2, <2>1, <2>2, <2>3
<1>5. CASE OnEnd
  <2>1. /\ uplink' = <<>> /\ UNCHANGED <<downlink, outbound, link, asked>>
        /\ UNCHANGED <<awaited, state, closed, runner, reader, handler>>
    BY <1>5 DEF OnEnd, SeeEnd
  <2>2. UNCHANGED channel /\ serving' = None
    BY <1>5 DEF OnEnd
  <2> QED BY <1>1, <2>1, <2>2
<1>6. CASE OnLost \/ Callback \/ DropFuture
  <2>1. UNCHANGED vars /\ UNCHANGED channel /\ serving' \in {serving, None}
    BY <1>6 DEF OnLost, Callback, CallbackOk, CallbackErr, DropFuture
  <2>2. UNCHANGED <<downlink, outbound, uplink, link>>
    BY <2>1 DEF vars, wireVars
  <2> QED BY <1>1, <2>1, <2>2 DEF vars
<1> QED
  BY <1>3, <1>4, <1>5, <1>6
  DEF OnProgress, OnComplete, OnOptimizationError, ResetStream, Disconnect

\* An answer goes into the channel, and from there to the server.
LEMMA SendKeepsTurnInv ==
  ASSUME SentInv, StreamInv, TurnInv, SendToChannel \/ SendFromChannel
  PROVE  TurnInv'
<1>1. CASE SendToChannel
  <2>1. PICK p \in Payloads : channel' = Append(channel, Answer(serving, p))
    BY <1>1 DEF SendToChannel
  <2> DEFINE a == Answer(serving, p)
  <2>2. /\ serving \in Requests /\ serving # None /\ serving \in asked /\ link # "gone"
        /\ serving' = None /\ UNCHANGED vars
    BY <1>1, NoneAssumption DEF SendToChannel, SentInv
  <2>3. channel = <<>> /\ uplink = <<>> /\ Turn(serving)
    BY <2>2 DEF TurnInv
  <2>4. a # Start /\ a.id = serving
    BY <2>2, NoneAssumption DEF Answer, Start
  <2> HIDE DEF a
  <2>5. channel' = <<a>> /\ channel'[1] = a /\ Len(channel') = 1
    <3>1. channel' = Append(<<>>, a)
      BY <2>1, <2>3 DEF a
    <3> QED BY <3>1
  <2>6. /\ UNCHANGED <<awaited, state, closed, runner, reader, handler, asked, uplink, link>>
        /\ Line' = Line /\ Places' = Places
    BY <2>2 DEF vars, serverVars, wireVars, clientVars, callVars, Line, Places
  <2>7. Says(channel[1])'
    BY <2>2, <2>3, <2>4, <2>5, <2>6 DEF Says, Turn
  <2>8. Len(channel') + Len(uplink') <= 1
    BY <2>3, <2>5, <2>6
  <2>9. link' # "gone" => \A i \in Places' : Line'[i] \in Requests => Turn(Line[i])'
    BY <2>6 DEF TurnInv, Turn
  <2> QED BY <2>2, <2>3, <2>6, <2>7, <2>8, <2>9 DEF TurnInv
<1>2. CASE SendFromChannel
  <2>1. /\ channel # <<>> /\ channel' = Tail(channel) /\ link = "open"
        /\ uplink' = Append(uplink, Head(channel)) /\ UNCHANGED <<serving, link>>
        /\ UNCHANGED <<awaited, state, closed, runner, reader, handler, asked>>
        /\ Line' = Line /\ Places' = Places
    BY <1>2 DEF SendFromChannel, Send, serverVars, clientVars, callVars, Line, Places
  <2>2. Len(channel) = 1 /\ uplink = <<>> /\ serving = None /\ Says(channel[1])
    <3>1. Len(channel) \in Nat \ {0} /\ Len(uplink) \in Nat
          /\ Len(channel) + Len(uplink) <= 1
      BY <2>1, QueueTypes DEF TurnInv
    <3>2. \A a \in Nat \ {0}, b \in Nat : a + b <= 1 => a = 1 /\ b = 0
      OBVIOUS
    <3>3. Len(channel) = 1 /\ Len(uplink) = 0
      BY <3>1, <3>2
    <3>4. uplink = <<>>
      BY <3>3, QueueTypes
    <3> QED BY <2>1, <3>3, <3>4 DEF TurnInv
  <2>3. channel' = <<>>
    <3>1. channel' \in Seq({Start} \cup Answers) /\ Len(channel') = 0
      BY <2>1, <2>2, QueueTypes, HeadTailProperties
    <3> QED BY <3>1, EmptySeq
  <2>4. uplink' = <<channel[1]>> /\ uplink'[1] = channel[1] /\ Len(uplink') = 1
    <3>1. uplink' = Append(<<>>, channel[1])
      BY <2>1, <2>2, QueueTypes, HeadTailProperties
    <3> QED BY <3>1
  <2>5. Says(uplink[1])'
    BY <2>1, <2>2, <2>4 DEF Says, Turn
  <2>6. Len(channel') + Len(uplink') <= 1
    BY <2>3, <2>4
  <2>7. \A i \in Places' : Line'[i] \in Requests => Turn(Line[i])'
    BY <2>1 DEF TurnInv, Turn
  <2> QED BY <2>1, <2>2, <2>3, <2>5, <2>6, <2>7 DEF TurnInv
<1> QED BY <1>1, <1>2

\* The server's steps that leave the runner's call alone.
LEMMA ServerLeavesTurn ==
  ASSUME SentInv, StreamInv, TurnInv, UNCHANGED rustVars,
         \/ Yield \/ HandlerReturns \/ ReaderEnds \/ ReaderCancels
         \/ EmitProgress \/ OptimizerEnds \/ OptimizerExits \/ Report
  PROVE  LeavesTurn
<1> USE DEF LeavesTurn, rustVars, serverVars, wireVars, clientVars, callVars
<1>1. ASSUME UNCHANGED <<downlink, outbound>>
      PROVE  \A i \in Places' : Line'[i] \in Requests => \E j \in Places : Line[j] = Line'[i]
  BY <1>1 DEF Line, Places
<1>2. ASSUME NEW k \in Nat, Moves(k)
      PROVE  \A i \in Places' : Line'[i] \in Requests => \E j \in Places : Line[j] = Line'[i]
  <2>1. Len(Line) \in Nat
    BY LineTypes DEF StreamInv
  <2>2. \A i \in Places' : i + k \in Places /\ Line'[i] = Line[i + k]
    BY <1>2, <2>1 DEF Moves, Places
  <2> QED BY <2>2
<1>3. ASSUME NEW m \in Messages \ Requests, outbound' = Append(outbound, m), UNCHANGED downlink
      PROVE  \A i \in Places' : Line'[i] \in Requests => \E j \in Places : Line[j] = Line'[i]
  <2>1. Joins(m) /\ Len(Line) \in Nat
    BY <1>3, AppendJoins, LineTypes DEF StreamInv
  <2>2. \A i \in Places' : i \in Places \/ Line'[i] = m
    BY <2>1 DEF Joins, Places
  <2> QED BY <1>3, <2>1, <2>2 DEF Joins
<1>4. /\ Progress \in Messages \ Requests /\ End \in Messages \ Requests
      /\ Complete \in Messages \ Requests /\ Error \in Messages \ Requests
  BY KindsAssumption DEF Messages, ToClient, Terminal
<1>5. CASE Yield
  <2>1. /\ handler = "drain" /\ outbound # <<>> /\ outbound' = Tail(outbound)
        /\ UNCHANGED <<reader, runner, awaited, uplink, link, asked, state, closed>>
    BY <1>5 DEF Yield
  <2>2. CASE link = "gone"
    <3>1. Len(downlink) = 0 /\ UNCHANGED downlink /\ handler' = "done"
      BY <1>5, <2>2 DEF Yield, StreamInv, RunnerInv
    <3>2. Moves(1)
      BY <2>1, <3>1, TailMoves DEF StreamInv
    <3> QED BY <1>2, <2>1, <3>1, <3>2
  <2>3. CASE link # "gone"
    <3>1. downlink' = Append(downlink, Head(outbound)) /\ UNCHANGED handler
      BY <1>5, <2>3 DEF Yield
    <3>2. Moves(0)
      BY <2>1, <3>1, YieldMoves DEF StreamInv
    <3> QED BY <1>2, <2>1, <3>1, <3>2
  <2> QED BY <2>2, <2>3
<1>6. CASE HandlerReturns
  <2>1. /\ handler = "drain" /\ handler' = "done" /\ outbound # <<>>
        /\ outbound' = Tail(outbound) /\ UNCHANGED downlink
        /\ UNCHANGED <<reader, runner, awaited, uplink, link, asked, state, closed>>
    BY <1>6 DEF HandlerReturns
  <2>2. \A i \in Places' : Line'[i] \in Requests => \E j \in Places : Line[j] = Line'[i]
    <3>1. /\ downlink \in Seq(Messages) /\ outbound \in Seq(Messages)
          /\ Len(downlink) \in Nat /\ Len(outbound) \in Nat \ {0}
          /\ Len(Line) = Len(downlink) + Len(outbound)
          /\ \A i \in 1..Len(downlink) : Line[i] = downlink[i]
          /\ \A i \in 1..Len(outbound) : Line[Len(downlink) + i] = outbound[i]
      BY <2>1, LineTypes, EmptySeq DEF StreamInv
    <3>2. /\ outbound' \in Seq(Messages) /\ Len(outbound') = Len(outbound) - 1
          /\ \A i \in 1..Len(outbound') : outbound'[i] = outbound[i + 1]
      BY <2>1, <3>1, HeadTailProperties
    <3>3. /\ Len(Line') = Len(downlink) + Len(outbound')
          /\ \A i \in 1..Len(downlink) : Line'[i] = downlink[i]
          /\ \A i \in 1..Len(outbound') : Line'[Len(downlink) + i] = outbound'[i]
      BY <2>1, <3>1, <3>2, LineElements DEF Line
    <3>4. ASSUME NEW i \in Places' PROVE \E j \in Places : Line[j] = Line'[i]
      <4>1. CASE i <= Len(downlink)
        BY <3>1, <3>2, <3>3, <4>1 DEF Places
      <4>2. CASE i > Len(downlink)
        <5>1. PICK n \in 1..Len(outbound') : i = Len(downlink) + n
          <6>1. i - Len(downlink) \in 1..Len(outbound') /\ i = Len(downlink) + (i - Len(downlink))
            BY <3>1, <3>2, <3>3, <4>2 DEF Places
          <6> QED BY <6>1
        <5>2. n + 1 \in 1..Len(outbound) /\ Len(downlink) + (n + 1) \in Places
          BY <3>1, <3>2 DEF Places
        <5>3. Line'[i] = outbound[n + 1] /\ Line[Len(downlink) + (n + 1)] = outbound[n + 1]
          BY <3>1, <3>2, <3>3, <5>1, <5>2
        <5> QED BY <5>2, <5>3
      <4> QED BY <3>1, <3>2, <3>3, <4>1, <4>2 DEF Places
    <3> QED BY <3>4
  <2> QED BY <2>1, <2>2
<1>7. CASE ReaderEnds
  <2>1. /\ reader = "read" /\ (link # "open" \/ handler = "done")
        /\ UNCHANGED <<downlink, outbound, uplink, link, asked>>
        /\ UNCHANGED <<handler, runner, awaited, state, closed>>
    BY <1>7 DEF ReaderEnds
  <2> QED BY <1>1, <2>1
<1>8. CASE ReaderCancels
  <2>1. /\ reader = "cancel" /\ closed' \in {closed, TRUE} /\ UNCHANGED state
        /\ UNCHANGED <<downlink, outbound, uplink, link, asked, handler, runner, awaited>>
    BY <1>8 DEF ReaderCancels, CancelAdapter, Calls!Close, StreamInv, TypeOK,
                Calls!TypeOK
  <2>2. handler # "first" /\ (link = "gone" \/ handler = "done")
    BY <2>1 DEF TurnInv
  <2>3. link = "gone" \/ runner # "optimize"
    BY <2>2 DEF StreamInv, RunnerInv
  <2>4. closed \in BOOLEAN
    BY DEF StreamInv, TypeOK, Calls!TypeOK
  <2> QED BY <1>1, <2>1, <2>2, <2>3, <2>4 DEF TurnInv
<1>9. CASE EmitProgress
  BY <1>3, <1>4, <1>9 DEF EmitProgress
<1>10. CASE OptimizerEnds \/ OptimizerExits
  <2>1. awaited = {} /\ runner = "optimize" /\ runner' \in {"complete", "error", "end"}
        /\ UNCHANGED <<downlink, outbound, uplink, link, asked, handler, reader>>
        /\ UNCHANGED <<awaited, state, closed>>
    BY <1>10 DEF OptimizerEnds, OptimizerExits, Optimizing
  <2> QED BY <1>1, <2>1
<1>11. CASE PutComplete \/ PutError \/ PutEnd
  <2>1. PICK m \in {Complete, Error, End} : outbound' = Append(outbound, m)
    BY <1>11 DEF PutComplete, PutError, PutEnd, Put
  <2>2. /\ runner \in {"complete", "error", "end"} /\ runner' \in {"end", "cancel"}
        /\ UNCHANGED <<downlink, uplink, link, asked, handler, reader, awaited, state, closed>>
    BY <1>11 DEF PutComplete, PutError, PutEnd, Put
  <2>3. awaited = {}
    BY <2>2 DEF TurnInv
  <2> QED BY <1>3, <1>4, <2>1, <2>2, <2>3
<1>12. CASE CompleteFails
  <2>1. /\ runner = "complete" /\ runner' = "error"
        /\ UNCHANGED <<downlink, outbound, uplink, link, asked, handler, reader>>
        /\ UNCHANGED <<awaited, state, closed>>
    BY <1>12 DEF CompleteFails
  <2>2. awaited = {}
    BY <2>1 DEF TurnInv
  <2> QED BY <1>1, <2>1, <2>2
<1>13. CASE RunnerCancels
  <2>1. /\ runner = "cancel" /\ runner' = "done" /\ closed' \in {closed, TRUE} /\ UNCHANGED state
        /\ UNCHANGED <<downlink, outbound, uplink, link, asked, handler, reader, awaited>>
    BY <1>13 DEF RunnerCancels, CancelAdapter, Calls!Close, StreamInv, TypeOK,
                 Calls!TypeOK
  <2>2. awaited = {} /\ handler # "first" /\ closed \in BOOLEAN
    BY <2>1 DEF TurnInv, StreamInv, RunnerInv, TypeOK, Calls!TypeOK
  <2> QED BY <1>1, <2>1, <2>2
<1> QED
  BY <1>5, <1>6, <1>7, <1>8, <1>9, <1>10, <1>11, <1>12, <1>13 DEF Report

\* The handler takes the first message, and the reader an answer: the last of
\* the runner's call that was with the client.
LEMMA ReadKeepsTurnInv ==
  ASSUME SentInv, StreamInv, TurnInv, UNCHANGED rustVars,
         StartRun \/ StartFails \/ RefuseRun \/ ReadMessage
  PROVE  TurnInv'
<1> USE DEF rustVars, serverVars, wireVars, clientVars
<1>1. /\ UNCHANGED <<serving, channel, awaited, downlink, outbound, link, asked>>
      /\ Line' = Line /\ Places' = Places
  BY DEF StartRun, StartFails, RefuseRun, ReadMessage, Line, Places
<1>2. uplink' = <<>> \/ (uplink # <<>> /\ uplink' = Tail(uplink))
  BY DEF StartRun, StartFails, RefuseRun, ReadMessage
<1>3. uplink # <<>> => channel = <<>> /\ serving = None /\ uplink' = <<>>
  <2> SUFFICES ASSUME uplink # <<>> PROVE channel = <<>> /\ serving = None /\ uplink' = <<>>
    OBVIOUS
  <2>1. Len(uplink) \in Nat \ {0} /\ Len(channel) \in Nat /\ Len(channel) + Len(uplink) <= 1
    BY QueueTypes DEF TurnInv
  <2>2. \A a \in Nat, b \in Nat \ {0} : a + b <= 1 => a = 0 /\ b = 1
    OBVIOUS
  <2>3. Len(channel) = 0 /\ Len(uplink) = 1
    BY <2>1, <2>2
  <2>4. uplink' = <<>>
    <3>1. CASE uplink' = Tail(uplink)
      <4>1. uplink' \in Seq({Start, Other} \cup Answers) /\ Len(uplink') = 0
        BY <2>3, <3>1, QueueTypes, HeadTailProperties
      <4> QED BY <4>1, EmptySeq
    <3> QED BY <1>2, <3>1
  <2> QED BY <2>3, <2>4, QueueTypes DEF TurnInv
<1>4. Len(channel') + Len(uplink') <= 1
  BY <1>1, <1>2, <1>3, QueueTypes DEF TurnInv
<1>5. serving' # None => channel' = <<>> /\ uplink' = <<>>
  BY <1>1, <1>2, <1>3 DEF TurnInv
<1>6. CASE StartRun \/ StartFails \/ RefuseRun
  <2>1. /\ handler = "first" /\ runner = "off" /\ awaited = {} /\ ~closed /\ reader = "off"
        /\ UNCHANGED <<closed, state>> /\ handler' # "first"
    BY <1>6 DEF StartRun, StartFails, RefuseRun, TurnInv, StreamInv, RunnerInv, callVars
  <2>2. Places = {}
    BY <2>1 DEF StreamInv, RunnerInv, Places
  <2>3. reader' \in {"off", "read"} /\ (runner' = "optimize" \/ runner' = "off")
    BY <1>6, <2>1 DEF StartRun, StartFails, RefuseRun
  <2>4. ASSUME link # "gone" PROVE uplink # <<>>
    BY <1>6, <2>4 DEF StartRun, StartFails, RefuseRun, TurnInv
  <2> QED BY <1>1, <1>3, <1>4, <1>5, <2>1, <2>2, <2>3, <2>4 DEF TurnInv
<1>7. CASE ReadMessage
  <2> DEFINE m == Head(uplink)
  <2>1. /\ UNCHANGED <<handler, reader, runner, closed>>
        /\ reader = "read" /\ uplink # <<>> /\ m = uplink[1]
    <3>1. UNCHANGED closed
      BY <1>7 DEF ReadMessage, Deliver, Calls!Answer, callVars
    <3> QED BY <1>7, <3>1, QueueTypes, HeadTailProperties DEF ReadMessage
  <2> HIDE DEF m
  <2>2. ASSUME link # "gone" PROVE \A i \in Places : Line[i] \notin Requests
    <3>1. handler # "first" /\ Says(m)
      BY <2>1, <2>2 DEF TurnInv
    <3>2. m.id \in asked /\ awaited = {m.id}
      BY <3>1 DEF Says, Turn
    <3>3. \A i \in Places : Line[i] \in Requests => Line[i] \notin asked /\ awaited = {Line[i]}
      BY <2>2 DEF TurnInv, Turn, StreamInv, LineInv
    <3> QED BY <3>2, <3>3
  <2> QED BY <1>1, <1>3, <1>4, <1>5, <2>1, <2>2 DEF TurnInv
<1> QED BY <1>6, <1>7

\* The runner calls: nothing is with the client before.
LEMMA CallKeepsTurnInv ==
  ASSUME SentInv, StreamInv, TurnInv, UNCHANGED rustVars,
         NEW r \in Requests, CallClient(r)
  PROVE  TurnInv'
<1>1. /\ runner = "optimize" /\ awaited = {} /\ ~closed /\ awaited' = {r}
      /\ state \in [Requests -> Calls!CallStates] /\ state' = [state EXCEPT ![r] = "open"]
      /\ outbound' = Append(outbound, r) /\ UNCHANGED <<serving, channel, uplink, downlink>>
      /\ UNCHANGED <<link, asked, closed, runner, reader, handler>>
  BY DEF CallClient, Optimizing, Calls!Open, rustVars, wireVars, clientVars, StreamInv,
         TypeOK, Calls!TypeOK
<1>2. Turn(r)'
  BY <1>1 DEF Turn
<1>3. handler # "first"
  BY <1>1 DEF StreamInv, RunnerInv
<1>4. ASSUME link # "gone"
      PROVE  /\ channel = <<>> /\ uplink = <<>> /\ serving = None
             /\ \A i \in Places' : Line'[i] \in Requests => Turn(Line[i])'
  <2>1. \A q : ~Turn(q)
    BY <1>1 DEF Turn
  <2>2. /\ channel = <<>> /\ uplink = <<>> /\ serving = None
        /\ \A i \in Places : Line[i] \notin Requests
    BY <1>3, <1>4, <2>1, NoCallWithClient
  <2>3. Joins(r) /\ Len(Line) \in Nat
    BY <1>1, AppendJoins, LineTypes DEF StreamInv, Messages, ToClient
  <2>4. \A i \in Places' : (i \in Places /\ Line'[i] = Line[i]) \/ Line'[i] = r
    BY <2>3 DEF Joins, Places
  <2>5. ASSUME NEW i \in Places', Line'[i] \in Requests PROVE Turn(Line[i])'
    <3>1. Line'[i] = r
      BY <2>2, <2>4, <2>5
    <3> QED BY <1>1, <3>1 DEF Turn
  <2> QED BY <2>2, <2>5
<1> QED BY <1>1, <1>4 DEF TurnInv

\* The call returns or fails.
LEMMA CallEndKeepsTurnInv ==
  ASSUME SentInv, StreamInv, TurnInv, UNCHANGED rustVars,
         CallReturns \/ CallRaises \/ \E r \in Requests : FailCall(r)
  PROVE  TurnInv'
<1>1. ASSUME link # "gone" PROVE \A r : ~Turn(r)
  <2>1. CASE CallReturns \/ CallRaises
    BY <2>1 DEF CallReturns, CallRaises, Turn
  <2>2. CASE \E r \in Requests : FailCall(r)
    <3>1. closed
      BY <2>2 DEF FailCall, Calls!Fail
    <3>2. awaited = {}
      BY <1>1, <3>1 DEF TurnInv
    <3> QED BY <3>2 DEF Turn
  <2> QED BY <2>1, <2>2
<1>2. /\ UNCHANGED <<wireVars, clientVars, outbound, handler, reader, closed>>
      /\ awaited' # {} => runner' = "optimize"
      /\ runner' = runner \/ runner' # "optimize"
  BY DEF CallReturns, CallRaises, FailCall, Calls!Fail, serverVars, callVars, TurnInv
<1> QED BY <1>1, <1>2, EndKeepsTurnInv

LEMMA NextTurnInv == SentInv /\ StreamInv /\ TurnInv /\ [RustNext]_allVars => TurnInv'
<1> SUFFICES ASSUME SentInv, StreamInv, TurnInv, [RustNext]_allVars PROVE TurnInv'
  OBVIOUS
<1>1. CASE UNCHANGED allVars \/ RustOver
  <2>1. UNCHANGED <<vars, rustVars>>
    BY <1>1 DEF allVars, RustOver, Over
  <2>2. LeavesTurn
    BY <2>1 DEF LeavesTurn, vars, rustVars, serverVars, wireVars, clientVars, callVars,
                Line, Places
  <2> QED BY <2>2, LeavesTurnKeeps
<1>2. CASE Message \/ OnLost \/ Callback \/ SendToChannel \/ DropFuture
           \/ SendFromChannel \/ ResetStream \/ Disconnect
  BY <1>2, OnRequestKeepsTurnInv, SendKeepsTurnInv, FutureLeavesTurn, LeavesTurnKeeps
    DEF Message
<1>3. CASE ServerStep /\ UNCHANGED rustVars
  BY <1>3, ReadKeepsTurnInv, CallKeepsTurnInv, CallEndKeepsTurnInv, ServerLeavesTurn,
     LeavesTurnKeeps
  DEF ServerStep, Handler, Reader, Runner
<1> QED BY <1>1, <1>2, <1>3 DEF RustNext

\* The loop that awaits tx.send(...) for a callback's answer finds the channel
\* empty, for any number of requests and any size of the channel: it does not
\* stop reading because the server does not read.
THEOREM SendingNeverWaits == RustSafetySpec => []SendNeverWaits
<1> DEFINE IInv == SentInv /\ StreamInv /\ TurnInv
<1>1. RustInit => IInv
  BY InitSentInv, InitStreamInv, InitTurnInv DEF RustInit
<1>2. IInv /\ [RustNext]_allVars => IInv'
  BY NextSentInv, StepIsStreamStep, NextStreamInv, NextTurnInv
<1>3. IInv => SendNeverWaits
  <2> SUFFICES ASSUME SentInv, TurnInv, future = "send" PROVE channel = <<>>
    BY DEF SendNeverWaits
  <2>1. serving # None
    BY NoneAssumption DEF SentInv
  <2> QED BY <2>1 DEF TurnInv
<1> QED BY <1>1, <1>2, <1>3, PTL DEF RustSafetySpec

===============================================================================
