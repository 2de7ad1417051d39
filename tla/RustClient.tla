------------------------------- MODULE RustClient -------------------------------
(***************************************************************************)
(* The Rust SDK's Client::optimize and Client::optimize_omni               *)
(* (sdk/rust/src/client.rs) at the other end of RunStream.  One future     *)
(* reads the response stream, awaits the user's callback and sends its     *)
(* answer through an mpsc channel, one message at a time.  When it returns *)
(* or is dropped, the channel and the response stream go with it, and      *)
(* tonic resets the stream.                                                *)
(***************************************************************************)
EXTENDS RunStream

CONSTANT ChannelSize   \* mpsc::channel(32)

ASSUME ChannelAssumption == ChannelSize \in Nat \ {0}

VARIABLES
  future,    \* where the future awaits
  serving,   \* the request its callback works on
  channel,   \* messages in the channel
  result     \* what the future returned

rustVars == <<future, serving, channel, result>>
allVars == <<vars, rustVars>>

RustTypeOK ==
  /\ TypeOK
  /\ future \in {"message", "callback", "send", "returned"}
  /\ serving \in Requests \cup {None}
  /\ channel \in Seq({Start} \cup Answers)
  /\ Len(channel) <= ChannelSize
  /\ result \in {"none", "ok", "err", "dropped"}

\* The start request is sent to the channel before the call is made; the
\* channel is empty then.
RustInit ==
  /\ Init
  /\ future = "message"
  /\ serving = None
  /\ channel = <<Start>>
  /\ result = "none"

Return(value) ==
  /\ future' = "returned"
  /\ serving' = None
  /\ result' = value

-------------------------------------------------------------------------------
(* response.message().await *)

OnRequest ==
  /\ future = "message"
  /\ Receive
  /\ Head(downlink) \in Requests
  /\ serving' = Head(downlink)
  /\ future' = "callback"
  /\ UNCHANGED <<channel, result>>

\* on_progress cannot fail.
OnProgress ==
  /\ future = "message"
  /\ Receive
  /\ Head(downlink) = Progress
  /\ UNCHANGED rustVars

OnComplete ==
  /\ future = "message"
  /\ Receive
  /\ Head(downlink) = Complete
  /\ Return("ok")
  /\ UNCHANGED channel

OnOptimizationError ==
  /\ future = "message"
  /\ Receive
  /\ Head(downlink) = Error
  /\ Return("err")
  /\ UNCHANGED channel

\* A faulty variant, like each operator below whose comment calls it one: the
\* code does not do this, and the properties must notice if it did.  An ended
\* stream is taken for a completed run.
OnEndIsOk ==
  /\ future = "message"
  /\ SeeEnd
  /\ Return("ok")
  /\ UNCHANGED channel

\* Faulty variant: the future waits on for a message.
OnEndIgnored ==
  /\ future = "message"
  /\ SeeEnd
  /\ UNCHANGED rustVars

\* The stream ends without a terminal message, or with a status.
OnEnd ==
  /\ future = "message"
  /\ SeeEnd
  /\ Return("err")
  /\ UNCHANGED channel

\* The connection is lost: message() or send() fails.
OnLost ==
  /\ future \in {"message", "send"}
  /\ link = "gone"
  /\ Return("err")
  /\ UNCHANGED <<vars, channel>>

-------------------------------------------------------------------------------
(* The callback and its answer *)

CallbackOk ==
  /\ future = "callback"
  /\ future' = "send"
  /\ UNCHANGED <<vars, serving, channel, result>>

\* The ? operator: evaluate or make_reflective_dataset returned an error.
CallbackErr ==
  /\ future = "callback"
  /\ Return("err")
  /\ UNCHANGED <<vars, channel>>

\* Faulty variant: the answer carries no request id.
AnswerWithoutId(r, p) == [id |-> None, payload |-> p]

Answer(r, p) == [id |-> r, payload |-> p]

\* tx.send(...).await, which waits while the channel is full.
SendToChannel ==
  /\ future = "send"
  /\ link # "gone"
  /\ Len(channel) < ChannelSize
  /\ \E p \in Payloads : channel' = Append(channel, Answer(serving, p))
  /\ future' = "message"
  /\ serving' = None
  /\ UNCHANGED <<vars, result>>

\* The caller drops the future at one of its awaits.
DropFuture ==
  /\ future # "returned"
  /\ Return("dropped")
  /\ UNCHANGED <<vars, channel>>

-------------------------------------------------------------------------------
(* tonic and the network *)

SendFromChannel ==
  /\ channel # <<>>
  /\ result = "none"
  /\ Send(Head(channel))
  /\ channel' = Tail(channel)
  /\ UNCHANGED <<future, serving, result>>

\* Faulty variant: the stream is not reset when the future is gone.
KeepStream ==
  /\ result # "none"
  /\ channel # <<>>
  /\ channel' = <<>>
  /\ UNCHANGED <<vars, future, serving, result>>

\* The future's locals are gone: the stream is reset.
ResetStream ==
  /\ result # "none"
  /\ Leave
  /\ channel' = <<>>
  /\ UNCHANGED <<future, serving, result>>

Disconnect ==
  /\ Leave
  /\ UNCHANGED rustVars

-------------------------------------------------------------------------------
Message == OnRequest \/ OnProgress \/ OnComplete \/ OnOptimizationError \/ OnEnd

Callback == CallbackOk \/ CallbackErr

ServerStep == Handler \/ Reader \/ Runner \/ \E r \in Requests : FailCall(r)

RustOver ==
  /\ Over
  /\ future = "returned"
  /\ UNCHANGED rustVars

RustNext ==
  \/ Message \/ OnLost \/ Callback \/ SendToChannel \/ DropFuture
  \/ SendFromChannel \/ ResetStream \/ Disconnect
  \/ ServerStep /\ UNCHANGED rustVars
  \/ RustOver

RustSafetySpec == RustInit /\ [][RustNext]_allVars

\* The server's threads, as in RunStream, the future once it is polled, and
\* tonic run on.
ServerFairness ==
  /\ WF_allVars(Handler /\ UNCHANGED rustVars)
  /\ WF_allVars(Reader /\ UNCHANGED rustVars)
  /\ WF_allVars((CallReturns \/ CallRaises \/ Report) /\ UNCHANGED rustVars)
  /\ \A r \in Requests : WF_allVars(FailCall(r) /\ UNCHANGED rustVars)

RustFairness ==
  /\ WF_allVars(Message \/ OnLost \/ SendToChannel)
  /\ WF_allVars(SendFromChannel)
  /\ WF_allVars(ResetStream)

RustSpec == RustSafetySpec /\ ServerFairness /\ RustFairness

\* The user's callbacks return, and the optimizer has a budget.
RustDiligence ==
  /\ WF_allVars(Callback)
  /\ WF_allVars(OptimizerEnds /\ UNCHANGED rustVars)

-------------------------------------------------------------------------------
(* Properties *)

\* The SDK's client does nothing that RunStream's does not, so what is shown
\* there of the server holds with it.
IsRunStreamClient == SafetySpec

\* optimize returns Ok only with the server's completion, when the server has
\* had the answer to each request it sent.
OkIsComplete ==
  result = "ok" =>
    /\ heard = Complete
    /\ \A r \in asked : state[r] = "answered"

\* tx.send(...).await never waits for room, so that the loop cannot stop reading
\* while the server waits for it to: the server asks one thing at a time, and
\* what was answered before has left the channel.
SendNeverWaits == future = "send" => channel = <<>>

\* Whatever ends the future, an error of a callback or the caller's dropping
\* it included, the run on the server ends.
ReturnEndsRun == (result # "none") ~> ThreadsEnded

\* The future returns, if the user's callbacks do.
FutureReturns == RustDiligence => <>(result # "none")

===============================================================================
