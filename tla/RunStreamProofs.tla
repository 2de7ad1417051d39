----------------------------- MODULE RunStreamProofs -----------------------------
(***************************************************************************)
(* Proofs about RunStream: one optimization stream keeps the promises of   *)
(* RunContract, for any number of requests and progress updates and any    *)
(* client.  What counts is the line of messages on their way to the        *)
(* client, those gRPC carries and behind them those on the queue: only the *)
(* handler moves a message from one to the other, and the line stays.      *)
(***************************************************************************)
EXTENDS RunStream, SequenceTheorems, TLAPS

Messages == ToClient \cup {End}

-------------------------------------------------------------------------------
(* Types *)

LEMMA InitTypeOK == Init => TypeOK
<1> SUFFICES ASSUME Init PROVE TypeOK
  OBVIOUS
<1>1. /\ <<>> \in Seq(ToClient \cup {End})
      /\ <<>> \in Seq(ToClient)
      /\ <<>> \in Seq({Start, Other} \cup Answers)
  BY EmptySeq
<1>2. 0 \in 0..MaxProgress
  BY RunStreamBounds
<1>3. Calls!TypeOK
  BY DEF Init, Calls!Init, Calls!TypeOK, Calls!CallStates
<1> QED BY <1>1, <1>2, <1>3 DEF Init, TypeOK

LEMMA ClientKeepsTypeOK ==
  ASSUME TypeOK, ClientStep \/ Receive \/ SeeEnd
  PROVE  TypeOK'
<1> USE DEF TypeOK, serverVars, wireVars, clientVars, callVars, Calls!TypeOK
<1>1. ASSUME NEW m \in {Start, Other} \cup Answers, Send(m) PROVE TypeOK'
  <2>1. uplink' \in Seq({Start, Other} \cup Answers)
    BY <1>1, AppendProperties DEF Send
  <2> QED BY <1>1, <2>1 DEF Send
<1>2. ASSUME NEW r \in Requests, NEW p \in Payloads, SendAnswer(r, p) PROVE TypeOK'
  <2>1. [id |-> r, payload |-> p] \in Answers
    BY DEF Answers
  <2> QED BY <1>1, <1>2, <2>1 DEF SendAnswer
<1>3. CASE HalfClose
  BY <1>3 DEF HalfClose
<1>4. CASE Leave
  BY <1>4, EmptySeq DEF Leave
<1>5. CASE Receive
  <2>1. Head(downlink) \in ToClient /\ downlink' \in Seq(ToClient)
    BY <1>5, HeadTailProperties DEF Receive
  <2>2. asked' \in SUBSET Requests /\ heard' \in Terminal \cup {"nothing"}
    BY <1>5, <2>1 DEF Receive
  <2> QED BY <1>5, <2>1, <2>2 DEF Receive
<1>6. CASE SeeEnd
  BY <1>6, EmptySeq DEF SeeEnd
<1> QED
  BY <1>1, <1>2, <1>3, <1>4, <1>5, <1>6
  DEF ClientStep, SendFirst, SendSecondStart

LEMMA HandlerKeepsTypeOK ==
  ASSUME TypeOK, Handler
  PROVE  TypeOK'
<1> USE DEF TypeOK, serverVars, wireVars, clientVars, callVars, Calls!TypeOK
<1>1. CASE StartRun
  <2>1. uplink' \in Seq({Start, Other} \cup Answers)
    BY <1>1, HeadTailProperties DEF StartRun
  <2> QED BY <1>1, <2>1 DEF StartRun
<1>2. CASE RefuseRun
  BY <1>2, EmptySeq DEF RefuseRun
<1>2a. CASE StartFails
  <2>1. uplink' \in Seq({Start, Other} \cup Answers)
    BY <1>2a, HeadTailProperties DEF StartFails
  <2> QED BY <1>2a, <2>1 DEF StartFails
<1>3. CASE Yield
  <2>1. /\ Head(outbound) \in ToClient
        /\ outbound' \in Seq(ToClient \cup {End})
    BY <1>3, HeadTailProperties DEF Yield, IsEnd
  <2>2. downlink' \in Seq(ToClient) /\ handler' \in {"drain", "done"}
    <3>1. CASE link = "gone"
      BY <1>3, <3>1 DEF Yield
    <3>2. CASE link # "gone"
      <4>1. downlink' = Append(downlink, Head(outbound)) /\ handler' = "drain"
        BY <1>3, <3>2 DEF Yield
      <4> QED BY <2>1, <4>1, AppendProperties
    <3> QED BY <3>1, <3>2
  <2> QED BY <1>3, <2>1, <2>2 DEF Yield
<1>4. CASE HandlerReturns
  <2>1. outbound' \in Seq(ToClient \cup {End})
    BY <1>4, HeadTailProperties DEF HandlerReturns
  <2> QED BY <1>4, <2>1 DEF HandlerReturns
<1> QED BY <1>1, <1>2, <1>2a, <1>3, <1>4 DEF Handler

LEMMA ReaderKeepsTypeOK ==
  ASSUME TypeOK, Reader \/ \E r \in Requests : FailCall(r)
  PROVE  TypeOK'
<1> USE DEF TypeOK, serverVars, wireVars, clientVars, callVars, Calls!TypeOK, Calls!CallStates
<1>1. CASE ReadMessage
  <2> DEFINE m == Head(uplink)
  <2>1. /\ m \in {Start, Other} \cup Answers
        /\ uplink' \in Seq({Start, Other} \cup Answers)
    BY <1>1, HeadTailProperties DEF ReadMessage
  <2>2. IsAnswer(m) => m.id \in Requests /\ m.payload \in Payloads
    BY <2>1 DEF IsAnswer, Start, Other, Answers
  <2>3. Calls!TypeOK'
    <3>1. CASE UNCHANGED callVars
      BY <3>1
    <3>2. CASE IsAnswer(m) /\ Calls!Answer(m.id, m.payload)
      <4> HIDE DEF m
      <4> QED BY <2>2, <3>2 DEF Calls!Answer
    <3> QED BY <1>1, <3>1, <3>2 DEF ReadMessage, Deliver
  <2> QED BY <1>1, <2>1, <2>3 DEF ReadMessage
<1>2. CASE ReaderEnds
  BY <1>2 DEF ReaderEnds
<1>3. CASE ReaderCancels
  BY <1>3 DEF ReaderCancels, CancelAdapter, Calls!Close
<1>4. ASSUME NEW r \in Requests, FailCall(r) PROVE TypeOK'
  BY <1>4 DEF FailCall, Calls!Fail
<1> QED BY <1>1, <1>2, <1>3, <1>4 DEF Reader

LEMMA RunnerKeepsTypeOK ==
  ASSUME TypeOK, Runner
  PROVE  TypeOK'
<1> USE DEF TypeOK, wireVars, clientVars, callVars, Calls!TypeOK, Calls!CallStates
<1>0. ASSUME NEW m \in Messages, outbound' = Append(outbound, m)
      PROVE  outbound' \in Seq(ToClient \cup {End})
  BY <1>0, AppendProperties DEF Messages
<1>1. ASSUME NEW r \in Requests, CallClient(r) PROVE TypeOK'
  <2>1. outbound' \in Seq(ToClient \cup {End})
    BY <1>0, <1>1 DEF CallClient, Messages, ToClient
  <2> QED BY <1>1, <2>1 DEF CallClient, Calls!Open
<1>2. CASE CallReturns
  BY <1>2 DEF CallReturns
<1>3. CASE CallRaises
  BY <1>3 DEF CallRaises
<1>4. CASE EmitProgress
  <2>1. outbound' \in Seq(ToClient \cup {End})
    BY <1>0, <1>4 DEF EmitProgress, Messages, ToClient
  <2>2. progress' \in 0..MaxProgress
    BY <1>4, RunStreamBounds DEF EmitProgress
  <2> QED BY <1>4, <2>1, <2>2 DEF EmitProgress, Optimizing
<1>5. CASE OptimizerEnds \/ OptimizerExits
  BY <1>5 DEF OptimizerEnds, OptimizerExits
<1>6. ASSUME NEW m \in Messages, NEW from, NEW to \in {"end", "cancel"}, Put(from, m, to)
      PROVE  TypeOK'
  <2>1. outbound' \in Seq(ToClient \cup {End})
    BY <1>0, <1>6 DEF Put
  <2> QED BY <1>6, <2>1 DEF Put
<1>7. CASE PutComplete \/ PutError \/ PutEnd
  BY <1>6, <1>7 DEF PutComplete, PutError, PutEnd, Messages, ToClient, Terminal
<1>8. CASE CompleteFails
  BY <1>8 DEF CompleteFails
<1>9. CASE RunnerCancels
  BY <1>9 DEF RunnerCancels, CancelAdapter, Calls!Close
<1> QED
  BY <1>1, <1>2, <1>3, <1>4, <1>5, <1>7, <1>8, <1>9 DEF Runner, Report

LEMMA NextTypeOK == TypeOK /\ [Next]_vars => TypeOK'
<1> SUFFICES ASSUME TypeOK, [Next]_vars PROVE TypeOK'
  OBVIOUS
<1>1. CASE UNCHANGED vars
  BY <1>1 DEF TypeOK, vars, serverVars, wireVars, clientVars, callVars, Calls!TypeOK
<1> QED
  BY <1>1, ClientKeepsTypeOK, HandlerKeepsTypeOK, ReaderKeepsTypeOK, RunnerKeepsTypeOK
  DEF Next, Over

\* The queues, threads and calls of a stream keep their types.
THEOREM TypeCorrect == SafetySpec => []TypeOK
BY InitTypeOK, NextTypeOK, PTL DEF SafetySpec

-------------------------------------------------------------------------------
(* The line of messages to the client *)

Line == downlink \o outbound
Places == 1..Len(Line)

\* The order of the line: a terminal message has nothing but None behind it,
\* None is last, a request is in it once and has not been received before, and
\* when the client has heard the end only None is left.
LineInv ==
  /\ \A i, j \in Places : i < j /\ Line[i] \in Terminal => Line[j] = End
  /\ \A i \in Places : Line[i] = End => i = Len(Line)
  /\ \A i, j \in Places : Line[i] \in Requests /\ Line[i] = Line[j] => i = j
  /\ \A i \in Places : Line[i] \in Requests => Line[i] \notin asked
  /\ \A r \in Requests : (r \in asked \/ \E i \in Places : Line[i] = r)
                           => state[r] # "unused"
  /\ heard # "nothing" => \A i \in Places : Line[i] = End

\* A terminal message is in the line, or has been received.
Announced == heard # "nothing" \/ \E i \in Places : Line[i] \in Terminal

\* What the runner has put on the line by each point of its way, nothing if the
\* run is broken, and what is left when the handler has returned to a client that
\* is there.
RunnerInv ==
  /\ runner \in {"off", "optimize", "complete", "error"} => ~Announced
  /\ runner \in {"end", "cancel", "done"} /\ link # "gone" => Announced \/ broken
  /\ broken => ~Announced /\ runner \in {"off", "end", "cancel", "done"}
  /\ runner \notin {"cancel", "done"} => \A i \in Places : Line[i] # End
  /\ runner = "off" => Len(Line) = 0 /\ handler \in {"first", "done"}
  /\ handler = "first" => runner = "off" /\ client = "on" /\ ~broken
  /\ handler = "done" /\ link # "gone" /\ runner # "off"
       => Len(outbound) = 0 /\ runner \in {"cancel", "done"}
  /\ link = "gone" => Len(downlink) = 0

StreamInv == TypeOK /\ LineInv /\ RunnerInv

LEMMA LineElements ==
  ASSUME NEW d \in Seq(Messages), NEW o \in Seq(Messages)
  PROVE  /\ Len(d) \in Nat /\ Len(o) \in Nat
         /\ Len(d \o o) = Len(d) + Len(o)
         /\ \A i \in 1..(Len(d) + Len(o)) : (d \o o)[i] \in Messages
         /\ \A i \in 1..Len(d) : (d \o o)[i] = d[i]
         /\ \A i \in 1..Len(o) : (d \o o)[Len(d) + i] = o[i]
<1>1. Len(d) \in Nat /\ Len(o) \in Nat
  BY LenProperties
<1>2. /\ d \o o \in Seq(Messages)
      /\ Len(d \o o) = Len(d) + Len(o)
      /\ \A i \in 1..(Len(d) + Len(o)) :
           (d \o o)[i] = IF i <= Len(d) THEN d[i] ELSE o[i - Len(d)]
  BY ConcatProperties
<1>3. \A i \in 1..(Len(d) + Len(o)) : (d \o o)[i] \in Messages
  BY <1>2, ElementOfSeq
<1>4. ASSUME NEW i \in 1..Len(o) PROVE (d \o o)[Len(d) + i] = o[i]
  <2>1. /\ Len(d) + i \in 1..(Len(d) + Len(o))
        /\ ~(Len(d) + i <= Len(d))
        /\ (Len(d) + i) - Len(d) = i
    BY <1>1
  <2> QED BY <1>2, <2>1
<1> QED BY <1>1, <1>2, <1>3, <1>4

LEMMA LineTypes ==
  ASSUME TypeOK
  PROVE  /\ downlink \in Seq(Messages) /\ outbound \in Seq(Messages)
         /\ Len(Line) \in Nat /\ Len(downlink) \in Nat /\ Len(outbound) \in Nat
         /\ Len(Line) = Len(downlink) + Len(outbound)
         /\ \A i \in Places : Line[i] \in Messages
         /\ \A i \in 1..Len(downlink) : Line[i] = downlink[i]
         /\ \A i \in 1..Len(outbound) : Line[Len(downlink) + i] = outbound[i]
<1>1. downlink \in Seq(Messages) /\ outbound \in Seq(Messages)
  <2>1. /\ \A i \in DOMAIN downlink : downlink[i] \in ToClient
        /\ downlink \in Seq(ToClient)
    BY ElementOfSeq, LenProperties DEF TypeOK
  <2> QED BY <2>1 DEF TypeOK, Messages
<1> QED BY <1>1, LineElements DEF Line, Places

\* The three ways the line changes: at its end, at its beginning by k messages
\* (none, when the handler passes one on), and by the handler taking None.
Joins(m) ==
  /\ Len(Line') = Len(Line) + 1
  /\ \A i \in Places : Line'[i] = Line[i]
  /\ Line'[Len(Line) + 1] = m

Moves(k) ==
  /\ k \in 0..Len(Line)
  /\ Len(Line') = Len(Line) - k
  /\ \A i \in 1..Len(Line') : Line'[i] = Line[i + k]

Closes ==
  /\ Len(Line) # 0 /\ Line[Len(Line)] = End
  /\ Len(Line') = Len(Line) - 1
  /\ \A i \in 1..Len(Line') : Line'[i] = Line[i]

LEMMA AppendJoins ==
  ASSUME TypeOK, NEW m \in Messages, outbound' = Append(outbound, m), UNCHANGED downlink
  PROVE  Joins(m)
<1>1. /\ downlink \in Seq(Messages) /\ outbound \in Seq(Messages)
      /\ Len(Line) \in Nat /\ Len(downlink) \in Nat /\ Len(outbound) \in Nat
      /\ Len(Line) = Len(downlink) + Len(outbound)
      /\ \A i \in 1..Len(downlink) : Line[i] = downlink[i]
      /\ \A i \in 1..Len(outbound) : Line[Len(downlink) + i] = outbound[i]
  BY LineTypes
<1>2. /\ outbound' \in Seq(Messages) /\ Len(outbound') = Len(outbound) + 1
      /\ \A i \in 1..Len(outbound) : outbound'[i] = outbound[i]
      /\ outbound'[Len(outbound) + 1] = m
  BY <1>1, AppendProperties
<1>3. /\ Len(Line') = Len(downlink) + Len(outbound')
      /\ \A i \in 1..Len(downlink) : Line'[i] = downlink[i]
      /\ \A i \in 1..Len(outbound') : Line'[Len(downlink) + i] = outbound'[i]
  BY <1>1, <1>2, LineElements DEF Line
<1>4. ASSUME NEW i \in Places PROVE Line'[i] = Line[i]
  <2>1. CASE i <= Len(downlink)
    BY <1>1, <1>3, <2>1 DEF Places
  <2>2. CASE i > Len(downlink)
    <3> DEFINE j == i - Len(downlink)
    <3>1. j \in 1..Len(outbound) /\ Len(downlink) + j = i /\ j \in 1..Len(outbound')
      BY <1>1, <1>2, <2>2 DEF Places
    <3> HIDE DEF j
    <3>2. Line'[Len(downlink) + j] = outbound'[j] /\ Line[Len(downlink) + j] = outbound[j]
      BY <1>1, <1>3, <3>1
    <3> QED BY <1>2, <3>1, <3>2
  <2> QED BY <1>1, <2>1, <2>2 DEF Places
<1>5. Line'[Len(Line) + 1] = m
  <2> DEFINE j == Len(outbound) + 1
  <2>1. j \in 1..Len(outbound') /\ Len(downlink) + j = Len(Line) + 1
    BY <1>1, <1>2
  <2> HIDE DEF j
  <2>2. Line'[Len(downlink) + j] = outbound'[j]
    BY <1>3, <2>1
  <2> QED BY <1>2, <2>1, <2>2 DEF j
<1> QED BY <1>1, <1>2, <1>3, <1>4, <1>5 DEF Joins

\* A message is received, or dropped for a client that is gone ...
LEMMA TailMoves ==
  ASSUME TypeOK,
         \/ downlink # <<>> /\ downlink' = Tail(downlink) /\ UNCHANGED outbound
         \/ /\ Len(downlink) = 0 /\ UNCHANGED downlink
            /\ outbound # <<>> /\ outbound' = Tail(outbound)
  PROVE  Moves(1)
<1>1. /\ downlink \in Seq(Messages) /\ outbound \in Seq(Messages)
      /\ Len(Line) \in Nat /\ Len(downlink) \in Nat /\ Len(outbound) \in Nat
      /\ Len(Line) = Len(downlink) + Len(outbound)
      /\ \A i \in 1..Len(downlink) : Line[i] = downlink[i]
      /\ \A i \in 1..Len(outbound) : Line[Len(downlink) + i] = outbound[i]
  BY LineTypes
<1>2. CASE downlink # <<>> /\ downlink' = Tail(downlink) /\ UNCHANGED outbound
  <2>1. /\ Len(downlink) # 0
        /\ downlink' \in Seq(Messages) /\ Len(downlink') = Len(downlink) - 1
        /\ \A i \in 1..Len(downlink') : downlink'[i] = downlink[i + 1]
    BY <1>1, <1>2, HeadTailProperties, EmptySeq
  <2>2. /\ Len(Line') = Len(downlink') + Len(outbound)
        /\ \A i \in 1..Len(downlink') : Line'[i] = downlink'[i]
        /\ \A i \in 1..Len(outbound) : Line'[Len(downlink') + i] = outbound[i]
    BY <1>1, <1>2, <2>1, LineElements DEF Line
  <2>3. ASSUME NEW i \in 1..Len(Line') PROVE Line'[i] = Line[i + 1]
    <3>1. CASE i <= Len(downlink')
      BY <1>1, <2>1, <2>2, <3>1
    <3>2. CASE i > Len(downlink')
      <4> DEFINE j == i - Len(downlink')
      <4>1. /\ j \in 1..Len(outbound) /\ Len(downlink') + j = i
            /\ Len(downlink) + j = i + 1
        BY <1>1, <2>1, <2>2, <3>2
      <4> HIDE DEF j
      <4>2. Line'[Len(downlink') + j] = outbound[j] /\ Line[Len(downlink) + j] = outbound[j]
        BY <1>1, <2>2, <4>1
      <4> QED BY <4>1, <4>2
    <3> QED BY <1>1, <2>1, <2>2, <3>1, <3>2
  <2>4. 1 \in 0..Len(Line) /\ Len(Line') = Len(Line) - 1
    BY <1>1, <2>1, <2>2
  <2> QED BY <2>3, <2>4 DEF Moves
<1>3. CASE /\ Len(downlink) = 0 /\ UNCHANGED downlink
           /\ outbound # <<>> /\ outbound' = Tail(outbound)
  <2>1. /\ Len(outbound) # 0
        /\ outbound' \in Seq(Messages) /\ Len(outbound') = Len(outbound) - 1
        /\ \A i \in 1..Len(outbound') : outbound'[i] = outbound[i + 1]
    BY <1>1, <1>3, HeadTailProperties, EmptySeq
  <2>2. /\ Len(Line') = Len(outbound')
        /\ \A i \in 1..Len(outbound') : Line'[0 + i] = outbound'[i]
    BY <1>1, <1>3, <2>1, LineElements DEF Line
  <2>3. \A i \in 1..Len(outbound) : Line[0 + i] = outbound[i]
    BY <1>1, <1>3
  <2>4. ASSUME NEW i \in 1..Len(Line') PROVE Line'[i] = Line[i + 1]
    <3>1. /\ i \in 1..Len(outbound') /\ 0 + i = i
          /\ i + 1 \in 1..Len(outbound) /\ 0 + (i + 1) = i + 1
      BY <1>1, <2>1, <2>2
    <3>2. Line'[0 + i] = outbound'[i] /\ Line[0 + (i + 1)] = outbound[i + 1]
      BY <2>2, <2>3, <3>1
    <3> QED BY <2>1, <3>1, <3>2
  <2> QED BY <1>1, <1>3, <2>1, <2>2, <2>4 DEF Moves
<1> QED BY <1>2, <1>3

\* ... what gRPC carries is lost with the client ...
LEMMA LeaveMoves ==
  ASSUME TypeOK, downlink' = <<>>, UNCHANGED outbound
  PROVE  Moves(Len(downlink))
<1>1. /\ downlink \in Seq(Messages) /\ outbound \in Seq(Messages)
      /\ Len(Line) \in Nat /\ Len(downlink) \in Nat /\ Len(outbound) \in Nat
      /\ Len(Line) = Len(downlink) + Len(outbound)
      /\ \A i \in 1..Len(outbound) : Line[Len(downlink) + i] = outbound[i]
  BY LineTypes
<1>2. downlink' \in Seq(Messages) /\ Len(downlink') = 0
  BY EmptySeq
<1>3. /\ Len(Line') = Len(outbound)
      /\ \A i \in 1..Len(outbound) : Line'[0 + i] = outbound[i]
  BY <1>1, <1>2, LineElements DEF Line
<1>4. ASSUME NEW i \in 1..Len(Line') PROVE Line'[i] = Line[i + Len(downlink)]
  <2>1. i \in 1..Len(outbound) /\ 0 + i = i /\ Len(downlink) + i = i + Len(downlink)
    BY <1>1, <1>3
  <2> QED BY <1>1, <1>3, <2>1
<1> QED BY <1>1, <1>3, <1>4 DEF Moves

\* ... and a message that the handler passes on keeps its place.
LEMMA YieldMoves ==
  ASSUME TypeOK, outbound # <<>>, outbound' = Tail(outbound),
         downlink' = Append(downlink, Head(outbound))
  PROVE  Moves(0)
<1>1. /\ downlink \in Seq(Messages) /\ outbound \in Seq(Messages)
      /\ Len(Line) \in Nat /\ Len(downlink) \in Nat /\ Len(outbound) \in Nat
      /\ Len(Line) = Len(downlink) + Len(outbound)
      /\ \A i \in 1..Len(downlink) : Line[i] = downlink[i]
      /\ \A i \in 1..Len(outbound) : Line[Len(downlink) + i] = outbound[i]
  BY LineTypes
<1>2. /\ Len(outbound) # 0
      /\ outbound' \in Seq(Messages) /\ Len(outbound') = Len(outbound) - 1
      /\ \A i \in 1..Len(outbound') : outbound'[i] = outbound[i + 1]
      /\ Head(outbound) = outbound[1] /\ Head(outbound) \in Messages
  BY <1>1, HeadTailProperties, EmptySeq
<1>3. /\ downlink' \in Seq(Messages) /\ Len(downlink') = Len(downlink) + 1
      /\ \A i \in 1..Len(downlink) : downlink'[i] = downlink[i]
      /\ downlink'[Len(downlink) + 1] = outbound[1]
  BY <1>1, <1>2, AppendProperties
<1>4. /\ Len(Line') = Len(downlink') + Len(outbound')
      /\ \A i \in 1..Len(downlink') : Line'[i] = downlink'[i]
      /\ \A i \in 1..Len(outbound') : Line'[Len(downlink') + i] = outbound'[i]
  BY <1>2, <1>3, LineElements DEF Line
<1>5. ASSUME NEW i \in 1..Len(Line') PROVE Line'[i] = Line[i]
  <2>1. CASE i <= Len(downlink)
    BY <1>1, <1>3, <1>4, <2>1
  <2>2. CASE i = Len(downlink) + 1
    <3>1. Line'[i] = outbound[1]
      BY <1>1, <1>3, <1>4, <2>2
    <3>2. 1 \in 1..Len(outbound)
      BY <1>1, <1>2
    <3>3. Line[Len(downlink) + 1] = outbound[1]
      BY <1>1, <3>2
    <3> QED BY <2>2, <3>1, <3>3
  <2>3. CASE i > Len(downlink) + 1
    <3> DEFINE j == i - Len(downlink')
    <3>1. /\ j \in 1..Len(outbound') /\ Len(downlink') + j = i
          /\ j + 1 \in 1..Len(outbound) /\ Len(downlink) + (j + 1) = i
      BY <1>1, <1>2, <1>3, <1>4, <2>3
    <3> HIDE DEF j
    <3>2. /\ Line'[Len(downlink') + j] = outbound'[j]
          /\ Line[Len(downlink) + (j + 1)] = outbound[j + 1]
      BY <1>1, <1>4, <3>1
    <3> QED BY <1>2, <3>1, <3>2
  <2> QED BY <1>1, <1>3, <1>4, <2>1, <2>2, <2>3
<1>6. \A i \in 1..Len(Line') : Line'[i] = Line[i + 0]
  BY <1>1, <1>2, <1>3, <1>4, <1>5
<1> QED BY <1>1, <1>2, <1>3, <1>4, <1>6 DEF Moves

-------------------------------------------------------------------------------
(* The order of the line is kept *)

LEMMA MoveKeepsLineInv ==
  ASSUME TypeOK, LineInv, NEW k \in Nat, Moves(k), UNCHANGED <<asked, heard>>,
         \A r \in Requests : state[r] # "unused" => state'[r] # "unused"
  PROVE  LineInv'
<1>1. /\ Len(Line) \in Nat /\ Len(Line') = Len(Line) - k
      /\ \A i \in 1..Len(Line') : i + k \in Places /\ Line'[i] = Line[i + k]
  BY LineTypes DEF Moves, Places
<1>2. Places' = 1..Len(Line')
  BY DEF Places
<1>3. ASSUME NEW i \in Places', NEW j \in Places', i < j, Line'[i] \in Terminal
      PROVE  Line'[j] = End
  <2> DEFINE a == i + k
             b == j + k
  <2>1. i \in Nat /\ j \in Nat
    BY <1>1, <1>2
  <2>2. /\ a < b /\ a \in Places /\ b \in Places
        /\ Line'[i] = Line[a] /\ Line'[j] = Line[b]
    BY <1>1, <1>2, <1>3, <2>1
  <2> HIDE DEF a, b
  <2>3. Line[b] = End
    BY <1>3, <2>2 DEF LineInv
  <2> QED BY <2>2, <2>3
<1>4. ASSUME NEW i \in Places', Line'[i] = End PROVE i = Len(Line')
  <2> DEFINE a == i + k
  <2>1. a \in Places /\ Line[a] = End
    BY <1>1, <1>2, <1>4
  <2> HIDE DEF a
  <2>2. a = Len(Line)
    BY <2>1 DEF LineInv
  <2> QED BY <1>1, <1>2, <2>2 DEF a
<1>5. ASSUME NEW i \in Places', NEW j \in Places', Line'[i] \in Requests,
             Line'[i] = Line'[j]
      PROVE  i = j
  <2>1. i + k = j + k
    BY <1>1, <1>2, <1>5 DEF LineInv
  <2> QED BY <1>1, <1>2, <2>1
<1>6. \A i \in Places' : Line'[i] \in Requests => Line'[i] \notin asked'
  BY <1>1, <1>2 DEF LineInv
<1>7. \A r \in Requests : (r \in asked' \/ \E i \in Places' : Line'[i] = r)
                            => state'[r] # "unused"
  BY <1>1, <1>2 DEF LineInv
<1>8. heard' # "nothing" => \A i \in Places' : Line'[i] = End
  BY <1>1, <1>2 DEF LineInv
<1> QED BY <1>3, <1>4, <1>5, <1>6, <1>7, <1>8 DEF LineInv

LEMMA CloseKeepsLineInv ==
  ASSUME TypeOK, LineInv, Closes, UNCHANGED <<asked, heard, state>>
  PROVE  LineInv'
<1>1. /\ Len(Line) \in Nat /\ Len(Line') = Len(Line) - 1
      /\ \A i \in 1..Len(Line') : i \in Places /\ Line'[i] = Line[i] /\ i # Len(Line)
  BY LineTypes DEF Closes, Places
<1>2. Places' = 1..Len(Line')
  BY DEF Places
<1>3. \A i \in Places' : Line'[i] # End
  BY <1>1, <1>2 DEF LineInv
<1>4. heard' # "nothing" => \A i \in Places' : Line'[i] = End
  BY <1>1, <1>2 DEF LineInv
<1>5. \A i, j \in Places' : i < j /\ Line'[i] \in Terminal => Line'[j] = End
  BY <1>1, <1>2 DEF LineInv
<1>6. \A i, j \in Places' : Line'[i] \in Requests /\ Line'[i] = Line'[j] => i = j
  BY <1>1, <1>2 DEF LineInv
<1>7. \A i \in Places' : Line'[i] \in Requests => Line'[i] \notin asked'
  BY <1>1, <1>2 DEF LineInv
<1>8. \A r \in Requests : (r \in asked' \/ \E i \in Places' : Line'[i] = r)
                            => state'[r] # "unused"
  BY <1>1, <1>2 DEF LineInv
<1> QED BY <1>3, <1>4, <1>5, <1>6, <1>7, <1>8 DEF LineInv

\* Nothing but None joins the line once an end is announced, and a request
\* that joins it is new.
LEMMA JoinKeepsLineInv ==
  ASSUME TypeOK, LineInv, NEW m \in Messages, Joins(m), UNCHANGED <<asked, heard>>,
         \A i \in Places : Line[i] # End,
         m # End => ~Announced,
         m \in Requests => state[m] = "unused" /\ state'[m] # "unused",
         \A r \in Requests : state[r] # "unused" => state'[r] # "unused"
  PROVE  LineInv'
<1> DEFINE n == Len(Line)
<1>1. /\ n \in Nat /\ Places = 1..n /\ Places' = 1..(n + 1)
      /\ \A i \in 1..n : Line'[i] = Line[i] /\ Line[i] \in Messages
      /\ Line'[n + 1] = m /\ Len(Line') = n + 1
  BY LineTypes DEF Joins, Places
<1> HIDE DEF n
<1>2. ASSUME NEW i \in Places', NEW j \in Places', i < j, Line'[i] \in Terminal
      PROVE  Line'[j] = End
  <2>1. i \in 1..n /\ Line[i] \in Terminal
    BY <1>1, <1>2
  <2>2. m = End
    BY <1>1, <2>1 DEF Announced
  <2>3. CASE j \in 1..n
    BY <1>1, <1>2, <2>1, <2>3 DEF LineInv
  <2> QED BY <1>1, <1>2, <2>2, <2>3
<1>3. ASSUME NEW i \in Places', Line'[i] = End PROVE i = Len(Line')
  BY <1>1, <1>3
<1>4. ASSUME NEW i \in Places', NEW j \in Places', Line'[i] \in Requests,
             Line'[i] = Line'[j]
      PROVE  i = j
  <2>1. m \in Requests => \A l \in 1..n : Line[l] # m
    BY <1>1 DEF LineInv
  <2>2. CASE i \in 1..n /\ j \in 1..n
    BY <1>1, <1>4, <2>2 DEF LineInv
  <2>3. CASE i = n + 1 \/ j = n + 1
    BY <1>1, <1>4, <2>1, <2>3
  <2> QED BY <1>1, <2>2, <2>3
<1>5. \A i \in Places' : Line'[i] \in Requests => Line'[i] \notin asked'
  <2>1. m \in Requests => m \notin asked
    BY DEF LineInv
  <2> QED BY <1>1, <2>1 DEF LineInv
<1>6. \A r \in Requests : (r \in asked' \/ \E i \in Places' : Line'[i] = r)
                            => state'[r] # "unused"
  <2> SUFFICES ASSUME NEW r \in Requests, r \in asked' \/ \E i \in Places' : Line'[i] = r
               PROVE  state'[r] # "unused"
    OBVIOUS
  <2>1. CASE r \in asked
    BY <2>1 DEF LineInv
  <2>2. CASE \E i \in 1..n : Line[i] = r
    BY <1>1, <2>2 DEF LineInv
  <2>3. CASE r = m
    BY <2>3
  <2>4. r \in asked \/ r = m \/ \E i \in 1..n : Line[i] = r
    BY <1>1
  <2> QED BY <2>1, <2>2, <2>3, <2>4
<1>7. heard' # "nothing" => \A i \in Places' : Line'[i] = End
  BY <1>1 DEF LineInv, Announced
<1> QED BY <1>2, <1>3, <1>4, <1>5, <1>6, <1>7 DEF LineInv

-------------------------------------------------------------------------------
(* Steps *)

LEMMA InitStreamInv == Init => StreamInv
<1> SUFFICES ASSUME Init PROVE StreamInv
  OBVIOUS
<1>1. TypeOK
  BY InitTypeOK
<1>2. Len(Line) = 0 /\ Places = {}
  <2>1. Len(downlink) = 0 /\ Len(outbound) = 0
    BY DEF Init
  <2> QED BY <1>1, <2>1, LineTypes DEF Places
<1>3. LineInv
  BY <1>2 DEF Init, LineInv
<1>4. RunnerInv
  BY <1>2 DEF Init, RunnerInv, Announced
<1> QED BY <1>1, <1>3, <1>4 DEF StreamInv

\* The steps that leave the line alone, with what they do to the rest.
Aside ==
  /\ UNCHANGED <<downlink, outbound, asked, heard>>
  /\ \A r \in Requests : state[r] # "unused" => state'[r] # "unused"

CallsAside ==
  \A r \in Requests : state[r] # "unused" => state'[r] # "unused"

LEMMA CallsGoOn ==
  ASSUME TypeOK, \/ UNCHANGED callVars
                 \/ \E r \in Requests, p \in Payloads : Calls!Answer(r, p)
                 \/ \E r \in Requests : Calls!Open(r) \/ Calls!Fail(r)
                 \/ CancelAdapter
  PROVE  CallsAside
BY DEF TypeOK, CallsAside, callVars, Calls!Answer, Calls!Open, Calls!Fail, Calls!Close,
       Calls!TypeOK, CancelAdapter

LEMMA ReadIsAside ==
  ASSUME TypeOK, ReadMessage
  PROVE  Aside /\ UNCHANGED <<handler, runner, link, client, broken>>
<1> DEFINE m == Head(uplink)
<1>1. m \in {Start, Other} \cup Answers
  BY HeadTailProperties DEF ReadMessage, TypeOK
<1>2. IsAnswer(m) => m.id \in Requests /\ m.payload \in Payloads
  BY <1>1 DEF IsAnswer, Start, Other, Answers
<1>3. UNCHANGED callVars \/ (IsAnswer(m) /\ Calls!Answer(m.id, m.payload))
  BY DEF ReadMessage, Deliver
<1> HIDE DEF m
<1>4. CallsAside
  BY <1>2, <1>3, CallsGoOn
<1> QED BY <1>4 DEF Aside, CallsAside, ReadMessage, serverVars, clientVars

LEMMA AsideKeepsLine ==
  ASSUME StreamInv, Aside
  PROVE  LineInv' /\ Line' = Line /\ Places' = Places /\ Announced' = Announced
<1>1. Line' = Line
  BY DEF Aside, Line
<1>2. Len(Line) \in Nat
  BY LineTypes DEF StreamInv
<1>3. Moves(0)
  BY <1>1, <1>2 DEF Moves
<1>4. LineInv'
  BY <1>3, MoveKeepsLineInv DEF StreamInv, Aside
<1> QED BY <1>1, <1>4 DEF Places, Announced, Aside

LEMMA AsideStepKeepsStreamInv ==
  ASSUME StreamInv, TypeOK', Aside,
         \/ /\ UNCHANGED <<handler, runner, client, broken>>
            /\ link' = "gone" <=> link = "gone"
         \/ UNCHANGED <<handler, runner, link, broken>> /\ handler = "done"
         \/ /\ UNCHANGED <<link, client>>
            /\ handler = "first"
            /\ \/ handler' = "drain" /\ runner' = "optimize" /\ UNCHANGED broken
               \/ handler' = "done" /\ UNCHANGED runner /\ broken' \in BOOLEAN
         \/ /\ UNCHANGED <<handler, link, client>>
            /\ \/ /\ UNCHANGED broken
                  /\ \/ runner = "optimize" /\ runner' \in {"complete", "error"}
                     \/ runner = "complete" /\ runner' = "error"
                     \/ runner = "cancel" /\ runner' = "done"
               \/ runner = "optimize" /\ runner' = "end" /\ broken'
  PROVE  StreamInv'
<1>1. LineInv' /\ Line' = Line /\ Places' = Places /\ Announced' = Announced
  BY AsideKeepsLine
<1>2. UNCHANGED <<downlink, outbound>>
  BY DEF Aside
<1>3. RunnerInv'
  BY <1>1, <1>2 DEF StreamInv, RunnerInv
<1> QED BY <1>1, <1>3 DEF StreamInv

LEMMA JoinStepKeepsStreamInv ==
  ASSUME StreamInv, TypeOK', NEW m \in Messages,
         outbound' = Append(outbound, m),
         UNCHANGED <<handler, downlink, link, clientVars, broken>>,
         m \in Requests => state[m] = "unused" /\ state'[m] # "unused",
         CallsAside,
         \/ runner = "optimize" /\ runner' = "optimize" /\ m \in Requests \cup {Progress}
         \/ runner \in {"complete", "error"} /\ runner' = "end" /\ m \in Terminal
         \/ runner = "end" /\ runner' = "cancel" /\ m = End
  PROVE  StreamInv'
<1>1. TypeOK /\ LineInv /\ RunnerInv /\ UNCHANGED <<asked, heard, client>>
  BY DEF StreamInv, clientVars
<1>2. Joins(m)
  BY <1>1, AppendJoins
<1>3. /\ Len(Line) \in Nat /\ Places = 1..Len(Line) /\ Places' = 1..(Len(Line) + 1)
      /\ \A i \in Places : Line'[i] = Line[i]
      /\ Line'[Len(Line) + 1] = m /\ Len(Line) + 1 \in Places'
      /\ \A i \in Places' : i \in Places \/ i = Len(Line) + 1
  BY <1>1, <1>2, LineTypes DEF Joins, Places
<1>4. /\ \A i \in Places : Line[i] # End
      /\ m # End => ~Announced
  BY <1>1, KindsAssumption DEF RunnerInv, Terminal, Complete, Error, End
<1>5. LineInv'
  BY <1>1, <1>2, <1>4, JoinKeepsLineInv DEF CallsAside
<1>6. (m \in Terminal \/ Announced) => Announced'
  BY <1>1, <1>3 DEF Announced
<1>7. Announced' => (m \in Terminal \/ Announced)
  BY <1>1, <1>3 DEF Announced
<1>8. (m # End) => \A i \in Places' : Line'[i] # End
  BY <1>3, <1>4
<1>9. /\ m \in Terminal => m # End /\ m \notin Requests \cup {Progress}
      /\ m \in Requests \cup {Progress} => m # End
  BY KindsAssumption DEF Terminal, Complete, Error, End, Progress
<1>10. RunnerInv'
  BY <1>1, <1>6, <1>7, <1>8, <1>9 DEF RunnerInv
<1> QED BY <1>5, <1>10 DEF StreamInv

LEMMA ReceiveKeepsStreamInv ==
  ASSUME StreamInv, TypeOK', Receive
  PROVE  StreamInv'
<1>1. /\ TypeOK /\ LineInv /\ RunnerInv /\ downlink # <<>>
      /\ downlink' = Tail(downlink) /\ link # "gone"
      /\ UNCHANGED <<handler, runner, outbound, link, client, state, broken>>
  BY DEF StreamInv, Receive, Listening, serverVars, callVars
<1> DEFINE m == Head(downlink)
<1>2. Moves(1)
  BY <1>1, TailMoves
<1>3. /\ Len(Line) \in Nat /\ 1 \in Places /\ Line[1] = m
      /\ Len(Line') = Len(Line) - 1
      /\ \A i \in 1..Len(Line') : i + 1 \in Places /\ i + 1 # 1 /\ 1 < i + 1
                                  /\ Line'[i] = Line[i + 1]
  <2>1. /\ Len(downlink) \in Nat \ {0} /\ Len(Line) \in Nat /\ Len(outbound) \in Nat
        /\ Len(Line) = Len(downlink) + Len(outbound)
        /\ Line[1] = downlink[1]
    BY <1>1, LineTypes, EmptySeq
  <2> QED BY <1>2, <2>1 DEF Moves, Places
<1>4. /\ m \in ToClient
      /\ asked' = IF m \in Requests THEN asked \cup {m} ELSE asked
      /\ heard' = IF m \in Terminal THEN m ELSE heard
  BY <1>1, HeadTailProperties DEF Receive, TypeOK
<1>5. m # End
  BY <1>4, KindsAssumption DEF ToClient, Progress, Terminal, Complete, Error, End
<1>6. heard = "nothing"
  BY <1>1, <1>3, <1>5 DEF LineInv
<1>7. Places' = 1..Len(Line')
  BY DEF Places
<1> HIDE DEF m
<1>8. LineInv'
  <2>1. ASSUME NEW i \in Places', NEW j \in Places', i < j, Line'[i] \in Terminal
        PROVE  Line'[j] = End
    <3> DEFINE a == i + 1
               b == j + 1
    <3>1. a < b /\ a \in Places /\ b \in Places /\ Line'[i] = Line[a] /\ Line'[j] = Line[b]
      BY <1>3, <1>7, <2>1
    <3> HIDE DEF a, b
    <3>2. Line[b] = End
      BY <1>1, <2>1, <3>1 DEF LineInv
    <3> QED BY <3>1, <3>2
  <2>2. ASSUME NEW i \in Places', Line'[i] = End PROVE i = Len(Line')
    <3> DEFINE a == i + 1
    <3>1. a \in Places /\ Line[a] = End
      BY <1>3, <1>7, <2>2
    <3> HIDE DEF a
    <3>2. a = Len(Line)
      BY <1>1, <3>1 DEF LineInv
    <3> QED BY <1>3, <1>7, <3>2 DEF a
  <2>3. ASSUME NEW i \in Places', NEW j \in Places', Line'[i] \in Requests,
               Line'[i] = Line'[j]
        PROVE  i = j
    <3>1. i + 1 = j + 1
      BY <1>1, <1>3, <1>7, <2>3 DEF LineInv
    <3> QED BY <1>7, <3>1
  <2>4. ASSUME NEW i \in Places', Line'[i] \in Requests PROVE Line'[i] \notin asked'
    <3> DEFINE a == i + 1
    <3>1. a \in Places /\ a # 1 /\ Line'[i] = Line[a]
      BY <1>3, <1>7
    <3> HIDE DEF a
    <3>2. Line[a] \notin asked /\ Line[a] # Line[1]
      BY <1>1, <1>3, <2>4, <3>1 DEF LineInv
    <3> QED BY <1>3, <1>4, <3>1, <3>2
  <2>5. \A r \in Requests : (r \in asked' \/ \E i \in Places' : Line'[i] = r)
                              => state'[r] # "unused"
    BY <1>1, <1>3, <1>4, <1>7 DEF LineInv
  <2>6. heard' # "nothing" => \A i \in Places' : Line'[i] = End
    BY <1>1, <1>3, <1>4, <1>6, <1>7 DEF LineInv
  <2> QED BY <2>1, <2>2, <2>3, <2>4, <2>5, <2>6 DEF LineInv
<1>9. Announced' = Announced
  <2>1. CASE m \in Terminal
    <3>1. Announced
      BY <1>3, <2>1 DEF Announced
    <3>2. Announced'
      BY <1>4, <2>1 DEF Announced, Terminal, Complete, Error
    <3> QED BY <3>1, <3>2 DEF Announced
  <2>2. CASE m \notin Terminal
    <3>1. (\E i \in Places : Line[i] \in Terminal) => \E i \in Places' : Line'[i] \in Terminal
      <4> SUFFICES ASSUME NEW i \in Places, Line[i] \in Terminal
                   PROVE  \E j \in Places' : Line'[j] \in Terminal
        OBVIOUS
      <4> DEFINE j == i - 1
      <4>1. i # 1
        BY <1>3, <2>2
      <4>2. j \in Places' /\ j + 1 = i
        BY <1>3, <1>7, <4>1 DEF Places
      <4> HIDE DEF j
      <4>3. Line'[j] = Line[i]
        BY <1>3, <1>7, <4>2
      <4> QED BY <4>2, <4>3
    <3>2. (\E i \in Places' : Line'[i] \in Terminal) => \E i \in Places : Line[i] \in Terminal
      BY <1>3, <1>7
    <3> QED BY <1>4, <1>6, <2>2, <3>1, <3>2 DEF Announced
  <2> QED BY <2>1, <2>2
<1>10. /\ runner # "off"
       /\ (\A i \in Places : Line[i] # End) => \A i \in Places' : Line'[i] # End
  BY <1>1, <1>3, <1>7 DEF RunnerInv, Places
<1>11. RunnerInv'
  BY <1>1, <1>9, <1>10 DEF RunnerInv
<1> QED BY <1>8, <1>11 DEF StreamInv

\* The client leaves, and the handler that finds it gone drops a message.
LEMMA LossKeepsStreamInv ==
  ASSUME StreamInv, TypeOK',
         \/ Leave
         \/ Yield /\ link = "gone"
  PROVE  StreamInv'
<1>1. /\ TypeOK /\ LineInv /\ RunnerInv
      /\ UNCHANGED <<runner, asked, heard, client, state, broken>> /\ link' = "gone"
      /\ handler' = handler \/ (handler = "drain" /\ handler' = "done")
  BY DEF StreamInv, Leave, Yield, serverVars, clientVars, callVars
<1>2. /\ Len(downlink') = 0
      /\ \E k \in Nat : Moves(k)
  <2>1. CASE Leave
    <3>1. Moves(Len(downlink)) /\ Len(downlink) \in Nat
      BY <1>1, <2>1, LeaveMoves, LineTypes DEF Leave, serverVars
    <3> QED BY <2>1, <3>1 DEF Leave
  <2>2. CASE Yield /\ link = "gone"
    <3>1. Len(downlink) = 0 /\ UNCHANGED downlink
      BY <1>1, <2>2 DEF Yield, RunnerInv
    <3>2. Moves(1)
      BY <1>1, <2>2, <3>1, TailMoves DEF Yield
    <3> QED BY <3>1, <3>2
  <2> QED BY <2>1, <2>2
<1>3. PICK k \in Nat : Moves(k)
  BY <1>2
<1>4. LineInv'
  BY <1>1, <1>3, MoveKeepsLineInv
<1>5. /\ Len(Line) \in Nat /\ Len(Line') \in Nat /\ Len(Line') <= Len(Line)
      /\ \A i \in Places' : i + k \in Places /\ Line'[i] = Line[i + k]
  BY <1>1, <1>3, LineTypes DEF Moves, Places
<1>6. /\ Announced' => Announced
      /\ (\A i \in Places : Line[i] # End) => \A i \in Places' : Line'[i] # End
      /\ Len(Line) = 0 => Len(Line') = 0
  BY <1>1, <1>5 DEF Announced
<1>7. RunnerInv'
  BY <1>1, <1>2, <1>6 DEF RunnerInv
<1> QED BY <1>4, <1>7 DEF StreamInv

\* The handler passes a message on to a client that is there.
LEMMA YieldKeepsStreamInv ==
  ASSUME StreamInv, TypeOK', Yield, link # "gone"
  PROVE  StreamInv'
<1>1. /\ TypeOK /\ LineInv /\ RunnerInv
      /\ UNCHANGED <<handler, runner, asked, heard, link, client, state, broken>>
      /\ handler = "drain"
      /\ outbound # <<>> /\ outbound' = Tail(outbound)
      /\ downlink' = Append(downlink, Head(outbound))
  BY DEF StreamInv, Yield, clientVars, callVars
<1>2. Moves(0)
  BY <1>1, YieldMoves
<1>3. LineInv'
  BY <1>1, <1>2, MoveKeepsLineInv
<1>4. /\ Len(Line') = Len(Line) /\ Places' = Places
      /\ \A i \in Places : Line'[i] = Line[i]
  <2>1. Len(Line) \in Nat
    BY <1>1, LineTypes
  <2>2. Len(Line') = Len(Line) /\ \A i \in 1..Len(Line') : Line'[i] = Line[i + 0] /\ i + 0 = i
    BY <1>2, <2>1 DEF Moves
  <2> QED BY <2>1, <2>2 DEF Places
<1>5. Announced' = Announced
  BY <1>1, <1>4 DEF Announced
<1>6. RunnerInv'
  BY <1>1, <1>4, <1>5 DEF RunnerInv
<1> QED BY <1>3, <1>6 DEF StreamInv

\* None is last: the handler that takes it leaves an empty queue.
LEMMA ReturnKeepsStreamInv ==
  ASSUME StreamInv, TypeOK', HandlerReturns
  PROVE  StreamInv'
<1>1. /\ TypeOK /\ LineInv /\ RunnerInv
      /\ UNCHANGED <<runner, asked, heard, link, client, state, downlink, broken>>
      /\ handler = "drain" /\ handler' = "done"
      /\ outbound # <<>> /\ outbound' = Tail(outbound) /\ Head(outbound) = End
  BY DEF StreamInv, HandlerReturns, IsEnd, wireVars, clientVars, callVars
<1>2. /\ downlink \in Seq(Messages) /\ outbound \in Seq(Messages)
      /\ Len(Line) \in Nat /\ Len(downlink) \in Nat /\ Len(outbound) \in Nat \ {0}
      /\ Len(Line) = Len(downlink) + Len(outbound)
      /\ \A i \in 1..Len(downlink) : Line[i] = downlink[i]
      /\ Line[Len(downlink) + 1] = outbound[1]
      /\ Head(outbound) = outbound[1]
  BY <1>1, LineTypes, EmptySeq
<1>3. Len(outbound) = 1 /\ Line[Len(Line)] = End
  <2> DEFINE p == Len(downlink) + 1
  <2>1. p \in Places
    BY <1>2 DEF Places
  <2>2. Line[p] = End
    BY <1>1, <1>2
  <2> HIDE DEF p
  <2>3. p = Len(Line)
    BY <1>1, <2>1, <2>2 DEF LineInv
  <2>4. Len(downlink) \in Nat /\ Len(outbound) \in Nat
    BY <1>2
  <2>5. Len(downlink) + 1 = Len(downlink) + Len(outbound)
    BY <1>2, <2>3 DEF p
  <2>6. \A a, b \in Nat : a + 1 = a + b => b = 1
    OBVIOUS
  <2>7. Len(outbound) = 1
    BY <2>4, <2>5, <2>6
  <2> QED BY <2>2, <2>3, <2>7
<1>4. Len(outbound') = 0 /\ outbound' \in Seq(Messages)
  BY <1>1, <1>2, <1>3, HeadTailProperties
<1>5. /\ Len(Line') = Len(downlink)
      /\ \A i \in 1..Len(downlink) : Line'[i] = downlink[i]
  BY <1>1, <1>2, <1>4, LineElements DEF Line
<1>6. Closes
  BY <1>2, <1>3, <1>5 DEF Closes
<1>7. LineInv'
  BY <1>1, <1>6, CloseKeepsLineInv
<1>8. /\ Places' = 1..Len(downlink) /\ Places = 1..(Len(downlink) + 1)
      /\ \A i \in Places' : i \in Places /\ Line'[i] = Line[i]
      /\ \A i \in Places : i \in Places' \/ Line[i] = End
  BY <1>2, <1>3, <1>5 DEF Places
<1>9. Announced' = Announced
  <2>1. End \notin Terminal
    BY DEF End, Terminal, Complete, Error
  <2> QED BY <1>1, <1>8, <2>1 DEF Announced
<1>10. runner \in {"cancel", "done"}
  BY <1>1, <1>2, <1>3 DEF RunnerInv, Places
<1>11. RunnerInv'
  BY <1>1, <1>4, <1>9, <1>10 DEF RunnerInv
<1> QED BY <1>7, <1>11 DEF StreamInv

LEMMA ClientKeepsStreamInv ==
  ASSUME StreamInv, TypeOK', ClientStep \/ Receive \/ SeeEnd
  PROVE  StreamInv'
<1>1. ASSUME NEW m, Send(m) PROVE StreamInv'
  <2>1. Aside /\ UNCHANGED <<handler, runner, link, client, broken>>
    BY <1>1 DEF Send, Aside, serverVars, clientVars, callVars
  <2> QED BY <2>1, AsideStepKeepsStreamInv
<1>2. CASE HalfClose
  <2>1. /\ Aside /\ UNCHANGED <<handler, runner, client, broken>>
        /\ link = "open" /\ link' = "half"
    BY <1>2 DEF HalfClose, Aside, serverVars, clientVars, callVars
  <2> QED BY <2>1, AsideStepKeepsStreamInv
<1>3. CASE SeeEnd
  <2>1. Aside /\ UNCHANGED <<handler, runner, link, broken>> /\ handler = "done"
    BY <1>3 DEF SeeEnd, Aside, serverVars, callVars
  <2> QED BY <2>1, AsideStepKeepsStreamInv
<1> QED
  BY <1>1, <1>2, <1>3, ReceiveKeepsStreamInv, LossKeepsStreamInv
  DEF ClientStep, SendFirst, SendAnswer, SendSecondStart

LEMMA HandlerKeepsStreamInv ==
  ASSUME StreamInv, TypeOK', Handler
  PROVE  StreamInv'
<1>1. CASE StartRun
  <2>1. /\ Aside /\ UNCHANGED <<link, client>>
        /\ handler = "first" /\ handler' = "drain" /\ runner' = "optimize"
        /\ UNCHANGED broken
    BY <1>1 DEF StartRun, Aside, clientVars, callVars
  <2> QED BY <2>1, AsideStepKeepsStreamInv
<1>2. CASE RefuseRun \/ StartFails
  <2>1. /\ Aside /\ UNCHANGED <<runner, link, client>>
        /\ handler = "first" /\ handler' = "done" /\ broken' \in BOOLEAN
    BY <1>2 DEF RefuseRun, StartFails, Aside, clientVars, callVars, StreamInv, TypeOK
  <2> QED BY <2>1, AsideStepKeepsStreamInv
<1> QED
  BY <1>1, <1>2, LossKeepsStreamInv, YieldKeepsStreamInv, ReturnKeepsStreamInv
    DEF Handler

LEMMA ReaderKeepsStreamInv ==
  ASSUME StreamInv, TypeOK', Reader \/ \E r \in Requests : FailCall(r)
  PROVE  StreamInv'
<1> USE DEF Aside, serverVars, wireVars, clientVars
<1>1. CASE ReadMessage
  BY <1>1, ReadIsAside, AsideStepKeepsStreamInv DEF StreamInv
<1>2. CASE ReaderEnds \/ ReaderCancels
  <2>1. UNCHANGED callVars \/ CancelAdapter
    BY <1>2 DEF ReaderEnds, ReaderCancels
  <2>2. Aside /\ UNCHANGED <<handler, runner, link, client, broken>>
    BY <1>2, <2>1, CallsGoOn DEF ReaderEnds, ReaderCancels, CallsAside, StreamInv
  <2> QED BY <2>2, AsideStepKeepsStreamInv
<1>3. ASSUME NEW r \in Requests, FailCall(r) PROVE StreamInv'
  <2>1. Aside /\ UNCHANGED <<handler, runner, link, client, broken>>
    BY <1>3, CallsGoOn DEF FailCall, CallsAside, StreamInv
  <2> QED BY <2>1, AsideStepKeepsStreamInv
<1> QED BY <1>1, <1>2, <1>3 DEF Reader

LEMMA RunnerKeepsStreamInv ==
  ASSUME StreamInv, TypeOK', Runner
  PROVE  StreamInv'
<1> USE DEF wireVars, clientVars
<1>1. ASSUME NEW r \in Requests, CallClient(r) PROVE StreamInv'
  <2>1. /\ state[r] = "unused" /\ state'[r] # "unused" /\ CallsAside
    BY <1>1, CallsGoOn DEF CallClient, Calls!Open, StreamInv, TypeOK, Calls!TypeOK
  <2>2. r \in Messages
    BY DEF Messages, ToClient
  <2> QED BY <1>1, <2>1, <2>2, JoinStepKeepsStreamInv DEF CallClient, Optimizing
<1>2. CASE EmitProgress
  <2>1. CallsAside
    BY <1>2, CallsGoOn DEF EmitProgress, StreamInv
  <2>2. Progress \in Messages /\ Progress \notin Requests
    BY KindsAssumption DEF Messages, ToClient
  <2> QED BY <1>2, <2>1, <2>2, JoinStepKeepsStreamInv DEF EmitProgress, Optimizing
<1>3. CASE PutComplete \/ PutError \/ PutEnd
  <2>1. CallsAside
    BY <1>3, CallsGoOn DEF PutComplete, PutError, PutEnd, Put, StreamInv
  <2>2. /\ {Complete, Error, End} \subseteq Messages
        /\ {Complete, Error, End} \cap Requests = {}
    BY KindsAssumption DEF Messages, ToClient, Terminal
  <2>3. CASE PutComplete
    BY <2>1, <2>2, <2>3, JoinStepKeepsStreamInv DEF PutComplete, Put, Terminal
  <2>4. CASE PutError
    BY <2>1, <2>2, <2>4, JoinStepKeepsStreamInv DEF PutError, Put, Terminal
  <2>5. CASE PutEnd
    BY <2>1, <2>2, <2>5, JoinStepKeepsStreamInv DEF PutEnd, Put, Terminal
  <2> QED BY <1>3, <2>3, <2>4, <2>5
<1>4. CASE \/ CallReturns \/ CallRaises \/ OptimizerEnds \/ OptimizerExits
           \/ CompleteFails \/ RunnerCancels
  <2>1. UNCHANGED callVars \/ CancelAdapter
    BY <1>4 DEF CallReturns, CallRaises, OptimizerEnds, OptimizerExits, CompleteFails,
                RunnerCancels
  <2>2. Aside
    BY <1>4, <2>1, CallsGoOn
    DEF CallReturns, CallRaises, OptimizerEnds, OptimizerExits, CompleteFails,
        RunnerCancels, Aside, CallsAside, StreamInv
  <2>3. /\ UNCHANGED <<handler, link, client>>
        /\ \/ /\ UNCHANGED broken
              /\ \/ UNCHANGED runner
                 \/ runner = "optimize" /\ runner' \in {"complete", "error"}
                 \/ runner = "complete" /\ runner' = "error"
                 \/ runner = "cancel" /\ runner' = "done"
           \/ runner = "optimize" /\ runner' = "end" /\ broken'
    BY <1>4 DEF CallReturns, CallRaises, OptimizerEnds, OptimizerExits, Optimizing,
                CompleteFails, RunnerCancels
  <2> QED BY <2>2, <2>3, AsideStepKeepsStreamInv
<1> QED BY <1>1, <1>2, <1>3, <1>4 DEF Runner, Report

LEMMA NextStreamInv == StreamInv /\ [Next]_vars => StreamInv'
<1> SUFFICES ASSUME StreamInv, [Next]_vars PROVE StreamInv'
  OBVIOUS
<1>1. TypeOK'
  BY NextTypeOK DEF StreamInv
<1>2. CASE UNCHANGED vars
  <2>1. Aside /\ UNCHANGED <<handler, runner, link, client, broken>>
    BY <1>2 DEF vars, serverVars, wireVars, clientVars, callVars, Aside
  <2> QED BY <1>1, <2>1, AsideStepKeepsStreamInv
<1> QED
  BY <1>1, <1>2, ClientKeepsStreamInv, HandlerKeepsStreamInv, ReaderKeepsStreamInv,
     RunnerKeepsStreamInv
  DEF Next, Over

-------------------------------------------------------------------------------
(* The contract *)

\* What the client has been told, read off the line: one decision at most.
ToldIsOnLine == Told = {m \in Terminal : m = heard \/ \E i \in Places : Line[i] = m}

OneDecision ==
  /\ Announced <=> Told # {}
  /\ \A m \in Told : Told = {m}
  /\ heard # "nothing" => Told = {heard}

LEMMA ToldOnLine == TypeOK => ToldIsOnLine
<1> SUFFICES ASSUME TypeOK PROVE ToldIsOnLine
  OBVIOUS
<1>1. /\ downlink \in Seq(Messages) /\ outbound \in Seq(Messages)
      /\ Len(downlink) \in Nat /\ Len(outbound) \in Nat
      /\ Len(Line) = Len(downlink) + Len(outbound)
      /\ \A i \in 1..Len(downlink) : Line[i] = downlink[i]
      /\ \A i \in 1..Len(outbound) : Line[Len(downlink) + i] = outbound[i]
  BY LineTypes
<1>2. DOMAIN downlink = 1..Len(downlink) /\ DOMAIN outbound = 1..Len(outbound)
  BY <1>1, LenProperties
<1>3. ASSUME NEW m, NEW i \in Places, Line[i] = m
      PROVE  m \in ToSet(outbound) \cup ToSet(downlink)
  <2>1. CASE i <= Len(downlink)
    <3>1. i \in 1..Len(downlink)
      BY <1>1, <2>1 DEF Places
    <3> QED BY <1>1, <1>2, <1>3, <3>1 DEF ToSet
  <2>2. CASE i > Len(downlink)
    <3> DEFINE j == i - Len(downlink)
    <3>1. j \in 1..Len(outbound) /\ Len(downlink) + j = i
      BY <1>1, <2>2 DEF Places
    <3> HIDE DEF j
    <3>2. outbound[j] = m
      BY <1>1, <1>3, <3>1
    <3> QED BY <1>2, <3>1, <3>2 DEF ToSet
  <2> QED BY <1>1, <2>1, <2>2 DEF Places
<1>4. ASSUME NEW m \in ToSet(downlink) PROVE \E i \in Places : Line[i] = m
  <2>1. PICK i \in 1..Len(downlink) : downlink[i] = m
    BY <1>2 DEF ToSet
  <2>2. i \in Places
    BY <1>1 DEF Places
  <2> QED BY <1>1, <2>1, <2>2
<1>5. ASSUME NEW m \in ToSet(outbound) PROVE \E i \in Places : Line[i] = m
  <2>1. PICK i \in 1..Len(outbound) : outbound[i] = m
    BY <1>2 DEF ToSet
  <2> DEFINE j == Len(downlink) + i
  <2>2. j \in Places
    BY <1>1 DEF Places
  <2>3. Line[j] = m
    BY <1>1, <2>1
  <2> HIDE DEF j
  <2> QED BY <2>2, <2>3
<1> QED BY <1>3, <1>4, <1>5 DEF Told, ToldIsOnLine

LEMMA ToldIsOne == StreamInv => OneDecision
<1> SUFFICES ASSUME StreamInv PROVE OneDecision
  OBVIOUS
<1>1. /\ Told = {m \in Terminal : m = heard \/ \E i \in Places : Line[i] = m}
      /\ LineInv /\ heard \in Terminal \cup {"nothing"} /\ Len(Line) \in Nat
  BY ToldOnLine, LineTypes DEF StreamInv, TypeOK, ToldIsOnLine
<1>2. "nothing" \notin Terminal /\ End \notin Terminal
  BY DEF Terminal, Complete, Error, End
<1>3. ASSUME NEW m \in Told, NEW l \in Told PROVE l = m
  <2>1. CASE heard # "nothing"
    BY <1>1, <1>2, <1>3, <2>1 DEF LineInv
  <2>2. CASE heard = "nothing"
    <3>1. PICK i \in Places, j \in Places : Line[i] = m /\ Line[j] = l
      BY <1>1, <1>2, <2>2
    <3>2. Line[i] \in Terminal /\ Line[j] \in Terminal
      BY <1>1, <3>1
    <3>3. ~(i < j) /\ ~(j < i)
      BY <1>1, <1>2, <3>2 DEF LineInv
    <3>4. i = j
      BY <1>1, <3>3 DEF Places
    <3> QED BY <3>1, <3>4
  <2> QED BY <2>1, <2>2
<1>4. Announced <=> Told # {}
  BY <1>1, <1>2 DEF Announced
<1>5. heard # "nothing" => heard \in Told
  BY <1>1
<1> QED BY <1>3, <1>4, <1>5 DEF OneDecision

\* The same after a step.
LEMMA ToldNext == StreamInv' => ToldIsOnLine' /\ OneDecision'
<1>1. StreamInv => ToldIsOnLine /\ OneDecision
  BY ToldOnLine, ToldIsOne DEF StreamInv
<1> QED BY <1>1, PTL

\* Nothing reaches the client after the decision, and no request twice.
LEMMA ReceivedIsNew ==
  ASSUME StreamInv, Receive
  PROVE  /\ heard = "nothing"
         /\ Head(downlink) \in ToClient
         /\ Head(downlink) \notin asked
<1>1. TypeOK /\ LineInv /\ downlink # <<>>
  BY DEF StreamInv, Receive
<1>2. /\ Len(downlink) \in Nat \ {0} /\ Len(Line) \in Nat /\ Len(outbound) \in Nat
      /\ Len(Line) = Len(downlink) + Len(outbound)
      /\ Line[1] = downlink[1]
  BY <1>1, LineTypes, EmptySeq
<1>3. 1 \in Places /\ Line[1] = Head(downlink) /\ Head(downlink) \in ToClient
  BY <1>1, <1>2, HeadTailProperties DEF Places, TypeOK
<1>4. Head(downlink) # End
  BY <1>3, KindsAssumption DEF ToClient, Progress, Terminal, Complete, Error, End
<1>5. asked \subseteq Requests
  BY <1>1 DEF TypeOK
<1> QED BY <1>1, <1>3, <1>4, <1>5 DEF LineInv

\* What the client may know of its run changes with what it is told, when it
\* leaves and when the run begins or breaks.
LEMMA RunIsKept ==
  ASSUME Told' = Told, link' = "gone" <=> link = "gone", UNCHANGED broken,
         runner' = "off" <=> runner = "off"
  PROVE  Run' = Run
<1>1. CASE link = "gone"
  BY <1>1 DEF Run
<1>2. CASE link # "gone" /\ Told # {}
  BY <1>2 DEF Run
<1>3. CASE link # "gone" /\ Told = {}
  BY <1>3 DEF Run
<1> QED BY <1>1, <1>2, <1>3

LEMMA InitContract == Init => Contract!Init
<1> SUFFICES ASSUME Init PROVE Contract!Init
  OBVIOUS
<1>1. Told = {}
  <2>1. StreamInv /\ ~Announced
    BY InitStreamInv DEF Init, StreamInv, RunnerInv
  <2> QED BY <2>1, ToldIsOne, ToldNext DEF OneDecision
<1> QED BY <1>1 DEF Init, Contract!Init, Run

\* The steps of the server and the client that say nothing to the client.
LEMMA AsideStutters ==
  ASSUME StreamInv, Aside, UNCHANGED <<client, broken>>,
         link' = "gone" <=> link = "gone", runner' = "off" <=> runner = "off"
  PROVE  UNCHANGED Contract!vars
<1>1. Told' = Told
  BY DEF Aside, Told
<1>2. Run' = Run
  BY <1>1, RunIsKept
<1> QED BY <1>2 DEF Contract!vars, Aside

\* A request, an update or None on the queue is not heard of yet.
LEMMA JoinStutters ==
  ASSUME StreamInv, StreamInv', NEW m \in Messages \ Terminal,
         outbound' = Append(outbound, m),
         UNCHANGED <<downlink, link, clientVars, broken>>, runner # "off", runner' # "off"
  PROVE  UNCHANGED Contract!vars
<1>1. /\ Told = {l \in Terminal : l = heard \/ \E i \in Places : Line[i] = l}
      /\ Told' = {l \in Terminal : l = heard' \/ \E i \in Places' : Line'[i] = l}
      /\ UNCHANGED <<asked, heard, client>>
  BY ToldOnLine, ToldNext DEF StreamInv, ToldIsOnLine, clientVars
<1>2. Joins(m)
  BY AppendJoins DEF StreamInv
<1>3. /\ Len(Line) \in Nat /\ Places' = 1..(Len(Line) + 1) /\ Places = 1..Len(Line)
      /\ \A i \in Places : i \in Places' /\ Line'[i] = Line[i]
      /\ \A i \in Places' : i \in Places \/ Line'[i] = m
  BY <1>2, LineTypes DEF StreamInv, Joins, Places
<1>4. Told' = Told
  BY <1>1, <1>3
<1>5. Run' = Run
  BY <1>4, RunIsKept
<1> QED BY <1>1, <1>5 DEF Contract!vars

\* The terminal message is queued: to the client that is there, the decision.
LEMMA PutTerminalDecides ==
  ASSUME StreamInv, StreamInv', NEW m \in Terminal,
         outbound' = Append(outbound, m),
         UNCHANGED <<downlink, link, clientVars>>,
         runner \in {"complete", "error"}, runner' = "end"
  PROVE  [Contract!Next]_Contract!vars
<1>1. UNCHANGED <<asked, heard, client>>
  BY DEF clientVars
<1>2. CASE link = "gone"
  BY <1>1, <1>2 DEF Run, Contract!vars
<1>3. CASE link # "gone"
  <2>1. Told = {}
    BY ToldIsOne DEF OneDecision, StreamInv, RunnerInv
  <2>2. m \in Messages
    BY DEF Messages, ToClient
  <2>3. Joins(m)
    BY <2>2, AppendJoins DEF StreamInv
  <2>4. Len(Line) + 1 \in Places' /\ Line'[Len(Line) + 1] = m
    BY <2>3, LineTypes DEF StreamInv, Joins, Places
  <2>5. Told' = {l \in Terminal : l = heard' \/ \E i \in Places' : Line'[i] = l}
    BY ToldNext DEF ToldIsOnLine
  <2>6. m \in Told'
    BY <2>4, <2>5
  <2>7. Told' = {m}
    BY <2>6, ToldNext DEF OneDecision
  <2>8. Run = "running" /\ Run' = m
    BY <1>3, <2>1, <2>7 DEF Run, StreamInv, RunnerInv
  <2>9. Contract!Decide
    BY <1>1, <2>8 DEF Contract!Decide, Contract!Terminal, Terminal, Complete, Error
  <2> QED BY <2>9 DEF Contract!Next
<1> QED BY <1>2, <1>3

\* What the client receives it is asked, or hears, or does not care about.
LEMMA ReceiveImplements ==
  ASSUME StreamInv, StreamInv', Receive
  PROVE  [Contract!Next]_Contract!vars
<1> DEFINE m == Head(downlink)
<1>1. /\ TypeOK /\ LineInv /\ RunnerInv /\ downlink # <<>>
      /\ downlink' = Tail(downlink) /\ link # "gone"
      /\ UNCHANGED <<runner, outbound, link, client, broken>>
      /\ asked' = IF m \in Requests THEN asked \cup {m} ELSE asked
      /\ heard' = IF m \in Terminal THEN m ELSE heard
  BY DEF StreamInv, Receive, Listening, serverVars
<1>2. /\ 1 \in Places /\ Line[1] = m /\ Len(Line) \in Nat \ {0}
      /\ m = downlink[1] /\ m \in ToClient
  <2>1. /\ Len(downlink) \in Nat \ {0} /\ Len(Line) \in Nat /\ Len(outbound) \in Nat
        /\ Len(Line) = Len(downlink) + Len(outbound)
        /\ Line[1] = downlink[1]
    BY <1>1, LineTypes, EmptySeq
  <2> QED BY <1>1, <2>1, HeadTailProperties DEF Places, TypeOK
<1>3. /\ Len(Line') = Len(Line) - 1
      /\ \A i \in 1..Len(Line') : i + 1 \in Places /\ Line'[i] = Line[i + 1]
  BY <1>1, <1>2, TailMoves DEF Moves, Places
<1> HIDE DEF m
<1>4. /\ Told = {l \in Terminal : l = heard \/ \E i \in Places : Line[i] = l}
      /\ Told' = {l \in Terminal : l = heard' \/ \E i \in Places' : Line'[i] = l}
  BY ToldOnLine, ToldNext DEF StreamInv, ToldIsOnLine
<1>5. runner # "off" /\ heard = "nothing"
  <2>1. m # End
    BY <1>2, KindsAssumption DEF ToClient, Progress, Terminal, Complete, Error, End
  <2> QED BY <1>1, <1>2, <2>1 DEF RunnerInv, LineInv
<1>6. "nothing" \notin Terminal /\ Requests \cap Terminal = {}
  BY KindsAssumption DEF Terminal, Complete, Error
<1>7. CASE m \in Terminal
  <2>1. m \in Told /\ m \in Told'
    BY <1>1, <1>2, <1>4, <1>7
  <2>2. Told = {m} /\ Told' = {m}
    BY <2>1, ToldIsOne, ToldNext DEF OneDecision
  <2>3. Run = m /\ Run' = m
    BY <1>1, <2>2 DEF Run
  <2>4. Contract!Hear
    BY <1>1, <1>5, <1>6, <1>7, <2>3
    DEF Contract!Hear, Contract!Terminal, Terminal, Complete, Error
  <2> QED BY <2>4 DEF Contract!Next
<1>8. CASE m \notin Terminal
  <2>1. Told' \subseteq Told
    <3>1. Places' = 1..Len(Line')
      BY DEF Places
    <3> QED BY <1>1, <1>3, <1>4, <1>8, <3>1
  <2>2. Told \subseteq Told'
    <3> SUFFICES ASSUME NEW l \in Told PROVE l \in Told'
      OBVIOUS
    <3>1. PICK i \in Places : Line[i] = l
      BY <1>4, <1>5, <1>6
    <3> DEFINE j == i - 1
    <3>2. i # 1
      BY <1>2, <1>4, <1>8, <3>1
    <3>3. j \in Places' /\ j \in 1..Len(Line') /\ j + 1 = i
      BY <1>2, <1>3, <3>2 DEF Places
    <3> HIDE DEF j
    <3>4. Line'[j] = l
      BY <1>3, <3>1, <3>3
    <3> QED BY <1>4, <3>3, <3>4
  <2>3. Run' = Run
    BY <1>1, <2>1, <2>2, RunIsKept
  <2>4. CASE m \in Requests
    <3>0. m \notin asked
      BY <1>1, <1>2, <2>4 DEF LineInv
    <3>1. m \notin asked /\ Run \notin {"waiting", "lost"}
      <4>2. CASE Told = {}
        BY <1>1, <1>5, <3>0, <4>2 DEF Run
      <4>3. CASE Told # {}
        <5>1. Run \in Told
          BY <1>1, <4>3 DEF Run
        <5> QED BY <1>4, <3>0, <5>1 DEF Terminal, Complete, Error
      <4> QED BY <4>2, <4>3
    <3>2. Contract!Ask(m)
      BY <1>1, <1>5, <1>8, <2>3, <2>4, <3>1 DEF Contract!Ask
    <3> QED BY <2>4, <3>2 DEF Contract!Next
  <2>5. CASE m \notin Requests
    BY <1>1, <1>8, <2>3, <2>5 DEF Contract!vars
  <2> QED BY <2>4, <2>5
<1> QED BY <1>7, <1>8

\* The client sees the end only when it was refused, has heard, or its run is
\* broken.
LEMMA SeeEndImplements ==
  ASSUME StreamInv, SeeEnd
  PROVE  Contract!Next
<1>1. /\ RunnerInv /\ TypeOK /\ link # "gone" /\ client = "on" /\ client' = "ended"
      /\ handler = "done" /\ downlink = <<>>
      /\ Aside /\ UNCHANGED <<runner, link, broken>>
  BY DEF StreamInv, SeeEnd, Listening, Aside, serverVars, callVars
<1>2. Told' = Told /\ Run' = Run
  <2>1. Told' = Told
    BY <1>1 DEF Aside, Told
  <2> QED BY <1>1, <2>1, RunIsKept
<1>3. Run \in {"waiting", "broken"} \/ (Run \in Contract!Terminal /\ heard = Run)
  <2>1. CASE runner = "off"
    <3>1. Told = {}
      BY <1>1, <2>1, ToldIsOne DEF OneDecision, RunnerInv
    <3> QED BY <1>1, <2>1, <3>1 DEF Run
  <2>2. CASE runner # "off" /\ broken
    <3>1. Told = {}
      BY <1>1, <2>2, ToldIsOne DEF OneDecision, RunnerInv
    <3> QED BY <1>1, <2>2, <3>1 DEF Run
  <2>3. CASE runner # "off" /\ ~broken
    <3>1. Announced /\ Len(outbound) = 0
      BY <1>1, <2>3 DEF RunnerInv
    <3>2. Places = {}
      <4>1. Len(Line) = 0
        BY <1>1, <3>1, LineTypes
      <4> QED BY <4>1 DEF Places
    <3>3. heard # "nothing" /\ heard \in Terminal /\ Told = {heard}
      BY <1>1, <3>1, <3>2, ToldIsOne DEF OneDecision, Announced, TypeOK
    <3>4. Run = heard
      BY <1>1, <3>3 DEF Run
    <3> QED BY <3>3, <3>4 DEF Contract!Terminal, Terminal, Complete, Error
  <2> QED BY <2>1, <2>2, <2>3
<1>4. Contract!SeeEnd
  BY <1>1, <1>2, <1>3 DEF Contract!SeeEnd, Aside
<1> QED BY <1>4 DEF Contract!Next

\* A run that no decision will come of breaks, for the client that is there.
LEMMA BreakImplements ==
  ASSUME StreamInv, Aside, StartFails \/ OptimizerExits
  PROVE  [Contract!Next]_Contract!vars
<1>1. /\ UNCHANGED <<link, asked, heard, client>> /\ broken'
      /\ runner \in {"off", "optimize"} /\ ~broken /\ RunnerInv
  BY DEF StartFails, OptimizerExits, Optimizing, wireVars, clientVars, StreamInv,
         RunnerInv
<1>2. Told = {} /\ Told' = {}
  <2>1. Told = {}
    BY <1>1, ToldIsOne DEF OneDecision, RunnerInv
  <2> QED BY <2>1 DEF Aside, Told
<1>3. CASE link = "gone"
  BY <1>1, <1>3 DEF Run, Contract!vars
<1>4. CASE link # "gone"
  <2>1. Run \in {"waiting", "running"} /\ Run' = "broken"
    BY <1>1, <1>2, <1>4 DEF Run
  <2>2. Run = "waiting" => client = "on"
    <3>1. runner = "off" => client = "on"
      BY DEF StartFails, OptimizerExits, Optimizing, StreamInv, RunnerInv
    <3> QED BY <1>1, <1>2, <1>4, <3>1 DEF Run
  <2>3. Contract!Break
    BY <1>1, <2>1, <2>2 DEF Contract!Break
  <2> QED BY <2>3 DEF Contract!Next
<1> QED BY <1>3, <1>4

LEMMA ClientImplements ==
  ASSUME StreamInv, StreamInv', ClientStep \/ Receive \/ SeeEnd
  PROVE  [Contract!Next]_Contract!vars
<1>1. ASSUME NEW m, Send(m) PROVE UNCHANGED Contract!vars
  <2>1. Aside /\ UNCHANGED <<runner, link, client, broken>>
    BY <1>1 DEF Send, Aside, serverVars, clientVars, callVars
  <2> QED BY <2>1, AsideStutters
<1>2. CASE HalfClose
  <2>1. Aside /\ UNCHANGED <<runner, client, broken>> /\ link = "open" /\ link' = "half"
    BY <1>2 DEF HalfClose, Aside, serverVars, clientVars, callVars
  <2> QED BY <2>1, AsideStutters
<1>3. CASE Leave
  <2>1. /\ client = "on" /\ Run' = "lost" /\ UNCHANGED <<asked, heard, client>>
    BY <1>3 DEF Leave, Listening, clientVars, Run
  <2>2. Contract!Leave
    BY <2>1 DEF Contract!Leave
  <2> QED BY <2>2 DEF Contract!Next
<1>4. CASE Receive
  BY <1>4, ReceiveImplements
<1>5. CASE SeeEnd
  BY <1>5, SeeEndImplements
<1> QED
  BY <1>1, <1>2, <1>3, <1>4, <1>5 DEF ClientStep, SendFirst, SendAnswer, SendSecondStart

LEMMA HandlerImplements ==
  ASSUME StreamInv, StreamInv', Handler
  PROVE  [Contract!Next]_Contract!vars
<1>1. CASE StartRun
  <2>1. /\ Aside /\ UNCHANGED <<link, client>>
        /\ handler = "first" /\ runner' = "optimize" /\ UNCHANGED broken
    BY <1>1 DEF StartRun, Aside, clientVars, callVars
  <2>2. runner = "off" /\ client = "on" /\ ~broken /\ Told = {} /\ Told' = {}
    <3>1. runner = "off" /\ client = "on" /\ ~broken /\ Told = {}
      BY <2>1, ToldIsOne DEF OneDecision, StreamInv, RunnerInv
    <3> QED BY <2>1, <3>1 DEF Aside, Told
  <2>3. CASE link = "gone"
    BY <2>1, <2>3 DEF Run, Contract!vars, Aside
  <2>4. CASE link # "gone"
    <3>1. Run = "waiting" /\ Run' = "running"
      BY <2>1, <2>2, <2>4 DEF Run
    <3>2. Contract!Begin
      BY <2>1, <2>2, <3>1 DEF Contract!Begin, Aside
    <3> QED BY <3>2 DEF Contract!Next
  <2> QED BY <2>3, <2>4
<1>2. CASE RefuseRun
  <2>1. Aside /\ UNCHANGED <<runner, link, client, broken>>
    BY <1>2 DEF RefuseRun, Aside, clientVars, callVars
  <2> QED BY <2>1, AsideStutters
<1>2a. CASE StartFails
  <2>1. Aside
    BY <1>2a DEF StartFails, Aside, clientVars, callVars
  <2> QED BY <1>2a, <2>1, BreakImplements
<1>3. CASE Yield
  <2>1. UNCHANGED <<runner, link, asked, heard, client, broken>>
    BY <1>3 DEF Yield, clientVars
  <2>2. CASE link = "gone"
    BY <2>1, <2>2 DEF Run, Contract!vars
  <2>3. CASE link # "gone"
    <3>1. Moves(0)
      BY <1>3, <2>3, YieldMoves DEF Yield, StreamInv
    <3>2. Places' = Places /\ \A i \in Places : Line'[i] = Line[i]
      <4>1. Len(Line) \in Nat
        BY LineTypes DEF StreamInv
      <4>2. Len(Line') = Len(Line) /\ \A i \in 1..Len(Line') : Line'[i] = Line[i + 0] /\ i + 0 = i
        BY <3>1, <4>1 DEF Moves
      <4> QED BY <4>1, <4>2 DEF Places
    <3>3. Told' = Told
      <4>1. /\ Told = {l \in Terminal : l = heard \/ \E i \in Places : Line[i] = l}
            /\ Told' = {l \in Terminal : l = heard' \/ \E i \in Places' : Line'[i] = l}
        BY ToldOnLine, ToldNext DEF StreamInv, ToldIsOnLine
      <4> QED BY <2>1, <3>2, <4>1
    <3>4. Run' = Run
      BY <2>1, <3>3, RunIsKept
    <3> QED BY <2>1, <3>4 DEF Contract!vars
  <2> QED BY <2>2, <2>3
<1>4. CASE HandlerReturns
  <2>1. /\ UNCHANGED <<runner, link, asked, heard, client, downlink, broken>>
        /\ outbound # <<>> /\ outbound' = Tail(outbound) /\ Head(outbound) = End
    BY <1>4 DEF HandlerReturns, IsEnd, wireVars, clientVars
  <2>2. ToSet(outbound') \cup {End} = ToSet(outbound)
    <3>1. /\ outbound \in Seq(Messages) /\ outbound' \in Seq(Messages)
          /\ Len(outbound) \in Nat \ {0} /\ Len(outbound') = Len(outbound) - 1
          /\ \A i \in 1..Len(outbound') : outbound'[i] = outbound[i + 1]
          /\ outbound[1] = End
          /\ DOMAIN outbound = 1..Len(outbound) /\ DOMAIN outbound' = 1..Len(outbound')
      BY <2>1, HeadTailProperties, LenProperties, EmptySeq, LineTypes DEF StreamInv
    <3>2. ASSUME NEW i \in 1..Len(outbound), i # 1
          PROVE  outbound[i] \in ToSet(outbound')
      <4> DEFINE j == i - 1
      <4>1. j \in 1..Len(outbound') /\ j + 1 = i
        BY <3>1, <3>2
      <4> HIDE DEF j
      <4> QED BY <3>1, <4>1 DEF ToSet
    <3>3. ASSUME NEW i \in 1..Len(outbound')
          PROVE  outbound'[i] \in ToSet(outbound)
      <4>1. i + 1 \in 1..Len(outbound)
        BY <3>1
      <4> QED BY <3>1, <4>1 DEF ToSet
    <3>4. End \in ToSet(outbound)
      BY <3>1 DEF ToSet
    <3>5. \A x \in ToSet(outbound) : x \in ToSet(outbound') \cup {End}
      BY <3>1, <3>2 DEF ToSet
    <3>6. \A x \in ToSet(outbound') : x \in ToSet(outbound)
      BY <3>1, <3>3 DEF ToSet
    <3> QED BY <3>4, <3>5, <3>6
  <2>3. Told' = Told
    BY <2>1, <2>2 DEF Told, Terminal, Complete, Error, End
  <2>4. Run' = Run
    BY <2>1, <2>3, RunIsKept
  <2> QED BY <2>1, <2>4 DEF Contract!vars
<1> QED BY <1>1, <1>2, <1>2a, <1>3, <1>4 DEF Handler

LEMMA ReaderImplements ==
  ASSUME StreamInv, Reader \/ \E r \in Requests : FailCall(r)
  PROVE  UNCHANGED Contract!vars
<1> USE DEF serverVars, wireVars, clientVars
<1>1. UNCHANGED <<downlink, outbound, asked, heard, client, runner, link, broken>>
  BY DEF Reader, ReadMessage, ReaderEnds, ReaderCancels, FailCall
<1>2. Told' = Told
  BY <1>1 DEF Told
<1>3. Run' = Run
  BY <1>1, <1>2, RunIsKept
<1> QED BY <1>1, <1>3 DEF Contract!vars

LEMMA RunnerImplements ==
  ASSUME StreamInv, StreamInv', Runner
  PROVE  [Contract!Next]_Contract!vars
<1> USE DEF wireVars, clientVars
<1>1. ASSUME NEW r \in Requests, CallClient(r) PROVE UNCHANGED Contract!vars
  <2>1. r \in Messages \ Terminal
    BY KindsAssumption DEF Messages, ToClient
  <2> QED BY <1>1, <2>1, JoinStutters DEF CallClient, Optimizing
<1>2. CASE EmitProgress \/ PutEnd
  <2>1. {Progress, End} \subseteq Messages \ Terminal
    BY DEF Messages, ToClient, Terminal, Complete, Error, End, Progress
  <2> QED BY <1>2, <2>1, JoinStutters DEF EmitProgress, PutEnd, Put, Optimizing
<1>3. CASE PutComplete \/ PutError
  <2>1. Complete \in Terminal /\ Error \in Terminal
    BY DEF Terminal
  <2> QED BY <1>3, <2>1, PutTerminalDecides DEF PutComplete, PutError, Put
<1>4. CASE CallReturns \/ CallRaises \/ OptimizerEnds \/ CompleteFails \/ RunnerCancels
  <2>1. /\ UNCHANGED <<downlink, outbound, asked, heard, client, link, broken>>
        /\ runner' = "off" <=> runner = "off"
    BY <1>4 DEF CallReturns, CallRaises, OptimizerEnds, Optimizing, CompleteFails,
                RunnerCancels
  <2>2. Told' = Told
    BY <2>1 DEF Told
  <2>3. Run' = Run
    BY <2>1, <2>2, RunIsKept
  <2> QED BY <2>1, <2>3 DEF Contract!vars
<1>5. CASE OptimizerExits
  <2>1. Aside
    BY <1>5 DEF OptimizerExits, Aside, callVars
  <2> QED BY <1>5, <2>1, BreakImplements
<1> QED BY <1>1, <1>2, <1>3, <1>4, <1>5 DEF Runner, Report

LEMMA NextContract == StreamInv /\ StreamInv' /\ [Next]_vars => [Contract!Next]_Contract!vars
<1> SUFFICES ASSUME StreamInv, StreamInv', [Next]_vars PROVE [Contract!Next]_Contract!vars
  OBVIOUS
<1>1. CASE UNCHANGED vars
  <2>1. Aside /\ UNCHANGED <<runner, link, client, broken>>
    BY <1>1 DEF vars, serverVars, wireVars, clientVars, callVars, Aside
  <2> QED BY <2>1, AsideStutters
<1> QED
  BY <1>1, ClientImplements, HandlerImplements, ReaderImplements, RunnerImplements
  DEF Next, Over

\* Whatever the client does, every behaviour of a stream is one of RunContract:
\* one decision, heard after everything else and before the end, or else a broken
\* run, for which a thread could not be started or the optimizer ended in a
\* BaseException.
THEOREM StreamKeepsContract == SafetySpec => ImplementsContract
BY InitStreamInv, NextStreamInv, InitContract, NextContract, PTL
   DEF SafetySpec, ImplementsContract, Contract!Spec

-------------------------------------------------------------------------------
(* Complete runs *)

\* A run is complete only when each of its calls was answered: as soon as one
\* fails the runner is on its way to the error.
Answered(r) == state[r] \in {"unused", "answered"}

AnsweredInv ==
  /\ awaited # {} => runner = "optimize"
  /\ \A r, q \in awaited : r = q
  /\ runner \in {"off", "optimize", "complete"} => \A r \in Requests \ awaited : Answered(r)
  /\ Complete \in Told => \A r \in Requests : Answered(r)

LEMMA InitAnsweredInv == Init => AnsweredInv
<1> SUFFICES ASSUME Init PROVE AnsweredInv
  OBVIOUS
<1>1. \A r \in Requests : Answered(r)
  BY DEF Init, Calls!Init, Answered
<1> QED BY <1>1 DEF Init, AnsweredInv

LEMMA ElementsOfQueue ==
  ASSUME NEW S, NEW q \in Seq(S)
  PROVE  /\ q # <<>> => Head(q) \in ToSet(q) /\ ToSet(Tail(q)) \subseteq ToSet(q)
         /\ \A m \in S : ToSet(Append(q, m)) \subseteq ToSet(q) \cup {m}
<1>1. Len(q) \in Nat /\ DOMAIN q = 1..Len(q)
  BY LenProperties
<1>2. ASSUME q # <<>> PROVE Head(q) \in ToSet(q) /\ ToSet(Tail(q)) \subseteq ToSet(q)
  <2>1. /\ Tail(q) \in Seq(S) /\ Len(Tail(q)) = Len(q) - 1 /\ Head(q) = q[1]
        /\ Len(q) # 0
        /\ \A i \in 1..(Len(q) - 1) : Tail(q)[i] = q[i + 1]
    BY <1>2, HeadTailProperties, EmptySeq
  <2>2. DOMAIN Tail(q) = 1..(Len(q) - 1)
    BY <2>1, LenProperties
  <2>3. \A i \in 1..(Len(q) - 1) : i + 1 \in 1..Len(q)
    BY <1>1
  <2>4. Head(q) \in ToSet(q)
    BY <1>1, <2>1 DEF ToSet
  <2>5. \A x \in ToSet(Tail(q)) : x \in ToSet(q)
    BY <1>1, <2>1, <2>2, <2>3 DEF ToSet
  <2> QED BY <2>4, <2>5
<1>3. ASSUME NEW m \in S PROVE ToSet(Append(q, m)) \subseteq ToSet(q) \cup {m}
  <2>1. /\ Append(q, m) \in Seq(S) /\ Len(Append(q, m)) = Len(q) + 1
        /\ \A i \in 1..Len(q) : Append(q, m)[i] = q[i]
        /\ Append(q, m)[Len(q) + 1] = m
    BY AppendProperties
  <2>2. DOMAIN Append(q, m) = 1..(Len(q) + 1)
    BY <2>1, LenProperties
  <2>3. \A i \in 1..(Len(q) + 1) : i \in 1..Len(q) \/ i = Len(q) + 1
    BY <1>1
  <2>4. \A x \in ToSet(Append(q, m)) : x \in ToSet(q) \cup {m}
    BY <1>1, <2>1, <2>2, <2>3 DEF ToSet
  <2> QED BY <2>4
<1> QED BY <1>2, <1>3

\* Nobody but the runner tells the client that its run is complete.
LEMMA OnlyPutCompleteTells ==
  ASSUME TypeOK, [Next]_vars, Complete \in Told'
  PROVE  Complete \in Told \/ PutComplete
<1> USE DEF serverVars, wireVars, clientVars
<1>1. downlink \in Seq(Messages) /\ outbound \in Seq(Messages)
  BY LineTypes
<1>2. Complete \in Terminal
  BY DEF Terminal
<1>3. CASE UNCHANGED <<downlink, outbound, heard>>
  BY <1>3 DEF Told
<1>4. CASE Leave
  BY <1>4, <1>2 DEF Leave, Told, ToSet
<1>5. CASE Receive
  <2>1. /\ downlink # <<>> /\ downlink' = Tail(downlink) /\ UNCHANGED outbound
        /\ heard' = heard \/ heard' = Head(downlink)
    BY <1>5 DEF Receive
  <2> QED BY <1>1, <1>2, <2>1, ElementsOfQueue DEF Told
<1>6. CASE Yield \/ HandlerReturns
  <2>1. /\ outbound # <<>> /\ outbound' = Tail(outbound) /\ UNCHANGED heard
        /\ UNCHANGED downlink \/ downlink' = Append(downlink, Head(outbound))
    BY <1>6 DEF Yield, HandlerReturns
  <2>2. Head(outbound) \in Messages
    BY <1>1, <2>1, HeadTailProperties
  <2>3. /\ ToSet(outbound') \subseteq ToSet(outbound) /\ Head(outbound) \in ToSet(outbound)
        /\ ToSet(downlink') \subseteq ToSet(downlink) \cup {Head(outbound)}
    BY <1>1, <2>1, <2>2, ElementsOfQueue
  <2> QED BY <1>2, <2>1, <2>3 DEF Told
<1>7. ASSUME NEW m \in Messages, m # Complete,
             outbound' = Append(outbound, m), UNCHANGED <<downlink, heard>>
      PROVE  Complete \in Told
  BY <1>1, <1>2, <1>7, ElementsOfQueue DEF Told
<1>8. /\ {Progress, Error, End} \cup Requests \subseteq Messages
      /\ Complete \notin {Progress, Error, End} \cup Requests
  BY KindsAssumption
  DEF Messages, ToClient, Terminal, Complete, Error, End, Progress
<1>9. CASE Runner
  <2>1. ASSUME NEW r \in Requests, CallClient(r) PROVE Complete \in Told
    BY <1>7, <1>8, <2>1 DEF CallClient
  <2>2. CASE EmitProgress \/ PutError \/ PutEnd
    BY <1>7, <1>8, <2>2 DEF EmitProgress, PutError, PutEnd, Put
  <2>3. CASE \/ CallReturns \/ CallRaises \/ OptimizerEnds \/ OptimizerExits
             \/ CompleteFails \/ RunnerCancels
    BY <1>3, <2>3 DEF CallReturns, CallRaises, OptimizerEnds, OptimizerExits,
                      CompleteFails, RunnerCancels
  <2> QED BY <1>9, <2>1, <2>2, <2>3 DEF Runner, Report
<1>10. CASE \E m : Send(m)
  BY <1>3, <1>10 DEF Send
<1> QED
  BY <1>3, <1>4, <1>5, <1>6, <1>9, <1>10
  DEF Next, vars, Over, ClientStep, SendFirst, SendAnswer, SendSecondStart, HalfClose,
      SeeEnd, Handler, StartRun, StartFails, RefuseRun, Reader, ReadMessage, ReaderEnds,
      ReaderCancels, FailCall

LEMMA StepsKeepAnswered ==
  ASSUME TypeOK, [Next]_vars, NEW r \in Requests, Answered(r),
         \A q \in Requests : ~CallClient(q)
  PROVE  Answered(r)'
<1> USE DEF Answered, callVars
<1>1. state \in [Requests -> Calls!CallStates]
  BY DEF TypeOK, Calls!TypeOK
<1>2. CASE UNCHANGED state
  BY <1>2
<1>3. CASE ReadMessage
  <2>1. UNCHANGED state \/ \E q : state' = [state EXCEPT ![q] = "answered"]
    BY <1>3 DEF ReadMessage, Deliver, Calls!Answer
  <2> QED BY <1>1, <1>2, <2>1
<1>4. ASSUME NEW q \in Requests, FailCall(q) PROVE Answered(r)'
  BY <1>1, <1>4 DEF FailCall, Calls!Fail
<1>5. CASE ReaderEnds \/ ReaderCancels \/ RunnerCancels
  BY <1>2, <1>5 DEF ReaderEnds, ReaderCancels, RunnerCancels, CancelAdapter, Calls!Close
<1>6. CASE ClientStep \/ Receive \/ SeeEnd \/ Handler
  BY <1>2, <1>6
  DEF ClientStep, SendFirst, SendAnswer, SendSecondStart, Send, HalfClose, Leave,
      Receive, SeeEnd, Handler, StartRun, StartFails, RefuseRun, Yield, HandlerReturns
<1>7. CASE CallReturns \/ CallRaises \/ EmitProgress \/ OptimizerEnds
           \/ OptimizerExits \/ PutComplete \/ CompleteFails \/ PutError \/ PutEnd
  BY <1>2, <1>7
  DEF CallReturns, CallRaises, EmitProgress, OptimizerEnds, OptimizerExits, PutComplete,
      CompleteFails, PutError, PutEnd, Put
<1>8. CASE UNCHANGED vars
  BY <1>2, <1>8 DEF vars
<1> QED
  BY <1>3, <1>4, <1>5, <1>6, <1>7, <1>8 DEF Next, Reader, Runner, Report, Over

LEMMA NextAnsweredInv == StreamInv /\ AnsweredInv /\ [Next]_vars => AnsweredInv'
<1> SUFFICES ASSUME StreamInv, AnsweredInv, [Next]_vars PROVE AnsweredInv'
  OBVIOUS
<1>1. TypeOK /\ awaited \in SUBSET Requests
  BY DEF StreamInv, TypeOK
<1>2. Complete \in Told => runner \in {"end", "cancel", "done"}
  <2>1. Complete \in Told => Announced
    BY ToldIsOne DEF OneDecision
  <2> QED BY <1>1, <2>1 DEF StreamInv, RunnerInv, TypeOK
<1>3. Complete \in Told' => Complete \in Told \/ PutComplete
  BY <1>1, OnlyPutCompleteTells
<1>4. ASSUME NEW r \in Requests, CallClient(r) PROVE AnsweredInv'
  <2>1. /\ runner = "optimize" /\ runner' = "optimize" /\ awaited = {} /\ awaited' = {r}
        /\ Complete \notin Told'
    BY <1>2, <1>3, <1>4 DEF CallClient, Optimizing, PutComplete, Put
  <2>2. ASSUME NEW q \in Requests \ awaited' PROVE Answered(q)'
    <3>1. q # r /\ Answered(q) /\ state' = [state EXCEPT ![r] = "open"]
      BY <1>4, <2>1, <2>2 DEF AnsweredInv, CallClient, Calls!Open
    <3> QED BY <1>1, <3>1 DEF Answered, TypeOK, Calls!TypeOK
  <2> QED BY <2>1, <2>2 DEF AnsweredInv
<1>5. CASE \A r \in Requests : ~CallClient(r)
  <2>1. \A r \in Requests : Answered(r) => Answered(r)'
    BY <1>1, <1>5, StepsKeepAnswered
  <2>2. CASE UNCHANGED <<runner, awaited>>
    <3>1. ~PutComplete
      BY <2>2 DEF PutComplete, Put
    <3> QED BY <1>3, <2>1, <2>2, <3>1 DEF AnsweredInv
  <2>3. CASE StartRun
    <3>1. ~PutComplete /\ UNCHANGED awaited /\ runner' = "optimize" /\ runner = "off"
      BY <2>3 DEF StartRun, PutComplete, Put, StreamInv, RunnerInv
    <3> QED BY <1>3, <2>1, <3>1 DEF AnsweredInv
  <2>4. CASE CallReturns
    <3>1. PICK r \in awaited : state[r] = "answered"
      BY <2>4 DEF CallReturns
    <3>2. ~PutComplete /\ awaited' = {} /\ UNCHANGED runner /\ runner = "optimize"
      BY <2>4 DEF CallReturns, PutComplete, Put, AnsweredInv
    <3>3. \A q \in Requests : Answered(q)
      BY <3>1, <3>2 DEF AnsweredInv, Answered
    <3> QED BY <2>1, <3>2, <3>3 DEF AnsweredInv
  <2>5. CASE CallRaises \/ OptimizerEnds \/ CompleteFails
    <3>1. /\ awaited' = {} /\ runner' \in {"complete", "error"}
          /\ runner' = "complete" => runner = "optimize" /\ awaited = {}
          /\ runner \in {"optimize", "complete"}
      BY <2>5 DEF CallRaises, OptimizerEnds, CompleteFails, Optimizing, AnsweredInv
    <3>2. Complete \notin Told'
      BY <1>2, <1>3, <3>1 DEF PutComplete, Put
    <3> QED BY <2>1, <3>1, <3>2 DEF AnsweredInv
  <2>6. CASE PutComplete \/ PutError \/ PutEnd \/ RunnerCancels \/ OptimizerExits
    <3>1. /\ UNCHANGED awaited /\ awaited = {}
          /\ runner' \in {"end", "cancel", "done"}
      BY <2>6 DEF PutComplete, PutError, PutEnd, Put, RunnerCancels, OptimizerExits,
                  Optimizing, AnsweredInv
    <3>2. Complete \in Told' => \A r \in Requests : Answered(r)
      BY <1>3, <3>1 DEF PutComplete, Put, AnsweredInv
    <3> QED BY <2>1, <3>1, <3>2 DEF AnsweredInv
  <2> QED
    BY <1>5, <2>2, <2>3, <2>4, <2>5, <2>6
    DEF Next, vars, serverVars, Over, ClientStep, SendFirst, SendAnswer,
        SendSecondStart, Send, HalfClose, Leave, Receive, SeeEnd, Handler, StartFails,
        RefuseRun, Yield, HandlerReturns, Reader, ReadMessage, ReaderEnds,
        ReaderCancels, FailCall, Runner, Report, EmitProgress
<1> QED BY <1>4, <1>5

===============================================================================
