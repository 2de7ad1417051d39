--------------------------- MODULE RemoteAdapterProofs ---------------------------
(***************************************************************************)
(* Proofs about RemoteAdapter, for any number of optimizer threads and     *)
(* calls.  The inductive invariant is ownership: every unsettled future is *)
(* in the table or in the hands of exactly one settling thread.            *)
(***************************************************************************)
EXTENDS RemoteAdapter, TLAPS

\* Where a settling thread is says what it has in hand.
SettlerInv ==
  /\ \A t \in Settlers :
       /\ settlerPc[t] \in {"set", "fail"} => target[t] \in hand[t]
       /\ settlerPc[t] \in {"receive", "pop", "cancel", "optimize", "done"}
            => hand[t] = {}
       /\ settlerPc[t] \in {"loop", "fail", "done"} => cancelled
       /\ settlerPc[t] # "died"
  /\ settlerPc[Reader] \in {"pop", "check", "set"} => message.id \in Requests
  /\ settlerPc[Reader] \in {"check", "set"} => hand[Reader] = {message.id}
  /\ settlerPc[Reader] # "optimize"
  /\ settlerPc[Runner] \notin {"receive", "pop", "check", "set"}

CallerInv ==
  \A c \in Callers :
    callerPc[c] # "idle" => call[c] \in Requests /\ future[call[c]] # "none"

IInv ==
  /\ TypeOK
  /\ OneOwner
  /\ SettlerInv
  /\ CallerInv
  /\ cancelled => pending = {}


LEMMA InitIInv == Init => IInv
<1> SUFFICES ASSUME Init PROVE IInv
  OBVIOUS
<1> USE DEF Init
<1>1. TypeOK
  BY DEF TypeOK, Ops, Settlers
<1>2. OneOwner
  BY DEF OneOwner, Owners
<1>3. SettlerInv
  BY DEF SettlerInv, Settlers, Reader, Runner
<1>4. CallerInv
  BY DEF CallerInv
<1> QED BY <1>1, <1>2, <1>3, <1>4 DEF IInv

LEMMA NextIInv == IInv /\ [Next]_vars => IInv'
<1> SUFFICES ASSUME IInv, [Next]_vars PROVE IInv'
  OBVIOUS
<1> USE NoneAssumption DEF IInv, Reader, Runner
<1>1. ASSUME NEW c \in Callers, NEW o \in Ops, NewPending(c, o) PROVE IInv'
  <2>1. TypeOK'
    BY <1>1 DEF NewPending, Accepting, settlerVars, TypeOK, Messages, NoMessage, SettlerInv, CallerInv, Settlers
  <2>2. OneOwner'
    BY <1>1 DEF NewPending, Accepting, settlerVars, TypeOK, OneOwner, Owners, SettlerInv, Settlers
  <2>3. SettlerInv'
    BY <1>1 DEF NewPending, Accepting, settlerVars, TypeOK, OneOwner, Owners, SettlerInv, CallerInv, Settlers
  <2>4. CallerInv'
    BY <1>1 DEF NewPending, Accepting, settlerVars, TypeOK, CallerInv
  <2>5. (cancelled => pending = {})'
    BY <1>1 DEF NewPending, Accepting, settlerVars
  <2> QED BY <2>1, <2>2, <2>3, <2>4, <2>5
<1>2. ASSUME NEW c \in Callers, RefuseCall(c) \/ ReflectWithoutTraces(c) PROVE IInv'
  <2>1. TypeOK'
    BY <1>2 DEF RefuseCall, ReflectWithoutTraces, Raise, tableVars, settlerVars, TypeOK, Messages, NoMessage, SettlerInv, CallerInv, Settlers
  <2>2. OneOwner'
    BY <1>2 DEF RefuseCall, ReflectWithoutTraces, Raise, tableVars, settlerVars, TypeOK, OneOwner, Owners, SettlerInv, Settlers
  <2>3. SettlerInv'
    BY <1>2 DEF RefuseCall, ReflectWithoutTraces, Raise, tableVars, settlerVars, TypeOK, OneOwner, Owners, SettlerInv, CallerInv, Settlers
  <2>4. CallerInv'
    BY <1>2 DEF RefuseCall, ReflectWithoutTraces, Raise, tableVars, settlerVars, TypeOK, CallerInv
  <2>5. (cancelled => pending = {})'
    BY <1>2 DEF RefuseCall, ReflectWithoutTraces, Raise, tableVars, settlerVars
  <2> QED BY <2>1, <2>2, <2>3, <2>4, <2>5
<1>3. ASSUME NEW c \in Callers, PutRequest(c) PROVE IInv'
  <2>1. TypeOK'
    BY <1>3 DEF PutRequest, tableVars, settlerVars, TypeOK, Messages, NoMessage, SettlerInv, CallerInv, Settlers
  <2>2. OneOwner'
    BY <1>3 DEF PutRequest, tableVars, settlerVars, TypeOK, OneOwner, Owners, SettlerInv, Settlers
  <2>3. SettlerInv'
    BY <1>3 DEF PutRequest, tableVars, settlerVars, TypeOK, OneOwner, Owners, SettlerInv, CallerInv, Settlers
  <2>4. CallerInv'
    BY <1>3 DEF PutRequest, tableVars, settlerVars, TypeOK, CallerInv
  <2>5. (cancelled => pending = {})'
    BY <1>3 DEF PutRequest, tableVars, settlerVars
  <2> QED BY <2>1, <2>2, <2>3, <2>4, <2>5
<1>4. ASSUME NEW c \in Callers, BuildRequestFails(c) PROVE IInv'
  <2>1. TypeOK'
    BY <1>4 DEF BuildRequestFails, Raise, tableVars, settlerVars, TypeOK, Messages, NoMessage, SettlerInv, CallerInv, Settlers
  <2>2. OneOwner'
    BY <1>4 DEF BuildRequestFails, Raise, tableVars, settlerVars, TypeOK, OneOwner, Owners, SettlerInv, Settlers
  <2>3. SettlerInv'
    BY <1>4 DEF BuildRequestFails, Raise, tableVars, settlerVars, TypeOK, OneOwner, Owners, SettlerInv, CallerInv, Settlers
  <2>4. CallerInv'
    BY <1>4 DEF BuildRequestFails, Raise, tableVars, settlerVars, TypeOK, CallerInv
  <2>5. (cancelled => pending = {})'
    BY <1>4 DEF BuildRequestFails, Raise, tableVars, settlerVars
  <2> QED BY <2>1, <2>2, <2>3, <2>4, <2>5
<1>5. ASSUME NEW c \in Callers, FutureResult(c) PROVE IInv'
  <2>1. TypeOK'
    BY <1>5 DEF FutureResult, tableVars, settlerVars, TypeOK, Messages, NoMessage, SettlerInv, CallerInv, Settlers
  <2>2. OneOwner'
    BY <1>5 DEF FutureResult, tableVars, settlerVars, TypeOK, OneOwner, Owners, SettlerInv, Settlers
  <2>3. SettlerInv'
    BY <1>5 DEF FutureResult, tableVars, settlerVars, TypeOK, OneOwner, Owners, SettlerInv, CallerInv, Settlers
  <2>4. CallerInv'
    BY <1>5 DEF FutureResult, tableVars, settlerVars, TypeOK, CallerInv
  <2>5. (cancelled => pending = {})'
    BY <1>5 DEF FutureResult, tableVars, settlerVars
  <2> QED BY <2>1, <2>2, <2>3, <2>4, <2>5
<1>6. ASSUME NEW r \in Requests, NEW p \in Payloads, ReceiveResponse(r, p) PROVE IInv'
  <2>1. TypeOK'
    BY <1>6 DEF ReceiveResponse, Messages, tableVars, callerVars, TypeOK, Messages, NoMessage, SettlerInv, CallerInv, Settlers
  <2>2. OneOwner'
    BY <1>6 DEF ReceiveResponse, Messages, tableVars, callerVars, TypeOK, OneOwner, Owners, SettlerInv, Settlers
  <2>3. SettlerInv'
    BY <1>6 DEF ReceiveResponse, Messages, tableVars, callerVars, TypeOK, OneOwner, Owners, SettlerInv, CallerInv, Settlers
  <2>4. CallerInv'
    BY <1>6 DEF ReceiveResponse, Messages, tableVars, callerVars, TypeOK, CallerInv
  <2>5. (cancelled => pending = {})'
    BY <1>6 DEF ReceiveResponse, Messages, tableVars, callerVars
  <2> QED BY <2>1, <2>2, <2>3, <2>4, <2>5
<1>7. ASSUME StreamEnds PROVE IInv'
  <2>1. TypeOK'
    BY <1>7 DEF StreamEnds, tableVars, callerVars, TypeOK, Messages, NoMessage, SettlerInv, CallerInv, Settlers
  <2>2. OneOwner'
    BY <1>7 DEF StreamEnds, tableVars, callerVars, TypeOK, OneOwner, Owners, SettlerInv, Settlers
  <2>3. SettlerInv'
    BY <1>7 DEF StreamEnds, tableVars, callerVars, TypeOK, OneOwner, Owners, SettlerInv, CallerInv, Settlers
  <2>4. CallerInv'
    BY <1>7 DEF StreamEnds, tableVars, callerVars, TypeOK, CallerInv
  <2>5. (cancelled => pending = {})'
    BY <1>7 DEF StreamEnds, tableVars, callerVars
  <2> QED BY <2>1, <2>2, <2>3, <2>4, <2>5
<1>8. ASSUME OptimizerEnds PROVE IInv'
  <2>1. TypeOK'
    BY <1>8 DEF OptimizerEnds, tableVars, callerVars, TypeOK, Messages, NoMessage, SettlerInv, CallerInv, Settlers
  <2>2. OneOwner'
    BY <1>8 DEF OptimizerEnds, tableVars, callerVars, TypeOK, OneOwner, Owners, SettlerInv, Settlers
  <2>3. SettlerInv'
    BY <1>8 DEF OptimizerEnds, tableVars, callerVars, TypeOK, OneOwner, Owners, SettlerInv, CallerInv, Settlers
  <2>4. CallerInv'
    BY <1>8 DEF OptimizerEnds, tableVars, callerVars, TypeOK, CallerInv
  <2>5. (cancelled => pending = {})'
    BY <1>8 DEF OptimizerEnds, tableVars, callerVars
  <2> QED BY <2>1, <2>2, <2>3, <2>4, <2>5
<1>9. ASSUME PopPending PROVE IInv'
  <2>1. TypeOK'
    BY <1>9 DEF PopPending, LeftInTable, NextResponse, callerVars, TypeOK, Messages, NoMessage, SettlerInv, CallerInv, Settlers
  <2>2. OneOwner'
    BY <1>9 DEF PopPending, LeftInTable, NextResponse, callerVars, TypeOK, OneOwner, Owners, SettlerInv, Settlers
  <2>3. SettlerInv'
    BY <1>9 DEF PopPending, LeftInTable, NextResponse, callerVars, TypeOK, OneOwner, Owners, SettlerInv, CallerInv, Settlers
  <2>4. CallerInv'
    BY <1>9 DEF PopPending, LeftInTable, NextResponse, callerVars, TypeOK, CallerInv
  <2>5. (cancelled => pending = {})'
    BY <1>9 DEF PopPending, LeftInTable, NextResponse, callerVars
  <2> QED BY <2>1, <2>2, <2>3, <2>4, <2>5
<1>10. ASSUME CheckDone PROVE IInv'
  <2>1. TypeOK'
    BY <1>10 DEF CheckDone, NextResponse, Done, tableVars, callerVars, TypeOK, Messages, NoMessage, SettlerInv, CallerInv, Settlers
  <2>2. OneOwner'
    BY <1>10 DEF CheckDone, NextResponse, Done, tableVars, callerVars, TypeOK, OneOwner, Owners, SettlerInv, Settlers
  <2>3. SettlerInv'
    BY <1>10 DEF CheckDone, NextResponse, Done, tableVars, callerVars, TypeOK, OneOwner, Owners, SettlerInv, CallerInv, Settlers
  <2>4. CallerInv'
    BY <1>10 DEF CheckDone, NextResponse, Done, tableVars, callerVars, TypeOK, CallerInv
  <2>5. (cancelled => pending = {})'
    BY <1>10 DEF CheckDone, NextResponse, Done, tableVars, callerVars
  <2> QED BY <2>1, <2>2, <2>3, <2>4, <2>5
<1>11. ASSUME SetResult PROVE IInv'
  <2>1. TypeOK'
    BY <1>11 DEF SetResult, Done, callerVars, TypeOK, Messages, NoMessage, SettlerInv, CallerInv, Settlers
  <2>2. OneOwner'
    BY <1>11 DEF SetResult, Done, callerVars, TypeOK, OneOwner, Owners, SettlerInv, Settlers
  <2>3. SettlerInv'
    BY <1>11 DEF SetResult, Done, callerVars, TypeOK, OneOwner, Owners, SettlerInv, CallerInv, Settlers
  <2>4. CallerInv'
    BY <1>11 DEF SetResult, Done, callerVars, TypeOK, CallerInv
  <2>5. (cancelled => pending = {})'
    BY <1>11 DEF SetResult, Done, callerVars
  <2> QED BY <2>1, <2>2, <2>3, <2>4, <2>5
<1>12. ASSUME NEW t \in Settlers, CancelTable(t) PROVE IInv'
  <2>1. TypeOK'
    BY <1>12 DEF CancelTable, LeftAfterCancel, callerVars, TypeOK, Messages, NoMessage, SettlerInv, CallerInv, Settlers
  <2>2. OneOwner'
    BY <1>12 DEF CancelTable, LeftAfterCancel, callerVars, TypeOK, OneOwner, Owners, SettlerInv, Settlers
  <2>3. SettlerInv'
    BY <1>12 DEF CancelTable, LeftAfterCancel, callerVars, TypeOK, OneOwner, Owners, SettlerInv, CallerInv, Settlers
  <2>4. CallerInv'
    BY <1>12 DEF CancelTable, LeftAfterCancel, callerVars, TypeOK, CallerInv
  <2>5. (cancelled => pending = {})'
    BY <1>12 DEF CancelTable, LeftAfterCancel, callerVars
  <2> QED BY <2>1, <2>2, <2>3, <2>4, <2>5
<1>13. ASSUME NEW t \in Settlers, CancelNext(t) PROVE IInv'
  <2>1. TypeOK'
    BY <1>13 DEF CancelNext, Done, tableVars, callerVars, TypeOK, Messages, NoMessage, SettlerInv, CallerInv, Settlers
  <2>2. OneOwner'
    BY <1>13 DEF CancelNext, Done, tableVars, callerVars, TypeOK, OneOwner, Owners, SettlerInv, Settlers
  <2>3. SettlerInv'
    BY <1>13 DEF CancelNext, Done, tableVars, callerVars, TypeOK, OneOwner, Owners, SettlerInv, CallerInv, Settlers
  <2>4. CallerInv'
    BY <1>13 DEF CancelNext, Done, tableVars, callerVars, TypeOK, CallerInv
  <2>5. (cancelled => pending = {})'
    BY <1>13 DEF CancelNext, Done, tableVars, callerVars
  <2> QED BY <2>1, <2>2, <2>3, <2>4, <2>5
<1>14. ASSUME NEW t \in Settlers, SetException(t) PROVE IInv'
  <2>1. TypeOK'
    BY <1>14 DEF SetException, Done, callerVars, TypeOK, Messages, NoMessage, SettlerInv, CallerInv, Settlers
  <2>2. OneOwner'
    BY <1>14 DEF SetException, Done, callerVars, TypeOK, OneOwner, Owners, SettlerInv, Settlers
  <2>3. SettlerInv'
    BY <1>14 DEF SetException, Done, callerVars, TypeOK, OneOwner, Owners, SettlerInv, CallerInv, Settlers
  <2>4. CallerInv'
    BY <1>14 DEF SetException, Done, callerVars, TypeOK, CallerInv
  <2>5. (cancelled => pending = {})'
    BY <1>14 DEF SetException, Done, callerVars
  <2> QED BY <2>1, <2>2, <2>3, <2>4, <2>5
<1>15. ASSUME NEW t \in Settlers, CancelReturns(t) PROVE IInv'
  <2>1. TypeOK'
    BY <1>15 DEF CancelReturns, tableVars, callerVars, TypeOK, Messages, NoMessage, SettlerInv, CallerInv, Settlers
  <2>2. OneOwner'
    BY <1>15 DEF CancelReturns, tableVars, callerVars, TypeOK, OneOwner, Owners, SettlerInv, Settlers
  <2>3. SettlerInv'
    BY <1>15 DEF CancelReturns, tableVars, callerVars, TypeOK, OneOwner, Owners, SettlerInv, CallerInv, Settlers
  <2>4. CallerInv'
    BY <1>15 DEF CancelReturns, tableVars, callerVars, TypeOK, CallerInv
  <2>5. (cancelled => pending = {})'
    BY <1>15 DEF CancelReturns, tableVars, callerVars
  <2> QED BY <2>1, <2>2, <2>3, <2>4, <2>5
<1>16. ASSUME Finished \/ UNCHANGED vars PROVE IInv'
  <2>1. TypeOK'
    BY <1>16 DEF Finished, vars, tableVars, callerVars, settlerVars, TypeOK, Messages, NoMessage, SettlerInv, CallerInv, Settlers
  <2>2. OneOwner'
    BY <1>16 DEF Finished, vars, tableVars, callerVars, settlerVars, TypeOK, OneOwner, Owners, SettlerInv, Settlers
  <2>3. SettlerInv'
    BY <1>16 DEF Finished, vars, tableVars, callerVars, settlerVars, TypeOK, OneOwner, Owners, SettlerInv, CallerInv, Settlers
  <2>4. CallerInv'
    BY <1>16 DEF Finished, vars, tableVars, callerVars, settlerVars, TypeOK, CallerInv
  <2>5. (cancelled => pending = {})'
    BY <1>16 DEF Finished, vars, tableVars, callerVars, settlerVars
  <2> QED BY <2>1, <2>2, <2>3, <2>4, <2>5
<1> QED
  BY <1>1, <1>2, <1>3, <1>4, <1>5, <1>6, <1>7, <1>8, <1>9, <1>10, <1>11, <1>12, <1>13, <1>14, <1>15, <1>16
  DEF Next, CallerStep, SettlerStep, Cancel, Settlers

\* The table of futures keeps its shape.
THEOREM TypeCorrect == SafetySpec => []TypeOK
<1>1. IInv => TypeOK
  BY DEF IInv
<1> QED BY InitIInv, NextIInv, <1>1, PTL DEF SafetySpec

\* Every unsettled future has one owner: what the two loops that settle
\* futures outside the lock rely on.
THEOREM OwnerIsUnique == SafetySpec => []OneOwner
<1>1. IInv => OneOwner
  BY DEF IInv
<1> QED BY InitIInv, NextIInv, <1>1, PTL DEF SafetySpec

\* Reader and runner never settle the same future: a future about to be set
\* is in the hand of the thread that sets it, so it is unsettled.
THEOREM NeverSettledTwice == SafetySpec => []SettledOnce
<1>1. IInv => SettledOnce
  <2> SUFFICES ASSUME IInv, NEW t \in Settlers, settlerPc[t] \in {"set", "fail"}
               PROVE  future[target[t]] = "unset"
    BY DEF SettledOnce
  <2>1. target[t] \in hand[t] /\ target[t] \in Requests
    BY DEF IInv, SettlerInv, TypeOK
  <2> QED BY <2>1 DEF IInv, OneOwner, Owners
<1> QED BY InitIInv, NextIInv, <1>1, PTL DEF SafetySpec

\* No call is left waiting on a future nobody will set: with the table empty
\* and nothing in hand no future is unsettled.
THEOREM NoCallIsOrphaned == SafetySpec => []NoOrphanedCall
<1>1. IInv => NoOrphanedCall
  <2> SUFFICES ASSUME IInv, cancelled, \A t \in Settlers : hand[t] = {},
                      NEW c \in Callers, callerPc[c] # "idle"
               PROVE  Done(call[c])
    BY DEF NoOrphanedCall
  <2>1. call[c] \in Requests /\ future[call[c]] # "none"
    BY DEF IInv, CallerInv
  <2>2. future[call[c]] # "unset"
    BY <2>1 DEF IInv, OneOwner, Owners
  <2> QED BY <2>1, <2>2 DEF IInv, TypeOK, Done
<1> QED BY InitIInv, NextIInv, <1>1, PTL DEF SafetySpec

\* The initial states of the table are initial states of RemoteCall.
LEMMA InitImplements == Init => Calls!Init
BY DEF Init, Calls!Init, Calls!Nothing, Nothing, CallState

\* Every step of the table is a step of RemoteCall or changes nothing there.
LEMMA NextImplements == IInv /\ [Next]_vars => [Calls!Next]_Calls!vars
<1> SUFFICES ASSUME IInv, [Next]_vars PROVE [Calls!Next]_Calls!vars
  OBVIOUS
<1> USE DEF IInv, Calls!vars
<1>1. ASSUME NEW c \in Callers, NEW o \in Ops, NewPending(c, o)
      PROVE  Calls!Next
  <2>1. PICK r \in Requests : /\ future[r] = "none"
                              /\ future' = [future EXCEPT ![r] = "unset"]
    BY <1>1 DEF NewPending
  <2>2. CallState(future[r]) = "unused" /\ CallState("unset") = "open"
    BY <2>1 DEF CallState
  <2>3. Calls!Open(r)
    BY <1>1, <2>1, <2>2 DEF NewPending, Accepting, Calls!Open, TypeOK
  <2> QED BY <2>3 DEF Calls!Next
<1>2. ASSUME UNCHANGED tableVars PROVE UNCHANGED Calls!vars
  BY <1>2 DEF tableVars
<1>3. CASE PopPending
  BY <1>3 DEF PopPending
<1>4. CASE SetResult
  <2>1. target[Reader] \in Requests /\ future[target[Reader]] = "unset"
    BY <1>4 DEF SetResult, SettlerInv, TypeOK, OneOwner, Owners, Settlers
  <2>2. message.payload \in Payloads
    BY <1>4, NoneAssumption DEF SetResult, SettlerInv, TypeOK, Messages, NoMessage
  <2>3. /\ CallState(future[target[Reader]]) = "open"
        /\ CallState("result") = "answered"
    BY <2>1 DEF CallState
  <2>4. Calls!Answer(target[Reader], message.payload)
    BY <1>4, <2>1, <2>3 DEF SetResult, Done, Calls!Answer, TypeOK
  <2> QED BY <2>1, <2>2, <2>4 DEF Calls!Next
<1>5. ASSUME NEW t \in Settlers, CancelTable(t)
      PROVE  Calls!Close \/ UNCHANGED Calls!vars
  BY <1>5 DEF CancelTable, Calls!Close, TypeOK
<1>6. ASSUME NEW t \in Settlers, SetException(t)
      PROVE  Calls!Next
  <2>1. target[t] \in Requests /\ future[target[t]] = "unset" /\ cancelled
    BY <1>6 DEF SetException, SettlerInv, TypeOK, OneOwner, Owners
  <2>2. /\ CallState(future[target[t]]) = "open"
        /\ CallState("exception") = "failed"
    BY <2>1 DEF CallState
  <2>3. future' = [future EXCEPT ![target[t]] = "exception"]
    BY <1>6, <2>1 DEF SetException, Done
  <2>4. UNCHANGED <<payload, cancelled>>
    BY <1>6 DEF SetException
  <2>5. Calls!Fail(target[t])
    BY <2>1, <2>2, <2>3, <2>4 DEF Calls!Fail, TypeOK
  <2> QED BY <2>1, <2>5 DEF Calls!Next
<1>7. ASSUME NEW c \in Callers,
             \/ RefuseCall(c) \/ ReflectWithoutTraces(c) \/ PutRequest(c)
             \/ BuildRequestFails(c) \/ FutureResult(c)
      PROVE  UNCHANGED tableVars
  BY <1>7 DEF RefuseCall, ReflectWithoutTraces, PutRequest, BuildRequestFails,
              FutureResult
<1>8. ASSUME NEW r \in Requests, NEW p \in Payloads, ReceiveResponse(r, p)
      PROVE  UNCHANGED tableVars
  BY <1>8 DEF ReceiveResponse
<1>9. ASSUME StreamEnds \/ OptimizerEnds \/ CheckDone \/ Finished \/ UNCHANGED vars
      PROVE  UNCHANGED tableVars
  BY <1>9 DEF StreamEnds, OptimizerEnds, CheckDone, Finished, vars
<1>10. ASSUME NEW t \in Settlers, CancelNext(t) \/ CancelReturns(t)
       PROVE  UNCHANGED tableVars
  BY <1>10 DEF CancelNext, CancelReturns
<1>11. Calls!Close => Calls!Next
  BY DEF Calls!Next
<1> QED
  BY <1>1, <1>2, <1>3, <1>4, <1>5, <1>6, <1>7, <1>8, <1>9, <1>10, <1>11
  DEF Next, CallerStep, SettlerStep, Cancel

\* The futures implement the abstract calls: opened before the cancel only,
\* settled once, failed after the cancel only.
THEOREM ImplementsCalls == SafetySpec => Calls!SafetySpec
BY InitIInv, NextIInv, InitImplements, NextImplements, PTL
   DEF SafetySpec, Calls!SafetySpec

===============================================================================
