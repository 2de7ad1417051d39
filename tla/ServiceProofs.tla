------------------------------ MODULE ServiceProofs ------------------------------
(***************************************************************************)
(* Proofs about what is put around the runs of RunRegistry: GetStatus, the *)
(* poll that reads their records, and Server, the process they run in.     *)
(* They are two specifications with variables of their own; what has been  *)
(* proved of the run table is carried over to both.                        *)
(***************************************************************************)
EXTENDS GetStatus, Server, RunRegistryProofs

-------------------------------------------------------------------------------
(* GetStatus: a record is read while its runner may be writing it *)

\* What is known of a poll made after the terminal message, read by read.
PollInv ==
  /\ ReportInv
  /\ DictInv
  /\ crashes \in Nat
  /\ ended # None => ended \in Streams /\ terminal[ended] # "none"
  /\ (pollPc \in {"message", "answered"} /\ ended # None /\ pollEntry = ended)
       => pollStatus = status[ended]
  /\ (pollPc = "answered" /\ ended # None /\ pollEntry = ended)
       => pollMessage = message[ended]

LEMMA InitPollInv == PollInit => PollInv
<1> SUFFICES ASSUME PollInit PROVE PollInv
  OBVIOUS
<1>1. ReportInv
  BY DEF PollInit, Init, ReportInv, ReportTypeOK, TerminalAgreesWithStatus, HandlerPcs,
         RunnerPcs
<1>2. DictInv
  BY InitDictInv DEF PollInit
<1> QED BY <1>1, <1>2 DEF PollInit, Init, NoPoll, PollInv

\* The runner of a run that has ended is past its last write, and no step of
\* another stream touches the record.
LEMMA EndedRecordIsFinal ==
  ASSUME ReportInv, crashes \in Nat, [Next]_vars, crashes' = crashes,
         NEW t \in Streams, terminal[t] # "none"
  PROVE  /\ terminal'[t] = terminal[t]
         /\ status'[t] = status[t]
         /\ message'[t] = message[t]
<1> DEFINE Kept == /\ terminal'[t] = terminal[t]
                   /\ status'[t] = status[t]
                   /\ message'[t] = message[t]
<1>1. /\ runner[t] \in {"finally", "done"}
      /\ handler[t] # "new"
      /\ terminal \in [Streams -> {"none", "complete", "error"}]
      /\ status \in [Streams -> {"none", "running", "complete", "failed"}]
      /\ message \in [Streams -> BOOLEAN]
  BY DEF ReportInv, ReportTypeOK
<1>2. CASE UNCHANGED <<runStatus, terminal>>
  BY <1>2 DEF runStatus
<1>3. ASSUME NEW s \in Streams, NEW k \in RunIds, RegisterRun(s, k) PROVE Kept
  <2>1. /\ s # t
        /\ status' = [status EXCEPT ![s] = "running"]
        /\ UNCHANGED <<message, terminal>>
    BY <1>1, <1>3 DEF RegisterRun, Admitted, stream
  <2> QED BY <1>1, <2>1
<1>4. ASSUME NEW s \in Streams, Register(s) PROVE Kept
  <2>1. CASE RejectStart(s)
    BY <1>2, <2>1 DEF RejectStart, stream
  <2>2. ASSUME NEW k \in RunIds, RejectDuplicate(s, k) PROVE Kept
    BY <1>2, <2>2 DEF RejectDuplicate, stream
  <2> QED BY <1>3, <1>4, <2>1, <2>2 DEF Register
<1>5. ASSUME NEW s \in Streams, HandlerReturns(s) \/ Disconnect(s) \/ ReaderCancels(s)
      PROVE  Kept
  BY <1>2, <1>5 DEF HandlerReturns, Disconnect, ReaderCancels, stream
<1>6. ASSUME NEW s \in Streams, RunnerReports(s) PROVE Kept
  <2>1. CASE ReportFails(s)
    BY <1>2, <2>1 DEF ReportFails, stream
  <2>2. CASE Finally(s)
    BY <1>2, <2>2 DEF Finally
  <2>3. CASE SetComplete(s)
    <3>1. /\ s # t /\ status' = [status EXCEPT ![s] = "complete"]
          /\ UNCHANGED <<message, terminal>>
      BY <1>1, <2>3 DEF SetComplete, Step, stream
    <3> QED BY <1>1, <3>1
  <2>4. CASE SetFailed(s)
    <3>1. /\ s # t /\ status' = [status EXCEPT ![s] = "failed"]
          /\ UNCHANGED <<message, terminal>>
      BY <1>1, <2>4 DEF SetFailed, Step, stream
    <3> QED BY <1>1, <3>1
  <2>5. CASE SetMessage(s)
    <3>1. /\ s # t /\ message' = [message EXCEPT ![s] = TRUE]
          /\ UNCHANGED <<status, terminal>>
      BY <1>1, <2>5 DEF SetMessage, Step, stream
    <3> QED BY <1>1, <3>1
  <2>6. CASE PutComplete(s) \/ PutError(s)
    <3>1. /\ s # t /\ UNCHANGED <<status, message>>
          /\ \E m \in {"complete", "error"} : terminal' = [terminal EXCEPT ![s] = m]
      BY <1>1, <2>6 DEF PutComplete, PutError, Step, runStatus
    <3> QED BY <1>1, <3>1
  <2> QED BY <1>6, <2>1, <2>2, <2>3, <2>4, <2>5, <2>6 DEF RunnerReports
<1>7. ASSUME NEW s \in Streams, RunnerStep(s), ~RunnerReports(s) PROVE Kept
  <2>1. UNCHANGED <<runStatus, terminal>>
    BY <1>7 DEF RunnerStep, OptimizerStarts, OptimizerIterates, SaveCheckpoint,
      OptimizerEnds, OptimizerReturns, OptimizerRaises, StartFails, OptimizerExits, stream
  <2> QED BY <1>2, <2>1
<1>8. CASE UNCHANGED vars
  BY <1>2, <1>8 DEF vars, stream
<1>9. ~Crash
  BY DEF Crash
<1> QED BY <1>4, <1>5, <1>6, <1>7, <1>8, <1>9 DEF Next, Quiet

\* The runs' steps leave what the poll has read of an ended run as it was.
LEMMA RunStepKeepsPollInv ==
  ASSUME PollInv, [Next]_vars, crashes' = crashes, UNCHANGED pollVars
  PROVE  PollInv'
<1>1. ReportInv' /\ DictInv' /\ crashes' \in Nat
  BY NextReportInv, NextDictInv DEF PollInv
<1>2. UNCHANGED <<pollPc, ended, pollEntry, pollStatus, pollMessage>>
  BY DEF pollVars
<1>3. ended # None => /\ terminal'[ended] = terminal[ended]
                      /\ status'[ended] = status[ended]
                      /\ message'[ended] = message[ended]
  BY EndedRecordIsFinal DEF PollInv
<1> QED BY <1>1, <1>2, <1>3 DEF PollInv

LEMMA NextPollInv == PollInv /\ [PollNext]_statusVars => PollInv'
<1> SUFFICES ASSUME PollInv, [PollNext]_statusVars PROVE PollInv'
  OBVIOUS
<1>1. ASSUME UNCHANGED vars PROVE ReportInv' /\ DictInv' /\ crashes' \in Nat
  BY <1>1, NextReportInv, NextDictInv DEF PollInv, vars
<1>2. ASSUME UNCHANGED vars PROVE UNCHANGED <<terminal, status, message, entry>>
  BY <1>2 DEF vars, registry, runStatus, stream
<1>3. ASSUME NEW k \in RunIds, AskStatus(k) PROVE PollInv'
  <2>1. /\ UNCHANGED vars /\ pollPc' = "lookup" /\ ended' = EndedUnder(k)
    BY <1>3 DEF AskStatus
  <2>2. ended' # None => ended' \in Streams /\ terminal[ended'] # "none"
    BY <2>1 DEF EndedUnder, Registered, PollInv, DictInv
  <2> QED BY <1>1, <1>2, <2>1, <2>2 DEF PollInv
<1>4. CASE Lookup
  <2>1. /\ UNCHANGED vars /\ UNCHANGED ended
        /\ pollEntry' = entry[pollId]
        /\ pollPc' = IF Registered(pollId) THEN "status" ELSE "answered"
    BY <1>4 DEF Lookup
  <2> QED BY <1>1, <1>2, <2>1 DEF PollInv, Registered
<1>5. CASE ReadStatus
  BY <1>1, <1>2, <1>5 DEF ReadStatus, PollInv
<1>6. CASE ReadMessage
  BY <1>1, <1>2, <1>6 DEF ReadMessage, PollInv
<1>7. CASE Answered
  BY <1>1, <1>2, <1>7 DEF Answered, PollEnds, PollInv
<1>8. CASE RunStep
  BY <1>8, RunStepKeepsPollInv DEF RunStep
<1>9. CASE CrashStep
  <2>1. ReportInv' /\ DictInv'
    BY <1>9, NextReportInv, NextDictInv DEF CrashStep, Next, PollInv
  <2> QED BY <1>9, <2>1 DEF CrashStep, Crash, PollEnds, PollInv
<1>10. CASE UNCHANGED statusVars
  <2>1. UNCHANGED vars /\ UNCHANGED pollVars
    BY <1>10 DEF statusVars
  <2> QED BY <2>1, RunStepKeepsPollInv DEF vars
<1> QED BY <1>3, <1>4, <1>5, <1>6, <1>7, <1>8, <1>9, <1>10 DEF PollNext

\* GetStatus, asked after the terminal message has been queued, answers what
\* that message says, whatever the runners of other streams write meanwhile.
THEOREM PollAgreesWithStream == PollSpec => []StatusAfterTerminal
<1>1. PollInv => StatusAfterTerminal
  BY DEF PollInv, StatusAfterTerminal, ReportInv, ReportTypeOK, TerminalAgreesWithStatus
<1> QED BY InitPollInv, NextPollInv, <1>1, PTL DEF PollSpec

\* To the runs a poll is not there: its steps leave them alone, and what its
\* lock keeps out is only delayed.
LEMMA PollStepIsRunStep == [PollNext]_statusVars => [Next]_vars
BY DEF PollNext, AskStatus, Lookup, ReadStatus, ReadMessage, Answered, RunStep, CrashStep,
       Next, statusVars

\* Everything proved of the runs holds with GetStatus reading their records.
THEOREM PollsLeaveTheRunsAlone == PollSpec => SafetySpec
<1>1. PollInit => Init
  BY DEF PollInit
<1> QED BY <1>1, PollStepIsRunStep, PTL DEF PollSpec, SafetySpec

\* The checkpoints advance, polls or not.
THEOREM CheckpointsAdvanceUnderPolls ==
  ASSUME MaxActive <= MaxRuns
  PROVE  PollSpec => CheckpointNeverRegresses
BY PollsLeaveTheRunsAlone, CheckpointsAdvance, PTL

-------------------------------------------------------------------------------
(* Server: the exit takes no run away from a client that is connected *)

\* No fault loses a runner.
NoFaults == MaxFaults = 0

ThreadTypes ==
  /\ handler \in [Streams -> HandlerPcs]
  /\ runner \in [Streams -> RunnerPcs]
  /\ terminal \in [Streams -> {"none", "complete", "error"}]
  /\ link \in [Streams -> {"up", "down"}]
  /\ calls \in Seq(Streams \cup Polls)
  /\ opening \subseteq Streams

\* A runner that is through has queued its terminal message, and nobody but
\* the runner makes the handler leave a client that is there.
Explained(s) ==
  /\ runner[s] \in {"finally", "done"} => terminal[s] # "none"
  /\ handler[s] \in {"new", "duplicate"} => runner[s] = "off"
  /\ (handler[s] = "gone" /\ link[s] = "up") => runner[s] \in {"off", "done"}

\* From serve's return on, no client is there that the server still serves.
LateInv ==
  /\ stage \in {"exiting", "exited"} => \A s \in Streams : Connected(s) => link[s] = "down"
  /\ stage = "exited" => \A s \in Streams : handler[s] # "open"

ExitInv == ThreadTypes /\ (\A s \in Streams : Explained(s)) /\ LateInv

LEMMA InitExitInv == ServerInit => ExitInv
<1> SUFFICES ASSUME ServerInit PROVE ExitInv
  OBVIOUS
<1>1. ThreadTypes
  BY EmptySeq DEF ServerInit, Init, ThreadTypes, HandlerPcs, RunnerPcs
<1>2. (\A s \in Streams : Explained(s)) /\ LateInv
  BY DEF ServerInit, Init, Explained, LateInv
<1> QED BY <1>1, <1>2 DEF ExitInv

LEMMA NoRunnerIsLost ==
  ASSUME NoFaults
  PROVE  ~MayFault
<1>1. IsFiniteSet(Lost)
  BY StreamsAssumption, FS_Subset DEF Lost
<1>2. Cardinality(Lost) \in Nat
  BY <1>1, FS_CardinalityType
<1> QED BY <1>2 DEF MayFault, NoFaults

\* What a step may do to the threads of a stream.
Goes(s) ==
  \/ UNCHANGED <<handler[s], runner[s], terminal[s]>>
  \/ /\ handler[s] = "new"
     /\ handler'[s] \in {"gone", "duplicate"}
     /\ UNCHANGED <<runner[s], terminal[s]>>
  \/ /\ handler[s] = "new" /\ handler'[s] = "open"
     /\ runner'[s] = "start"
     /\ UNCHANGED terminal[s]
  \/ /\ handler[s] = "open" /\ handler'[s] = "gone"
     /\ runner[s] = "done" \/ link[s] = "down"
     /\ UNCHANGED <<runner[s], terminal[s]>>
  \/ /\ runner[s] \notin {"off", "finally", "done"}
     /\ runner'[s] \notin {"off", "finally", "done"}
     /\ UNCHANGED <<handler[s], terminal[s]>>
  \/ /\ runner[s] \notin {"off", "finally", "done"}
     /\ runner'[s] = "finally" /\ terminal'[s] # "none"
     /\ UNCHANGED handler[s]
  \/ /\ runner[s] = "finally" /\ runner'[s] = "done"
     /\ UNCHANGED <<handler[s], terminal[s]>>

ThreadsGoOn ==
  /\ ThreadTypes'
  /\ \A s \in Streams : Goes(s) /\ (link[s] = "down" => link'[s] = "down")

LEMMA RegisterGoesOn ==
  ASSUME ThreadTypes, NEW s \in Streams, Register(s),
         calls' \in Seq(Streams \cup Polls), opening' \subseteq Streams
  PROVE  ThreadsGoOn
<1> USE DEF ThreadTypes, ThreadsGoOn, Goes, HandlerPcs, RunnerPcs, Admitted, stream
<1>1. CASE RejectStart(s)
  BY <1>1 DEF RejectStart
<1>2. ASSUME NEW k \in RunIds, RejectDuplicate(s, k) PROVE ThreadsGoOn
  BY <1>2 DEF RejectDuplicate
<1>3. ASSUME NEW k \in RunIds, RegisterRun(s, k) PROVE ThreadsGoOn
  <2>1. /\ handler[s] = "new"
        /\ handler' = [handler EXCEPT ![s] = "open"]
        /\ runner' = [runner EXCEPT ![s] = "start"]
        /\ UNCHANGED <<terminal, link>>
    BY <1>3 DEF RegisterRun
  <2> QED BY <2>1
<1> QED BY <1>1, <1>2, <1>3 DEF Register

LEMMA ThreadStepGoesOn ==
  ASSUME NoFaults, ThreadTypes, NEW s \in Streams, ThreadStep(s)
  PROVE  ThreadsGoOn
<1> USE DEF ThreadTypes, ThreadsGoOn, Goes, HandlerPcs, RunnerPcs, Step, stream, server
<1>0. UNCHANGED <<calls, opening>>
  BY DEF ThreadStep
<1>1. CASE HandlerReturns(s)
  BY <1>0, <1>1 DEF HandlerReturns
<1>2. CASE ReaderCancels(s)
  BY <1>0, <1>2 DEF ReaderCancels, threads
<1>3. CASE OptimizerStarts(s)
  BY <1>0, <1>3 DEF OptimizerStarts
<1>4. CASE OptimizerIterates(s) \/ SaveCheckpoint(s)
  BY <1>0, <1>4 DEF OptimizerIterates, SaveCheckpoint, threads
<1>5. CASE OptimizerEnds(s)
  BY <1>0, <1>5 DEF OptimizerEnds, OptimizerReturns, OptimizerRaises
<1>6. CASE SetComplete(s) \/ ReportFails(s) \/ SetFailed(s) \/ SetMessage(s)
  BY <1>0, <1>6 DEF SetComplete, ReportFails, SetFailed, SetMessage
<1>7. CASE PutComplete(s) \/ PutError(s)
  BY <1>0, <1>7 DEF PutComplete, PutError
<1>8. CASE Finally(s)
  BY <1>0, <1>8 DEF Finally
<1>9. CASE StartFails(s) \/ OptimizerExits(s)
  BY <1>9, NoRunnerIsLost DEF StartFails, OptimizerExits
<1> QED
  BY <1>1, <1>2, <1>3, <1>4, <1>5, <1>6, <1>7, <1>8, <1>9
  DEF ThreadStep, RunnerStep, RunnerReports

LEMMA GoingOnExplains ==
  ASSUME ThreadTypes, \A s \in Streams : Explained(s), ThreadsGoOn
  PROVE  \A s \in Streams : Explained(s)'
BY DEF ThreadTypes, ThreadsGoOn, Goes, Explained, HandlerPcs, RunnerPcs

LEMMA NextExitInv ==
  ASSUME NoFaults
  PROVE  ExitInv /\ [ServerNext]_serverVars => ExitInv'
<1> SUFFICES ASSUME ExitInv, [ServerNext]_serverVars PROVE ExitInv'
  OBVIOUS
<1> USE DEF server, vars, threads, stream
<1>1. ThreadTypes /\ (\A s \in Streams : Explained(s)) /\ LateInv
  BY DEF ExitInv
<1>2. CASE UNCHANGED serverVars
  BY <1>1, <1>2
  DEF serverVars, ExitInv, ThreadTypes, Explained, LateInv, Connected, Waiting
<1>3. CASE LaunchFails \/ Launch \/ Signal
  BY <1>1, <1>3
  DEF LaunchFails, Launch, Signal, Move, ExitInv, ThreadTypes, Explained, LateInv
<1>4. CASE GraceEnds
  <2>1. ThreadTypes' /\ \A s \in Streams : Explained(s)'
    BY <1>1, <1>4 DEF GraceEnds, ThreadTypes, Explained
  <2> QED BY <1>4, <2>1 DEF GraceEnds, Move, LateInv, ExitInv
<1>5. CASE ServeReturns
  BY <1>1, <1>5
  DEF ServeReturns, Drained, ExitInv, ThreadTypes, Explained, LateInv, Connected, Waiting
<1>6. CASE Exit
  BY <1>1, <1>6
  DEF Exit, Move, Joined, Held, Busy, ExitInv, ThreadTypes, Explained, LateInv, Connected,
      Waiting
<1>7. ASSUME NEW c \in Streams \cup Polls, calls' = Append(calls, c), stage = "serving",
             UNCHANGED <<vars, stage, opening>>
      PROVE  ExitInv'
  <2>1. calls' \in Seq(Streams \cup Polls)
    BY <1>1, <1>7, AppendProperties DEF ThreadTypes
  <2> QED BY <1>1, <1>7, <2>1 DEF ExitInv, ThreadTypes, Explained, LateInv
<1>8. CASE ThreadTakesCall
  <2>1. /\ calls # <<>> /\ calls' = Tail(calls) /\ calls \in Seq(Streams \cup Polls)
        /\ UNCHANGED <<vars, stage>>
        /\ \/ UNCHANGED opening
           \/ opening' = opening \cup {Head(calls)} /\ Head(calls) \notin Polls
    BY <1>1, <1>8 DEF ThreadTakesCall, ThreadTypes
  <2>2. /\ calls' \in Seq(Streams \cup Polls) /\ Head(calls) \in Streams \cup Polls
        /\ Head(calls) \in ToSet(calls) /\ ToSet(calls') \subseteq ToSet(calls)
    <3>1. /\ Tail(calls) \in Seq(Streams \cup Polls) /\ Head(calls) = calls[1]
          /\ Len(calls) \in Nat \ {0} /\ Len(Tail(calls)) = Len(calls) - 1
          /\ \A i \in 1..(Len(calls) - 1) : Tail(calls)[i] = calls[i + 1]
          /\ calls[1] \in Streams \cup Polls
      BY <2>1, HeadTailProperties, EmptySeq, LenProperties, ElementOfSeq
    <3>2. DOMAIN calls = 1..Len(calls) /\ DOMAIN Tail(calls) = 1..(Len(calls) - 1)
      BY <2>1, <3>1, LenProperties
    <3>3. \A i \in 1..(Len(calls) - 1) : i + 1 \in 1..Len(calls)
      BY <3>1
    <3>4. Head(calls) \in ToSet(calls)
      BY <3>1, <3>2 DEF ToSet
    <3>5. \A x \in ToSet(Tail(calls)) : x \in ToSet(calls)
      BY <3>1, <3>2, <3>3 DEF ToSet
    <3> QED BY <2>1, <3>1, <3>4, <3>5
  <2>3. \A s \in Streams : Connected(s)' => Connected(s)
    BY <2>1, <2>2 DEF Connected, Waiting
  <2>4. ThreadTypes'
    BY <1>1, <2>1, <2>2 DEF ThreadTypes
  <2> QED BY <1>1, <2>1, <2>3, <2>4 DEF ExitInv, Explained, LateInv
<1>9. ASSUME NEW s \in Streams, ReadFirst(s) \/ OpeningFails(s) PROVE ExitInv'
  <2>1. /\ Register(s) /\ s \in opening /\ opening' = opening \ {s}
        /\ UNCHANGED <<stage, calls>>
        /\ stage # "exited"
        /\ link[s] = "up" \/ RejectStart(s)
    BY <1>9 DEF ReadFirst, OpeningFails, Register, Alive
  <2>2. ThreadsGoOn
    BY <1>1, <2>1, RegisterGoesOn DEF ThreadTypes
  <2>3. \A t \in Streams : Explained(t)'
    BY <1>1, <2>2, GoingOnExplains
  <2>4. LateInv'
    <3>1. CASE link[s] = "up"
      BY <1>1, <2>1, <3>1 DEF LateInv, Connected
    <3>2. CASE RejectStart(s)
      BY <1>1, <2>1, <3>2 DEF LateInv, Connected, Waiting, RejectStart, ThreadTypes
    <3> QED BY <2>1, <3>1, <3>2
  <2> QED BY <2>2, <2>3, <2>4 DEF ExitInv, ThreadsGoOn
<1>10. ASSUME NEW s \in Streams, CallerLeaves(s) PROVE ExitInv'
  BY <1>1, <1>10
  DEF CallerLeaves, Alive, ExitInv, ThreadTypes, Explained, LateInv, Connected, Waiting
<1>11. ASSUME NEW s \in Streams, ThreadStep(s) PROVE ExitInv'
  <2>1. ThreadsGoOn /\ UNCHANGED <<stage, calls, opening>> /\ stage # "exited"
    BY <1>1, <1>11, ThreadStepGoesOn DEF ThreadStep, Alive
  <2>2. \A t \in Streams : Explained(t)'
    BY <1>1, <2>1, GoingOnExplains
  <2>3. \A t \in Streams : Connected(t)' => Connected(t)
    <3>1. \A t \in Streams : handler'[t] = "open" => handler[t] = "open"
      BY <1>1, <1>11
      DEF ThreadStep, HandlerReturns, ReaderCancels, RunnerStep, OptimizerStarts,
          OptimizerIterates, SaveCheckpoint, OptimizerEnds, OptimizerReturns, OptimizerRaises,
          RunnerReports, SetComplete, PutComplete, ReportFails, SetFailed, SetMessage, PutError,
          Finally, StartFails, OptimizerExits, ThreadTypes
    <3> QED BY <2>1, <3>1 DEF Connected, Waiting
  <2> QED BY <1>1, <2>1, <2>2, <2>3 DEF ExitInv, LateInv, ThreadsGoOn
<1> QED
  BY <1>2, <1>3, <1>4, <1>5, <1>6, <1>7, <1>8, <1>9, <1>10, <1>11
  DEF ServerNext, Off, CallStream, CallGetStatus

\* A run the exit finds begun has told its client how it ended, or its client
\* was lost or cut off at the end of the grace period.
THEOREM ServerExitsCleanly ==
  ASSUME NoFaults
  PROVE  ServerSpec => []ExitIsClean
<1>1. ExitInv /\ [ServerNext]_serverVars => ExitInv'
  BY NextExitInv
<1>2. ExitInv => ExitIsClean
  BY DEF ExitInv, ThreadTypes, HandlerPcs, RunnerPcs, Explained, LateInv, ExitIsClean
<1> QED BY InitExitInv, <1>1, <1>2, PTL DEF ServerSpec

-------------------------------------------------------------------------------
(* Server: the run table, until the exit takes it away *)

\* Clients are lost, by themselves or cut off: nothing else of a run changes.
LinkStep ==
  /\ link' \in [Streams -> {"up", "down"}]
  /\ UNCHANGED <<registry, runId, threads, runStatus, terminal, cancelled, disk, crashes>>

\* A step of the server is one of the runs, or loses clients, or is the exit.
LEMMA ServerSteps ==
  ASSUME TypeOK, [ServerNext]_serverVars
  PROVE  \/ [Next]_vars /\ (stage' = "exited" <=> stage = "exited")
         \/ LinkStep /\ (stage' = "exited" <=> stage = "exited")
         \/ Exit
<1>1. CASE LaunchFails \/ Launch \/ Signal \/ ServeReturns
  BY <1>1 DEF LaunchFails, Launch, Signal, ServeReturns, Move
<1>2. CASE GraceEnds
  <2>1. link' \in [Streams -> {"up", "down"}]
    BY <1>2 DEF GraceEnds, TypeOK
  <2> QED BY <1>2, <2>1 DEF GraceEnds, Move, LinkStep
<1>3. CASE Off \/ UNCHANGED serverVars
  BY <1>3 DEF Off, serverVars, server
<1>4. CASE ThreadTakesCall
  BY <1>4 DEF ThreadTakesCall
<1>5. ASSUME NEW p \in Polls, CallGetStatus(p) PROVE UNCHANGED <<vars, stage>>
  BY <1>5 DEF CallGetStatus
<1>6. ASSUME NEW s \in Streams, CallStream(s) PROVE UNCHANGED <<vars, stage>>
  BY <1>6 DEF CallStream
<1>7. ASSUME NEW s \in Streams, ReadFirst(s) \/ OpeningFails(s) PROVE Next /\ UNCHANGED stage
  BY <1>7 DEF ReadFirst, OpeningFails, Next, Register
<1>8. ASSUME NEW s \in Streams, CallerLeaves(s) PROVE LinkStep /\ UNCHANGED stage
  <2>1. link' \in [Streams -> {"up", "down"}]
    BY <1>8 DEF CallerLeaves, TypeOK
  <2> QED BY <1>8, <2>1 DEF CallerLeaves, LinkStep, server
<1>9. ASSUME NEW s \in Streams, ThreadStep(s) PROVE Next /\ UNCHANGED stage
  BY <1>9 DEF ThreadStep, Next, server
<1> QED BY <1>1, <1>2, <1>3, <1>4, <1>5, <1>6, <1>7, <1>8, <1>9 DEF ServerNext

\* What RunRegistryProofs says of the runs, none of which is about who is
\* connected.
RunsInv == DiskInv /\ DictInv /\ ReportInv

LEMMA LinkStepKeepsRuns == RunsInv /\ LinkStep => RunsInv'
<1> SUFFICES ASSUME RunsInv, LinkStep PROVE RunsInv'
  OBVIOUS
<1> USE DEF RunsInv, LinkStep, registry, threads, runStatus, disk
<1>1. TypeOK'
  BY DEF DiskInv, IInv, TypeOK
<1>2. IInv'
  BY <1>1 DEF DiskInv, IInv, TableInv, EntryInv, ActiveInv, StreamInv, Registered
<1>3. AheadOfDisk'
  BY DEF DiskInv, AheadOfDisk, Optimizing
<1>4. DictInv'
  BY DEF DictInv, TableInv, Registered
<1>5. ReportInv'
  BY DEF ReportInv, ReportTypeOK, TerminalAgreesWithStatus
<1> QED BY <1>2, <1>3, <1>4, <1>5 DEF DiskInv

\* The exit empties the table and stops every run where it is.
TableInServer ==
  IF stage = "exited"
  THEN /\ TypeOK /\ DictInv /\ ExclusiveRunDir
       /\ \A s \in Streams : status[s] = "none"
  ELSE RunsInv

LEMMA InitTableInServer == ServerInit => TableInServer
<1> SUFFICES ASSUME ServerInit PROVE RunsInv
  BY DEF TableInServer, ServerInit
<1>1. ReportInv
  BY DEF ServerInit, Init, ReportInv, ReportTypeOK, TerminalAgreesWithStatus, HandlerPcs,
         RunnerPcs
<1> QED BY <1>1, InitDiskInv, InitDictInv DEF ServerInit, RunsInv

LEMMA NextTableInServer ==
  ASSUME MaxActive <= MaxRuns
  PROVE  TableInServer /\ [ServerNext]_serverVars => TableInServer'
<1> SUFFICES ASSUME TableInServer, [ServerNext]_serverVars PROVE TableInServer'
  OBVIOUS
<1>1. TypeOK
  BY DEF TableInServer, RunsInv, DiskInv, IInv
<1>2. CASE stage = "exited"
  <2>1. UNCHANGED serverVars
    BY <1>2 DEF ServerNext, LaunchFails, Launch, Signal, GraceEnds, ServeReturns, Exit, Off,
      Move, ThreadTakesCall, CallGetStatus, CallStream, ReadFirst, OpeningFails, CallerLeaves,
      ThreadStep, Alive
  <2>2. UNCHANGED vars /\ stage' = "exited"
    BY <1>2, <2>1 DEF serverVars, server
  <2>3. TypeOK' /\ DictInv' /\ ExclusiveRunDir' /\ \A s \in Streams : status'[s] = "none"
    <3> USE <1>2, <2>2
        DEF TableInServer, vars, registry, threads, runStatus, stream, disk
    <3>1. TypeOK'
      BY DEF TypeOK
    <3>2. DictInv'
      BY DEF DictInv, TableInv, Registered
    <3>3. ExclusiveRunDir'
      BY DEF ExclusiveRunDir, Optimizing
    <3> QED BY <3>1, <3>2, <3>3
  <2> QED BY <2>2, <2>3 DEF TableInServer
<1>3. CASE RunsInv /\ [Next]_vars /\ stage' # "exited"
  <2>1. DiskInv' /\ DictInv' /\ ReportInv'
    BY <1>3, NextDiskInv, NextDictInv, NextReportInv DEF RunsInv
  <2> QED BY <1>3, <2>1 DEF TableInServer, RunsInv
<1>4. CASE RunsInv /\ LinkStep /\ stage' # "exited"
  BY <1>4, LinkStepKeepsRuns DEF TableInServer
<1>5. CASE RunsInv /\ Exit
  <2>1. /\ order' = <<>>
        /\ entry' = [k \in RunIds |-> None]
        /\ status' = [s \in Streams |-> "none"]
        /\ UNCHANGED <<runId, threads, message, stream, disk, crashes>>
        /\ stage' = "exited"
    BY <1>5 DEF Exit, Move
  <2>2. TypeOK'
    BY <1>1, <2>1 DEF TypeOK, threads, stream, disk
  <2>3. DictInv'
    BY <2>1, BoundsAssumption DEF DictInv, TableInv, Registered
  <2>4. ExclusiveRunDir'
    BY <1>5, <2>1
    DEF RunsInv, DiskInv, IInv, ActiveInv, StreamInv, ExclusiveRunDir, Optimizing, threads
  <2> QED BY <2>1, <2>2, <2>3, <2>4 DEF TableInServer
<1> QED BY <1>1, <1>2, <1>3, <1>4, <1>5, ServerSteps DEF TableInServer

\* In the server as a whole, with its queue, its pool and its way of stopping,
\* a run in progress is the one its run id finds.
THEOREM ServerTracksActive ==
  ASSUME MaxActive <= MaxRuns
  PROVE  ServerSpec => []RegistryTracksActive
<1>1. TableInServer /\ [ServerNext]_serverVars => TableInServer'
  BY NextTableInServer
<1>2. TableInServer => RegistryTracksActive
  BY DEF TableInServer, RunsInv, DiskInv, IInv, ActiveInv, RegistryTracksActive
<1> QED BY InitTableInServer, <1>1, <1>2, PTL DEF ServerSpec

\* Nor do two optimizers ever work in one run directory there.
THEOREM ServerRunDirIsExclusive ==
  ASSUME MaxActive <= MaxRuns
  PROVE  ServerSpec => []ExclusiveRunDir
<1>1. TableInServer /\ [ServerNext]_serverVars => TableInServer'
  BY NextTableInServer
<1>2. TableInServer => ExclusiveRunDir
  BY DEF TableInServer, RunsInv, DiskInv, IInv, ActiveInv, StreamInv, ExclusiveRunDir,
         Optimizing
<1> QED BY InitTableInServer, <1>1, <1>2, PTL DEF ServerSpec

\* Until the process is gone, the record of a run agrees with the terminal
\* message that its client has been sent, also of a client cut off by a signal.
THEOREM ServerTerminalMatchesRecord ==
  ASSUME MaxActive <= MaxRuns
  PROVE  ServerSpec => [](stage # "exited" => TerminalAgreesWithStatus)
<1>1. TableInServer /\ [ServerNext]_serverVars => TableInServer'
  BY NextTableInServer
<1>2. TableInServer => (stage # "exited" => TerminalAgreesWithStatus)
  BY DEF TableInServer, RunsInv, ReportInv
<1> QED BY InitTableInServer, <1>1, <1>2, PTL DEF ServerSpec

\* A shutdown, wherever it finds the runs, sets back no checkpoint.
THEOREM ServerCheckpointsAdvance ==
  ASSUME MaxActive <= MaxRuns
  PROVE  ServerSpec => CheckpointNeverRegresses
<1>1. TableInServer /\ [ServerNext]_serverVars => TableInServer'
  BY NextTableInServer
<1>2. TableInServer /\ [ServerNext]_serverVars
        => [\A k \in RunIds : checkpoint'[k] >= checkpoint[k]]_vars
  <2> SUFFICES ASSUME TableInServer, [ServerNext]_serverVars
               PROVE  [\A k \in RunIds : checkpoint'[k] >= checkpoint[k]]_vars
    OBVIOUS
  <2>1. TypeOK
    BY DEF TableInServer, RunsInv, DiskInv, IInv
  <2>2. ASSUME UNCHANGED checkpoint PROVE \A k \in RunIds : checkpoint'[k] >= checkpoint[k]
    BY <2>1, <2>2 DEF TypeOK
  <2>3. LinkStep \/ Exit => UNCHANGED checkpoint
    BY DEF LinkStep, Exit, disk
  <2>4. CASE [Next]_vars /\ stage # "exited"
    BY <2>4, StepAdvances DEF TableInServer, RunsInv
  <2>5. CASE stage = "exited"
    BY <2>5 DEF ServerNext, LaunchFails, Launch, Signal, GraceEnds, ServeReturns, Exit, Off,
      Move, ThreadTakesCall, CallGetStatus, CallStream, ReadFirst, OpeningFails, CallerLeaves,
      ThreadStep, Alive, serverVars
  <2> QED BY <2>1, <2>2, <2>3, <2>4, <2>5, ServerSteps
<1> QED
  BY InitTableInServer, <1>1, <1>2, PTL DEF ServerSpec, CheckpointNeverRegresses

===============================================================================
