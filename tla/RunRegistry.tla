------------------------------ MODULE RunRegistry ------------------------------
(***************************************************************************)
(* gepa_rpc/servicer.py across streams: GEPAServicer's table of runs, the  *)
(* run_status record each run writes, and the run directories.  A stream   *)
(* (one RunOptimization or RunOptimizationOmni call) registers its run_id, *)
(* its runner thread works in run_dir, its client may go away at any time  *)
(* and come back on another stream.  RunStream models what happens on one  *)
(* stream; here a stream is its handler, its runner and its link.          *)
(***************************************************************************)
EXTENDS Naturals, Sequences, SequencesExt, FiniteSets

CONSTANTS
  Streams,      \* optimization calls, on either endpoint
  RunIds,       \* run ids that pass _validate_run_id
  MaxRuns,      \* _MAX_RUNS
  Workers,      \* max_workers of the server's thread pool
  MaxActive,    \* bound on runs in progress that clients keep to; nothing in
                \* the code enforces it
  MaxIteration, \* bound on optimizer iterations per run id
  MaxCrashes,   \* bound on server restarts
  MaxFaults,    \* bound on runs a server loses to a fault no handler catches
  None          \* no stream, no run id

ASSUME BoundsAssumption ==
  /\ MaxRuns \in Nat \ {0}
  /\ Workers \in Nat
  /\ MaxActive \in Nat
  /\ MaxIteration \in Nat
  /\ MaxCrashes \in Nat
  /\ MaxFaults \in Nat
ASSUME StreamsAssumption == IsFiniteSet(Streams) /\ None \notin Streams
ASSUME RunIdsAssumption == None \notin RunIds

VARIABLES
  order,        \* keys of self._runs, oldest insertion first
  entry,        \* run id -> stream whose run_status is in the table
  runId,        \* run id of a stream, once its first message is read
  handler,      \* handler thread
  runner,       \* program counter of the runner thread
  status,       \* run_status["status"]
  message,      \* run_status["message"] has been set
  terminal,     \* terminal message put on the outbound queue
  link,         \* is the client there
  cancelled,    \* the stream's adapter is cancelled
  iteration,    \* progress of the stream's optimizer
  checkpoint,   \* progress saved in the run directory
  crashes       \* restarts so far

registry == <<order, entry>>
threads == <<handler, runner>>
runStatus == <<status, message>>
stream == <<terminal, link, cancelled>>
disk == <<iteration, checkpoint>>
vars == <<registry, runId, threads, runStatus, stream, disk, crashes>>

HandlerPcs == {"new", "open", "duplicate", "gone"}
RunnerPcs == {"off", "start", "optimize", "returned", "report", "raised",
              "message", "error", "finally", "done"}

TypeOK ==
  /\ order \in Seq(RunIds)
  /\ entry \in [RunIds -> Streams \cup {None}]
  /\ runId \in [Streams -> RunIds \cup {None}]
  /\ handler \in [Streams -> HandlerPcs]
  /\ runner \in [Streams -> RunnerPcs]
  /\ status \in [Streams -> {"none", "running", "complete", "failed"}]
  /\ message \in [Streams -> BOOLEAN]
  /\ terminal \in [Streams -> {"none", "complete", "error"}]
  /\ link \in [Streams -> {"up", "down"}]
  /\ cancelled \in [Streams -> BOOLEAN]
  /\ iteration \in [Streams -> Nat]
  /\ checkpoint \in [RunIds -> Nat]
  /\ crashes \in Nat

Init ==
  /\ order = <<>>
  /\ entry = [k \in RunIds |-> None]
  /\ runId = [s \in Streams |-> None]
  /\ handler = [s \in Streams |-> "new"]
  /\ runner = [s \in Streams |-> "off"]
  /\ status = [s \in Streams |-> "none"]
  /\ message = [s \in Streams |-> FALSE]
  /\ terminal = [s \in Streams |-> "none"]
  /\ link = [s \in Streams |-> "up"]
  /\ cancelled = [s \in Streams |-> FALSE]
  /\ iteration = [s \in Streams |-> 0]
  /\ checkpoint = [k \in RunIds |-> 0]
  /\ crashes = 0

-------------------------------------------------------------------------------
(* The handler: the first message, _validate_run_id and _register_run *)

Running == {s \in Streams : status[s] = "running"}
Busy == {s \in Streams : handler[s] = "open"}

\* A worker thread is free.
Admitted(s) ==
  /\ handler[s] = "new"
  /\ Cardinality(Busy) < Workers

\* No start_request, or a run_id that fails _validate_run_id.
RejectStart(s) ==
  /\ Admitted(s)
  /\ handler' = [handler EXCEPT ![s] = "gone"]
  /\ UNCHANGED <<registry, runId, runner, runStatus, stream, disk, crashes>>

\* A faulty variant, like each operator below whose comment calls it one: the
\* code does not do this, and the properties must notice if it did.  The entry
\* that is there is not looked at.
NeverActive(k) == FALSE

Registered(k) == entry[k] # None
IsActive(k) == Registered(k) /\ status[entry[k]] = "running"

\* A start under a run id whose entry is still running.
RejectDuplicate(s, k) ==
  /\ Admitted(s)
  /\ IsActive(k)
  /\ runId' = [runId EXCEPT ![s] = k]
  /\ handler' = [handler EXCEPT ![s] = "duplicate"]
  /\ UNCHANGED <<registry, runner, runStatus, stream, disk, crashes>>

FinishedAt(i) == status[entry[order[i]]] \in {"complete", "failed"}

\* A faulty variant: the oldest entry goes, in progress or not.
EvictOldest(i) == i = 1

\* The place in the table that is given up: the oldest finished entry, or
\* else the oldest entry.
Evictable(i) ==
  IF \E j \in DOMAIN order : FinishedAt(j)
  THEN FinishedAt(i) /\ \A j \in 1..(i - 1) : ~FinishedAt(j)
  ELSE i = 1

\* self._runs[run_id] = run_status: a key that is there keeps its place.
Insert(o, e, k, s) ==
  /\ order' = IF e[k] = None THEN Append(o, k) ELSE o
  /\ entry' = [e EXCEPT ![k] = s]

\* A faulty variant: one entry too many.
HasRoomAtLimit == Len(order) <= MaxRuns

HasRoom == Len(order) < MaxRuns

\* A full table evicts, without asking whether the run id has a place already.
RegisterRun(s, k) ==
  /\ Admitted(s)
  /\ Cardinality(Running) < MaxActive
  /\ ~IsActive(k)
  /\ \/ /\ HasRoom
        /\ Insert(order, entry, k, s)
     \/ /\ ~HasRoom
        /\ \E i \in DOMAIN order :
             /\ Evictable(i)
             /\ Insert(RemoveAt(order, i), [entry EXCEPT ![order[i]] = None], k, s)
  /\ runId' = [runId EXCEPT ![s] = k]
  /\ status' = [status EXCEPT ![s] = "running"]
  /\ handler' = [handler EXCEPT ![s] = "open"]
  /\ runner' = [runner EXCEPT ![s] = "start"]
  /\ UNCHANGED <<message, stream, disk, crashes>>

\* A faulty variant: it returns when the queue is empty.
HandlerGivesUp(s) ==
  /\ handler[s] = "open"
  /\ handler' = [handler EXCEPT ![s] = "gone"]
  /\ UNCHANGED <<registry, runId, runner, runStatus, stream, disk, crashes>>

\* The drain loop returns at the runner's None, or, when the client is gone,
\* at the first message it fails to send: there may be one on the queue as
\* soon as the optimizer has begun.
HandlerReturns(s) ==
  /\ handler[s] = "open"
  /\ runner[s] = "done" \/ (link[s] = "down" /\ runner[s] # "start")
  /\ handler' = [handler EXCEPT ![s] = "gone"]
  /\ UNCHANGED <<registry, runId, runner, runStatus, stream, disk, crashes>>

-------------------------------------------------------------------------------
(* The client's end of the stream, and the reader thread *)

Disconnect(s) ==
  /\ handler[s] = "open"
  /\ link[s] = "up"
  /\ link' = [link EXCEPT ![s] = "down"]
  /\ UNCHANGED <<registry, runId, threads, runStatus, terminal, cancelled, disk,
                 crashes>>

\* A faulty variant: the reader does not notice a lost client.
RequestsEndLate(s) == handler[s] = "gone"

RequestsEnd(s) == link[s] = "down" \/ handler[s] = "gone"

\* The reader's loop over the request stream ends: adapter.cancel.
ReaderCancels(s) ==
  /\ runner[s] # "off"
  /\ RequestsEnd(s)
  /\ ~cancelled[s]
  /\ cancelled' = [cancelled EXCEPT ![s] = TRUE]
  /\ UNCHANGED <<registry, runId, threads, runStatus, terminal, link, disk, crashes>>

-------------------------------------------------------------------------------
(* The runner thread *)

Step(s, from, to) ==
  /\ runner[s] = from
  /\ runner' = [runner EXCEPT ![s] = to]

\* Faulty variants: the checkpoint is ignored, or misread by one.
ResumeFromScratch(s) == 0
ResumeTooEarly(s) == checkpoint[runId[s]] - 1

Resume(s) == checkpoint[runId[s]]

\* gepa.optimize / optimize_anything begins from what run_dir holds.
OptimizerStarts(s) ==
  /\ Step(s, "start", "optimize")
  /\ iteration' = [iteration EXCEPT ![s] = Resume(s)]
  /\ UNCHANGED <<registry, runId, handler, runStatus, stream, checkpoint, crashes>>

\* One iteration: evaluations over the stream.
OptimizerIterates(s) ==
  /\ runner[s] = "optimize"
  /\ ~cancelled[s]
  /\ iteration[s] < MaxIteration
  /\ iteration' = [iteration EXCEPT ![s] = @ + 1]
  /\ UNCHANGED <<registry, runId, threads, runStatus, stream, checkpoint, crashes>>

\* The optimizer saves its state under run_dir.
SaveCheckpoint(s) ==
  /\ runner[s] = "optimize"
  /\ checkpoint[runId[s]] # iteration[s]
  /\ checkpoint' = [checkpoint EXCEPT ![runId[s]] = iteration[s]]
  /\ UNCHANGED <<registry, runId, threads, runStatus, stream, iteration, crashes>>

\* What the optimizer held in memory is gone when it ends.
Forget(s) == iteration' = [iteration EXCEPT ![s] = 0]

OptimizerReturns(s) ==
  /\ Step(s, "optimize", "returned")
  /\ Forget(s)
  /\ UNCHANGED <<registry, runId, handler, runStatus, stream, checkpoint, crashes>>

\* It raises: an error of its own, a bad answer of the client, or the
\* cancellation; os.makedirs may fail before it starts.
OptimizerRaises(s) ==
  /\ Step(s, "optimize", "raised") \/ Step(s, "start", "raised")
  /\ Forget(s)
  /\ UNCHANGED <<registry, runId, handler, runStatus, stream, checkpoint, crashes>>

\* Runs whose record nobody will ever write again.
Lost == {s \in Streams : status[s] = "running" /\ runner[s] \in {"finally", "done"}}
MayFault == Cardinality(Lost) < MaxFaults

\* Thread.start raises (no more threads) after the run was registered: the
\* handler raises in turn, and there is no runner to write the record.
StartFails(s) ==
  /\ MayFault
  /\ handler[s] = "open"
  /\ Step(s, "start", "done")
  /\ handler' = [handler EXCEPT ![s] = "gone"]
  /\ UNCHANGED <<registry, runId, runStatus, stream, disk, crashes>>

\* It ends in a BaseException that is no Exception (SystemExit): the finally
\* block runs, the except block does not.
OptimizerExits(s) ==
  /\ MayFault
  /\ Step(s, "optimize", "finally")
  /\ Forget(s)
  /\ UNCHANGED <<registry, runId, handler, runStatus, stream, checkpoint, crashes>>

SetComplete(s) ==
  /\ Step(s, "returned", "report")
  /\ status' = [status EXCEPT ![s] = "complete"]
  /\ UNCHANGED <<registry, runId, handler, message, stream, disk, crashes>>

PutComplete(s) ==
  /\ Step(s, "report", "finally")
  /\ terminal' = [terminal EXCEPT ![s] = "complete"]
  /\ UNCHANGED <<registry, runId, handler, runStatus, link, cancelled, disk, crashes>>

\* Building the completion message raises (a result protobuf does not accept).
ReportFails(s) ==
  /\ Step(s, "report", "raised")
  /\ UNCHANGED <<registry, runId, handler, runStatus, stream, disk, crashes>>

\* A faulty variant: the error is reported, the record says running still.
LeaveRunning(s) ==
  /\ Step(s, "raised", "message")
  /\ UNCHANGED <<registry, runId, handler, runStatus, stream, disk, crashes>>

SetFailed(s) ==
  /\ Step(s, "raised", "message")
  /\ status' = [status EXCEPT ![s] = "failed"]
  /\ UNCHANGED <<registry, runId, handler, message, stream, disk, crashes>>

\* A faulty variant: the record is left without its message.
SkipMessage(s) ==
  /\ Step(s, "message", "error")
  /\ UNCHANGED <<registry, runId, handler, runStatus, stream, disk, crashes>>

SetMessage(s) ==
  /\ Step(s, "message", "error")
  /\ message' = [message EXCEPT ![s] = TRUE]
  /\ UNCHANGED <<registry, runId, handler, status, stream, disk, crashes>>

PutError(s) ==
  /\ Step(s, "error", "finally")
  /\ terminal' = [terminal EXCEPT ![s] = "error"]
  /\ UNCHANGED <<registry, runId, handler, runStatus, link, cancelled, disk, crashes>>

\* finally: outbound.put(None), then cancel.
Finally(s) ==
  /\ Step(s, "finally", "done")
  /\ cancelled' = [cancelled EXCEPT ![s] = TRUE]
  /\ UNCHANGED <<registry, runId, handler, runStatus, terminal, link, disk, crashes>>

-------------------------------------------------------------------------------
\* The process dies, or is stopped: every thread and the table are gone, the
\* run directories stay.
Crash ==
  /\ crashes < MaxCrashes
  /\ crashes' = crashes + 1
  /\ order' = <<>>
  /\ entry' = [k \in RunIds |-> None]
  /\ handler' = [s \in Streams |-> IF handler[s] = "open" THEN "gone" ELSE handler[s]]
  /\ runner' = [s \in Streams |-> IF runner[s] = "off" THEN "off" ELSE "done"]
  /\ status' = [s \in Streams |-> "none"]
  /\ message' = [s \in Streams |-> FALSE]
  /\ terminal' = [s \in Streams |-> "none"]
  /\ link' = [s \in Streams |-> IF handler[s] = "new" THEN "up" ELSE "down"]
  /\ cancelled' = [s \in Streams |-> runner[s] # "off"]
  /\ iteration' = [s \in Streams |-> 0]
  /\ UNCHANGED <<runId, checkpoint>>

Quiet ==
  /\ \A s \in Streams : handler[s] \notin {"new", "open"}
  /\ \A s \in Streams : runner[s] \in {"off", "done"}
  /\ UNCHANGED vars

OptimizerEnds(s) == OptimizerReturns(s) \/ OptimizerRaises(s)

RunnerReports(s) ==
  \/ SetComplete(s) \/ PutComplete(s) \/ ReportFails(s)
  \/ SetFailed(s) \/ SetMessage(s) \/ PutError(s) \/ Finally(s)

Register(s) ==
  \/ RejectStart(s)
  \/ \E k \in RunIds : RejectDuplicate(s, k) \/ RegisterRun(s, k)

RunnerStep(s) ==
  \/ OptimizerStarts(s) \/ OptimizerIterates(s) \/ SaveCheckpoint(s)
  \/ OptimizerEnds(s) \/ RunnerReports(s)
  \/ StartFails(s) \/ OptimizerExits(s)

Next ==
  \/ \E s \in Streams : \/ Register(s) \/ HandlerReturns(s)
                        \/ Disconnect(s) \/ ReaderCancels(s)
                        \/ RunnerStep(s)
  \/ Crash
  \/ Quiet

SafetySpec == Init /\ [][Next]_vars

\* Threads run on once started.  Of the optimizer it is assumed that it ends
\* once its calls are refused (raise_on_exception=True); a run whose client
\* stays may go on for ever.
Fairness == \A s \in Streams :
  /\ WF_vars(runner[s] = "done" /\ HandlerReturns(s))
  /\ WF_vars(ReaderCancels(s))
  /\ WF_vars(OptimizerStarts(s))
  /\ WF_vars(cancelled[s] /\ OptimizerEnds(s))
  /\ WF_vars(RunnerReports(s))

Spec == SafetySpec /\ Fairness

-------------------------------------------------------------------------------
(* Properties *)

\* A run in progress is the one its run id finds in the table, so that a
\* second start is refused and GetStatus reports on the right run.
RegistryTracksActive ==
  \A s \in Streams : status[s] = "running" => entry[runId[s]] = s

\* The table holds one entry per registered run id and never more than MaxRuns.
TableIsBounded ==
  /\ Len(order) = Cardinality({k \in RunIds : Registered(k)})
  /\ Len(order) <= MaxRuns

Optimizing(s) == runner[s] = "optimize"

\* No two optimizers work in one run directory at the same time, whichever
\* endpoint, reconnection or eviction led there.
ExclusiveRunDir ==
  \A s, t \in Streams :
    (s # t /\ Optimizing(s) /\ Optimizing(t)) => runId[s] # runId[t]

\* A client that has been told how its run ended is told the same by
\* GetStatus: the record is written before the message is queued.
TerminalAgreesWithStatus ==
  \A s \in Streams :
    /\ terminal[s] = "complete" => status[s] = "complete"
    /\ terminal[s] = "error" => status[s] = "failed" /\ message[s]

\* A record that says running is one its runner will still write: nothing but a
\* fault no handler catches leaves a run id refused for ever.
OnlyFaultsLoseRuns == Cardinality(Lost) <= MaxFaults

\* A checkpoint never replaces a later one.
CheckpointNeverRegresses ==
  [][\A k \in RunIds : checkpoint'[k] >= checkpoint[k]]_vars

\* The end of a stream, from either side, frees its run id: the run leaves
\* "running", so that the client can start again under the same run id
\* ("Re-issuing RunOptimization with the same run_id on a fresh stream will
\* resume from disk").
DisconnectFreesRunId ==
  \A s \in Streams :
    (link[s] = "down" \/ handler[s] = "gone") ~> (status[s] # "running")

\* "Submitting the same run_id while a run is active returns ALREADY_EXISTS."
DuplicateRejected ==
  [][\A s \in Streams :
       (handler[s] = "new" /\ handler'[s] = "open") =>
         ~\E t \in Streams : runId[t] = runId'[s] /\ status[t] = "running"]_vars

===============================================================================
