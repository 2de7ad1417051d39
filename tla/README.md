# TLA+ models of gepa-polyglot

Specifications of the `gepa-rpc` server (`src/gepa_rpc/`), the TLC runs that
check them on small instances, and TLAPS proofs of the properties that should
hold for every size. The `gepa` optimizer, gRPC and protobuf are outside the
repository and are modelled only by how `src/` uses them.

## 1. The system and its parts

A client opens a bidirectional stream (`RunOptimization` or
`RunOptimizationOmni`) and sends a start request. The server runs the optimizer
in a thread; whenever the optimizer wants a candidate evaluated, or a reflective
dataset made, the server asks the client over the same stream and the optimizer
thread blocks until the answer is there. Three threads serve one stream:

| thread | does | blocks in |
| --- | --- | --- |
| handler (worker of the gRPC pool) | reads the first message, registers the run, yields what is on the outbound queue | `next(request_iterator)`, `outbound.get()` |
| reader (daemon) | takes answers to the adapter; cancels it when the client's half of the stream ends | the request iterator |
| runner (daemon) | calls the optimizer, writes the run's record, queues the terminal message and `None`, cancels the adapter | `fut.result()` in the adapter, the optimizer |

| part | source | state | operations |
| --- | --- | --- | --- |
| `RemoteAdapter` | `adapter.py` | `_pending` (id -> Future), `_cancelled`, `_lock` | `evaluate`, `make_reflective_dataset`, `deliver_*`, `cancel` |
| `OmniRemoteEvaluator` | `adapter.py` | the same table again | `__call__` (one request per candidate group), `deliver_response`, `cancel` |
| run table | `servicer.py` | `_runs` (run_id -> record, insertion ordered, at most `_MAX_RUNS`), `_runs_lock` | `_register_run` with eviction |
| `GetStatus` | `servicer.py` | reads a record under `_runs_lock` | one poll |
| streams | `servicer.py` | `outbound`, `run_status`, the three threads | start, drain, deliver, report |
| progress callbacks | `servicer.py` | best score, best candidate, evals used | `on_budget_updated`, `on_valset_evaluated` |
| server | `server.py`, `cli.py` | thread pool of 16 workers, the calls queued for it | launch, signal, stop with 30 s grace, exit |
| conversions | `adapter.py`, `servicer.py`, `conversions.py` | none | examples and side infos between protobuf and Python |
| TypeScript client | `sdk/typescript/src/client.ts` | `settled`, concurrent callbacks | `optimize`, `optimizeOmni` |
| Rust client | `sdk/rust/src/client.rs` | channel of 32, sequential loop | `optimize`, `optimize_omni` |

What connects them: the handler, reader and runner share the adapter and the
outbound queue; all streams share the run table; two runs of one run_id share
the run directory, in which the optimizer keeps its checkpoints; a poll shares a
record with the runner that writes it, which never takes the lock; streams and
polls share one pool of threads, and a stream holds its thread from
`next(request_iterator)` until its handler returns.

What is hard here, and where (the list with lines is in `PROJECT.json`,
`hazards`): futures settled outside the lock by two threads; registration of a
call racing the end of the stream; blocking calls with no timeout
(`fut.result()`, `outbound.get()`); a table at its limit that may have to evict a
run in progress; records written without the lock their reader holds; a client
that comes back under a run_id whose old run has not noticed it left; a restart
in the middle of a run; a runner that never starts or dies on a BaseException;
streams that hold a thread without ever sending anything; a shutdown with all of
that under way.

What makes each part correct:

- adapter: a future has one owner and is set once; no call is lost in a cancel;
  a blocked call comes back after a cancel or after its answer; it implements
  the abstract calls of `RemoteCall`.
- run table: while a run is in progress its run_id finds it; one optimizer per
  run directory; the table is bounded; losing a client frees its run_id;
  checkpoints do not regress.
- `GetStatus`: after the terminal message it answers what the client was told.
- stream: it keeps `RunContract`: one decision, heard after everything else and
  before the end, no request twice; however the client goes, no thread stays
  behind; a client that stays sees the end, and hears how its run ended unless the
  run was lost to a fault that nothing in the code catches.
- server: a signalled server exits, without cutting off a client that is still
  connected; a lost client gives its thread back; a poll waits for no more than
  connected streams.
- Omni batch: grouped evaluation returns what evaluating pair by pair would; one
  request per candidate text; states stay aligned with their examples; examples
  and side infos survive their conversions.
- progress: updates rise on a stream, name a candidate that had the score they
  report (in the 32 bits the wire has for it), and `GetStatus` is not behind them.
- SDK clients: they stay within what the server's protocol allows; they succeed
  only with the server's completion; when they fail the run on the server ends;
  the promise settles and the future returns.

## 2. Modules

| module | models | uses |
| --- | --- | --- |
| `RemoteCall` | what the server promises the optimizer about a call (abstract) | |
| `RemoteAdapter` | the future table, lock sections and the steps between them | implements `RemoteCall` |
| `RemoteAdapterProofs` | invariants and refinement of `RemoteAdapter` | TLAPS |
| `RunRegistry` | the run table, records, directories, clients that come and go, restart | |
| `RunRegistryProofs` | records, directories, the table's entries and limit, duplicates, checkpoints, lost runs | TLAPS |
| `GetStatus` | a poll in steps, next to `RunRegistry` | extends `RunRegistry` |
| `Server` | the process from launch to exit: pool, queue, openings, signal, grace, join | extends `RunRegistry` |
| `ServiceProofs` | what a poll after the terminal message answers; a clean exit; the run table's invariants with polls and in the whole server | extends `RunRegistryProofs` |
| `RunContract` | what the server promises the client of one stream (abstract) | |
| `RunStream` | one stream end to end with any client | the calls of `RemoteCall`, implements `RunContract` |
| `RunStreamProofs` | the stream implements `RunContract` | TLAPS |
| `TsClient` | the TypeScript SDK's calls at the other end of a stream | extends `RunStream`, implements its client |
| `TsClientProofs` | that refinement, and what a resolved promise means | extends `RunStreamProofs` |
| `RustClient` | the Rust SDK's calls at the other end of a stream | extends `RunStream`, implements its client |
| `RustClientProofs` | that refinement, what Ok means, and that sending never waits | extends `RunStreamProofs` |
| `Conversions` | examples and side infos of an Omni run, there and back | |
| `OmniBatch` | one call of the Omni evaluator with a batch of pairs | `Conversions`; the future of a request is `RemoteAdapter`'s |
| `OmniBatchProofs` | grouped evaluation is pairwise evaluation, for every batch | TLAPS |
| `Progress` | the progress callbacks, the record's counter, resumption | |
| `ProgressProofs` | updates rise, name what was seen, and the record keeps up | TLAPS |
| `MC...` | values of the constants for TLC | one specification each |

The detail of the adapter's table is in `RemoteAdapter` only. `RunStream` uses
`RemoteCall` in its place, which `RemoteAdapter` is shown to implement;
`RunRegistry` keeps of a stream only the steps that touch the table, the record
and the directory; `Server` adds to it how calls get a thread and how the process
ends.

A module has one type invariant. `RunRegistry`'s is checked by a run; those of
`RemoteAdapter`, `RunStream` and `OmniBatch` (`BatchTypeOK`) are proved instead, for
every instance (`TypeCorrect` in the proof modules), and `ServerTypeOK`, `PollTypeOK`,
`TsTypeOK`, `RustTypeOK` and `ProgressTypeOK` document the variables' values.

Operators whose comment says "A faulty variant" are not the code: each is a
plausible mistake in the operator named in `PROJECT.json`, `mutants`, put in its
place to see that the property notices.

### RemoteAdapter

`pending` is the key set of `_pending`, `future` and `payload` the state and
result of each `Future`, `cancelled` is `_cancelled`. A request id is fresh
(uuid4): each member of `Requests` is used once, which bounds the calls.

| action | code |
| --- | --- |
| `NewPending`, `RefuseCall` | `_new_pending` under the lock, open or cancelled |
| `PutRequest`, `BuildRequestFails` | building and queueing the request; building may raise, the future stays in the table |
| `FutureResult` | `fut.result()` and the checks on the answer |
| `ReceiveResponse`, `PopPending` | the reader's next message; `_resolve` under the lock |
| `CheckDone`, `SetResult` | `not fut.done()` and `set_result`, two steps |
| `StreamEnds`, `OptimizerEnds` | what makes reader and runner call `cancel` |
| `CancelTable`, `CancelNext`, `SetException`, `CancelReturns` | `cancel`: the lock section, then per future the check and the `set_exception` |

`SetResult` and `SetException` model the `InvalidStateError` of a future that is
already set: the reader would take it for the end of the stream, a canceller
would leave the other futures unset. `SettledOnce` says that it never happens.
The client answers only ids it was sent, in any order, repeatedly, with any
payload. `OmniRemoteEvaluator` repeats this table line by line.

### RunRegistry

`order` and `entry` are the dict `_runs` (insertion order and values), `status`
and `message` the record, `handler`, `runner` and `link` a stream's threads and
its client, `iteration` the optimizer's progress in memory and `checkpoint` what
it saved in the run directory. One optimizer iteration stands for many calls.
The handler is one step from its first message to registration because it
touches nothing shared before `_register_run`, which holds the lock.
`RegisterRun` follows the code in that a full table evicts without asking
whether the run_id has a place already, and in that a key that is there keeps its
place when it is assigned again.

`MaxActive` bounds the number of runs in progress. Nothing in the code enforces
it: handlers are bounded by the pool, but a handler whose client has left returns
before its runner ends. With `MaxActive <= MaxRuns` the eviction never
hits a run in progress; the run `duplicate` shows what happens without it.

Two faults that no handler in the code catches lose a run's runner: `StartFails`
(`Thread.start` raises after `_register_run`) and `OptimizerExits` (a
BaseException passes the `except Exception` of the runner, whose `finally` still
runs). `MaxFaults` bounds the records they leave "running" for ever.

### Server

| action | code |
| --- | --- |
| `LaunchFails`, `Launch` | `main`: the port's range, `add_insecure_port` and `start` |
| `CallStream`, `CallGetStatus` | grpc accepts a call and queues it for the `ThreadPoolExecutor` |
| `ThreadTakesCall` | a free pool thread takes the oldest; a stream's thread goes into `next(request_iterator)` (`opening`), a poll is answered at once (its steps are `GetStatus`) |
| `ReadFirst`, `OpeningFails` | the first message is there and the handler goes on to `_register_run`; or the client is lost first |
| `CallerLeaves` | a client leaves, or a keepalive ping goes unanswered |
| `Signal`, `GraceEnds` | `server.stop(grace)` in the signal handler; after 30 s grpc cancels the calls |
| `ServeReturns`, `Exit` | `wait_for_termination` comes back; the interpreter joins the pool's threads and exits, daemons and all |

`Signal` comes at any moment of `serving`. Runs end with the process: their
directories stay, the table does not. An abrupt end is `RunRegistry`'s `Crash`.

### GetStatus

A poll takes the lock, looks the run_id up, reads status and message in two
steps, and answers. While it holds the lock nothing is registered; runners write
on. `ended` remembers whether the terminal message was already queued when the
poll was made.

### RunStream

`outbound` is the queue, `downlink` and `uplink` are the stream's two directions,
`link` says what the client keeps open. The client may answer well, badly, late
or twice, send a second start, end its half, or leave at any moment, when what is
under way is lost. `Yield` returns the handler when the client is gone (gRPC
closes the generator). A cancel is `RemoteCall`'s `Close` followed by one `Fail`
per open call. Duplicated or reordered messages do not occur within a gRPC stream
and are not modelled. The runner makes one call at a time, as `gepa.optimize`
does; several outstanding calls, which the helper threads of an Omni engine could
make, are in `RemoteAdapter` only. What is said of a stream and its clients is
said for one call at a time.

The two faults of `RunRegistry` are here too, at any moment they can happen. `StartFails`: the run is registered, but the reader's or the
runner's `Thread.start` raises; the handler raises with it and gRPC ends the stream
with a status. `OptimizerExits`: the optimizer ends in a BaseException, for which
the runner has no except clause, and `finally` puts only None. In both the stream
of a run that began ends without a terminal message. `broken` is a history variable
that remembers it; no action reads it.

### TsClient and RustClient

Both take `RunStream`'s server as it is and put the SDK's code in the place of
its arbitrary client: `Receive`, `Send`, `SeeEnd`, `HalfClose` and `Leave` are
what gRPC does for them. `IsRunStreamClient` is the refinement: every behaviour is
one of `RunStream`, so its safety properties hold with these clients.

| action | code |
| --- | --- |
| `TsClient`: `OnRequest`, `OnProgress`, `OnComplete`, `OnOptimizationError`, `OnEnd`, `OnError` | the listeners of `call.on("data" / "end" / "error")`, each run to its end by the event loop |
| `Settle` | `settle`: the first outcome counts and calls `call.end()` |
| `CallbackResolves`, `CallbackRejects` | what follows the `await` of `evaluate` or `makeReflectiveDataset`, any time later |
| `SendWritten`, `SendEnd` | grpc-js sends what `call.write` and `call.end` handed to it, in order |
| `RustClient`: `OnRequest`, `OnProgress`, `OnComplete`, `OnOptimizationError`, `OnEnd`, `OnLost` | the arms after `response.message().await?` |
| `CallbackOk`, `CallbackErr`, `SendToChannel` | the callback's `await?` and `tx.send(...).await` |
| `DropFuture`, `ResetStream` | the caller drops the future; its locals go and tonic resets the stream |

After `call.end()` grpc-js refuses a write with an error event; the promise is
settled by then, so that the answer is simply dropped. The Rust channel holds 32
messages in the code and 2 in the run. While the loop awaits `tx.send` it reads
nothing, so a full channel could make client and server wait for each other;
`SendNeverWaits` says that the channel is empty whenever there is an answer to send.

### RunContract

`run` is what the run is to a client that has not left: waiting, running, or the
terminal message of its decision; "broken" if one of the two faults came before a
decision; "lost" once the client has left, when nothing more is promised. `RunStream`
maps it from the terminal message that is on the queue, on its way, or heard
(`Told`), from `broken`, and from whether a runner was started. The contract's
`asked`, `heard` and `client` are the stream's own. So `ImplementsContract` says in
one property that the decision is made at most once, and never for a broken run;
that nothing, requests included, reaches the client after it has heard it; that no
request reaches it twice; and that a stream whose run began ends unexplained, for a
client that stayed, only if the run is broken. `StayingClientHears` is the other
half: the stream does end, and unless the run is broken the client has heard how.

### Conversions and OmniBatch

`pairs` is the batch, `groups` the dict of the same name (its keys in insertion
order, with the indices of their pairs), `taken` how many pairs the loop that fills
it has taken, `requests` what has been sent, `results` the list returned.
`GroupPair` is one round of the grouping loop, `SendGroup` one request, `TakeScores`
scatters the answer, `CallRaises` is a wrong number of scores or a cancelled
adapter. `Text` is `str(candidate)`: objects that print alike share a group. The
loop is local to one thread; it is modelled round by round so that what it computes
is an invariant of its rounds and can be proved.

`Conversions` has the functions a batch passes through: `DatasetEntry` is how the
runner turns an Example into a dict, `ExampleToProto` the way back
(`_example_to_proto`: dicts with and without "fields", objects with both id and
fields, the text of anything else),
`Loads` what becomes of a side info of an answer, `Dumps` and `OptStateToProto` how
the engine's history is written for the client. A Python value is named by its
type and what it is of, a text on the wire by whether it is empty, JSON or plain.
One evaluation stands for the list of a state's best ones; it is told apart by the
index of its pair.

### Progress

`OnBudgetUpdated`, `WriteStatus` and `Emit` are the three steps of
`on_budget_updated`: the callback's counter, the record's, the update queued.
`OnValsetEvaluated` compares an average with the best so far; -inf and NaN are
values of their own, NaN above and below nothing. The comparison is between Python
floats; an update carries its score through a protobuf `float`. `Float32` is that
rounding, of which only its monotony is assumed: two scores may be one on the wire,
so that a new best candidate may come with the score of the one before. `Reported`
is what an update can be the report of, and `UpdatesRise` compares those scores
where it asks that a new candidate be better. `Resume` is a new stream under
the same run_id: callback and record start afresh while the optimizer's count
goes on. That the optimizer reports a rising count is taken from its budget; the
code passes on what it is told. Both callbacks are line-by-line alike here.

## 3. Runs

| run | question | instance | states |
| --- | --- | --- | --- |
| `adapter` | who owns a future, is it set twice, is a call lost; refinement of `RemoteCall`; do blocked calls come back | 2 callers, 2 requests | 182 k |
| `registry` | table and its limit, directories, record and terminal message, over a restart and a lost runner; what can leave a record running for ever | 3 streams, 3 run ids, 2 entries, 1 worker | 1.24 M |
| `server` | does a signalled server exit, and cleanly; do threads and run_ids come back; is a poll served | 2 streams, 1 poll, 1 worker | 31 k |
| `status` | polls against runners and registrations; checkpoints over a restart | 2 streams, 2 run ids, 2 workers | 678 k |
| `stream` | the contract with the client; half-closed, lost and staying clients; the two faults | 3 requests, 1 progress update | 111 k |
| `ts_client` | the TypeScript client on a stream | 3 requests, 1 progress update | 16 k |
| `rust_client` | the Rust client on a stream; can its channel fill | 3 requests, 1 progress update, channel of 2 | 18 k |
| `omni_batch` | grouping, scattering and converting against pair by pair | 3 candidates, 2 of one text, 2 examples, up to 3 pairs | 177 k |
| `progress` | updates, best score, record over resumptions | 2 candidates, 3 scores of which 2 are one on the wire, 3 metric calls, 2 updates under way | 153 k |
| `lost_run`, `duplicate`, `status_message` | see Findings | | |

Why these bounds are enough to see the interesting cases.

- Adapter: a race over a future needs the reader, the runner's cancel and a
  caller; with two callers a cancel finds one future while another call registers.
- Registry: three run ids over two entries fill the table with finished and
  running entries in either order, evict one, and take up an evicted, a finished
  and a restarted run_id again. One worker still lets runs overlap, as it should:
  a handler whose client has left gives its thread back while its runner is
  winding down, so that two runs are in progress. One restart and one lost runner
  can fall between any two steps. `status` has two workers, so that there two
  connected runs go on side by side.
- Server: one worker is the pool at its limit. A stream that sends nothing, a
  stream and a poll queued behind it, and a signal at any point of that are what
  the properties are about; a second poll would only wait longer. The optimizer's
  iterations are left out there (`MaxIteration` = 0): they touch nothing the
  server waits for.
- Stream and clients: three requests allow an answered, a failed and an open call
  on one stream with answers under way; `MaxUplink` = 2 is enough for a duplicate
  behind an answer.
- Omni: three pairs are a group of two with another pair before, between or
  behind them; the two examples are one of the client's, with a field that is
  called "fields", and the `None` of a run without a dataset. Objects, which only an
  engine of its own making could pass, are in the proofs: they are for any examples.
- Progress: three scores let a best one be followed by a better one that looks the
  same to the client, and by one that looks better.

`MaxIteration`, `MaxCrashes`, `MaxFaults`, `MaxProgress`, `MaxUplink`,
`MaxUpdates`, `MaxCalls`, `MaxScore` and `MaxPairs` are bounds for TLC only.

Deadlock is checked in every run: the terminal states
step to themselves by `Finished`, `Quiet`, `Over` and `Off`, which say what
"everything is over" means, so any other state without a successor is an error.
Symmetry over streams, run ids and candidates is used in runs without liveness
only.

### Fairness

- A started thread runs on (weak fairness of the threads' own steps), and so do
  the event loop of the TypeScript client and the Rust future, which its runtime
  polls. Nothing is assumed of the client's answers, of its leaving, or of the
  optimizer's return, except where a property says so (below).
- gRPC delivers to a client that stays (`Receive`, `SeeEnd`) and reports a lost
  client to the server (`ReaderEnds`, `ReaderCancels`): keepalive pings every
  60 s in `server.py` are there for this.
- No fault is ever fair: nothing makes a thread fail to start or an optimizer end
  in a BaseException, and nothing relies on either.
- In `Server` the same threads run on while the process is there, a free pool
  thread takes a queued call, the grace period ends, `serve` returns when no call
  is left, and the process exits when the pool's threads have finished. Nobody
  has to signal, call, or send a first message, and nothing makes a connected
  stream end: `PollIsServed` has connected streams holding every thread as its
  one excuse.
- An optimizer whose calls are refused ends. `gepa.optimize` is called with
  `raise_on_exception=True`, so the exception of `evaluate` ends it.
  `optimize_anything` has no such argument in the code: for the Omni endpoint
  this is an assumption about the external engine, and the properties
  `DisconnectFreesRunId` and `LostClientFreesThreads` depend on it.
- Three properties have a premise of their own. `StayingClientHears` assumes
  `Diligence`: a client that answers every request it has received (strongly
  fair, because the bound on the uplink may disable it for a while) and an
  optimizer that ends by its budget. `PromiseSettles` and `FutureReturns` assume
  `TsDiligence` and `RustDiligence`: the user's callbacks settle, and the same of
  the optimizer.

### Findings

- `lost_run`: the module and `src/README.md` say that the same run_id can be
  started again after a connection was lost. If the runner thread could not be
  started (or died of a BaseException), its record says "running" until it is
  evicted or the server restarts: every later start is refused and `GetStatus`
  answers RUNNING. Without such a fault the run_id does come free
  (`DisconnectFreesRunId` holds in `server`; that nothing but such a fault leaves a
  record running with nobody to write it is proved, `LostOnlyByFaults`), though not at once: until the
  abandoned runner has noticed, a client that reconnects is refused with
  ALREADY_EXISTS and has to try again.
- `duplicate`: a start under the run_id of a run in progress is accepted if that
  run's entry was evicted from a table full of runs in progress. A test says that
  it is refused. With `MaxActive <= MaxRuns` it always is (`DuplicateIsRejected`), so
  that a table smaller than the runs in progress is what it takes.
- `status_message`: a failed run may be reported FAILED with an empty message.

## 4. Proofs

What follows holds for every value of the constants, from the assumptions named
in the modules.

`RemoteAdapterProofs`, for any set of callers and requests: type correctness,
`OneOwner`, `SettledOnce`, `NoOrphanedCall`, and that the specification implements
`RemoteCall`'s safety part step by step. None of these is inductive alone. The
inductive invariant `IInv` adds to `OneOwner` what each program counter implies: a
reader past the pop holds exactly the future of its message, a thread about to set
has it in hand, the table is empty once cancelled, a waiting caller's future has
been made. One lemma shows that a step keeps it, with a case per action.

`RunRegistryProofs`, for any streams, run ids and table size, assuming
`MaxActive <= MaxRuns` where said so: type correctness, `RegistryTracksActive`,
`ExclusiveRunDir`, `DuplicateRejected`. The core is a counting argument (`EvictedIsNotRunning`): the
entries of the table are distinct, so a full table of running entries would be
`MaxRuns` runs in progress, and one more would exceed `MaxActive`; so a finished
entry exists and is the one evicted. `IInv` adds that the order lists each
registered key once, that runner and status agree, and that runs in progress are
at most `MaxActive`. `TerminalMatchesRecord` needs no such assumption: it concerns
one stream at a time, and its invariant `ReportInv` follows the runner (nothing is
queued before `finally`, the record is complete where the completion is built,
failed where the error is, and has its message before the error is queued).

The same module proves three more. `TableBounded` needs no such assumption either: its invariant
`DictInv` is the shape of a dict (the order lists the registered keys, each once)
with the limit, and the cardinality follows from the bijection between places and
keys. `CheckpointsAdvance` takes `IInv` and adds `AheadOfDisk`: what an optimizer
has in memory is never behind its directory's checkpoint, which holds because
nobody else works in the directory. `LostOnlyByFaults` is about `Lost`, the runs whose
record says running and whose runner is past its last write: a step adds at most one
run to it, and only a fault, which `MayFault` counts, adds any, because every other
way out of the optimizer goes through `SetComplete` or `SetFailed`. It is the
counterpart of the finding `lost_run` and needs nothing of `MaxActive`.

`ServiceProofs` is about the two specifications that put something around the runs.
`PollAgreesWithStream`. A poll reads status and message in two
steps while runners write; but a run whose terminal message is queued has nothing
left to write (`EndedRecordIsFinal`), so that each field read is still the record's
when the poll answers (`PollInv`). A restart is what ends such a poll.
`PollsLeaveTheRunsAlone`: every step with polls is a step of `RunRegistry` or leaves
it alone, so that every theorem there holds with polls (`CheckpointsAdvanceUnderPolls`
is one such).

`Server` is no refinement of `RunRegistry`: clients lost before their stream is
registered, or all at once at the end of the grace period, and the exit that ends every
run, are steps `RunRegistry` does not have. `ServerSteps` sorts them: a step of the
server is a step of the run table, a step that only touches links, or the exit. The
invariants of the run table are shown to survive the latter two (`TableInServer`),
which gives `ServerTracksActive`, `ServerRunDirIsExclusive`,
`ServerTerminalMatchesRecord` and `ServerCheckpointsAdvance` for any number of streams, polls and workers, with `MaxActive <= MaxRuns`. The third is
stated up to the exit, after which there is no record.

The same module has `ServerExitsCleanly`, for any streams, polls and number of workers,
assuming `MaxFaults = 0`: a stream whose runner is lost ends without a terminal
message, while its client is still there. `ExitIsClean` speaks of the last stage
only; its invariant says of every stage that a runner that is through has queued its
terminal message, and that a connected client's handler returns for that message or
not at all (`Explained`), and that from the return of `serve` on no connected client
is still being served (`LateInv`).

`ProgressProofs`: an update is a picture of the callback at an earlier moment, so
that `PastInv` compares every update under way with the callback as it is now
(`NotAbove`: on the wire by its score, and by a score it can be the report of), and
`UpdatesRise`, `BestWasSeen` and `StatusNotBehind` follow for any number of updates
and any `Float32` that `Float32Assumption` allows.

`RunStreamProofs`: type correctness, and `StreamKeepsContract`, the refinement of
`RunContract`. What counts is the line of messages on their way to the client
(`Line`: those gRPC carries and behind them those on the queue). Only the handler
moves a message from one to the other, and the line stays; the runner joins
messages at its end, the client takes them from its head, a client that leaves
cuts it off. `LineInv` says that behind a terminal message there is only None, that
a request is on the line or received but never both, and that nothing but None is
left once the decision is heard; `RunnerInv` what the runner has put on it by each
point of its way: past its last report a terminal message, or the run is broken and
there is none. The two faults are the contract's `Break` (`BreakImplements`), or
nothing to a client that has left. Each other action is then a step of `RunContract` or leaves `Run` alone.
`AnsweredInv` adds that a run becomes complete only while no call of it has failed.

`TsClientProofs`, `RustClientProofs`: the SDKs' clients implement `RunStream`, hence
`RunContract`, for any callbacks. The invariant `SentInv` says that what is written
but not sent is the start request, only while nothing was sent on the stream, or
answers to requests received. With `StreamInv` and `AnsweredInv` carried over along
that refinement, `ResolvesQuietly` and `OkOnlyIfComplete` follow: a client that has
heard "complete" has had all of its answers taken, and for TypeScript a request
whose callback still runs has no answer anywhere (`QuietInv`). `SendingNeverWaits`
rests on `TurnInv`: the runner waits for one call at a time, and that call is at one
place only, on the line, in the callback, in the channel or on the uplink; when it
returns nothing of it is left with the client, so that the next finds the channel
empty. The start request counts as one more such message, ahead of all calls. That
the optimizer makes one call at a time is essential here; the mutant of this property
lets it make several.

`OmniBatchProofs`, for batches of any length, any candidates with any texts, and any
examples: type correctness and all five properties of the run. `GroupInv` and
`SharedOut` are the loop invariant of the grouping: the indices of a group ascend and
belong to its text, no two groups have one text, and the pairs taken so far are each
in a group. From these the groups partition the batch. `RequestInv` says that the n-th
request is made of the n-th group, and `ResultInv` that the places of answered groups
hold what evaluating alone would give; scattering one group's scores touches no other's
places because the groups are disjoint. `DatasetAssumption` (the client's examples are
protobuf messages of an id and fields) is what `ClientGetsItsExamples` needs of the data.

Only model-checked: the liveness properties, fairness being out of the prover's reach.
`ImplementsRemoteCall` is proved for the safety part of `RemoteCall`; that its
fairness is implemented too is checked by the run.

## 5. Not modelled

- `_validate_run_id`'s pattern and path comparison, the options of the command
  line, the log level: string handling. What they decide is an outcome
  (`RejectStart`, `LaunchFails`).
- `RemoteExample`, `RemoteTrajectory` and `reflective_data_to_python` of
  `conversions.py`: field-by-field copies without a branch. The conversions of the
  Omni endpoint, which have branches, are in `Conversions`.
- The content of messages and candidates, logging, generated code beyond which
  calls it registers, the SDKs' type declarations and field conversions, build and
  CI.
- A signal between `signal.signal` and `server.start`, a second server on the same
  port (SO_REUSEPORT), and how long keepalive takes: what grpc does then is not in
  `src/`. The first two are hazards with a note.
- What the engine of `optimize_anything` does with a cancelled evaluation; see
  Fairness.

## 6. Plan

1. Done: `RemoteCall`, `RemoteAdapter`, `RunRegistry`, `GetStatus`, `RunStream`,
   `TsClient`, `RustClient`, `OmniBatch`, `Progress` with their runs; proofs of the
   adapter's safety and refinement and of the run table's safety.
2. Done: `Server` with the run table, the faults that lose a runner, `RunContract`
   and its refinement, `Conversions`; proofs for the table's limit, checkpoints,
   polls, progress, the stream's contract, both clients and the server's exit.
3. Done: the grouping of `OmniBatch` round by round and its proofs; the run table's
   theorems carried over to polls and to `Server`; duplicates and lost runs; the Rust
   client's channel.
4. Left: a refinement between `RunStream` and the streams of `RunRegistry`. It is not
   direct: `RunStream` writes no record, so that `SetComplete` and `SetFailed` are one
   step there with what follows, and a common module of the runner would have to come
   first.
