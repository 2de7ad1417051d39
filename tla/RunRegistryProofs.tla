---------------------------- MODULE RunRegistryProofs ----------------------------
(***************************************************************************)
(* Proofs about RunRegistry, for any number of streams, run ids, table     *)
(* slots and restarts.  The table tracks every run in progress as long as  *)
(* no more runs are in progress than it has slots: then a full table that  *)
(* must give up an entry always has a finished one to give.  What outlasts *)
(* a run comes last: the table keeps within _MAX_RUNS however many runs    *)
(* there are, and the checkpoints in the run directories only advance.     *)
(***************************************************************************)
EXTENDS RunRegistry, FiniteSetTheorems, SequenceTheorems, TLAPS

\* order and entry are one insertion-ordered dict.
TableInv ==
  /\ \A k \in RunIds : Registered(k) <=> \E i \in 1..Len(order) : order[i] = k
  /\ \A i, j \in 1..Len(order) : order[i] = order[j] => i = j

\* An entry is a run of its own run id, begun and perhaps ended.
EntryInv ==
  \A k \in RunIds : Registered(k) =>
    /\ runId[entry[k]] = k
    /\ status[entry[k]] # "none"

ActiveInv ==
  \A s \in Streams : status[s] = "running" =>
    runId[s] \in RunIds /\ entry[runId[s]] = s

StreamInv ==
  \A s \in Streams :
    /\ handler[s] = "new" => runId[s] = None /\ runner[s] = "off"
    /\ runner[s] \in {"start", "optimize", "returned"} => status[s] = "running"
    /\ runner[s] \in {"report", "raised", "message"} => status[s] # "none"

IInv == TypeOK /\ TableInv /\ EntryInv /\ ActiveInv /\ StreamInv


-------------------------------------------------------------------------------
\* What is left of a sequence without its element i.
LEMMA RemoveAtProperties ==
  ASSUME NEW S, NEW q \in Seq(S), NEW i \in 1..Len(q)
  PROVE  /\ RemoveAt(q, i) \in Seq(S)
         /\ Len(RemoveAt(q, i)) = Len(q) - 1
         /\ \A j \in 1..(Len(q) - 1) :
              RemoveAt(q, i)[j] = IF j < i THEN q[j] ELSE q[j + 1]
<1> DEFINE a == SubSeq(q, 1, i - 1)
           b == SubSeq(q, i + 1, Len(q))
<1>1. Len(q) \in Nat /\ \A j \in 1..Len(q) : q[j] \in S
  BY LenProperties, ElementOfSeq
<1>2. /\ a \in Seq(S) /\ Len(a) = i - 1
      /\ \A j \in 1..(i - 1) : a[j] = q[j]
  <2>1. \A j \in 1..(i - 1) : q[j] \in S
    BY <1>1
  <2>2. /\ a \in Seq(S)
        /\ Len(a) = IF 1 <= i - 1 THEN (i - 1) - 1 + 1 ELSE 0
        /\ \A j \in 1..((i - 1) - 1 + 1) : a[j] = q[1 + j - 1]
    BY <1>1, <2>1, SubSeqProperties
  <2> HIDE DEF a
  <2> QED BY <1>1, <2>2
<1>3. /\ b \in Seq(S) /\ Len(b) = Len(q) - i
      /\ \A j \in 1..(Len(q) - i) : b[j] = q[i + j]
  <2>1. \A j \in (i + 1)..Len(q) : q[j] \in S
    BY <1>1
  <2>2. /\ b \in Seq(S)
        /\ Len(b) = IF i + 1 <= Len(q) THEN Len(q) - (i + 1) + 1 ELSE 0
        /\ \A j \in 1..(Len(q) - (i + 1) + 1) : b[j] = q[(i + 1) + j - 1]
    BY <1>1, <2>1, SubSeqProperties
  <2> HIDE DEF b
  <2> QED BY <1>1, <2>2
<1>4. RemoveAt(q, i) = a \o b
  BY DEF RemoveAt
<1> HIDE DEF a, b
<1>5. /\ a \o b \in Seq(S)
      /\ Len(a \o b) = Len(a) + Len(b)
      /\ \A j \in 1..(Len(a) + Len(b)) :
           (a \o b)[j] = IF j <= Len(a) THEN a[j] ELSE b[j - Len(a)]
  BY <1>2, <1>3, ConcatProperties
<1> QED BY <1>1, <1>2, <1>3, <1>4, <1>5

\* As many runs are in progress as a table has entries, if it has no finished
\* one: so the entry that a full table gives up is not in progress.
LEMMA EvictedIsNotRunning ==
  ASSUME IInv, MaxActive <= MaxRuns, Cardinality(Running) < MaxActive,
         Len(order) >= MaxRuns, NEW i \in DOMAIN order, Evictable(i)
  PROVE  status[entry[order[i]]] # "running"
<1> USE DEF IInv, TypeOK
<1>1. Len(order) \in Nat /\ DOMAIN order = 1..Len(order)
  BY LenProperties
<1>2. \A j \in 1..Len(order) :
        /\ order[j] \in RunIds
        /\ entry[order[j]] \in Streams
        /\ runId[entry[order[j]]] = order[j]
        /\ status[entry[order[j]]] # "none"
  BY ElementOfSeq DEF TableInv, EntryInv, Registered
<1>3. CASE \E j \in DOMAIN order : FinishedAt(j)
  BY <1>3 DEF Evictable, FinishedAt
<1>4. CASE ~\E j \in DOMAIN order : FinishedAt(j)
  <2> DEFINE f == [j \in 1..Len(order) |-> entry[order[j]]]
  <2>1. \A j \in 1..Len(order) : entry[order[j]] \in Running
    BY <1>1, <1>2, <1>4 DEF FinishedAt, Running
  <2>2. f \in Injection(1..Len(order), Running)
    <3>1. f \in [1..Len(order) -> Running]
      BY <2>1
    <3>2. \A j, l \in 1..Len(order) : f[j] = f[l] => j = l
      BY <1>2 DEF TableInv
    <3> HIDE DEF f
    <3> QED BY <3>1, <3>2 DEF Injection, IsInjective
  <2>3. IsFiniteSet(Running)
    BY StreamsAssumption, FS_Subset DEF Running
  <2>4. Cardinality(1..Len(order)) <= Cardinality(Running)
    <3> HIDE DEF f
    <3> QED BY <2>2, <2>3, FS_Injection
  <2>5. Cardinality(1..Len(order)) = Len(order)
    <3>1. Cardinality(1..Len(order)) = IF 1 > Len(order) THEN 0 ELSE Len(order) - 1 + 1
      BY <1>1, FS_Interval
    <3> QED BY <1>1, <3>1
  <2>6. Cardinality(Running) \in Nat
    BY <2>3, FS_CardinalityType
  <2> QED BY <1>1, <2>4, <2>5, <2>6, BoundsAssumption
<1> QED BY <1>3, <1>4

\* The slots and the keys stay one dict when an entry is given up ...
LEMMA EvictKeepsTable ==
  ASSUME order \in Seq(RunIds), entry \in [RunIds -> Streams \cup {None}], TableInv,
         NEW i \in DOMAIN order
  PROVE  LET o == RemoveAt(order, i)
             e == [entry EXCEPT ![order[i]] = None]
         IN  /\ o \in Seq(RunIds)
             /\ \A k \in RunIds : e[k] # None <=> \E j \in 1..Len(o) : o[j] = k
             /\ \A j, l \in 1..Len(o) : o[j] = o[l] => j = l
<1> DEFINE o == RemoveAt(order, i)
           e == [entry EXCEPT ![order[i]] = None]
           at(j) == IF j < i THEN j ELSE j + 1
<1>1. /\ order \in Seq(RunIds) /\ TableInv
      /\ entry \in [RunIds -> Streams \cup {None}]
  OBVIOUS
<1>2. Len(order) \in Nat /\ i \in 1..Len(order)
  BY <1>1, LenProperties
<1>3. /\ o \in Seq(RunIds) /\ Len(o) = Len(order) - 1
      /\ \A j \in 1..(Len(order) - 1) :
           o[j] = IF j < i THEN order[j] ELSE order[j + 1]
  BY <1>1, <1>2, RemoveAtProperties
<1> HIDE DEF o
<1>4. /\ \A j \in 1..Len(o) : /\ at(j) \in 1..Len(order) /\ at(j) # i
                              /\ o[j] = order[at(j)]
      /\ \A j, l \in 1..Len(o) : at(j) = at(l) => j = l
      /\ \A j \in 1..Len(order) : j # i => \E l \in 1..Len(o) : at(l) = j
  <2>1. ASSUME NEW j \in 1..Len(order), j # i
        PROVE  \E l \in 1..Len(o) : at(l) = j
    <3>1. CASE j < i
      BY <1>2, <1>3, <2>1, <3>1
    <3>2. CASE j > i
      <4>1. j - 1 \in 1..Len(o) /\ at(j - 1) = j
        BY <1>2, <1>3, <2>1, <3>2
      <4> QED BY <4>1
    <3> QED BY <1>2, <2>1, <3>1, <3>2
  <2> QED BY <1>2, <1>3, <2>1
<1> HIDE DEF at
<1>5. \A j, l \in 1..Len(o) : o[j] = o[l] => j = l
  BY <1>1, <1>4 DEF TableInv
<1>6. \A j \in 1..Len(order) : order[j] \in RunIds
  BY <1>1, ElementOfSeq
<1>7. ASSUME NEW k \in RunIds
      PROVE  e[k] # None <=> \E j \in 1..Len(o) : o[j] = k
  <2>1. e[k] # None <=> k # order[i] /\ \E j \in 1..Len(order) : order[j] = k
    BY <1>1, <1>2, <1>6 DEF TableInv, Registered
  <2>2. ASSUME NEW j \in 1..Len(o), o[j] = k PROVE e[k] # None
    BY <1>1, <1>2, <1>4, <2>1, <2>2 DEF TableInv
  <2>3. ASSUME NEW j \in 1..Len(order), order[j] = k, k # order[i]
        PROVE  \E l \in 1..Len(o) : o[l] = k
    BY <1>4, <2>3
  <2> QED BY <2>1, <2>2, <2>3
<1> QED BY <1>3, <1>5, <1>7 DEF o

\* ... and when one is inserted.
LEMMA InsertKeepsTable ==
  ASSUME NEW o \in Seq(RunIds), NEW e \in [RunIds -> Streams \cup {None}],
         \A k \in RunIds : e[k] # None <=> \E j \in 1..Len(o) : o[j] = k,
         \A j, l \in 1..Len(o) : o[j] = o[l] => j = l,
         NEW s \in Streams, NEW k0 \in RunIds, Insert(o, e, k0, s)
  PROVE  /\ order' \in Seq(RunIds)
         /\ entry' \in [RunIds -> Streams \cup {None}]
         /\ TableInv'
<1>1. Len(o) \in Nat
  BY LenProperties
<1>2. s # None
  BY StreamsAssumption
<1>3. entry' = [e EXCEPT ![k0] = s]
  BY DEF Insert
<1>4. CASE e[k0] = None
  <2>1. order' = Append(o, k0)
    BY <1>4 DEF Insert
  <2>2. /\ order' \in Seq(RunIds) /\ Len(order') = Len(o) + 1
        /\ \A j \in 1..Len(o) : order'[j] = o[j]
        /\ order'[Len(o) + 1] = k0
    BY <2>1, AppendProperties
  <2>3. \A j \in 1..Len(o) : o[j] # k0
    BY <1>4
  <2>4. \A j, l \in 1..Len(order') : order'[j] = order'[l] => j = l
    BY <1>1, <2>2, <2>3
  <2>5. \A k \in RunIds : entry'[k] # None <=> \E j \in 1..Len(order') : order'[j] = k
    BY <1>1, <1>2, <1>3, <2>2
  <2> QED BY <1>3, <2>2, <2>4, <2>5 DEF TableInv, Registered
<1>5. CASE e[k0] # None
  <2>1. order' = o
    BY <1>5 DEF Insert
  <2>2. \A k \in RunIds : entry'[k] # None <=> e[k] # None
    BY <1>2, <1>3, <1>5
  <2> QED BY <1>3, <2>1, <2>2 DEF TableInv, Registered
<1> QED BY <1>4, <1>5

\* What the table is like when the new entry is put in: a dict that still has
\* every run in progress.
IsTable(o, e) ==
  /\ o \in Seq(RunIds)
  /\ e \in [RunIds -> Streams \cup {None}]
  /\ \A k \in RunIds : e[k] # None <=> \E j \in 1..Len(o) : o[j] = k
  /\ \A j, l \in 1..Len(o) : o[j] = o[l] => j = l
  /\ \A k \in RunIds : e[k] = entry[k] \/ (e[k] = None /\ ~IsActive(k))

LEMMA RegisterMakesRoom ==
  ASSUME IInv, MaxActive <= MaxRuns,
         NEW s \in Streams, NEW k \in RunIds, RegisterRun(s, k)
  PROVE  \E o, e : IsTable(o, e) /\ Insert(o, e, k, s)
<1>1. /\ order \in Seq(RunIds) /\ TableInv
      /\ entry \in [RunIds -> Streams \cup {None}]
  BY DEF IInv, TypeOK
<1>2. CASE HasRoom /\ Insert(order, entry, k, s)
  <2>1. IsTable(order, entry)
    <3>1. \A l \in RunIds :
            entry[l] # None <=> \E j \in 1..Len(order) : order[j] = l
      BY <1>1 DEF TableInv, Registered
    <3>2. \A j, l \in 1..Len(order) : order[j] = order[l] => j = l
      BY <1>1 DEF TableInv
    <3> QED BY <1>1, <3>1, <3>2 DEF IsTable
  <2> QED BY <1>2, <2>1
<1>3. ASSUME ~HasRoom, NEW i \in DOMAIN order, Evictable(i),
             Insert(RemoveAt(order, i), [entry EXCEPT ![order[i]] = None], k, s)
      PROVE  \E o, e : IsTable(o, e) /\ Insert(o, e, k, s)
  <2> DEFINE o == RemoveAt(order, i)
             e == [entry EXCEPT ![order[i]] = None]
  <2>1. status[entry[order[i]]] # "running"
    <3>1. Len(order) >= MaxRuns
      BY <1>1, <1>3, LenProperties, BoundsAssumption DEF HasRoom
    <3> QED BY <1>3, <3>1, EvictedIsNotRunning DEF RegisterRun
  <2>2. /\ o \in Seq(RunIds)
        /\ \A l \in RunIds : e[l] # None <=> \E j \in 1..Len(o) : o[j] = l
        /\ \A j, l \in 1..Len(o) : o[j] = o[l] => j = l
    BY <1>1, <1>3, EvictKeepsTable
  <2>3. /\ e \in [RunIds -> Streams \cup {None}]
        /\ \A l \in RunIds : e[l] = entry[l] \/ (e[l] = None /\ ~IsActive(l))
    <3>1. ASSUME NEW l \in RunIds, l # order[i] PROVE e[l] = entry[l]
      BY <1>1, <3>1
    <3>2. ASSUME NEW l \in RunIds, l = order[i]
          PROVE  e[l] = None /\ ~IsActive(l)
      BY <1>1, <2>1, <3>2 DEF IsActive
    <3>3. e \in [RunIds -> Streams \cup {None}]
      BY <1>1
    <3> HIDE DEF e
    <3>4. \A l \in RunIds : e[l] = entry[l] \/ (e[l] = None /\ ~IsActive(l))
      BY <3>1, <3>2
    <3> QED BY <3>3, <3>4
  <2>4. IsTable(o, e)
    <3> HIDE DEF o, e
    <3> QED BY <2>2, <2>3 DEF IsTable
  <2> QED BY <1>3, <2>4
<1> QED BY <1>2, <1>3 DEF RegisterRun

LEMMA RegisterKeepsIInv ==
  ASSUME IInv, MaxActive <= MaxRuns,
         NEW s \in Streams, NEW k \in RunIds, RegisterRun(s, k)
  PROVE  IInv'
<1> USE DEF IInv, TypeOK
<1>1. PICK o, e : IsTable(o, e) /\ Insert(o, e, k, s)
  BY RegisterMakesRoom
<1>2. /\ order' \in Seq(RunIds)
      /\ entry' \in [RunIds -> Streams \cup {None}]
      /\ TableInv'
  BY <1>1, InsertKeepsTable DEF IsTable
<1>3. /\ handler[s] = "new" /\ runId[s] = None /\ ~IsActive(k)
      /\ runId' = [runId EXCEPT ![s] = k]
      /\ status' = [status EXCEPT ![s] = "running"]
      /\ handler' = [handler EXCEPT ![s] = "open"]
      /\ runner' = [runner EXCEPT ![s] = "start"]
      /\ UNCHANGED <<message, stream, disk, crashes>>
  BY DEF RegisterRun, Admitted, StreamInv
<1>4. /\ entry'[k] = s
      /\ \A l \in RunIds \ {k} : entry'[l] = entry[l] \/ (entry'[l] = None /\ ~IsActive(l))
  BY <1>1 DEF Insert, IsTable
<1>5. TypeOK'
  BY <1>2, <1>3 DEF HandlerPcs, RunnerPcs, stream, disk
<1>6. EntryInv'
  BY <1>2, <1>3, <1>4, RunIdsAssumption DEF EntryInv, Registered
<1>7. ActiveInv'
  <2> SUFFICES ASSUME NEW t \in Streams, status'[t] = "running"
               PROVE  runId'[t] \in RunIds /\ entry'[runId'[t]] = t
    BY DEF ActiveInv
  <2>1. CASE t = s
    BY <1>3, <1>4, <2>1
  <2>2. CASE t # s
    <3>1. status[t] = "running" /\ runId'[t] = runId[t]
      BY <1>3, <2>2
    <3>2. runId[t] \in RunIds /\ entry[runId[t]] = t /\ IsActive(runId[t])
      BY <3>1, StreamsAssumption DEF ActiveInv, IsActive, Registered
    <3> QED BY <1>3, <1>4, <3>1, <3>2
  <2> QED BY <2>1, <2>2
<1>8. StreamInv'
  BY <1>3 DEF StreamInv
<1> QED BY <1>2, <1>5, <1>6, <1>7, <1>8

\* The initial table is empty.
LEMMA InitIInv == Init => IInv
<1> SUFFICES ASSUME Init PROVE IInv
  OBVIOUS
<1> USE DEF Init
<1>1. TypeOK
  BY DEF TypeOK, HandlerPcs, RunnerPcs
<1>2. TableInv /\ EntryInv
  BY DEF TableInv, EntryInv, Registered
<1>3. ActiveInv /\ StreamInv
  BY DEF ActiveInv, StreamInv
<1> QED BY <1>1, <1>2, <1>3 DEF IInv

\* Everything a stream does but registering leaves the table alone, and moves
\* its run out of "running" only.
LEMMA StreamKeepsIInv ==
  ASSUME IInv, NEW s \in Streams,
         \/ RejectStart(s) \/ (\E k \in RunIds : RejectDuplicate(s, k))
         \/ HandlerReturns(s) \/ Disconnect(s) \/ ReaderCancels(s) \/ RunnerStep(s)
  PROVE  IInv'
<1> USE DEF IInv, TypeOK, HandlerPcs, RunnerPcs
<1> USE DEF TableInv, EntryInv, ActiveInv, StreamInv, Registered
<1>1. CASE RejectStart(s)
  BY <1>1 DEF RejectStart, Admitted, registry, runStatus, stream, disk
<1>2. ASSUME NEW k \in RunIds, RejectDuplicate(s, k) PROVE IInv'
  <2>1. ~\E l \in RunIds : Registered(l) /\ entry[l] = s
    BY <1>2, RunIdsAssumption DEF RejectDuplicate, Admitted
  <2>2. TypeOK'
    BY <1>2 DEF RejectDuplicate, Admitted, registry, runStatus, stream, disk
  <2>3. ActiveInv' /\ StreamInv'
    BY <1>2, RunIdsAssumption DEF RejectDuplicate, Admitted, registry, runStatus, stream, disk
  <2>4. TableInv' /\ EntryInv'
    BY <1>2, <2>1 DEF RejectDuplicate, Admitted, registry, runStatus, stream, disk
  <2> QED BY <2>2, <2>3, <2>4
<1>3. CASE HandlerReturns(s)
  BY <1>3 DEF HandlerReturns, registry, runStatus, stream, disk
<1>4. CASE Disconnect(s)
  BY <1>4 DEF Disconnect, registry, threads, runStatus, disk
<1>5. CASE ReaderCancels(s)
  BY <1>5 DEF ReaderCancels, registry, threads, runStatus, disk
<1>6. CASE OptimizerStarts(s)
  BY <1>6 DEF OptimizerStarts, Resume, Step, registry, runStatus, stream
<1>7. CASE OptimizerIterates(s)
  BY <1>7 DEF OptimizerIterates, registry, threads, runStatus, stream
<1>8. CASE SaveCheckpoint(s)
  BY <1>8 DEF SaveCheckpoint, registry, threads, runStatus, stream
<1>9. CASE OptimizerReturns(s)
  BY <1>9 DEF OptimizerReturns, Forget, Step, registry, runStatus, stream
<1>10. CASE OptimizerRaises(s)
  <2>1. /\ runner[s] \in {"start", "optimize"}
        /\ runner' = [runner EXCEPT ![s] = "raised"]
        /\ iteration' = [iteration EXCEPT ![s] = 0]
        /\ UNCHANGED <<registry, runId, handler, runStatus, stream, checkpoint, crashes>>
    BY <1>10 DEF OptimizerRaises, Step, Forget
  <2> QED BY <2>1 DEF registry, runStatus, stream
<1>11. CASE SetComplete(s)
  BY <1>11 DEF SetComplete, Step, registry, stream, disk
<1>12. CASE SetFailed(s)
  BY <1>12 DEF SetFailed, Step, registry, stream, disk
<1>13. CASE PutComplete(s)
  BY <1>13 DEF PutComplete, Step, registry, runStatus, disk
<1>14. CASE PutError(s)
  BY <1>14 DEF PutError, Step, registry, runStatus, disk
<1>15. CASE ReportFails(s)
  BY <1>15 DEF ReportFails, Step, registry, runStatus, stream, disk
<1>16. CASE SetMessage(s)
  BY <1>16 DEF SetMessage, Step, registry, stream, disk
<1>17. CASE Finally(s)
  BY <1>17 DEF Finally, Step, registry, runStatus, disk
<1>18. CASE StartFails(s)
  BY <1>18 DEF StartFails, Step, registry, runStatus, stream, disk
<1>19. CASE OptimizerExits(s)
  BY <1>19 DEF OptimizerExits, Forget, Step, registry, runStatus, stream
<1> QED
  BY <1>1, <1>2, <1>3, <1>4, <1>5, <1>6, <1>7, <1>8, <1>9, <1>10, <1>11, <1>12,
     <1>13, <1>14, <1>15, <1>16, <1>17, <1>18, <1>19
  DEF RunnerStep, RunnerReports, OptimizerEnds

LEMMA CrashKeepsIInv == ASSUME IInv, Crash PROVE IInv'
<1> USE DEF IInv, Crash
<1>1. TypeOK'
  BY DEF TypeOK, HandlerPcs, RunnerPcs
<1>2. TableInv' /\ EntryInv'
  BY DEF TableInv, EntryInv, Registered
<1>3. ActiveInv' /\ StreamInv'
  BY DEF ActiveInv, StreamInv
<1> QED BY <1>1, <1>2, <1>3

LEMMA NextIInv ==
  ASSUME MaxActive <= MaxRuns
  PROVE  IInv /\ [Next]_vars => IInv'
<1> SUFFICES ASSUME IInv, [Next]_vars PROVE IInv'
  OBVIOUS
<1>1. ASSUME NEW s \in Streams, Register(s) PROVE IInv'
  BY <1>1, RegisterKeepsIInv, StreamKeepsIInv DEF Register
<1>2. ASSUME NEW s \in Streams,
             HandlerReturns(s) \/ Disconnect(s) \/ ReaderCancels(s) \/ RunnerStep(s)
      PROVE  IInv'
  BY <1>2, StreamKeepsIInv
<1>3. CASE Crash
  BY <1>3, CrashKeepsIInv
<1>4. CASE UNCHANGED vars
  <2> USE <1>4 DEF IInv, vars, registry, threads, runStatus, stream, disk
  <2>1. TypeOK'
    BY DEF TypeOK
  <2>2. TableInv' /\ EntryInv'
    BY DEF TableInv, EntryInv, Registered
  <2>3. ActiveInv' /\ StreamInv'
    BY DEF ActiveInv, StreamInv
  <2> QED BY <2>1, <2>2, <2>3
<1> QED BY <1>1, <1>2, <1>3, <1>4 DEF Next, Quiet

\* The shape of the table and of the records, where no more runs are in
\* progress than the table has slots.
THEOREM TypeCorrect ==
  ASSUME MaxActive <= MaxRuns
  PROVE  SafetySpec => []TypeOK
<1>1. IInv => TypeOK
  BY DEF IInv
<1>2. IInv /\ [Next]_vars => IInv'
  BY NextIInv
<1> QED BY InitIInv, <1>1, <1>2, PTL DEF SafetySpec

\* Every run in progress is the one its run id finds in the table, however
\* many runs, evictions, reconnections and restarts there were.
THEOREM TableTracksActive ==
  ASSUME MaxActive <= MaxRuns
  PROVE  SafetySpec => []RegistryTracksActive
<1>1. IInv => RegistryTracksActive
  BY DEF IInv, ActiveInv, RegistryTracksActive
<1>2. IInv /\ [Next]_vars => IInv'
  BY NextIInv
<1> QED BY InitIInv, <1>1, <1>2, PTL DEF SafetySpec

\* No two optimizers ever work in one run directory at the same time.
THEOREM RunDirIsExclusive ==
  ASSUME MaxActive <= MaxRuns
  PROVE  SafetySpec => []ExclusiveRunDir
<1>1. IInv => ExclusiveRunDir
  BY DEF IInv, ActiveInv, StreamInv, ExclusiveRunDir, Optimizing
<1>2. IInv /\ [Next]_vars => IInv'
  BY NextIInv
<1> QED BY InitIInv, <1>1, <1>2, PTL DEF SafetySpec

\* A stream is admitted by RegisterRun only, which looks its run id up: and
\* where the table tracks every run in progress, that look-up finds them all.
LEMMA StepRejectsDuplicate ==
  IInv /\ [Next]_vars =>
    [\A s \in Streams :
       (handler[s] = "new" /\ handler'[s] = "open") =>
         ~\E t \in Streams : runId[t] = runId'[s] /\ status[t] = "running"]_vars
<1> SUFFICES ASSUME IInv, Next, NEW s \in Streams, handler[s] = "new", handler'[s] = "open",
                    NEW t \in Streams, runId[t] = runId'[s], status[t] = "running"
             PROVE  FALSE
  OBVIOUS
<1>1. handler \in [Streams -> HandlerPcs] /\ runId \in [Streams -> RunIds \cup {None}]
  BY DEF IInv, TypeOK
<1>2. PICK k \in RunIds : RegisterRun(s, k)
  <2>1. ASSUME NEW u \in Streams, NEW k \in RunIds, RegisterRun(u, k) PROVE u = s
    BY <1>1, <2>1 DEF RegisterRun
  <2>2. ASSUME NEW u \in Streams, RejectStart(u) PROVE FALSE
    BY <1>1, <2>2 DEF RejectStart
  <2>3. ASSUME NEW u \in Streams, NEW k \in RunIds, RejectDuplicate(u, k) PROVE FALSE
    BY <1>1, <2>3 DEF RejectDuplicate
  <2>4. ASSUME NEW u \in Streams, HandlerReturns(u) \/ StartFails(u) PROVE FALSE
    BY <1>1, <2>4 DEF HandlerReturns, StartFails
  <2>5. ASSUME NEW u \in Streams,
               Disconnect(u) \/ ReaderCancels(u) \/ (RunnerStep(u) /\ ~StartFails(u))
        PROVE  UNCHANGED handler
    BY <2>5 DEF Disconnect, ReaderCancels, threads, RunnerStep, OptimizerStarts,
      OptimizerIterates, SaveCheckpoint, OptimizerEnds, OptimizerReturns, OptimizerRaises,
      RunnerReports, SetComplete, PutComplete, ReportFails, SetFailed, SetMessage, PutError,
      Finally, OptimizerExits
  <2>6. ~Crash /\ ~Quiet
    BY DEF Crash, Quiet, vars, threads
  <2> QED BY <2>1, <2>2, <2>3, <2>4, <2>5, <2>6 DEF Next, Register
<1>3. ~IsActive(k) /\ runId'[s] = k
  BY <1>1, <1>2 DEF RegisterRun
<1>4. entry[k] = t /\ t # None
  BY <1>3, StreamsAssumption DEF IInv, ActiveInv
<1> QED BY <1>3, <1>4 DEF IsActive, Registered

\* "Submitting the same run_id while a run is active returns ALREADY_EXISTS":
\* so it is, as long as no more runs are in progress than the table has places.
THEOREM DuplicateIsRejected ==
  ASSUME MaxActive <= MaxRuns
  PROVE  SafetySpec => DuplicateRejected
<1>1. IInv /\ [Next]_vars => IInv'
  BY NextIInv
<1> QED BY InitIInv, <1>1, StepRejectsDuplicate, PTL DEF SafetySpec, DuplicateRejected

-------------------------------------------------------------------------------
(* The record and the terminal message, which concern one stream each *)

ReportTypeOK ==
  /\ handler \in [Streams -> HandlerPcs]
  /\ runner \in [Streams -> RunnerPcs]
  /\ status \in [Streams -> {"none", "running", "complete", "failed"}]
  /\ message \in [Streams -> BOOLEAN]
  /\ terminal \in [Streams -> {"none", "complete", "error"}]

\* What the runner has written to the record by each point of its way, and
\* that it has queued nothing before it has.
ReportInv ==
  /\ ReportTypeOK
  /\ \A s \in Streams :
       /\ handler[s] = "new" => runner[s] = "off"
       /\ runner[s] \notin {"finally", "done"} => terminal[s] = "none"
       /\ runner[s] = "report" => status[s] = "complete"
       /\ runner[s] \in {"message", "error"} => status[s] = "failed"
       /\ runner[s] = "error" => message[s]
  /\ TerminalAgreesWithStatus

\* The two ways a run loses its runner without a word about its end.
LostStep(s) ==
  \/ /\ UNCHANGED handler
     /\ runner[s] = "optimize"
     /\ runner' = [runner EXCEPT ![s] = "finally"]
  \/ /\ handler' = [handler EXCEPT ![s] = "gone"]
     /\ runner[s] = "start"
     /\ runner' = [runner EXCEPT ![s] = "done"]

\* A step of one stream that leaves ReportInv's part of it as it was, or moves
\* the runner on with no word about the record in the new place.
LEMMA OtherStepKeepsReportInv ==
  ASSUME ReportInv, NEW s \in Streams,
         UNCHANGED <<runStatus, terminal>>,
         \/ UNCHANGED threads
         \/ /\ UNCHANGED runner
            /\ \E h \in HandlerPcs \ {"new"} : handler' = [handler EXCEPT ![s] = h]
         \/ /\ UNCHANGED handler
            /\ runner[s] \in {"start", "optimize", "report"}
            /\ \E p \in {"optimize", "returned", "raised"} :
                 runner' = [runner EXCEPT ![s] = p]
         \/ /\ UNCHANGED handler
            /\ runner[s] = "finally"
            /\ runner' = [runner EXCEPT ![s] = "done"]
         \/ LostStep(s)
  PROVE  ReportInv'
<1> USE DEF ReportInv, ReportTypeOK, TerminalAgreesWithStatus, runStatus, threads,
            HandlerPcs, RunnerPcs
<1>1. CASE UNCHANGED threads
  BY <1>1
<1>2. CASE /\ UNCHANGED runner
           /\ \E h \in HandlerPcs \ {"new"} : handler' = [handler EXCEPT ![s] = h]
  BY <1>2
<1>3. CASE /\ UNCHANGED handler
           /\ runner[s] \in {"start", "optimize", "report"}
           /\ \E p \in {"optimize", "returned", "raised"} :
                runner' = [runner EXCEPT ![s] = p]
  BY <1>3
<1>4. CASE /\ UNCHANGED handler
           /\ runner[s] = "finally"
           /\ runner' = [runner EXCEPT ![s] = "done"]
  BY <1>4
<1>5. CASE LostStep(s)
  BY <1>5 DEF LostStep
<1> QED BY <1>1, <1>2, <1>3, <1>4, <1>5

\* The steps that write the record or queue the terminal message.
LEMMA RecordStepKeepsReportInv ==
  ASSUME ReportInv, NEW s \in Streams,
         \/ \E k \in RunIds : RegisterRun(s, k)
         \/ SetComplete(s) \/ PutComplete(s)
         \/ SetFailed(s) \/ SetMessage(s) \/ PutError(s)
  PROVE  ReportInv'
<1> USE DEF ReportInv, ReportTypeOK, TerminalAgreesWithStatus, HandlerPcs, RunnerPcs
<1>1. ASSUME NEW k \in RunIds, RegisterRun(s, k) PROVE ReportInv'
  <2>1. /\ handler[s] = "new"
        /\ status' = [status EXCEPT ![s] = "running"]
        /\ handler' = [handler EXCEPT ![s] = "open"]
        /\ runner' = [runner EXCEPT ![s] = "start"]
        /\ UNCHANGED <<message, terminal>>
    BY <1>1 DEF RegisterRun, Admitted, stream
  <2> QED BY <2>1
<1>2. CASE SetComplete(s)
  BY <1>2 DEF SetComplete, Step, stream
<1>3. CASE PutComplete(s)
  BY <1>3 DEF PutComplete, Step, runStatus
<1>4. CASE SetFailed(s)
  BY <1>4 DEF SetFailed, Step, stream
<1>5. CASE SetMessage(s)
  BY <1>5 DEF SetMessage, Step, stream
<1>6. CASE PutError(s)
  BY <1>6 DEF PutError, Step, runStatus
<1> QED BY <1>1, <1>2, <1>3, <1>4, <1>5, <1>6

LEMMA NextReportInv == ReportInv /\ [Next]_vars => ReportInv'
<1> SUFFICES ASSUME ReportInv, [Next]_vars PROVE ReportInv'
  OBVIOUS
<1>1. ASSUME NEW s \in Streams, Register(s) PROVE ReportInv'
  <2>1. CASE RejectStart(s)
    BY <2>1, OtherStepKeepsReportInv DEF RejectStart, stream, HandlerPcs
  <2>2. ASSUME NEW k \in RunIds, RejectDuplicate(s, k) PROVE ReportInv'
    BY <2>2, OtherStepKeepsReportInv DEF RejectDuplicate, stream, HandlerPcs
  <2> QED BY <1>1, <2>1, <2>2, RecordStepKeepsReportInv DEF Register
<1>2. ASSUME NEW s \in Streams, HandlerReturns(s) PROVE ReportInv'
  BY <1>2, OtherStepKeepsReportInv DEF HandlerReturns, stream, HandlerPcs
<1>3. ASSUME NEW s \in Streams, Disconnect(s) \/ ReaderCancels(s) PROVE ReportInv'
  BY <1>3, OtherStepKeepsReportInv DEF Disconnect, ReaderCancels
<1>4. ASSUME NEW s \in Streams,
             OptimizerStarts(s) \/ OptimizerIterates(s) \/ SaveCheckpoint(s)
      PROVE  ReportInv'
  BY <1>4, OtherStepKeepsReportInv
  DEF OptimizerStarts, OptimizerIterates, SaveCheckpoint, Step, stream
<1>5. ASSUME NEW s \in Streams, OptimizerEnds(s) PROVE ReportInv'
  BY <1>5, OtherStepKeepsReportInv
  DEF OptimizerEnds, OptimizerReturns, OptimizerRaises, Step, stream
<1>6. ASSUME NEW s \in Streams, RunnerReports(s) PROVE ReportInv'
  <2>1. CASE ReportFails(s)
    BY <2>1, OtherStepKeepsReportInv DEF ReportFails, Step, stream
  <2>2. CASE Finally(s)
    BY <2>2, OtherStepKeepsReportInv DEF Finally, Step
  <2> QED BY <1>6, <2>1, <2>2, RecordStepKeepsReportInv DEF RunnerReports
<1>7. ASSUME NEW s \in Streams, StartFails(s) \/ OptimizerExits(s) PROVE ReportInv'
  BY <1>7, OtherStepKeepsReportInv DEF StartFails, OptimizerExits, LostStep, Step, stream
<1>8. CASE Crash
  <2> USE <1>8 DEF Crash, ReportInv, ReportTypeOK, HandlerPcs, RunnerPcs
  <2>1. ReportTypeOK'
    OBVIOUS
  <2> QED BY <2>1 DEF TerminalAgreesWithStatus
<1>9. CASE UNCHANGED vars
  <2>1. UNCHANGED <<threads, runStatus, terminal>>
    BY <1>9 DEF vars, stream
  <2> QED
    BY <2>1 DEF ReportInv, ReportTypeOK, TerminalAgreesWithStatus, threads, runStatus
<1> QED
  BY <1>1, <1>2, <1>3, <1>4, <1>5, <1>6, <1>7, <1>8, <1>9 DEF Next, RunnerStep, Quiet

\* GetStatus agrees with the terminal message a client has had: the record is
\* complete, or failed and with its message, before the message is queued.
\* This does not depend on the number of runs.
THEOREM TerminalMatchesRecord == SafetySpec => []TerminalAgreesWithStatus
<1>1. Init => ReportInv
  BY DEF Init, ReportInv, ReportTypeOK, TerminalAgreesWithStatus, HandlerPcs, RunnerPcs
<1>2. ReportInv => TerminalAgreesWithStatus
  BY DEF ReportInv
<1> QED BY <1>1, <1>2, NextReportInv, PTL DEF SafetySpec

\* A run is lost in the two steps that are faults, and its record is then the
\* only one that is added.
LEMMA StepLosesOnlyByFault ==
  ASSUME ReportInv, [Next]_vars
  PROVE  \/ Lost' \subseteq Lost
         \/ MayFault /\ \E s \in Streams : Lost' \subseteq Lost \cup {s}
<1> DEFINE Same(t) == /\ status'[t] = status[t]
                      /\ runner'[t] = runner[t]
           Safe(t) == status'[t] # "running" \/ runner'[t] \notin {"finally", "done"}
<1>0. /\ handler \in [Streams -> HandlerPcs]
      /\ runner \in [Streams -> RunnerPcs]
      /\ status \in [Streams -> {"none", "running", "complete", "failed"}]
      /\ \A s \in Streams : /\ runner[s] = "report" => status[s] = "complete"
                            /\ runner[s] = "error" => status[s] = "failed"
  BY DEF ReportInv, ReportTypeOK
<1>1. ASSUME \A t \in Streams : Same(t) \/ Safe(t)
      PROVE  Lost' \subseteq Lost
  BY <1>1 DEF Lost
<1>2. ASSUME NEW s \in Streams, MayFault, \A t \in Streams \ {s} : Same(t)
      PROVE  MayFault /\ \E u \in Streams : Lost' \subseteq Lost \cup {u}
  <2>1. Lost' \subseteq Lost \cup {s}
    BY <1>2 DEF Lost
  <2> QED BY <1>2, <2>1
<1>3. ASSUME NEW s \in Streams, NEW k \in RunIds, RegisterRun(s, k)
      PROVE  \A t \in Streams : Same(t) \/ Safe(t)
  <2>1. /\ status' = [status EXCEPT ![s] = "running"]
        /\ runner' = [runner EXCEPT ![s] = "start"]
    BY <1>3 DEF RegisterRun
  <2> QED BY <1>0, <2>1
<1>4. ASSUME NEW s \in Streams,
             \/ RejectStart(s) \/ (\E k \in RunIds : RejectDuplicate(s, k))
             \/ HandlerReturns(s) \/ Disconnect(s) \/ ReaderCancels(s)
             \/ OptimizerIterates(s) \/ SaveCheckpoint(s)
      PROVE  \A t \in Streams : Same(t)
  BY <1>4 DEF RejectStart, RejectDuplicate, HandlerReturns, Disconnect, ReaderCancels,
    OptimizerIterates, SaveCheckpoint, runStatus, threads
<1>5. ASSUME NEW s \in Streams, OptimizerStarts(s) \/ OptimizerEnds(s) \/ ReportFails(s)
                                \/ SetMessage(s)
      PROVE  \A t \in Streams : Same(t) \/ Safe(t)
  <2>1. /\ UNCHANGED status
        /\ \E p \in {"optimize", "returned", "raised", "error"} :
             runner' = [runner EXCEPT ![s] = p]
    BY <1>5 DEF OptimizerStarts, OptimizerEnds, OptimizerReturns, OptimizerRaises, ReportFails,
      SetMessage, Step, runStatus
  <2> QED BY <1>0, <2>1
<1>6. ASSUME NEW s \in Streams, SetComplete(s) \/ SetFailed(s)
      PROVE  \A t \in Streams : Same(t) \/ Safe(t)
  <2>1. /\ \E m \in {"complete", "failed"} : status' = [status EXCEPT ![s] = m]
        /\ \E p \in {"report", "message"} : runner' = [runner EXCEPT ![s] = p]
    BY <1>6 DEF SetComplete, SetFailed, Step
  <2> QED BY <1>0, <2>1
<1>7. ASSUME NEW s \in Streams, PutComplete(s) \/ PutError(s)
      PROVE  \A t \in Streams : Same(t) \/ Safe(t)
  <2>1. /\ UNCHANGED status /\ status[s] # "running"
        /\ runner' = [runner EXCEPT ![s] = "finally"]
    BY <1>0, <1>7 DEF PutComplete, PutError, Step, runStatus
  <2> QED BY <1>0, <2>1
<1>8. ASSUME NEW s \in Streams, Finally(s) PROVE Lost' \subseteq Lost
  <2>1. /\ UNCHANGED status /\ runner[s] = "finally"
        /\ runner' = [runner EXCEPT ![s] = "done"]
    BY <1>8 DEF Finally, Step, runStatus
  <2> QED BY <1>0, <2>1 DEF Lost
<1>9. ASSUME NEW s \in Streams, StartFails(s) \/ OptimizerExits(s)
      PROVE  MayFault /\ \A t \in Streams \ {s} : Same(t)
  <2>1. /\ MayFault /\ UNCHANGED status
        /\ \E p \in {"finally", "done"} : runner' = [runner EXCEPT ![s] = p]
    BY <1>9 DEF StartFails, OptimizerExits, Step, runStatus
  <2> QED BY <1>0, <2>1
<1>10. CASE Crash
  BY <1>1, <1>10 DEF Crash
<1>11. CASE UNCHANGED vars
  BY <1>1, <1>11 DEF vars, runStatus, threads
<1> HIDE DEF Same, Safe
<1>12. ASSUME NEW s \in Streams, Register(s) \/ RunnerStep(s) \/ HandlerReturns(s)
                                 \/ Disconnect(s) \/ ReaderCancels(s)
       PROVE  \/ Lost' \subseteq Lost
              \/ MayFault /\ \E u \in Streams : Lost' \subseteq Lost \cup {u}
  BY <1>1, <1>2, <1>3, <1>4, <1>5, <1>6, <1>7, <1>8, <1>9, <1>12
  DEF Register, RunnerStep, RunnerReports
<1> QED BY <1>10, <1>11, <1>12 DEF Next, Quiet

\* A record never says running of a run that nobody works on, but for those a
\* fault has lost: every way a runner has to its end passes a write of the
\* record, whatever the optimizer, the client and the report do.
THEOREM LostOnlyByFaults == SafetySpec => []OnlyFaultsLoseRuns
<1> DEFINE LostInv == ReportInv /\ OnlyFaultsLoseRuns
<1>1. Init => LostInv
  <2> SUFFICES ASSUME Init PROVE OnlyFaultsLoseRuns
    BY DEF Init, ReportInv, ReportTypeOK, TerminalAgreesWithStatus, HandlerPcs, RunnerPcs
  <2>1. Lost = {}
    BY DEF Init, Lost
  <2> QED BY <2>1, FS_EmptySet, BoundsAssumption DEF OnlyFaultsLoseRuns
<1>2. LostInv /\ [Next]_vars => LostInv'
  <2> SUFFICES ASSUME LostInv, [Next]_vars PROVE OnlyFaultsLoseRuns'
    BY NextReportInv
  <2>1. IsFiniteSet(Lost) /\ Cardinality(Lost) \in Nat /\ MaxFaults \in Nat
    <3>1. IsFiniteSet(Lost)
      BY StreamsAssumption, FS_Subset DEF Lost
    <3> QED BY <3>1, FS_CardinalityType, BoundsAssumption
  <2>2. CASE Lost' \subseteq Lost
    <3>1. Cardinality(Lost') <= Cardinality(Lost) /\ Cardinality(Lost') \in Nat
      BY <2>1, <2>2, FS_Subset, FS_CardinalityType
    <3> QED BY <2>1, <3>1 DEF OnlyFaultsLoseRuns
  <2>3. ASSUME MayFault, NEW s \in Streams, Lost' \subseteq Lost \cup {s}
        PROVE  OnlyFaultsLoseRuns'
    <3>1. /\ IsFiniteSet(Lost \cup {s})
          /\ Cardinality(Lost \cup {s}) <= Cardinality(Lost) + 1
      <4>1. /\ IsFiniteSet(Lost \cup {s})
            /\ \/ Cardinality(Lost \cup {s}) = Cardinality(Lost)
               \/ Cardinality(Lost \cup {s}) = Cardinality(Lost) + 1
        BY <2>1, FS_AddElement
      <4> QED BY <2>1, <4>1
    <3>2. Cardinality(Lost') <= Cardinality(Lost \cup {s})
      BY <2>3, <3>1, FS_Subset
    <3>3. Cardinality(Lost') \in Nat /\ Cardinality(Lost \cup {s}) \in Nat
      BY <2>3, <3>1, FS_Subset, FS_CardinalityType
    <3> QED BY <2>1, <2>3, <3>1, <3>2, <3>3 DEF MayFault, OnlyFaultsLoseRuns
  <2> QED BY <2>2, <2>3, StepLosesOnlyByFault
<1> QED BY <1>1, <1>2, PTL DEF SafetySpec

-------------------------------------------------------------------------------
(* The table's limit *)

\* The table as a dict of at most MaxRuns keys, whatever the records say.
DictInv ==
  /\ order \in Seq(RunIds)
  /\ entry \in [RunIds -> Streams \cup {None}]
  /\ TableInv
  /\ Len(order) <= MaxRuns

LEMMA InitDictInv == Init => DictInv
BY BoundsAssumption DEF Init, DictInv, TableInv, Registered

\* Registering keeps the limit: a full table gives up an entry first.
LEMMA RegisterKeepsDictInv ==
  ASSUME DictInv, NEW s \in Streams, NEW k \in RunIds, RegisterRun(s, k)
  PROVE  DictInv'
<1>1. /\ order \in Seq(RunIds) /\ TableInv
      /\ entry \in [RunIds -> Streams \cup {None}]
      /\ Len(order) \in Nat /\ Len(order) <= MaxRuns /\ MaxRuns \in Nat
  BY LenProperties, BoundsAssumption DEF DictInv
<1>2. CASE HasRoom /\ Insert(order, entry, k, s)
  <2>1. /\ \A l \in RunIds :
             entry[l] # None <=> \E j \in 1..Len(order) : order[j] = l
        /\ \A j, l \in 1..Len(order) : order[j] = order[l] => j = l
    BY <1>1 DEF TableInv, Registered
  <2>2. /\ order' \in Seq(RunIds) /\ TableInv'
        /\ entry' \in [RunIds -> Streams \cup {None}]
    BY <1>1, <1>2, <2>1, InsertKeepsTable
  <2>3. Len(order') <= Len(order) + 1
    BY <1>1, <1>2, AppendProperties DEF Insert
  <2> QED BY <1>1, <1>2, <2>2, <2>3, LenProperties DEF DictInv, HasRoom
<1>3. ASSUME NEW i \in DOMAIN order,
             Insert(RemoveAt(order, i), [entry EXCEPT ![order[i]] = None], k, s)
      PROVE  DictInv'
  <2> DEFINE o == RemoveAt(order, i)
             e == [entry EXCEPT ![order[i]] = None]
  <2>1. /\ o \in Seq(RunIds)
        /\ \A l \in RunIds : e[l] # None <=> \E j \in 1..Len(o) : o[j] = l
        /\ \A j, l \in 1..Len(o) : o[j] = o[l] => j = l
    BY <1>1, <1>3, EvictKeepsTable
  <2>2. e \in [RunIds -> Streams \cup {None}]
    BY <1>1
  <2>3. Len(o) = Len(order) - 1
    BY <1>1, <1>3, LenProperties, RemoveAtProperties
  <2> HIDE DEF o, e
  <2>4. Insert(o, e, k, s)
    BY <1>3 DEF o, e
  <2>5. /\ order' \in Seq(RunIds) /\ TableInv'
        /\ entry' \in [RunIds -> Streams \cup {None}]
    BY <2>1, <2>2, <2>4, InsertKeepsTable
  <2>6. Len(order') <= Len(o) + 1
    BY <1>1, <2>1, <2>3, <2>4, AppendProperties DEF Insert
  <2> QED BY <1>1, <2>3, <2>5, <2>6, LenProperties DEF DictInv
<1> QED BY <1>2, <1>3 DEF RegisterRun

LEMMA NextDictInv == DictInv /\ [Next]_vars => DictInv'
<1> SUFFICES ASSUME DictInv, [Next]_vars PROVE DictInv'
  OBVIOUS
<1>1. CASE UNCHANGED registry
  BY <1>1 DEF DictInv, TableInv, Registered, registry
<1>2. ASSUME NEW s \in Streams, NEW k \in RunIds, RegisterRun(s, k) PROVE DictInv'
  BY <1>2, RegisterKeepsDictInv
<1>3. CASE Crash
  BY <1>3, BoundsAssumption DEF Crash, DictInv, TableInv, Registered
<1>4. ASSUME NEW s \in Streams,
             \/ RejectStart(s) \/ (\E k \in RunIds : RejectDuplicate(s, k))
             \/ HandlerReturns(s) \/ Disconnect(s) \/ ReaderCancels(s)
      PROVE  UNCHANGED registry
  BY <1>4 DEF RejectStart, RejectDuplicate, HandlerReturns, Disconnect, ReaderCancels
<1>5. ASSUME NEW s \in Streams, RunnerStep(s) PROVE UNCHANGED registry
  BY <1>5 DEF RunnerStep, OptimizerStarts, OptimizerIterates, SaveCheckpoint,
    OptimizerEnds, OptimizerReturns, OptimizerRaises, RunnerReports, SetComplete,
    PutComplete, ReportFails, SetFailed, SetMessage, PutError, Finally, StartFails,
    OptimizerExits
<1>6. CASE UNCHANGED vars
  BY <1>1, <1>6 DEF vars
<1> QED BY <1>1, <1>2, <1>3, <1>4, <1>5, <1>6 DEF Next, Register, Quiet

\* As many keys as places.
LEMMA OneKeyPerPlace ==
  ASSUME DictInv
  PROVE  Len(order) = Cardinality({k \in RunIds : Registered(k)})
<1> DEFINE K == {k \in RunIds : Registered(k)}
           f == [j \in 1..Len(order) |-> order[j]]
<1>1. Len(order) \in Nat /\ \A j \in 1..Len(order) : order[j] \in RunIds
  BY LenProperties, ElementOfSeq DEF DictInv
<1>2. f \in Bijection(1..Len(order), K)
  <2>1. f \in [1..Len(order) -> K]
    BY <1>1 DEF DictInv, TableInv
  <2>2. \A j, l \in 1..Len(order) : f[j] = f[l] => j = l
    BY DEF DictInv, TableInv
  <2>3. \A k \in K : \E j \in 1..Len(order) : f[j] = k
    BY DEF DictInv, TableInv
  <2> HIDE DEF f, K
  <2> QED BY <2>1, <2>2, <2>3 DEF Bijection, Injection, Surjection, IsInjective
<1>3. /\ IsFiniteSet(1..Len(order))
      /\ Cardinality(1..Len(order)) = Len(order)
  <2>1. /\ IsFiniteSet(1..Len(order))
        /\ Cardinality(1..Len(order)) = IF 1 > Len(order) THEN 0 ELSE Len(order) - 1 + 1
    BY <1>1, FS_Interval
  <2> QED BY <1>1, <2>1
<1>4. Cardinality(1..Len(order)) = Cardinality(K)
  <2> HIDE DEF f, K
  <2> QED BY <1>2, <1>3, FS_Bijection DEF ExistsBijection
<1> QED BY <1>3, <1>4

\* The table never grows beyond its limit and keeps one place per run id, for
\* any number of runs in progress: also of more than it has places for.
THEOREM TableBounded == SafetySpec => []TableIsBounded
<1>1. DictInv => TableIsBounded
  BY OneKeyPerPlace DEF TableIsBounded, DictInv
<1> QED BY InitDictInv, NextDictInv, <1>1, PTL DEF SafetySpec

-------------------------------------------------------------------------------
(* The run directories *)

\* What an optimizer has in memory is not behind its directory.
AheadOfDisk ==
  \A s \in Streams : Optimizing(s) => iteration[s] >= checkpoint[runId[s]]

DiskInv == IInv /\ AheadOfDisk

LEMMA InitDiskInv == Init => DiskInv
<1> SUFFICES ASSUME Init PROVE AheadOfDisk
  BY InitIInv DEF DiskInv
<1> QED BY DEF Init, AheadOfDisk, Optimizing

\* One optimizer per directory: nobody else's progress is behind what it saves.
LEMMA NextDiskInv ==
  ASSUME MaxActive <= MaxRuns
  PROVE  DiskInv /\ [Next]_vars => DiskInv'
<1> SUFFICES ASSUME DiskInv, [Next]_vars PROVE AheadOfDisk'
  BY NextIInv DEF DiskInv
<1> USE DEF DiskInv, AheadOfDisk, Optimizing
<1>0. /\ iteration \in [Streams -> Nat] /\ checkpoint \in [RunIds -> Nat]
      /\ runId \in [Streams -> RunIds \cup {None}]
      /\ runner \in [Streams -> RunnerPcs]
      /\ \A s \in Streams : runner[s] \in {"start", "optimize"} =>
           runId[s] \in RunIds /\ entry[runId[s]] = s
      /\ \A s \in Streams : handler[s] = "new" => runner[s] = "off"
  BY DEF IInv, TypeOK, StreamInv, ActiveInv
<1>1. ASSUME NEW s \in Streams, SaveCheckpoint(s) PROVE AheadOfDisk'
  <2>1. /\ Optimizing(s)
        /\ checkpoint' = [checkpoint EXCEPT ![runId[s]] = iteration[s]]
        /\ UNCHANGED <<runId, runner, iteration>>
    BY <1>1 DEF SaveCheckpoint, threads
  <2>2. ASSUME NEW t \in Streams, Optimizing(t), t # s
        PROVE  runId[t] # runId[s]
    BY <1>0, <2>1, <2>2
  <2> QED BY <1>0, <2>1, <2>2
<1>2. ASSUME NEW s \in Streams, OptimizerStarts(s) PROVE AheadOfDisk'
  <2>1. /\ runner[s] = "start"
        /\ runner' = [runner EXCEPT ![s] = "optimize"]
        /\ iteration' = [iteration EXCEPT ![s] = checkpoint[runId[s]]]
        /\ UNCHANGED <<runId, checkpoint>>
    BY <1>2 DEF OptimizerStarts, Step, Resume
  <2> QED BY <1>0, <2>1
<1>3. ASSUME NEW s \in Streams, OptimizerIterates(s) PROVE AheadOfDisk'
  <2>1. /\ iteration' = [iteration EXCEPT ![s] = @ + 1]
        /\ UNCHANGED <<runId, runner, checkpoint>>
    BY <1>3 DEF OptimizerIterates, threads
  <2> QED BY <1>0, <2>1
<1>4. ASSUME NEW s \in Streams, UNCHANGED checkpoint,
             \E p \in RunnerPcs \ {"optimize"} : runner' = [runner EXCEPT ![s] = p],
             \A t \in Streams \ {s} : UNCHANGED <<iteration[t], runId[t]>>
      PROVE  AheadOfDisk'
  BY <1>0, <1>4
<1>5. CASE UNCHANGED <<runId, runner, disk>>
  BY <1>5 DEF disk
<1>6. ASSUME NEW s \in Streams, OptimizerEnds(s) \/ OptimizerExits(s) PROVE AheadOfDisk'
  <2>1. /\ UNCHANGED <<checkpoint, runId>>
        /\ \E p \in RunnerPcs \ {"optimize"} : runner' = [runner EXCEPT ![s] = p]
        /\ iteration' = [iteration EXCEPT ![s] = 0]
    BY <1>6 DEF OptimizerEnds, OptimizerReturns, OptimizerRaises, OptimizerExits,
                Step, Forget, RunnerPcs
  <2> QED BY <1>0, <1>4, <2>1
<1>7. ASSUME NEW s \in Streams, RunnerReports(s) \/ StartFails(s) PROVE AheadOfDisk'
  <2>1. /\ UNCHANGED <<disk, runId>>
        /\ \E p \in RunnerPcs \ {"optimize"} : runner' = [runner EXCEPT ![s] = p]
    BY <1>7 DEF RunnerReports, SetComplete, PutComplete, ReportFails, SetFailed,
                SetMessage, PutError, Finally, StartFails, Step, RunnerPcs
  <2> QED BY <1>4, <2>1 DEF disk
<1>8. ASSUME NEW s \in Streams, Register(s) PROVE AheadOfDisk'
  <2>1. CASE RejectStart(s)
    BY <1>5, <2>1 DEF RejectStart
  <2>2. ASSUME NEW k \in RunIds, RejectDuplicate(s, k) PROVE AheadOfDisk'
    <3>1. /\ runner[s] = "off" /\ UNCHANGED <<runner, disk>>
          /\ runId' = [runId EXCEPT ![s] = k]
      BY <1>0, <2>2 DEF RejectDuplicate, Admitted
    <3> QED BY <1>0, <3>1 DEF disk
  <2>3. ASSUME NEW k \in RunIds, RegisterRun(s, k) PROVE AheadOfDisk'
    <3>1. /\ runner' = [runner EXCEPT ![s] = "start"] /\ UNCHANGED disk
          /\ runId' = [runId EXCEPT ![s] = k]
      BY <2>3 DEF RegisterRun
    <3> QED BY <1>0, <3>1 DEF disk
  <2> QED BY <1>8, <2>1, <2>2, <2>3 DEF Register
<1>9. ASSUME NEW s \in Streams, HandlerReturns(s) \/ Disconnect(s) \/ ReaderCancels(s)
      PROVE  AheadOfDisk'
  BY <1>5, <1>9 DEF HandlerReturns, Disconnect, ReaderCancels, threads
<1>10. CASE Crash
  BY <1>10, <1>0 DEF Crash
<1>11. CASE UNCHANGED vars
  BY <1>5, <1>11 DEF vars, threads
<1> QED
  BY <1>1, <1>2, <1>3, <1>6, <1>7, <1>8, <1>9, <1>10, <1>11
  DEF Next, RunnerStep, Quiet

\* A checkpoint is only ever replaced by a later one.
LEMMA StepAdvances ==
  DiskInv /\ [Next]_vars => [\A k \in RunIds : checkpoint'[k] >= checkpoint[k]]_vars
<1> SUFFICES ASSUME DiskInv, Next
             PROVE  \A k \in RunIds : checkpoint'[k] >= checkpoint[k]
  OBVIOUS
<1>1. checkpoint \in [RunIds -> Nat] /\ iteration \in [Streams -> Nat]
  BY DEF DiskInv, IInv, TypeOK
<1>2. ASSUME NEW s \in Streams, SaveCheckpoint(s)
      PROVE  \A k \in RunIds : checkpoint'[k] >= checkpoint[k]
  <2>1. /\ checkpoint' = [checkpoint EXCEPT ![runId[s]] = iteration[s]]
        /\ iteration[s] >= checkpoint[runId[s]]
    BY <1>2 DEF SaveCheckpoint, DiskInv, AheadOfDisk, Optimizing
  <2> QED BY <1>1, <2>1
<1>3. CASE UNCHANGED checkpoint
  BY <1>1, <1>3
<1>4. ASSUME NEW s \in Streams,
             Register(s) \/ HandlerReturns(s) \/ Disconnect(s) \/ ReaderCancels(s)
      PROVE  UNCHANGED checkpoint
  BY <1>4 DEF Register, RejectStart, RejectDuplicate, RegisterRun, HandlerReturns,
    Disconnect, ReaderCancels, disk
<1>5. ASSUME NEW s \in Streams, RunnerStep(s), ~SaveCheckpoint(s)
      PROVE  UNCHANGED checkpoint
  BY <1>5 DEF RunnerStep, OptimizerStarts, OptimizerIterates, OptimizerEnds,
    OptimizerReturns, OptimizerRaises, RunnerReports, SetComplete, PutComplete,
    ReportFails, SetFailed, SetMessage, PutError, Finally, StartFails, OptimizerExits,
    disk
<1>6. Crash \/ Quiet => UNCHANGED checkpoint
  BY DEF Crash, Quiet, vars, disk
<1> QED BY <1>2, <1>3, <1>4, <1>5, <1>6 DEF Next

\* However often a run id is taken up again, after a disconnection, an error or
\* a restart of the server, its progress on disk is never set back.
THEOREM CheckpointsAdvance ==
  ASSUME MaxActive <= MaxRuns
  PROVE  SafetySpec => CheckpointNeverRegresses
<1>1. DiskInv /\ [Next]_vars => DiskInv'
  BY NextDiskInv
<1> QED
  BY InitDiskInv, <1>1, StepAdvances, PTL DEF SafetySpec, CheckpointNeverRegresses

===============================================================================
