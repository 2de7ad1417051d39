-------------------------------- MODULE Progress ---------------------------------
(***************************************************************************)
(* gepa_rpc/servicer.py, _ProgressCallback and _OmniProgressCallback: the  *)
(* optimizer's events become progress updates on the stream and a counter  *)
(* in the record that GetStatus reads.  Events come one at a time, in the  *)
(* runner thread; the client receives, and polls, at any moment.  The      *)
(* callback compares Python floats, and the wire has 32 bits of them.  A   *)
(* run that is resumed on another stream goes on counting with a new       *)
(* callback and a new record.                                              *)
(***************************************************************************)
EXTENDS Integers, Sequences

CONSTANTS
  Candidates,
  MaxScore,      \* bound on average scores
  Float32,       \* what the wire's `float best_score` makes of a score
  MaxCalls,      \* bound on metric calls
  MaxUpdates,    \* bound on updates that are not received yet
  NoCandidate

ASSUME ProgressBounds ==
  MaxScore \in Nat /\ MaxCalls \in Nat /\ MaxUpdates \in Nat \ {0}
\* Two scores can become one, but none overtakes another.
ASSUME Float32Assumption ==
  /\ Float32 \in [0..MaxScore -> 0..MaxScore]
  /\ \A a, b \in 0..MaxScore : a <= b => Float32[a] <= Float32[b]
ASSUME NoCandidateAssumption == NoCandidate \notin Candidates

\* float("-inf") is below every score, and comparing with NaN is false.
NegInf == -1
NaN == -2
Averages == {NaN, NegInf} \cup 0..MaxScore

VARIABLES
  pc,          \* inside on_budget_updated or on_valset_evaluated
  best,        \* self._best_score
  candidate,   \* self._best_candidate
  evalsUsed,   \* self._evals_used
  metricCalls, \* run_status["metric_calls_used"]
  updates,     \* updates queued and not received yet
  heard,       \* the last update received
  seen,        \* evaluations the callback was told of
  budget       \* metric calls the optimizer has made

callback == <<pc, best, candidate, evalsUsed>>
vars == <<callback, metricCalls, updates, heard, seen, budget>>

\* NaN and the infinities are what they are in either width.
Wire(score) == IF score \in 0..MaxScore THEN Float32[score] ELSE score

Update == [used |-> evalsUsed, best |-> Wire(best), candidate |-> candidate]
NoUpdate == [used |-> 0, best |-> NegInf, candidate |-> NoCandidate]

Updates == [used : 0..MaxCalls, best : 0..MaxScore, candidate : Candidates]

ProgressTypeOK ==
  /\ pc \in {"idle", "status", "emit"}
  /\ best \in {NegInf} \cup 0..MaxScore
  /\ candidate \in Candidates \cup {NoCandidate}
  /\ evalsUsed \in 0..MaxCalls
  /\ metricCalls \in 0..MaxCalls
  /\ updates \in Seq(Updates)
  /\ heard \in Updates \cup {NoUpdate}
  /\ seen \in SUBSET (Averages \X Candidates)
  /\ budget \in 0..MaxCalls

NewStream ==
  /\ pc' = "idle"
  /\ best' = NegInf
  /\ candidate' = NoCandidate
  /\ evalsUsed' = 0
  /\ metricCalls' = 0
  /\ updates' = <<>>
  /\ heard' = NoUpdate
  /\ seen' = {}

Init ==
  /\ pc = "idle"
  /\ best = NegInf
  /\ candidate = NoCandidate
  /\ evalsUsed = 0
  /\ metricCalls = 0
  /\ updates = <<>>
  /\ heard = NoUpdate
  /\ seen = {}
  /\ budget = 0

-------------------------------------------------------------------------------
\* Faulty variant, like each operator below whose comment calls it one: the
\* code does not do this, and the properties must notice if it did.  The
\* comparison is the negation of <=, and NaN passes.
AboveOrNaN(avg, b) == ~(avg # NaN /\ avg <= b)

Above(avg, b) == avg # NaN /\ avg > b

\* on_budget_updated: the callback's counter.
OnBudgetUpdated(used) ==
  /\ pc = "idle"
  /\ used > budget
  /\ budget' = used
  /\ evalsUsed' = used
  /\ pc' = "status"
  /\ UNCHANGED <<best, candidate, metricCalls, updates, heard, seen>>

\* Faulty variant: only a run without an update yet is counted in the record.
WriteStatusOnce ==
  /\ pc = "status"
  /\ metricCalls' = IF best = NegInf THEN evalsUsed ELSE metricCalls
  /\ pc' = IF best = NegInf THEN "idle" ELSE "emit"
  /\ UNCHANGED <<best, candidate, evalsUsed, updates, heard, seen, budget>>

\* ... then the record's, and an update if there is a best score to report.
WriteStatus ==
  /\ pc = "status"
  /\ metricCalls' = evalsUsed
  /\ pc' = IF best = NegInf THEN "idle" ELSE "emit"
  /\ UNCHANGED <<best, candidate, evalsUsed, updates, heard, seen, budget>>

\* Faulty variant: the candidate is kept.
ImproveScore(avg, c) == best' = avg /\ candidate' = IF best = NegInf THEN c ELSE candidate

Improve(avg, c) == best' = avg /\ candidate' = c

\* on_valset_evaluated
OnValsetEvaluated(avg, c) ==
  /\ pc = "idle"
  /\ seen' = seen \cup {<<avg, c>>}
  /\ IF Above(avg, best)
     THEN Improve(avg, c) /\ pc' = "emit"
     ELSE UNCHANGED <<pc, best, candidate>>
  /\ UNCHANGED <<evalsUsed, metricCalls, updates, heard, budget>>

\* _emit: outbound.put
Emit ==
  /\ pc = "emit"
  /\ Len(updates) < MaxUpdates
  /\ updates' = Append(updates, Update)
  /\ pc' = "idle"
  /\ UNCHANGED <<best, candidate, evalsUsed, metricCalls, heard, seen, budget>>

Receive ==
  /\ updates # <<>>
  /\ heard' = Head(updates)
  /\ updates' = Tail(updates)
  /\ UNCHANGED <<callback, metricCalls, seen, budget>>

\* The run ends, or is lost, between two events; the next stream under its
\* run_id takes up the optimizer's count.
Resume == pc = "idle" /\ NewStream /\ UNCHANGED budget

Next ==
  \/ \E used \in 1..MaxCalls : OnBudgetUpdated(used)
  \/ WriteStatus
  \/ \E avg \in Averages, c \in Candidates : OnValsetEvaluated(avg, c)
  \/ Emit \/ Receive \/ Resume

Spec == Init /\ [][Next]_vars

-------------------------------------------------------------------------------
(* Properties *)

Received == <<heard>> \o updates

\* The averages of its candidate that an update can be the report of.
Reported(u) ==
  IF u = NoUpdate THEN {NegInf}
  ELSE {avg \in 0..MaxScore : <<avg, u.candidate>> \in seen /\ Wire(avg) = u.best}

\* From one update to the next on a stream neither the count nor the best
\* score falls, and the candidate changes only for one that was better; on the
\* wire it may show the same score.
UpdatesRise ==
  \A i, j \in DOMAIN Received : i < j =>
    LET u == Received[i]
        v == Received[j] IN
      /\ u.used <= v.used
      /\ u.best <= v.best
      /\ u.candidate # v.candidate =>
           \E x \in Reported(u), y \in Reported(v) : x < y

\* An update names a candidate that had the score it reports, but for the
\* digits the wire has no room for.
BestWasSeen ==
  \A i \in DOMAIN updates : Reported(updates[i]) # {}

\* A client that has received an update and then asks GetStatus is not told of
\* fewer metric calls.
StatusNotBehind ==
  \A i \in DOMAIN Received : Received[i].used <= metricCalls

===============================================================================
