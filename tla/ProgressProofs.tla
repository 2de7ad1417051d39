----------------------------- MODULE ProgressProofs -----------------------------
(***************************************************************************)
(* Proofs about Progress, for any scores, counts and candidates, any       *)
(* monotone rounding and any number of updates under way: what the client  *)
(* has received or has coming is bounded by what the callback and the      *)
(* record hold now.                                                        *)
(***************************************************************************)
EXTENDS Progress, SequenceTheorems, TLAPS

AnyUpdate == [used : Nat, best : Int, candidate : Candidates \cup {NoCandidate}]

CallbackInv ==
  /\ pc \in {"idle", "status", "emit"}
  /\ best \in {NegInf} \cup 0..MaxScore
  /\ best # NegInf => candidate \in Candidates
  /\ candidate \in Candidates \cup {NoCandidate}
  /\ evalsUsed \in Nat /\ budget \in Nat /\ evalsUsed <= budget
  /\ updates \in Seq(AnyUpdate)
  /\ heard \in AnyUpdate
  /\ pc = "emit" => best # NegInf

\* The record is one budget event behind at most, and not when an update is
\* about to be queued.
RecordInv ==
  /\ metricCalls \in Nat
  /\ pc # "status" => metricCalls = evalsUsed
  /\ StatusNotBehind

\* An update is a picture of the callback at an earlier moment: what it reports
\* is at most the score b of candidate c, and less if that is another one.
NotAbove(u, b, c) ==
  /\ u.best <= Wire(b)
  /\ \E x \in Reported(u) : x <= b /\ (u.candidate # c => x < b)

PastInv ==
  /\ UpdatesRise
  /\ \A i \in DOMAIN Received :
       Received[i].used <= evalsUsed /\ NotAbove(Received[i], best, candidate)

SeenInv == best # NegInf => <<best, candidate>> \in seen

Inv == CallbackInv /\ RecordInv /\ PastInv /\ SeenInv

\* What Received looks like: the last update received, then those under way.
LEMMA ReceivedProperties ==
  ASSUME NEW h \in AnyUpdate, NEW q \in Seq(AnyUpdate)
  PROVE  /\ Len(q) \in Nat
         /\ DOMAIN q = 1..Len(q)
         /\ DOMAIN (<<h>> \o q) = 1..(Len(q) + 1)
         /\ (<<h>> \o q)[1] = h
         /\ \A i \in 1..Len(q) : (<<h>> \o q)[i + 1] = q[i] /\ q[i] \in AnyUpdate
<1>1. <<h>> \in Seq(AnyUpdate) /\ Len(<<h>>) = 1 /\ <<h>>[1] = h
  OBVIOUS
<1>2. /\ Len(q) \in Nat /\ DOMAIN q = 1..Len(q)
      /\ \A i \in 1..Len(q) : q[i] \in AnyUpdate
  BY LenProperties, ElementOfSeq
<1>3. /\ <<h>> \o q \in Seq(AnyUpdate)
      /\ Len(<<h>> \o q) = 1 + Len(q)
      /\ \A i \in 1..(1 + Len(q)) :
           (<<h>> \o q)[i] = IF i <= 1 THEN <<h>>[i] ELSE q[i - 1]
  BY <1>1, ConcatProperties
<1>4. DOMAIN (<<h>> \o q) = 1..(Len(q) + 1)
  BY <1>2, <1>3, LenProperties
<1> QED BY <1>1, <1>2, <1>3, <1>4

\* Everything a client may still learn of the updates, element by element.
LEMMA ReceivedElements ==
  ASSUME CallbackInv
  PROVE  /\ DOMAIN Received = 1..(Len(updates) + 1)
         /\ Len(updates) \in Nat
         /\ \A i \in DOMAIN Received : Received[i] \in AnyUpdate
         /\ Received[1] = heard
         /\ \A i \in 1..Len(updates) : Received[i + 1] = updates[i]
<1>1. /\ Len(updates) \in Nat
      /\ DOMAIN Received = 1..(Len(updates) + 1)
      /\ Received[1] = heard
      /\ \A i \in 1..Len(updates) : Received[i + 1] = updates[i] /\ updates[i] \in AnyUpdate
  BY ReceivedProperties DEF CallbackInv, Received
<1>2. ASSUME NEW i \in 1..(Len(updates) + 1) PROVE Received[i] \in AnyUpdate
  <2>1. CASE i = 1
    BY <1>1, <2>1 DEF CallbackInv
  <2>2. CASE i # 1
    <3>1. i - 1 \in 1..Len(updates) /\ Received[(i - 1) + 1] = Received[i]
      BY <1>1, <2>2
    <3> QED BY <1>1, <3>1
  <2> QED BY <2>1, <2>2
<1> QED BY <1>1, <1>2

\* The wire keeps the order of scores, though not their differences.
LEMMA WireFacts ==
  /\ \A a \in {NegInf} \cup 0..MaxScore : Wire(a) \in Int
  /\ \A a, b \in {NegInf} \cup 0..MaxScore : a <= b => Wire(a) <= Wire(b)
<1>1. MaxScore \in Nat /\ NegInf = -1 /\ NegInf \notin 0..MaxScore
  BY ProgressBounds DEF NegInf
<1>2. Wire(NegInf) = -1
  BY <1>1 DEF Wire
<1>3. \A a \in 0..MaxScore : Wire(a) = Float32[a] /\ Float32[a] \in 0..MaxScore
  BY Float32Assumption DEF Wire
<1>4. \A a \in 0..MaxScore : Wire(a) \in Int /\ -1 <= Wire(a)
  BY <1>1, <1>3
<1>5. \A a, b \in 0..MaxScore : a <= b => Wire(a) <= Wire(b)
  BY <1>3, Float32Assumption
<1>6. \A a \in 0..MaxScore : ~(a <= NegInf)
  BY <1>1
<1> QED BY <1>1, <1>2, <1>4, <1>5, <1>6

\* What an update can be the report of stays so, and is a number.
LEMMA ReportedFacts ==
  ASSUME NEW u
  PROVE  /\ Reported(u) \subseteq Int
         /\ seen \subseteq seen' => Reported(u) \subseteq Reported(u)'
BY ProgressBounds DEF Reported, NegInf

\* What is not above the callback is not above it when it has risen.
LEMMA NotAboveRises ==
  ASSUME NEW u \in AnyUpdate, NEW b \in {NegInf} \cup 0..MaxScore, NEW c,
         NEW avg \in 0..MaxScore, NEW d,
         NotAbove(u, b, c), b < avg, seen \subseteq seen'
  PROVE  NotAbove(u, avg, d)'
<1>1. PICK x \in Reported(u) : x <= b
  BY DEF NotAbove
<1>2. x \in Int /\ x \in Reported(u)' /\ b \in Int /\ avg \in Int
  BY <1>1, ReportedFacts, ProgressBounds DEF NegInf
<1>3. x < avg /\ x <= avg
  BY <1>1, <1>2
<1>4. u.best \in Int /\ u.best <= Wire(b) /\ Wire(b) <= Wire(avg)
      /\ Wire(b) \in Int /\ Wire(avg) \in Int
  <2>1. u.best \in Int /\ u.best <= Wire(b)
    BY DEF AnyUpdate, NotAbove
  <2>2. b <= avg
    BY <1>2
  <2> QED BY <2>1, <2>2, WireFacts
<1>5. u.best <= Wire(avg)
  BY <1>4
<1> QED BY <1>2, <1>3, <1>5 DEF NotAbove, Wire

\* The imaginary update of a callback that has seen nothing.
LEMMA NothingYet == NotAbove(NoUpdate, NegInf, NoCandidate)
<1>1. Reported(NoUpdate) = {NegInf} /\ NegInf \in Int
  BY DEF Reported, NegInf
<1>2. NoUpdate.best = NegInf /\ NoUpdate.candidate = NoCandidate
  BY DEF NoUpdate
<1>3. Wire(NegInf) = NegInf
  BY ProgressBounds DEF Wire, NegInf
<1> QED BY <1>1, <1>2, <1>3 DEF NotAbove

LEMMA NotAboveStays ==
  ASSUME NEW u, NEW b, NEW c, NotAbove(u, b, c), seen \subseteq seen'
  PROVE  NotAbove(u, b, c)'
BY ReportedFacts DEF NotAbove, Wire

\* The updates that were rising are rising, however much more is seen.
LEMMA RisingStays ==
  ASSUME UpdatesRise, Received' = Received, seen \subseteq seen'
  PROVE  UpdatesRise'
<1> SUFFICES ASSUME NEW i \in DOMAIN Received, NEW j \in DOMAIN Received, i < j
             PROVE  /\ Received[i].used <= Received[j].used
                    /\ Received[i].best <= Received[j].best
                    /\ Received[i].candidate # Received[j].candidate =>
                         \E x \in Reported(Received[i])', y \in Reported(Received[j])' : x < y
  BY DEF UpdatesRise, Reported
<1> QED BY ReportedFacts DEF UpdatesRise

\* A fresh stream: one imaginary update, nothing seen.
LEMMA FreshInv ==
  ASSUME NewStream, budget' \in Nat
  PROVE  Inv'
<1> USE DEF NewStream, NegInf
<1>1. NoUpdate \in AnyUpdate /\ <<>> \in Seq(AnyUpdate)
  BY DEF NoUpdate, AnyUpdate
<1>2. CallbackInv'
  BY <1>1 DEF CallbackInv
<1>3. /\ DOMAIN Received' = 1..1
      /\ Received'[1] = NoUpdate
  BY <1>1, ReceivedProperties DEF Received
<1>4. RecordInv'
  BY <1>3 DEF RecordInv, StatusNotBehind, NoUpdate
<1>5. PastInv'
  <2>1. UpdatesRise' /\ NoUpdate.used = 0
    BY <1>3 DEF UpdatesRise, NoUpdate
  <2>2. NotAbove(NoUpdate, NegInf, NoCandidate)'
    BY NothingYet, PTL
  <2> QED BY <1>3, <2>1, <2>2 DEF PastInv, NotAbove
<1>6. SeenInv'
  BY DEF SeenInv
<1> QED BY <1>2, <1>4, <1>5, <1>6 DEF Inv

LEMMA InitInv == Init => Inv
<1> SUFFICES ASSUME Init PROVE Inv
  OBVIOUS
<1> USE DEF Init, NegInf
<1>1. NoUpdate \in AnyUpdate /\ <<>> \in Seq(AnyUpdate)
  BY DEF NoUpdate, AnyUpdate
<1>2. CallbackInv
  BY <1>1 DEF CallbackInv
<1>3. DOMAIN Received = 1..1 /\ Received[1] = NoUpdate
  BY <1>1, ReceivedProperties DEF Received
<1>4. RecordInv
  BY <1>3 DEF RecordInv, StatusNotBehind, NoUpdate
<1>5. PastInv
  <2>1. UpdatesRise /\ NoUpdate.used = 0
    BY <1>3 DEF UpdatesRise, NoUpdate
  <2> QED BY <1>3, <2>1, NothingYet DEF PastInv
<1>6. SeenInv
  BY DEF SeenInv
<1> QED BY <1>2, <1>4, <1>5, <1>6 DEF Inv

LEMMA EmitKeepsInv == ASSUME Inv, Emit PROVE Inv'
<1> USE DEF Inv, Emit, NegInf
<1>1. /\ Update \in AnyUpdate
      /\ updates \in Seq(AnyUpdate)
      /\ heard \in AnyUpdate
      /\ Update.used = evalsUsed /\ Update.best = Wire(best) /\ Update.candidate = candidate
  BY WireFacts DEF CallbackInv, Update, AnyUpdate
<1>2. /\ updates' \in Seq(AnyUpdate)
      /\ Len(updates') = Len(updates) + 1
      /\ \A i \in 1..Len(updates) : updates'[i] = updates[i]
      /\ updates'[Len(updates) + 1] = Update
  BY <1>1, AppendProperties
<1>3. CallbackInv'
  BY <1>2 DEF CallbackInv
<1> DEFINE n == Len(updates)
<1>4. /\ n \in Nat
      /\ DOMAIN Received = 1..(n + 1)
      /\ DOMAIN Received' = 1..(n + 2)
      /\ \A i \in 1..(n + 1) : Received'[i] = Received[i] /\ Received[i] \in AnyUpdate
      /\ Received'[n + 2] = Update
  <2>1. /\ DOMAIN Received = 1..(n + 1) /\ n \in Nat
        /\ Received[1] = heard
        /\ \A i \in 1..n : Received[i + 1] = updates[i]
        /\ \A i \in DOMAIN Received : Received[i] \in AnyUpdate
    BY ReceivedElements
  <2>2. /\ DOMAIN Received' = 1..(n + 2)
        /\ Received'[1] = heard
        /\ \A i \in 1..(n + 1) : Received'[i + 1] = updates'[i]
    <3>1. heard' = heard /\ heard' \in AnyUpdate /\ updates' \in Seq(AnyUpdate)
      BY <1>1, <1>2
    <3>2. Len(updates') = n + 1 /\ (n + 1) + 1 = n + 2
      BY <1>2, <2>1
    <3> HIDE DEF n
    <3> QED BY <3>1, <3>2, ReceivedProperties DEF Received
  <2>3. ASSUME NEW i \in 2..(n + 1) PROVE Received'[i] = Received[i]
    <3> DEFINE j == i - 1
    <3>1. j \in 1..n /\ j + 1 = i /\ j \in 1..(n + 1)
      BY <2>1
    <3> HIDE DEF j, n
    <3>2. Received'[j + 1] = updates'[j] /\ Received[j + 1] = updates[j]
      BY <2>1, <2>2, <3>1
    <3>3. updates'[j] = updates[j]
      BY <1>2, <3>1 DEF n
    <3> QED BY <3>1, <3>2, <3>3
  <2>4. Received'[n + 2] = Update
    BY <1>2, <2>1, <2>2
  <2> QED BY <2>1, <2>2, <2>3, <2>4
<1> HIDE DEF n
<1>5. RecordInv'
  BY <1>1, <1>4 DEF RecordInv, StatusNotBehind
<1>6. best \in 0..MaxScore /\ best \in Int /\ best \in Reported(Update)
  <2>1. best \in 0..MaxScore /\ candidate \in Candidates
    BY DEF CallbackInv
  <2>2. Update # NoUpdate
    BY <1>1, <2>1, NoCandidateAssumption DEF NoUpdate
  <2>3. <<best, candidate>> \in seen
    BY DEF SeenInv, CallbackInv
  <2> QED BY <1>1, <2>1, <2>2, <2>3, ProgressBounds DEF Reported
<1>7. PastInv'
  <2>1. /\ \A u : Reported(u)' = Reported(u)
        /\ \A u : NotAbove(u, best, candidate)' = NotAbove(u, best, candidate)
    BY DEF Reported, NotAbove, Wire
  <2>2. UpdatesRise'
    <3> SUFFICES ASSUME NEW i \in 1..(n + 2), NEW j \in 1..(n + 2), i < j
                 PROVE  /\ Received'[i].used <= Received'[j].used
                        /\ Received'[i].best <= Received'[j].best
                        /\ Received'[i].candidate # Received'[j].candidate =>
                             \E x \in Reported(Received'[i]), y \in Reported(Received'[j]) :
                               x < y
      BY <1>4, <2>1 DEF UpdatesRise
    <3>1. CASE j = n + 2
      <4>1. i \in 1..(n + 1)
        BY <1>4, <3>1
      <4>2. /\ Received[i].used <= evalsUsed
            /\ Received[i].best <= Wire(best)
            /\ \E x \in Reported(Received[i]) : Received[i].candidate # candidate => x < best
        BY <1>4, <4>1 DEF PastInv, NotAbove
      <4>3. Received'[i] = Received[i] /\ Received'[j] = Update
        BY <1>4, <3>1, <4>1
      <4> QED BY <1>1, <1>6, <4>2, <4>3
    <3>2. CASE j # n + 2
      <4>1. i \in 1..(n + 1) /\ j \in 1..(n + 1)
        BY <1>4, <3>2
      <4>2. Received'[i] = Received[i] /\ Received'[j] = Received[j]
        BY <1>4, <4>1
      <4> QED BY <1>4, <4>1, <4>2 DEF PastInv, UpdatesRise
    <3> QED BY <3>1, <3>2
  <2>3. ASSUME NEW i \in 1..(n + 2)
        PROVE  Received'[i].used <= evalsUsed /\ NotAbove(Received'[i], best, candidate)
    <3>1. CASE i = n + 2
      <4>1. Received'[i] = Update
        BY <1>4, <3>1
      <4>2. evalsUsed \in Nat /\ Wire(best) \in Int
        BY WireFacts DEF CallbackInv
      <4>3. Update.best <= Wire(best) /\ Update.used <= evalsUsed
        BY <1>1, <4>2
      <4>4. NotAbove(Update, best, candidate)
        BY <1>1, <1>6, <4>3 DEF NotAbove
      <4> QED BY <4>1, <4>3, <4>4
    <3>2. CASE i # n + 2
      <4>1. i \in 1..(n + 1)
        BY <1>4, <3>2
      <4> QED BY <1>4, <4>1 DEF PastInv
    <3> QED BY <3>1, <3>2
  <2> QED BY <1>4, <2>1, <2>2, <2>3 DEF PastInv
<1>8. SeenInv'
  BY DEF SeenInv
<1> QED BY <1>3, <1>5, <1>7, <1>8

LEMMA ReceiveKeepsInv == ASSUME Inv, Receive PROVE Inv'
<1> USE DEF Inv, Receive, callback
<1> DEFINE n == Len(updates)
<1>1. /\ updates \in Seq(AnyUpdate) /\ updates # <<>>
      /\ heard \in AnyUpdate /\ n \in Nat \ {0}
  BY EmptySeq, LenProperties DEF CallbackInv
<1>2. /\ heard' = updates[1] /\ heard' \in AnyUpdate
      /\ updates' \in Seq(AnyUpdate) /\ Len(updates') = n - 1
      /\ \A i \in 1..(n - 1) : updates'[i] = updates[i + 1]
  BY <1>1, HeadTailProperties
<1>3. CallbackInv'
  BY <1>2 DEF CallbackInv
<1>4. /\ DOMAIN Received = 1..(n + 1)
      /\ DOMAIN Received' = 1..n
      /\ \A i \in 1..n : Received'[i] = Received[i + 1]
      /\ \A i \in 1..(n + 1) : Received[i] \in AnyUpdate
  <2>1. /\ DOMAIN Received = 1..(n + 1)
        /\ \A i \in 1..n : Received[i + 1] = updates[i]
        /\ \A i \in DOMAIN Received : Received[i] \in AnyUpdate
    BY ReceivedElements
  <2>2. /\ DOMAIN Received' = 1..n
        /\ Received'[1] = updates[1]
        /\ \A i \in 1..(n - 1) : Received'[i + 1] = updates'[i]
    BY <1>1, <1>2, ReceivedProperties DEF Received
  <2>3. ASSUME NEW i \in 1..n PROVE Received'[i] = updates[i]
    <3>1. CASE i = 1
      BY <2>2, <3>1
    <3>2. CASE i # 1
      <4>1. i - 1 \in 1..(n - 1) /\ (i - 1) + 1 = i
        BY <1>1, <3>2
      <4> HIDE DEF n
      <4>2. Received'[(i - 1) + 1] = updates'[i - 1] /\ updates'[i - 1] = updates[(i - 1) + 1]
        BY <1>2, <2>2, <4>1
      <4> QED BY <4>1, <4>2
    <3> QED BY <3>1, <3>2
  <2> QED BY <1>1, <2>1, <2>2, <2>3
<1> HIDE DEF n
<1>6. RecordInv'
  BY <1>1, <1>4 DEF RecordInv, StatusNotBehind
<1>7. PastInv'
  <2>1. ASSUME NEW i \in 1..n PROVE i + 1 \in DOMAIN Received
    BY <1>1, <1>4
  <2>2. /\ \A u : Reported(u)' = Reported(u)
        /\ \A u : NotAbove(u, best, candidate)' = NotAbove(u, best, candidate)
    BY DEF Reported, NotAbove, Wire
  <2>3. UpdatesRise'
    <3> SUFFICES ASSUME NEW i \in 1..n, NEW j \in 1..n, i < j
                 PROVE  /\ Received'[i].used <= Received'[j].used
                        /\ Received'[i].best <= Received'[j].best
                        /\ Received'[i].candidate # Received'[j].candidate =>
                             \E x \in Reported(Received'[i]), y \in Reported(Received'[j]) :
                               x < y
      BY <1>4, <2>2 DEF UpdatesRise
    <3>1. i + 1 < j + 1 /\ i + 1 \in DOMAIN Received /\ j + 1 \in DOMAIN Received
      BY <1>1, <2>1
    <3>2. /\ Received[i + 1].used <= Received[j + 1].used
          /\ Received[i + 1].best <= Received[j + 1].best
          /\ Received[i + 1].candidate # Received[j + 1].candidate =>
               \E x \in Reported(Received[i + 1]), y \in Reported(Received[j + 1]) : x < y
      BY <3>1 DEF PastInv, UpdatesRise
    <3> QED BY <1>4, <3>2
  <2>4. ASSUME NEW i \in 1..n
        PROVE  Received'[i].used <= evalsUsed /\ NotAbove(Received'[i], best, candidate)
    <3>1. Received[i + 1].used <= evalsUsed /\ NotAbove(Received[i + 1], best, candidate)
      BY <2>1 DEF PastInv
    <3> QED BY <1>4, <3>1
  <2> QED BY <1>4, <2>3, <2>4, <2>2 DEF PastInv
<1>8. SeenInv'
  BY DEF SeenInv
<1> QED BY <1>3, <1>6, <1>7, <1>8

LEMMA NextInv == Inv /\ [Next]_vars => Inv'
<1> SUFFICES ASSUME Inv, [Next]_vars PROVE Inv'
  OBVIOUS
<1> USE DEF Inv, NegInf, NaN
<1>1. /\ DOMAIN Received = 1..(Len(updates) + 1)
      /\ \A i \in DOMAIN Received : Received[i] \in AnyUpdate
  BY ReceivedElements
<1>2. ASSUME UNCHANGED <<heard, updates>> PROVE Received' = Received
  BY <1>2 DEF Received
<1>3. ASSUME NEW used \in 1..MaxCalls, OnBudgetUpdated(used) PROVE Inv'
  <2>1. used \in Nat /\ used > evalsUsed
    BY <1>3, ProgressBounds DEF OnBudgetUpdated, CallbackInv
  <2>2. CallbackInv'
    BY <1>3, <2>1 DEF OnBudgetUpdated, CallbackInv
  <2>3. RecordInv'
    BY <1>2, <1>3 DEF OnBudgetUpdated, RecordInv, StatusNotBehind
  <2>4. PastInv'
    <3>1. \A i \in DOMAIN Received : Received[i].used <= used
      BY <1>1, <2>1 DEF PastInv, CallbackInv, AnyUpdate
    <3>2. UNCHANGED <<best, candidate, updates, heard, seen>> /\ evalsUsed' = used
      BY <1>3 DEF OnBudgetUpdated
    <3> QED BY <1>2, <3>1, <3>2, NotAboveStays, RisingStays DEF PastInv, NotAbove
  <2>5. SeenInv'
    BY <1>3 DEF OnBudgetUpdated, SeenInv
  <2> QED BY <2>2, <2>3, <2>4, <2>5
<1>4. CASE WriteStatus
  <2>1. CallbackInv'
    BY <1>4 DEF WriteStatus, CallbackInv
  <2>2. RecordInv'
    BY <1>2, <1>4 DEF WriteStatus, RecordInv, StatusNotBehind, PastInv, CallbackInv
  <2>3. PastInv'
    <3>1. UNCHANGED <<best, candidate, evalsUsed, updates, heard, seen>>
      BY <1>4 DEF WriteStatus
    <3> QED BY <1>2, <3>1, NotAboveStays, RisingStays DEF PastInv, NotAbove
  <2>4. SeenInv'
    BY <1>4 DEF WriteStatus, SeenInv
  <2> QED BY <2>1, <2>2, <2>3, <2>4
<1>5. ASSUME NEW avg \in Averages, NEW c \in Candidates, OnValsetEvaluated(avg, c)
      PROVE  Inv'
  <2>1. avg \in Int /\ best \in Int /\ (avg > best => avg \in 0..MaxScore)
    BY ProgressBounds DEF Averages, CallbackInv
  <2>2. CASE Above(avg, best)
    <3>1. /\ avg > best /\ best' = avg /\ candidate' = c /\ pc' = "emit" /\ pc = "idle"
          /\ seen' = seen \cup {<<avg, c>>}
          /\ UNCHANGED <<evalsUsed, metricCalls, updates, heard, budget>>
      BY <1>5, <2>2 DEF OnValsetEvaluated, Above, Improve
    <3>2. CallbackInv'
      BY <2>1, <3>1 DEF CallbackInv
    <3>3. RecordInv'
      BY <1>2, <3>1 DEF RecordInv, StatusNotBehind
    <3>4. PastInv'
      <4>1. avg \in 0..MaxScore /\ best < avg /\ best \in {NegInf} \cup 0..MaxScore
        BY <2>1, <3>1 DEF CallbackInv
      <4>2. seen \subseteq seen'
        BY <3>1
      <4>3. ASSUME NEW i \in DOMAIN Received PROVE NotAbove(Received[i], avg, c)'
        <5>1. Received[i] \in AnyUpdate /\ NotAbove(Received[i], best, candidate)
          BY <1>1 DEF PastInv
        <5>2. PICK u : u = Received[i]
          OBVIOUS
        <5>3. NotAbove(u, avg, c)'
          BY <4>1, <4>2, <5>1, <5>2, NotAboveRises
        <5> QED BY <1>2, <3>1, <5>2, <5>3 DEF NotAbove
      <4> QED BY <1>2, <3>1, <4>2, <4>3, RisingStays DEF PastInv, NotAbove
    <3>5. SeenInv'
      BY <3>1 DEF SeenInv
    <3> QED BY <3>2, <3>3, <3>4, <3>5
  <2>3. CASE ~Above(avg, best)
    <3>1. /\ seen \subseteq seen'
          /\ UNCHANGED <<pc, best, candidate, evalsUsed, metricCalls, updates, heard, budget>>
      BY <1>5, <2>3 DEF OnValsetEvaluated
    <3>2. CallbackInv'
      BY <3>1 DEF CallbackInv
    <3>3. RecordInv'
      BY <1>2, <3>1 DEF RecordInv, StatusNotBehind
    <3>4. PastInv'
      BY <1>2, <3>1, NotAboveStays, RisingStays DEF PastInv, NotAbove
    <3>5. SeenInv'
      BY <3>1 DEF SeenInv
    <3> QED BY <3>2, <3>3, <3>4, <3>5
  <2> QED BY <2>2, <2>3
<1>6. CASE Emit
  BY <1>6, EmitKeepsInv
<1>7. CASE Receive
  BY <1>7, ReceiveKeepsInv
<1>8. CASE Resume
  BY <1>8, FreshInv DEF Resume, CallbackInv
<1>9. CASE UNCHANGED vars
  <2>1. UNCHANGED <<pc, best, candidate, evalsUsed, metricCalls, updates, heard, seen, budget>>
    BY <1>9 DEF vars, callback
  <2>2. CallbackInv' /\ SeenInv'
    BY <2>1 DEF CallbackInv, SeenInv
  <2>3. RecordInv' /\ PastInv'
    BY <1>2, <2>1, NotAboveStays, RisingStays DEF RecordInv, StatusNotBehind, PastInv, NotAbove
  <2> QED BY <2>2, <2>3
<1> QED BY <1>3, <1>4, <1>5, <1>6, <1>7, <1>8, <1>9 DEF Next

\* The updates of a stream never fall back, over any number of resumptions and
\* however the wire rounds, and name a new candidate only if it was better.
THEOREM UpdatesNeverFall == Spec => []UpdatesRise
<1>1. Inv => UpdatesRise
  BY DEF Inv, PastInv
<1> QED BY InitInv, NextInv, <1>1, PTL DEF Spec

\* The candidate an update names was evaluated, on this stream, to a score that
\* is the reported one on the wire.
THEOREM ReportedBestWasSeen == Spec => []BestWasSeen
<1>1. Inv => BestWasSeen
  <2> SUFFICES ASSUME Inv, NEW i \in DOMAIN updates PROVE Reported(updates[i]) # {}
    BY DEF BestWasSeen
  <2>1. /\ DOMAIN Received = 1..(Len(updates) + 1) /\ Len(updates) \in Nat
        /\ \A k \in 1..Len(updates) : Received[k + 1] = updates[k]
    BY ReceivedElements DEF Inv
  <2>2. DOMAIN updates = 1..Len(updates)
    BY LenProperties DEF Inv, CallbackInv
  <2>3. i + 1 \in DOMAIN Received /\ Received[i + 1] = updates[i]
    BY <2>1, <2>2
  <2>4. \E x : x \in Reported(Received[i + 1])
    BY <2>3 DEF Inv, PastInv, NotAbove
  <2> QED BY <2>3, <2>4
<1> QED BY InitInv, NextInv, <1>1, PTL DEF Spec

\* GetStatus never reports fewer metric calls than an update that is under way
\* or received.
THEOREM StatusKeepsUp == Spec => []StatusNotBehind
<1>1. Inv => StatusNotBehind
  BY DEF Inv, RecordInv
<1> QED BY InitInv, NextInv, <1>1, PTL DEF Spec

===============================================================================
