---------------------------- MODULE OmniBatchProofs ----------------------------
(***************************************************************************)
(* Proofs about OmniBatch, for batches of any length, any candidates and   *)
(* examples.  The grouping loop is a state machine, so that what it        *)
(* computes is an invariant of its rounds; each request is made of one     *)
(* group, and everything else follows from what the groups are.            *)
(***************************************************************************)
EXTENDS OmniBatch, SequenceTheorems, TLAPS

TypeInv ==
  /\ pc \in {"idle", "group", "next", "await", "returned", "raised"}
  /\ pairs \in Seq(Pairs)
  /\ history \in {"none", "image"} \cup Forms
  /\ taken \in 0..Len(pairs)
  /\ groups \in Seq(Group)
  /\ cancelled \in BOOLEAN

\* A group holds indices of its own text, in the order of the batch.
GroupInv ==
  \A g \in DOMAIN groups : \A k \in DOMAIN groups[g].indices :
    /\ groups[g].indices[k] \in k..taken
    /\ TextOf(groups[g].indices[k]) = groups[g].candidate
    /\ \A l \in 1..(k - 1) : groups[g].indices[l] < groups[g].indices[k]

\* The groups share out what the loop has taken.
SharedOut ==
  /\ \A g, h \in DOMAIN groups : groups[g].candidate = groups[h].candidate => g = h
  /\ \A i \in 1..taken :
       \E g \in DOMAIN groups : \E k \in DOMAIN groups[g].indices : groups[g].indices[k] = i

\* The request that a group becomes.
RequestOf(g) ==
  [candidate |-> groups[g].candidate,
   indices |-> groups[g].indices,
   batch |-> [k \in DOMAIN groups[g].indices |->
                ExampleToProto(pairs[groups[g].indices[k]].example)],
   states |-> IF history = "none" THEN <<>> ELSE States(groups[g].indices)]

\* The requests are those of the first groups.
RequestInv ==
  /\ Sent \in 0..Len(groups)
  /\ requests = [n \in 1..Sent |-> RequestOf(n)]

\* How far the call is.
PcInv ==
  /\ pc \in {"idle", "group"} => Sent = 0
  /\ pc = "idle" => taken = 0 /\ groups = <<>>
  /\ pc = "group" => taken < Len(pairs)
  /\ pc \in {"next", "await", "returned"} => taken = Len(pairs)
  /\ pc = "await" => Sent > 0
  /\ pc = "returned" => Sent = Len(groups)

Answers == IF pc = "await" THEN Sent - 1 ELSE Sent

\* The place of a pair holds what evaluating it alone would give.
AsAlone(i) ==
  LET msg == ExampleToProto(pairs[i].example) IN
  /\ results[i].score = Score(TextOf(i), msg)
  /\ results[i].side_info \in {Loads(SideInfo(form, TextOf(i), msg)) : form \in Forms}

ResultInv ==
  /\ DOMAIN results = 1..Len(pairs)
  /\ pc # "raised" =>
       \A g \in 1..Answers : \A k \in DOMAIN groups[g].indices :
         AsAlone(groups[g].indices[k])

BatchInv == TypeInv /\ GroupInv /\ SharedOut /\ RequestInv /\ PcInv /\ ResultInv

-------------------------------------------------------------------------------
\* The values a pair and a sequence of groups have.
LEMMA PairFacts ==
  ASSUME TypeInv
  PROVE  /\ Len(pairs) \in Nat /\ DOMAIN pairs = 1..Len(pairs)
         /\ \A i \in 1..Len(pairs) : TextOf(i) \in Texts
         /\ Len(groups) \in Nat /\ DOMAIN groups = 1..Len(groups)
         /\ \A g \in DOMAIN groups :
              /\ groups[g] = [candidate |-> groups[g].candidate, indices |-> groups[g].indices]
              /\ groups[g].candidate \in Texts
              /\ groups[g].indices \in Seq(Nat)
              /\ Len(groups[g].indices) \in Nat
              /\ DOMAIN groups[g].indices = 1..Len(groups[g].indices)
<1>1. pairs \in Seq(Pairs) /\ groups \in Seq(Group)
  BY DEF TypeInv
<1>2. /\ Len(pairs) \in Nat /\ DOMAIN pairs = 1..Len(pairs)
      /\ \A i \in 1..Len(pairs) : pairs[i] \in Pairs
  BY <1>1, LenProperties, ElementOfSeq
<1>3. /\ Len(groups) \in Nat /\ DOMAIN groups = 1..Len(groups)
      /\ \A g \in DOMAIN groups : groups[g] \in Group
  BY <1>1, LenProperties, ElementOfSeq
<1>4. \A i \in 1..Len(pairs) : TextOf(i) \in Texts
  BY <1>2 DEF TextOf, Texts, Pairs
<1>5. ASSUME NEW g \in DOMAIN groups
      PROVE  /\ groups[g] = [candidate |-> groups[g].candidate, indices |-> groups[g].indices]
             /\ groups[g].candidate \in Texts
             /\ groups[g].indices \in Seq(Nat)
             /\ Len(groups[g].indices) \in Nat
             /\ DOMAIN groups[g].indices = 1..Len(groups[g].indices)
  <2>1. groups[g] \in [candidate : Texts, indices : Seq(Nat)]
    BY <1>3 DEF Group
  <2>2. groups[g].indices \in Seq(Nat)
    BY <2>1
  <2> QED BY <2>1, <2>2, LenProperties
<1> QED BY <1>2, <1>3, <1>4, <1>5

LEMMA InitBatchInv == Init => BatchInv
<1> SUFFICES ASSUME Init PROVE BatchInv
  OBVIOUS
<1>1. /\ pairs = <<>> /\ groups = <<>> /\ requests = <<>> /\ results = <<>>
      /\ taken = 0 /\ pc = "idle" /\ history = "none" /\ cancelled = FALSE
  BY DEF Init
<1>2. Len(<<>>) = 0 /\ DOMAIN <<>> = 1..0 /\ 1..0 = {}
  OBVIOUS
<1>3. TypeInv
  <2>1. pairs \in Seq(Pairs) /\ groups \in Seq(Group) /\ Len(pairs) = 0
    BY <1>1, EmptySeq
  <2>2. taken \in 0..Len(pairs) /\ history \in {"none", "image"} \cup Forms
    BY <1>1, <2>1
  <2> QED BY <1>1, <2>1, <2>2 DEF TypeInv
<1>4. GroupInv /\ SharedOut /\ PcInv
  BY <1>1, <1>2 DEF GroupInv, SharedOut, PcInv, Sent
<1>5. RequestInv
  BY <1>1, <1>2 DEF RequestInv, Sent
<1>6. ResultInv
  BY <1>1, <1>2 DEF ResultInv, Answers, Sent
<1> QED BY <1>3, <1>4, <1>5, <1>6 DEF BatchInv

LEMMA CallKeepsBatchInv ==
  ASSUME BatchInv, NEW n \in 0..MaxPairs, NEW ps \in [1..n -> Pairs],
         NEW held \in {"none", "image"} \cup Forms, Call(ps, held)
  PROVE  BatchInv'
<1>1. /\ pc = "idle" /\ taken = 0 /\ groups = <<>> /\ Sent = 0
      /\ UNCHANGED <<taken, groups, requests, cancelled>>
      /\ pairs' = ps /\ history' = held
      /\ pc' = IF ps = <<>> THEN "returned" ELSE "group"
      /\ results' = [i \in 1..Len(ps) |-> [score |-> Zero, side_info |-> EmptyDict]]
  BY DEF Call, BatchInv, PcInv
<1>2. n \in Nat /\ ps \in Seq(Pairs) /\ Len(ps) = n
  <2>1. n \in Nat
    BY MaxPairsAssumption
  <2>2. ps \in Seq(Pairs)
    BY <2>1, SeqDef
  <2> QED BY <2>1, <2>2, LenProperties
<1>3. ps = <<>> <=> n = 0
  BY <1>2, EmptySeq
<1>4. Len(<<>>) = 0 /\ DOMAIN <<>> = 1..0 /\ 1..0 = {}
  OBVIOUS
<1>5. TypeInv'
  BY <1>1, <1>2 DEF TypeInv, BatchInv
<1>6. GroupInv' /\ SharedOut'
  BY <1>1, <1>4 DEF GroupInv, SharedOut
<1>7. Sent' = 0
  BY <1>1 DEF Sent
<1>8. RequestInv'
  <2>1. requests = [g \in 1..0 |-> RequestOf(g)]
    BY <1>1 DEF BatchInv, RequestInv
  <2>2. requests' = [g \in 1..0 |-> RequestOf(g)']
    BY <1>1, <1>4, <2>1
  <2> QED BY <1>1, <1>4, <1>7, <2>2 DEF RequestInv
<1>9. PcInv'
  BY <1>1, <1>2, <1>3, <1>4, <1>7 DEF PcInv
<1>10. ResultInv'
  BY <1>1, <1>2, <1>4, <1>7 DEF ResultInv, Answers
<1> QED BY <1>5, <1>6, <1>8, <1>9, <1>10 DEF BatchInv

\* One round of the loop puts the next index behind those of its group, or
\* opens a group for it.
LEMMA GroupPairFacts ==
  ASSUME BatchInv, GroupPair
  PROVE  /\ groups' \in Seq(Group)
         /\ Len(groups') >= Len(groups)
         /\ \E g \in DOMAIN groups' :
              /\ groups'[g].candidate = TextOf(taken + 1)
              /\ \A h \in DOMAIN groups' \ {g} :
                   h \in DOMAIN groups /\ groups'[h] = groups[h]
                   /\ groups[h].candidate # TextOf(taken + 1)
              /\ \/ /\ g \in DOMAIN groups
                    /\ groups[g].candidate = TextOf(taken + 1)
                    /\ groups'[g].indices = Append(groups[g].indices, taken + 1)
                 \/ g \notin DOMAIN groups /\ groups'[g].indices = <<taken + 1>>
<1> DEFINE i == taken + 1
<1>1. /\ TypeInv /\ i \in 1..Len(pairs) /\ i \in Nat /\ taken' = i
      /\ \/ \E g \in DOMAIN groups :
              HasKey(g, i) /\ groups' = [groups EXCEPT ![g].indices = Append(@, i)]
         \/ /\ \A g \in DOMAIN groups : ~HasKey(g, i)
            /\ groups' = Append(groups, [candidate |-> TextOf(i), indices |-> <<i>>])
  <2>1. TypeInv /\ taken < Len(pairs)
    BY DEF BatchInv, PcInv, GroupPair
  <2>2. taken' = i
    BY DEF GroupPair
  <2>3. i \in 1..Len(pairs) /\ i \in Nat
    BY <2>1, PairFacts DEF TypeInv
  <2> HIDE DEF i
  <2> QED BY <2>1, <2>2, <2>3 DEF GroupPair
<1>2. /\ groups \in Seq(Group) /\ Len(groups) \in Nat /\ DOMAIN groups = 1..Len(groups)
      /\ TextOf(i) \in Texts
  BY <1>1, PairFacts DEF TypeInv
<1>3. \A g \in DOMAIN groups :
        /\ groups[g] = [candidate |-> groups[g].candidate, indices |-> groups[g].indices]
        /\ groups[g].candidate \in Texts
        /\ groups[g].indices \in Seq(Nat)
  BY <1>1, PairFacts
<1> HIDE DEF i
<1>4. ASSUME NEW g \in DOMAIN groups, HasKey(g, i),
             groups' = [groups EXCEPT ![g].indices = Append(@, i)]
      PROVE  /\ groups' \in Seq(Group) /\ Len(groups') = Len(groups)
             /\ DOMAIN groups' = DOMAIN groups
             /\ groups'[g].candidate = TextOf(i)
             /\ groups'[g].indices = Append(groups[g].indices, i)
             /\ groups[g].candidate = TextOf(i)
             /\ \A h \in DOMAIN groups \ {g} : groups'[h] = groups[h]
  <2> DEFINE new == [candidate |-> groups[g].candidate,
                     indices |-> Append(groups[g].indices, i)]
  <2>1. groups' = [groups EXCEPT ![g] = new]
    <3>1. \A x : [groups[g] EXCEPT !.indices = x]
                 = [candidate |-> groups[g].candidate, indices |-> x]
      <4>1. ASSUME NEW c, NEW q, NEW x
            PROVE  [[candidate |-> c, indices |-> q] EXCEPT !.indices = x]
                   = [candidate |-> c, indices |-> x]
        OBVIOUS
      <4> QED BY <1>3, <4>1
    <3>2. groups' = [groups EXCEPT ![g] = [groups[g] EXCEPT !.indices = Append(@, i)]]
      BY <1>4
    <3> QED BY <3>1, <3>2
  <2>2. Append(groups[g].indices, i) \in Seq(Nat)
    BY <1>1, <1>3, AppendProperties
  <2>3. new \in Group
    BY <1>3, <2>2 DEF Group
  <2>4. new.candidate = TextOf(i) /\ new.indices = Append(groups[g].indices, i)
    BY <1>4 DEF HasKey
  <2> HIDE DEF new
  <2>5. groups' \in Seq(Group) /\ Len(groups') = Len(groups)
    BY <1>2, <2>1, <2>3, ExceptSeq
  <2>6. DOMAIN groups' = DOMAIN groups /\ groups'[g] = new
        /\ \A h \in DOMAIN groups \ {g} : groups'[h] = groups[h]
    BY <2>1
  <2> QED BY <1>4, <2>4, <2>5, <2>6 DEF HasKey
<1>5. ASSUME \A g \in DOMAIN groups : ~HasKey(g, i),
             groups' = Append(groups, [candidate |-> TextOf(i), indices |-> <<i>>])
      PROVE  /\ groups' \in Seq(Group) /\ Len(groups') = Len(groups) + 1
             /\ DOMAIN groups' = 1..(Len(groups) + 1)
             /\ groups'[Len(groups) + 1].candidate = TextOf(i)
             /\ groups'[Len(groups) + 1].indices = <<i>>
             /\ \A h \in DOMAIN groups : groups'[h] = groups[h]
  <2> DEFINE new == [candidate |-> TextOf(i), indices |-> <<i>>]
  <2>1. <<i>> \in Seq(Nat)
    BY <1>1
  <2>2. new \in Group /\ new.candidate = TextOf(i) /\ new.indices = <<i>>
    BY <1>2, <2>1 DEF Group
  <2> HIDE DEF new
  <2>3. groups' = Append(groups, new)
    BY <1>5 DEF new
  <2>4. /\ groups' \in Seq(Group) /\ Len(groups') = Len(groups) + 1
        /\ groups'[Len(groups) + 1] = new
        /\ \A h \in 1..Len(groups) : groups'[h] = groups[h]
    BY <1>2, <2>2, <2>3, AppendProperties
  <2> QED BY <1>2, <2>2, <2>4, LenProperties
<1>6. ASSUME NEW g \in DOMAIN groups, HasKey(g, i), NEW h \in DOMAIN groups \ {g}
      PROVE  groups[h].candidate # TextOf(i)
  BY <1>6 DEF HasKey, BatchInv, SharedOut
<1>7. CASE \E g \in DOMAIN groups :
             HasKey(g, i) /\ groups' = [groups EXCEPT ![g].indices = Append(@, i)]
  <2>1. PICK g \in DOMAIN groups :
               HasKey(g, i) /\ groups' = [groups EXCEPT ![g].indices = Append(@, i)]
    BY <1>7
  <2>2. /\ groups' \in Seq(Group) /\ Len(groups') = Len(groups)
        /\ DOMAIN groups' = DOMAIN groups
        /\ groups'[g].candidate = TextOf(i)
        /\ groups'[g].indices = Append(groups[g].indices, i)
        /\ groups[g].candidate = TextOf(i)
        /\ \A h \in DOMAIN groups \ {g} : groups'[h] = groups[h]
    BY <1>4, <2>1
  <2>3. \A h \in DOMAIN groups \ {g} : groups[h].candidate # TextOf(i)
    BY <1>6, <2>1
  <2> QED BY <1>2, <2>2, <2>3 DEF i
<1>8. CASE /\ \A g \in DOMAIN groups : ~HasKey(g, i)
           /\ groups' = Append(groups, [candidate |-> TextOf(i), indices |-> <<i>>])
  <2>1. Len(groups) + 1 \in DOMAIN groups' /\ Len(groups) + 1 \notin DOMAIN groups
        /\ DOMAIN groups' \ {Len(groups) + 1} = DOMAIN groups
    BY <1>2, <1>5, <1>8
  <2>2. \A h \in DOMAIN groups : groups[h].candidate # TextOf(i)
    BY <1>8 DEF HasKey
  <2> QED BY <1>2, <1>5, <1>8, <2>1, <2>2 DEF i
<1> QED BY <1>1, <1>7, <1>8

LEMMA GroupPairKeepsBatchInv ==
  ASSUME BatchInv, GroupPair
  PROVE  BatchInv'
<1>1. /\ TypeInv /\ taken \in Nat /\ taken < Len(pairs) /\ Len(pairs) \in Nat
      /\ Sent = 0
      /\ taken' = taken + 1
      /\ pc' = IF taken + 1 = Len(pairs) THEN "next" ELSE "group"
      /\ UNCHANGED <<pairs, history, requests, results, cancelled>>
  BY PairFacts DEF BatchInv, PcInv, GroupPair, TypeInv
<1>2. groups' \in Seq(Group) /\ Len(groups') >= Len(groups)
  BY GroupPairFacts
<1>3. PICK g \in DOMAIN groups' :
        /\ groups'[g].candidate = TextOf(taken + 1)
        /\ \A h \in DOMAIN groups' \ {g} :
             h \in DOMAIN groups /\ groups'[h] = groups[h]
             /\ groups[h].candidate # TextOf(taken + 1)
        /\ \/ /\ g \in DOMAIN groups
              /\ groups[g].candidate = TextOf(taken + 1)
              /\ groups'[g].indices = Append(groups[g].indices, taken + 1)
           \/ g \notin DOMAIN groups /\ groups'[g].indices = <<taken + 1>>
  BY GroupPairFacts
<1>4. TypeInv'
  BY <1>1, <1>2 DEF TypeInv
<1>5. \A i : TextOf(i)' = TextOf(i)
  BY <1>1 DEF TextOf
<1>6. /\ Len(groups) \in Nat /\ DOMAIN groups = 1..Len(groups)
      /\ \A h \in DOMAIN groups :
           /\ groups[h].indices \in Seq(Nat)
           /\ Len(groups[h].indices) \in Nat
           /\ DOMAIN groups[h].indices = 1..Len(groups[h].indices)
  BY <1>1, PairFacts
<1>7. /\ Len(groups') \in Nat /\ DOMAIN groups' = 1..Len(groups')
  BY <1>2, LenProperties
<1>8. DOMAIN groups \subseteq DOMAIN groups'
  BY <1>2, <1>6, <1>7
<1>9. \A h \in DOMAIN groups : \A k \in DOMAIN groups[h].indices :
        /\ groups[h].indices[k] \in k..taken
        /\ TextOf(groups[h].indices[k]) = groups[h].candidate
        /\ \A l \in 1..(k - 1) : groups[h].indices[l] < groups[h].indices[k]
  BY DEF BatchInv, GroupInv
<1>10. \/ /\ g \in DOMAIN groups
          /\ groups[g].candidate = TextOf(taken + 1)
          /\ DOMAIN groups'[g].indices = 1..(Len(groups[g].indices) + 1)
          /\ groups'[g].indices[Len(groups[g].indices) + 1] = taken + 1
          /\ \A k \in 1..Len(groups[g].indices) : groups'[g].indices[k] = groups[g].indices[k]
       \/ /\ g \notin DOMAIN groups
          /\ DOMAIN groups'[g].indices = 1..1
          /\ groups'[g].indices[1] = taken + 1
  <2>1. ASSUME g \in DOMAIN groups,
               groups'[g].indices = Append(groups[g].indices, taken + 1)
        PROVE  /\ DOMAIN groups'[g].indices = 1..(Len(groups[g].indices) + 1)
               /\ groups'[g].indices[Len(groups[g].indices) + 1] = taken + 1
               /\ \A k \in 1..Len(groups[g].indices) :
                    groups'[g].indices[k] = groups[g].indices[k]
    <3>1. groups[g].indices \in Seq(Nat) /\ taken + 1 \in Nat
      BY <1>1, <1>6, <2>1
    <3>2. /\ groups'[g].indices \in Seq(Nat)
          /\ Len(groups'[g].indices) = Len(groups[g].indices) + 1
          /\ groups'[g].indices[Len(groups[g].indices) + 1] = taken + 1
          /\ \A k \in 1..Len(groups[g].indices) : groups'[g].indices[k] = groups[g].indices[k]
      BY <2>1, <3>1, AppendProperties
    <3> QED BY <3>2, LenProperties
  <2>2. ASSUME groups'[g].indices = <<taken + 1>>
        PROVE  DOMAIN groups'[g].indices = 1..1 /\ groups'[g].indices[1] = taken + 1
    BY <2>2
  <2> QED BY <1>3, <2>1, <2>2
<1>11. \A k \in DOMAIN groups'[g].indices :
         /\ groups'[g].indices[k] \in k..(taken + 1)
         /\ TextOf(groups'[g].indices[k]) = TextOf(taken + 1)
         /\ \A l \in 1..(k - 1) : groups'[g].indices[l] < groups'[g].indices[k]
  <2>1. CASE g \notin DOMAIN groups
    <3>1. DOMAIN groups'[g].indices = 1..1 /\ groups'[g].indices[1] = taken + 1
      BY <1>10, <2>1
    <3> QED BY <1>1, <3>1
  <2>2. CASE g \in DOMAIN groups
    <3> DEFINE n == Len(groups[g].indices)
    <3>1. /\ n \in Nat /\ DOMAIN groups[g].indices = 1..n
          /\ groups[g].candidate = TextOf(taken + 1)
          /\ DOMAIN groups'[g].indices = 1..(n + 1)
          /\ groups'[g].indices[n + 1] = taken + 1
          /\ \A k \in 1..n : groups'[g].indices[k] = groups[g].indices[k]
      BY <1>6, <1>10, <2>2
    <3>2. \A k \in 1..n :
            /\ groups[g].indices[k] \in k..taken
            /\ TextOf(groups[g].indices[k]) = TextOf(taken + 1)
            /\ \A l \in 1..(k - 1) : groups[g].indices[l] < groups[g].indices[k]
      BY <1>9, <2>2, <3>1
    <3>3. n <= taken
      <4>1. CASE n = 0
        BY <1>1, <4>1
      <4>2. CASE n # 0
        <5>1. n \in 1..n /\ groups[g].indices[n] \in n..taken
          BY <3>1, <3>2, <4>2
        <5> QED BY <1>1, <3>1, <5>1
      <4> QED BY <4>1, <4>2
    <3> HIDE DEF n
    <3>4. ASSUME NEW k \in 1..n
          PROVE  /\ groups'[g].indices[k] \in k..(taken + 1)
                 /\ TextOf(groups'[g].indices[k]) = TextOf(taken + 1)
                 /\ \A l \in 1..(k - 1) : groups'[g].indices[l] < groups'[g].indices[k]
      <4>1. groups'[g].indices[k] = groups[g].indices[k] /\ groups[g].indices[k] \in k..taken
        BY <3>1, <3>2
      <4>2. \A l \in 1..(k - 1) : groups'[g].indices[l] < groups'[g].indices[k]
        <5>1. \A l \in 1..(k - 1) : l \in 1..n
          BY <3>1
        <5>2. \A l \in 1..(k - 1) : groups'[g].indices[l] = groups[g].indices[l]
          BY <3>1, <5>1
        <5>3. \A l \in 1..(k - 1) : groups[g].indices[l] < groups[g].indices[k]
          BY <3>2
        <5> QED BY <4>1, <5>2, <5>3
      <4>3. k..taken \subseteq k..(taken + 1)
        BY <1>1, <3>1
      <4>4. TextOf(groups[g].indices[k]) = TextOf(taken + 1)
        BY <3>2
      <4> QED BY <4>1, <4>2, <4>3, <4>4
    <3>5. /\ groups'[g].indices[n + 1] \in (n + 1)..(taken + 1)
          /\ TextOf(groups'[g].indices[n + 1]) = TextOf(taken + 1)
          /\ \A l \in 1..n : groups'[g].indices[l] < groups'[g].indices[n + 1]
      BY <1>1, <3>1, <3>2, <3>3
    <3> QED BY <3>1, <3>4, <3>5
  <2> QED BY <2>1, <2>2
<1>12. GroupInv'
  <2> SUFFICES ASSUME NEW h \in DOMAIN groups', NEW k \in DOMAIN groups'[h].indices
               PROVE  /\ groups'[h].indices[k] \in k..(taken + 1)
                      /\ TextOf(groups'[h].indices[k]) = groups'[h].candidate
                      /\ \A l \in 1..(k - 1) : groups'[h].indices[l] < groups'[h].indices[k]
    BY <1>1, <1>5 DEF GroupInv
  <2>1. CASE h = g
    BY <1>3, <1>11, <2>1
  <2>2. CASE h # g
    <3>1. h \in DOMAIN groups /\ groups'[h] = groups[h]
      BY <1>3, <2>2
    <3>2. k \in Nat
      BY <1>6, <3>1
    <3> QED BY <1>1, <1>9, <3>1, <3>2
  <2> QED BY <2>1, <2>2
<1>13. SharedOut'
  <2>1. ASSUME NEW h \in DOMAIN groups', NEW m \in DOMAIN groups',
               groups'[h].candidate = groups'[m].candidate
        PROVE  h = m
    BY <1>3, <2>1 DEF BatchInv, SharedOut
  <2>2. ASSUME NEW i \in 1..(taken + 1)
        PROVE  \E h \in DOMAIN groups' : \E k \in DOMAIN groups'[h].indices :
                 groups'[h].indices[k] = i
    <3>1. CASE i = taken + 1
      BY <1>6, <1>10, <3>1
    <3>2. CASE i # taken + 1
      <4>1. i \in 1..taken
        BY <1>1, <3>2
      <4>2. PICK h \in DOMAIN groups : \E k \in DOMAIN groups[h].indices :
                   groups[h].indices[k] = i
        BY <4>1 DEF BatchInv, SharedOut
      <4>3. CASE h # g
        BY <1>3, <1>8, <4>2, <4>3
      <4>4. CASE h = g
        <5>1. PICK k \in 1..Len(groups[g].indices) : groups[g].indices[k] = i
          BY <1>6, <4>2, <4>4
        <5>2. k \in DOMAIN groups'[g].indices /\ groups'[g].indices[k] = i
          BY <1>6, <1>10, <4>4, <5>1
        <5> QED BY <5>2
      <4> QED BY <4>3, <4>4
    <3> QED BY <3>1, <3>2
  <2> QED BY <1>1, <2>1, <2>2 DEF SharedOut
<1>14. Sent' = 0
  BY <1>1 DEF Sent
<1>15. RequestInv'
  <2>1. requests = [n \in 1..0 |-> RequestOf(n)]
    BY <1>1 DEF BatchInv, RequestInv
  <2>2. requests' = [n \in 1..0 |-> RequestOf(n)']
    BY <1>1, <2>1
  <2> QED BY <1>7, <1>14, <2>2 DEF RequestInv
<1>16. PcInv'
  BY <1>1, <1>14 DEF PcInv
<1>17. ResultInv'
  BY <1>1, <1>14 DEF ResultInv, Answers, BatchInv
<1> QED BY <1>4, <1>12, <1>13, <1>15, <1>16, <1>17 DEF BatchInv

\* The request that is sent is made of the first group that is left.
LEMMA SendGroupKeepsBatchInv ==
  ASSUME BatchInv, SendGroup
  PROVE  BatchInv'
<1>1. /\ pc = "next" /\ Sent < Len(groups) /\ pc' = "await"
      /\ requests' = Append(requests, RequestOf(Sent + 1))
      /\ UNCHANGED <<pairs, history, taken, groups, results, cancelled>>
  BY DEF SendGroup, RequestOf
<1>2. /\ Sent \in Nat /\ Len(groups) \in Nat /\ DOMAIN groups = 1..Len(groups)
      /\ requests = [n \in 1..Sent |-> RequestOf(n)]
  BY PairFacts DEF BatchInv, RequestInv
<1>3. /\ Sent' = Sent + 1
      /\ requests' = [n \in 1..(Sent + 1) |-> RequestOf(n)]
  <2> DEFINE R == {RequestOf(g) : g \in DOMAIN groups}
  <2>1. RequestOf(Sent + 1) \in R /\ \A n \in 1..Sent : RequestOf(n) \in R
    BY <1>1, <1>2
  <2>2. requests \in [1..Sent -> R]
    BY <1>2, <2>1
  <2> HIDE DEF R
  <2>3. requests \in Seq(R)
    BY <1>2, <2>2, SeqDef
  <2>4. /\ requests' \in Seq(R) /\ Len(requests') = Len(requests) + 1
        /\ requests'[Len(requests) + 1] = RequestOf(Sent + 1)
        /\ \A n \in 1..Len(requests) : requests'[n] = requests[n]
    BY <1>1, <2>1, <2>3, AppendProperties
  <2>5. Sent = Len(requests) /\ Sent' = Len(requests')
    BY DEF Sent
  <2>6. requests' \in [1..(Sent + 1) -> R]
    BY <2>4, <2>5, LenProperties
  <2>7. ASSUME NEW n \in 1..(Sent + 1) PROVE requests'[n] = RequestOf(n)
    <3>1. CASE n \in 1..Sent
      <4>1. requests[n] = RequestOf(n)
        BY <1>2, <3>1
      <4> QED BY <2>4, <2>5, <3>1, <4>1
    <3>2. CASE n = Sent + 1
      BY <2>4, <2>5, <3>2
    <3> QED BY <1>2, <3>1, <3>2
  <2> QED BY <2>5, <2>6, <2>7
<1>4. TypeInv' /\ GroupInv' /\ SharedOut'
  BY <1>1 DEF BatchInv, TypeInv, GroupInv, SharedOut, TextOf
<1>5. \A n : RequestOf(n)' = RequestOf(n)
  BY <1>1 DEF RequestOf, States, StateOf, Answered, TextOf
<1>6. RequestInv'
  <2>1. Sent + 1 \in 0..Len(groups)
    BY <1>1, <1>2
  <2>2. requests' = [n \in 1..(Sent + 1) |-> RequestOf(n)']
    BY <1>3, <1>5
  <2> QED BY <1>1, <1>3, <2>1, <2>2 DEF RequestInv
<1>7. PcInv'
  BY <1>1, <1>2, <1>3 DEF PcInv, BatchInv
<1>8. ResultInv'
  <2>1. Answers' = Answers
    BY <1>1, <1>2, <1>3 DEF Answers
  <2>2. \A i : AsAlone(i)' = AsAlone(i)
    BY <1>1 DEF AsAlone, TextOf
  <2> QED BY <1>1, <2>1, <2>2 DEF ResultInv, BatchInv
<1> QED BY <1>4, <1>6, <1>7, <1>8 DEF BatchInv

\* The last request, and what its batch says of its pairs.
LEMMA RequestFacts ==
  ASSUME BatchInv, pc = "await"
  PROVE  /\ Sent \in DOMAIN groups
         /\ Request = RequestOf(Sent)
         /\ Request.candidate = groups[Sent].candidate
         /\ Request.indices = groups[Sent].indices
         /\ DOMAIN Request.batch = DOMAIN groups[Sent].indices
         /\ \A k \in DOMAIN groups[Sent].indices :
              Request.batch[k] = ExampleToProto(pairs[groups[Sent].indices[k]].example)
<1>1. /\ Sent \in 1..Len(groups) /\ Len(groups) \in Nat /\ DOMAIN groups = 1..Len(groups)
      /\ requests = [n \in 1..Sent |-> RequestOf(n)]
  BY PairFacts DEF BatchInv, RequestInv, PcInv
<1>2. Request = RequestOf(Sent)
  BY <1>1 DEF Request, Last, Sent
<1> QED BY <1>1, <1>2 DEF RequestOf

\* The scores of a group land in the places of its pairs, and nowhere else.
LEMMA TakeScoresKeepsBatchInv ==
  ASSUME BatchInv, TakeScores
  PROVE  BatchInv'
<1>1. /\ pc = "await" /\ pc' = "next"
      /\ UNCHANGED <<pairs, history, taken, groups, requests, cancelled>>
  BY DEF TakeScores
<1>2. /\ Sent \in DOMAIN groups /\ Sent \in Nat
      /\ Request.candidate = groups[Sent].candidate
      /\ Request.indices = groups[Sent].indices
      /\ DOMAIN Request.batch = DOMAIN groups[Sent].indices
      /\ \A k \in DOMAIN groups[Sent].indices :
           Request.batch[k] = ExampleToProto(pairs[groups[Sent].indices[k]].example)
  BY <1>1, RequestFacts DEF BatchInv, RequestInv
<1>3. PICK forms \in [DOMAIN Request.batch -> Forms] :
        results' = [i \in DOMAIN results |->
          IF \E k \in DOMAIN Request.batch : Scatter(k) = i
          THEN LET k == CHOOSE k \in DOMAIN Request.batch : Scatter(k) = i IN
               [score |-> Score(Request.candidate, Request.batch[k]),
                side_info |-> Loads(SideInfo(forms[k], Request.candidate, Request.batch[k]))]
          ELSE results[i]]
  BY DEF TakeScores
<1>4. TypeInv' /\ GroupInv' /\ SharedOut' /\ Sent' = Sent
  BY <1>1 DEF BatchInv, TypeInv, GroupInv, SharedOut, TextOf, Sent
<1>5. RequestInv'
  <2>1. \A n : RequestOf(n)' = RequestOf(n)
    BY <1>1 DEF RequestOf, States, StateOf, Answered, TextOf
  <2> QED BY <1>1, <1>4, <2>1 DEF RequestInv, BatchInv
<1>6. PcInv'
  BY <1>1, <1>4 DEF PcInv, BatchInv
<1>7. /\ GroupInv /\ SharedOut /\ Len(pairs) \in Nat /\ taken = Len(pairs)
      /\ DOMAIN groups = 1..Len(groups) /\ Len(groups) \in Nat
      /\ DOMAIN results = 1..Len(pairs)
      /\ \A g \in DOMAIN groups : DOMAIN groups[g].indices = 1..Len(groups[g].indices)
      /\ \A g \in 1..(Sent - 1) : \A k \in DOMAIN groups[g].indices :
           AsAlone(groups[g].indices[k])
  BY <1>1, PairFacts DEF BatchInv, PcInv, ResultInv, Answers
<1>8. \A g \in DOMAIN groups : \A k \in DOMAIN groups[g].indices :
        /\ groups[g].indices[k] \in DOMAIN results
        /\ TextOf(groups[g].indices[k]) = groups[g].candidate
  BY <1>7 DEF GroupInv
<1>9. ASSUME NEW k \in DOMAIN groups[Sent].indices, NEW i, i = groups[Sent].indices[k]
      PROVE  AsAlone(i)'
  <2> DEFINE l == CHOOSE l \in DOMAIN Request.batch : Scatter(l) = i
  <2>1. k \in DOMAIN Request.batch /\ Scatter(k) = i
    BY <1>2, <1>9 DEF Scatter
  <2>2. l \in DOMAIN Request.batch /\ Scatter(l) = i
    BY <2>1
  <2>3. /\ i \in DOMAIN results
        /\ Request.candidate = TextOf(i)
        /\ Request.batch[l] = ExampleToProto(pairs[i].example)
    BY <1>2, <1>8, <2>2 DEF Scatter
  <2>4. results'[i] =
          [score |-> Score(Request.candidate, Request.batch[l]),
           side_info |-> Loads(SideInfo(forms[l], Request.candidate, Request.batch[l]))]
    BY <1>3, <2>1, <2>3
  <2>5. forms[l] \in Forms
    BY <2>2
  <2> HIDE DEF l
  <2>6. /\ results'[i].score = Score(TextOf(i), ExampleToProto(pairs[i].example))
        /\ results'[i].side_info =
             Loads(SideInfo(forms[l], TextOf(i), ExampleToProto(pairs[i].example)))
    BY <2>3, <2>4
  <2> QED BY <1>1, <2>5, <2>6 DEF AsAlone, TextOf
<1>10. ASSUME NEW g \in 1..(Sent - 1), NEW k \in DOMAIN groups[g].indices,
              NEW i, i = groups[g].indices[k]
       PROVE  AsAlone(i)'
  <2>1. g \in DOMAIN groups /\ g # Sent
    BY <1>2, <1>7
  <2>2. i \in DOMAIN results /\ TextOf(i) = groups[g].candidate
    BY <1>8, <1>10, <2>1
  <2>3. groups[g].candidate # groups[Sent].candidate
    BY <1>2, <1>7, <2>1 DEF SharedOut
  <2>4. ~\E l \in DOMAIN Request.batch : Scatter(l) = i
    <3>1. ASSUME NEW l \in DOMAIN Request.batch, Scatter(l) = i PROVE FALSE
      BY <1>2, <1>8, <2>2, <2>3, <3>1 DEF Scatter
    <3> QED BY <3>1
  <2>5. results'[i] = results[i] /\ AsAlone(i)
    BY <1>3, <1>7, <1>10, <2>2, <2>4
  <2> QED BY <1>1, <2>5 DEF AsAlone, TextOf
<1>11. ResultInv'
  <2>1. Answers' = Sent
    BY <1>1, <1>4 DEF Answers
  <2>2. DOMAIN results' = 1..Len(pairs)
    BY <1>3, <1>7
  <2>3. ASSUME NEW g \in 1..Sent, NEW k \in DOMAIN groups[g].indices,
               NEW i, i = groups[g].indices[k]
        PROVE  AsAlone(i)'
    <3>1. CASE g = Sent
      BY <1>9, <2>3, <3>1
    <3>2. CASE g # Sent
      BY <1>2, <1>10, <2>3, <3>2
    <3> QED BY <3>1, <3>2
  <2> QED BY <1>1, <2>1, <2>2, <2>3 DEF ResultInv
<1> QED BY <1>4, <1>5, <1>6, <1>11 DEF BatchInv

\* Steps that only move the call on, or cancel it.
LEMMA MoveKeepsBatchInv ==
  ASSUME BatchInv, CallRaises \/ Return \/ Cancel \/ UNCHANGED vars
  PROVE  BatchInv'
<1>1. UNCHANGED <<pairs, history, taken, groups, requests, results>>
  BY DEF CallRaises, Return, Cancel, vars
<1>2. /\ GroupInv' /\ SharedOut' /\ Sent' = Sent
      /\ \A i : AsAlone(i)' = AsAlone(i)
      /\ \A n : RequestOf(n)' = RequestOf(n)
  BY <1>1 DEF BatchInv, GroupInv, SharedOut, TextOf, Sent, AsAlone, RequestOf, States,
              StateOf, Answered
<1>3. RequestInv'
  BY <1>1, <1>2 DEF RequestInv, BatchInv
<1>4. CASE CallRaises
  <2>1. pc' = "raised" /\ cancelled' = cancelled
    BY <1>4 DEF CallRaises
  <2> QED BY <1>1, <1>2, <1>3, <2>1 DEF BatchInv, TypeInv, PcInv, ResultInv
<1>5. CASE Return
  <2>1. pc = "next" /\ Sent = Len(groups) /\ pc' = "returned" /\ cancelled' = cancelled
    BY <1>5 DEF Return
  <2>2. Answers' = Answers
    BY <1>2, <2>1 DEF Answers
  <2> QED BY <1>1, <1>2, <1>3, <2>1, <2>2 DEF BatchInv, TypeInv, PcInv, ResultInv
<1>6. CASE Cancel \/ UNCHANGED vars
  <2>1. pc' = pc /\ cancelled' \in BOOLEAN
    BY <1>6 DEF Cancel, vars, BatchInv, TypeInv
  <2>2. Answers' = Answers
    BY <1>2, <2>1 DEF Answers
  <2> QED BY <1>1, <1>2, <1>3, <2>1, <2>2 DEF BatchInv, TypeInv, PcInv, ResultInv
<1> QED BY <1>4, <1>5, <1>6

LEMMA NextBatchInv == BatchInv /\ [Next]_vars => BatchInv'
<1> SUFFICES ASSUME BatchInv, [Next]_vars PROVE BatchInv'
  OBVIOUS
<1>1. ASSUME NEW n \in 0..MaxPairs, NEW ps \in [1..n -> Pairs],
             NEW held \in {"none", "image"} \cup Forms, Call(ps, held)
      PROVE  BatchInv'
  BY <1>1, CallKeepsBatchInv
<1>2. CASE GroupPair
  BY <1>2, GroupPairKeepsBatchInv
<1>3. CASE SendGroup
  BY <1>3, SendGroupKeepsBatchInv
<1>4. CASE TakeScores
  BY <1>4, TakeScoresKeepsBatchInv
<1>5. CASE CallRaises \/ Return \/ Cancel \/ UNCHANGED vars
  BY <1>5, MoveKeepsBatchInv
<1> QED BY <1>1, <1>2, <1>3, <1>4, <1>5 DEF Next, Over

LEMMA BatchInvHolds == Spec => []BatchInv
BY InitBatchInv, NextBatchInv, PTL DEF Spec

-------------------------------------------------------------------------------
(* What the conversions do, for every value *)

\* An example of the client's dataset goes to the engine and back unchanged.
LEMMA ExampleReadBack ==
  ASSUME NEW msg \in Dataset
  PROVE  ExampleToProto(DatasetEntry(msg)) = msg
<1>1. msg = [id |-> msg.id, fields |-> msg.fields]
  BY DatasetAssumption
<1> DEFINE ex == DatasetEntry(msg)
<1>2. /\ ex.type = "dict"
      /\ ex.of = [id |-> msg.id, fields |-> msg.fields]
  BY DEF DatasetEntry, PyValue
<1>3. /\ "fields" \in DOMAIN ex.of /\ "id" \in DOMAIN ex.of
      /\ ex.of.id = msg.id /\ ex.of.fields = msg.fields
  BY <1>2
<1> HIDE DEF ex
<1>4. ExampleToProto(ex) =
        [id |-> IF "id" \in DOMAIN ex.of THEN ex.of.id ELSE "", fields |-> ex.of.fields]
  BY <1>2, <1>3 DEF ExampleToProto, HasFields
<1> QED BY <1>1, <1>3, <1>4 DEF ex

\* A side info that was read from an answer is no image, so that it goes back
\* to the client as it is.
LEMMA SideInfoReadBack ==
  ASSUME NEW form \in Forms, NEW t, NEW msg
  PROVE  Loads(Dumps(Loads(SideInfo(form, t, msg)))) = Loads(SideInfo(form, t, msg))
<1> DEFINE value == Loads(SideInfo(form, t, msg))
<1>1. value.type # "image"
  <2>1. CASE form = "empty"
    BY <2>1 DEF SideInfo, EmptyText, WireText, Loads, EmptyDict, PyValue
  <2>2. CASE form = "json"
    BY <2>2 DEF SideInfo, WireText, Loads, PyValue
  <2>3. CASE form = "plain"
    BY <2>3 DEF SideInfo, WireText, Loads, Raw, PyValue
  <2> QED BY <2>1, <2>2, <2>3 DEF Forms
<1> HIDE DEF value
<1>2. Dumps(value) = [form |-> "json", says |-> value]
  BY <1>1 DEF Dumps, WireText
<1>3. Loads(Dumps(value)) = value
  BY <1>2 DEF Loads
<1> QED BY <1>3 DEF value

-------------------------------------------------------------------------------
(* What the call does, for every batch *)

\* What a request says, in terms of the pairs of its group.
LEMMA SentFacts ==
  ASSUME BatchInv
  PROVE  /\ DOMAIN requests = 1..Sent
         /\ \A n \in DOMAIN requests :
              /\ n \in DOMAIN groups
              /\ requests[n].candidate = groups[n].candidate
              /\ requests[n].indices = groups[n].indices
              /\ DOMAIN requests[n].batch = DOMAIN groups[n].indices
              /\ \A k \in DOMAIN groups[n].indices :
                   requests[n].batch[k] = ExampleToProto(pairs[groups[n].indices[k]].example)
              /\ requests[n].states =
                   IF history = "none" THEN <<>> ELSE States(groups[n].indices)
<1>1. /\ Sent \in 0..Len(groups) /\ Len(groups) \in Nat /\ DOMAIN groups = 1..Len(groups)
      /\ requests = [n \in 1..Sent |-> RequestOf(n)]
  BY PairFacts DEF BatchInv, RequestInv
<1>2. \A n \in 1..Sent : n \in DOMAIN groups /\ requests[n] = RequestOf(n)
  BY <1>1
<1> QED BY <1>1, <1>2 DEF RequestOf

\* The values of a batch's variables are what BatchTypeOK says, for every batch.
THEOREM TypeCorrect == Spec => []BatchTypeOK
<1>1. BatchInv => BatchTypeOK
  <2> SUFFICES ASSUME BatchInv PROVE BatchTypeOK
    OBVIOUS
  <2>1. /\ TypeInv /\ GroupInv /\ ResultInv
        /\ Len(pairs) \in Nat /\ DOMAIN pairs = 1..Len(pairs)
        /\ taken \in 0..Len(pairs)
    BY PairFacts DEF BatchInv, TypeInv
  <2>2. ASSUME NEW n \in DOMAIN requests PROVE requests[n].indices \in Seq(DOMAIN pairs)
    <3>1. n \in DOMAIN groups /\ requests[n].indices = groups[n].indices
      BY SentFacts
    <3>2. /\ groups[n].indices \in Seq(Nat)
          /\ Len(groups[n].indices) \in Nat
          /\ DOMAIN groups[n].indices = 1..Len(groups[n].indices)
      BY <2>1, <3>1, PairFacts
    <3>3. \A k \in 1..Len(groups[n].indices) : groups[n].indices[k] \in k..taken
      BY <2>1, <3>1, <3>2 DEF GroupInv
    <3>4. ASSUME NEW k \in 1..Len(groups[n].indices) PROVE groups[n].indices[k] \in DOMAIN pairs
      <4>1. k \in Nat /\ k >= 1 /\ groups[n].indices[k] \in k..taken
        BY <3>2, <3>3
      <4>2. taken \in Nat /\ taken <= Len(pairs)
        BY <2>1
      <4> QED BY <2>1, <4>1, <4>2
    <3>5. groups[n].indices \in [1..Len(groups[n].indices) -> Nat]
      BY <3>2, LenProperties
    <3>6. groups[n].indices \in [1..Len(groups[n].indices) -> DOMAIN pairs]
      BY <3>4, <3>5
    <3> QED BY <3>1, <3>2, <3>6, SeqDef
  <2> QED BY <2>1, <2>2 DEF BatchTypeOK, TypeInv, ResultInv
<1> QED BY BatchInvHolds, <1>1, PTL

\* A batch of any length and mix of candidates returns, for each pair, the
\* score and the side info that evaluating the pair alone would have given.
THEOREM BatchReturnsPairwise == Spec => []ReturnsPairwise
<1>1. BatchInv => ReturnsPairwise
  <2> SUFFICES ASSUME BatchInv, pc = "returned", NEW i \in DOMAIN pairs PROVE AsAlone(i)
    BY DEF ReturnsPairwise, AsAlone
  <2>1. /\ taken = Len(pairs) /\ Sent = Len(groups)
        /\ DOMAIN pairs = 1..Len(pairs) /\ DOMAIN groups = 1..Len(groups)
    BY PairFacts DEF BatchInv, PcInv
  <2>2. PICK g \in DOMAIN groups : \E k \in DOMAIN groups[g].indices :
               groups[g].indices[k] = i
    BY <2>1 DEF BatchInv, SharedOut
  <2> QED BY <2>1, <2>2 DEF BatchInv, ResultInv, Answers
<1> QED BY BatchInvHolds, <1>1, PTL

\* The client is asked about each pair of a returned batch in one request and
\* one place of it, and gets no two requests for one candidate text.
THEOREM OneRequestPerText == Spec => []RequestsPartitionBatch
<1>1. BatchInv => RequestsPartitionBatch
  <2> SUFFICES ASSUME BatchInv PROVE RequestsPartitionBatch
    OBVIOUS
  <2>1. /\ Len(pairs) \in Nat /\ DOMAIN pairs = 1..Len(pairs)
        /\ DOMAIN groups = 1..Len(groups) /\ Len(groups) \in Nat
        /\ taken \in 0..Len(pairs) /\ TypeInv
        /\ \A g \in DOMAIN groups :
             /\ Len(groups[g].indices) \in Nat
             /\ DOMAIN groups[g].indices = 1..Len(groups[g].indices)
    BY PairFacts DEF BatchInv, TypeInv
  <2>2. /\ DOMAIN requests = 1..Sent
        /\ \A n \in DOMAIN requests :
             /\ n \in DOMAIN groups
             /\ requests[n].candidate = groups[n].candidate
             /\ requests[n].indices = groups[n].indices
    BY SentFacts
  <2>3. GroupInv /\ SharedOut
    BY DEF BatchInv
  <2>4. \A m, n \in DOMAIN requests :
          requests[m].candidate = requests[n].candidate => m = n
    BY <2>2, <2>3 DEF SharedOut
  <2>5. ASSUME NEW i \in DOMAIN pairs, NEW m \in DOMAIN requests, NEW n \in DOMAIN requests,
               NEW k \in DOMAIN pairs, NEW l \in DOMAIN pairs,
               Asks(m, k, i), Asks(n, l, i)
        PROVE  m = n /\ k = l
    <3>1. /\ k \in DOMAIN groups[m].indices /\ groups[m].indices[k] = i
          /\ l \in DOMAIN groups[n].indices /\ groups[n].indices[l] = i
      BY <2>2, <2>5 DEF Asks
    <3>2. TextOf(i) = groups[m].candidate /\ TextOf(i) = groups[n].candidate
      BY <2>2, <2>3, <3>1 DEF GroupInv
    <3>3. m = n
      BY <2>2, <2>3, <3>2 DEF SharedOut
    <3>4. k \in Nat /\ l \in Nat /\ i \in Nat
      BY <2>1
    <3>5. ~(k < l) /\ ~(l < k)
      <4>1. /\ \A j \in 1..(l - 1) : groups[m].indices[j] < groups[m].indices[l]
            /\ \A j \in 1..(k - 1) : groups[m].indices[j] < groups[m].indices[k]
        BY <2>2, <2>3, <3>1, <3>3 DEF GroupInv
      <4>2. k < l => k \in 1..(l - 1)
        BY <2>1, <3>4
      <4>3. l < k => l \in 1..(k - 1)
        BY <2>1, <3>4
      <4> QED BY <3>1, <3>3, <3>4, <4>1, <4>2, <4>3
    <3> QED BY <3>3, <3>4, <3>5
  <2>6. ASSUME NEW i \in DOMAIN pairs, pc = "returned"
        PROVE  \E n \in DOMAIN requests, k \in DOMAIN pairs : Asks(n, k, i)
    <3>1. taken = Len(pairs) /\ Sent = Len(groups)
      BY <2>6 DEF BatchInv, PcInv
    <3>2. PICK g \in DOMAIN groups : \E k \in DOMAIN groups[g].indices :
                 groups[g].indices[k] = i
      BY <2>1, <2>3, <3>1 DEF SharedOut
    <3>3. PICK k \in DOMAIN groups[g].indices : groups[g].indices[k] = i
      BY <3>2
    <3>4. groups[g].indices[k] \in k..taken /\ k \in Nat /\ k >= 1
      BY <2>1, <2>3, <3>3 DEF GroupInv
    <3>5. k \in DOMAIN pairs /\ g \in DOMAIN requests
      BY <2>1, <2>2, <3>1, <3>4
    <3> QED BY <2>2, <3>3, <3>5 DEF Asks
  <2> QED BY <2>4, <2>5, <2>6 DEF RequestsPartitionBatch
<1> QED BY BatchInvHolds, <1>1, PTL

\* The k-th state of a request.
LEMMA StateFacts ==
  ASSUME BatchInv, NEW n \in DOMAIN requests, history # "none"
  PROVE  /\ DOMAIN requests[n].states = DOMAIN groups[n].indices
         /\ \A k \in DOMAIN groups[n].indices :
              /\ requests[n].states[k].score = groups[n].indices[k]
              /\ requests[n].states[k].side_info = Dumps(StateOf(groups[n].indices[k]).side_info)
<1>1. requests[n].states = States(groups[n].indices)
  BY SentFacts
<1>2. requests[n].states = [k \in DOMAIN groups[n].indices |->
                               OptStateToProto(StateOf(groups[n].indices[k]))]
  BY <1>1 DEF States
<1>3. \A i : StateOf(i).score = i
  BY DEF StateOf
<1> QED BY <1>2, <1>3 DEF OptStateToProto

\* The engine's history reaches the client aligned with the examples it is of.
THEOREM HistoryIsAligned == Spec => []StatesAligned
<1>1. BatchInv => StatesAligned
  <2> SUFFICES ASSUME BatchInv, NEW n \in DOMAIN requests
               PROVE  IF history = "none" THEN requests[n].states = <<>>
                      ELSE /\ DOMAIN requests[n].states = DOMAIN requests[n].batch
                           /\ \A k \in DOMAIN requests[n].states :
                                LET i == requests[n].states[k].score IN
                                /\ ExampleToProto(pairs[i].example) = requests[n].batch[k]
                                /\ TextOf(i) = requests[n].candidate
    BY DEF StatesAligned
  <2>1. CASE history = "none"
    BY <2>1, SentFacts
  <2>2. CASE history # "none"
    <3>1. /\ n \in DOMAIN groups
          /\ requests[n].candidate = groups[n].candidate
          /\ DOMAIN requests[n].batch = DOMAIN groups[n].indices
          /\ \A k \in DOMAIN groups[n].indices :
               requests[n].batch[k] = ExampleToProto(pairs[groups[n].indices[k]].example)
      BY SentFacts
    <3>2. /\ DOMAIN requests[n].states = DOMAIN groups[n].indices
          /\ \A k \in DOMAIN groups[n].indices :
               requests[n].states[k].score = groups[n].indices[k]
      BY <2>2, StateFacts
    <3>3. \A k \in DOMAIN groups[n].indices :
            TextOf(groups[n].indices[k]) = groups[n].candidate
      BY <3>1 DEF BatchInv, GroupInv
    <3> QED BY <2>2, <3>1, <3>2, <3>3
  <2> QED BY <2>1, <2>2
<1> QED BY BatchInvHolds, <1>1, PTL

\* A side info of the client's comes back to it as it gave it, wrapped at most
\* once, and a value that is no JSON comes as text.
THEOREM HistoryIsReadBack == Spec => []HistoryReadBack
<1>1. BatchInv => HistoryReadBack
  <2> SUFFICES ASSUME BatchInv, NEW n \in DOMAIN requests, NEW k \in DOMAIN requests[n].states
               PROVE  LET back == Loads(requests[n].states[k].side_info)
                          i == requests[n].indices[k]
                      IN  IF history = "image" THEN back = Raw(<<i>>)
                          ELSE back = Loads(Answered(i))
    BY DEF HistoryReadBack
  <2>1. history # "none" /\ history \in {"none", "image"} \cup Forms
    <3>1. history = "none" => requests[n].states = <<>>
      BY SentFacts
    <3> QED BY <3>1 DEF BatchInv, TypeInv
  <2>2. requests[n].indices = groups[n].indices
    BY SentFacts
  <2> DEFINE i == requests[n].indices[k]
  <2>3. requests[n].states[k].side_info = Dumps(StateOf(i).side_info)
    BY <2>1, <2>2, StateFacts
  <2> HIDE DEF i
  <2>4. CASE history = "image"
    <3>1. StateOf(i).side_info = [type |-> "image", of |-> <<i>>]
      BY <2>4 DEF StateOf, PyValue
    <3>2. Dumps(StateOf(i).side_info) = [form |-> "json", says |-> Raw(<<i>>)]
      BY <3>1 DEF Dumps, WireText
    <3>3. Loads(requests[n].states[k].side_info) = Raw(<<i>>)
      BY <2>3, <3>2 DEF Loads
    <3> QED BY <2>4, <3>3 DEF i
  <2>5. CASE history # "image"
    <3>1. history \in Forms
      BY <2>1, <2>5
    <3>2. StateOf(i).side_info = Loads(Answered(i))
      BY <2>5 DEF StateOf
    <3>3. Loads(Dumps(Loads(Answered(i)))) = Loads(Answered(i))
      BY <3>1, SideInfoReadBack DEF Answered
    <3> QED BY <2>3, <2>5, <3>2, <3>3 DEF i
  <2> QED BY <2>4, <2>5
<1> QED BY BatchInvHolds, <1>1, PTL

\* Whatever examples of the client's dataset are in a batch, the requests have
\* them as the client's start_request had them, id and all.
THEOREM ClientGetsItsExamples == Spec => []ClientSeesItsExamples
<1>1. BatchInv => ClientSeesItsExamples
  <2> SUFFICES ASSUME BatchInv, NEW n \in DOMAIN requests, NEW k \in DOMAIN requests[n].batch,
                      NEW msg \in Dataset,
                      pairs[requests[n].indices[k]].example = DatasetEntry(msg)
               PROVE  requests[n].batch[k] = msg
    BY DEF ClientSeesItsExamples
  <2>1. requests[n].batch[k] = ExampleToProto(pairs[requests[n].indices[k]].example)
    BY SentFacts
  <2> QED BY <2>1, ExampleReadBack
<1> QED BY BatchInvHolds, <1>1, PTL

===============================================================================
