-------------------------------- MODULE OmniBatch --------------------------------
(***************************************************************************)
(* gepa_rpc/adapter.py, OmniRemoteEvaluator.__call__: one call with a      *)
(* batch of (candidate, example) pairs.  The pairs are grouped by          *)
(* str(candidate) in one pass, one request is sent per group and answered  *)
(* before the next, and the scores of a group are scattered to the places  *)
(* its pairs have in the batch.  Examples and side infos pass through      *)
(* Conversions; the future behind a request is RemoteAdapter's.            *)
(***************************************************************************)
EXTENDS Conversions, Sequences, SequencesExt

CONSTANTS
  Candidates,   \* candidate objects
  Dataset,      \* the Examples of the client's start_request
  OwnExamples,  \* Python values the engine evaluates besides them
  Text,         \* str(candidate); two candidates may have the same
  MaxPairs      \* bound on the length of the batch

ASSUME MaxPairsAssumption == MaxPairs \in Nat

\* The client's examples are protobuf messages of an id and fields.
ASSUME DatasetAssumption == \A msg \in Dataset : msg = [id |-> msg.id, fields |-> msg.fields]

VARIABLES
  pc,         \* where the call stands
  pairs,      \* the batch
  history,    \* what the engine's opt_states hold of earlier answers, if any
  taken,      \* pairs the grouping loop has taken
  groups,     \* the dict of groups, in the order in which its keys were inserted
  requests,   \* requests sent, one per group; the last one is answered next
  results,    \* the list that is returned
  cancelled   \* the evaluator is cancelled

vars == <<pc, pairs, history, taken, groups, requests, results, cancelled>>

Examples == {DatasetEntry(msg) : msg \in Dataset} \cup OwnExamples
Pairs == [candidate : Candidates, example : Examples]
Texts == {Text[c] : c \in Candidates}

\* What the client answers for an Example: its score, and as side info nothing,
\* JSON, or text that is not JSON.
Score(t, msg) == <<t, msg>>
Zero == <<>>
Forms == {"empty", "json", "plain"}
SideInfo(form, t, msg) ==
  CASE form = "empty" -> EmptyText
    [] form = "json" -> WireText("json", PyValue("dict", <<t, msg>>))
    [] form = "plain" -> WireText("plain", <<t, msg>>)

TextOf(i) == Text[pairs[i].candidate]
Group == [candidate : Texts, indices : Seq(Nat)]

BatchTypeOK ==
  /\ pc \in {"idle", "group", "next", "await", "returned", "raised"}
  /\ pairs \in Seq(Pairs)
  /\ history \in {"none", "image"} \cup Forms
  /\ taken \in Nat
  /\ groups \in Seq(Group)
  /\ \A n \in DOMAIN requests : requests[n].indices \in Seq(DOMAIN pairs)
  /\ DOMAIN results = DOMAIN pairs
  /\ cancelled \in BOOLEAN

Init ==
  /\ pc = "idle"
  /\ pairs = <<>>
  /\ history = "none"
  /\ taken = 0
  /\ groups = <<>>
  /\ requests = <<>>
  /\ results = <<>>
  /\ cancelled = FALSE

-------------------------------------------------------------------------------
\* __call__; an empty batch needs no client.
Call(ps, held) ==
  /\ pc = "idle"
  /\ pairs' = ps
  /\ history' = held
  /\ results' = [i \in 1..Len(ps) |-> [score |-> Zero, side_info |-> EmptyDict]]
  /\ pc' = IF ps = <<>> THEN "returned" ELSE "group"
  /\ UNCHANGED <<taken, groups, requests, cancelled>>

\* A faulty variant, like each operator below whose comment calls it one: the
\* code does not do this, and the properties must notice if it did.  Only pairs
\* next to each other get into one group.
LastGroup(g, i) == g = Len(groups) /\ groups[g].candidate = TextOf(i)

HasKey(g, i) == groups[g].candidate = TextOf(i)

\* groups[str(candidate)].append: one round of the loop over the pairs.
GroupPair ==
  /\ pc = "group"
  /\ taken' = taken + 1
  /\ \/ \E g \in DOMAIN groups :
          /\ HasKey(g, taken')
          /\ groups' = [groups EXCEPT ![g].indices = Append(@, taken')]
     \/ /\ \A g \in DOMAIN groups : ~HasKey(g, taken')
        /\ groups' = Append(groups, [candidate |-> TextOf(taken'), indices |-> <<taken'>>])
  /\ pc' = IF taken' = Len(pairs) THEN "next" ELSE "group"
  /\ UNCHANGED <<pairs, history, requests, results, cancelled>>

\* The engine's state of a pair: an evaluation it holds for the pair's example,
\* told apart by the pair's index, with a side info as it was answered or put
\* there by the engine.
Answered(i) == SideInfo(history, TextOf(i), ExampleToProto(pairs[i].example))
StateOf(i) ==
  [score |-> i,
   side_info |-> IF history = "image" THEN PyValue("image", <<i>>) ELSE Loads(Answered(i))]

\* Faulty variant: the states are taken from the front of opt_states.
StatesInFront(indices) == [k \in DOMAIN indices |-> OptStateToProto(StateOf(k))]

States(indices) == [k \in DOMAIN indices |-> OptStateToProto(StateOf(indices[k]))]

Sent == Len(requests)

SendGroup ==
  /\ pc = "next"
  /\ Sent < Len(groups)
  /\ ~cancelled
  /\ LET group == groups[Sent + 1]
         indices == group.indices
     IN  requests' = Append(requests,
           [candidate |-> group.candidate,
            indices |-> indices,
            batch |-> [k \in DOMAIN indices |-> ExampleToProto(pairs[indices[k]].example)],
            states |-> IF history = "none" THEN <<>> ELSE States(indices)])
  /\ pc' = "await"
  /\ UNCHANGED <<pairs, history, taken, groups, results, cancelled>>

Request == Last(requests)

\* Faulty variant: scores are written to the front of the results.
ScatterInFront(k) == k

Scatter(k) == Request.indices[k]

\* One score per example, and side infos for the first of them or for all.
TakeScores ==
  /\ pc = "await"
  /\ \E forms \in [DOMAIN Request.batch -> Forms] :
       results' = [i \in DOMAIN results |->
         IF \E k \in DOMAIN Request.batch : Scatter(k) = i
         THEN LET k == CHOOSE k \in DOMAIN Request.batch : Scatter(k) = i IN
              [score |-> Score(Request.candidate, Request.batch[k]),
               side_info |-> Loads(SideInfo(forms[k], Request.candidate, Request.batch[k]))]
         ELSE results[i]]
  /\ pc' = "next"
  /\ UNCHANGED <<pairs, history, taken, groups, requests, cancelled>>

\* Another number of scores, or a cancel failed the future or refuses the next.
CallRaises ==
  /\ pc = "await" \/ (pc = "next" /\ Sent < Len(groups) /\ cancelled)
  /\ pc' = "raised"
  /\ UNCHANGED <<pairs, history, taken, groups, requests, results, cancelled>>

Return ==
  /\ pc = "next"
  /\ Sent = Len(groups)
  /\ pc' = "returned"
  /\ UNCHANGED <<pairs, history, taken, groups, requests, results, cancelled>>

Cancel ==
  /\ ~cancelled
  /\ cancelled' = TRUE
  /\ UNCHANGED <<pc, pairs, history, taken, groups, requests, results>>

Over == pc \in {"returned", "raised"} /\ UNCHANGED vars

Next ==
  \/ \E n \in 0..MaxPairs : \E ps \in [1..n -> Pairs] :
       \E held \in {"none", "image"} \cup Forms : Call(ps, held)
  \/ GroupPair \/ SendGroup \/ TakeScores \/ CallRaises \/ Return
  \/ Cancel
  \/ Over

Spec == Init /\ [][Next]_vars

-------------------------------------------------------------------------------
(* Properties *)

\* What is returned is what evaluating the pairs one by one would return: each
\* place holds the score of its own candidate and example, and its own side
\* info or none.
ReturnsPairwise ==
  pc = "returned" => \A i \in DOMAIN pairs :
    LET msg == ExampleToProto(pairs[i].example) IN
    /\ results[i].score = Score(TextOf(i), msg)
    /\ results[i].side_info \in {Loads(SideInfo(form, TextOf(i), msg)) : form \in Forms}

\* The k-th pair of the n-th request is the i-th of the batch.
Asks(n, k, i) ==
  n \in DOMAIN requests /\ k \in DOMAIN requests[n].indices /\ requests[n].indices[k] = i

\* "one OmniEvaluateBatchRequest per unique candidate": the requests partition
\* the batch by candidate text.  No two are for one text, however many objects
\* have it; no pair is in two, or twice in one, and none is missing when the
\* call returns.
RequestsPartitionBatch ==
  /\ \A m, n \in DOMAIN requests :
       requests[m].candidate = requests[n].candidate => m = n
  /\ \A i \in DOMAIN pairs :
       /\ \A m, n \in DOMAIN requests, k, l \in DOMAIN pairs :
            Asks(m, k, i) /\ Asks(n, l, i) => m = n /\ k = l
       /\ pc = "returned" => \E n \in DOMAIN requests, k \in DOMAIN pairs : Asks(n, k, i)

\* "Per-example warm-start history, aligned 1:1 with batch": the k-th state is
\* that of the k-th example, for the request's candidate; there are none when
\* the engine gave none.
StatesAligned ==
  \A n \in DOMAIN requests :
    IF history = "none" THEN requests[n].states = <<>>
    ELSE /\ DOMAIN requests[n].states = DOMAIN requests[n].batch
         /\ \A k \in DOMAIN requests[n].states :
              LET i == requests[n].states[k].score IN
              /\ ExampleToProto(pairs[i].example) = requests[n].batch[k]
              /\ TextOf(i) = requests[n].candidate

\* The client reads its own side infos back from the history as it gave them:
\* JSON as it was, other text wrapped once however often it goes to and fro,
\* nothing as {}; and a value that is no JSON does not fail the call.
HistoryReadBack ==
  \A n \in DOMAIN requests : \A k \in DOMAIN requests[n].states :
    LET back == Loads(requests[n].states[k].side_info)
        i == requests[n].indices[k]
    IN  IF history = "image" THEN back = Raw(<<i>>) ELSE back = Loads(Answered(i))

\* The client is asked about its own examples, id and all: whatever of its
\* dataset the engine hands out arrives as the start_request had it.
ClientSeesItsExamples ==
  \A n \in DOMAIN requests : \A k \in DOMAIN requests[n].batch :
    \A msg \in Dataset :
      pairs[requests[n].indices[k]].example = DatasetEntry(msg) => requests[n].batch[k] = msg

===============================================================================
