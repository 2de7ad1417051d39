------------------------------- MODULE GetStatus -------------------------------
(***************************************************************************)
(* gepa_rpc/servicer.py, GetStatus, next to the runs of RunRegistry.  A    *)
(* poll looks a run id up and reads its run_status record field by field   *)
(* under _runs_lock.  Holding the lock keeps registrations out; the runner *)
(* that writes the record never takes it, so the record may change between *)
(* two reads.                                                              *)
(***************************************************************************)
EXTENDS RunRegistry

VARIABLES
  pollPc,       \* what the poll does next
  pollId,       \* request.run_id
  ended,        \* the stream under pollId whose terminal message had been
                \* queued when the poll was made, if there was one
  pollEntry,    \* the entry found
  pollStatus,   \* status_str; "none" is answered as UNKNOWN
  pollMessage   \* the message read is not empty

pollVars == <<pollPc, pollId, ended, pollEntry, pollStatus, pollMessage>>
statusVars == <<vars, pollVars>>

NoPoll ==
  /\ pollPc = "idle"
  /\ pollId = None
  /\ ended = None
  /\ pollEntry = None
  /\ pollStatus = "none"
  /\ pollMessage = FALSE

PollInit == Init /\ NoPoll

PollEnds ==
  /\ pollPc' = "idle"
  /\ pollId' = None
  /\ ended' = None
  /\ pollEntry' = None
  /\ pollStatus' = "none"
  /\ pollMessage' = FALSE

-------------------------------------------------------------------------------
(* The poll *)

EndedUnder(k) ==
  IF Registered(k) /\ terminal[entry[k]] # "none" THEN entry[k] ELSE None

AskStatus(k) ==
  /\ pollPc = "idle"
  /\ pollPc' = "lookup"
  /\ pollId' = k
  /\ ended' = EndedUnder(k)
  /\ UNCHANGED <<vars, pollEntry, pollStatus, pollMessage>>

\* The lock is taken and the entry looked up.
Lookup ==
  /\ pollPc = "lookup"
  /\ pollEntry' = entry[pollId]
  /\ pollPc' = IF Registered(pollId) THEN "status" ELSE "answered"
  /\ UNCHANGED <<vars, pollId, ended, pollStatus, pollMessage>>

ReadStatus ==
  /\ pollPc = "status"
  /\ pollStatus' = status[pollEntry]
  /\ pollPc' = "message"
  /\ UNCHANGED <<vars, pollId, ended, pollEntry, pollMessage>>

ReadMessage ==
  /\ pollPc = "message"
  /\ pollMessage' = message[pollEntry]
  /\ pollPc' = "answered"
  /\ UNCHANGED <<vars, pollId, ended, pollEntry, pollStatus>>

\* The client has had its StatusResponse.
Answered ==
  /\ pollPc = "answered"
  /\ PollEnds
  /\ UNCHANGED vars

Locked == pollPc \in {"status", "message"}

\* Meanwhile the runs go on; nothing is registered while the poll has the lock.
RunStep ==
  /\ Next
  /\ Locked => UNCHANGED registry
  /\ crashes' = crashes
  /\ UNCHANGED pollVars

\* A poll does not survive the server.
CrashStep == Crash /\ PollEnds

PollNext ==
  \/ \E k \in RunIds : AskStatus(k)
  \/ Lookup \/ ReadStatus \/ ReadMessage \/ Answered
  \/ RunStep
  \/ CrashStep

PollSpec == PollInit /\ [][PollNext]_statusVars

-------------------------------------------------------------------------------
(* Properties *)

PollTypeOK ==
  /\ TypeOK
  /\ pollPc \in {"idle", "lookup", "status", "message", "answered"}
  /\ pollId \in RunIds \cup {None}
  /\ ended \in Streams \cup {None}
  /\ pollEntry \in Streams \cup {None}
  /\ pollStatus \in {"none", "running", "complete", "failed"}
  /\ pollMessage \in BOOLEAN

\* A client whose stream has delivered its terminal message and that then asks
\* GetStatus is told the same, message included, although the poll reads the
\* record piecemeal: unless the entry is another run's by then.
StatusAfterTerminal ==
  (pollPc = "answered" /\ ended # None /\ pollEntry = ended) =>
    /\ terminal[ended] = "complete" <=> pollStatus = "complete"
    /\ terminal[ended] = "error" <=> pollStatus = "failed" /\ pollMessage

\* "GetStatus for a failed run returns FAILED with sanitized message."
FailedAnswerHasMessage ==
  (pollPc = "answered" /\ pollStatus = "failed") => pollMessage

===============================================================================
