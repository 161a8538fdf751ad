----------------------------- MODULE Admission -----------------------------
(***************************************************************************)
(* Review of candidates (Engine::admit and Engine::reject): a record that  *)
(* waits for a reviewer is committed or refused by calls that each make    *)
(* several statements, every one of them committed on its own.  Reviewers  *)
(* work at the same time as each other, as the pipeline that commits       *)
(* revisions directly, as the retention pass and as clients who forget.    *)
(***************************************************************************)
EXTENDS Naturals, FiniteSets

CONSTANTS
  Record,
  NoRecord,
  Call,       \* review calls in flight at once
  Revises,    \* [Record -> Record \cup {NoRecord}]: metadata `supersedes`
  Original,   \* records committed before anything happens, which revise no other here
  Direct,     \* revisions whose writer may commit without a reviewer
  Expiring,   \* records with an expiry
  MaxCrashes  \* bound: calls that die half way

ASSUME AdmissionAssumption ==
  /\ NoRecord \notin Record
  /\ Revises \in [Record -> Record \cup {NoRecord}]
  /\ \A r \in Record : Revises[r] # r
  /\ Original \subseteq Record /\ Direct \subseteq Record
  /\ \A r \in Original : Revises[r] = NoRecord
  /\ Original \cap Direct = {}
  /\ Expiring \subseteq Record
  /\ MaxCrashes \in Nat

VARIABLES
  status,  \* mh_memory.status
  by,      \* mh_memory.superseded_by
  call,    \* the review calls
  audit,   \* the audit events of reviews: <<action, record>>
  crashes

vars == <<status, by, call, audit, crashes>>

Status == {"unsent", "candidate", "committed", "superseded", "quarantined",
           "rejected", "expired", "absent"}

\* MemoryStatus::can_become.
Lifecycle ==
  ({"candidate"} \X {"committed", "rejected", "quarantined", "expired"}) \cup
  ({"committed"} \X {"superseded", "quarantined", "expired"}) \cup
  ({"quarantined"} \X {"committed", "rejected"})

Step == {"idle", "supersede", "refuse", "commit", "log", "reject"}

Call0 == [step |-> "idle", id |-> NoRecord, answer |-> "none"]

TypeOK ==
  /\ status \in [Record -> Status]
  /\ by \in [Record -> Record \cup {NoRecord}]
  /\ call \in [Call -> [step : Step, id : Record \cup {NoRecord},
                        answer : {"none", "admit", "reject"}]]
  /\ audit \subseteq {"admit", "reject"} \X Record
  /\ crashes \in 0..MaxCrashes

Init ==
  /\ status = [r \in Record |-> IF r \in Original THEN "committed" ELSE "unsent"]
  /\ by = [r \in Record |-> NoRecord]
  /\ call = [c \in Call |-> Call0]
  /\ audit = {}
  /\ crashes = 0

-----------------------------------------------------------------------------
(* What the pipeline stores, as the policy of the moment says: a candidate *)
(* for a reviewer, or a revision it commits in the transaction that        *)
(* supersedes its predecessor.                                             *)
Propose(r) ==
  /\ status[r] = "unsent"
  /\ status' = [status EXCEPT ![r] = "candidate"]
  /\ UNCHANGED <<by, call, audit, crashes>>

Commit(r) ==
  /\ status[r] = "unsent" /\ r \in Direct
  /\ IF Revises[r] = NoRecord
     THEN status' = [status EXCEPT ![r] = "committed"] /\ by' = by
     ELSE /\ status[Revises[r]] = "committed"
          /\ status' = [status EXCEPT ![r] = "committed", ![Revises[r]] = "superseded"]
          /\ by' = [by EXCEPT ![Revises[r]] = r]
  /\ UNCHANGED <<call, audit, crashes>>

-----------------------------------------------------------------------------
\* Mutant: an update that does not look at the state it starts from.
SetStatusAny(r, to) ==
  status' = IF status[r] = "absent" THEN status ELSE [status EXCEPT ![r] = to]

\* set_status: only the transitions of the lifecycle; else nothing changes.
SetStatus(r, to) ==
  status' = IF <<status[r], to>> \in Lifecycle THEN [status EXCEPT ![r] = to] ELSE status

\* Mutant: whatever the state it is in.
SupersedeAny(old, new) ==
  /\ status' = [status EXCEPT ![old] = "superseded"]
  /\ by' = [by EXCEPT ![old] = new]

\* set_superseded, by the version that is current.
Supersede(old, new) ==
  /\ status[old] = "committed"
  /\ status' = [status EXCEPT ![old] = "superseded"]
  /\ by' = [by EXCEPT ![old] = new]

Goto(c, step) == call' = [call EXCEPT ![c].step = step]

Answers(c, answer) == call' = [call EXCEPT ![c].step = "log", ![c].answer = answer]

\* The call reads the record: only a candidate is admitted.
Admit(c, r) ==
  /\ call[c].step = "idle"
  /\ status[r] = "candidate"
  /\ call' = [call EXCEPT ![c] =
       [Call0 EXCEPT !.id = r, !.step = IF Revises[r] = NoRecord THEN "commit" ELSE "supersede"]]
  /\ UNCHANGED <<status, by, audit, crashes>>

\* A revision supersedes its predecessor first.
AdmitSupersedes(c) ==
  LET r == call[c].id IN
  /\ call[c].step = "supersede"
  /\ \/ Supersede(Revises[r], r) /\ Goto(c, "commit")
     \/ /\ status[Revises[r]] # "committed"
        /\ Goto(c, "refuse")
        /\ UNCHANGED <<status, by>>
  /\ UNCHANGED <<audit, crashes>>

\* Mutant: what was refused for its predecessor is not written to the trail.
AdmitRefusesUnaudited(c) ==
  /\ call[c].step = "refuse"
  /\ SetStatus(call[c].id, "rejected")
  /\ call' = [call EXCEPT ![c] = Call0]
  /\ UNCHANGED <<by, audit, crashes>>

\* Its predecessor is no longer current: it is rejected instead.
AdmitRefuses(c) ==
  /\ call[c].step = "refuse"
  /\ SetStatus(call[c].id, "rejected")
  /\ Answers(c, "reject")
  /\ UNCHANGED <<by, audit, crashes>>

\* Whether the update found the record a candidate is not looked at.
AdmitCommits(c) ==
  /\ call[c].step = "commit"
  /\ SetStatus(call[c].id, "committed")
  /\ Answers(c, "admit")
  /\ UNCHANGED <<by, audit, crashes>>

\* reject: the read, then the update, which a record in another state refuses.
Reject(c, r) ==
  /\ call[c].step = "idle"
  /\ status[r] \notin {"unsent", "absent"}
  /\ call' = [call EXCEPT ![c] = [Call0 EXCEPT !.id = r, !.step = "reject"]]
  /\ UNCHANGED <<status, by, audit, crashes>>

RejectUpdates(c) ==
  LET r == call[c].id IN
  /\ call[c].step = "reject"
  /\ IF <<status[r], "rejected">> \in Lifecycle
     THEN SetStatus(r, "rejected") /\ Answers(c, "reject")
     ELSE call' = [call EXCEPT ![c] = Call0] /\ UNCHANGED status
  /\ UNCHANGED <<by, audit, crashes>>

\* The audit event, and the answer.
Log(c) ==
  /\ call[c].step = "log"
  /\ audit' = audit \cup {<<call[c].answer, call[c].id>>}
  /\ call' = [call EXCEPT ![c] = Call0]
  /\ UNCHANGED <<status, by, crashes>>

-----------------------------------------------------------------------------
Crash(c) ==
  /\ call[c].step # "idle"
  /\ crashes < MaxCrashes
  /\ crashes' = crashes + 1
  /\ call' = [call EXCEPT ![c] = Call0]
  /\ UNCHANGED <<status, by, audit>>

\* The retention pass.
Expire(r) ==
  /\ r \in Expiring
  /\ <<status[r], "expired">> \in Lifecycle
  /\ SetStatus(r, "expired")
  /\ UNCHANGED <<by, call, audit, crashes>>

\* forget: the row goes.
Forget(r) ==
  /\ status[r] \notin {"unsent", "absent"}
  /\ status' = [status EXCEPT ![r] = "absent"]
  /\ by' = [by EXCEPT ![r] = NoRecord]
  /\ UNCHANGED <<call, audit, crashes>>

Review(c) ==
  \/ AdmitSupersedes(c) \/ AdmitRefuses(c) \/ AdmitCommits(c)
  \/ RejectUpdates(c) \/ Log(c)

Next ==
  \/ \E r \in Record : Propose(r) \/ Commit(r) \/ Expire(r) \/ Forget(r)
  \/ \E c \in Call : \/ \E r \in Record : Admit(c, r) \/ Reject(c, r)
                     \/ Review(c)
                     \/ Crash(c)

Spec == Init /\ [][Next]_vars

-----------------------------------------------------------------------------
Current(r) == status[r] = "committed"

(* A committed revision is the one that superseded its predecessor: of two *)
(* revisions of one version, admitted or committed directly at the same    *)
(* time, one at most takes effect (set_superseded tells the loser).        *)
OneSuccessor ==
  \A r \in Record : Revises[r] # NoRecord /\ Current(r) =>
    \/ status[Revises[r]] = "superseded" /\ by[Revises[r]] = r
    \/ status[Revises[r]] = "absent"

(* No call, however late, moves a record out of a state the lifecycle says *)
(* is final (set_status, sources_of).                                      *)
FinalStatesStay ==
  [][\A r \in Record : status[r] \in {"superseded", "rejected", "expired"} =>
       status'[r] \in {status[r], "absent"}]_vars

(* What a review did is in the trail once no call of it is under way, if   *)
(* none died half way: an admission, or the rejection that takes its place *)
(* when the version it revises is no longer current (admit, reject).       *)
DecisionsAudited ==
  \A r \in Record : crashes = 0 /\ (\A c \in Call : call[c].id # r) =>
    /\ Current(r) /\ r \notin Original \cup Direct => <<"admit", r>> \in audit
    /\ status[r] = "rejected" => <<"reject", r>> \in audit
=============================================================================
