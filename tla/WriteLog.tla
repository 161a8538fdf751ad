------------------------------ MODULE WriteLog ------------------------------
(***************************************************************************)
(* What a client may rely on once a write is acknowledged, whatever runs   *)
(* behind it: a log of proposals, each of one or more records.  Records    *)
(* are stored together, once, after the writes of their subject that were  *)
(* acknowledged before they were sent, and what was erased stays erased.   *)
(* A proposal that keeps failing may be set aside.  Those after it go on   *)
(* without it, and less is promised of it: it may still be stored later,   *)
(* and once more after a record of it was forgotten.  The erasure of its   *)
(* subject ends that too.                                                  *)
(***************************************************************************)
EXTENDS Naturals

CONSTANTS Proposal, Record, Subject, Stored, SubjectOf, HomeOf, RecordsOf

VARIABLES
  fate,   \* what became of each record
  after,  \* the proposals each proposal comes after
  aside   \* proposals set aside

logVars == <<fate, after, aside>>

LogInit ==
  /\ fate = [r \in Record |-> IF r \in Stored THEN "stored" ELSE "unsent"]
  /\ after = [p \in Proposal |-> {}]
  /\ aside = {}

Unsent(p) == \A r \in RecordsOf[p] : fate[r] = "unsent"

Waiting(p) == \E r \in RecordsOf[p] : fate[r] = "accepted"

Becomes(R, f) == fate' = [r \in Record |-> IF r \in R THEN f ELSE fate[r]]

Send(p) ==
  /\ Unsent(p)
  /\ after' = [after EXCEPT ![p] = {q \in Proposal :
       SubjectOf[q] = SubjectOf[p] /\ ~ Unsent(q)}]
  /\ UNCHANGED <<fate, aside>>

Accept(p) ==
  /\ Unsent(p)
  /\ Becomes(RecordsOf[p], "accepted")
  /\ UNCHANGED <<after, aside>>

SetAside(p) ==
  /\ Waiting(p)
  /\ aside' = aside \cup {p}
  /\ UNCHANGED <<fate, after>>

\* All that wait, as they are or quarantined and set aside.
Store(p) ==
  /\ \A q \in after[p] \ aside : ~ Waiting(q)
  /\ \E R \in (SUBSET RecordsOf[p]) \ {{}} :
       /\ \A r \in RecordsOf[p] : fate[r] = "accepted" => r \in R
       /\ \A r \in R : fate[r] = "accepted" \/ (fate[r] = "erased" /\ p \in aside)
       /\ Becomes(R, "stored")
  /\ aside' \in {aside \ {p}, aside \cup {p}}
  /\ UNCHANGED after

Settle(p) ==
  /\ ~ Waiting(p)
  /\ aside' = aside \ {p}
  /\ UNCHANGED <<fate, after>>

Forget(r) ==
  /\ fate[r] # "unsent"
  /\ Becomes({r}, "erased")
  /\ \/ UNCHANGED aside
     \/ \E p \in Proposal : ~ Waiting(p)' /\ aside' = aside \ {p}
  /\ UNCHANGED after

EraseSubject(s) ==
  /\ Becomes({r \in Record : HomeOf[r] = s /\ fate[r] # "unsent"}, "erased")
  /\ aside' = {p \in aside : SubjectOf[p] # s}
  /\ UNCHANGED after

LogNext ==
  \/ \E p \in Proposal : Send(p) \/ Accept(p) \/ SetAside(p) \/ Store(p) \/ Settle(p)
  \/ \E r \in Record : Forget(r)
  \/ \E s \in Subject : EraseSubject(s)

LogSpec == LogInit /\ [][LogNext]_logVars
=============================================================================
