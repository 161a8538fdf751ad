------------------------------ MODULE MCIntake ------------------------------
(***************************************************************************)
(* Small instances of the write path.  Each scenario names its proposals   *)
(* after what they do; a configuration picks one with the constants of     *)
(* that scenario.                                                          *)
(***************************************************************************)
EXTENDS Intake, TLC

Interchangeable == Permutations(Worker)

\* Queue: two writes of one subject.
QueueProposal == {"first", "second"}
QueueRecord == {"r1", "r2"}
QueueSubject == {"ana"}
QueueSubjectOf == [p \in QueueProposal |-> "ana"]
QueueHomeOf == [r \in QueueRecord |-> "ana"]
QueueRecordsOf == [p \in QueueProposal |-> IF p = "first" THEN {"r1"} ELSE {"r2"}]
QueueRevises == [p \in QueueProposal |-> "none"]

\* Strangers: the same, beside a write of another subject that takes down
\* every worker that tries it.
StrangersProposal == {"first", "second", "killer"}
StrangersRecord == {"r1", "r2", "r3"}
StrangersSubject == {"ana", "bob"}
StrangersSubjectOf == [p \in StrangersProposal |-> IF p = "killer" THEN "bob" ELSE "ana"]
StrangersHomeOf == [r \in StrangersRecord |-> IF r = "r3" THEN "bob" ELSE "ana"]
StrangersRecordsOf ==
  [p \in StrangersProposal |->
     CASE p = "first" -> {"r1"} [] p = "second" -> {"r2"} [] OTHER -> {"r3"}]
StrangersRevises == [p \in StrangersProposal |-> "none"]

\* Session: an ingested session of two rounds, and a statement after it.
SessionProposal == {"session", "remark"}
SessionRecord == {"round1", "round2", "said"}
SessionSubject == {"ana"}
SessionHomeOf == [r \in SessionRecord |-> "ana"]
SessionSubjectOf == [p \in SessionProposal |-> "ana"]
SessionRecordsOf ==
  [p \in SessionProposal |-> IF p = "session" THEN {"round1", "round2"} ELSE {"said"}]
SessionRevises == [p \in SessionProposal |-> "none"]

\* Plan: a revision of a version that may read as a plan, and a statement
\* that may correct that version or tell that the plan was carried out.
PlanProposal == {"revise", "event"}
PlanRecord == {"old", "plan", "done"}
PlanSubject == {"ana"}
PlanHomeOf == [r \in PlanRecord |-> "ana"]
PlanSubjectOf == [p \in PlanProposal |-> "ana"]
PlanRecordsOf == [p \in PlanProposal |-> IF p = "revise" THEN {"plan"} ELSE {"done"}]
PlanRevises == [p \in PlanProposal |-> IF p = "revise" THEN "old" ELSE "none"]
=============================================================================
