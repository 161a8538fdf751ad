\* A revision that may be held as a plan, and an event that may correct the version it revises or confirm the plan.
CONSTANTS
  Proposal <- PlanProposal
  Record <- PlanRecord
  Subject <- PlanSubject
  Worker = {w1, w2}
  Stored = {"old"}
  NoRecord = "none"
  NoProposal = "no proposal"
  SubjectOf <- PlanSubjectOf
  HomeOf <- PlanHomeOf
  RecordsOf <- PlanRecordsOf
  Revises <- PlanRevises
  Rounds = {}
  Reviewed = {}
  Expiring = {}
  Verdict = {"committed", "held", "rejected"}
  Fatal = {}
  Forgotten = {"old", "done"}
  Erasable = {}
  MaxAttempts = 2
  MaxFaults = 1
  AttemptCap = 2
SPECIFICATION Spec
CHECK_DEADLOCK FALSE
SYMMETRY Interchangeable
INVARIANTS RevisionLinked
PROPERTIES StoredOnce
