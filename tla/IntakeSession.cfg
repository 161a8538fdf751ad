\* An ingested session of two rounds and a later statement, two workers, one fault, poison
\* after one attempt; a round may be forgotten and the subject erased.
CONSTANTS
  Proposal <- SessionProposal
  Record <- SessionRecord
  Subject <- SessionSubject
  Worker = {w1, w2}
  Stored = {}
  NoRecord = "none"
  NoProposal = "no proposal"
  SubjectOf <- SessionSubjectOf
  HomeOf <- SessionHomeOf
  RecordsOf <- SessionRecordsOf
  Revises <- SessionRevises
  Rounds = {"session"}
  Reviewed = {}
  Expiring = {}
  Verdict = {"committed", "rejected"}
  Fatal = {}
  Forgotten = {"round1"}
  Erasable = {"ana"}
  MaxAttempts = 1
  MaxFaults = 1
  AttemptCap = 3
SPECIFICATION Spec
CHECK_DEADLOCK FALSE
SYMMETRY Interchangeable
INVARIANTS SubjectOrder ErasureIsFinal ForgetNeverMisses QueueSafe
PROPERTIES LandsInOrder ImplementsWriteLog
