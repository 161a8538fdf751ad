\* Two writes of one subject, and a write of another that takes down every worker; an attempt may crash or
\* outlive its lease.
CONSTANTS
  Proposal <- StrangersProposal
  Record <- StrangersRecord
  Subject <- StrangersSubject
  Worker = {w1, w2}
  Stored = {}
  NoRecord = "none"
  NoProposal = "no proposal"
  SubjectOf <- StrangersSubjectOf
  HomeOf <- StrangersHomeOf
  RecordsOf <- StrangersRecordsOf
  Revises <- StrangersRevises
  Rounds = {}
  Reviewed = {}
  Expiring = {}
  Verdict = {"rejected"}
  Fatal = {"killer"}
  Forgotten = {}
  Erasable = {}
  MaxAttempts = 1
  MaxFaults = 1
  AttemptCap = 2
SPECIFICATION FairSpec
CHECK_DEADLOCK FALSE
PROPERTIES EveryWriteEnds
