\* Two sessions, attempts that crash, fail or outlive their lease, and erasures meanwhile.
CONSTANTS
  Jobs = 2
  Round <- MCRound
  Worker = {w1, w2}
  RoundsOf <- MCRoundsOf
  Tellable <- MCTellable
  Expiring = {"moved"}
  Forgotten = {"hello"}
  MaxAttempts = 2
  MaxFaults = 1
  MaxCopies = 3
SPECIFICATION FairSpec
CHECK_DEADLOCK FALSE
INVARIANTS FactsOnce OneAtATime OnlyRacedComeBack
PROPERTIES EveryJobEnds
