\* Two administrators, two operations on one cache, two ticks, two activations, and a
\* restart that may change the governance.
SPECIFICATION Spec
CONSTANTS
  Engine <- MCEngine
  Task = {t1, t2}
  Admin = {dana, eli}
  Governance <- MCGovernance
  NoGovernance = "none"
  EngineOf <- MCEngineOf
  Versions = 1
  Compiles <- MCCompiles
  Refresh = 1
  MaxStall = 1
  MaxClock = 2
  MaxActivations = 2
  MaxRestarts = 1
SYMMETRY Interchangeable
INVARIANTS KeptBeforeUsed GovernanceWins ApprovedOnceFirst
PROPERTIES PickedUp
