\* Two runs, to one of two targets each, a process that stays on its model, an abort and an interruption.
CONSTANTS
  Records = 2
  Process = {p1}
  Run = {x1, x2}
  Identity <- MCIdentity
  NoIdentity = "none"
  NameOf <- MCNameOf
  DimOf <- MCDimOf
  First = "a"
  Target = {"b", "c", "a prefixed"}
  Batch = 1
  MaxPasses = 2
  Recheck = 2
  MaxRuns = 3
  MaxCrashes = 1
  MaxAborts = 1
SPECIFICATION ReembedSpec
SYMMETRY Interchangeable
INVARIANTS OneModel StaleRefused
PROPERTIES NoVectorLost
