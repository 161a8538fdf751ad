\* One forget of every scope, and retention, beside two writes and the traces they leave.
CONSTANTS
  Write = {"round", "note"}
  Attr <- MCAttr
  RecallOf <- MCRecallOf
  LinkOf <- MCLinkOf
  Forgets = {f1}
  Targets <- MCTargets
  None = None
  Batch = 1
  Extra = 1
  MaxTraces = 1
  MaxSlow = 1
SPECIFICATION ErasureSpec
CHECK_DEADLOCK FALSE
INVARIANTS ErasedForGood TracesErased VectorsHaveCause
