\* Two reviewers, a revision and a rival that waits for review too or is committed by the pipeline, a crash, an expiry.
CONSTANTS
  A = A
  B = B
  Rival = Rival
  NoRecord = NoRecord
  Record <- MCRecord
  Revises <- MCRevises
  Call = {c1, c2}
  Original = {A}
  Direct = {Rival}
  Expiring = {A, B}
  MaxCrashes = 1
SPECIFICATION Spec
CHECK_DEADLOCK FALSE
SYMMETRY AnyCall
INVARIANTS OneSuccessor DecisionsAudited
PROPERTIES FinalStatesStay
