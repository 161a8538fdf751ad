\* A statement and a structured record, each sent twice under one key, with a fault and an erasure.
CONSTANTS
  c1 = c1
  c2 = c2
  s1 = s1
  s2 = s2
  NoCall = NoCall
  Call <- MCCall
  Key = {"key"}
  KeyOf <- MCKeyOf
  BodyOf <- MCBodyOf
  Uncompared = {"record"}
  MaxLosses = 1
  MaxErasures = 1
SPECIFICATION RequestSpec
CHECK_DEADLOCK FALSE
SYMMETRY Interchangeable
INVARIANTS OneCopyTakesEffect AnswerFits
