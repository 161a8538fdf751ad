SPECIFICATION Spec
CONSTANTS
  Unset = Unset
  Kind <- MCKind
  Category <- MCCategory
  Known <- MCKnown
  Secret = "secret"
  Label <- MCLabel
  Specs <- MCSpecs
  Configs <- MCConfigs
  MaxSetting = 2
INVARIANTS
  GovernanceHolds
  RanksSomething
PROPERTIES
  StricterStaysStricter
  LooserKeepsCompiling
