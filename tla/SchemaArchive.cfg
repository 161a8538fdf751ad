\* A store of the old release upgraded by two builds while the old one writes, then exported and imported twice.
CONSTANTS
  Process = {"old", "new", "other"}
  Build <- MCBuild
  Config <- MCConfig
  RowId = {1, 2, 3}
  OldRows = {1, 2}
  Batch = 1
  None = None
  Page = 1
  Chunk = 2
  Joining = {1, 3}
  Held = {2}
  OtherBuild = 2
SPECIFICATION Spec
CHECK_DEADLOCK FALSE
INVARIANTS UpgradeIsSound ExportComplete ImportRepeatable
PROPERTY VersionOnlyRises
