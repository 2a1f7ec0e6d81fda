SPECIFICATION FairSpec
CONSTANTS
  MaxRelease = 2
  MaxDesired = 2
  MaxChanges = 2
  Commit <- MCCommit
INVARIANTS TypeOK RuntimeHasItsSchema
PROPERTIES NoBlindOverwrite ReleasesEnd
CHECK_DEADLOCK FALSE
