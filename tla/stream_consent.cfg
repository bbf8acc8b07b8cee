SPECIFICATION Spec
CONSTANTS
  MaxBlocks = 2
  MaxChanges = 0
  MaxFailures = 1
  SizesKnown <- MC_Yes
  Fresh <- MC_Yes
  Resumable <- MC_Yes
  MayLock = FALSE
PROPERTY OverwritesByConsent
CHECK_DEADLOCK FALSE
