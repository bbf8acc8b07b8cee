SPECIFICATION LiveSpec
CONSTANTS
  MaxBlocks = 3
  MaxChanges = 1
  MaxFailures = 1
  SizesKnown <- MC_Both
  Fresh <- MC_Both
  Resumable <- MC_Both
  MayLock = TRUE
INVARIANTS DoneIsWhole CountedOnce
PROPERTY Decides
CHECK_DEADLOCK FALSE
