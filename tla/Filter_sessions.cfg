CONSTANTS
  Capacity = 2
  Overlap = FALSE
  MaxFrames = 4
  MaxConfig = 1
SPECIFICATION FairSpec
INVARIANTS NothingLost TerminatesOnlyByThrow ConfigNotOlderThanFrame
PROPERTIES ResetReturns RelaySpec
CHECK_DEADLOCK FALSE
