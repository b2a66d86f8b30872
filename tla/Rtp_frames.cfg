CONSTANTS
  Sizes = {2, 3}
  MaxCount = 3
  MaxFrames = 3
  MaxStarts = 2
  MaxFaults = 2
  QueueSize = 1
SPECIFICATION FairSpec
INVARIANTS WholeUnlessStartLost IntactIsDelivered
PROPERTY StopReturns
CHECK_DEADLOCK FALSE
