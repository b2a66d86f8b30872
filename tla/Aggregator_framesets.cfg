CONSTANTS
  Types = {2, 3, 8}
  ColorTypes = {2}
  NormalSize = 2
  RateFirst = TRUE
  OutputModes = {"all", "color", "disable"}
  Setups <- PeriodicAndWild
  MaxFrames = 4
  Period = 4
  Jitter = 1
  MaxStamp = 3
SPECIFICATION FairSpec
INVARIANTS FrontsExist RestIsSettled StreamsIntact CompleteUnlessOverflow NeverMixesPeriods
PROPERTY PushReturns
CHECK_DEADLOCK FALSE
