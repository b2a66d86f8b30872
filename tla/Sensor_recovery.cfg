CONSTANTS
  Recoveries = {TRUE, FALSE}
  MaxRecovery = 2
  Profiles = {"known", "unknown"}
  UserStops = TRUE
  StartFails = TRUE
  StopFails = TRUE
  SlowStart = TRUE
  MaxStarts = 3
SPECIFICATION FairSpec
INVARIANTS RestartKeepsStream RestartsAreBounded StateTellsBackend
PROPERTIES RecoveryEnds CallsReturn
CHECK_DEADLOCK FALSE
