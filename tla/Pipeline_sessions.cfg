CONSTANTS
  depth = depth
  color = color
  App = App
  Nobody = Nobody
  Sensors = {depth, color}
  Configs <- DepthAndColor
  Capacity = 2
  StartFails = TRUE
  BadConfig = TRUE
  NullConfig = TRUE
  MaxSessions = 2
  MaxFramesets = 5
SPECIFICATION FairSpec
INVARIANTS RestartIsClean ChecksHold SensorsMatchState
PROPERTIES SinkAsAsked StreamSpec CallsReturn
CHECK_DEADLOCK FALSE
