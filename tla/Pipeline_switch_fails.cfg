CONSTANTS
  depth = depth
  color = color
  App = App
  Nobody = Nobody
  Sensors = {depth, color}
  Configs <- DepthAndColor
  Capacity = 1
  StartFails = TRUE
  BadConfig = FALSE
  NullConfig = FALSE
  MaxSessions = 2
  MaxFramesets = 1
SPECIFICATION FairSpec
PROPERTY SwitchReturns
CHECK_DEADLOCK FALSE
