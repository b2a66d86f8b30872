CONSTANTS
  depth = depth
  color = color
  ir = ir
  App = App
  Nobody = Nobody
  Producers = {depth, color}
  Deleters = {d1}
  Managers = {1, 2}
  ManagerOf <- DepthAndColor
  Size <- Sizes
  Buffers = {1, 2, 3}
  MaxIdle = 1
  Limits = {3}
  AppFrees = FALSE
SPECIFICATION FairSpec
PROPERTIES CallsReturn
CHECK_DEADLOCK FALSE
