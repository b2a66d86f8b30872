CONSTANTS
  depth = depth
  color = color
  ir = ir
  App = App
  Nobody = Nobody
  Producers = {depth, ir, color}
  Deleters = {d1, d2}
  Managers = {1, 2}
  ManagerOf <- DepthIrAndColor
  Size <- Sizes
  Buffers = {1, 2, 3, 4}
  MaxIdle = 1
  Limits = {2, 4}
  AppFrees = TRUE
SPECIFICATION Spec
INVARIANTS UsedIsAccounted DyingIsUntouched NoneIdleAtRetry
CHECK_DEADLOCK FALSE
