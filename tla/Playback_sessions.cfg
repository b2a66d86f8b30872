CONSTANTS
  depth = depth
  color = color
  Sensors = {depth, color}
  File <- DepthAndColor
  Capacity = 3
  MaxStarts = 2
  MaxControls = 2
SPECIFICATION FairSpec
INVARIANTS StaleFramesAreFew RewoundWhenStopped
PROPERTIES PlayingGoesOn CallsReturn
CHECK_DEADLOCK FALSE
