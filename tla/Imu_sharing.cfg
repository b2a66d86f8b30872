CONSTANTS
  Sensors = {accel, gyro}
  Profiles = {p1, p2}
  NoProfile = NoProfile
  Leading = 1
  Tries = 2
  MaxStarts = 3
  MaxPackets = 3
  FilterSize = 2
SPECIFICATION Spec
SYMMETRY Symmetry
INVARIANTS StartedIsServed UnusedIsOff LeadingDiscarded
CHECK_DEADLOCK FALSE
