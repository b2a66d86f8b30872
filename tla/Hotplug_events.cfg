SPECIFICATION FairHotplugSpec
CONSTANTS
  Ports = {p, q}
  Users = {u, v}
  MaxPlugs = 2
  MaxDevices = 2
INVARIANT DevicesArePresent
PROPERTY ListSettles
CHECK_DEADLOCK FALSE
