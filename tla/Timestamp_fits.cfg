SPECIFICATION FairFitSpec
CONSTANTS
  Callers = {app, sync}
  Switcher = app
  Nobody = nobody
  Clocks = {1, 2, 3}
  FirstClock = 2
  MinSamples = 2
  Refill = 2
  MaxQueue = 2
  MaxSwitches = 3
INVARIANT FitIsSound
PROPERTIES FitSettles FitCallsReturn
CHECK_DEADLOCK FALSE
