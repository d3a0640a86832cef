SPECIFICATION Spec
CONSTANTS
  None = None
  Lines <- MCLines
  Setups <- MCRaceSetups
  MapSize = 2
  BufCap = 3
  PipeCap = 4
  MaxJobs = 2
CHECK_DEADLOCK FALSE
INVARIANT ControlBack
