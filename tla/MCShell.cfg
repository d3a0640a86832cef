SPECIFICATION Spec
CONSTANTS
  None = None
  Lines <- MCLines
  Setups <- MCSetups
  MapSize = 2
  BufCap = 3
  PipeCap = 4
  MaxJobs = 3
CHECK_DEADLOCK FALSE
INVARIANT TypeOK
INVARIANT Routed
INVARIANT ControlBackUnlessRaced
INVARIANT MapFaithful
PROPERTY Finishes
