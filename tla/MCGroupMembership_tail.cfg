SPECIFICATION Spec
CONSTANTS
  n1 = n1
  n2 = n2
  gA = gA
  gB = gB
  gC = gC
  Nodes = {n1, n2}
  Groups = {gA, gB, gC}
  Port <- MCPort
  KeepLast = FALSE
  MaxSends = 0
  MaxFinds = 0
  MaxEvents = 0
  MaxInputs = 0
CHECK_DEADLOCK FALSE
INVARIANT Discoverable
