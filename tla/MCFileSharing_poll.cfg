SPECIFICATION Spec
CONSTANTS
  n1 = n1
  n2 = n2
  n3 = n3
  gA = gA
  gB = gB
  gC = gC
  f1 = f1
  f2 = f2
  None = None
  Nodes = {n1, n2, n3}
  Groups = {gA, gB, gC}
  Files = {f1, f2}
  Setups <- MCPollSetups
  MaxFiles = 2
  MaxGroups = 3
CHECK_DEADLOCK FALSE
INVARIANT InSync
