SPECIFICATION Spec
CONSTANTS
  n1 = n1
  n2 = n2
  gA = gA
  gB = gB
  gC = gC
  Nodes = {n1, n2}
  Groups = {gA, gB}
  Port <- MCPort
  KeepLast = TRUE
  MaxSends = 1
  MaxFinds = 2
  MaxEvents = 2
  MaxInputs = 3
CHECK_DEADLOCK FALSE
INVARIANT TypeOK
INVARIANT ListMatchesKernel
INVARIANT NoStrayReply
PROPERTY Delivered
