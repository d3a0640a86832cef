SPECIFICATION SafeSpec
CONSTANTS
  Pids = {p1, p2, p3, p4, p5, p6}
  Conns = {c1, c2, c3}
  MinSpareServers = 1
  MaxSpareServers = 2
  MaxRequestsPerChild = 2
  SpawnCap = 32
  QueueCap = 2
  Backlog = 2
  Faults = {"peer", "accept", "fork", "quit", "quitparent"}
  NoConn = NoConn
SYMMETRY Symmetry
INVARIANTS LookupsFound CountersMatchTable
PROPERTIES KillsOnlyParked ServiceSafe
CHECK_DEADLOCK FALSE
