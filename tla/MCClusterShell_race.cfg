SPECIFICATION Spec
CONSTANTS
  c1 = c1
  c2 = c2
  c3 = c3
  c4 = c4
  h1 = h1
  None = None
  Clients = {c1, c2, c3, c4}
  Hosts = {h1}
  HostOf <- MCHostOf
  PortOf <- MCPortOf
  IpOf <- MCIpOf
  Lines <- MCLines
  DigitLines <- MCDigitLines
  Numbers = {2}
  Silent = {"cd"}
  Cut = "cut"
  Setups <- MCRaceSetups
CHECK_DEADLOCK FALSE
INVARIANT ActiveWhenConnected
