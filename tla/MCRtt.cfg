SPECIFICATION Spec
CONSTANTS
  a1 = a1
  b1 = b1
  AllIPs = {a1, b1}
  Setups <- MCSetups
  NoIp = NoIp
INVARIANT TypeOK
INVARIANT UniqueJobs
INVARIANT OwnSlot
INVARIANT FullReport
INVARIANT PopsWhatItSent
PROPERTY Completes
PROPERTY AlarmEnds
