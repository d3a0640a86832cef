SPECIFICATION Spec
CONSTANTS
  u1 = u1
  u2 = u2
  grpA = grpA
  p1 = p1
  p2 = p2
  p3 = p3
  p4 = p4
  NoUser = NoUser
  NoGroup = NoGroup
  Users = {u1, u2}
  GroupNames = {grpA}
  Procs = {p1, p2, p3, p4}
  Owner <- MCOwner
  Setups <- MCSetups
  QueueCap = 4
CHECK_DEADLOCK FALSE
INVARIANT TypeOK
INVARIANT OwnAnswers
INVARIANT OnceInOrder
PROPERTY CrashCauses
PROPERTY Delivered
