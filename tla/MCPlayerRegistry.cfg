SPECIFICATION FairSpec
CONSTANTS
  a1 = a1
  a2 = a2
  c1 = c1
  c2 = c2
  s1 = s1
  s2 = s2
  Accounts = {a1, a2}
  Callers = {c1, c2}
  Slots = {s1, s2}
  NoSlot = NoSlot
  LoadWorkers = 1
  LoadQueue = 1
  MaxResident = 1
  IdleLimit = 1
INVARIANTS
  TypeOK
  OneWriter
  LeasedStaysOpen
  ClosedIsClosed
PROPERTIES
  CallsReturn
  IdleIsUnloaded
CHECK_DEADLOCK FALSE
