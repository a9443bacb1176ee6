SPECIFICATION LiveSpec
CONSTANTS
  a1 = a1
  a2 = a2
  e1 = e1
  e2 = e2
  w1 = w1
  w2 = w2
  Order <- TwoAccounts
  Ids = {e1, e2}
  Workers = {w1, w2}
  QueueSize = 1
  MaxPending = 2
  PageSize = 2
  MaxCommands = 2
  MaxFaults = 1
INVARIANTS
  TypeOK
  OneDelivery
  NothingLost
  WakeNotLost
PROPERTIES
  ImplementsEventLog
  PublishedTakesEffect
CHECK_DEADLOCK FALSE
