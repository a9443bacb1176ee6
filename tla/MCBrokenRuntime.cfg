SPECIFICATION BSpec
CONSTANTS
  a1 = a1
  client = client
  dispatcher = dispatcher
  s1 = s1
  s2 = s2
  Accounts = {a1}
  Callers = {client, dispatcher}
  Dispatcher = dispatcher
  Slots = {s1, s2}
  NoSlot = NoSlot
  LoadWorkers = 1
  LoadQueue = 1
  MaxResident = 1
  IdleLimit = 2
PROPERTY BrokenIsReplaced
CHECK_DEADLOCK FALSE
