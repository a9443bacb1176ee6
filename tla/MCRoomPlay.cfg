SPECIFICATION FairSpec
CONSTANTS
  first = first
  second = second
  Accounts = {first, second}
  Rooms = {1, 2}
  QueueLength = 1
  Setups <- Cases
  None = None
INVARIANTS
  TypeOK
  ResultsAreKept
PROPERTIES
  RoomsSettle
CHECK_DEADLOCK FALSE
