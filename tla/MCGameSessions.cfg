SPECIFICATION FairSpec
CONSTANTS
  mine = mine
  other = other
  first = first
  second = second
  Accounts = {mine, other}
  Logins = {first, second}
  Setups <- Cases
  Requests = {q}
  Tickets = {t1, t2}
  Relays = {c1, c2}
  Channels = {matching}
  TicketsPerAccount = 1
  MaxGeneration = 1
  None = None
INVARIANTS
  TypeOK
  AccessIsCoherent
PROPERTIES
  StaleRelaysEnd
CHECK_DEADLOCK FALSE
