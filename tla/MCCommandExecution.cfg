SPECIFICATION Spec
CONSTANTS
  i1 = i1
  login = login
  d1 = d1
  d2 = d2
  Identities = {i1, login}
  Exempt = {login}
  Digests = {d1, d2}
  Rival = Rival
  NoCommand = NoCommand
  LockHonoured = FALSE
  MaxLog = 3
  MaxEpoch = 3
INVARIANTS
  TypeOK
  AppliedAtMostOnce
  MemoryIsCommitted
  WritersFenced
PROPERTY ImplementsExactlyOnce
CHECK_DEADLOCK FALSE
