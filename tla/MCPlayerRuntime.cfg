SPECIFICATION FairSpec
CONSTANTS
  i1 = i1
  i2 = i2
  d1 = d1
  d2 = d2
  Identities = {i1, i2}
  Digests = {d1, d2}
  CommandBytes <- BodyBytes
  RecoveryBytes = 1
  MaxCommands = 2
  MaxBytes = 3
  CompletedReceipts = 1
  Recoverable = TRUE
  NoIdentity = NoIdentity
  NoDigest = NoDigest
  MaxAccepted = 3
  MaxGeneration = 3
INVARIANTS
  TypeOK
  MailboxAccounting
  ReceiptsCoherent
  AnswerIsOwnRequest
  FailureEndsGeneration
PROPERTY ImplementsAcceptedWork
CHECK_DEADLOCK FALSE
