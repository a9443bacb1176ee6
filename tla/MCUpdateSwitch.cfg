SPECIFICATION FairSpec
CONSTANTS
  fingerprint = fingerprint
  executable = executable
  versions = versions
  r1 = r1
  r2 = r2
  None = None
  Entries <- Package
  Program = executable
  Versions = versions
  Fingerprint = fingerprint
  Bundled = {executable, versions}
  MaxStartAttempts = 3
  Requests = {r1, r2}
  MaxFaults = 2
INVARIANTS
  TypeOK
  ProgramIsWhole
  SwitchIsJudged
PROPERTIES
  SwitchSettles
CHECK_DEADLOCK FALSE
