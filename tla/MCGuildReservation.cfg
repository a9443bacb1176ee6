SPECIFICATION Spec
CONSTANTS
  p1 = p1
  p2 = p2
  p3 = p3
  g1 = g1
  g2 = g2
  n1 = n1
  n2 = n2
  o1 = o1
  o2 = o2
  o3 = o3
  o4 = o4
  None = None
  Accounts = {p1, p2, p3}
  Guilds = {g1, g2}
  Names = {n1, n2}
  Operations = {o1, o2, o3}
  MaxMembers = 2
  PanicsHappen = FALSE
  MaxFaults = 1
SYMMETRY Symmetry
INVARIANTS
  TypeOK
  ConfirmedHasProof
  CancelledHasNoProof
  GuildsCoherent
  LocksAreHeld
  OneMaster
CHECK_DEADLOCK FALSE
