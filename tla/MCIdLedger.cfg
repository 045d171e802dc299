SPECIFICATION FairSpec
CONSTANTS
  f1 = f1
  f2 = f2
  b1 = b1
  b2 = b2
  None = None
  Procs = {p1, p2}
  Signers = {p1, p2}
  Keys = {k1, k2}
  Families <- MCFamilies
  BaseNames <- MCBaseNames
  Schemes <- MCSchemes
  MaxRows = 4
  MaxSegments = 3
INVARIANTS
  TypeOK
  LockOwned
  SessionCurrent
  DurableValid
PROPERTIES
  AppendOnly
  ImplementsRegistry
  SessionEnds
