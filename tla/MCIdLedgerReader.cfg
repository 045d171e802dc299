SPECIFICATION Spec
CONSTANTS
  f1 = f1
  f2 = f2
  b1 = b1
  b2 = b2
  None = None
  Procs = {p1, p2}
  Signers = {p1}
  Keys = {k1}
  Families <- MCFamilies
  BaseNames <- MCBaseNames
  Schemes <- MCSchemes
  MaxRows = 2
  MaxSegments = 3
INVARIANTS
  ReadOnlyOpenSucceeds
