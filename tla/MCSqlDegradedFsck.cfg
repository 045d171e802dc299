SPECIFICATION Spec
CONSTANTS
  s1 = s1
  s2 = s2
  s3 = s3
  o1 = o1
  o2 = o2
  f1 = f1
  m1 = m1
  m2 = m2
  a = a
  b = b
  x = x
  tm = tm
  ta = ta
  tb = tb
  None = None
  Stores = {s1, s2, s3}
  Saves = {o1, o2}
  Fscks = {f1}
  Records <- Chain
  Types = {tm, ta, tb}
  Type <- ChainType
  Refs <- ChainRefs
  Items <- ChainItems
  EntryTypes = {tm}
  FsckDies = TRUE
SYMMETRY Interchangeable
INVARIANTS
  VisibleMeansComplete
CHECK_DEADLOCK FALSE
