SPECIFICATION Spec
CONSTANTS
  s1 = s1
  s2 = s2
  s3 = s3
  o1 = o1
  o2 = o2
  f1 = f1
  m1 = m1
  m2 = m2
  a = a
  b = b
  x = x
  tm = tm
  ta = ta
  tb = tb
  None = None
  Stores = {s1, s2, s3}
  Saves = {o1, o2}
  Fscks = {f1}
  Records <- Entries
  Types = {tm, ta}
  Type <- EntryType
  Refs <- EntryRefs
  Items <- EntryItems
  EntryTypes = {tm}
  FsckDies = FALSE
SYMMETRY Interchangeable
INVARIANTS
  TypeOK
  OneWriter
  MainsComplete
  CrashResidueSwept
  ClaimsSound
  SavesStay
CHECK_DEADLOCK FALSE
