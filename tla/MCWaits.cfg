SPECIFICATION WaitsSpec
CONSTANTS
  w1 = w1
  w2 = w2
  f1 = f1
  f2 = f2
  s1 = s1
  s2 = s2
  None = None
  Stores <- MCStores
  Writers <- MCWriters
  Latecomers = {s2}
  SlowWriters = {}
  Fscks <- MCFscks
  Forced = {f2}
  MaxDeaths = 1
INVARIANTS
  TypeOK
  FsckExcludesWriters
  OneFsck
  ReferencesResolve
  SavesObserveSweeps
  LeasesOwned
PROPERTIES
  DrainEnds
  IngestEnds
CHECK_DEADLOCK FALSE
