SPECIFICATION StoreSpec
CONSTANTS
  p = p
  a = a
  g = g
  h = h
  b = b
  cc = cc
  d = d
  k = k
  kk = kk
  ee = ee
  i1 = i1
  i2 = i2
  None = None
  s1 = s1
  s2 = s2

  Stores = {s1, s2}
  Engines = {"sqlite", "postgresql"}
  Objects = {p, a, g, b, cc, h, d, k, kk, ee}
  Content <- MCContent
  Meta <- MCMeta
  Refs <- MCRefs
  Items <- MCItems
  Depth <- MCDepth
  Policy <- MCPolicy
  Backing <- MCBacking
  GivenId <- MCGivenId
  Earlier <- MCEarlier
  Requests <- MCRequests
  MaxOps = 2
  MaxClock = 2
  FsckOnline = FALSE
SYMMETRY Interchangeable
INVARIANTS
  StoreTypeOK
  IngestsLikeSaves
  NoPartialStore
  CommittedSound
  CachesTrue
  SavesKept
PROPERTY
  StampsAdvance
CHECK_DEADLOCK FALSE
