SPECIFICATION Spec
CONSTANTS
  s1 = s1 s2 = s2
  g = g h = h dd = dd v = v w = w u = u
  cg = cg ch = ch cd = cd cv = cv cu = cu
  X = X None = None
  Stores <- MCStores
  Objects <- MCObjects
  Content <- MCContent
  Refs <- MCRefs
  Listed <- MCListed
  Policy <- MCPolicy
  Entries <- MCEntries
  GivenId <- MCGivenId
  Calls <- MCCalls
  MaxCalls = 2
  MaxFaults = 1
  MaxFsck = 1
  Attempts = 2
  Deployments <- MCDeployments
  FsckDiesAt = {"repair", "end"}
SYMMETRY MCSymmetry
INVARIANTS
  TypeOK
  DocumentsWhole
  SavesStay
  CachesTrue
  FsckRestores
CHECK_DEADLOCK FALSE
