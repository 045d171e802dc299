SPECIFICATION StoresSpec
CONSTANTS
  o1 = o1 o2 = o2 i1 = i1 i2 = i2
  None = None
  Procs <- MCProcs
  Deployments = {}
  Schema <- MCSchema
  Addable = {"note", "size"}
  Ids <- MCIds
  MaxOpens = 2
  MaxRows = 3
  MaxFaults = 2
  MaxDeaths = 1
  FaultsAt <- MCFaultsAt
  Null = Null
  Writers = {"w1", "w2"}
  LinkPairs <- MCLinkPairs
  Sources <- MCSources
  Targets <- MCTargets
  Linked <- MCLinked
  Atoms <- MCAtoms
  Scopes <- MCScopes
  MaxSize = 4
  LinkProbes <- MCLinkProbes
  LinkScopes <- MCLinkScopes
  Engines = {}
  MaxLinkCalls = 3
  MaxClock = 2
  Missing = Missing
  PageRows <- MCPageRows
  LateRows <- MCLateRows
  Outputs <- MCOutputs
  Requests = {}
  PageSizes = {1, 2}
  MaxOrders = 2
  MaxLeaves = 1
  Absent = Absent
  Union <- MCUnion
  Limits = {}
  MaxConditions = 2
  MaxSlices = 2
  MaxOffset = 2
  Streams <- MCStreams
  EntryIds = {1, 2}
  EntryKeys <- MCEntryKeys
  Sorts <- MCSorts
  Sizes = {1}
  MaxInstant = 3
  MaxSaves = 3
INVARIANT SnapshotKept
CHECK_DEADLOCK FALSE
