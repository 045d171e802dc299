SPECIFICATION StoresSpec
CONSTANTS
  o1 = o1 o2 = o2 i1 = i1 i2 = i2
  None = None
  Procs <- MCProcs
  Deployments = {}
  Schema <- MCSchema
  Addable = {"note", "size"}
  Ids <- MCIds
  MaxOpens = 2
  MaxRows = 3
  MaxFaults = 2
  MaxDeaths = 1
  FaultsAt <- MCFaultsAt
  Null = Null
  Writers = {"w1", "w2"}
  LinkPairs <- MCLinkPairs
  Sources <- MCSources
  Targets <- MCTargets
  Linked <- MCLinked
  Atoms <- MCAtoms
  Scopes <- MCScopes
  MaxSize = 4
  LinkProbes <- MCLinkProbes
  LinkScopes <- MCLinkScopes
  Engines = {}
  MaxLinkCalls = 3
  MaxClock = 2
  Missing = Missing
  PageRows <- MCPageRows
  LateRows <- MCLateRows
  Outputs <- MCOutputs
  Requests <- MCRequests
  PageSizes = {1, 2}
  MaxOrders = 2
  MaxLeaves = 1
  Absent = Absent
  Union <- MCUnion
  Limits = {}
  MaxConditions = 2
  MaxSlices = 2
  MaxOffset = 2
  Streams <- MCStreams
  EntryIds = {}
  EntryKeys <- MCEntryKeys
  Sorts = {}
  Sizes = {1}
  MaxInstant = 0
  MaxSaves = 3
INVARIANT EveryWalkPartitions
CHECK_DEADLOCK FALSE
