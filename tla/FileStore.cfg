SPECIFICATION Spec
CONSTANTS
  i1 = i1
  i2 = i2
  p1 = p1
  p2 = p2
  NoProc = NoProc
  Ids <- MCIds
  Procs <- MCProcs
  Bindings <- MCBindings
  TTL = 1
  AccountCapacity = 2
  ModelCapacity = 2
  MaxStored = 1
  MaxNow = 1
  MaxRevision = 3
  Requests <- MCRequests
  MaxCrashes = 1
PROPERTIES ImplementsStore NoLateStart LockIsFreed
