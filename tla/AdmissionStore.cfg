SPECIFICATION Spec
CONSTANTS
  i1 = i1
  i2 = i2
  i3 = i3
  Ids <- MCIds
  Bindings <- MCBindings
  TTL = 1
  AccountCapacity = 2
  ModelCapacity = 1
  MaxRevision = 3
  MaxNow = 1
SYMMETRY Symmetry
INVARIANT Safety
PROPERTIES NeverReactivated
