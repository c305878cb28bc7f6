SPECIFICATION Spec
CONSTANTS
  Ops = {1, 2}
  Fenced = {1}
  Mutating = {1}
  LeaseTime = 1
  Lifetime = 2
  MaxAttempts = 2
  MaxReconcile = 1
  MaxTime = 2
  MaxGen = 1
  MaxEpoch = 1
  Executors = {e1}
  Limited = {e1}
  MaxAccepted = 2
  MaxReceipts = 1
INVARIANT JournalReadable
CHECK_DEADLOCK FALSE
