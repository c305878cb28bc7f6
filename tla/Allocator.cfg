SPECIFICATION Spec
CONSTANTS
  Threads = {t1, t2}
  Reservations = {r1, r2}
  Accounts = {a1}
  AccountOf <- MCAccountOf
  Units = {1}
  MaxRevision = 2
  MaxFailures = 2
  None = None
CHECK_DEADLOCK FALSE
INVARIANTS
  BooksAgree
  GuardedLeaseIsLive
  LeasesWithinCapacity
  RevokeIsKept
PROPERTIES
  CallsReturn
