SPECIFICATION ClientsSpec
CONSTANTS
  Requests = {r1, r2}
  Leads = {lead1}
  Leases = {lease}
  Capsules = {c1}
  None = None
  MaxFence = 0
  MaxStateRevision = 5
  Clients = {k1, k2}
  MaxLost = 1
SYMMETRY Symmetry
CHECK_DEADLOCK FALSE
PROPERTIES
  ImplementsLedger
  ActsOnWhatItHolds
