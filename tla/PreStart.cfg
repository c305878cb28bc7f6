SPECIFICATION PreSpec
CONSTANTS
  Requests = {r1}
  Leads = {lead1}
  Leases = {l1}
  Capsules = {c1}
  None = None
  MaxFence = 1
  MaxStateRevision = 0
  Req = r1
  Lead = lead1
  Lease = l1
  MaxFaults = 5
  MaxOthers = 2
CHECK_DEADLOCK FALSE
INVARIANTS
  RolledBackIsClean
  CompensatedCanEnd
  GrantedIsComplete
PROPERTIES KeptInQuarantine
