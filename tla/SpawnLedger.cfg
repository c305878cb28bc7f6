SPECIFICATION Spec
CONSTANTS
  Requests = {r1, r2, r3}
  Leads = {lead1, lead2}
  Leases = {lease}
  Capsules = {c1}
  None = None
  MaxFence = 1
  MaxStateRevision = 14
SYMMETRY Symmetry
CONSTRAINT FailuresOnlyAlone
CHECK_DEADLOCK FALSE
INVARIANTS
  CapsuleResumedOnce
  ResumedBehindItsSource
  EndedWithCapsule
PROPERTIES
  LedgerOnlyGrows
  JournalDecidesTheEnd
