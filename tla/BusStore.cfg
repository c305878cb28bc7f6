SPECIFICATION Spec
CONSTANTS
    Partitions = {p1}
    Groups = {g1}
    Generations = {v1}
    Requests <- MCRequests
    Managed = {"x"}
    Digests = {d1, d2}
    Bodies = {s1}
    Runs = {r1, r2}
    HardHeaders = 3
    MaxBatch = 2
    MaxAttempts = 2
    LeaseTime = 1
    Backoff <- MCBackoff
    HeaderKeep <- MCHeaderKeep
    PayloadKeep <- MCPayloadKeep
    Never = Never
    MaxTime = 3
    a = a
    p1 = p1
SYMMETRY MCSymmetry
INVARIANTS NothingSkipped AppliedInOrder HandedOutBounded GapIsKnown BodyFollowsEvents ProducerOrder
PROPERTY SettledIsFinal
CHECK_DEADLOCK FALSE
