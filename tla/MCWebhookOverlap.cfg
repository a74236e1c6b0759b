SPECIFICATION Spec
CONSTANTS
    Deliveries = {d1, d2}
    Sessions = {s1}
    MaxSubs = 2
    MaxLive = 1
    MaxEvents = 2
    Faults = {"db", "claimReply", "writeReply", "release", "expiry", "crash"}
    MaxFaults = 2
    InOrder = FALSE
    Overlap = TRUE
    LoginsOverlap = TRUE
SYMMETRY Symmetry
INVARIANTS ClaimExclusive
CHECK_DEADLOCK FALSE
