SPECIFICATION Spec
CONSTANTS
    Deliveries = {d1, d2}
    Sessions = {s1}
    MaxSubs = 2
    MaxLive = 1
    MaxEvents = 4
    Faults = {"db", "expiry", "writeReply"}
    MaxFaults = 2
    InOrder = TRUE
    Overlap = FALSE
    LoginsOverlap = FALSE
INVARIANTS AckedWasHandled StatusFollowsStripe NoticesNeedSubscription SessionsCurrent
PROPERTIES EveryEventHandled ImplementsEntitlement
CHECK_DEADLOCK FALSE
