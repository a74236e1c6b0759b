SPECIFICATION Spec
CONSTANTS
    Deliveries = {d1, d2}
    Sessions = {}
    MaxSubs = 2
    MaxLive = 1
    MaxEvents = 3
    Faults = {}
    MaxFaults = 0
    InOrder = TRUE
    Overlap = FALSE
    LoginsOverlap = FALSE
SYMMETRY Symmetry
PROPERTIES ApplyPlanClears
CHECK_DEADLOCK FALSE
