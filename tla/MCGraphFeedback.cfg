SPECIFICATION Spec
CONSTANTS
    Recency <- Decay
    Today = 2
    Weight <- MCWeight
    Requests = {1, 2, 3}
    Entities = {1, 2}
    Items <- MCItems
    MaxBatch = 1
    Seeded <- MCSeeded
    Lookback = 3
    MinSuccess = 1
    Served = {"recommend", "feedback"}
    MaxInFlight = 1
    MaxMerges = 0
    MaxFaults = 0
INVARIANTS FeedbackMovesWeight
CHECK_DEADLOCK FALSE
