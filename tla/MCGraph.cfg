SPECIFICATION Spec
CONSTANTS
    Recency <- Decay
    Today = 2
    Weight <- MCWeight
    Requests = {1, 2, 3}
    Entities = {1, 2}
    Items <- MCItems
    MaxBatch = 2
    Seeded <- MCSeeded
    Lookback = 3
    MinSuccess = 1
    Served = {"log", "batch", "recommend", "feedback"}
    MaxInFlight = 2
    MaxMerges = 1
    MaxFaults = 1
INVARIANTS AnswersNameTheirRows UsageCountsRows FeedbackOfItsPerson OutcomesMoveTheRanking
PROPERTIES KnownRefsNotRelogged 
CHECK_DEADLOCK FALSE
