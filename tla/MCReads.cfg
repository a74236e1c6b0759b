SPECIFICATION Spec
CONSTANTS
    Entities = {1, 2, 3}
    Recs = {1, 2}
    Tenants = {1, 2, 3}
    Seeds <- MCSeeds
    NewRows <- MCNewRows
    Limits <- MCLimits
    StartTime = 4
    MaxTime = 5
    MaxChanges = 2
    Asked = {0, 1, 3}
    MaxPage = 2
    DefaultPage = 1
    Recent = 2
    Period = 2
    MinRecs = 1
    Dates <- MCDates
INVARIANTS    ImpactCountsEach ImpactAgrees FullMeansRefused HistoryInOrder
CHECK_DEADLOCK FALSE
