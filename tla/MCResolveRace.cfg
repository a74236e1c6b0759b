SPECIFICATION Spec
CONSTANTS
    Requests = {r1, r2, r3}
    Identifiers = {i1, i2, i3}
    ValueOf <- OwnValues
    Seeded = 2
    MaxEntity = 5
    Limit = 4
    Counted = {0, 3}
    Served = {"resolve", "link", "erase"}
    MaxInFlight = 2
SYMMETRY Symmetry
INVARIANTS MergedIntoOlder TrailReachesSurvivor QuotaOverrunBounded
PROPERTIES RelinkOnlyByMerge
