SPECIFICATION Spec
CONSTANTS
    Requests = {r1, r2, r3}
    Identifiers = {i1, i2, i3}
    ValueOf <- OneValue
    Seeded = 2
    MaxEntity = 5
    Limit = 2
    Counted = {0}
    Served = {"resolve", "link", "log", "erase"}
    MaxInFlight = 1
SYMMETRY Symmetry
INVARIANTS LinkedToLive NoRowOnMerged
PROPERTIES ImplementsPartition
