SPECIFICATION Spec
CONSTANTS
    Requests = {r1, r2}
    Identifiers = {i1, i2, i3}
    ValueOf <- OwnValues
    Seeded = 3
    MaxEntity = 5
    Limit <- NoLimit
    Counted = {0}
    Served = {"resolve"}
    MaxInFlight = 2
PROPERTIES EveryRequestAnswered
