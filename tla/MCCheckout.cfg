SPECIFICATION Spec
CONSTANTS
    Requests = {r1, r2, r3}
    MaxFaults = 2
    MaxErased = 1
INVARIANTS OfferedIsKnown CustomersBounded
PROPERTIES EveryCheckoutAnswered
