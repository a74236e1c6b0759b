SPECIFICATION Spec
CONSTANTS
    NumRequests = 4
    Keys = {free}
    Limit = 2
    Window = 3
    MaxDelay = 1
    LastArrival = 3
    MaxTime = 9
    Interval = 3
INVARIANTS WindowLimit RefusedOnlyWhenFull
PROPERTIES ResetFreesASlot ForgetsOnlyTheOverlap IdleBucketsForgotten
