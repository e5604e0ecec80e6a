SPECIFICATION Spec
CONSTANTS
    EventTransfers = {e1, e2}
    BulkTransfers = {b1}
    Timeouts = {0, 1}
    Triggers <- EventTimes
    Second = 2
    Bare = 1
    MaxTime = 3
INVARIANTS
    PendingSound
    NothingLost
PROPERTIES
    WaitKept
CHECK_DEADLOCK FALSE
