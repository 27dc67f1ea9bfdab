CONSTANTS
    Updates <- MCUpdates
    Users = {"slow", "other"}
    UserOf <- MCUserOf
    StartUpdates = {"a2"}
    Slow = {"slow"}
    RoomSize = 3
    WorkSlots = 2
    FastSlots = 1
    Workers = 1
    Capacity = 2
    Jobs = {1, 2, 3}
    MaxCalls = 1
    NoLock = 0
    NoJob = 0
SPECIFICATION FairSpec
INVARIANTS DispatchTypeOK OneAtATimeInOrder NothingLeaks
PROPERTY OthersAreServed
CHECK_DEADLOCK FALSE
