SPECIFICATION FairSpec
CONSTANTS
    replay = replay
    list = list
    Readers = {replay, list}
    LimitOf <- MCLimit
    Wanted <- MCWanted
    Capacity = 1
    WriteQueue = 1
    MaxAge = 1
    MaxRows = 2
    PageMax = 2
    MaxEvents = 3
    MaxTime = 2
    MaxFailures = 1
CHECK_DEADLOCK FALSE
INVARIANTS TypeOK LogInOrder NothingSkipped ReadOnce
PROPERTIES MirroredOrReported ReplayCatchesUp
