SPECIFICATION MCSpec
CONSTANTS
    Callers = {"t1", "t2"}
    Shards = 2
    Configs <- MCConfigs
    CanCancel = TRUE
    MaxCalls = 4
    Slots = 2
    SocketCapacity = 3
    Rounds = 4
CHECK_DEADLOCK FALSE
INVARIANTS OwnResponse SlotAlive SweptIsDone StatsConserved FramesIntact
PROPERTIES CallReturns RunEnds
