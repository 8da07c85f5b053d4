SPECIFICATION MCSpec
CONSTANTS
    Producers = {"w1", "w2"}
    MaxBatch = 2
    MaxResumed = 3
    Threads = {"t1", "t2"}
    Registrations <- MCRegistrations
    Routes <- MCRoutes
    MaxRoute = 3
    ClockMax = 13
    TicksPerMs = 3
    IntMax = 3
    Workers = {"w1", "w2"}
    Kinds = {"fixed", "serialized", "busy", "stream", "bad"}
    Timeouts = {TRUE, FALSE}
    MaxFrames = 3
    Conns = {"a", "b"}
    PoolWorkers = {"w1", "w2"}
    NoRequest = NoRequest
    Sizes <- MCSizes
    MaxMessage = 2
    MaxRequests = 2
    MaxBytes = 3
    Budgets = {0, 3}
INVARIANTS WaitKept LongestPrefixWins BytesInOrder ExclusiveReader AccountedIsHeld
INVARIANTS AccountingExact InputBounded BufferedIsQueued
PROPERTIES StopIsSeen ClosingIsRemoved
