SPECIFICATION FairSpec
CONSTANTS
    Servers = {"a", "b"}
    None = None
    MaxCrashes = 1
CHECK_DEADLOCK FALSE
INVARIANTS OnlyStaleRemoved StaleIsRecovered OpenWhileRunning
PROPERTIES ClearedEndsRun DestructorReturns
