SPECIFICATION FairSpec
CONSTANTS
    Servers = {"a"}
    None = None
    MaxCrashes = 0
PROPERTY StopEndsRun
CHECK_DEADLOCK FALSE
