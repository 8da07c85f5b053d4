SPECIFICATION FairSpec
CONSTANTS
    a = a
    b = b
    Calls = {a, b}
    Workers = {"w1"}
    Configs <- MCConfigs
    MaxAttempts = 2
    InitialBackoff = 2
    MaxBackoff = 3
    Chunks = 2
    SocketRoom = 2
CHECK_DEADLOCK FALSE
INVARIANTS SlotsExact ExecutionsBounded AnswerTellsExecution ExcessClosed
PROPERTIES CallReturns ServerDrains
