SPECIFICATION FairSpec
CONSTANTS
    Requests = {"r1", "r2", "r3"}
    Conns = {"c1", "c2"}
    ConnOf <- MCConnOf
    Size <- MCSize
    SocketRoom = 1
    MaxOutput = 3
    MaxTotalOutput = 2
    MaxFlush = 2
    Configs <- MCConfigs
    NoConn = NoConn
CHECK_DEADLOCK FALSE
INVARIANTS OutputBounded FramesWhole QueuedIsReachable
PROPERTY DeliveredWithoutLease
