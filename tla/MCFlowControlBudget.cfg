SPECIFICATION FlowSpec
CONSTANTS
    Conns = {"a", "b"}
    PoolWorkers = {"w1", "w2"}
    NoRequest = NoRequest
    Sizes <- MCSizesShort
    MaxMessage = 2
    MaxRequests = 2
    MaxBytes = 3
    Budgets = {3}
INVARIANT StrictBudget
CHECK_DEADLOCK FALSE
