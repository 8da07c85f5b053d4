SPECIFICATION Spec
CONSTANTS
    Servers = {"a", "b"}
    None = None
    MaxCrashes = 0
INVARIANT PathIntact
CHECK_DEADLOCK FALSE
