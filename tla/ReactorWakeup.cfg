SPECIFICATION WakeupSpec
CONSTANTS
    Producers = {"w1", "w2"}
    MaxBatch = 3
    MaxResumed = 3
INVARIANT NoSleepOnResumed
