SPECIFICATION AloneSpec
CONSTANTS
    TargetCount = 5
    MaxRetries = 1
    MaxConsecutiveFailures = 3
    FetchConcurrency = 2
    Workers = {w1}
    Hotspots = {1, 2}
    MaxTime = 2
    MaxCycles = 3
    KeepTime = 0
    PruneLimit = 1
    Faults = {"sigint", "kill"}
    MaxFaults = 2
    InterruptAt <- Anywhere
INVARIANTS
    PollInv
    AloneInv
PROPERTIES
    IsCircuitBreaker
    CycleEnds
CHECK_DEADLOCK FALSE
