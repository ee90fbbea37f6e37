SPECIFICATION Spec
CONSTANTS
    Workers = {w1}
    Hotspots = {1}
    MaxTime = 2
    MaxCycles = 2
    KeepTime = 1
    PruneLimit = 1
    Faults = {"db"}
    MaxFaults = 1
    InterruptAt <- Anywhere
INVARIANTS
    ZeroInsertedMeansCurrent
CHECK_DEADLOCK FALSE
