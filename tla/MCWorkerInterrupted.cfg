SPECIFICATION Spec
CONSTANTS
    Workers = {w1}
    Hotspots = {1}
    MaxTime = 2
    MaxCycles = 2
    KeepTime = 1
    PruneLimit = 1
    Faults = {"sigint"}
    MaxFaults = 1
    InterruptAt <- AfterTry
INVARIANTS
    InterruptsFinalize
CHECK_DEADLOCK FALSE
