SPECIFICATION Spec
CONSTANTS
    Workers = {w1, w2}
    Hotspots = {1, 2}
    MaxTime = 2
    MaxCycles = 2
    KeepTime = 0
    PruneLimit = 1
    Faults = {"db", "sigint", "kill"}
    MaxFaults = 2
    InterruptAt <- Anywhere
SYMMETRY Interchangeable
INVARIANTS
    WorkInv
PROPERTIES
    LatestNeverMovesBack
    KeepsLedger
CHECK_DEADLOCK FALSE
