SPECIFICATION MapSpec
CONSTANTS
    Near = {n1, n2}
    Far = {f1}
    Searches = {q1}
    Loads = {l1, l2}
    Checks = {k1, k2}
    MaxObservation = 1
    MaxMoves = 2
    MaxFailures = 1
    None = None
INVARIANTS
    MapInv
PROPERTIES
    LoadsRestingView
    MapSettles
    LevelsGoDark
