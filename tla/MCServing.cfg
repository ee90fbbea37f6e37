SPECIFICATION FairSpec
CONSTANTS
    None = None
    Refused = Refused
    Workers = {w1, w2}
    MaxObservation = 3
    MaxAged = 2
INVARIANTS
    ServingInv
    NoScoredIngestIsMissed
PROPERTIES
    ClientCatchesUp
