SPECIFICATION FairSpec
CONSTANTS
    Cafes = {c1, c2}
    Requests = {r1, r2}
    Submissions = {s1, s2}
    MaxObservation = 2
    None = None
INVARIANTS
    PanelInv
PROPERTIES
    OnlySelectionOpens
    EvidenceNeverAges
    LockEnds
