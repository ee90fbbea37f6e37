SPECIFICATION FairSpec
CONSTANTS
    Requests = {r1, r2}
    FeedbackLimit = 2
    ReportLimit = 1
    MaxBucket = 1
    Skew = 1
INVARIANTS
    ContributionInv
PROPERTIES
    SlotsNeverReclaimed
    RequestsEnd
