SPECIFICATION MCSpec
CONSTANTS
    None = None
    Refused = Refused
    MaxRetries = 2
    BaseDelay = 1
    MaxAfter = 5
    NameMax = 50
    PhoneMax = 150
    EntityMax = 50
    SeoulBox = {0, 60, 80, 100}
    Districts = {"g", "h"}
    TicksPerMinute = 2
    WarnAge = 1
    DisplayAge = 2
    MaxSkew = 1
    MaxCafesPerViewport = 1
    MaxBboxSpan = 2
    MinQueryLength = 2
    World <- MCWorld
    Seoul <- MCSeoul
    Aliases <- MCAliases
    PollInterval = 5
    PollOffset = 3
    MonitorDelay = 2
    Hour = 20
    Cadence = 5
    GapFactor = 2
    RMax = 6
    Covered = 3
    KNeighbors = 2
    DFloor = 1
    Ages <- MCAges
    Decay <- MCDecay
    ConfHigh = 55
    ConfMid = 30
    LogOf <- MCLogOf
    AreaMin = 1
    AreaMax = 4
    AuditLimit = 1
    Alignment <- MCAlignment
    SingleAgreement = 70
    PartialFactor = 50
    QualityWeights <- MCQualityWeights
    EnoughSamples = 2
    Skew = 2
    StaleAfter = 25
    AreaFloor = 2
    SizeFactor <- MCSizeFactor
    MinDispersion = 2
    AnomalyCap = 15
    ScreenHours = {8, 14}
    ZoneCount = 2
    HeldOut = {1, 2, 3}
    PerBand = 2
    NearMax = 1
    MidMax = 2
    FringeMax = 3
    Thresholds <- MCThresholds
    MinSpearman = 50
    MinAdjacent = 80
    MaxRegression = 0
    MaxHorizon = 4
    MaxGap = 2
    NearTolerance = 1
    ActualTolerance = 1
    MinSamples = 1
    MinHotspots = 1
    MinSpan = 0
    MaxWape = 100
    MinExact = 0
    MinAdjacentLevel = 0
    LagEdges <- MCLagEdges
    DayLength = 3
    Window = 10
    SpecialWindow = 12
    Recency <- MCRecency
    MinBucket = 2
    Prior = 2
    Imputed = 2
    Months = {1, 2, 3}
    Contents = {c1, c2}
    Bad = Bad
    MaxLosses = 1
    Businesses = {1, 2, 3, 4}
    Where <- MCWhere
    Quarters = 2
    MaxDepth = 1
    PageSize = 1
    MaxResults = 3
    MaxPages = 3
    MaxCalls = 6
    MaxChanges = 2
    MaxJobs = 2
INVARIANTS
    CatalogRules
    EstimateRules
    ReadRules
    OperationRules
    DataRules
    EvaluationRules
    BackfillInv
    SweepInv
PROPERTIES
    EvidenceIsKept
CHECK_DEADLOCK FALSE
