SPECIFICATION ServicesSpec
CONSTANTS
    Sizes = {1, 2}
    TicksPerMs = 2
    MaxTime = 2
    MaxLinks = 3
    VRedirects = {v1, v2, v3}
    VFrontends = {f1}
    VReplicas = {r1, r2}
    EReplicas = {e1, e2}
    EMaxFaults = 2
    CShards = {s1, s2}
    CPods = {p1}
    CMaxRequests = 2
    BLinks = {l1, l2}
    BSpellings = 2
    RRules <- RateLimitRules
    RTicksPerSecond = 2
    RMaxTime = 6
    INumerals = 2
    ILetters = 1
    IWidth = 4
    IRangeSize = 5
    IStarterRange = 12
    UFields <- FormFields
    SVisits <- Everybody
    SMaxVisits = 3
    SMaxRows = 2
INVARIANTS PartsTypeOK FiguresAreTrue OnlyTheHighestIdIsSkipped SkippedIsNeverShown
    ElectedIsMaster OneShardAnswers
    BatchesNeedSingleRequests NeverMoreThanMax OnlyExcessIsLimited ShortIdsReadBack
    FieldsShowTheirLastCheck
PROPERTIES ForwardAdvances VisitsShowAtOnce EveryVisitIsCounted ElectionSettles ReadyIsNoticed StopsOnceReady
CHECK_DEADLOCK FALSE
