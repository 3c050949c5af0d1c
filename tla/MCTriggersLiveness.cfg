CONSTANTS
    MaxTime = 7
    Local <- SummerTime
    MaxSteps = 40
    FireLimit = 3
    CronTrigger = {c}
    FactTrigger = {}
    RepositoryTrigger = {r}
    ManualTrigger = {m}
    Order <- MCOrder
    Schedule <- EveryHour
    Window <- MCWindow
    Debounce = 1
    Limit = 2
    FactBatch = 2
    Malformed = {}
    Unreachable = {}
    Fingerprint = {p, q}
    ManualKey = {1, 2}
    NoFingerprint = NoFingerprint
    LastArrival = 0
    MaxLag = 1
    FactBound = 0
    MoveBound = 1
    CrashBound = 1
SPECIFICATION FairSpec
PROPERTY OccurrencesFire DueInstantsFire
CHECK_DEADLOCK FALSE
