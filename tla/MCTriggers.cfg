CONSTANTS
    MaxTime = 3
    Local <- UTC
    MaxSteps = 40
    FireLimit = 3
    CronTrigger = {c, d}
    FactTrigger = {f}
    RepositoryTrigger = {r}
    ManualTrigger = {}
    Order <- MCOrder
    Schedule <- EveryHour
    Window <- MCWindowOfFacts
    Debounce = 2
    Limit = 2
    FactBatch = 2
    Malformed = {d}
    Unreachable = {c}
    Fingerprint = {p, q}
    ManualKey = {1}
    NoFingerprint = NoFingerprint
    LastArrival = 2
    MaxLag = 2
    FactBound = 2
    MoveBound = 1
    CrashBound = 1
SPECIFICATION Spec
INVARIANT OneEffectPerOccurrence
INVARIANT PassedFactsFired
INVARIANT FiringsKeepApart
INVARIANT MovesFireOnce
CHECK_DEADLOCK FALSE
