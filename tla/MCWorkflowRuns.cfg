SPECIFICATION FairRunsSpec
CONSTANTS
    s1 = s1
    s2 = s2
    k1 = k1
    k2 = k2
    p1 = p1
    p2 = p2
    Stage = {s1, s2}
    DependsOn <- MCDependsOn
    NoStage = NoStage
    Process = {p1, p2}
    TicketStatus = {"done"}
    ExternalKey = {k1, k2}
    Offered <- MCOffered
    Rank <- MCRank
    SignalLimit = 4
    MaxConflictRetries = 1
    CrashBound = 1
    NoPayload = NoPayload
    NoKey = NoKey
    NoRun = NoRun
INVARIANT OnlyStaleRevisionsRaise
INVARIANT StageFollowsSignals
PROPERTY WakeHandlesItsSignal
PROPERTY RunsAreSerial
PROPERTY WokenSignalsAreConsumed
CHECK_DEADLOCK FALSE
