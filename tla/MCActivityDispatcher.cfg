SPECIFICATION FairDispatcherSpec
CONSTANTS
    a1 = a1
    a2 = a2
    w1 = w1
    d1 = d1
    d2 = d2
    k1 = k1
    Activity = {a1, a2}
    Owner = {w1}
    Key = {k1}
    Capability = {1}
    Needs <- MCNeeds
    MaxAttempts <- MCMaxAttempts
    Lease = 2
    Reserve = 1
    MaxTime = 4
    ClaimBound = 8
    NoActivity = NoActivity
    NoOwner = NoOwner
    NoRoute = NoRoute
    Dispatcher = {d1}
    WorkerId <- MCWorkerId
    Rank <- MCRank
    TickLimit = 2
    MaxRunning = 2
    CrashBound = 1
    NoToken = NoToken
INVARIANT TerminalAnnounced
INVARIANT FenceIdentifiesClaim
INVARIANT LocksFollowReservations
INVARIANT LiveActivitiesShareNoKey
PROPERTY StoreKeepsContract
PROPERTY EventuallyTerminal
