SPECIFICATION QueueSpec
CONSTANTS
    c1 = c1
    c2 = c2
    Command = {c1, c2}
    Retryable = {c1}
    Rank <- MCRank
    MaxAttempts = 2
    LeaseTtl = 2
    LoopBlocks = FALSE
    NoDispatch = NoDispatch
INVARIANT
    LeaseExpiryStartsNoDuplicate
