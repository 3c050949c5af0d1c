SPECIFICATION FairQueueSpec
CONSTANTS
    c1 = c1
    c2 = c2
    Command = {c1, c2}
    Retryable = {c1}
    Rank <- MCRank
    MaxAttempts = 3
    LeaseTtl = 2
    LoopBlocks = TRUE
    NoDispatch = NoDispatch
INVARIANTS
    OneShotCommandsStartOnce
PROPERTIES
    EachClaimStartsOnce
    FinishedStaysFinished
    CommandsAreServed
