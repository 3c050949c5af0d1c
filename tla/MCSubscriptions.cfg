SPECIFICATION FairSubscriptions
CONSTANTS
    a = a
    b = b
    Topic = {a, b}
    Foreign = Foreign
    NoCursor = NoCursor
    ReplayLimit = 2
    LogBound = 3
    ForeignBound = 1
    DropBound = 2
    FailBound = 1
INVARIANTS
    NothingIsPassedOver
    ReadySlicesAreCurrent
PROPERTY
    InputsShow
CHECK_DEADLOCK FALSE
