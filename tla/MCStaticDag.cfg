SPECIFICATION MachineSpec
CONSTANTS
    s1 = s1
    s2 = s2
    s3 = s3
    Stage = {s1, s2, s3}
    Order <- MCOrder
    NoStage = NoStage
    BatchBound = 3
INVARIANT WaitingRunHasReadyStage
PROPERTY LoopsDecide
CHECK_DEADLOCK FALSE
