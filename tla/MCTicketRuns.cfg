SPECIFICATION FairTicketRuns
CONSTANTS
    s1 = s1
    s2 = s2
    Stage = {s1, s2}
    DependsOn <- MCDependsOn
    NoStage = NoStage
    Parent = Parent
    Worker = Worker
    Launcher = Launcher
    Forced = {"done", "failed", "archived", "planned", "ready", "in_progress", "blocked"}
    FaultBound = 2
    CrashBound = 1
    UserBound = 1
INVARIANTS
    LaunchIsAllOrNothing
    FirstOutcomeDecides
    
PROPERTIES
    KickoffsFollowTheRun
    
CHECK_DEADLOCK FALSE
