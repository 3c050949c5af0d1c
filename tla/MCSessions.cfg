CONSTANTS
    Principal = {human, workflow}
    Forcer = {workflow}
    Ttl = 2
    Controller = {1, 2, 3}
    MaxClock = 2
    SetBackBound = 1
    RequestBound = 3
    RegistrationBound = 1
    CrashBound = 1
SPECIFICATION Spec
INVARIANTS OneWriter TerminationsShow
PROPERTIES ImplementsWriterTurn TakeoversWait EffectsRecorded StoppedWritersStayOut
CHECK_DEADLOCK FALSE
