CONSTANTS
    Principal = {human, workflow}
    Forcer = {workflow}
    Ttl = 2
    Controller = {1, 2, 3, 4, 5, 6}
    MaxClock = 0
    SetBackBound = 0
    RequestBound = 3
    RegistrationBound = 2
    CrashBound = 0
SPECIFICATION FairSpec
PROPERTIES RegistrationsEnd
CHECK_DEADLOCK FALSE
