CONSTANTS
    t1 = t1
    Nobody = Nobody
    N = 2
    Callers <- OneCaller
    Styles <- PauseStyles
    WaitLimits <- BothLimits
    StartFails = TRUE
    WorkersFail = TRUE
    ClockStands = FALSE
    MaxRequests = 2
SPECIFICATION FairSpec
INVARIANTS WorkersIdle EndsAgree
PROPERTIES ImplementsStage PausesEnd EndsRightNow
CHECK_DEADLOCK FALSE
