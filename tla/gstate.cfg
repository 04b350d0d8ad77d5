CONSTANTS
    t1 = t1  t2 = t2
    Callers <- TwoThreads
    Settable <- SomeStates
    Awaited <- Targets
    Levels <- BothLevels
    Resettable = TRUE
    Cancelable <- FirstThread
    Spurious <- TwoThreads
SPECIFICATION GSFairSpec
INVARIANT SleepersHaveReason
PROPERTIES OneWay ShutdownReleases
CHECK_DEADLOCK FALSE
