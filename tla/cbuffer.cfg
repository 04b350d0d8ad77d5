CONSTANTS
    t1 = t1  t2 = t2
    Threads <- TwoThreads
    MaxElems = 2
    IdxMax = 1000
    MaxVals = 4
    MaxReq = 3
    PeekReq = 1
    FreeValues <- FreeOnly
    Ops <- Roles
    Modes <- AllModes
    Cancelable <- Getter
    Spurious <- Getter
SPECIFICATION FairSpec
INVARIANTS RingConsistent SleepersHaveReason
PROPERTIES ImplementsQueue ShutdownReleases
CHECK_DEADLOCK FALSE
