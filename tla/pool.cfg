CONSTANTS
    c1 = c1
    c2 = c2
    a = a
    b = b
    Boss = Boss
    Nobody = Nobody
    Clients <- TwoClients
    Tasks <- TwoTasks
    N = 1
    Flags <- AllFlags
    Levels <- BothLevels
    CreateFails = TRUE
    GalaFails = TRUE
    Cancels = TRUE
SPECIFICATION FairSpec
INVARIANTS Accounted DoneIsOver
PROPERTIES TasksEnd PoolEnds
CHECK_DEADLOCK FALSE
