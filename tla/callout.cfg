CONSTANTS
    ta = ta
    tb = tb
    u1 = u1
    w1 = w1
    w2 = w2
    Sched = Sched
    Nobody = Nobody
    Tasks <- TwoTasks
    Users <- OneUser
    Modes <- AllUses
    Intervals = {0, 1}
    IdleInterval = 1
    Cap = 2
    ProcsFail = TRUE
    MaxTime = 1
SPECIFICATION FairSpec
INVARIANTS TasksSound FinalizeCleans
PROPERTIES RunsAllowed Served StopEnds
CHECK_DEADLOCK FALSE
