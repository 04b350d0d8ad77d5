CONSTANTS
    Main = Main  Looper = Looper  Signal = Signal  Nobody = Nobody
    DoThread <- Either
    Loops <- BothLoops
    Registered <- TwoModules
    Failing <- ComingUpFails
    HooksFail <- AnyHook
    ProcsExit = TRUE
    MaxSignals = 1
    MainDoes <- ExitOrWait
SPECIFICATION FairSpec
INVARIANTS DestructorsSafe LevelGranted OrderlyEnd
PROPERTIES ShutdownEnds HandlersInForce
CHECK_DEADLOCK FALSE
