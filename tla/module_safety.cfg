CONSTANTS
    t1 = t1  t2 = t2  mod_a = mod_a
    Nobody = Nobody
    Threads <- TwoThreads
    MAX_MODULES = 2
    Names <- OneName
    Kinds <- AllKinds
    Failing <- AnyFails
    WaitModes <- BothModes
    MaxFinalized = 2
SPECIFICATION Spec
INVARIANTS StatusTellsWorker NoGap
PROPERTY FinalizesStopped
CHECK_DEADLOCK FALSE
