CONSTANTS
    t1 = t1  t2 = t2  c1 = c1  c2 = c2
    Nobody = Nobody
    Callers <- TwoCallers
    Starters <- OneStarter
    Children <- TwoChildren
    Cpus <- TwoCpus
    Singles <- LastCpu
    Nodes <- OneNode
    CreateFails <- PlainFails
    Spurious <- OneStarter
SPECIFICATION FairSpec
INVARIANTS AffinityInForce NoUseAfterDestroy OneThread FinalProcOnce
PROPERTY CallsEnd
CHECK_DEADLOCK FALSE
