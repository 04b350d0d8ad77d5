CONSTANTS
    p1 = p1
    p2 = p2
    q1 = q1
    q2 = q2
    NoQueue = NoQueue
    NoOne = NoOne
    Pollers <- TwoPollers
    Queues <- TwoQueues
    Polls <- SharedPolls
    Changers <- ThePollerOfOne
    Types <- TwoTypes
    Cap = 2
SPECIFICATION FairSpec
INVARIANT SleeperTold
PROPERTY EventsSeen
CHECK_DEADLOCK FALSE
