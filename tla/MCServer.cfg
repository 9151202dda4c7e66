SPECIFICATION FairSpec
CONSTANTS
    Workers = {w1, w2}
    Clients = {c1, c2, c3}
    QueueDepth = 1
INVARIANT NeverServedStale
PROPERTIES QueuedIsAnswered ShutdownReturns
CHECK_DEADLOCK FALSE
