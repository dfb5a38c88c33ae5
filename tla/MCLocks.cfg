SPECIFICATION FairSpec
CONSTANTS
    Threads = {t1, t2, t3}
    Nobody = Nobody
    Sizes = {0, 1, 2, 3}
    MaxCalls = 3
    MaxPanics = 2
    MaxWaits = 2
    MaxSpurious = 1
    MaxDepth = 2
    MaxLocks = 4
    ISIZE_MAX = 3
    MaxTurns = 9
INVARIANTS NeverPanics HoldersMatch PoisonSeen LeaveTogether
PROPERTY EveryCallReturns
CHECK_DEADLOCK FALSE
