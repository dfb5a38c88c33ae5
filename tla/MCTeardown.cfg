SPECIFICATION FairSpec
CONSTANTS
    Threads = {t1, t2}
    Locals = {a, b}
    OsKeys = {0, 1, 2, 3}
    MaxDepth = 3
    Nobody = Nobody
    Callers = {m, x}
    Closures = {c1, c2, c3}
    ITERS = 3
INVARIANTS OneKey DestroyedOnce AcceptedRun
PROPERTY EveryThreadEnds
CHECK_DEADLOCK FALSE
