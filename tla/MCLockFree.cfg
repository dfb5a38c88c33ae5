SPECIFICATION BothSpec
CONSTANTS
    Handles = {h1, h2, h3}
    None = None
    MAX_REFCOUNT = 3
    USIZE_MAX = 7
    MaxForgotten = 6
    MaxForgottenWeak = 5
    Threads = {t1, t2, t3}
    Null = Null
SYMMETRY Symmetry
INVARIANTS
    CountsMatch NeverWraps NoUseAfterFree ExclusiveAccess NothingLeaks WeakCountIsTrue
    WalkTouchesLiveNodes ReturnsInitialised
PROPERTY ImplementsOnceSpec
CHECK_DEADLOCK FALSE
