SPECIFICATION FairSpec
CONSTANTS
    Senders = {s1, s2}
    First = s1
    Second = s2
    Tokens = {k1, k2}
    BoundedTokens = {k1, k2, k3}
    Caps = {0, 1, 2}
    MAX_STEALS = 1
    FUDGE = 4
    ISIZE_MAX = 31
    MAX_REFCOUNT = 1
    MaxLen = 2
    MaxLate = 1
INVARIANTS
    NeverPanics
    NoDataRace
    CountBalanced
    OnePopper
    DrainedBeforeLeaving
    NothingLeftBehind
    OkMeansReceived
    TakesBackItsOwn
    NoIdleSlot
PROPERTY NobodyStranded
CHECK_DEADLOCK FALSE
