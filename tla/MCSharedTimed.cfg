SPECIFICATION Spec
CONSTANTS
    Senders = {s1, s2}
    Creator = s1
    Clone1 = s2
    Tokens = {k1, k2}
    MAX_STEALS = 1
    FUDGE = 4
    MaxLen = 1
    MaxLate = 2
    ISIZE_MAX = 31
    MAX_REFCOUNT = 1
INVARIANT NotAsleepAlready
CHECK_DEADLOCK FALSE
