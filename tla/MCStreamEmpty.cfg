SPECIFICATION Spec
CONSTANTS
    Tokens = {k1, k2}
    MAX_STEALS = 1
    MaxLen = 2
    MaxLate = 2
    ISIZE_MAX = 15
INVARIANT RecvNeverEmpty
CHECK_DEADLOCK FALSE
