SPECIFICATION WaitSpec
CONSTANTS
    Unparkers = {u1, u2, u3}
    Threads = {t1, t2}
    Null = Null
INVARIANTS
    NeverPanics
PROPERTIES
    ImplementsParkSpec
    TokenEndsPark
    WaitersLeave
