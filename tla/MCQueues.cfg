SPECIFICATION Spec
CONSTANTS
    Values = {a, b}
    Pushers = {p1, p2}
    Nodes = {n1, n2, n3, n4, n5, n6}
    Null = Null
    CacheBound = 1
    MaxLen = 3
SYMMETRY Symmetry
INVARIANTS ReuseIsSafe NoUseAfterFree NothingLeaks
PROPERTY ImplementsFifo
CHECK_DEADLOCK FALSE
