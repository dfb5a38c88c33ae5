SPECIFICATION Spec
CONSTANTS
    Null = Null
    MaxText = 4
    MaxData = 4
    Capacities = {0, 1, 2, 3}
    Caps = {2, 4, 8, 16}
    MaxExtra = 9
    MaxKept = 7
    SignificandBits = 3
    ExponentBits = 4
    NarrowSignificandBits = 2
    NarrowExponentBits = 3
    BroadSignificandBits = 5
    IntWidths = {6, 8}
    WordBits = 4
    MaxHaystack = 5
    MaxNeedle = 4
    AsciiLength = 8
    MaxString = 5
    MaxPattern = 3
    MaxPieces = 3
    ByteBits = 3
    USIZE_BYTES = 2
    MaxLength = 8
    Bytes = {0, 1, 5}
    B = 3
    LargestKey = 200
    MaxScanned = 6
    MaxScannedDeep = 17
    MaxAppended = 45
INVARIANTS ToldIsKept LinesGoOut SearchesByDefinition MatchesReference
CHECK_DEADLOCK FALSE
