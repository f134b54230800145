SPECIFICATION Spec
CONSTANTS
    NULL = NULL
    NaN = NaN
    W = W
    D = D
    E = E
    Z = Z
    MinInt <- MCMinInt
    MaxInt = 1000
    Bits32 = 4
    Bits64 = 8
    WordBits = 2
    ByteBits = 2
    Junk = 5
    Lanes = 2
    kOutBatch = 2
    ScanBatch = 2
    MorselRows = 4
    MaxNodes = 3
    Tables <- MCTables
    Calls <- MCCalls
INVARIANTS
    TypeOK
    EngineLikeReference
    RetryLikeReference
    ParallelLikeReference
    LowersUnlessStringWindow
    TwinsAgree
PROPERTIES
    StaysExhausted
CHECK_DEADLOCK FALSE
