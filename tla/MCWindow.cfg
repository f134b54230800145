SPECIFICATION Spec
CONSTANTS
    NULL = NULL
    NaN = NaN
    MinInt <- MCMinInt
    MaxInt = 99
    Inputs <- MCInputs
    BatchRows = 2
    kOutBatch = 2
INVARIANTS TypeOK FrameExact WindowLikeReference
CHECK_DEADLOCK FALSE
