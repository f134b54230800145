SPECIFICATION Spec
CONSTANTS
    NULL = NULL
    NaN = NaN
    MinInt <- MCMinInt
    MaxInt = 99
    Inputs <- ReopenInputs
    BatchRows = 2
    kOutBatch = 2
INVARIANTS ReopenSafe
CHECK_DEADLOCK FALSE
