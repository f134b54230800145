SPECIFICATION Spec
CONSTANTS
    NULL = NULL
    NaN = NaN
    Inputs <- MCInputs
    AsofTypes = {"Inner", "Left"}
    Tolerances = {NULL, 3}
    Bits = 3
    SortBatch = 2
    kOutBatch = 1
    MaxOpens = 2
INVARIANTS TypeOK CursorSplits AsofLikeReference
CHECK_DEADLOCK FALSE
