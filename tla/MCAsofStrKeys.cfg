SPECIFICATION Spec
CONSTANTS
    NULL = NULL
    NaN = NaN
    Inputs <- StrInputs
    AsofTypes = {"Inner", "Left"}
    Tolerances = {NULL}
    Bits = 3
    SortBatch = 2
    kOutBatch = 1
    MaxOpens = 1
INVARIANTS AsofLikeReference
CHECK_DEADLOCK FALSE
