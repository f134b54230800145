SPECIFICATION Spec
CONSTANTS
    NULL = NULL
    NaN = NaN
    BuildInputs <- MCBuildInputs
    ProbeInputs <- MCProbeInputs
    JoinTypes = {"Inner", "Left"}
    kOutBatch = 2
    MaxOpens = 2
    MaxThrows = 1
INVARIANTS TypeOK GroupsByValue JoinsLikeReference
CHECK_DEADLOCK FALSE
