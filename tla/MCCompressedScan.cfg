SPECIFICATION Spec
CONSTANTS
    NULL = NULL
    NaN = NaN
    W = 8
    VarintBits = 3
    LeadBits = 2
    LengthBits = 3
    Columns <- MCColumns
    BatchSizes = {0, 1, 2}
    DefaultBatchSize = 3
    MaxOpens = 2
INVARIANTS TypeOK Lossless DecoderInStep
CHECK_DEADLOCK FALSE
