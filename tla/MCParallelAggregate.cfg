SPECIFICATION AggSpec
CONSTANTS
    Threads = 3
    MorselRows = 1
    BatchRows = 1
    Word = 1
    MaxRows = 3
    NULL = NULL
    Dropped = Dropped
    NaN = NaN
    AllRows = AllRows
    NoResult = NoResult
    Keys = {NULL, 1}
    Values = {NULL, NaN, 1, 2}
    AggTables <- MCTables
INVARIANTS AggTypeOK MatchesUnlessNaN AdditiveExact PartialsExact
