SPECIFICATION Spec
CONSTANTS
    Threads = 3
    MorselRows = 4
    BatchRows = 2
    Word = 2
    RowCounts = {0, 3, 4, 9}
    Rows <- MCRows
    Emit <- MCEmit
    SortKey <- MCSortKey
    Tables <- MCTables
    NoResult = NoResult
INVARIANT SamePositions
