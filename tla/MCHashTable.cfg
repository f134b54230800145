SPECIFICATION FairSpec
CONSTANTS
    NumCols = 2
    Raw <- MCRaw
    Keys <- MCKeys
    Canon <- MCCanon
    NullWord = 1
    NULL = NULL
    Seeds <- MCSeeds
    HashOf <- MCHashOf
    HashValues = {0, 3, 7}
    NoGroup = 4
    MinCapacity = 2
    LoadNum = 7
    LoadDen = 10
INVARIANTS TypeOK ChainsIntact OneIdPerKey FreeSlot
PROPERTIES CallsReturn ImplementsIndex
