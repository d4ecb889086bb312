SPECIFICATION FlattenSpec
CONSTANTS
    Exprs <- AddressTests
    Height <- HeightOf
    Packets <- Complete
    WordMax = 2147483647
    WordHalf = 1073741824
    filterMaxLen = 256
INVARIANTS
    AddressTestHolds
CHECK_DEADLOCK FALSE
