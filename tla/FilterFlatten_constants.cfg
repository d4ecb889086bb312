SPECIFICATION FlattenSpec
CONSTANTS
    Exprs <- WithConstants
    Height <- HeightOf
    Packets <- Complete
    WordMax = 2147483647
    WordHalf = 1073741824
    filterMaxLen = 256
INVARIANTS
    SameMeaning
CHECK_DEADLOCK FALSE
