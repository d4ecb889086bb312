SPECIFICATION CompileSpec
CONSTANTS
    Tables <- AllTables
    Keys <- SomeKeys
    Words <- AllWords
    IsText <- AnyText
    parseMax = 9
    maxDepth = 12
    Inputs <- AllInputs
    tokensMax = 10
    wordMax = 17
    digitsMax = 3
    Exprs <- AllExprs
    Height <- HeightOf
    Packets <- Complete
    WordMax = 2147483647
    WordHalf = 1073741824
    filterMaxLen = 5
INVARIANTS
    TypeOK
    SearchIsExact
    SameLanguage
    ElementScaled
    DepthIsEnough
    ScannedAsWritten
    SameMeaning
    JumpsForward
    LengthIsExact
PROPERTIES
    SearchEnds
CHECK_DEADLOCK FALSE
