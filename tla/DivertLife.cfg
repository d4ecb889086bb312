SPECIFICATION LifeSpec
CONSTANTS
    main = main
    closer = closer
    NoUser = NoUser
    MaxCalls = 3
    Layers <- AnyLayer
    FlagSets <- AnyFlags
    Priorities <- AnyPriority
INVARIANTS
    TypeOK
    NothingLeftOpen
    DivertIsStarted
    FlagsAgree
PROPERTIES
    CloseReleasesWaiter
CHECK_DEADLOCK FALSE
