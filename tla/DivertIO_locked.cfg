SPECIFICATION FairSpec
CONSTANTS
    main = main
    sender = sender
    NoUser = NoUser
    Users <- TwoUsers
    Ops <- BothOps
    Locked = {"recv", "send", "close"}
    MaxCalls = 4
INVARIANTS
    TypeOK
    OwnBytes
    NoFalseError
    BufferReleased
PROPERTIES
    CallsSpec
    SendReturns
