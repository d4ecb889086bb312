SPECIFICATION Spec
CONSTANTS
    main = main
    sender = sender
    NoUser = NoUser
    Users <- TwoUsers
    Ops <- LimiterOps
    Locked = {"send"}
    MaxCalls = 2
INVARIANTS
    OwnBytes
