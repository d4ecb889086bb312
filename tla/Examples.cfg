SPECIFICATION ExamplesSpec
CONSTANTS
    Latency = 1
    Loss = TRUE
    Limited = TRUE
    Costs = {0, 2}
    MaxCost = 2
    Capacity = 1
    MaxPackets = 3
    Horizon = 3
    Endpoints = {1, 2}
    QueueLength = 2
    MaxEvents = 4
    Received <- Queries
    Blocklisted <- HasKeyword
    Segments <- SomeSegments
INVARIANTS
    AllAccounted
    RateHolds
    ClockIsBacklog
    CopyIsSnapshot
    SpoofAnswersQuery
    ChecksumStable
    FieldsApart
PROPERTIES
    LineSpec
    GetsItsTurn
    ScreenFollows
CHECK_DEADLOCK FALSE
