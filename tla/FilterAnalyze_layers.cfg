SPECIFICATION Spec
CONSTANTS
    Programs <- AllPrograms
    Packets <- AllPackets
    Layers <- AllLayers
INVARIANTS
    TypeOK
    FlagsSuffice
    EventFlagsExact
CHECK_DEADLOCK FALSE
