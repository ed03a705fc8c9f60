SPECIFICATION MCSpec
CONSTANTS
    Queue = {"a"}
    Packet = {"p1", "p2"}
    NoPacket = "none"
    MaxNb = 4
INVARIANTS
    TakeNonEmpty
    NoSleepOnPackets
    NbCoversList
PROPERTIES
    ImplementsChannel
    Delivered
