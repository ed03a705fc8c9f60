SPECIFICATION Spec
CONSTANTS
    Queue = {"video", "audio"}
    Packet = {"video", "audio", "other", "flush"}
    NoPacket = "none"
    MAX_PACKET_VIDEO = 1
    MAX_PACKET_AUDIO = 1
    RetryTimes = 2
    MayRunOut = TRUE
    Fragile = {"video"}
    Garbage = {"video", "audio", "none"}
INVARIANTS
    TypeOK
    FreedMeansJoined
    BackPressure
    OwnPacketsOnly
    EndReported
    
