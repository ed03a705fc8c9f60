SPECIFICATION FairSpec
CONSTANTS
    Queue = {"video", "audio"}
    Packet = {"video", "audio", "other", "flush"}
    NoPacket = "none"
    MAX_PACKET_VIDEO = 1
    MAX_PACKET_AUDIO = 1
    RetryTimes = 1
    MayRunOut = FALSE
    Fragile = {}
    Garbage = {"none"}
PROPERTY
    StopReturns
