SPECIFICATION Spec
CONSTANTS
    Sources <- MCSources
    Known <- MCKnown
    Requests <- MCRequests
    IndexLimit = 4
    Base = 2
    MayRunOut = TRUE
INVARIANTS
    VTypeOK
    BreaksOnlyKnown
    CleanFrames
PROPERTIES
    OneOfTwo
