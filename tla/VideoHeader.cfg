SPECIFICATION Spec
CONSTANTS
    Sources <- MCSources
    Known <- MCKnown
    Requests <- MCRequests
    IndexLimit = 4
    Base = 2
    MayRunOut = TRUE
INVARIANT
    HeaderMatchesPicture
