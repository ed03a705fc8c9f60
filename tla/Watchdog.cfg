SPECIFICATION Spec
CONSTANTS
    Limit = 3
    RetryTimes = 3
    Back = 1
INVARIANTS
    WTypeOK
    OpeningBounded
    StopBounded
    BothTransports
PROPERTY
    AlarmsOnlyKnown
