SPECIFICATION FairSpec
CONSTANTS
    Conn = {c1, c2}
    Key = {k1, k2}
    Player = {p1, p2}
    None = None
INVARIANTS
    STypeOK
    NoOrphan
    KeysExact
    AnsweredPlays
PROPERTIES
    OwnClientOnly
    QuietAfterStop
    OnePictureQueued
    ImplementsSubscription
    HandlersReturn
    LostReleases
