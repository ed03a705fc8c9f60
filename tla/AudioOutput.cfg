SPECIFICATION OSpec
CONSTANTS
    Session = {s1, s2}
    MaxDevices = 2
    Converted = {"planar", "mono"}
    Direct = "s16"
    Packed = {"u8"}
    MaxSamples = 2
SYMMETRY MCSymmetry
INVARIANTS
    OTypeOK
    NoLeak
    Undisturbed
    SoundOnlyKnown
