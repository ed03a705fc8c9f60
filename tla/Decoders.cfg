SPECIFICATION Spec
CONSTANTS
    Player = {p1, p2, p3}
    Codecs = {{}, {"d3d11va"}, {"dxva2"}, {"d3d11va", "dxva2"}}
SYMMETRY MCSymmetry
INVARIANTS
    DTypeOK
    MisreadOnlyDisturbed
    RefusedOnlyKnown
