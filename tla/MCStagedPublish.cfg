SPECIFICATION Spec
CONSTANTS
    Builders = {b1, b2, b3}
    Members = {artifact, manifest}
    Other = other
    Absent = absent
    Dest = output
SYMMETRY BuilderSymmetry
INVARIANTS
    OutputIsWhole
PROPERTIES
    OthersAreLeftAlone
CHECK_DEADLOCK FALSE
