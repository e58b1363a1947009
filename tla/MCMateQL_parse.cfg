\* Every query of the slices.
CONSTANTS
    Names = {"a", "f", "t", "x", "y", "q", "name", "alias", "freev", "maxv", "ru"}
    AggrFuncs = {"sum"}
    ReservedFuncs = {"rate", "label_set", "clamp_min"}
    Durations = {"5m"}
    MaxNumber = 256
    Slices <- MCSlices
    MaxTemplates = 2
SPECIFICATION Spec
INVARIANTS
    ResultNormal
    RoundTrip
    PrecedenceRight
    WithIsSubstitution

