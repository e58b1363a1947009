\* Every range of up to 7 seconds, reversed ones included, two series per reply.
CONSTANTS
    MaxTime = 7
    MaxPoints = 3
    StatsdFlushInterval = 2
    DefaultMaxDatapoints = 4
    MaxSeries = 2
    DefaultRange = 3
    NaN = NaN
SPECIFICATION Spec
INVARIANTS
    PanicsOnlyReversed
    InPlace
    NoSampleLost
    PointsBounded
    SameStart
