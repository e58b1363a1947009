\* A range whose end is before its start.
CONSTANTS
    MaxTime = 7
    MaxPoints = 3
    StatsdFlushInterval = 2
    DefaultMaxDatapoints = 4
    MaxSeries = 1
    DefaultRange = 3
    NaN = NaN
SPECIFICATION Spec
INVARIANT AlignmentEnds
