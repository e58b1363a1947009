\* Two series of one request that end at different times.
CONSTANTS
    MaxTime = 7
    MaxPoints = 3
    StatsdFlushInterval = 2
    DefaultMaxDatapoints = 4
    MaxSeries = 2
    DefaultRange = 3
    NaN = NaN
SPECIFICATION Spec
INVARIANT SeriesAligned
