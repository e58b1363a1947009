\* More patterns than the cache holds, two entries to evict at a time, with fairness.
CONSTANTS
    Threads = {t1, t2}
    Patterns = {p1, p2, p3, p4, p5}
    None = None
    MaxLen = 3
    EvictShare = 2
    MaxRequests = 5
SPECIFICATION FairSpec
INVARIANTS
    NoMapRace
    RightResult
    SizeBounded
PROPERTIES
    CallsReturn
