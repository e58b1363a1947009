\* Two goroutines, at most two entries each, with fairness.
CONSTANTS
    N = 2
    Replies <- FewReplies
SPECIFICATION FairSpec
INVARIANTS
    WgCountsUnfinished
    NoLostEntry
    AnswerComplete
    BodiesClosed
PROPERTIES
    ResponseFrozen
    EveryRequestAnswered
    Gathers
