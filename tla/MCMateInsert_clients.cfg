\* Two clients, one after the other or at the same time, with fairness.
CONSTANTS
    Conns = {c1, c2}
    Objects = {o1, o2}
    None = None
    Inputs <- MixedInputs
    BufferSize = 4
    LowWater = 3
SPECIFICATION FairSpec
INVARIANTS
    TypeOK
    PoolExclusive
    OwnLines
    OwnStream
    DeliveredAtEOF
    StreamConserved
    HeldBackBounded
PROPERTIES
    CleanExit
    EndsAfterHangUp
