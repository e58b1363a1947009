\* A buffer of three bytes; lines of up to three buffers, with others before and after.
CONSTANTS
    BufSize = 3
    MaxLen = 9
    Streams <- MCStreams
SPECIFICATION Spec
INVARIANTS
    ShortLinesIntact
    LongLineCells
    NothingDropped
