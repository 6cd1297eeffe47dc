\* Both policies on: a segment closes after 2 rows or 2 ms.
SPECIFICATION FairSpec
CONSTANTS
    k1 = k1
    k2 = k2
    Keys <- MCKeys
    Streams <- MCStreams
    MaxRowsPerSegment = 2
    MaxSpanMs = 2
INVARIANTS
    TypeOK
    CarryComplete
    NoRowFromTheFuture
PROPERTIES
    ImplementsStreamFold
    EveryRowFolded
CHECK_DEADLOCK FALSE
