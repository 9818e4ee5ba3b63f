CONSTANTS
    MaxChunks = 2
    Delays = 2
    MaxRelayed = 2
SPECIFICATION MCSpec
INVARIANT RecordsOnlyFinished
