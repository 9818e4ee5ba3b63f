CONSTANTS
    MaxChunks = 2
    Delays = 2
    MaxRelayed = 2
SPECIFICATION MCFairSpec
INVARIANTS
    StreamsInv
    GivenBack
    NoOrphanStep
    OutcomeIsTrue
    SentAtMostOnce
    OkMeansRelayed
PROPERTIES
    KeepPromises
    EverythingOver
