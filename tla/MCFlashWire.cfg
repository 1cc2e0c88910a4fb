SPECIFICATION WireSpec
CONSTANTS
    N = 3
    ImageSum <- ImageSumDef
    Faults <- Lossy
    MaxFaults = 3
    SilenceLength = 2
    Unreadable = 3
    CompleteAttempts = 3
    MaxCount = 10
INVARIANTS WireFollowsPlan WireIsPlan
PROPERTIES KeepsPromise
