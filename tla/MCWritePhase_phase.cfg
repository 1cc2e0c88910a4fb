SPECIFICATION FairSpec
CONSTANTS
    N = 3
    ImageSum <- ImageSumDef
    Faults <- FaultKinds
    MaxFaults = 6
    SilenceLength = 2
    Unreadable = 1
    CompleteAttempts = 3
INVARIANTS TypeOK VerifiedStaysRight NoCompleteBeforeMatch OneWrongBlockIsCaught
PROPERTIES NoEraseOfProgress Terminates
