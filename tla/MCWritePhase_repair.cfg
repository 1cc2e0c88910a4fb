SPECIFICATION Spec
CONSTANTS
    N = 2
    ImageSum <- ImageSumDef
    Faults <- Repairs
    MaxFaults = 3
    SilenceLength = 2
    Unreadable = 2
    CompleteAttempts = 3
INVARIANTS ReturnsOnlyWithImageResident
