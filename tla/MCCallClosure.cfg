SPECIFICATION FairSpec
CONSTANTS
    Top = 6
    Layouts <- MCLayouts
    Images <- MCImages
INVARIANTS
    ClosureIsLeast
    CallersAreMembers
    SeedsAccounted
PROPERTIES
    Terminates
CHECK_DEADLOCK FALSE
