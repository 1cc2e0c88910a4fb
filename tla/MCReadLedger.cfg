SPECIFICATION Spec
CONSTANTS
    p = p
    q = q
    r = r
    z = z
    Exports <- MCExports
    Orders <- MCOrders
    LINECAP = 3
    FNCAP = 2
    MinHash = 2
    MicroTags = {"A", "B"}
    MaxAnswers = 3
INVARIANTS
    TypeOK
    ReadersNotBlamed
    HarvestIsExact
    CleanReportMeansRead
    CoverageStandsUp
CHECK_DEADLOCK FALSE
