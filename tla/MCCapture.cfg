SPECIFICATION Spec
CONSTANTS
    i1 = i1
    i2 = i2
    Irps <- MCIrps
    Body = 4
    RECORD_LEN = 3
    MaxTransfers = 5
    Scripts <- MCScripts
    Change <- MCChange
    Start <- MCStart
    Bits = {0, 1}
    MaxFaults = 1
    MaxNoise = 1
    PAYLOAD_AT = 2
    MIN_FOR_ALWAYS = 2
    Claims <- MCClaims
    Buttons = {1, 2}
SYMMETRY Symmetry
INVARIANTS
    TypeOK
    TransfersAreReal
    LabelsRight
    ToolsAgree
    ClaimsScoredRight
    PicksWerePicked
CHECK_DEADLOCK FALSE
