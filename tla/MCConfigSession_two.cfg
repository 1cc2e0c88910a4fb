SPECIFICATION Spec
CONSTANTS
    p1 = p1
    p2 = p2
    Procs <- Two
    MatchVendor = TRUE
    Names = 2
    MaxRuns = 3
    MaxFaults = 2
SYMMETRY Symmetry
INVARIANTS TypeOK NothingElseMoves OkIsTrue WipeLeavesUndo
CHECK_DEADLOCK FALSE
