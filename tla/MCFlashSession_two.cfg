SPECIFICATION Spec
CONSTANTS
    m1 = m1
    m2 = m2
    Mice <- TwoMice
    MaxPlugs = 3
    MaxLosses = 2
SYMMETRY Symmetry
INVARIANTS TypeOK
PROPERTIES ResetOnlyFlashed
CHECK_DEADLOCK FALSE
