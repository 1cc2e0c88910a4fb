SPECIFICATION Spec
CONSTANTS
    m1 = m1
    m2 = m2
    Mice <- TwoMice
    MaxPlugs = 3
    MaxLosses = 1
INVARIANTS ReceiptMeansSent
CHECK_DEADLOCK FALSE
