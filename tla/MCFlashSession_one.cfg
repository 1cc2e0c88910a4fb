SPECIFICATION FairSpec
CONSTANTS
    m1 = m1
    m2 = m2
    Mice <- OneMouse
    MaxPlugs = 4
    MaxLosses = 3
INVARIANTS StaleReceiptOnlyIfUnseen
PROPERTIES EraseOnlyAfterA13A Recovers
CHECK_DEADLOCK FALSE
