SPECIFICATION Spec
CONSTANTS
    p1 = p1
    p2 = p2
    w1 = w1
    w2 = w2
    Shop = Shop
    Manual = Manual
    Payments = {p1, p2}
    Workers = {w1}
    Totals <- MCTotals
    Serial = FALSE
    Disciplined = TRUE
    QuietModify = TRUE
    MaxEdits = 0
    MaxModify = 0
    MaxFaults = 0
    MaxDeclined = 1
INVARIANTS
    OneRecordPerCapture
CHECK_DEADLOCK FALSE
