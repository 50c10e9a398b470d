SPECIFICATION Spec
CONSTANTS
    p1 = p1
    p2 = p2
    w1 = w1
    w2 = w2
    Shop = Shop
    Manual = Manual
    Payments = {p1, p2}
    Workers = {w1, w2}
    Totals <- MCTotals
    Serial = TRUE
    Disciplined = FALSE
    QuietModify = TRUE
    MaxEdits = 2
    MaxModify = 1
    MaxFaults = 1
    MaxDeclined = 1
SYMMETRY Symmetry
INVARIANTS
    TypeOK
    OneRecordPerCapture
    LedgerInv
    PlacedForTheCharge
PROPERTIES
    NeverReopened
    RefinesLedger
CHECK_DEADLOCK FALSE
