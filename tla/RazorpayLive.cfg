SPECIFICATION FairSpec
CONSTANTS
    p1 = p1
    p2 = p2
    w1 = w1
    w2 = w2
    Shop = Shop
    Manual = Manual
    Payments = {p1, p2}
    Workers = {w1}
    Totals <- MCTotals
    Serial = TRUE
    Disciplined = TRUE
    QuietModify = TRUE
    MaxEdits = 0
    MaxModify = 0
    MaxFaults = 2
    MaxDeclined = 1
PROPERTIES
    BackstopSettles
CHECK_DEADLOCK FALSE
