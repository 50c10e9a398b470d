SPECIFICATION Spec
CONSTANTS
    m1 = m1
    m2 = m2
    b1 = b1
    w1 = w1
    w2 = w2
    MolliePayments = {m1, m2}
    Sales = {}
    Workers = {w1}
    Sync = Sync
    Totals <- MCTotals
    Manual <- MCManual
    Free <- MCFree
    Unit = 100
    OneDelivery = TRUE
    Disciplined = TRUE
    QuietModify = TRUE
    MaxCheckouts = 2
    MaxEdits = 0
    MaxModify = 1
    MaxFaults = 0
INVARIANTS
    AdditionalPaymentFinalizes
CHECK_DEADLOCK FALSE
