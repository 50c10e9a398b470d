SPECIFICATION FairSpec
CONSTANTS
    m1 = m1
    m2 = m2
    b1 = b1
    w1 = w1
    w2 = w2
    MolliePayments = {m1}
    Sales = {b1}
    Workers = {w1}
    Sync = Sync
    Totals <- MCTotals
    Manual <- MCManual
    Free <- MCFree
    Unit = 100
    OneDelivery = TRUE
    Disciplined = TRUE
    QuietModify = TRUE
    MaxCheckouts = 2
    MaxEdits = 1
    MaxModify = 1
    MaxFaults = 1
INVARIANTS
    TypeOK
    BooksMatchCharges
    HeldOrSettled
PROPERTIES
    StaysPlaced
    BackstopPlaces
    HeldMoneySettles
    RefinesLedger
CHECK_DEADLOCK FALSE
