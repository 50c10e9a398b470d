SPECIFICATION FairSpec
CONSTANTS
    r1 = r1
    r2 = r2
    a1 = a1
    a2 = a2
    w1 = w1
    w2 = w2
    Gateways = {"razorpay", "cashfree", "stripe", "mollie", "braintree"}
    Refunds = {r1, r2}
    Payment = Payment
    Paid = 2
    Amounts = {1, 2}
    Unit = 1
    Admins = {a1, a2}
    Workers = {w1, w2}
    RefundSpeed = "optimum"
    StatusEvents = FALSE
    AcceptedMayFail = FALSE
    MaxFaults = 1
INVARIANTS
    TypeOK
    SettledMeansReturned
    ReturnedIsBooked
PROPERTIES
    NormalReconciled
CHECK_DEADLOCK FALSE
