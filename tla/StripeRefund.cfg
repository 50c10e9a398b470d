SPECIFICATION Spec
CONSTANTS
    r1 = r1
    r2 = r2
    a1 = a1
    a2 = a2
    w1 = w1
    w2 = w2
    Gateways = {"stripe"}
    Refunds = {r1, r2}
    Payment = Payment
    Paid = 10000
    Amounts = {100}
    Unit = 100
    Admins = {a1}
    Workers = {w1}
    RefundSpeed = "optimum"
    StatusEvents = FALSE
    AcceptedMayFail = FALSE
    MaxFaults = 0
INVARIANTS
    ReturnedIsBooked
CHECK_DEADLOCK FALSE
