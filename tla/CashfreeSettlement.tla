------------------------- MODULE CashfreeSettlement -------------------------
(***************************************************************************)
(* A Cashfree payment of the order: createCashfreeOrder, addPaymentToOrder *)
(* of the storefront, and the PAYMENT_SUCCESS_WEBHOOK events.              *)
(*                                                                         *)
(* There is one Cashfree order for a Vendure order, over the total of its  *)
(* first creation: a later one is answered 409 and the old one reused. The *)
(* webhook reads the order before its transaction, like Razorpay's, but    *)
(* records the payment only when its amount is the outstanding one.        *)
(***************************************************************************)
EXTENDS OrderBook

CONSTANT OneDelivery \* is an event not repeated while it is being served?

ASSUME OneDeliveryAssumption == OneDelivery \in BOOLEAN

VARIABLES
    cashfree,      \* the Cashfree order and its payment
    cashfreeEvent  \* "none", "pending" or "delivered": the success event

cashfreeVars == <<cashfree, cashfreeEvent>>

CashfreeTxn == <<"cashfree", 0>>

CashfreeInit ==
    /\ cashfree = [status |-> "none", amount |-> 0]
    /\ cashfreeEvent = "none"

CreateCashfreeOrder ==
    /\ order.state \in ActiveStates
    /\ enabled
    /\ order.total > 0
    /\ cashfree.status = "none"
    /\ cashfree' = [status |-> "open", amount |-> order.total]
    /\ Checkout
    /\ UNCHANGED cashfreeEvent

CashfreePay ==
    /\ cashfree.status = "open"
    /\ cashfree' = [cashfree EXCEPT !.status = "paid"]
    /\ cashfreeEvent' = "pending"
    /\ UNCHANGED bookVars

CashfreeRedeliver ==
    /\ cashfreeEvent = "delivered"
    /\ Fault
    /\ cashfreeEvent' = "pending"
    /\ UNCHANGED <<order, settled, short, enabled, req, cashfree>>

\* Mutant: any payment of the Cashfree order counts, whatever became of it.
CashfreeUnverified ==
    cashfree.status # "none" /\ cashfree.amount = Outstanding(order)

\* cashfree.handler createPayment asks Cashfree for a successful payment and
\* compares amounts; anything else is a Declined row, which changes no state.
CashfreeVerified ==
    cashfree.status = "paid" /\ cashfree.amount = Outstanding(order)

\* addPaymentToOrder of the shop API, on the active order.
CashfreeAddPayment ==
    /\ order.state \in ActiveStates
    /\ enabled
    /\ CashfreeVerified
    /\ EnterSettled(order.state, CashfreeTxn, Outstanding(order))
    /\ UNCHANGED <<enabled, req, used, cashfreeVars>>

\* The webhook reads the order and the method; a disabled one is answered 400.
CashfreeRead(w) ==
    /\ req[w] = Idle
    /\ cashfreeEvent = "pending"
    /\ enabled
    /\ OneDelivery => \A v \in Workers : req[v].plugin # "cashfree"
    /\ req' = [req EXCEPT ![w] =
                  [plugin |-> "cashfree", state |-> order.state,
                   paid |-> Rows(CashfreeTxn) # {}]]
    /\ UNCHANGED <<order, settled, short, enabled, used, cashfreeVars>>

\* The transaction and the answer 200. A payment that is declined still leaves
\* the order in the state the transition took it to. addPaymentToOrder looks for
\* the enabled method once the order can be paid.
CashfreeCommit(w) ==
    LET r == req[w]
        from == PaymentState(r.state) IN
    /\ r.plugin = "cashfree"
    /\ \/ /\ r.paid \/ from = "none"
          /\ UNCHANGED <<order, settled, short>>
       \/ /\ ~r.paid
          /\ enabled
          /\ CashfreeVerified
          /\ EnterSettled(from, CashfreeTxn, Outstanding(order))
       \/ /\ ~r.paid /\ from # "none"
          /\ from \notin PayableStates \/ (enabled /\ ~CashfreeVerified)
          /\ order' = [order EXCEPT !.state = from]
          /\ UNCHANGED <<settled, short>>
    /\ cashfreeEvent' = "delivered"
    /\ req' = [req EXCEPT ![w] = Idle]
    /\ UNCHANGED <<enabled, used, cashfree>>

\* The method was disabled meanwhile: addPaymentToOrder throws, and the event is
\* delivered again.
CashfreeThrows(w) ==
    LET r == req[w] IN
    /\ r.plugin = "cashfree"
    /\ ~r.paid /\ ~enabled
    /\ PaymentState(r.state) \in PayableStates
    /\ req' = [req EXCEPT ![w] = Idle]
    /\ UNCHANGED <<order, settled, short, enabled, used, cashfreeVars>>

\* The transition was made in a context of the default channel, and so
\* committed; then the transaction failed.
CashfreeDies(w) ==
    LET r == req[w] IN
    /\ r.plugin = "cashfree"
    /\ ~r.paid
    /\ r.state \notin PayableStates
    /\ CanTransition(order.state, "ArrangingPayment")
    /\ Fault \/ (~enabled /\ UNCHANGED used)
    /\ order' = [order EXCEPT !.state = "ArrangingPayment"]
    /\ req' = [req EXCEPT ![w] = Idle]
    /\ UNCHANGED <<settled, short, enabled, cashfreeVars>>

CashfreeServer(w) == CashfreeRead(w) \/ CashfreeCommit(w)

CashfreeNext ==
    \/ CreateCashfreeOrder \/ CashfreePay \/ CashfreeRedeliver \/ CashfreeAddPayment
    \/ \E w \in Workers : CashfreeServer(w) \/ CashfreeThrows(w) \/ CashfreeDies(w)

CashfreeOpen == cashfree.status # "none"
CashfreeCaptured == IF cashfree.status = "paid" THEN {CashfreeTxn} ELSE {}

CashfreeRequests == [plugin : {"cashfree"}, state : OrderStates, paid : BOOLEAN]

CashfreeType ==
    /\ cashfree \in [status : {"none", "open", "paid"}, amount : Totals \cup {0}]
    /\ cashfreeEvent \in {"none", "pending", "delivered"}

=============================================================================
