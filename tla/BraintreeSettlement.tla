------------------------ MODULE BraintreeSettlement -------------------------
(***************************************************************************)
(* A Braintree payment of the order: addPaymentToOrder of the storefront   *)
(* makes the sale while its transaction is open. There is no webhook: when *)
(* the transaction fails after the sale, nothing records the money.        *)
(***************************************************************************)
EXTENDS OrderBook

CONSTANT Sales \* transactions created at Braintree

VARIABLE braintree \* the amount taken by every sale, 0 before it is made

BraintreeTxn(s) == <<"braintree", s>>

BraintreeInit == braintree = [s \in Sales |-> 0]

\* createPayment: transaction.sale over the outstanding amount, submitted for
\* settlement at once. A sale that is refused is a Declined row.
Sale(s) ==
    /\ order.state = "ArrangingPayment"
    /\ enabled
    /\ braintree[s] = 0
    /\ Outstanding(order) > 0
    /\ braintree' = [braintree EXCEPT ![s] = Outstanding(order)]

BraintreeAddPayment(s) ==
    /\ Sale(s)
    /\ EnterSettled(order.state, BraintreeTxn(s), Outstanding(order))
    /\ UNCHANGED <<enabled, req, used>>

BraintreeAddPaymentDies(s) ==
    /\ Sale(s)
    /\ Fault
    /\ UNCHANGED <<order, settled, short, enabled, req>>

BraintreeNext == \E s \in Sales : BraintreeAddPayment(s) \/ BraintreeAddPaymentDies(s)

BraintreeCaptured == {BraintreeTxn(s) : s \in {b \in Sales : braintree[b] > 0}}

BraintreeType == braintree \in [Sales -> Nat]

=============================================================================
