------------------------------ MODULE OrderBook -----------------------------
(***************************************************************************)
(* The order that several payment plugins settle together: its row, its    *)
(* Settled payment rows, the web server's webhook requests, and what       *)
(* shoppers and administrators do to it. The modules of the single         *)
(* plugins extend this one and share its variables; ShopPayments composes  *)
(* them.                                                                   *)
(*                                                                         *)
(* Transactions are serial here: each is one step. RazorpaySettlement      *)
(* models what happens when they overlap.                                  *)
(***************************************************************************)
EXTENDS Integers, Sequences, FiniteSets, Functions, VendureOrder

CONSTANTS
    Totals,        \* the amounts the order can add up to
    Workers,       \* webhook requests the server runs at the same time
    Sync,          \* the storefront's syncMolliePaymentStatus request
    Manual,        \* transaction id of a payment an administrator enters
    Free,          \* the id 'Settled without Mollie' of a payment of nothing
    Disciplined,   \* does an order that is being paid stay where it is, in the
                   \* checkout or out of it? Its contents may change.
    QuietModify,   \* is an order modified, and then paid, only while no event
                   \* and no request of an earlier payment is on its way?
    MaxCheckouts,  \* bound: checkouts the shopper opens with the providers
    MaxEdits,      \* bound: edits of the order and trips out of the checkout
    MaxModify,     \* bound: modifications and cancellations by administrators
    MaxFaults      \* bound: deaths, repeated events, disabled methods

ASSUME TotalsAssumption == \A total \in Totals : total \in Nat
ASSUME SwitchesAssumption == Disciplined \in BOOLEAN /\ QuietModify \in BOOLEAN
ASSUME BoundsAssumption ==
    /\ MaxCheckouts \in Nat
    /\ MaxEdits \in Nat /\ MaxModify \in Nat /\ MaxFaults \in Nat

Actors == Workers \cup {Sync}

VARIABLES
    order,     \* the order row; covered counts Authorized rows (held) as well
    settled,   \* its Settled payment rows, oldest first
    short,     \* history: payments entered for less than was left to pay
    enabled,   \* are the payment methods enabled?
    req,       \* the requests being served
    used       \* the bounded counters

bookVars == <<order, settled, short, enabled, req, used>>

Idle == [plugin |-> "none"]

BookInit ==
    /\ order \in [state : {"AddingItems"}, total : Totals, covered : {0}, held : {0}]
    /\ settled = <<>>
    /\ short = {}
    /\ enabled = TRUE
    /\ req = [a \in Actors |-> Idle]
    /\ used = [checkouts |-> 0, edits |-> 0, modify |-> 0, faults |-> 0]

\* orderPlacedAt is set when the order leaves the checkout, for good.
PlacedStates == {"PaymentAuthorized", "PaymentSettled", "ArrangingAdditionalPayment"}
Placed == order.state \in PlacedStates

Rows(txn) == {i \in DOMAIN settled : settled[i].txn = txn}

\* transitionOrderIfTotalIsCovered, the end of addPaymentToOrder.
CoveredState(o) ==
    CASE o.covered - o.held >= o.total -> "PaymentSettled"
      [] o.covered - o.held < o.total /\ o.covered >= o.total -> "PaymentAuthorized"
      [] OTHER -> o.state

Settle(o) == [o EXCEPT !.state = CoveredState(o)]

\* A payment is entered: does it fall short of what is left to pay?
MarkShort(txn, amount) ==
    short' = IF order.covered + amount < order.total THEN short \cup {txn} ELSE short

\* addPaymentToOrder with a Settled result of the handler, on an order that
\* the same transaction has taken to state from.
EnterSettled(from, txn, amount) ==
    /\ from \in PayableStates
    /\ settled' = Append(settled, [txn |-> txn, amount |-> amount])
    /\ order' = Settle([order EXCEPT !.state = from, !.covered = @ + amount])
    /\ MarkShort(txn, amount)

\* The order state a plugin's transitionToState('ArrangingPayment') leaves.
\* seen is the state the plugin read; none when the transition is refused.
PaymentState(seen) ==
    CASE seen \in PayableStates -> order.state
      [] seen \notin PayableStates /\ CanTransition(order.state, "ArrangingPayment")
            -> "ArrangingPayment"
      [] OTHER -> "none"

Fault == used.faults < MaxFaults /\ used' = [used EXCEPT !.faults = @ + 1]

\* The shopper opens a checkout with a provider.
Checkout ==
    /\ used.checkouts < MaxCheckouts
    /\ used' = [used EXCEPT !.checkouts = @ + 1]
    /\ UNCHANGED <<order, settled, short, enabled, req>>

\* A request ends without an answer: its transaction is rolled back.
RequestDies(a) ==
    /\ req[a] # Idle
    /\ Fault
    /\ req' = [req EXCEPT ![a] = Idle]
    /\ UNCHANGED <<order, settled, short, enabled>>

\* An administrator disables the payment methods, or enables them again.
DisableMethods ==
    /\ enabled
    /\ Fault
    /\ enabled' = FALSE
    /\ UNCHANGED <<order, settled, short, req>>

EnableMethods ==
    /\ ~enabled
    /\ enabled' = TRUE
    /\ UNCHANGED <<order, settled, short, req, used>>

-----------------------------------------------------------------------------
\* paying: is a checkout of some provider open or paid? captured: is one paid?
EditOrder(total) ==
    /\ order.state = "AddingItems"
    /\ used.edits < MaxEdits
    /\ order' = [order EXCEPT !.total = total]
    /\ used' = [used EXCEPT !.edits = @ + 1]
    /\ UNCHANGED <<settled, short, enabled, req>>

EnterCheckout(captured) ==
    /\ order.state = "AddingItems"
    /\ Disciplined => ~captured
    /\ order' = [order EXCEPT !.state = "ArrangingPayment"]
    /\ UNCHANGED <<settled, short, enabled, req, used>>

LeaveCheckout(paying) ==
    /\ order.state = "ArrangingPayment"
    /\ Disciplined => ~paying
    /\ used.edits < MaxEdits
    /\ order' = [order EXCEPT !.state = "AddingItems"]
    /\ used' = [used EXCEPT !.edits = @ + 1]
    /\ UNCHANGED <<settled, short, enabled, req>>

\* The placed order is modified and costs more; busy: is an event on its way?
ModifyOrder(total, busy) ==
    /\ CanTransition(order.state, "ArrangingAdditionalPayment")
    /\ total > order.covered
    /\ QuietModify => ~busy
    /\ used.modify < MaxModify
    /\ order' = [order EXCEPT !.state = "ArrangingAdditionalPayment", !.total = total]
    /\ used' = [used EXCEPT !.modify = @ + 1]
    /\ UNCHANGED <<settled, short, enabled, req>>

ManualPayment ==
    /\ order.state = "ArrangingAdditionalPayment"
    /\ Outstanding(order) > 0
    /\ EnterSettled(order.state, Manual, Outstanding(order))
    /\ UNCHANGED <<enabled, req, used>>

CancelOrder ==
    /\ CanTransition(order.state, "Cancelled")
    /\ used.modify < MaxModify
    /\ order' = [order EXCEPT !.state = "Cancelled"]
    /\ used' = [used EXCEPT !.modify = @ + 1]
    /\ UNCHANGED <<settled, short, enabled, req>>

-----------------------------------------------------------------------------
BookType ==
    /\ order \in [state : OrderStates, total : Totals, covered : Nat, held : Nat]
    /\ enabled \in BOOLEAN
    /\ used \in [checkouts : 0..MaxCheckouts, edits : 0..MaxEdits,
                modify : 0..MaxModify, faults : 0..MaxFaults]

\* The row of the order and its payment rows agree: what it counts as covered
\* is what its Settled rows and its held (Authorized) money add up to.
SettledSum == SumFunction([i \in DOMAIN settled |-> settled[i].amount])

=============================================================================
