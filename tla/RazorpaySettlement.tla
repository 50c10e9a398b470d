------------------------- MODULE RazorpaySettlement -------------------------
(***************************************************************************)
(* How a Razorpay payment reaches one Vendure order: the storefront's      *)
(* createRazorpayOrder and addPaymentToOrder calls, and the payment events *)
(* Razorpay delivers to the webhook, at least once and in any order.       *)
(*                                                                         *)
(* The webhook reads the order BEFORE its transaction and decides inside   *)
(* it on that copy (razorpay.controller.ts:69, 120, 127); transitionToState*)
(* and addPaymentToOrder read the database again.                          *)
(***************************************************************************)
EXTENDS Integers, Sequences, VendureOrder

CONSTANTS
    Payments,        \* Razorpay payment ids, one for each opened checkout
    Totals,          \* the amounts the order can add up to
    Workers,         \* webhook requests the server runs at the same time
    Shop,            \* the storefront's addPaymentToOrder request
    Manual,          \* transaction id of a payment an administrator enters
    Serial,          \* does the database run transactions one by one?
    Disciplined,     \* does the storefront leave an order alone while it is
                     \* being paid?
    QuietModify,     \* are orders modified only while no webhook is running?
    MaxEdits,        \* bound: edits of the order and trips out of the checkout
    MaxModify,       \* bound: modifications of the placed order
    MaxFaults,       \* bound: requests that die and webhooks delivered again
    MaxDeclined      \* bound: Declined payment rows

ASSUME TotalsAssumption == \A total \in Totals : total \in Nat
ASSUME NamesAssumption == Shop \notin Workers /\ Manual \notin Payments
ASSUME SwitchesAssumption ==
    Serial \in BOOLEAN /\ Disciplined \in BOOLEAN /\ QuietModify \in BOOLEAN
ASSUME BoundsAssumption ==
    /\ MaxEdits \in Nat /\ MaxModify \in Nat /\ MaxFaults \in Nat
    /\ MaxDeclined \in Nat

Actors == Workers \cup {Shop}

EventTypes == {"payment.captured", "payment.failed"}
Events == [type : EventTypes, id : Payments]

VARIABLES
    order,         \* the committed order row
    settled,       \* its Settled payment rows, oldest first
    declined,      \* how many Declined rows it has
    provider,      \* Razorpay's side of every payment
    outdated,      \* history: checkouts whose order has been changed since
    outbox,        \* events Razorpay still has to deliver
    delivered,     \* events answered with a 2xx, Razorpay may repeat them
    methodEnabled, \* is the Razorpay payment method enabled?
    req,           \* the requests being served
    used           \* the bounded counters

vars == <<order, settled, declined, provider, outdated, outbox, delivered,
          methodEnabled, req, used>>

OrderRows == [state : OrderStates, total : Totals, covered : Int]

\* pc "read": the webhook holds its copy of the order (state, paid);
\* pc "txn": the transaction has begun and has read the order row (view).
Idle == [pc |-> "idle"]

Init ==
    /\ order \in [state : {"AddingItems"}, total : Totals, covered : {0}]
    /\ settled = <<>>
    /\ declined = 0
    /\ provider = [p \in Payments |-> [status |-> "none", amount |-> 0]]
    /\ outdated = {}
    /\ outbox = {}
    /\ delivered = {}
    /\ methodEnabled = TRUE
    /\ req = [a \in Actors |-> Idle]
    /\ used = [edits |-> 0, modify |-> 0, faults |-> 0]

-----------------------------------------------------------------------------
\* Razorpay and the operators of the shop.

Opened(p) == provider[p].status # "none"
Captured(p) == provider[p].status = "captured"
BeingPaid == \E p \in Payments : Opened(p)

\* payment.captured / payment.failed: the checkout of p ends.
FinishCheckout(p, status, type) ==
    /\ provider[p].status = "created"
    /\ provider' = [provider EXCEPT ![p].status = status]
    /\ outbox' = outbox \cup {[type |-> type, id |-> p]}
    /\ UNCHANGED <<order, settled, declined, outdated, delivered, methodEnabled,
                   req, used>>

Capture(p) == FinishCheckout(p, "captured", "payment.captured")
FailCheckout(p) == FinishCheckout(p, "failed", "payment.failed")

\* Razorpay delivers an event again although it was answered with 200.
Redeliver(e) ==
    /\ e \in delivered
    /\ used.faults < MaxFaults
    /\ delivered' = delivered \ {e}
    /\ outbox' = outbox \cup {e}
    /\ used' = [used EXCEPT !.faults = @ + 1]
    /\ UNCHANGED <<order, settled, declined, provider, outdated, methodEnabled, req>>

\* An administrator disables the payment method, or enables it again.
DisableMethod ==
    /\ methodEnabled
    /\ used.faults < MaxFaults
    /\ methodEnabled' = FALSE
    /\ used' = [used EXCEPT !.faults = @ + 1]
    /\ UNCHANGED <<order, settled, declined, provider, outdated, outbox,
                   delivered, req>>

EnableMethod ==
    /\ ~methodEnabled
    /\ methodEnabled' = TRUE
    /\ UNCHANGED <<order, settled, declined, provider, outdated, outbox,
                   delivered, req, used>>

\* With Serial no other transaction is between its first read and its commit.
DatabaseFree == Serial => \A a \in Actors : req[a].pc # "txn"

\* An administrator modifies the placed order, which now costs more.
ModifyOrder(total) ==
    /\ CanTransition(order.state, "ArrangingAdditionalPayment")
    /\ total > order.covered
    /\ used.modify < MaxModify
    /\ DatabaseFree
    /\ QuietModify => \A w \in Workers : req[w].pc = "idle"
    /\ order' = [order EXCEPT !.state = "ArrangingAdditionalPayment",
                              !.total = total]
    /\ used' = [used EXCEPT !.modify = @ + 1]
    /\ UNCHANGED <<settled, declined, provider, outdated, outbox, delivered,
                   methodEnabled, req>>

\* ... and enters the additional payment by hand.
ManualPayment ==
    /\ order.state = "ArrangingAdditionalPayment"
    /\ DatabaseFree
    /\ settled' = Append(settled, [txn |-> Manual, amount |-> Outstanding(order)])
    /\ order' = [order EXCEPT !.state = "PaymentSettled", !.covered = order.total]
    /\ UNCHANGED <<declined, provider, outdated, outbox, delivered,
                   methodEnabled, req, used>>

-----------------------------------------------------------------------------
\* The storefront.

\* Mutant: the Razorpay order is created over the total without tax.
CreateRazorpayOrderWithoutTax(p) ==
    /\ order.state \in ActiveStates
    /\ methodEnabled
    /\ ~Opened(p)
    /\ provider' = [provider EXCEPT ![p] =
                       [status |-> "created", amount |-> order.total - 1]]
    /\ UNCHANGED <<order, settled, declined, outdated, outbox, delivered,
                   methodEnabled, req, used>>

\* createRazorpayOrder: for the active order only, over its full total. The
\* checkout exists from the moment the order is read: nobody can use it before
\* the call has answered.
CreateRazorpayOrder(p) ==
    /\ order.state \in ActiveStates
    /\ methodEnabled
    /\ ~Opened(p)
    /\ provider' = [provider EXCEPT ![p] =
                       [status |-> "created", amount |-> order.total]]
    /\ UNCHANGED <<order, settled, declined, outdated, outbox, delivered,
                   methodEnabled, req, used>>

\* The shopper changes the contents of the order.
EditOrder(total) ==
    /\ order.state = "AddingItems"
    /\ DatabaseFree
    /\ Disciplined => ~BeingPaid
    /\ used.edits < MaxEdits
    /\ order' = [order EXCEPT !.total = total]
    /\ outdated' = outdated \cup {p \in Payments : Opened(p)}
    /\ used' = [used EXCEPT !.edits = @ + 1]
    /\ UNCHANGED <<settled, declined, provider, outbox, delivered,
                   methodEnabled, req>>

\* transitionOrderToState of the shop API: into the checkout and out of it.
EnterCheckout ==
    /\ order.state = "AddingItems"
    /\ DatabaseFree
    /\ Disciplined => \A p \in Payments : ~Captured(p)
    /\ order' = [order EXCEPT !.state = "ArrangingPayment"]
    /\ UNCHANGED <<settled, declined, provider, outdated, outbox, delivered,
                   methodEnabled, req, used>>

LeaveCheckout ==
    /\ order.state = "ArrangingPayment"
    /\ DatabaseFree
    /\ Disciplined => ~BeingPaid
    /\ used.edits < MaxEdits
    /\ order' = [order EXCEPT !.state = "AddingItems"]
    /\ used' = [used EXCEPT !.edits = @ + 1]
    /\ UNCHANGED <<settled, declined, provider, outdated, outbox, delivered,
                   methodEnabled, req>>

\* addPaymentToOrder of the shop API begins: its transaction reads the order.
ShopAddPayment(p) ==
    /\ req[Shop].pc = "idle"
    /\ order.state \in ActiveStates
    /\ methodEnabled
    /\ Opened(p)
    /\ Captured(p) \/ declined < MaxDeclined
    /\ DatabaseFree
    /\ req' = [req EXCEPT ![Shop] = [pc |-> "txn", id |-> p, view |-> order]]
    /\ UNCHANGED <<order, settled, declined, provider, outdated, outbox, delivered,
                   methodEnabled, used>>

-----------------------------------------------------------------------------
\* Inside a transaction.

\* Mutant: the handler does not verify the signature.
SignatureUnchecked(p) == Opened(p)

\* razorpay.handler createPayment: only a captured payment has a signature.
SignatureValid(p) == Captured(p)

\* The handler's verdict on p, and the rows addPaymentToOrder writes for it.
\* from is the order state addPaymentToOrder finds. The handler records the
\* outstanding amount it is given, which therefore covers the order.
AddPayment(p, from, view) ==
    \/ /\ from \in PayableStates
       /\ SignatureValid(p)
       /\ settled' = Append(settled, [txn |-> p, amount |-> Outstanding(view)])
       /\ order' = [order EXCEPT !.state = "PaymentSettled",
                                 !.covered = @ + Outstanding(view)]
       /\ UNCHANGED declined
    \/ /\ from \in PayableStates
       /\ ~SignatureValid(p)
       /\ declined' = declined + 1
       /\ UNCHANGED <<order, settled>>
    \/ /\ from \notin PayableStates
       /\ UNCHANGED <<order, settled, declined>>

ShopCommit ==
    LET r == req[Shop] IN
    /\ r.pc = "txn"
    /\ AddPayment(r.id, r.view.state, r.view)
    /\ req' = [req EXCEPT ![Shop] = Idle]
    /\ UNCHANGED <<provider, outdated, outbox, delivered, methodEnabled, used>>

-----------------------------------------------------------------------------
\* The webhook. While the method is disabled every event is answered with 400
\* and stays in the outbox: Razorpay will deliver it again.

Acknowledge(e) ==
    /\ outbox' = outbox \ {e}
    /\ delivered' = delivered \cup {e}

\* Mutant: every event is answered 200 before its type is looked at.
WebhookIgnoreAll(w, e) ==
    /\ req[w].pc = "idle"
    /\ e \in outbox
    /\ methodEnabled
    /\ Acknowledge(e)
    /\ UNCHANGED <<order, settled, declined, provider, outdated, methodEnabled,
                   req, used>>

\* payment.failed is acknowledged without a trace.
WebhookIgnore(w, e) ==
    /\ req[w].pc = "idle"
    /\ e \in outbox
    /\ methodEnabled
    /\ e.type # "payment.captured"
    /\ Acknowledge(e)
    /\ UNCHANGED <<order, settled, declined, provider, outdated, methodEnabled,
                   req, used>>

\* Mutant: the copy of the order keeps the payment rows, not their ids.
WebhookReadRows(w, e) ==
    /\ req[w].pc = "idle"
    /\ e \in outbox
    /\ methodEnabled
    /\ e.type = "payment.captured"
    /\ req' = [req EXCEPT ![w] =
                  [pc |-> "read", id |-> e.id, state |-> order.state,
                   paid |-> {settled[i] : i \in DOMAIN settled}]]
    /\ UNCHANGED <<order, settled, declined, provider, outdated, outbox, delivered,
                   methodEnabled, used>>

\* payment.captured: the order is read, with its payments, before the
\* transaction begins.
WebhookRead(w, e) ==
    /\ req[w].pc = "idle"
    /\ e \in outbox
    /\ methodEnabled
    /\ e.type = "payment.captured"
    /\ req' = [req EXCEPT ![w] =
                  [pc |-> "read", id |-> e.id, state |-> order.state,
                   paid |-> {settled[i].txn : i \in DOMAIN settled}]]
    /\ UNCHANGED <<order, settled, declined, provider, outdated, outbox, delivered,
                   methodEnabled, used>>

WebhookBegin(w) ==
    LET r == req[w] IN
    /\ r.pc = "read"
    /\ DatabaseFree
    /\ req' = [req EXCEPT ![w] =
                  [pc |-> "txn", id |-> r.id, state |-> r.state,
                   paid |-> r.paid, view |-> order]]
    /\ UNCHANGED <<order, settled, declined, provider, outdated, outbox, delivered,
                   methodEnabled, used>>

\* Mutant: the order state alone decides, the order's payments are not looked at.
NeverAlreadySettled(r) == FALSE

AlreadySettled(r) == r.id \in r.paid
NeedsTransition(r) == r.state \notin PayableStates

\* Mutant: the state is written without asking the order process.
WebhookForceDefaultChannel(w) ==
    LET r == req[w] IN
    /\ r.pc = "txn"
    /\ ~AlreadySettled(r) /\ NeedsTransition(r)
    /\ order' = [order EXCEPT !.state = "ArrangingPayment"]
    /\ req' = [req EXCEPT ![w].state = "ArrangingPayment",
                          ![w].view.state = "ArrangingPayment"]
    /\ UNCHANGED <<settled, declined, provider, outdated, outbox, delivered,
                   methodEnabled, used>>

\* The transition failed in the channel of the event and is tried in the
\* default channel. That context is a new one: it is not part of the
\* transaction and commits at once.
WebhookTransitionInDefaultChannel(w) ==
    LET r == req[w] IN
    /\ r.pc = "txn"
    /\ ~AlreadySettled(r) /\ NeedsTransition(r)
    /\ CanTransition(order.state, "ArrangingPayment")
    /\ order' = [order EXCEPT !.state = "ArrangingPayment"]
    /\ req' = [req EXCEPT ![w].state = "ArrangingPayment",
                          ![w].view.state = "ArrangingPayment"]
    /\ UNCHANGED <<settled, declined, provider, outdated, outbox, delivered,
                   methodEnabled, used>>

\* The rest of the transaction and the answer 200, whatever came of it.
WebhookCommit(w) ==
    LET r == req[w]
        moves == CanTransition(r.view.state, "ArrangingPayment") IN
    /\ r.pc = "txn"
    /\ \/ /\ AlreadySettled(r) \/ (NeedsTransition(r) /\ ~moves)
          /\ UNCHANGED <<order, settled, declined>>
       \/ /\ ~AlreadySettled(r) /\ NeedsTransition(r) /\ moves
          /\ AddPayment(r.id, "ArrangingPayment", r.view)
       \/ /\ ~AlreadySettled(r) /\ ~NeedsTransition(r)
          /\ AddPayment(r.id, r.view.state, r.view)
    /\ Acknowledge([type |-> "payment.captured", id |-> r.id])
    /\ req' = [req EXCEPT ![w] = Idle]
    /\ UNCHANGED <<provider, outdated, methodEnabled, used>>

\* A request dies (exception, dropped connection, restart): its transaction
\* rolls back and nobody is answered.
Abort(a) ==
    /\ req[a].pc # "idle"
    /\ used.faults < MaxFaults
    /\ req' = [req EXCEPT ![a] = Idle]
    /\ used' = [used EXCEPT !.faults = @ + 1]
    /\ UNCHANGED <<order, settled, declined, provider, outdated, outbox, delivered,
                   methodEnabled>>

-----------------------------------------------------------------------------
WebhookStep(w) ==
    \/ \E e \in outbox : WebhookIgnore(w, e) \/ WebhookRead(w, e)
    \/ WebhookBegin(w)
    \/ WebhookTransitionInDefaultChannel(w)
    \/ WebhookCommit(w)

Next ==
    \/ \E p \in Payments :
          Capture(p) \/ FailCheckout(p) \/ CreateRazorpayOrder(p) \/ ShopAddPayment(p)
    \/ \E e \in delivered : Redeliver(e)
    \/ DisableMethod \/ EnableMethod
    \/ \E total \in Totals : ModifyOrder(total) \/ EditOrder(total)
    \/ ManualPayment
    \/ EnterCheckout \/ LeaveCheckout
    \/ ShopCommit
    \/ \E w \in Workers : WebhookStep(w)
    \/ \E a \in Actors : Abort(a)

Spec == Init /\ [][Next]_vars

\* The server answers the requests it has, Razorpay delivers what is not
\* acknowledged, the database does not starve a transaction that waits for
\* others to end, and a disabled payment method is enabled again. Shoppers and
\* their browsers owe nothing.
Fairness ==
    /\ \A w \in Workers : WF_vars(WebhookStep(w)) /\ SF_vars(WebhookBegin(w))
    /\ WF_vars(ShopCommit)
    /\ WF_vars(EnableMethod)

FairSpec == Spec /\ Fairness

-----------------------------------------------------------------------------
Txns == Payments \cup {Manual}

ShopRequests == [pc : {"txn"}, id : Payments, view : OrderRows]

WebhookRequests ==
    [pc : {"read"}, id : Payments, state : OrderStates, paid : SUBSET Txns]
    \cup [pc : {"txn"}, id : Payments, state : OrderStates, paid : SUBSET Txns,
          view : OrderRows]

OrderType ==
    /\ order \in OrderRows
    /\ settled \in Seq([txn : Txns, amount : Int])
    /\ declined \in Nat

ProviderType ==
    provider \in [Payments -> [status : {"none", "created", "captured", "failed"},
                              amount : Nat]]

EventsType == outbox \subseteq Events /\ delivered \subseteq Events

RequestsType ==
    /\ req \in [Actors -> {Idle} \cup ShopRequests \cup WebhookRequests]
    /\ req[Shop] \in {Idle} \cup ShopRequests
    /\ \A w \in Workers : req[w] \in {Idle} \cup WebhookRequests

CountersType ==
    /\ methodEnabled \in BOOLEAN
    /\ used \in [edits : Nat, modify : Nat, faults : Nat]

HistoryType == outdated \subseteq Payments

TypeOK ==
    /\ OrderType /\ ProviderType /\ EventsType /\ RequestsType
    /\ CountersType /\ HistoryType

\* The Settled rows that carry p as their transactionId.
BookedRows(p) == {i \in DOMAIN settled : settled[i].txn = p}

\* Every Razorpay payment is recorded on the order at most once, whichever of
\* the storefront and the (repeated, concurrent, delayed) webhooks come first.
\* This is what the alreadySettled check and the order states are for.
OneRecordPerCapture ==
    \A p \in Payments : \A i, j \in BookedRows(p) : i = j

\* The order is placed by a Razorpay payment, and what is booked for it is what
\* it was charged, unless the contents of the order were changed after its
\* checkout was opened: createPayment is not told the amount of the Razorpay
\* order and records whatever is outstanding when the payment is added, and no
\* operation of the plugin withdraws a checkout the order has moved away from.
PlacedForTheCharge ==
    settled # <<>> =>
        /\ settled[1].txn \in Payments
        /\ \/ settled[1].amount = provider[settled[1].txn].amount
           \/ settled[1].txn \in outdated

\* Once captured money is booked, the order does not become an open cart again,
\* where it could be paid a second time through the storefront.
NeverReopened ==
    [][(\E p \in Payments : BookedRows(p) # {})
         => order'.state \notin ActiveStates]_vars

\* The webhook is the backstop: money Razorpay captured ends up settling the
\* order even if the storefront never calls addPaymentToOrder.
BackstopSettles ==
    (\E p \in Payments : Captured(p)) ~> (settled # <<>>)

\* Why it works when transactions are serial: a webhook whose copy of the order
\* misses a payment that has been booked meanwhile finds the order settled, a
\* state no payment can be added in. Nothing takes the order out of it before
\* the webhook has ended (QuietModify).
ClosedOnceBooked == settled # <<>> => order.state \notin ActiveStates

EventsAreTrue ==
    /\ \A e \in outbox \cup delivered :
           e.type = "payment.captured" => Captured(e.id)
    /\ \A w \in Workers : req[w].pc # "idle" => Captured(req[w].id)

OneTransaction ==
    \A a \in Actors : req[a].pc = "txn" =>
        /\ req[a].view = order
        /\ \A b \in Actors : req[b].pc = "txn" => a = b

ShopPaysOpenOrder == req[Shop].pc = "txn" => req[Shop].view.state \in ActiveStates

StaleCopyIsHarmless ==
    \A w \in Workers :
        /\ req[w].pc # "idle"
        /\ req[w].id \notin req[w].paid
        /\ BookedRows(req[w].id) # {}
        => order.state = "PaymentSettled"

OnlyCapturedBooked == \A p \in Payments : BookedRows(p) # {} => Captured(p)

LedgerInv ==
    /\ ClosedOnceBooked /\ EventsAreTrue /\ OneTransaction /\ ShopPaysOpenOrder
    /\ StaleCopyIsHarmless /\ OnlyCapturedBooked /\ OneRecordPerCapture

\* The plugin and the shop together keep the books of PaymentLedger.
Ledger == INSTANCE PaymentLedger WITH
              captured <- {p \in Payments : Captured(p)},
              book <- [i \in DOMAIN settled |-> settled[i].txn],
              Other <- Manual

RefinesLedger == Ledger!Spec

=============================================================================
