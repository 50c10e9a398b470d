--------------------------- MODULE GatewayRefunds ---------------------------
(***************************************************************************)
(* Refunds of one captured payment: the refundOrder mutation of an         *)
(* administrator, which asks the payment's gateway for the refund inside   *)
(* its transaction and saves the row afterwards.  Razorpay and Cashfree    *)
(* tell later by an event how a refund ended, and their webhooks find the  *)
(* row by the id of the refund; the other plugins never hear of it again.  *)
(*                                                                         *)
(* A row is committed only when the mutation ends. An event that arrives   *)
(* before finds nothing and is answered with 200 all the same.             *)
(***************************************************************************)
EXTENDS Integers, Sequences, FiniteSetsExt

CONSTANTS
    Gateways,    \* the plugins that may have taken the payment
    Refunds,     \* ids the gateway gives to refunds
    Payment,     \* id of the payment, also for an empty id: no refund has it
    Paid,        \* its amount
    Amounts,     \* the amounts that administrators give back
    Unit,        \* amounts of the shop in one of Stripe: 100 in a currency without
                 \* a fraction, 1 in the others
    Admins,      \* refundOrder mutations served at the same time
    Workers,     \* webhook requests served at the same time
    RefundSpeed, \* the refundSpeed option; Cashfree calls "optimum" instant
    StatusEvents,    \* Cashfree sends an event also of a status that is not the last
    AcceptedMayFail, \* a refund taken by Mollie or Braintree may fail later
    MaxFaults    \* bound: refunds refused, answers lost, requests that die and
                 \* events delivered again, together

\* The gateways with a webhook for refunds, those whose answer is taken for the end,
\* those whose handler catches what the call throws and those whose handler lets it
\* through: Stripe's catches its own errors only.
Notifying == {"razorpay", "cashfree"}
Trusting == {"mollie", "braintree"}
Catching == {"razorpay", "cashfree", "stripe"}
Rethrowing == {"mollie", "braintree", "stripe"}

ASSUME AmountsAssumption ==
    /\ Paid \in Nat /\ Unit \in Nat \ {0}
    /\ \A amount \in Amounts : amount \in 1..Paid
ASSUME BoundsAssumption == MaxFaults \in Nat
ASSUME GatewaysAssumption == Gateways \subseteq Notifying \cup Trusting \cup Catching
ASSUME PaymentAssumption == Payment \notin Refunds
ASSUME SpeedAssumption == RefundSpeed \in {"normal", "optimum"}
ASSUME SwitchAssumption == StatusEvents \in BOOLEAN /\ AcceptedMayFail \in BOOLEAN

Terminal == {"processed", "failed"}
Statuses == {"none", "pending"} \cup Terminal
RefundStates == {"Pending", "Settled", "Failed"}
Events == [status : {"pending"} \cup Terminal, id : Refunds]

VARIABLES
    gateway,    \* the plugin that took the payment
    rows,       \* the Refund rows of the order
    provider,   \* the gateway's side of every refund
    call,       \* the refundOrder mutations being served
    outbox,     \* events the gateway still has to deliver
    delivered,  \* events answered with a 200, the gateway may repeat them
    hook,       \* the webhook requests being served
    faults,     \* bounded counter
    lost        \* has an answer of the gateway or a mutation been lost?

vars == <<gateway, rows, provider, call, outbox, delivered, hook, faults, lost>>

Idle == [pc |-> "idle"]

Fault == faults < MaxFaults /\ faults' = faults + 1

Init ==
    /\ gateway \in Gateways
    /\ rows = <<>>
    /\ provider = [r \in Refunds |-> [status |-> "none", amount |-> 0, instant |-> FALSE]]
    /\ call = [a \in Admins |-> Idle]
    /\ outbox = {}
    /\ delivered = {}
    /\ hook = [w \in Workers |-> Idle]
    /\ faults = 0
    /\ lost = FALSE

-----------------------------------------------------------------------------
\* The gateway.

\* It never returns more than it captured.
Returned ==
    SumFunctionOnSet([r \in Refunds |-> provider[r].amount],
                     {r \in Refunds : provider[r].status \in {"pending", "processed"}})

EventsFor(r, status) ==
    IF \/ gateway \in Notifying /\ status \in Terminal
       \/ gateway = "cashfree" /\ StatusEvents
    THEN {[status |-> status, id |-> r]} ELSE {}

\* The amount the gateway is asked for, in amounts of the shop: Stripe gets the
\* number as it is.
Asked(amount) == IF gateway = "stripe" THEN amount * Unit ELSE amount

\* The id of a new refund; which of the unused ones makes no difference.
NewRefund == CHOOSE r \in Refunds : provider[r].status = "none"

\* The refund is created, as an instant one if the speed is optimum and the gateway
\* can. The call returns with its id and status, or the answer is lost on the
\* way and the call throws.
AcceptRefund(a, r, status, instant) ==
    /\ call[a].pc = "calling"
    /\ provider[r].status = "none" /\ r = NewRefund
    /\ Returned + Asked(call[a].amount) <= Paid
    /\ status # "none"
    /\ instant => gateway \in Notifying /\ RefundSpeed = "optimum"
    /\ ~instant /\ gateway \in Notifying => status = "pending"
    /\ provider' = [provider EXCEPT ![r] = [status |-> status, amount |-> Asked(call[a].amount),
                                           instant |-> instant]]
    /\ outbox' = outbox \cup EventsFor(r, status)
    /\ \/ /\ call' = [call EXCEPT ![a] = [pc |-> "answered", amount |-> call[a].amount,
                                          id |-> r, status |-> status]]
          /\ UNCHANGED <<faults, lost>>
       \/ /\ Fault
          /\ call' = [call EXCEPT ![a] = [pc |-> "threw", amount |-> call[a].amount]]
          /\ lost' = TRUE
    /\ UNCHANGED <<gateway, rows, delivered, hook>>

\* It refuses: the call of Braintree's client says so, those of the others throw.
RefuseRefund(a) ==
    /\ call[a].pc = "calling"
    /\ Fault
    /\ call' = [call EXCEPT ![a] = [pc |-> IF gateway = "braintree" THEN "refused" ELSE "threw",
                                    amount |-> call[a].amount]]
    /\ UNCHANGED <<gateway, rows, provider, outbox, delivered, hook, lost>>

\* A pending refund ends. At normal speed this takes days, and no mutation
\* runs that long.
FinishRefund(r, status) ==
    /\ provider[r].status = "pending"
    /\ status = "failed" => AcceptedMayFail \/ gateway \notin Trusting
    /\ ~provider[r].instant => \A a \in Admins : call[a].pc = "answered" => call[a].id # r
    /\ provider' = [provider EXCEPT ![r].status = status]
    /\ outbox' = outbox \cup EventsFor(r, status)
    /\ UNCHANGED <<gateway, rows, call, delivered, hook, faults, lost>>

Redeliver(e) ==
    /\ e \in delivered
    /\ Fault
    /\ delivered' = delivered \ {e}
    /\ outbox' = outbox \cup {e}
    /\ UNCHANGED <<gateway, rows, provider, call, hook, lost>>

-----------------------------------------------------------------------------
\* The refundOrder mutation (Vendure's PaymentService, around the handler).

NotFailed == {i \in DOMAIN rows : rows[i].state # "Failed"}
RowTotal == [i \in DOMAIN rows |-> rows[i].total]
Refundable == Paid - SumFunctionOnSet(RowTotal, NotFailed)

RefundOrder(a, amount) ==
    /\ call[a].pc = "idle"
    /\ amount <= Refundable
    /\ call' = [call EXCEPT ![a] = [pc |-> "calling", amount |-> amount]]
    /\ UNCHANGED <<gateway, rows, provider, outbox, delivered, hook, faults, lost>>

\* Mutant: a refund that is pending or on hold counts as Failed.
PendingIsFailed(c) ==
    [state |-> IF c.pc = "answered" /\ c.status = "processed" THEN "Settled" ELSE "Failed",
     txn   |-> IF c.pc # "answered" \/ gateway \in {"stripe", "mollie"} THEN Payment ELSE c.id]

\* Mutant: the row of a pending refund keeps the id of the payment.
PendingKeepsPaymentId(c) ==
    IF c.pc # "answered" \/ c.status = "pending"
    THEN [state |-> IF c.pc # "answered" THEN "Failed" ELSE "Pending", txn |-> Payment]
    ELSE [state |-> IF c.status = "failed" THEN "Failed" ELSE "Settled", txn |-> c.id]

\* Mutant: the row is saved with a status, not a state.
SavesStatus(c) ==
    IF c.pc # "answered" THEN [state |-> "Failed", txn |-> Payment]
    ELSE [state |-> c.status, txn |-> c.id]

\* The handler's answer: the state and the transactionId of the new row.
CreateRefundResult(c) ==
    [state |-> IF c.pc # "answered" \/ c.status = "failed" THEN "Failed"
               ELSE IF c.status = "processed" \/ gateway \in Trusting THEN "Settled"
               ELSE "Pending",
     txn   |-> IF c.pc # "answered" \/ gateway \in {"stripe", "mollie"} THEN Payment ELSE c.id]

\* The row is saved as Pending, moved to the state of the answer (which the plugins with
\* a webhook allow for Pending too; with Stripe the refused move leaves it Pending), and
\* committed.
SaveRefund(a) ==
    LET c == call[a] IN
    /\ c.pc \in {"answered", "refused", "threw"}
    /\ c.pc = "threw" => gateway \in Catching
    /\ rows' = Append(rows, [state |-> CreateRefundResult(c).state,
                             txn   |-> CreateRefundResult(c).txn,
                             total |-> c.amount])
    /\ call' = [call EXCEPT ![a] = Idle]
    /\ UNCHANGED <<gateway, provider, outbox, delivered, hook, faults, lost>>

\* What is not caught ends the mutation: no row.
RefundOrderThrows(a) ==
    /\ call[a].pc = "threw" /\ gateway \in Rethrowing
    /\ call' = [call EXCEPT ![a] = Idle]
    /\ UNCHANGED <<gateway, rows, provider, outbox, delivered, hook, faults, lost>>

\* The mutation dies: no row, whatever the gateway has done.
RefundOrderDies(a) ==
    /\ call[a].pc # "idle"
    /\ Fault
    /\ call' = [call EXCEPT ![a] = Idle]
    /\ lost' = TRUE
    /\ UNCHANGED <<gateway, rows, provider, outbox, delivered, hook>>

-----------------------------------------------------------------------------
\* handleRefundEvent.

Acknowledge(e) ==
    /\ outbox' = outbox \ {e}
    /\ delivered' = delivered \cup {e}

RowsOf(r) == {i \in DOMAIN rows : rows[i].txn = r}

\* No row, or one that is reconciled: nothing to do.
NothingToReconcile(w, e) ==
    /\ hook[w].pc = "idle"
    /\ e \in outbox
    /\ \A i \in RowsOf(e.id) : rows[i].state # "Pending"
    /\ Acknowledge(e)
    /\ UNCHANGED <<gateway, rows, provider, call, hook, faults, lost>>

FindRefund(w, e) ==
    /\ hook[w].pc = "idle"
    /\ e \in outbox
    /\ \E i \in RowsOf(e.id) :
          /\ rows[i].state = "Pending"
          /\ hook' = [hook EXCEPT ![w] = [pc |-> "found", event |-> e, row |-> i]]
    /\ UNCHANGED <<gateway, rows, provider, call, outbox, delivered, faults, lost>>

\* Mutant: every refund event settles the refund.
EveryEventSettles(e) == "Settled"

NewState(e) == IF e.status = "processed" THEN "Settled" ELSE "Failed"

\* transitionRefundToState reads the row again; from a terminal state there is
\* no transition, which is only logged.
TransitionRefund(w) ==
    LET h == hook[w] IN
    /\ h.pc = "found"
    /\ IF rows[h.row].state = "Pending"
       THEN rows' = [rows EXCEPT ![h.row].state = NewState(h.event)]
       ELSE UNCHANGED rows
    /\ Acknowledge(h.event)
    /\ hook' = [hook EXCEPT ![w] = Idle]
    /\ UNCHANGED <<gateway, provider, call, faults, lost>>

WebhookDies(w) ==
    /\ hook[w].pc = "found"
    /\ Fault
    /\ hook' = [hook EXCEPT ![w] = Idle]
    /\ UNCHANGED <<gateway, rows, provider, call, outbox, delivered, lost>>

-----------------------------------------------------------------------------
WebhookStep(w) ==
    \/ \E e \in outbox : NothingToReconcile(w, e) \/ FindRefund(w, e)
    \/ TransitionRefund(w)

Next ==
    \/ \E a \in Admins :
          \/ \E amount \in Amounts : RefundOrder(a, amount)
          \/ \E r \in Refunds, status \in Statuses, instant \in BOOLEAN :
                AcceptRefund(a, r, status, instant)
          \/ RefuseRefund(a) \/ SaveRefund(a) \/ RefundOrderThrows(a) \/ RefundOrderDies(a)
    \/ \E r \in Refunds, status \in Terminal : FinishRefund(r, status)
    \/ \E e \in delivered : Redeliver(e)
    \/ \E w \in Workers : WebhookStep(w) \/ WebhookDies(w)

Spec == Init /\ [][Next]_vars

\* The server ends the requests it serves and the gateway delivers its events. No
\* administrator has to ask for a refund and no refund has to end.
Fairness ==
    /\ \A a \in Admins : WF_vars(SaveRefund(a) \/ RefundOrderThrows(a))
    /\ \A w \in Workers : WF_vars(WebhookStep(w))

FairSpec == Spec /\ Fairness

-----------------------------------------------------------------------------
Calls ==
    {Idle} \cup [pc : {"calling", "threw", "refused"}, amount : Amounts]
    \cup [pc : {"answered"}, amount : Amounts, id : Refunds,
          status : Statuses \ {"none"}]

Hooks == {Idle} \cup [pc : {"found"}, event : Events, row : Nat]

TypeOK ==
    /\ gateway \in Gateways
    /\ rows \in Seq([state : RefundStates, txn : Refunds \cup {Payment}, total : Amounts])
    /\ provider \in [Refunds -> [status : Statuses, amount : 0..Paid, instant : BOOLEAN]]
    /\ call \in [Admins -> Calls]
    /\ outbox \subseteq Events /\ delivered \subseteq Events
    /\ hook \in [Workers -> Hooks]
    /\ faults \in 0..MaxFaults /\ lost \in BOOLEAN

SettledTotal == SumFunctionOnSet(RowTotal, {i \in DOMAIN rows : rows[i].state = "Settled"})

GivenBack ==
    SumFunctionOnSet([r \in Refunds |-> provider[r].amount],
                     {r \in Refunds : \/ provider[r].status = "processed"
                                      \/ provider[r].status = "pending" /\ gateway \in Trusting})

Answered == {a \in Admins : call[a].pc = "answered"}

\* What the shop shows as Settled is money the gateway has returned (or has accepted to,
\* with the two plugins that do not wait), and where events are matched to rows no two
\* rows claim one refund: the books never promise the customer money that is not on its
\* way, whatever is refused, lost or repeated (createRefund, handleRefundEvent).  It fails
\* when a refund that Mollie or Braintree accepted fails later.
SettledMeansReturned ==
    /\ SettledTotal <= GivenBack
    /\ \A i \in DOMAIN rows :
          gateway \in Notifying /\ rows[i].state = "Settled" =>
              /\ rows[i].txn \in Refunds
              /\ provider[rows[i].txn].status = "processed"
              /\ provider[rows[i].txn].amount = rows[i].total
              /\ RowsOf(rows[i].txn) = {i}

\* While no answer and no mutation is lost, money that goes back to the customer is in the
\* books: in a row that is not Failed, or in a call that is about to save one.  For a
\* currency without a fraction it fails with Stripe, which is asked for a hundred times
\* the amount (stripe.service.ts createRefund).
ReturnedIsBooked ==
    ~lost => Returned <= SumFunctionOnSet(RowTotal, NotFailed)
                         + SumFunctionOnSet([a \in Answered |-> call[a].amount], Answered)

\* The shop comes to show a refund as it ended at the gateway.
ShownAsEnded(r) ==
    /\ provider[r].status = "processed" ~> \E i \in RowsOf(r) : rows[i].state = "Settled"
    /\ provider[r].status = "failed" ~> \E i \in RowsOf(r) : rows[i].state = "Failed"

\* While no answer of the gateway and no mutation is lost, every refund of Razorpay or
\* Cashfree that takes its time comes to be shown as it ended (handleRefundEvent).  For an
\* instant one it does not hold: its event can arrive before the row is committed, and is
\* answered 200.
NormalReconciled ==
    ([]~lost /\ gateway \in Notifying) =>
        \A r \in Refunds : []~provider[r].instant => ShownAsEnded(r)

=============================================================================
