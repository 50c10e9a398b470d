-------------------------- MODULE MollieSettlement --------------------------
(***************************************************************************)
(* Mollie payments of the order: createMolliePaymentIntent, the status     *)
(* webhook, syncMolliePaymentStatus, and the settlement of authorized      *)
(* payments by an administrator.                                           *)
(*                                                                         *)
(* A webhook names a payment only; its status is fetched and the order     *)
(* read before the transaction, which reads the order again. Whatever goes *)
(* wrong is thrown, so Mollie repeats the webhook. Payments that end       *)
(* unpaid are ignored and not modelled.                                    *)
(***************************************************************************)
EXTENDS OrderBook

CONSTANT MolliePayments \* payments created at Mollie

VARIABLES
    mollie,          \* Mollie's side of every payment
    authorized,      \* the payments that have an Authorized row
    mollieOutbox,    \* status changes Mollie still has to announce
    mollieDelivered  \* announcements answered with a 2xx

mollieVars == <<mollie, authorized, mollieOutbox, mollieDelivered>>

MollieTxn(p) == <<"mollie", p>>

\* One webhook call for each change of status; it carries the id only.
Announcements == [id : MolliePayments, of : {"authorized", "paid"}]

MollieInit ==
    /\ mollie = [p \in MolliePayments |-> [status |-> "none", amount |-> 0,
                                           manual |-> FALSE, additional |-> FALSE]]
    /\ authorized = {}
    /\ mollieOutbox = {}
    /\ mollieDelivered = {}

\* An order that is not being paid must be able to become so.
MolliePayable ==
    order.state \in PayableStates \/ CanTransition(order.state, "ArrangingPayment")

\* For the outstanding amount; manual is immediateCapture = false. An order in
\* ArrangingAdditionalPayment is paid by its id.
CreateMolliePaymentIntent(p, manual) ==
    /\ enabled
    /\ MolliePayable
    /\ Outstanding(order) > 0
    /\ mollie[p].status = "none"
    /\ mollie' = [mollie EXCEPT ![p] =
                     [status |-> "open", amount |-> Outstanding(order), manual |-> manual,
                      additional |-> order.state = "ArrangingAdditionalPayment"]]
    /\ Checkout
    /\ UNCHANGED <<authorized, mollieOutbox, mollieDelivered>>

\* Nothing is left to pay: the order is settled without Mollie.
SettleFreeOrder ==
    /\ enabled
    /\ MolliePayable
    /\ Outstanding(order) = 0
    /\ EnterSettled(PaymentState(order.state), Free, 0)
    /\ UNCHANGED <<enabled, req, used, mollieVars>>

MollieStatus(p, from, to) ==
    /\ mollie[p].status = from
    /\ mollie' = [mollie EXCEPT ![p].status = to]
    /\ mollieOutbox' = mollieOutbox \cup {[id |-> p, of |-> to]}
    /\ UNCHANGED <<bookVars, authorized, mollieDelivered>>

MolliePay(p) == ~mollie[p].manual /\ MollieStatus(p, "open", "paid")
MollieAuthorize(p) == mollie[p].manual /\ MollieStatus(p, "open", "authorized")

\* The capture that settlePayment of the handler asks for, or that is made in
\* Mollie's dashboard.
MollieCapture(p) == MollieStatus(p, "authorized", "paid")

MollieRedeliver(e) ==
    /\ e \in mollieDelivered
    /\ QuietModify => order.state # "ArrangingAdditionalPayment"
    /\ Fault
    /\ mollieOutbox' = mollieOutbox \cup {e}
    /\ mollieDelivered' = mollieDelivered \ {e}
    /\ UNCHANGED <<order, settled, short, enabled, req, mollie, authorized>>

\* The row of an authorized payment becomes Settled.
SettleRow(p) ==
    /\ p \in authorized
    /\ authorized' = authorized \ {p}
    /\ settled' = Append(settled, [txn |-> MollieTxn(p), amount |-> mollie[p].amount])

\* settlePayment of an administrator, one transaction: the handler captures the
\* payment, unless that was done (MollieCapture), and polls until Mollie says so.
AdminSettlePayment(p) ==
    /\ order.state # "Cancelled"
    /\ mollie[p].status = "paid"
    /\ SettleRow(p)
    /\ order' = Settle([order EXCEPT !.held = @ - mollie[p].amount])
    /\ UNCHANGED <<short, enabled, req, used, mollie, mollieOutbox, mollieDelivered>>

-----------------------------------------------------------------------------
\* Webhook and sync. calls: the webhook call to answer, none for a sync.
MollieRead(a, p, calls) ==
    /\ req[a] = Idle
    /\ req' = [req EXCEPT ![a] =
                  [plugin |-> "mollie", id |-> p, calls |-> calls,
                   status |-> mollie[p].status, state |-> order.state,
                   known |-> p \in authorized \/ Rows(MollieTxn(p)) # {}]]
    /\ UNCHANGED <<order, settled, short, enabled, used, mollieVars>>

MollieWebhook(w, e) == e \in mollieOutbox /\ MollieRead(w, e.id, {e})

\* The states of an order that a status of Mollie can still change.
RequireAction == ActiveStates \cup {"ArrangingAdditionalPayment", "PaymentAuthorized"}

\* The shop mutation takes the payments of the order one by one; it goes on
\* until the order is settled, so each is a request of its own here.
SyncMolliePaymentStatus(p) ==
    /\ order.state \in RequireAction
    /\ QuietModify => order.state # "ArrangingAdditionalPayment"
    /\ mollie[p].status \in {"authorized", "paid"}
    /\ MollieRead(Sync, p, {})

\* The copy says that the order was paid by another payment, or is closed.
MollieNothingToDo(r) ==
    (r.state \in PlacedStates /\ ~r.known) \/ r.state \notin RequireAction

\* A Settled row for a paid payment, an Authorized one for an authorized
\* payment of an order that was still a cart; any other pair is an error.
MollieAddPayment(r) ==
    LET from == PaymentState(r.state) IN
    /\ r.state # "PaymentAuthorized"
    /\ \/ /\ r.status = "paid"
          /\ EnterSettled(from, MollieTxn(r.id), mollie[r.id].amount)
          /\ UNCHANGED authorized
       \/ /\ r.status = "authorized"
          /\ r.state = "AddingItems"
          /\ from \in PayableStates
          /\ authorized' = authorized \cup {r.id}
          /\ order' = Settle([order EXCEPT !.state = from,
                                           !.covered = @ + mollie[r.id].amount,
                                           !.held = @ + mollie[r.id].amount])
          /\ MarkShort(MollieTxn(r.id), mollie[r.id].amount)
          /\ UNCHANGED settled

MollieAnswer(a) ==
    LET r == req[a] IN
    /\ req' = [req EXCEPT ![a] = Idle]
    /\ mollieOutbox' = mollieOutbox \ r.calls
    /\ mollieDelivered' = mollieDelivered \cup r.calls
    /\ UNCHANGED <<enabled, used, mollie>>

\* Addition of a payment, in a transaction of its own.
MollieCommit(a) ==
    LET r == req[a] IN
    /\ r.plugin = "mollie"
    /\ \/ MollieNothingToDo(r) /\ UNCHANGED <<order, settled, short, authorized>>
       \/ /\ ~MollieNothingToDo(r)
          /\ enabled
          /\ MollieAddPayment(r)
    /\ MollieAnswer(a)

\* The order was authorized and its payment is paid now.
SettlesExisting(r) ==
    /\ r.plugin = "mollie"
    /\ ~MollieNothingToDo(r)
    /\ enabled
    /\ r.state = "PaymentAuthorized"
    /\ r.status = "paid"
    /\ r.id \in authorized

\* Mutant: the payment of an authorized order is not settled, only logged.
MollieSettleForgotten(a) ==
    /\ SettlesExisting(req[a])
    /\ UNCHANGED <<order, settled, short, authorized>>
    /\ MollieAnswer(a)

\* Mutant: the paid payment is added, the Authorized row stays as it is.
MollieSettleByAdding(a) ==
    LET r == req[a] IN
    /\ SettlesExisting(r)
    /\ settled' = Append(settled, [txn |-> MollieTxn(r.id), amount |-> mollie[r.id].amount])
    /\ order' = Settle([order EXCEPT !.covered = @ + mollie[r.id].amount])
    /\ UNCHANGED <<short, authorized>>
    /\ MollieAnswer(a)

\* settleExistingPayment runs in a context without a transaction: the payment
\* row is saved first ...
MollieSettleExisting(a) ==
    LET r == req[a] IN
    /\ SettlesExisting(r)
    /\ SettleRow(r.id)
    /\ order' = [order EXCEPT !.held = @ - mollie[r.id].amount]
    /\ req' = [req EXCEPT ![a] = [plugin |-> "mollie settled", calls |-> r.calls]]
    /\ UNCHANGED <<short, enabled, used, mollie, mollieOutbox, mollieDelivered>>

\* ... and then the order takes the step its payments allow, if it still can.
MollieTransition(a) ==
    /\ req[a].plugin = "mollie settled"
    /\ order' = IF CanTransition(order.state, CoveredState(order))
                THEN Settle(order) ELSE order
    /\ UNCHANGED <<settled, short, authorized>>
    /\ MollieAnswer(a)

\* Mutant: the controller logs the error and does not throw it again.
MollieLogs(a) ==
    LET r == req[a] IN
    /\ r.plugin = "mollie"
    /\ ~MollieNothingToDo(r)
    /\ \/ ~enabled
       \/ PaymentState(r.state) \notin PayableStates
    /\ UNCHANGED <<order, settled, short, authorized>>
    /\ MollieAnswer(a)

\* A refused transition, a payment that cannot be added or settled, a pair of
\* states that should not be: everything is rolled back, nobody is answered.
MollieThrows(a) ==
    LET r == req[a] IN
    /\ r.plugin = "mollie"
    /\ ~MollieNothingToDo(r)
    /\ \/ ~enabled
       \/ r.state = "PaymentAuthorized" /\ (r.status # "paid" \/ r.id \notin authorized)
       \/ r.state # "PaymentAuthorized" /\ PaymentState(r.state) \notin PayableStates
       \/ r.state \in PayableStates /\ r.status = "authorized"
    /\ req' = [req EXCEPT ![a] = Idle]
    /\ UNCHANGED <<order, settled, short, enabled, used, mollieVars>>

MollieEnd(a) ==
    \/ MollieCommit(a) \/ MollieThrows(a)
    \/ MollieSettleExisting(a) \/ MollieTransition(a)

MollieNext ==
    \/ \E p \in MolliePayments :
          \/ \E manual \in BOOLEAN : CreateMolliePaymentIntent(p, manual)
          \/ MolliePay(p) \/ MollieAuthorize(p) \/ MollieCapture(p)
          \/ AdminSettlePayment(p)
          \/ SyncMolliePaymentStatus(p)
    \/ \E e \in mollieDelivered : MollieRedeliver(e)
    \/ SettleFreeOrder
    \/ \E w \in Workers : \E e \in mollieOutbox : MollieWebhook(w, e)
    \/ \E a \in Actors : MollieEnd(a)

MollieOpen == \E p \in MolliePayments : mollie[p].status # "none"
MolliePaid == {p \in MolliePayments : mollie[p].status = "paid"}
MollieCaptured == {MollieTxn(p) : p \in MolliePaid}

MollieRequests ==
    [plugin : {"mollie"}, id : MolliePayments, calls : SUBSET Announcements,
     status : {"authorized", "paid"}, state : OrderStates, known : BOOLEAN]
    \cup [plugin : {"mollie settled"}, calls : SUBSET Announcements]

MollieType ==
    /\ mollie \in [MolliePayments ->
                      [status : {"none", "open", "authorized", "paid"}, amount : Nat,
                       manual : BOOLEAN, additional : BOOLEAN]]
    /\ authorized \subseteq MolliePayments
    /\ mollieOutbox \subseteq Announcements
    /\ mollieDelivered \subseteq Announcements

=============================================================================
