----------------------------- MODULE ShopProofs -----------------------------
(***************************************************************************)
(* Proofs about ShopPayments, for any prices and any number of payments,   *)
(* webhook workers, edits, modifications and faults: that a placed order   *)
(* stays placed, that the books agree with what the providers charged, and *)
(* that no payment is entered twice or without its money.                  *)
(*                                                                         *)
(* The plugins check very little when they enter a payment.  What keeps    *)
(* them right is when the order can be paid at all: until it is placed     *)
(* only payments that fell short have been entered for it (CartIsShort),   *)
(* and while it waits for an additional payment no event and no request of *)
(* an earlier payment is left (ExtraIsQuiet).                              *)
(***************************************************************************)
EXTENDS ShopPayments, Sums, SequenceTheorems, TLAPS

Extra == "ArrangingAdditionalPayment"

\* The requests of each plugin that are being served.
CashfreeServed == {a \in Actors : req[a].plugin = "cashfree"}
MollieServed == {a \in Actors : req[a].plugin = "mollie"}
MollieSettled == {a \in Actors : req[a].plugin = "mollie settled"}

\* What Stripe and Mollie announce has happened, and the amount of a payment is not nothing.
AnnouncedIsTrue ==
    /\ \A i \in stripeOutbox \cup stripeDelivered : stripe[i] = "succeeded"
    /\ \A e \in mollieOutbox \cup mollieDelivered : mollie[e.id].status \in {"authorized", "paid"}
    /\ \A a \in MollieServed \cup MollieSettled :
          \A e \in req[a].calls : mollie[e.id].status \in {"authorized", "paid"}
    /\ \A a \in MollieServed : mollie[req[a].id].status \in {req[a].status, "paid"}
    /\ \A p \in MolliePayments : mollie[p].status # "none" => mollie[p].amount > 0

\* At most one payment is held, and what the order counts as held is its amount.
HeldIsAuthorized ==
    /\ authorized = {} => order.held = 0
    /\ \A p \in authorized :
          /\ authorized = {p} /\ order.held = mollie[p].amount
          /\ mollie[p].status \in {"authorized", "paid"}
          /\ Rows(MollieTxn(p)) = {} \/ MollieTxn(p) \in short

\* Until the order is placed, what was entered fell short of it; until the checkout nothing
\* was.
CartIsShort ==
    /\ order.state \in ActiveStates =>
          /\ \A i \in DOMAIN settled : settled[i].txn \in short
          /\ \A p \in authorized : MollieTxn(p) \in short
    /\ order.state = "AddingItems" =>
          settled = <<>> /\ order.covered = 0 /\ authorized = {}

\* A payment can only fall short at Stripe and Mollie, which enter what they took; the others
\* take what is left to pay.
Begun(txn) ==
    \/ \E i \in Intents : stripe[i] # "none" /\ txn = StripeTxn(i)
    \/ \E p \in MolliePayments : mollie[p].status # "none" /\ txn = MollieTxn(p)
ShortIsBegun == \A txn \in short : Begun(txn)

\* While an additional payment is awaited, nothing under way is about a payment that is
\* already entered.
ExtraIsQuiet ==
    /\ order.state = Extra =>
          /\ authorized = {}
          /\ \A i \in stripeOutbox : Rows(StripeTxn(i)) = {}
          /\ \A e \in mollieOutbox : Rows(MollieTxn(e.id)) = {}
          /\ \A a \in CashfreeServed : ~req[a].paid => Rows(CashfreeTxn) = {}
          /\ \A a \in MollieServed : req[a].state = Extra
    /\ \A a \in MollieServed : req[a].state = Extra => ~req[a].known

\* Cashfree's event is served by one request at a time.
OneCashfree == \A a, b \in CashfreeServed : a \in Workers /\ a = b

ShopInv ==
    /\ TypeOK /\ AnnouncedIsTrue /\ HeldIsAuthorized /\ CartIsShort /\ ShortIsBegun
    /\ ExtraIsQuiet /\ OneCashfree /\ BooksMatchCharges

-----------------------------------------------------------------------------
\* The transitions that the steps of the plugins and of administrators ask for.
LEMMA Transitions ==
    ASSUME NEW o \in OrderStates
    PROVE  /\ CanTransition(o, "ArrangingPayment") <=> o = "AddingItems"
           /\ CanTransition(o, Extra) <=> o \in {"PaymentAuthorized", "PaymentSettled"}
BY SMT DEF OrderStates, CanTransition, OrderTransitions, Extra

\* A plugin finds an order payable only if it is a cart or waits for another payment, and
\* never makes one out of the other.
LEMMA PaymentStates ==
    ASSUME order.state \in OrderStates, NEW seen
    PROVE  /\ PaymentState(seen) \in PayableStates =>
                  \/ order.state \in ActiveStates /\ PaymentState(seen) = "ArrangingPayment"
                  \/ order.state = Extra /\ PaymentState(seen) = Extra
           /\ PaymentState(seen) \in {order.state, "ArrangingPayment", "none"}
           /\ PaymentState(seen) = "ArrangingPayment" => order.state \in ActiveStates
BY Transitions DEF PaymentState, PayableStates, ActiveStates, Extra

\* The order after transitionOrderIfTotalIsCovered.
LEMMA Settles ==
    ASSUME NEW o
    PROVE  /\ Settle(o) = [o EXCEPT !.state = CoveredState(o)]
           /\ CoveredState(o) \in {o.state, "PaymentSettled", "PaymentAuthorized"}
BY DEF Settle, CoveredState

\* The order is a record with a known state: all that is needed of it for its state.
OrderShape ==
    /\ DOMAIN order = {"state", "total", "covered", "held"}
    /\ order.state \in OrderStates

\* The order after a step: a cart only if it was one.
StateKept == OrderShape' /\ (order'.state \in ActiveStates => order.state \in ActiveStates)

\* Assigning the state of an order assigns nothing else.
LEMMA StateAssigned ==
    ASSUME OrderShape, NEW s \in OrderStates,
           DOMAIN order' = DOMAIN order, order'.state = s,
           s \in ActiveStates => order.state \in ActiveStates
    PROVE  StateKept
BY DEF OrderShape, StateKept

\* Entering a payment makes no cart of an order that is none.
LEMMA EntryKeepsState ==
    ASSUME OrderShape, NEW seen, NEW txn, NEW amount,
           EnterSettled(PaymentState(seen), txn, amount)
    PROVE  StateKept
<1> DEFINE o == [order EXCEPT !.state = PaymentState(seen), !.covered = @ + amount]
<1>1. PaymentState(seen) \in OrderStates
    BY DEF EnterSettled, PayableStates, OrderStates
<1>2. DOMAIN o = DOMAIN order /\ o.state = PaymentState(seen)
    BY DEF OrderShape
<1>3. order' = [o EXCEPT !.state = CoveredState(o)]
    BY DEF EnterSettled, Settle
<1>4. DOMAIN order' = DOMAIN order /\ order'.state = CoveredState(o)
    BY <1>2, <1>3 DEF OrderShape
<1>5. CoveredState(o) \in {PaymentState(seen), "PaymentSettled", "PaymentAuthorized"}
    BY <1>2, Settles
<1>6. PaymentState(seen) \in ActiveStates => order.state \in ActiveStates
    BY PaymentStates DEF OrderShape, EnterSettled, ActiveStates, PayableStates, Extra
<1>7. CoveredState(o) \in OrderStates
    BY <1>1, <1>5 DEF OrderStates
<1>8. CoveredState(o) \in ActiveStates => order.state \in ActiveStates
    BY <1>5, <1>6 DEF ActiveStates
<1> QED BY <1>4, <1>7, <1>8, StateAssigned

\* A state that is payable is the payment state that a plugin sees.
LEMMA PayableSeen ==
    ASSUME order.state \in PayableStates
    PROVE  PaymentState(order.state) = order.state
BY DEF PaymentState

\* Settling what is held, or what was entered, makes no cart of an order that is none.
LEMMA SettlingKeepsState ==
    ASSUME OrderShape, NEW h, order' = Settle([order EXCEPT !.held = h])
    PROVE  StateKept
<1> DEFINE o == [order EXCEPT !.held = h]
<1>1. DOMAIN o = DOMAIN order /\ o.state = order.state
    BY DEF OrderShape
<1>2. order' = [o EXCEPT !.state = CoveredState(o)]
    BY DEF Settle
<1>3. DOMAIN order' = DOMAIN order /\ order'.state = CoveredState(o)
    BY <1>1, <1>2 DEF OrderShape
<1>4. CoveredState(o) \in {order.state, "PaymentSettled", "PaymentAuthorized"}
    BY <1>1, Settles
<1>5. CoveredState(o) \in OrderStates /\ (CoveredState(o) \in ActiveStates => order.state \in ActiveStates)
    BY <1>4 DEF OrderStates, ActiveStates, OrderShape
<1> QED BY <1>3, <1>5, StateAssigned

\* A step of the order after its payment was settled makes no cart of an order that is none.
LEMMA TransitionKeepsState ==
    ASSUME OrderShape, order' = Settle(order)
    PROVE  StateKept
<1>1. order' = [order EXCEPT !.state = CoveredState(order)]
    BY Settles
<1>2. CoveredState(order) \in {order.state, "PaymentSettled", "PaymentAuthorized"}
    BY Settles
<1>3. DOMAIN order' = DOMAIN order /\ order'.state = CoveredState(order)
    BY <1>1 DEF OrderShape
<1>4. CoveredState(order) \in OrderStates
      /\ (CoveredState(order) \in ActiveStates => order.state \in ActiveStates)
    BY <1>2 DEF OrderStates, ActiveStates, OrderShape
<1> QED BY <1>3, <1>4, StateAssigned

\* A payment that Mollie authorized makes no cart of an order that is none.
LEMMA AuthorizingKeepsState ==
    ASSUME OrderShape, NEW r, MollieAddPayment(r)
    PROVE  StateKept
<1> DEFINE from == PaymentState(r.state)
           o == [order EXCEPT !.state = from, !.covered = @ + mollie[r.id].amount,
                              !.held = @ + mollie[r.id].amount]
<1>1. CASE EnterSettled(from, MollieTxn(r.id), mollie[r.id].amount)
    BY <1>1, EntryKeepsState
<1>2. CASE from \in PayableStates /\ order' = Settle(o)
    <2>1. DOMAIN o = DOMAIN order /\ o.state = from
        BY DEF OrderShape
    <2>2. order' = [o EXCEPT !.state = CoveredState(o)]
        BY <1>2 DEF Settle
    <2>3. DOMAIN order' = DOMAIN order /\ order'.state = CoveredState(o)
        BY <2>1, <2>2 DEF OrderShape
    <2>4. CoveredState(o) \in {from, "PaymentSettled", "PaymentAuthorized"}
        BY <2>1, Settles
    <2>5. from \in ActiveStates => order.state \in ActiveStates
        BY <1>2, PaymentStates DEF OrderShape, ActiveStates, PayableStates, Extra
    <2>6. /\ CoveredState(o) \in OrderStates
          /\ CoveredState(o) \in ActiveStates => order.state \in ActiveStates
        BY <1>2, <2>4, <2>5 DEF OrderStates, ActiveStates, PayableStates
    <2> QED BY <2>3, <2>6, StateAssigned
<1> QED BY <1>1, <1>2 DEF MollieAddPayment

\* No step makes a cart of an order that is none.
LEMMA StepKeepsState ==
    ASSUME OrderShape, Next
    PROVE  StateKept
<1>1. ASSUME UNCHANGED order PROVE StateKept
    BY <1>1 DEF StateKept, OrderShape
<1>2. ASSUME CanTransition(order.state, "ArrangingPayment"),
             order' = [order EXCEPT !.state = "ArrangingPayment"]
      PROVE  StateKept
    <2>1. order.state \in ActiveStates
        BY <1>2, Transitions DEF OrderShape, ActiveStates
    <2> QED BY <1>2, <2>1, StateAssigned DEF OrderShape, OrderStates
<1>3. CASE Stripe
    <2>1. CASE \E i \in stripeOutbox : StripeWebhook(i)
        BY <1>1, <2>1, EntryKeepsState DEF StripeWebhook
    <2>2. CASE \E i \in Intents : StripeWebhookDies(i)
        BY <1>2, <2>2 DEF StripeWebhookDies
    <2> QED BY <1>1, <1>3, <2>1, <2>2
        DEF Stripe, StripeNext, StripeShopper, StripeServer, CreateStripePaymentIntent, StripePay,
            StripeRedeliver, Checkout, bookVars
<1>4. CASE Cashfree
    <2>1. CASE CashfreeAddPayment
        BY <2>1, PayableSeen, EntryKeepsState DEF CashfreeAddPayment, EnterSettled
    <2>2. CASE \E w \in Workers : CashfreeDies(w)
        BY <1>2, <2>2 DEF CashfreeDies
    <2>3. ASSUME NEW w \in Workers, CashfreeCommit(w) PROVE StateKept
        <3>1. ASSUME NEW from, from = PaymentState(req[w].state), from # "none",
                     order' = [order EXCEPT !.state = from]
              PROVE  StateKept
            <4>1. from \in OrderStates /\ (from \in ActiveStates => order.state \in ActiveStates)
                BY <3>1, PaymentStates DEF OrderShape, OrderStates, ActiveStates
            <4> QED BY <3>1, <4>1, StateAssigned DEF OrderShape
        <3> QED BY <1>1, <2>3, <3>1, EntryKeepsState DEF CashfreeCommit
    <2> QED BY <1>1, <1>4, <2>1, <2>2, <2>3
        DEF Cashfree, CashfreeNext, CashfreeServer, CreateCashfreeOrder, CashfreePay,
            CashfreeRedeliver, CashfreeRead, CashfreeThrows, Checkout, bookVars
<1>5. CASE Mollie
    <2>1. CASE \E p \in MolliePayments : AdminSettlePayment(p)
        BY <2>1, SettlingKeepsState DEF AdminSettlePayment
    <2>2. CASE SettleFreeOrder
        BY <2>2, EntryKeepsState DEF SettleFreeOrder
    <2>3. ASSUME NEW a \in Actors, MollieCommit(a) PROVE StateKept
        BY <1>1, <2>3, AuthorizingKeepsState DEF MollieCommit
    <2>4. ASSUME NEW a \in Actors, MollieSettleExisting(a) PROVE StateKept
        BY <2>4, StateAssigned DEF MollieSettleExisting, OrderShape
    <2>5. ASSUME NEW a \in Actors, MollieTransition(a) PROVE StateKept
        BY <1>1, <2>5, TransitionKeepsState DEF MollieTransition
    <2> QED BY <1>1, <1>5, <2>1, <2>2, <2>3, <2>4, <2>5
        DEF Mollie, MollieNext, CreateMolliePaymentIntent, MollieStatus, MolliePay, MollieAuthorize,
            MollieCapture, MollieRedeliver, MollieRead, MollieWebhook, SyncMolliePaymentStatus,
            MollieEnd, MollieThrows, Checkout, bookVars
<1>6. CASE Braintree
    BY <1>1, <1>6, PayableSeen, EntryKeepsState
    DEF Braintree, BraintreeNext, BraintreeAddPayment, BraintreeAddPaymentDies, EnterSettled
<1>7. CASE Shop
    <2>1. ASSUME NEW total, EditOrder(total) PROVE StateKept
        BY <2>1, StateAssigned DEF EditOrder, OrderShape
    <2>2. ASSUME NEW total, ModifyOrder(total, Busy) PROVE StateKept
        BY <2>2, StateAssigned DEF ModifyOrder, OrderShape, OrderStates, ActiveStates
    <2>3. CASE EnterCheckout(Captured # {}) \/ LeaveCheckout(Paying)
        BY <2>3, StateAssigned DEF EnterCheckout, LeaveCheckout, OrderShape, OrderStates, ActiveStates
    <2>4. CASE ManualPayment
        BY <2>4, PayableSeen, EntryKeepsState DEF ManualPayment, EnterSettled
    <2>5. CASE CancelOrder
        BY <2>5, StateAssigned DEF CancelOrder, OrderShape, OrderStates, ActiveStates
    <2> QED BY <1>1, <1>7, <2>1, <2>2, <2>3, <2>4, <2>5
        DEF Shop, DisableMethods, EnableMethods, RequestDies
<1> QED BY <1>3, <1>4, <1>5, <1>6, <1>7 DEF Next

\* Whatever the storefront, the administrators and the providers do, and with any number of
\* faults, a placed order is never a cart again, which could be paid a second time.
THEOREM PlacedStays == Spec => StaysPlaced
<1>1. Init => OrderShape
    BY DEF Init, BookInit, OrderShape, OrderStates
<1>2. OrderShape /\ [Next]_vars => OrderShape'
    BY StepKeepsState DEF StateKept, OrderShape, vars, bookVars
<1>3. OrderShape /\ [Next]_vars => [Placed => order'.state \notin ActiveStates]_vars
    BY StepKeepsState DEF StateKept, Placed, PlacedStates, ActiveStates
<1> QED BY <1>1, <1>2, <1>3, PTL DEF Spec, StaysPlaced
-----------------------------------------------------------------------------
\* The assumptions on the storefront and on the providers that the other theorems need; the
\* run of ShopPayments makes them too.
Careful == Disciplined /\ QuietModify /\ OneDelivery

OrderType == [state : OrderStates, total : Totals, covered : Nat, held : Nat]

Row(txn, amount) == [txn |-> txn, amount |-> amount]

\* How a step can change the books. A Settled row is entered for a payment that has none, or
\* that fell short when it was entered before. It places the order, unless it falls short
\* itself, or is a Stripe payment that pays too little of what was added.
Enters(txn, amount) ==
    /\ order.state \in ActiveStates \cup {Extra}
    /\ settled' = Append(settled, Row(txn, amount))
    /\ order'.total = order.total
    /\ order'.covered = order.covered + amount
    /\ order'.held = order.held
    /\ authorized' = authorized
    /\ Rows(txn) = {} \/ txn \in {Manual, Free} \cup short
    /\ short' = short \/ (short' = short \cup {txn} /\ Begun(txn))
    /\ \/ order'.state \in {"PaymentSettled", "PaymentAuthorized"}
       \/ /\ order.state \in ActiveStates /\ order'.state = "ArrangingPayment"
          /\ txn \in short'
       \/ /\ order.state = Extra /\ order'.state = Extra
          /\ \E i \in Intents : txn = StripeTxn(i) /\ stripeOutbox' = stripeOutbox \ {i}

\* An Authorized row is entered for a cart, and places it unless it falls short.
Authorizes(p) ==
    /\ order.state = "AddingItems"
    /\ mollie[p].status \in {"authorized", "paid"}
    /\ authorized' = {p}
    /\ settled' = settled
    /\ short' = short \/ short' = short \cup {MollieTxn(p)}
    /\ \/ order'.state \in {"PaymentSettled", "PaymentAuthorized"}
       \/ order'.state = "ArrangingPayment" /\ MollieTxn(p) \in short'
    /\ order'.total = order.total
    /\ order'.covered = mollie[p].amount
    /\ order'.held = mollie[p].amount

\* The Authorized row becomes Settled.
SettlesHeld(p) ==
    /\ authorized = {p} /\ authorized' = {}
    /\ mollie[p].status = "paid"
    /\ settled' = Append(settled, Row(MollieTxn(p), mollie[p].amount))
    /\ short' = short
    /\ order'.state \notin {Extra, "AddingItems"}
    /\ order'.state \in ActiveStates => order.state \in ActiveStates
    /\ order'.total = order.total
    /\ order'.covered = order.covered
    /\ order'.held = 0

\* Only the state or the total of the order changes: on the way through the checkout, by an
\* edit of the cart, by a modification when nothing is on its way, or because its payments
\* are enough now.
Moves ==
    /\ UNCHANGED <<settled, short, authorized>>
    /\ order'.covered = order.covered
    /\ order'.held = order.held
    /\ \/ /\ order.state \in ActiveStates /\ order'.state \in ActiveStates
          /\ order'.state = "AddingItems" => order.state = "AddingItems" \/ ~Paying
       \/ order'.state = Extra /\ ~Busy /\ UNCHANGED <<stripeOutbox, mollieOutbox, req>>
       \/ order'.state \in {"PaymentSettled", "PaymentAuthorized", "Cancelled"}

BookKept == UNCHANGED <<order, settled, short, authorized>>

\* A payment of nothing, an administrator's, or a payment of a provider, for what it charged.
Known(txn, amount) ==
    \/ txn \in {Manual, Free}
    \/ \E i \in Intents : /\ stripe[i] = "succeeded"
                          /\ txn = StripeTxn(i) /\ amount = FromStripe(i)
    \/ cashfree.status = "paid" /\ txn = CashfreeTxn /\ amount = cashfree.amount
    \/ \E p \in MolliePayments : /\ mollie[p].status = "paid"
                                 /\ txn = MollieTxn(p) /\ amount = mollie[p].amount
    \/ \E s \in Sales : /\ braintree[s] > 0
                        /\ txn = BraintreeTxn(s) /\ amount = braintree[s]

BookStep ==
    /\ order' \in OrderType
    /\ \/ BookKept
       \/ Moves
       \/ \E txn \in ProviderTxns \cup {Manual, Free}, amount \in Nat :
             Enters(txn, amount) /\ Known(txn, amount)'
       \/ \E p \in MolliePayments : Authorizes(p) \/ SettlesHeld(p)

\* The ids of payments of different providers, and of different payments, differ.
LEMMA IdsDiffer ==
    /\ \A i \in Intents : StripeTxn(i) \in ProviderTxns
    /\ CashfreeTxn \in ProviderTxns
    /\ \A p \in MolliePayments : MollieTxn(p) \in ProviderTxns
    /\ \A s \in Sales : BraintreeTxn(s) \in ProviderTxns
    /\ \A i, j : StripeTxn(i) = StripeTxn(j) => i = j
    /\ \A p, q : MollieTxn(p) = MollieTxn(q) => p = q
    /\ \A s, t : BraintreeTxn(s) = BraintreeTxn(t) => s = t
    /\ \A i, p, s : /\ StripeTxn(i) \notin {CashfreeTxn, MollieTxn(p), BraintreeTxn(s)}
                    /\ MollieTxn(p) \notin {CashfreeTxn, BraintreeTxn(s)}
                    /\ BraintreeTxn(s) # CashfreeTxn
BY DEF ProviderTxns, StripeTxn, CashfreeTxn, MollieTxn, BraintreeTxn

\* A request of a plugin has the fields of that plugin's requests.
MollieServes ==
    [plugin : {"mollie"}, id : MolliePayments, calls : SUBSET Announcements,
     status : {"authorized", "paid"}, state : OrderStates, known : BOOLEAN]
MollieSettles == [plugin : {"mollie settled"}, calls : SUBSET Announcements]

\* A request in service tells which plugin serves it.
LEMMA PluginNames ==
    /\ Idle.plugin = "none"
    /\ \A r \in CashfreeRequests : r.plugin = "cashfree"
    /\ \A r \in MollieServes : r.plugin = "mollie"
    /\ \A r \in MollieSettles : r.plugin = "mollie settled"
    /\ \A r : r \in MollieRequests <=> r \in MollieServes \cup MollieSettles
<1>1. Idle.plugin = "none" /\ \A r \in CashfreeRequests : r.plugin = "cashfree"
    BY DEF Idle, CashfreeRequests
<1>2. \A r \in MollieServes : r.plugin = "mollie"
    BY DEF MollieServes
<1>3. \A r \in MollieSettles : r.plugin = "mollie settled"
    BY DEF MollieSettles
<1>4. MollieRequests = MollieServes \cup MollieSettles
    BY Zenon DEF MollieRequests, MollieServes, MollieSettles
<1> QED BY <1>1, <1>2, <1>3, <1>4

\* What a request in service is follows from its plugin.
LEMMA Requests ==
    ASSUME TypeOK, NEW a \in Actors
    PROVE  /\ req[a].plugin = "mollie" => req[a] \in MollieServes
           /\ req[a].plugin = "mollie settled" => req[a] \in MollieSettles
           /\ req[a].plugin = "cashfree" => req[a] \in CashfreeRequests
           /\ req[a].plugin \in {"mollie", "mollie settled"} => req[a].calls \subseteq Announcements
<1>1. req[a] \in {Idle} \cup CashfreeRequests \cup MollieRequests
    BY DEF TypeOK
<1>2. /\ req[a].plugin = "mollie" => req[a] \in MollieServes
      /\ req[a].plugin = "mollie settled" => req[a] \in MollieSettles
      /\ req[a].plugin = "cashfree" => req[a] \in CashfreeRequests
    BY <1>1, PluginNames
<1>3. \A r \in MollieServes : r.calls \subseteq Announcements
    BY DEF MollieServes
<1>4. \A r \in MollieSettles : r.calls \subseteq Announcements
    BY DEF MollieSettles
<1> QED BY <1>2, <1>3, <1>4

\* What a Settled row of a payment makes of the order.
LEMMA EntryFields ==
    ASSUME order \in OrderType, NEW from, NEW txn, NEW amount \in Nat,
           EnterSettled(from, txn, amount)
    PROVE  /\ from \in PayableStates
           /\ settled' = Append(settled, Row(txn, amount))
           /\ order' \in OrderType
           /\ order'.total = order.total
           /\ order'.covered = order.covered + amount
           /\ order'.held = order.held
           /\ order'.state \in {from, "PaymentSettled", "PaymentAuthorized"}
           /\ order.covered + amount >= order.total =>
                 /\ order'.state \in {"PaymentSettled", "PaymentAuthorized"}
                 /\ short' = short
           /\ ~(order.covered + amount >= order.total) => short' = short \cup {txn}
<1> DEFINE o == [order EXCEPT !.state = from, !.covered = @ + amount]
<1>1. from \in OrderStates
    BY DEF EnterSettled, PayableStates, OrderStates
<1>2. /\ o.state = from /\ o.total = order.total
      /\ o.covered = order.covered + amount /\ o.held = order.held
    BY DEF OrderType
<1>3. o \in OrderType
    <2>1. \A c \in Nat : [order EXCEPT !.state = from, !.covered = c] \in OrderType
        BY <1>1 DEF OrderType
    <2>2. order.covered + amount \in Nat
        BY DEF OrderType
    <2> QED BY <2>1, <2>2
<1>4. order' = [o EXCEPT !.state = CoveredState(o)]
    BY DEF EnterSettled, Settle
<1>5. CoveredState(o) \in {from, "PaymentSettled", "PaymentAuthorized"}
    BY <1>2, Settles
<1>6. CoveredState(o) \in OrderStates
    BY <1>1, <1>5 DEF OrderStates
<1>7. order.covered \in Nat /\ order.held \in Nat /\ order.total \in Nat
    BY TotalsAssumption DEF OrderType
<1>8. order.covered + amount >= order.total => CoveredState(o) \in {"PaymentSettled", "PaymentAuthorized"}
    BY <1>2, <1>7 DEF CoveredState
<1>10. order' \in OrderType
    BY <1>3, <1>4, <1>6 DEF OrderType
<1>11. /\ order'.state = CoveredState(o)
       /\ order'.total = o.total
       /\ order'.covered = o.covered
       /\ order'.held = o.held
    BY <1>3, <1>4 DEF OrderType
<1>12. from \in PayableStates /\ settled' = Append(settled, Row(txn, amount))
    BY DEF EnterSettled, Row
<1>13. /\ order.covered + amount >= order.total => short' = short
       /\ ~(order.covered + amount >= order.total) => short' = short \cup {txn}
    BY <1>7 DEF EnterSettled, MarkShort
<1> HIDE DEF o
<1> QED BY <1>2, <1>5, <1>8, <1>10, <1>11, <1>12, <1>13

\* Where ShopInv holds, a payment that covers the order and is not entered is entered well.
LEMMA CoveringEntry ==
    ASSUME order \in OrderType, NEW from, NEW txn, NEW amount \in Nat,
           EnterSettled(from, txn, amount), order.covered + amount >= order.total,
           Rows(txn) = {} \/ txn \in {Manual, Free} \cup short, authorized' = authorized,
           order.state \in ActiveStates \cup {Extra}
    PROVE  order' \in OrderType /\ Enters(txn, amount)
BY EntryFields DEF Enters

\* What a payment outstanding covers.
LEMMA OutstandingCovers ==
    ASSUME order \in OrderType
    PROVE  /\ order.covered + Outstanding(order) = order.total
           /\ Outstanding(order) \in Int
           /\ \A amount \in Nat : amount >= order.total => order.covered + amount >= order.total
BY TotalsAssumption DEF OrderType, Outstanding

\* Until the order is placed only payments that fell short have been entered.
LEMMA CartRows ==
    ASSUME ShopInv
    PROVE  /\ order.state \in ActiveStates => \A txn : txn \notin short => Rows(txn) = {}
           /\ order.state = "AddingItems" =>
                 /\ order.covered = 0 /\ order.held = 0 /\ settled = <<>> /\ authorized = {}
                 /\ \A txn : Rows(txn) = {}
<1>1. ASSUME order.state \in ActiveStates, NEW txn, txn \notin short PROVE Rows(txn) = {}
    BY <1>1 DEF ShopInv, CartIsShort, Rows
<1>2. ASSUME order.state = "AddingItems"
      PROVE  /\ order.covered = 0 /\ order.held = 0 /\ settled = <<>> /\ authorized = {}
             /\ \A txn : Rows(txn) = {}
    <2>1. order.covered = 0 /\ settled = <<>> /\ authorized = {} /\ order.held = 0
        BY <1>2 DEF ShopInv, CartIsShort, HeldIsAuthorized
    <2>2. DOMAIN settled = {}
        BY <2>1
    <2> QED BY <2>1, <2>2 DEF Rows
<1> QED BY <1>1, <1>2

\* A payment of Cashfree or Braintree, or none of a provider's, never fell short.
LEMMA NeverShort ==
    ASSUME ShopInv
    PROVE  /\ CashfreeTxn \notin short /\ Manual \notin short /\ Free \notin short
           /\ \A t \in Sales : BraintreeTxn(t) \notin short
<1>1. ASSUME NEW txn \in short
      PROVE  /\ txn \in ProviderTxns /\ txn # CashfreeTxn
             /\ \A t \in Sales : BraintreeTxn(t) # txn
    BY <1>1, IdsDiffer DEF ShopInv, ShortIsBegun, Begun
<1> QED BY <1>1, IdsAssumption

\* The order of a reachable state, in the terms of these proofs.
LEMMA OrderTyped ==
    ASSUME ShopInv
    PROVE  /\ order \in OrderType /\ order.state \in OrderStates
           /\ order.total \in Nat /\ order.covered \in Nat /\ order.held \in Nat
BY TotalsAssumption DEF ShopInv, TypeOK, BookType, OrderType

\* Entering a payment that covers the order is a step of the books.
LEMMA CoveringStep ==
    ASSUME ShopInv, NEW from, NEW txn \in ProviderTxns \cup {Manual, Free}, NEW amount \in Nat,
           EnterSettled(from, txn, amount), order.covered + amount >= order.total,
           Rows(txn) = {} \/ txn \in {Manual, Free} \cup short, authorized' = authorized,
           order.state \in ActiveStates \cup {Extra}, Known(txn, amount)'
    PROVE  BookStep
BY OrderTyped, CoveringEntry DEF BookStep

\* A step that only takes the order into the checkout, or out of one that nobody pays.
LEMMA CheckoutStep ==
    ASSUME ShopInv, order.state \in ActiveStates, NEW s \in ActiveStates,
           s = "AddingItems" => ~Paying,
           order' = [order EXCEPT !.state = s], UNCHANGED <<settled, short, authorized>>
    PROVE  BookStep
<1>1. s \in OrderStates
    BY DEF ActiveStates, OrderStates
<1>2. order' \in OrderType /\ order'.state = s /\ order'.total = order.total
      /\ order'.covered = order.covered /\ order'.held = order.held
    BY <1>1, OrderTyped DEF OrderType
<1> QED BY <1>2 DEF BookStep, Moves

\* An amount of Stripe is a natural number in the shop's units too.
LEMMA StripeAmounts ==
    ASSUME NEW i \in Intents
    PROVE  i \in Nat /\ FromStripe(i) \in Nat
<1>1. PICK total \in Totals \ {0} : i = ToStripe(total)
    BY DEF Intents
<1>2. \A a, u \in Nat : u > 0 => (2 * a + u) \div (2 * u) \in Nat
    BY SMT
<1>3. i \in Nat
    BY <1>1, <1>2, TotalsAssumption, UnitAssumption DEF ToStripe
<1>4. \A a, b \in Nat : a * b \in Nat
    OBVIOUS
<1> QED BY <1>3, <1>4, UnitAssumption DEF FromStripe

\* What Stripe's steps do to the books.
LEMMA StripeBooks ==
    ASSUME Careful, ShopInv, Stripe
    PROVE  BookStep
<1>1. ASSUME BookKept PROVE BookStep
    BY <1>1, OrderTyped DEF BookKept, BookStep
<1>2. authorized' = authorized
    BY DEF Stripe, mollieVars
<1>3. ASSUME NEW i \in stripeOutbox, StripeWebhook(i) PROVE BookStep
    <2> DEFINE from == PaymentState(order.state)
    <2>1. i \in Intents /\ stripe[i] = "succeeded" /\ stripe' = stripe
        BY <1>3 DEF ShopInv, TypeOK, StripeType, AnnouncedIsTrue, StripeWebhook
    <2>2. CASE UNCHANGED <<order, settled, short>>
        BY <1>1, <1>2, <2>2 DEF BookKept
    <2>3. CASE EnterSettled(from, StripeTxn(i), StripeAmount(i))
        <3>1. Known(StripeTxn(i), FromStripe(i))'
            BY <2>1 DEF Known
        <3>2. FromStripe(i) \in Nat /\ StripeTxn(i) \in ProviderTxns \cup {Manual, Free}
            BY <2>1, StripeAmounts, IdsDiffer
        <3>3. /\ settled' = Append(settled, Row(StripeTxn(i), FromStripe(i)))
              /\ order' \in OrderType
              /\ order'.total = order.total
              /\ order'.covered = order.covered + FromStripe(i)
              /\ order'.held = order.held
            BY <2>3, <3>2, OrderTyped, EntryFields DEF StripeAmount
        <3>4. /\ from \in PayableStates
              /\ order'.state \in {from, "PaymentSettled", "PaymentAuthorized"}
              /\ \/ /\ order'.state \in {"PaymentSettled", "PaymentAuthorized"}
                    /\ short' = short
                 \/ short' = short \cup {StripeTxn(i)}
            BY <2>3, <3>2, OrderTyped, EntryFields DEF StripeAmount
        <3>5. Begun(StripeTxn(i)) /\ stripeOutbox' = stripeOutbox \ {i}
            BY <1>3, <2>1 DEF Begun, StripeWebhook
        <3>6. short' = short \/ (short' = short \cup {StripeTxn(i)} /\ Begun(StripeTxn(i)))
            BY <3>4, <3>5
        <3>7. CASE order.state \in ActiveStates
            <4>1. Rows(StripeTxn(i)) = {} \/ StripeTxn(i) \in short
                BY <3>7, CartRows
            <4>2. from = "ArrangingPayment"
                BY <3>4, <3>7, OrderTyped, PaymentStates DEF ActiveStates, Extra
            <4>3. \/ order'.state \in {"PaymentSettled", "PaymentAuthorized"}
                  \/ order'.state = "ArrangingPayment" /\ StripeTxn(i) \in short'
                BY <3>4, <4>2
            <4>4. Enters(StripeTxn(i), FromStripe(i))
                BY <1>2, <3>3, <3>6, <3>7, <4>1, <4>3 DEF Enters
            <4> QED BY <3>1, <3>2, <3>3, <4>4 DEF BookStep
        <3>8. CASE order.state \notin ActiveStates
            <4>1. order.state = Extra /\ from = Extra
                BY <3>4, <3>8, OrderTyped, PaymentStates
            <4>2. Rows(StripeTxn(i)) = {}
                BY <4>1 DEF ShopInv, ExtraIsQuiet
            <4>3. order'.state \in {Extra, "PaymentSettled", "PaymentAuthorized"}
                BY <3>4, <4>1
            <4>4. Enters(StripeTxn(i), FromStripe(i))
                BY <1>2, <2>1, <3>3, <3>5, <3>6, <4>1, <4>2, <4>3 DEF Enters
            <4> QED BY <3>1, <3>2, <3>3, <4>4 DEF BookStep
        <3> QED BY <3>7, <3>8
    <2> QED BY <1>3, <2>2, <2>3 DEF StripeWebhook
<1>4. ASSUME NEW i \in Intents, StripeWebhookDies(i) PROVE BookStep
    <2>1. order.state \in ActiveStates
        BY <1>4, OrderTyped, Transitions DEF StripeWebhookDies, ActiveStates
    <2> QED BY <1>2, <1>4, <2>1, CheckoutStep DEF StripeWebhookDies, ActiveStates
<1>5. CASE CreateStripePaymentIntent \/ \E i \in Intents : StripePay(i) \/ StripeRedeliver(i)
    BY <1>1, <1>2, <1>5
    DEF BookKept, CreateStripePaymentIntent, StripePay, StripeRedeliver, Checkout, bookVars
<1> QED BY <1>3, <1>4, <1>5 DEF Stripe, StripeNext, StripeShopper, StripeServer

\* What Cashfree's steps do to the books.
LEMMA CashfreeBooks ==
    ASSUME Careful, ShopInv, Cashfree
    PROVE  BookStep
<1>1. ASSUME BookKept PROVE BookStep
    BY <1>1, OrderTyped DEF BookKept, BookStep
<1>2. authorized' = authorized
    BY DEF Cashfree, mollieVars
<1>3. ASSUME NEW from, EnterSettled(from, CashfreeTxn, Outstanding(order)), CashfreeVerified,
             order.state \in ActiveStates \cup {Extra}, Rows(CashfreeTxn) = {}, cashfree' = cashfree
      PROVE  BookStep
    <2>1. PICK amount : amount = Outstanding(order)
        OBVIOUS
    <2>2. amount \in Nat /\ cashfree.amount = amount /\ cashfree.status = "paid"
        BY <1>3, <2>1, TotalsAssumption DEF CashfreeVerified, ShopInv, TypeOK, CashfreeType
    <2>3. Known(CashfreeTxn, amount)'
        BY <1>3, <2>2 DEF Known
    <2> QED BY <1>2, <1>3, <2>1, <2>2, <2>3, IdsDiffer, OrderTyped, OutstandingCovers, CoveringStep
<1>4. CASE CashfreeAddPayment
    <2>1. Rows(CashfreeTxn) = {} /\ cashfree' = cashfree
        BY <1>4, CartRows, NeverShort DEF CashfreeAddPayment, cashfreeVars
    <2> QED BY <1>3, <1>4, <2>1 DEF CashfreeAddPayment
<1>5. ASSUME NEW w \in Workers, CashfreeCommit(w) PROVE BookStep
    <2> DEFINE from == PaymentState(req[w].state)
    <2>1. w \in Actors /\ cashfree' = cashfree /\ req[w].plugin = "cashfree"
        BY <1>5 DEF Actors, CashfreeCommit
    <2>2. CASE UNCHANGED <<order, settled, short>>
        BY <1>1, <1>2, <2>2 DEF BookKept
    <2>3. CASE ~req[w].paid /\ CashfreeVerified
               /\ EnterSettled(from, CashfreeTxn, Outstanding(order))
        <3>1. from \in PayableStates
            BY <2>3 DEF EnterSettled
        <3>2. CASE order.state \in ActiveStates
            BY <1>3, <2>1, <2>3, <3>2, CartRows, NeverShort
        <3>3. CASE order.state = Extra
            <4>1. Rows(CashfreeTxn) = {}
                BY <2>1, <2>3, <3>3 DEF ShopInv, ExtraIsQuiet, CashfreeServed
            <4> QED BY <1>3, <2>1, <2>3, <3>3, <4>1
        <3> QED BY <3>1, <3>2, <3>3, OrderTyped, PaymentStates
    <2>4. CASE /\ from # "none"
               /\ order' = [order EXCEPT !.state = from]
               /\ UNCHANGED <<settled, short>>
        <3>1. CASE from = order.state
            <4>1. order' = order
                BY <2>4, <3>1, OrderTyped DEF OrderType
            <4> QED BY <1>1, <1>2, <2>4, <4>1 DEF BookKept
        <3>2. CASE from = "ArrangingPayment" /\ order.state \in ActiveStates
            BY <1>2, <2>4, <3>2, CheckoutStep DEF ActiveStates
        <3> QED BY <2>4, <3>1, <3>2, OrderTyped, PaymentStates
    <2> QED BY <1>5, <2>2, <2>3, <2>4 DEF CashfreeCommit
<1>6. ASSUME NEW w \in Workers, CashfreeDies(w) PROVE BookStep
    <2>1. order.state \in ActiveStates
        BY <1>6, OrderTyped, Transitions DEF CashfreeDies, ActiveStates
    <2> QED BY <1>2, <1>6, <2>1, CheckoutStep DEF CashfreeDies, ActiveStates
<1>7. CASE \/ CreateCashfreeOrder \/ CashfreePay \/ CashfreeRedeliver
           \/ \E w \in Workers : CashfreeRead(w) \/ CashfreeThrows(w)
    BY <1>1, <1>2, <1>7
    DEF BookKept, CreateCashfreeOrder, CashfreePay, CashfreeRedeliver, CashfreeRead,
        CashfreeThrows, Checkout, bookVars
<1> QED BY <1>4, <1>5, <1>6, <1>7 DEF Cashfree, CashfreeNext, CashfreeServer

\* What holding the money of a payment makes of a cart.
LEMMA HoldingFields ==
    ASSUME order \in OrderType, NEW amount \in Nat, amount > 0, order.covered = 0, order.held = 0,
           order' = Settle([order EXCEPT !.state = "ArrangingPayment",
                                         !.covered = @ + amount, !.held = @ + amount])
    PROVE  /\ order' \in OrderType
           /\ order'.total = order.total
           /\ order'.covered = amount /\ order'.held = amount
           /\ amount >= order.total => order'.state \in {"PaymentSettled", "PaymentAuthorized"}
           /\ order'.state \in {"ArrangingPayment", "PaymentSettled", "PaymentAuthorized"}
<1> DEFINE o == [order EXCEPT !.state = "ArrangingPayment",
                              !.covered = @ + amount, !.held = @ + amount]
<1>1. /\ o.state = "ArrangingPayment" /\ o.total = order.total
      /\ o.covered = amount /\ o.held = amount
    BY DEF OrderType
<1>2. o \in OrderType
    <2>1. \A c \in Nat, h \in Nat :
             [order EXCEPT !.state = "ArrangingPayment", !.covered = c, !.held = h] \in OrderType
        BY DEF OrderType, OrderStates
    <2>2. order.covered + amount \in Nat /\ order.held + amount \in Nat
        BY DEF OrderType
    <2> QED BY <2>1, <2>2
<1>3. order' = [o EXCEPT !.state = CoveredState(o)]
    BY DEF Settle
<1>4. order.total \in Nat
    BY TotalsAssumption DEF OrderType
<1> HIDE DEF o
<1>5. CoveredState(o) \in {"ArrangingPayment", "PaymentSettled", "PaymentAuthorized"}
    BY <1>1, Settles
<1>6. amount >= order.total => CoveredState(o) \in {"PaymentSettled", "PaymentAuthorized"}
    BY <1>1, <1>4 DEF CoveredState
<1>7. CoveredState(o) \in OrderStates
    BY <1>5 DEF OrderStates
<1>8. order' \in OrderType /\ order'.state = CoveredState(o) /\ order'.total = o.total
      /\ order'.covered = o.covered /\ order'.held = o.held
    BY <1>2, <1>3, <1>7 DEF OrderType
<1> QED BY <1>1, <1>5, <1>6, <1>8

\* What settling the held money makes of the order, whether it is moved on at once or not.
LEMMA HeldFields ==
    ASSUME order \in OrderType, NEW amount \in Nat, order.held = amount,
           \/ order' = Settle([order EXCEPT !.held = @ - amount])
           \/ order' = [order EXCEPT !.held = @ - amount]
    PROVE  /\ order' \in OrderType
           /\ order'.state \in {order.state, "PaymentSettled", "PaymentAuthorized"}
           /\ order'.total = order.total
           /\ order'.covered = order.covered /\ order'.held = 0
<1> DEFINE o == [order EXCEPT !.held = @ - amount]
<1>1. order.held - amount = 0
    OBVIOUS
<1>2. o = [order EXCEPT !.held = 0]
    BY <1>1
<1>3. /\ o.state = order.state /\ o.total = order.total
      /\ o.covered = order.covered /\ o.held = 0
      /\ o \in OrderType
    BY <1>2 DEF OrderType
<1>4. order' = [o EXCEPT !.state = CoveredState(o)] \/ order' = o
    BY DEF Settle
<1>5. CoveredState(o) \in {order.state, "PaymentSettled", "PaymentAuthorized"}
    BY <1>3, Settles
<1>6. CoveredState(o) \in OrderStates
    BY <1>5 DEF OrderType, OrderStates
<1> HIDE DEF o
<1> QED BY <1>3, <1>4, <1>5, <1>6 DEF OrderType

\* Settling the payment that is held is a step of the books.
LEMMA HeldStep ==
    ASSUME ShopInv, NEW p \in MolliePayments, SettleRow(p), mollie[p].status = "paid",
           \/ order' = Settle([order EXCEPT !.held = @ - mollie[p].amount])
           \/ order' = [order EXCEPT !.held = @ - mollie[p].amount],
           short' = short
    PROVE  BookStep
<1>1. /\ authorized = {p} /\ order.held = mollie[p].amount
      /\ mollie[p].amount \in Nat /\ p \in authorized
    BY DEF SettleRow, ShopInv, HeldIsAuthorized, TypeOK, MollieType
<1>2. /\ order' \in OrderType
      /\ order'.state \in {order.state, "PaymentSettled", "PaymentAuthorized"}
      /\ order'.total = order.total
      /\ order'.covered = order.covered /\ order'.held = 0
    BY <1>1, OrderTyped, HeldFields
<1>3. order.state \notin {"AddingItems", Extra}
    BY <1>1, CartRows DEF ShopInv, ExtraIsQuiet
<1>4. order'.state \notin {"AddingItems", Extra}
      /\ (order'.state \in ActiveStates => order.state \in ActiveStates)
    BY <1>2, <1>3 DEF ActiveStates, Extra
<1>5. settled' = Append(settled, Row(MollieTxn(p), mollie[p].amount)) /\ authorized' = {}
    BY <1>1 DEF SettleRow, Row
<1>6. SettlesHeld(p)
    BY <1>1, <1>2, <1>4, <1>5 DEF SettlesHeld
<1> QED BY <1>2, <1>6 DEF BookStep

\* A Mollie request adds a payment only to a cart: a request that reads an order which waits
\* for another payment does not know its payment and does nothing.
LEMMA MollieAddsToCart ==
    ASSUME ShopInv, NEW a \in Actors, MollieCommit(a), ~MollieNothingToDo(req[a]),
           MollieAddPayment(req[a])
    PROVE  /\ order.state \in ActiveStates /\ PaymentState(req[a].state) = "ArrangingPayment"
           /\ req[a].state = "AddingItems" => order.state = "AddingItems"
<1>1. PaymentState(req[a].state) \in PayableStates
    BY DEF MollieAddPayment, EnterSettled
<1>2. a \in MollieServed
    BY DEF MollieCommit, MollieServed
<1>3. order.state # Extra
    BY <1>2 DEF ShopInv, ExtraIsQuiet, MollieNothingToDo, PlacedStates, Extra
<1>4. order.state \in ActiveStates /\ PaymentState(req[a].state) = "ArrangingPayment"
    BY <1>1, <1>3, OrderTyped, PaymentStates DEF Extra
<1>5. ASSUME req[a].state = "AddingItems" PROVE order.state = "AddingItems"
    BY <1>4, <1>5, OrderTyped, Transitions DEF PaymentState, PayableStates
<1> QED BY <1>4, <1>5

\* What Mollie's steps do to the books.
LEMMA MollieBooks ==
    ASSUME Careful, ShopInv, Mollie
    PROVE  BookStep
<1>1. ASSUME BookKept PROVE BookStep
    BY <1>1, OrderTyped DEF BookKept, BookStep
<1>2. CASE SettleFreeOrder
    <2>1. Free \in ProviderTxns \cup {Manual, Free} /\ Known(Free, 0)'
        BY DEF Known
    <2>2. order.covered + 0 >= order.total
        BY <1>2, OrderTyped DEF SettleFreeOrder, Outstanding
    <2>3. order.state \in ActiveStates \cup {Extra}
        BY <1>2, OrderTyped, PaymentStates DEF SettleFreeOrder, EnterSettled
    <2> QED BY <1>2, <2>1, <2>2, <2>3, CoveringStep DEF SettleFreeOrder, mollieVars
<1>3. ASSUME NEW p \in MolliePayments, AdminSettlePayment(p) PROVE BookStep
    BY <1>3, HeldStep DEF AdminSettlePayment
<1>4. ASSUME NEW a \in Actors, MollieCommit(a) PROVE BookStep
    <2> DEFINE r == req[a]
    <2>1. a \in MollieServed /\ r \in MollieServes /\ mollie' = mollie
        BY <1>4, Requests DEF MollieCommit, MollieAnswer, MollieServed, ShopInv
    <2>2. PICK p \in MolliePayments :
              /\ p = r.id /\ mollie[p].status \in {r.status, "paid"}
              /\ r.status \in {"authorized", "paid"}
        BY <2>1 DEF MollieServes, ShopInv, AnnouncedIsTrue
    <2>3. PICK amount \in Nat : amount = mollie[p].amount /\ amount > 0
        BY <2>2 DEF ShopInv, TypeOK, MollieType, AnnouncedIsTrue
    <2>4. CASE MollieNothingToDo(r) /\ UNCHANGED <<order, settled, short, authorized>>
        BY <1>1, <2>4 DEF BookKept
    <2>5. CASE ~MollieNothingToDo(r) /\ MollieAddPayment(r)
        <3>1. order.state \in ActiveStates /\ PaymentState(r.state) = "ArrangingPayment"
              /\ (r.state = "AddingItems" => order.state = "AddingItems")
            BY <1>4, <2>5, MollieAddsToCart
        <3>2. Begun(MollieTxn(p)) /\ MollieTxn(p) \in ProviderTxns \cup {Manual, Free}
            BY <2>2, IdsDiffer DEF Begun
        <3>3. CASE r.status = "paid" /\ EnterSettled("ArrangingPayment", MollieTxn(p), amount)
                   /\ UNCHANGED authorized
            <4>1. Known(MollieTxn(p), amount)'
                BY <2>1, <2>2, <2>3, <3>3 DEF Known
            <4>2. /\ settled' = Append(settled, Row(MollieTxn(p), amount))
                  /\ order' \in OrderType
                  /\ order'.total = order.total
                  /\ order'.covered = order.covered + amount
                  /\ order'.held = order.held
                BY <3>3, OrderTyped, EntryFields
            <4>3. /\ order'.state \in {"ArrangingPayment", "PaymentSettled", "PaymentAuthorized"}
                  /\ \/ /\ order'.state \in {"PaymentSettled", "PaymentAuthorized"}
                        /\ short' = short
                     \/ short' = short \cup {MollieTxn(p)}
                BY <3>3, OrderTyped, EntryFields
            <4>4. \/ order'.state \in {"PaymentSettled", "PaymentAuthorized"}
                  \/ order'.state = "ArrangingPayment" /\ MollieTxn(p) \in short'
                BY <4>3
            <4>5. short' = short \/ (short' = short \cup {MollieTxn(p)} /\ Begun(MollieTxn(p)))
                BY <3>2, <4>3
            <4>6. Rows(MollieTxn(p)) = {} \/ MollieTxn(p) \in short
                BY <3>1, CartRows
            <4>7. Enters(MollieTxn(p), amount)
                BY <3>1, <3>3, <4>2, <4>4, <4>5, <4>6 DEF Enters
            <4> QED BY <3>2, <4>1, <4>2, <4>7 DEF BookStep
        <3>4. CASE /\ r.status = "authorized" /\ r.state = "AddingItems"
                   /\ authorized' = authorized \cup {p}
                   /\ order' = Settle([order EXCEPT !.state = "ArrangingPayment",
                                                    !.covered = @ + amount, !.held = @ + amount])
                   /\ MarkShort(MollieTxn(p), amount)
                   /\ UNCHANGED settled
            <4>1. /\ order.state = "AddingItems" /\ order.covered = 0 /\ order.held = 0
                  /\ authorized = {}
                BY <3>1, <3>4, CartRows
            <4>2. /\ order' \in OrderType /\ order'.total = order.total
                  /\ order'.covered = amount /\ order'.held = amount
                  /\ amount >= order.total => order'.state \in {"PaymentSettled", "PaymentAuthorized"}
                  /\ order'.state \in {"ArrangingPayment", "PaymentSettled", "PaymentAuthorized"}
                BY <2>3, <3>4, <4>1, OrderTyped, HoldingFields
            <4>3. /\ amount >= order.total => short' = short
                  /\ ~(amount >= order.total) => short' = short \cup {MollieTxn(p)}
                BY <3>4, <4>1, OrderTyped DEF MarkShort
            <4>4. /\ short' = short \/ short' = short \cup {MollieTxn(p)}
                  /\ \/ order'.state \in {"PaymentSettled", "PaymentAuthorized"}
                     \/ order'.state = "ArrangingPayment" /\ MollieTxn(p) \in short'
                BY <4>2, <4>3
            <4>5. Authorizes(p)
                BY <2>2, <2>3, <3>4, <4>1, <4>2, <4>4 DEF Authorizes
            <4> QED BY <2>2, <4>2, <4>5 DEF BookStep
        <3> QED BY <2>2, <2>3, <2>5, <3>1, <3>3, <3>4 DEF MollieAddPayment
    <2> QED BY <1>4, <2>4, <2>5 DEF MollieCommit
<1>5. ASSUME NEW a \in Actors, MollieSettleExisting(a) PROVE BookStep
    <2>1. req[a] \in MollieServes
        BY <1>5, Requests DEF MollieSettleExisting, SettlesExisting, ShopInv
    <2>2. PICK p \in MolliePayments : p = req[a].id /\ mollie[p].status = "paid"
        BY <1>5, <2>1 DEF MollieSettleExisting, SettlesExisting, MollieServes, MollieServed,
                          ShopInv, AnnouncedIsTrue
    <2> QED BY <1>5, <2>2, HeldStep DEF MollieSettleExisting
<1>6. ASSUME NEW a \in Actors, MollieTransition(a) PROVE BookStep
    <2>1. UNCHANGED <<settled, short, authorized>>
        BY <1>6 DEF MollieTransition
    <2>2. order' = [order EXCEPT !.state = CoveredState(order)] \/ order' = order
        BY <1>6 DEF MollieTransition, Settle
    <2>3. CASE CoveredState(order) = order.state \/ order' = order
        <3>1. order' = order
            BY <2>2, <2>3, OrderTyped DEF OrderType
        <3> QED BY <1>1, <2>1, <3>1 DEF BookKept
    <2>4. CASE order' = [order EXCEPT !.state = CoveredState(order)]
               /\ CoveredState(order) \in {"PaymentSettled", "PaymentAuthorized"}
        <3>1. order' \in OrderType /\ order'.state \in {"PaymentSettled", "PaymentAuthorized"}
              /\ order'.covered = order.covered /\ order'.held = order.held
            BY <2>4, OrderTyped DEF OrderType, OrderStates
        <3> QED BY <2>1, <3>1 DEF BookStep, Moves
    <2> QED BY <2>2, <2>3, <2>4, Settles
<1>7. CASE UNCHANGED <<order, settled, short, authorized>>
    BY <1>1, <1>7 DEF BookKept
<1> QED BY <1>2, <1>3, <1>4, <1>5, <1>6, <1>7
    DEF Mollie, MollieNext, CreateMolliePaymentIntent, MollieStatus, MolliePay, MollieAuthorize,
        MollieCapture, MollieRedeliver, MollieRead, MollieWebhook, SyncMolliePaymentStatus,
        MollieEnd, MollieThrows, Checkout, bookVars, mollieVars

\* What Braintree's steps do to the books.
LEMMA BraintreeBooks ==
    ASSUME Careful, ShopInv, Braintree
    PROVE  BookStep
<1>1. authorized' = authorized
    BY DEF Braintree, mollieVars
<1>2. ASSUME NEW s \in Sales, BraintreeAddPayment(s) PROVE BookStep
    <2>1. PICK amount : amount = Outstanding(order)
        OBVIOUS
    <2>2. /\ amount \in Nat /\ amount > 0 /\ order.covered + amount >= order.total
          /\ order.state \in ActiveStates
        BY <1>2, <2>1, OrderTyped, OutstandingCovers
        DEF BraintreeAddPayment, Sale, ActiveStates
    <2>3. braintree'[s] = amount
        BY <1>2, <2>1 DEF BraintreeAddPayment, Sale, ShopInv, TypeOK, BraintreeType
    <2>4. Known(BraintreeTxn(s), amount)'
        BY <2>2, <2>3 DEF Known
    <2>5. Rows(BraintreeTxn(s)) = {} /\ BraintreeTxn(s) \in ProviderTxns \cup {Manual, Free}
        BY <2>2, CartRows, NeverShort, IdsDiffer
    <2> QED BY <1>1, <1>2, <2>1, <2>2, <2>4, <2>5, CoveringStep DEF BraintreeAddPayment
<1>3. CASE UNCHANGED <<order, settled, short>>
    BY <1>1, <1>3, OrderTyped DEF BookStep, BookKept
<1> QED BY <1>2, <1>3 DEF Braintree, BraintreeNext, BraintreeAddPaymentDies

\* What shoppers and administrators do to the books.
LEMMA ShopBooks ==
    ASSUME Careful, ShopInv, Shop
    PROVE  BookStep
<1>1. authorized' = authorized
    BY DEF Shop, mollieVars
<1>2. ASSUME NEW total \in Totals, EditOrder(total) PROVE BookStep
    <2>1. /\ order' \in OrderType /\ order'.state = order.state
          /\ order'.covered = order.covered /\ order'.held = order.held
        BY <1>2, OrderTyped DEF EditOrder, OrderType
    <2> QED BY <1>1, <1>2, <2>1 DEF EditOrder, BookStep, Moves, ActiveStates, Careful
<1>3. ASSUME NEW total \in Totals, ModifyOrder(total, Busy) PROVE BookStep
    <2>1. /\ order' \in OrderType /\ order'.state = Extra
          /\ order'.covered = order.covered /\ order'.held = order.held
        BY <1>3, OrderTyped DEF ModifyOrder, OrderType, OrderStates, Extra
    <2> QED BY <1>1, <1>3, <2>1
            DEF Shop, stripeVars, mollieVars, ModifyOrder, BookStep, Moves, Careful
<1>4. CASE EnterCheckout(Captured # {}) \/ LeaveCheckout(Paying)
    BY <1>1, <1>4, CheckoutStep DEF EnterCheckout, LeaveCheckout, ActiveStates, Careful
<1>5. CASE ManualPayment
    <2>1. PICK amount : amount = Outstanding(order)
        OBVIOUS
    <2>2. amount \in Nat /\ order.covered + amount >= order.total
        BY <1>5, <2>1, OrderTyped, OutstandingCovers DEF ManualPayment
    <2>3. Known(Manual, amount)'
        BY DEF Known
    <2> QED BY <1>1, <1>5, <2>1, <2>2, <2>3, CoveringStep DEF ManualPayment, Extra
<1>6. CASE CancelOrder
    <2>1. /\ order' \in OrderType /\ order'.state = "Cancelled"
          /\ order'.covered = order.covered /\ order'.held = order.held
        BY <1>6, OrderTyped DEF CancelOrder, OrderType, OrderStates
    <2> QED BY <1>1, <1>6, <2>1 DEF CancelOrder, BookStep, Moves
<1>7. CASE UNCHANGED <<order, settled, short>>
    BY <1>1, <1>7, OrderTyped DEF BookStep, BookKept
<1> QED BY <1>2, <1>3, <1>4, <1>5, <1>6, <1>7
        DEF Shop, DisableMethods, EnableMethods, RequestDies

\* Every step is a step of the books.
LEMMA StepBooks ==
    ASSUME Careful, ShopInv, Next
    PROVE  BookStep
BY StripeBooks, CashfreeBooks, MollieBooks, BraintreeBooks, ShopBooks DEF Next

-----------------------------------------------------------------------------
\* What a provider took it keeps, and a payment that was begun keeps its amount.
StripeGrows ==
    \A i \in Intents : /\ stripe[i] = "succeeded" => stripe'[i] = "succeeded"
                       /\ stripe'[i] = "none" => stripe[i] = "none"
CashfreeGrows == cashfree.status = "paid" => cashfree' = cashfree
MollieGrows ==
    \A p \in MolliePayments :
        /\ mollie[p].status # "none" => /\ mollie'[p].status # "none"
                                        /\ mollie'[p].amount = mollie[p].amount
        /\ mollie[p].status = "authorized" => mollie'[p].status \in {"authorized", "paid"}
        /\ mollie[p].status = "paid" => mollie'[p].status = "paid"
BraintreeGrows == \A s \in Sales : braintree[s] > 0 => braintree'[s] = braintree[s]

\* What Stripe keeps after a step; an intent that succeeded stays so.
LEMMA StripeTyped ==
    ASSUME ShopInv, Next
    PROVE  StripeType' /\ StripeGrows
<1>1. CASE Stripe
    <2> USE DEF StripeType, StripeGrows, ShopInv, TypeOK
    <2>1. CASE StripeServer
        BY <2>1 DEF StripeServer, StripeWebhook
    <2>2. CASE CreateStripePaymentIntent
        BY <2>2 DEF CreateStripePaymentIntent
    <2>3. ASSUME NEW i \in Intents, StripePay(i) \/ StripeRedeliver(i) \/ StripeWebhookDies(i)
          PROVE  StripeType' /\ StripeGrows
        BY <2>3 DEF StripePay, StripeRedeliver, StripeWebhookDies, stripeVars
    <2> QED BY <1>1, <2>1, <2>2, <2>3 DEF Stripe, StripeNext, StripeShopper
<1>2. CASE UNCHANGED stripeVars
    BY <1>2 DEF stripeVars, StripeType, StripeGrows, ShopInv, TypeOK
<1> QED BY <1>1, <1>2 DEF Next, Cashfree, Mollie, Braintree, Shop

\* What Cashfree keeps after a step; a paid order stays paid, at its amount.
LEMMA CashfreeTyped ==
    ASSUME ShopInv, Next
    PROVE  CashfreeType' /\ CashfreeGrows
<1>0. cashfree \in [status : {"none", "open", "paid"}, amount : Totals \cup {0}]
    BY DEF CashfreeType, ShopInv, TypeOK
<1>1. CASE Cashfree
    <2>1. CASE CreateCashfreeOrder
        BY <1>0, <2>1, OrderTyped DEF CreateCashfreeOrder, CashfreeType, CashfreeGrows, ShopInv, TypeOK,
            OrderType
    <2>2. CASE CashfreePay
        BY <1>0, <2>2 DEF CashfreePay, CashfreeType, CashfreeGrows
    <2>3. CASE cashfree' = cashfree /\ cashfreeEvent' \in {"none", "pending", "delivered"}
        BY <1>0, <2>3 DEF CashfreeType, CashfreeGrows
    <2>4. CASE UNCHANGED cashfreeVars
        BY <2>3, <2>4 DEF cashfreeVars, CashfreeType, ShopInv, TypeOK
    <2> QED BY <1>1, <2>1, <2>2, <2>3, <2>4
            DEF Cashfree, CashfreeNext, CashfreeRedeliver, CashfreeAddPayment, CashfreeServer,
                CashfreeRead, CashfreeCommit, CashfreeThrows, CashfreeDies
<1>2. CASE UNCHANGED cashfreeVars
    BY <1>2 DEF cashfreeVars, CashfreeType, CashfreeGrows, ShopInv, TypeOK
<1> QED BY <1>1, <1>2 DEF Next, Stripe, Mollie, Braintree, Shop

\* What Braintree keeps after a step; a sale keeps its amount.
LEMMA BraintreeTyped ==
    ASSUME ShopInv, Next
    PROVE  BraintreeType' /\ BraintreeGrows
<1>1. ASSUME NEW s \in Sales, Sale(s) PROVE BraintreeType' /\ BraintreeGrows
    <2>1. Outstanding(order) \in Nat
        BY <1>1, OrderTyped, OutstandingCovers DEF Sale
    <2> QED BY <1>1, <2>1 DEF Sale, BraintreeType, BraintreeGrows, ShopInv, TypeOK
<1>2. CASE UNCHANGED braintree
    BY <1>2 DEF BraintreeType, BraintreeGrows, ShopInv, TypeOK
<1> QED BY <1>1, <1>2
        DEF Next, Stripe, Cashfree, Mollie, Shop, Braintree, BraintreeNext, BraintreeAddPayment,
            BraintreeAddPaymentDies

\* Which payment Mollie's side changes: one is created, or one goes on.
MollieMoves ==
    \/ mollie' = mollie
    \/ \E p \in MolliePayments, manual \in BOOLEAN :
          CreateMolliePaymentIntent(p, manual) /\ mollie[p].status = "none"
    \/ \E p \in MolliePayments :
          \/ MollieStatus(p, "open", "paid")
          \/ MollieStatus(p, "open", "authorized")
          \/ MollieStatus(p, "authorized", "paid")

\* What each step does to Mollie's payments: one is begun, moves on, or none changes.
LEMMA MollieMovesOnly ==
    ASSUME Next
    PROVE  MollieMoves
BY DEF MollieMoves, Next, Stripe, Cashfree, Braintree, Shop, Mollie, MollieNext, mollieVars,
    CreateMolliePaymentIntent, MolliePay, MollieAuthorize, MollieCapture, AdminSettlePayment,
    SyncMolliePaymentStatus, MollieRedeliver, SettleFreeOrder, MollieWebhook, MollieRead,
    MollieEnd, MollieCommit, MollieSettleExisting, MollieTransition, MollieThrows, MollieAnswer

MolliePaymentType ==
    [status : {"none", "open", "authorized", "paid"}, amount : Nat,
     manual : BOOLEAN, additional : BOOLEAN]

\* A payment of Mollie keeps its amount and its flags, and its status only moves on.
LEMMA MollieGrowsOnly ==
    ASSUME ShopInv, Next
    PROVE  mollie' \in [MolliePayments -> MolliePaymentType] /\ MollieGrows
<1>1. mollie \in [MolliePayments -> MolliePaymentType]
    BY DEF ShopInv, TypeOK, MollieType, MolliePaymentType
<1>2. ASSUME NEW p \in MolliePayments, NEW manual \in BOOLEAN,
             CreateMolliePaymentIntent(p, manual)
      PROVE  mollie' \in [MolliePayments -> MolliePaymentType] /\ MollieGrows
    <2> DEFINE new == [status |-> "open", amount |-> Outstanding(order), manual |-> manual,
                       additional |-> order.state = "ArrangingAdditionalPayment"]
    <2>1. Outstanding(order) \in Nat
        BY <1>2, OrderTyped, OutstandingCovers DEF CreateMolliePaymentIntent
    <2>2. (order.state = "ArrangingAdditionalPayment") \in BOOLEAN
        OBVIOUS
    <2>3. \A b \in BOOLEAN, n \in Nat :
             [status |-> "open", amount |-> n, manual |-> manual, additional |-> b]
                 \in MolliePaymentType
        BY DEF MolliePaymentType
    <2>4. new \in MolliePaymentType
        BY <2>1, <2>2, <2>3, Zenon
    <2>5. mollie' = [mollie EXCEPT ![p] = new] /\ mollie[p].status = "none"
        BY <1>2 DEF CreateMolliePaymentIntent
    <2> HIDE DEF new
    <2> QED BY <1>1, <2>4, <2>5 DEF MollieGrows
<1>3. ASSUME NEW p \in MolliePayments, NEW from, NEW to, MollieStatus(p, from, to),
             <<from, to>> \in {<<"open", "paid">>, <<"open", "authorized">>, <<"authorized", "paid">>}
      PROVE  mollie' \in [MolliePayments -> MolliePaymentType] /\ MollieGrows
    <2>1. mollie' = [mollie EXCEPT ![p] = [mollie[p] EXCEPT !.status = to]]
          /\ mollie[p].status = from
        BY <1>3 DEF MollieStatus
    <2>2. [mollie[p] EXCEPT !.status = to] \in MolliePaymentType
          /\ [mollie[p] EXCEPT !.status = to].amount = mollie[p].amount
          /\ [mollie[p] EXCEPT !.status = to].status = to
        BY <1>1, <1>3 DEF MolliePaymentType
    <2> QED BY <1>1, <1>3, <2>1, <2>2 DEF MollieGrows
<1>4. CASE mollie' = mollie
    BY <1>1, <1>4 DEF MollieGrows, MolliePaymentType
<1> QED BY <1>2, <1>3, <1>4, MollieMovesOnly DEF MollieMoves

\* What Mollie keeps after a step.
LEMMA MollieTyped ==
    ASSUME Careful, ShopInv, Next
    PROVE  MollieType' /\ MollieGrows
<1>1. mollieOutbox' \subseteq Announcements /\ mollieDelivered' \subseteq Announcements
    <2>0. mollieOutbox \subseteq Announcements /\ mollieDelivered \subseteq Announcements
        BY DEF ShopInv, TypeOK, MollieType
    <2>1. CASE UNCHANGED <<mollieOutbox, mollieDelivered>>
        BY <2>0, <2>1
    <2>2. ASSUME NEW p \in MolliePayments, NEW from, NEW to \in {"authorized", "paid"},
                 MollieStatus(p, from, to)
          PROVE  mollieOutbox' \subseteq Announcements /\ mollieDelivered' \subseteq Announcements
        BY <2>0, <2>2 DEF MollieStatus, Announcements
    <2>3. ASSUME NEW a \in Actors, MollieCommit(a) \/ MollieTransition(a)
          PROVE  mollieOutbox' \subseteq Announcements /\ mollieDelivered' \subseteq Announcements
        <3>1. req[a].calls \subseteq Announcements
            BY <2>3, Requests DEF MollieCommit, MollieTransition, ShopInv
        <3> QED BY <2>0, <2>3, <3>1 DEF MollieCommit, MollieTransition, MollieAnswer
    <2>4. CASE \E e \in mollieDelivered : MollieRedeliver(e)
        BY <2>0, <2>4 DEF MollieRedeliver
    <2> QED BY <2>1, <2>2, <2>3, <2>4
        DEF Next, Stripe, Cashfree, Braintree, Shop, Mollie, MollieNext, mollieVars,
            CreateMolliePaymentIntent, MolliePay, MollieAuthorize, MollieCapture, AdminSettlePayment,
            SyncMolliePaymentStatus, SettleFreeOrder, MollieWebhook, MollieRead,
            MollieEnd, MollieSettleExisting, MollieThrows
<1>2. authorized' \subseteq MolliePayments
    BY StepBooks DEF BookStep, BookKept, Moves, Enters, Authorizes, SettlesHeld, ShopInv, TypeOK,
        MollieType
<1> QED BY <1>1, <1>2, MollieGrowsOnly DEF MollieType, MolliePaymentType

\* The requests that are being served, after a step: some end, at most one begins, and one
\* of Mollie has saved the row it settles.
RequestStep ==
    \/ \E a \in Actors : req' = [req EXCEPT ![a] = Idle]
    \/ req' = req
    \/ \E w \in Workers : CashfreeRead(w)
    \/ \E w \in Workers, e \in mollieOutbox : MollieWebhook(w, e)
    \/ \E p \in MolliePayments : SyncMolliePaymentStatus(p)
    \/ \E a \in Actors : MollieSettleExisting(a)

\* What each step does to the requests that are being served.
LEMMA RequestSteps ==
    ASSUME Next
    PROVE  RequestStep
BY DEF RequestStep, Actors, Next, Stripe, StripeNext, StripeShopper, StripeServer, StripeWebhook,
    CreateStripePaymentIntent, StripePay, StripeRedeliver, StripeWebhookDies, Checkout,
    Cashfree, CashfreeNext, CreateCashfreeOrder, CashfreePay, CashfreeRedeliver,
    CashfreeAddPayment, CashfreeServer, CashfreeCommit, CashfreeThrows, CashfreeDies,
    Mollie, MollieNext, CreateMolliePaymentIntent, MollieStatus, MolliePay, MollieAuthorize,
    MollieCapture, MollieRedeliver, AdminSettlePayment, SettleFreeOrder, MollieEnd, MollieThrows,
    MollieCommit, MollieTransition, MollieAnswer, Braintree, BraintreeNext, BraintreeAddPayment,
    BraintreeAddPaymentDies, Shop, EditOrder, ModifyOrder, EnterCheckout, LeaveCheckout,
    ManualPayment, CancelOrder, DisableMethods, EnableMethods, RequestDies, bookVars

\* A Mollie request that begins is about a payment that was authorized or paid.
LEMMA MollieBegins ==
    ASSUME ShopInv, NEW a \in Actors, NEW p \in MolliePayments, NEW calls \in SUBSET Announcements,
           MollieRead(a, p, calls), mollie[p].status \in {"authorized", "paid"}
    PROVE  \E new \in MollieServes :
              /\ req' = [req EXCEPT ![a] = new]
              /\ new.id = p /\ new.calls = calls /\ new.status = mollie[p].status
              /\ new.state = order.state
              /\ new.known <=> (p \in authorized \/ Rows(MollieTxn(p)) # {})
<1> DEFINE b == p \in authorized \/ Rows(MollieTxn(p)) # {}
           new == [plugin |-> "mollie", id |-> p, calls |-> calls,
                   status |-> mollie[p].status, state |-> order.state, known |-> b]
<1>1. b \in BOOLEAN
    OBVIOUS
<1>2. \A k \in BOOLEAN, s \in {"authorized", "paid"}, o \in OrderStates :
         [plugin |-> "mollie", id |-> p, calls |-> calls, status |-> s, state |-> o, known |-> k]
             \in MollieServes
    BY DEF MollieServes
<1>3. new \in MollieServes
    BY <1>1, <1>2, OrderTyped, Zenon
<1>4. req' = [req EXCEPT ![a] = new]
    BY DEF MollieRead
<1>5. new.id = p /\ new.calls = calls /\ new.status = mollie[p].status
    OBVIOUS
<1>6. new.state = order.state /\ (new.known <=> b)
    OBVIOUS
<1> QED BY <1>3, <1>4, <1>5, <1>6, Zenon

\* In short, a request of Mollie's begins.
LEMMA MollieReads ==
    ASSUME ShopInv, NEW a \in Actors, NEW p \in MolliePayments, NEW calls \in SUBSET Announcements,
           MollieRead(a, p, calls), mollie[p].status \in {"authorized", "paid"}
    PROVE  \E new \in MollieServes : req' = [req EXCEPT ![a] = new]
BY MollieBegins, ZenonT(60)

\* The same of a Cashfree request: no other one is being served.
LEMMA CashfreeBegins ==
    ASSUME Careful, ShopInv, NEW w \in Workers, CashfreeRead(w)
    PROVE  \E new \in CashfreeRequests :
              /\ req' = [req EXCEPT ![w] = new]
              /\ new.paid <=> Rows(CashfreeTxn) # {}
<1> DEFINE b == Rows(CashfreeTxn) # {}
           new == [plugin |-> "cashfree", state |-> order.state, paid |-> b]
<1>1. b \in BOOLEAN
    OBVIOUS
<1>2. \A k \in BOOLEAN, o \in OrderStates :
         [plugin |-> "cashfree", state |-> o, paid |-> k] \in CashfreeRequests
    BY DEF CashfreeRequests
<1>3. new \in CashfreeRequests
    BY <1>1, <1>2, OrderTyped, Zenon
<1>4. req' = [req EXCEPT ![w] = new] /\ (new.paid <=> b)
    BY DEF CashfreeRead
<1> QED BY <1>3, <1>4, Zenon

\* An event of Mollie that waits is about a payment that was authorized or paid.
LEMMA Announced ==
    ASSUME ShopInv, NEW e \in mollieOutbox
    PROVE  /\ e \in Announcements /\ e.id \in MolliePayments /\ {e} \in SUBSET Announcements
           /\ mollie[e.id].status \in {"authorized", "paid"}
BY DEF ShopInv, TypeOK, MollieType, Announcements, AnnouncedIsTrue

RequestType == {Idle} \cup CashfreeRequests \cup MollieRequests

\* A request of Mollie that has saved the row it settles still has its calls to answer.
LEMMA MollieSettling ==
    ASSUME ShopInv, NEW a \in Actors, MollieSettleExisting(a)
    PROVE  /\ a \in MollieServed /\ req[a].calls \subseteq Announcements
           /\ \E new \in MollieSettles :
                 req' = [req EXCEPT ![a] = new] /\ new.calls = req[a].calls
<1>1. a \in MollieServed /\ req[a].calls \subseteq Announcements
    BY Requests DEF MollieSettleExisting, SettlesExisting, MollieServed, ShopInv
<1>2. [plugin |-> "mollie settled", calls |-> req[a].calls] \in MollieSettles
    BY <1>1 DEF MollieSettles
<1>3. req' = [req EXCEPT ![a] = [plugin |-> "mollie settled", calls |-> req[a].calls]]
    BY DEF MollieSettleExisting
<1> QED BY <1>1, <1>2, <1>3

\* The requests in service after a step.
LEMMA RequestsTyped ==
    ASSUME Careful, ShopInv, Next
    PROVE  req' \in [Actors -> RequestType]
<1>1. req \in [Actors -> RequestType]
    BY DEF ShopInv, TypeOK, RequestType
<1>2. ASSUME NEW a \in Actors, NEW new \in RequestType, req' = [req EXCEPT ![a] = new]
      PROVE  req' \in [Actors -> RequestType]
    BY <1>1, <1>2
<1>3. ASSUME NEW w \in Workers, CashfreeRead(w) PROVE req' \in [Actors -> RequestType]
    BY <1>2, <1>3, CashfreeBegins DEF Actors, RequestType
<1>4. ASSUME NEW w \in Workers, NEW e \in mollieOutbox, MollieWebhook(w, e)
      PROVE  req' \in [Actors -> RequestType]
    <2>1. PICK new \in MollieServes : req' = [req EXCEPT ![w] = new]
        BY <1>4, Announced, MollieBegins DEF Actors, MollieWebhook
    <2> QED BY <1>2, <2>1, PluginNames DEF Actors, RequestType
<1>5. ASSUME NEW p \in MolliePayments, SyncMolliePaymentStatus(p) PROVE req' \in [Actors -> RequestType]
    <2>1. PICK new \in MollieServes : req' = [req EXCEPT ![Sync] = new]
        BY <1>5, MollieBegins DEF Actors, SyncMolliePaymentStatus
    <2> QED BY <1>2, <2>1, PluginNames DEF Actors, RequestType
<1>6. Idle \in RequestType /\ \A r \in MollieSettles : r \in RequestType
    BY PluginNames DEF RequestType
<1>7. CASE req' = req
    BY <1>1, <1>7
<1>8. CASE \E a \in Actors : req' = [req EXCEPT ![a] = Idle]
    BY <1>2, <1>6, <1>8
<1>9. CASE \E a \in Actors : MollieSettleExisting(a)
    BY <1>2, <1>6, <1>9, MollieSettling
<1> QED BY <1>3, <1>4, <1>5, <1>7, <1>8, <1>9, RequestSteps DEF RequestStep

\* A Mollie request that is served after a step was served before it, or begins with it: then
\* it copies the order and the payment as they are, and no book changes.
LEMMA MollieServing ==
    ASSUME Careful, ShopInv, Next, NEW a \in Actors, req'[a].plugin = "mollie"
    PROVE  \/ a \in MollieServed /\ req'[a] = req[a]
           \/ /\ UNCHANGED <<order, settled, authorized, mollie, mollieOutbox>>
              /\ req'[a] \in MollieServes
              /\ req'[a].calls \subseteq mollieOutbox
              /\ req'[a].status = mollie[req'[a].id].status
              /\ req'[a].state = order.state
              /\ req'[a].known <=> (req'[a].id \in authorized \/ Rows(MollieTxn(req'[a].id)) # {})
              /\ order.state = Extra => \E e \in mollieOutbox : e.id = req'[a].id
<1>1. req \in [Actors -> {Idle} \cup CashfreeRequests \cup MollieRequests]
    BY DEF ShopInv, TypeOK
<1>2. ASSUME NEW b \in Actors, req' = [req EXCEPT ![b] = Idle]
      PROVE  a \in MollieServed /\ req'[a] = req[a]
    BY <1>1, <1>2, PluginNames DEF MollieServed
<1>3. ASSUME req' = req PROVE a \in MollieServed /\ req'[a] = req[a]
    BY <1>3 DEF MollieServed
<1>4. ASSUME NEW w \in Workers, CashfreeRead(w) PROVE a \in MollieServed /\ req'[a] = req[a]
    <2>1. PICK new \in CashfreeRequests : req' = [req EXCEPT ![w] = new]
        BY <1>4, CashfreeBegins
    <2> QED BY <1>1, <2>1, PluginNames DEF MollieServed, Actors
<1>5. ASSUME NEW w \in Workers, NEW e \in mollieOutbox, MollieWebhook(w, e), a = w
      PROVE  /\ UNCHANGED <<order, settled, authorized, mollie, mollieOutbox>>
             /\ req'[a] \in MollieServes
             /\ req'[a].calls \subseteq mollieOutbox
             /\ req'[a].status = mollie[req'[a].id].status
             /\ req'[a].state = order.state
             /\ req'[a].known <=> (req'[a].id \in authorized \/ Rows(MollieTxn(req'[a].id)) # {})
             /\ e.id = req'[a].id
    <2>1. PICK new \in MollieServes :
              /\ req' = [req EXCEPT ![a] = new]
              /\ new.id = e.id /\ new.calls = {e} /\ new.status = mollie[e.id].status
              /\ new.state = order.state
              /\ new.known <=> (e.id \in authorized \/ Rows(MollieTxn(e.id)) # {})
        BY <1>5, Announced, MollieBegins DEF MollieWebhook
    <2>2. req'[a] = new
        BY <1>1, <2>1
    <2>3. UNCHANGED <<order, settled, authorized, mollie, mollieOutbox>>
        BY <1>5 DEF MollieWebhook, MollieRead, mollieVars
    <2> QED BY <2>1, <2>2, <2>3, Zenon
<1>6. ASSUME NEW p \in MolliePayments, SyncMolliePaymentStatus(p), a = Sync
      PROVE  /\ UNCHANGED <<order, settled, authorized, mollie, mollieOutbox>>
             /\ req'[a] \in MollieServes
             /\ req'[a].calls \subseteq mollieOutbox
             /\ req'[a].status = mollie[req'[a].id].status
             /\ req'[a].state = order.state
             /\ req'[a].known <=> (req'[a].id \in authorized \/ Rows(MollieTxn(req'[a].id)) # {})
             /\ order.state # Extra
    <2>1. PICK new \in MollieServes :
              /\ req' = [req EXCEPT ![a] = new]
              /\ new.id = p /\ new.calls = {} /\ new.status = mollie[p].status
              /\ new.state = order.state
              /\ new.known <=> (p \in authorized \/ Rows(MollieTxn(p)) # {})
        BY <1>6, MollieBegins DEF SyncMolliePaymentStatus
    <2>2. req'[a] = new
        BY <1>1, <2>1
    <2>3. UNCHANGED <<order, settled, authorized, mollie, mollieOutbox>>
        BY <1>6 DEF SyncMolliePaymentStatus, MollieRead, mollieVars
    <2>4. order.state # Extra
        BY <1>6 DEF SyncMolliePaymentStatus, Careful, Extra
    <2>5. new.calls \subseteq mollieOutbox
        BY <2>1
    <2> QED BY <2>1, <2>2, <2>3, <2>4, <2>5, Zenon
<1>7. ASSUME NEW b \in Actors, b # a, NEW p, NEW calls, MollieRead(b, p, calls)
      PROVE  a \in MollieServed /\ req'[a] = req[a]
    BY <1>1, <1>7 DEF MollieRead, MollieServed
<1>8. ASSUME NEW w \in Workers, NEW e \in mollieOutbox, MollieWebhook(w, e), a # w
      PROVE  a \in MollieServed /\ req'[a] = req[a]
    BY <1>7, <1>8 DEF MollieWebhook, Actors
<1>9. ASSUME NEW p \in MolliePayments, SyncMolliePaymentStatus(p), a # Sync
      PROVE  a \in MollieServed /\ req'[a] = req[a]
    BY <1>7, <1>9 DEF SyncMolliePaymentStatus, Actors
<1>10. ASSUME NEW b \in Actors, MollieSettleExisting(b) PROVE a \in MollieServed /\ req'[a] = req[a]
    <2>1. PICK new \in MollieSettles : req' = [req EXCEPT ![b] = new]
        BY <1>10, MollieSettling
    <2>2. new.plugin = "mollie settled"
        BY <2>1, PluginNames
    <2> QED BY <1>1, <2>1, <2>2 DEF MollieServed
<1> QED BY <1>2, <1>3, <1>4, <1>5, <1>6, <1>8, <1>9, <1>10, RequestSteps DEF RequestStep

\* A Mollie request with a saved row after a step was that before it, or saved it with it.
LEMMA MollieSettledServing ==
    ASSUME Careful, ShopInv, Next, NEW a \in Actors, req'[a].plugin = "mollie settled"
    PROVE  a \in MollieServed \cup MollieSettled /\ req'[a].calls = req[a].calls
<1>1. req \in [Actors -> {Idle} \cup CashfreeRequests \cup MollieRequests]
    BY DEF ShopInv, TypeOK
<1>2. ASSUME NEW b \in Actors, NEW new, new.plugin # "mollie settled", req' = [req EXCEPT ![b] = new]
      PROVE  a \in MollieSettled /\ req'[a] = req[a]
    BY <1>1, <1>2 DEF MollieSettled
<1>3. ASSUME req' = req PROVE a \in MollieSettled /\ req'[a] = req[a]
    BY <1>3 DEF MollieSettled
<1>4. ASSUME NEW b \in Actors, req' = [req EXCEPT ![b] = Idle]
      PROVE  a \in MollieSettled /\ req'[a] = req[a]
    <2>1. Idle.plugin # "mollie settled"
        BY PluginNames
    <2> QED BY <1>2, <1>4, <2>1
<1>5. ASSUME NEW w \in Workers, CashfreeRead(w) PROVE a \in MollieSettled /\ req'[a] = req[a]
    <2>1. PICK new \in CashfreeRequests : req' = [req EXCEPT ![w] = new]
        BY <1>5, CashfreeBegins
    <2>2. new.plugin # "mollie settled"
        BY <2>1, PluginNames
    <2>3. w \in Actors
        BY DEF Actors
    <2> QED BY <1>2, <2>1, <2>2, <2>3
<1>6. ASSUME NEW b \in Actors, NEW p \in MolliePayments, NEW calls \in SUBSET Announcements,
             MollieRead(b, p, calls), mollie[p].status \in {"authorized", "paid"}
      PROVE  a \in MollieSettled /\ req'[a] = req[a]
    <2>1. PICK new \in MollieServes : req' = [req EXCEPT ![b] = new]
        BY <1>6, MollieReads
    <2>2. new.plugin # "mollie settled"
        BY <2>1, PluginNames
    <2> QED BY <1>2, <2>1, <2>2
<1>7. ASSUME NEW w \in Workers, NEW e \in mollieOutbox, MollieWebhook(w, e)
      PROVE  a \in MollieSettled /\ req'[a] = req[a]
    BY <1>6, <1>7, Announced DEF MollieWebhook, Actors
<1>8. ASSUME NEW p \in MolliePayments, SyncMolliePaymentStatus(p)
      PROVE  a \in MollieSettled /\ req'[a] = req[a]
    BY <1>6, <1>8 DEF SyncMolliePaymentStatus, Actors
<1>9. ASSUME NEW b \in Actors, MollieSettleExisting(b)
      PROVE  a \in MollieServed \cup MollieSettled /\ req'[a].calls = req[a].calls
    <2>1. PICK new \in MollieSettles : req' = [req EXCEPT ![b] = new] /\ new.calls = req[b].calls
        BY <1>9, MollieSettling
    <2>2. CASE a = b
        BY <1>1, <1>9, <2>1, <2>2, MollieSettling
    <2>3. CASE a # b
        BY <1>1, <2>1, <2>3 DEF MollieSettled
    <2> QED BY <2>2, <2>3
<1> QED BY <1>3, <1>4, <1>5, <1>7, <1>8, <1>9, RequestSteps DEF RequestStep

\* A Cashfree request that is served after a step was served before it, or begins with it,
\* when no other is.
LEMMA CashfreeServing ==
    ASSUME Careful, ShopInv, Next, NEW a \in Actors, req'[a].plugin = "cashfree"
    PROVE  \/ a \in CashfreeServed /\ req'[a] = req[a]
           \/ /\ a \in Workers /\ CashfreeServed = {}
              /\ UNCHANGED <<order, settled>>
              /\ req'[a].paid <=> Rows(CashfreeTxn) # {}
              /\ \A b \in Actors : b # a => req'[b] = req[b]
<1>1. req \in [Actors -> {Idle} \cup CashfreeRequests \cup MollieRequests]
    BY DEF ShopInv, TypeOK
<1>2. ASSUME NEW b \in Actors, req' = [req EXCEPT ![b] = Idle]
      PROVE  a \in CashfreeServed /\ req'[a] = req[a]
    BY <1>1, <1>2, PluginNames DEF CashfreeServed
<1>3. ASSUME req' = req PROVE a \in CashfreeServed /\ req'[a] = req[a]
    BY <1>3 DEF CashfreeServed
<1>4. ASSUME NEW w \in Workers, CashfreeRead(w), a # w
      PROVE  a \in CashfreeServed /\ req'[a] = req[a]
    <2>1. PICK new : req' = [req EXCEPT ![w] = new]
        BY <1>4, CashfreeBegins
    <2> QED BY <1>1, <1>4, <2>1 DEF CashfreeServed
<1>5. ASSUME NEW w \in Workers, CashfreeRead(w), a = w
      PROVE  /\ a \in Workers /\ CashfreeServed = {}
             /\ UNCHANGED <<order, settled>>
             /\ req'[a].paid <=> Rows(CashfreeTxn) # {}
             /\ \A b \in Actors : b # a => req'[b] = req[b]
    <2>1. PICK new \in CashfreeRequests :
              req' = [req EXCEPT ![a] = new] /\ (new.paid <=> Rows(CashfreeTxn) # {})
        BY <1>5, CashfreeBegins
    <2>2. req'[a] = new /\ \A b \in Actors : b # a => req'[b] = req[b]
        BY <1>1, <2>1
    <2>3. UNCHANGED <<order, settled>> /\ \A v \in Workers : req[v].plugin # "cashfree"
        BY <1>5 DEF CashfreeRead, Careful
    <2>4. CashfreeServed = {}
        BY <2>3 DEF CashfreeServed, ShopInv, OneCashfree
    <2> QED BY <1>5, <2>1, <2>2, <2>3, <2>4
<1>6. ASSUME NEW b \in Actors, NEW p \in MolliePayments, NEW calls \in SUBSET Announcements,
             MollieRead(b, p, calls), mollie[p].status \in {"authorized", "paid"}
      PROVE  a \in CashfreeServed /\ req'[a] = req[a]
    <2>1. PICK new \in MollieServes : req' = [req EXCEPT ![b] = new]
        BY <1>6, MollieReads
    <2> QED BY <1>1, <2>1, PluginNames DEF CashfreeServed
<1>7. ASSUME NEW w \in Workers, NEW e \in mollieOutbox, MollieWebhook(w, e)
      PROVE  a \in CashfreeServed /\ req'[a] = req[a]
    BY <1>6, <1>7, Announced DEF MollieWebhook, Actors
<1>8. ASSUME NEW p \in MolliePayments, SyncMolliePaymentStatus(p)
      PROVE  a \in CashfreeServed /\ req'[a] = req[a]
    BY <1>6, <1>8 DEF SyncMolliePaymentStatus, Actors
<1>9. ASSUME NEW b \in Actors, MollieSettleExisting(b)
      PROVE  a \in CashfreeServed /\ req'[a] = req[a]
    <2>1. PICK new \in MollieSettles : req' = [req EXCEPT ![b] = new]
        BY <1>9, MollieSettling
    <2>2. new.plugin = "mollie settled"
        BY <2>1, PluginNames
    <2> QED BY <1>1, <2>1, <2>2 DEF CashfreeServed
<1> QED BY <1>2, <1>3, <1>4, <1>5, <1>7, <1>8, <1>9, RequestSteps DEF RequestStep

-----------------------------------------------------------------------------
\* The rows after an entry.
LEMMA Appended ==
    ASSUME NEW S, settled \in Seq(S), NEW txn, NEW amount,
           settled' = Append(settled, Row(txn, amount))
    PROVE  /\ DOMAIN settled = 1..Len(settled) /\ Len(settled) \in Nat
           /\ Len(settled) + 1 \notin DOMAIN settled
           /\ DOMAIN settled' = DOMAIN settled \cup {Len(settled) + 1}
           /\ \A i \in DOMAIN settled : settled'[i] = settled[i]
           /\ settled'[Len(settled) + 1].txn = txn
           /\ settled'[Len(settled) + 1].amount = amount
<1>1. DOMAIN settled = 1..Len(settled) /\ Len(settled) \in Nat
    OBVIOUS
<1>2. Len(settled) + 1 \notin 1..Len(settled)
    BY <1>1
<1>3. DOMAIN settled' = 1..Len(settled) + 1 /\ settled'[Len(settled) + 1] = Row(txn, amount)
    BY <1>1
<1>4. \A i \in 1..Len(settled) : settled'[i] = settled[i]
    BY <1>1
<1>5. 1..Len(settled) + 1 = 1..Len(settled) \cup {Len(settled) + 1}
    BY <1>1
<1> QED BY <1>1, <1>2, <1>3, <1>4, <1>5 DEF Row

\* An entry changes the rows of its own transaction only.
LEMMA RowsAfter ==
    ASSUME NEW S, settled \in Seq(S), NEW txn, NEW amount,
           settled' = Append(settled, Row(txn, amount))
    PROVE  \A t : t # txn => Rows(t)' = Rows(t)
BY Appended DEF Rows

\* The sum of the rows after an entry.
LEMMA SumAfter ==
    ASSUME NEW T, settled \in Seq([txn : T, amount : Nat]), NEW txn, NEW amount \in Nat,
           settled' = Append(settled, Row(txn, amount))
    PROVE  SettledSum \in Nat /\ SettledSum' = SettledSum + amount
<1> DEFINE D == DOMAIN settled
           n == Len(settled) + 1
           f == [i \in DOMAIN settled |-> settled[i].amount]
           g == [i \in DOMAIN settled' |-> settled'[i].amount]
<1>1. /\ D = 1..Len(settled) /\ Len(settled) \in Nat /\ n \notin D
      /\ DOMAIN settled' = D \cup {n}
      /\ \A i \in D : settled'[i] = settled[i]
      /\ settled'[n].amount = amount
    BY Appended
<1>2. IsFiniteSet(D)
    BY <1>1, FS_Interval
<1>3. \A i \in D : settled[i].amount \in Nat
    <2>1. \A i \in D : settled[i] \in [txn : T, amount : Nat]
        BY <1>1, ElementOfSeq
    <2> QED BY <2>1
<1>4. DOMAIN f = D /\ DOMAIN g = D \cup {n} /\ g[n] = amount
    BY <1>1
<1>5. \A i \in D : f[i] = settled[i].amount /\ g[i] = f[i]
    BY <1>1
<1>6. \A i \in D \cup {n} : g[i] \in Nat
    BY <1>3, <1>4, <1>5
<1>7. SettledSum = SumFunctionOnSet(f, D) /\ SettledSum' = SumFunctionOnSet(g, D \cup {n})
    BY <1>4 DEF SettledSum, SumFunction
<1> HIDE DEF f, g, D, n
<1>8. SumFunctionOnSet(f, D) \in Nat
    BY <1>2, <1>3, <1>5, SumType
<1>9. SumFunctionOnSet(g, D) = SumFunctionOnSet(f, D)
    BY <1>2, <1>5, SumSame
<1>10. SumFunctionOnSet(g, D \cup {n}) = g[n] + SumFunctionOnSet(g, D)
    BY <1>1, <1>2, <1>6, SumAdd
<1> QED BY <1>4, <1>7, <1>8, <1>9, <1>10

\* To be known is to be captured, at the amount that was charged, or not to be a provider's.
KnownIsCharged ==
    \A txn, amount :
        Known(txn, amount) <=> /\ txn \in Captured \cup {Manual, Free}
                               /\ txn \in Captured => amount = Charged(txn)

\* A transaction is known when its provider charged it, or the shop entered it itself.
LEMMA KnownMeans == KnownIsCharged
<1> SUFFICES ASSUME NEW txn, NEW amount
             PROVE  Known(txn, amount) <=> /\ txn \in Captured \cup {Manual, Free}
                                           /\ txn \in Captured => amount = Charged(txn)
    BY DEF KnownIsCharged
<1>1. /\ StripeCaptured = {StripeTxn(i) : i \in {j \in Intents : stripe[j] = "succeeded"}}
      /\ \A t \in CashfreeCaptured : t = CashfreeTxn /\ cashfree.status = "paid"
      /\ cashfree.status = "paid" => CashfreeTxn \in CashfreeCaptured
      /\ MollieCaptured = {MollieTxn(p) : p \in MolliePaid}
      /\ BraintreeCaptured = {BraintreeTxn(s) : s \in {b \in Sales : braintree[b] > 0}}
    BY DEF StripeCaptured, CashfreeCaptured, MollieCaptured, BraintreeCaptured
<1>2. Captured \subseteq ProviderTxns
    BY <1>1, IdsDiffer DEF Captured, Backed, MolliePaid
<1>3. ASSUME NEW i \in Intents, stripe[i] = "succeeded", txn = StripeTxn(i)
      PROVE  txn \in Captured /\ Charged(txn) = FromStripe(i)
    <2>1. txn \in StripeCaptured /\ txn[2] = i
        BY <1>1, <1>3 DEF StripeTxn
    <2>2. txn \notin CashfreeCaptured /\ txn \notin MollieCaptured /\ txn \notin BraintreeCaptured
        BY <1>1, <1>3, IdsDiffer
    <2> QED BY <2>1, <2>2 DEF Captured, Backed, Charged
<1>4. ASSUME cashfree.status = "paid", txn = CashfreeTxn
      PROVE  txn \in Captured /\ Charged(txn) = cashfree.amount
    <2>1. txn \in CashfreeCaptured /\ txn \notin StripeCaptured
        BY <1>1, <1>4, IdsDiffer
    <2>2. txn \notin MollieCaptured /\ txn \notin BraintreeCaptured
        BY <1>1, <1>4, IdsDiffer
    <2> QED BY <2>1, <2>2 DEF Captured, Backed, Charged
<1>5. ASSUME NEW p \in MolliePayments, mollie[p].status = "paid", txn = MollieTxn(p)
      PROVE  txn \in Captured /\ Charged(txn) = mollie[p].amount
    <2>1. txn \in MollieCaptured /\ txn[2] = p /\ txn \notin StripeCaptured
        BY <1>1, <1>5, IdsDiffer DEF MollieTxn, MolliePaid
    <2>2. txn \notin CashfreeCaptured /\ txn \notin BraintreeCaptured
        BY <1>1, <1>5, IdsDiffer
    <2> QED BY <2>1, <2>2 DEF Captured, Backed, Charged
<1>6. ASSUME NEW s \in Sales, braintree[s] > 0, txn = BraintreeTxn(s)
      PROVE  txn \in Captured /\ Charged(txn) = braintree[s]
    <2>1. txn \in BraintreeCaptured /\ txn[2] = s /\ txn \notin StripeCaptured
        BY <1>1, <1>6, IdsDiffer DEF BraintreeTxn
    <2>2. txn \notin CashfreeCaptured /\ txn \notin MollieCaptured
        BY <1>1, <1>6, IdsDiffer
    <2> QED BY <2>1, <2>2 DEF Captured, Backed, Charged
<1>7. txn \in {Manual, Free} => txn \notin Captured
    BY <1>2, IdsAssumption
<1>8. ASSUME txn \in Captured
      PROVE  \/ \E i \in Intents : stripe[i] = "succeeded" /\ txn = StripeTxn(i)
             \/ cashfree.status = "paid" /\ txn = CashfreeTxn
             \/ \E p \in MolliePayments : mollie[p].status = "paid" /\ txn = MollieTxn(p)
             \/ \E s \in Sales : braintree[s] > 0 /\ txn = BraintreeTxn(s)
    BY <1>1, <1>8 DEF Captured, Backed, MolliePaid
<1>9. Known(txn, amount) => /\ txn \in Captured \cup {Manual, Free}
                            /\ txn \in Captured => amount = Charged(txn)
    BY <1>3, <1>4, <1>5, <1>6, <1>7 DEF Known
<1>10. ASSUME txn \in Captured, amount = Charged(txn) PROVE Known(txn, amount)
    BY <1>3, <1>4, <1>5, <1>6, <1>8, <1>10 DEF Known
<1> QED BY <1>9, <1>10 DEF Known

\* What is known of a payment stays known.
LEMMA KnownStays ==
    ASSUME StripeGrows, CashfreeGrows, MollieGrows, BraintreeGrows,
           \A s \in Sales : braintree[s] > 0 => braintree'[s] > 0,
           NEW txn, NEW amount, Known(txn, amount)
    PROVE  Known(txn, amount)'
<1>1. ASSUME NEW i \in Intents, stripe[i] = "succeeded", txn = StripeTxn(i), amount = FromStripe(i)
      PROVE  Known(txn, amount)'
    BY <1>1 DEF StripeGrows, Known
<1>2. CASE cashfree.status = "paid" /\ txn = CashfreeTxn /\ amount = cashfree.amount
    BY <1>2 DEF CashfreeGrows, Known
<1>3. ASSUME NEW p \in MolliePayments, mollie[p].status = "paid", txn = MollieTxn(p),
             amount = mollie[p].amount
      PROVE  Known(txn, amount)'
    BY <1>3 DEF MollieGrows, Known
<1>4. ASSUME NEW s \in Sales, braintree[s] > 0, txn = BraintreeTxn(s), amount = braintree[s]
      PROVE  Known(txn, amount)'
    BY <1>4 DEF BraintreeGrows, Known
<1>5. CASE txn \in {Manual, Free}
    BY <1>5 DEF Known
<1> QED BY <1>1, <1>2, <1>3, <1>4, <1>5 DEF Known

\* Every Settled row is of a known payment and of its amount.
RowsKnown ==
    \A i \in DOMAIN settled : \A txn, amount :
        settled[i].txn = txn /\ settled[i].amount = amount => Known(txn, amount)

\* Every row of the books is of a known transaction.
LEMMA RowsAreKnown == ShopInv => RowsKnown
<1> SUFFICES ASSUME ShopInv, NEW i \in DOMAIN settled, NEW txn, NEW amount,
                    settled[i].txn = txn, settled[i].amount = amount
             PROVE  Known(txn, amount)
    BY DEF RowsKnown
<1>1. settled \in Seq([txn : Captured \cup {Manual, Free}, amount : Nat])
    BY DEF ShopInv, TypeOK
<1>2. settled[i] \in [txn : Captured \cup {Manual, Free}, amount : Nat]
    BY <1>1, ElementOfSeq, LenProperties
<1>3. settled[i].txn \in Captured \cup {Manual, Free}
    BY <1>2
<1>4. settled[i].txn \in Captured => settled[i].amount = Charged(settled[i].txn)
    BY DEF ShopInv, BooksMatchCharges
<1> QED BY <1>3, <1>4, KnownMeans DEF KnownIsCharged

\* A known transaction stays known, with its amount.
LEMMA KnownNext ==
    ASSUME Careful, ShopInv, Next, NEW txn, NEW amount, Known(txn, amount)
    PROVE  Known(txn, amount)'
<1>1. \A s \in Sales : braintree[s] > 0 => braintree'[s] > 0
    BY BraintreeTyped DEF BraintreeGrows
<1> QED BY <1>1, StripeTyped, CashfreeTyped, MollieTyped, BraintreeTyped, KnownStays

\* The rows of the books after a step.
LEMMA SettledTyped ==
    ASSUME Careful, ShopInv, Next
    PROVE  /\ settled' \in Seq([txn : Captured' \cup {Manual, Free}, amount : Nat])
           /\ RowsKnown'
<1> DEFINE S == [txn : Captured \cup {Manual, Free}, amount : Nat]
           T == [txn : Captured' \cup {Manual, Free}, amount : Nat]
<1>1. settled \in Seq(S) /\ RowsKnown
    BY RowsAreKnown DEF ShopInv, TypeOK
<1>2. \A txn, amount : Known(txn, amount)' => txn \in Captured' \cup {Manual, Free}
    <2>1. KnownIsCharged'
        BY KnownMeans, PTL
    <2> QED BY <2>1 DEF KnownIsCharged
<1>3. ASSUME NEW i \in DOMAIN settled
      PROVE  \A txn, amount : settled[i].txn = txn /\ settled[i].amount = amount
                                 => Known(txn, amount)'
    BY <1>1, <1>3, KnownNext DEF RowsKnown
<1>4. S \subseteq T
    <2>1. ASSUME NEW r \in S PROVE r \in T
        <3>1. r.txn \in Captured' \cup {Manual, Free}
            <4>1. r.txn \in Captured \cup {Manual, Free}
                BY <2>1
            <4>2. CASE r.txn \in Captured
                <5>1. Known(r.txn, Charged(r.txn))
                    BY <4>2, KnownMeans DEF KnownIsCharged
                <5>2. \E amount : Known(r.txn, amount)'
                    BY <5>1, KnownNext
                <5> QED BY <1>2, <5>2
            <4> QED BY <4>1, <4>2
        <3> QED BY <2>1, <3>1
    <2> QED BY <2>1
<1>5. ASSUME settled' = settled PROVE settled' \in Seq(T) /\ RowsKnown'
    BY <1>1, <1>3, <1>4, <1>5, SeqMonotonic DEF RowsKnown
<1>6. ASSUME NEW txn, NEW amount \in Nat, settled' = Append(settled, Row(txn, amount)),
             Known(txn, amount)'
      PROVE  settled' \in Seq(T) /\ RowsKnown'
    <2>1. settled \in Seq(T)
        BY <1>1, <1>4, SeqMonotonic
    <2>2. Row(txn, amount) \in T
        BY <1>2, <1>6 DEF Row
    <2>3. RowsKnown'
        BY <1>1, <1>3, <1>6, Appended DEF RowsKnown
    <2> HIDE DEF T
    <2> QED BY <1>6, <2>1, <2>2, <2>3
<1>7. ASSUME NEW p \in MolliePayments, SettlesHeld(p) PROVE settled' \in Seq(T) /\ RowsKnown'
    <2>1. PICK amount \in Nat : amount = mollie[p].amount
        BY DEF ShopInv, TypeOK, MollieType
    <2>2. Known(MollieTxn(p), amount)
        BY <1>7, <2>1 DEF SettlesHeld, Known
    <2>3. Known(MollieTxn(p), amount)'
        BY <2>2, KnownNext
    <2> QED BY <1>6, <1>7, <2>1, <2>3 DEF SettlesHeld
<1> HIDE DEF T
<1>8. settled' \in Seq(T) /\ RowsKnown'
    BY <1>5, <1>6, <1>7, StepBooks DEF BookStep, BookKept, Moves, Enters, Authorizes
<1> QED BY <1>8 DEF T

-----------------------------------------------------------------------------
\* What a provider announces after a step it announced before, or it has just happened, or it
\* was answered and is repeated.
LEMMA StripeAnnounces ==
    ASSUME Careful, ShopInv, Next, NEW i \in stripeOutbox' \cup stripeDelivered'
    PROVE  /\ i \in Intents
           /\ stripe'[i] = "succeeded"
           /\ i \in stripeOutbox' /\ i \notin stripeOutbox =>
                 /\ UNCHANGED <<order, settled>>
                 /\ order.state # Extra \/ stripe[i] = "created"
<1>1. stripeOutbox \subseteq Intents /\ stripeDelivered \subseteq Intents
    BY DEF ShopInv, TypeOK, StripeType
<1>2. \A j \in stripeOutbox \cup stripeDelivered : stripe'[j] = "succeeded"
    BY <1>1, StripeTyped DEF StripeGrows, ShopInv, AnnouncedIsTrue
<1>3. ASSUME NEW j \in Intents, StripePay(j)
      PROVE  /\ i \in Intents /\ stripe'[i] = "succeeded" /\ UNCHANGED <<order, settled>>
             /\ i \notin stripeOutbox \cup stripeDelivered => stripe[i] = "created"
             /\ i \in stripeOutbox' /\ i \notin stripeOutbox => stripe[i] = "created"
    BY <1>1, <1>2, <1>3 DEF StripePay, bookVars, ShopInv, TypeOK, StripeType
<1>4. ASSUME NEW j \in Intents, StripeRedeliver(j)
      PROVE  /\ i \in stripeOutbox \cup stripeDelivered
             /\ UNCHANGED <<order, settled>> /\ order.state # Extra
    BY <1>4 DEF StripeRedeliver, Careful, Extra
<1>5. CASE StripeServer
    BY <1>1, <1>2, <1>5 DEF StripeServer, StripeWebhook
<1>6. CASE UNCHANGED <<stripeOutbox, stripeDelivered>>
    BY <1>1, <1>2, <1>6
<1> QED BY <1>1, <1>2, <1>3, <1>4, <1>5, <1>6
        DEF Next, Stripe, StripeNext, StripeShopper, CreateStripePaymentIntent, StripeWebhookDies,
            stripeVars, Cashfree, Mollie, Braintree, Shop

\* What Mollie announces after a step is true; what is new in it was not paid before
\* while an additional payment is awaited.
LEMMA MollieAnnounces ==
    ASSUME Careful, ShopInv, Next, NEW e \in mollieOutbox' \cup mollieDelivered'
    PROVE  /\ e.id \in MolliePayments
           /\ mollie'[e.id].status \in {"authorized", "paid"}
           /\ e \in mollieOutbox' /\ e \notin mollieOutbox =>
                 /\ UNCHANGED <<order, settled, authorized>>
                 /\ order.state # Extra \/ mollie[e.id].status # "paid"
<1>1. \A f \in mollieOutbox \cup mollieDelivered :
         /\ f.id \in MolliePayments /\ mollie[f.id].status \in {"authorized", "paid"}
         /\ mollie'[f.id].status \in {"authorized", "paid"}
    BY MollieTyped DEF ShopInv, TypeOK, MollieType, AnnouncedIsTrue, MollieGrows, Announcements
<1>2. ASSUME NEW p \in MolliePayments, NEW from \in {"open", "authorized"},
             NEW to \in {"authorized", "paid"}, MollieStatus(p, from, to)
      PROVE  /\ e.id \in MolliePayments
             /\ mollie'[e.id].status \in {"authorized", "paid"}
             /\ e \in mollieOutbox' /\ e \notin mollieOutbox =>
                   /\ UNCHANGED <<order, settled, authorized>>
                   /\ order.state # Extra \/ mollie[e.id].status # "paid"
    <2>1. CASE e # [id |-> p, of |-> to]
        BY <1>1, <1>2, <2>1 DEF MollieStatus
    <2>2. CASE e = [id |-> p, of |-> to]
        <3>1. e.id = p
            BY <2>2
        <3>2. mollie'[p].status = to /\ mollie[p].status = from
            BY <1>2 DEF MollieStatus, ShopInv, TypeOK, MollieType
        <3>3. UNCHANGED <<order, settled, authorized>>
            BY <1>2 DEF MollieStatus, bookVars
        <3> QED BY <3>1, <3>2, <3>3
    <2> QED BY <1>2, <2>1, <2>2 DEF MollieStatus
<1>3. ASSUME NEW f \in mollieDelivered, MollieRedeliver(f)
      PROVE  /\ e \in mollieOutbox \cup mollieDelivered
             /\ UNCHANGED <<order, settled, authorized>> /\ order.state # Extra
    BY <1>3 DEF MollieRedeliver, Careful, Extra
<1>4. ASSUME NEW a \in Actors, MollieCommit(a) \/ MollieTransition(a)
      PROVE  /\ e.id \in MolliePayments
             /\ mollie'[e.id].status \in {"authorized", "paid"}
             /\ e \in mollieOutbox' => e \in mollieOutbox
    <2>1. a \in MollieServed \cup MollieSettled /\ req[a].calls \subseteq Announcements /\ mollie' = mollie
        BY <1>4, Requests DEF MollieCommit, MollieTransition, MollieAnswer, MollieServed, MollieSettled,
                              ShopInv
    <2>2. \A f \in req[a].calls : f.id \in MolliePayments /\ mollie[f.id].status \in {"authorized", "paid"}
        BY <2>1 DEF ShopInv, AnnouncedIsTrue, Announcements
    <2> QED BY <1>1, <1>4, <2>1, <2>2 DEF MollieCommit, MollieTransition, MollieAnswer
<1>5. CASE UNCHANGED <<mollieOutbox, mollieDelivered>>
    BY <1>1, <1>5
<1> QED BY <1>1, <1>2, <1>3, <1>4, <1>5
        DEF Next, Stripe, Cashfree, Braintree, Shop, Mollie, MollieNext, mollieVars,
            CreateMolliePaymentIntent, MolliePay, MollieAuthorize, MollieCapture, AdminSettlePayment,
            SyncMolliePaymentStatus, SettleFreeOrder, MollieWebhook, MollieRead, MollieEnd,
            MollieSettleExisting, MollieThrows

\* A payment of Mollie is begun for what the order still owes.
LEMMA MollieBegun ==
    ASSUME ShopInv, Next, NEW p \in MolliePayments,
           mollie[p].status = "none", mollie'[p].status # "none"
    PROVE  mollie'[p].amount = Outstanding(order) /\ Outstanding(order) > 0
<1>0. mollie \in [MolliePayments -> MolliePaymentType]
    BY DEF ShopInv, TypeOK, MollieType, MolliePaymentType
<1>1. ASSUME NEW q \in MolliePayments, NEW manual \in BOOLEAN, CreateMolliePaymentIntent(q, manual)
      PROVE  mollie'[p].amount = Outstanding(order) /\ Outstanding(order) > 0
    <2>1. q = p
        BY <1>0, <1>1 DEF CreateMolliePaymentIntent
    <2> QED BY <1>0, <1>1, <2>1 DEF CreateMolliePaymentIntent
<1>2. ASSUME NEW q \in MolliePayments, NEW from \in {"open", "authorized"}, NEW to,
             MollieStatus(q, from, to)
      PROVE  FALSE
    <2>1. mollie'[p].status = mollie[p].status
        BY <1>0, <1>2 DEF MollieStatus
    <2> QED BY <2>1
<1> QED BY <1>1, <1>2, MollieMovesOnly DEF MollieMoves

\* What was announced is true after every step.
LEMMA AnnouncedStays ==
    ASSUME Careful, ShopInv, Next
    PROVE  AnnouncedIsTrue'
<1>1. \A i \in stripeOutbox' \cup stripeDelivered' : stripe'[i] = "succeeded"
    BY StripeAnnounces
<1>2. \A e \in mollieOutbox' \cup mollieDelivered' : mollie'[e.id].status \in {"authorized", "paid"}
    BY MollieAnnounces
<1>3. ASSUME NEW a \in MollieServed \cup MollieSettled
      PROVE  \A e \in req[a].calls : mollie'[e.id].status \in {"authorized", "paid"}
    <2>1. \A e \in req[a].calls : e.id \in MolliePayments
        BY Requests DEF MollieServed, MollieSettled, ShopInv, Announcements
    <2>2. \A e \in req[a].calls : mollie[e.id].status \in {"authorized", "paid"}
        BY <1>3 DEF ShopInv, AnnouncedIsTrue
    <2> QED BY <2>1, <2>2, MollieTyped DEF MollieGrows
<1>5. ASSUME NEW a \in Actors, req'[a].plugin = "mollie"
      PROVE  /\ \A e \in req'[a].calls : mollie'[e.id].status \in {"authorized", "paid"}
             /\ mollie'[req'[a].id].status \in {req'[a].status, "paid"}
    <2>1. CASE a \in MollieServed /\ req'[a] = req[a]
        <3>1. req[a] \in MollieServes
            BY <2>1, Requests DEF MollieServed, ShopInv
        <3>2. req[a].id \in MolliePayments /\ req[a].status \in {"authorized", "paid"}
            BY <3>1 DEF MollieServes
        <3>3. mollie[req[a].id].status \in {req[a].status, "paid"}
            BY <2>1 DEF ShopInv, AnnouncedIsTrue
        <3> QED BY <1>3, <2>1, <3>2, <3>3, MollieTyped DEF MollieGrows
    <2>2. CASE a \notin MollieServed \/ req'[a] # req[a]
        <3>1. /\ mollie' = mollie /\ req'[a].calls \subseteq mollieOutbox
              /\ req'[a].status = mollie[req'[a].id].status
            BY <1>5, <2>2, MollieServing
        <3> QED BY <3>1 DEF ShopInv, AnnouncedIsTrue
    <2> QED BY <2>1, <2>2
<1>6. ASSUME NEW a \in Actors, req'[a].plugin = "mollie settled"
      PROVE  \A e \in req'[a].calls : mollie'[e.id].status \in {"authorized", "paid"}
    BY <1>3, <1>6, MollieSettledServing
<1>4. ASSUME NEW p \in MolliePayments, mollie'[p].status # "none" PROVE mollie'[p].amount > 0
    <2>1. CASE mollie[p].status = "none"
        BY <1>4, <2>1, MollieBegun
    <2>2. CASE mollie[p].status # "none"
        BY <2>2, MollieTyped DEF MollieGrows, ShopInv, AnnouncedIsTrue
    <2> QED BY <2>1, <2>2
<1> QED BY <1>1, <1>2, <1>4, <1>5, <1>6 DEF AnnouncedIsTrue, MollieServed, MollieSettled

\* A payment that is not paid, or not captured, is not in the rows.
LEMMA NotEntered ==
    ASSUME ShopInv
    PROVE  /\ \A i \in Intents : stripe[i] # "succeeded" => Rows(StripeTxn(i)) = {}
           /\ \A p \in MolliePayments : mollie[p].status # "paid" => Rows(MollieTxn(p)) = {}
<1>1. \A n \in DOMAIN settled : \E amount : Known(settled[n].txn, amount)
    BY RowsAreKnown DEF RowsKnown
<1>2. ASSUME NEW i \in Intents, stripe[i] # "succeeded", NEW amount PROVE ~Known(StripeTxn(i), amount)
    BY <1>2, IdsDiffer, IdsAssumption DEF Known
<1>3. ASSUME NEW p \in MolliePayments, mollie[p].status # "paid", NEW amount
      PROVE  ~Known(MollieTxn(p), amount)
    BY <1>3, IdsDiffer, IdsAssumption DEF Known
<1> QED BY <1>1, <1>2, <1>3 DEF Rows

\* The held payment after a step.
LEMMA HeldStays ==
    ASSUME Careful, ShopInv, Next
    PROVE  HeldIsAuthorized' /\ (order'.held = 0 <=> authorized' = {})
<1>0. /\ authorized = {} => order.held = 0
      /\ authorized \subseteq MolliePayments
      /\ \A p \in authorized :
            /\ authorized = {p} /\ order.held = mollie[p].amount
            /\ mollie[p].status \in {"authorized", "paid"}
            /\ Rows(MollieTxn(p)) = {} \/ MollieTxn(p) \in short
    BY DEF ShopInv, HeldIsAuthorized, TypeOK, MollieType
<1>1. \A p \in MolliePayments : mollie[p].status \in {"authorized", "paid"} =>
          /\ mollie'[p].status \in {"authorized", "paid"} /\ mollie'[p].amount = mollie[p].amount
          /\ mollie[p].amount > 0
    BY MollieTyped DEF MollieGrows, ShopInv, AnnouncedIsTrue
<1>2. ASSUME authorized' = authorized, order'.held = order.held,
             \A p \in authorized : Rows(MollieTxn(p))' = {} \/ MollieTxn(p) \in short'
      PROVE  HeldIsAuthorized' /\ (order'.held = 0 <=> authorized' = {})
    <2>1. \A p \in authorized :
             /\ authorized' = {p} /\ order'.held = mollie'[p].amount
             /\ mollie'[p].status \in {"authorized", "paid"}
        BY <1>0, <1>1, <1>2
    <2>2. authorized' = {} => order'.held = 0
        BY <1>0, <1>2
    <2>3. order'.held = 0 => authorized' = {}
        BY <1>2 DEF ShopInv, BooksMatchCharges
    <2>4. \A p \in authorized' : Rows(MollieTxn(p))' = {} \/ MollieTxn(p) \in short'
        BY <1>2
    <2> QED BY <1>2, <2>1, <2>2, <2>3, <2>4 DEF HeldIsAuthorized
<1>3. settled' = settled => \A p : Rows(MollieTxn(p))' = Rows(MollieTxn(p))
    BY DEF Rows
<1>4. ASSUME NEW txn, NEW amount, Enters(txn, amount)
      PROVE  HeldIsAuthorized' /\ (order'.held = 0 <=> authorized' = {})
    <2>1. \A p \in authorized : MollieTxn(p) \in short
        BY <1>4 DEF Enters, ShopInv, CartIsShort, ExtraIsQuiet
    <2>2. \A p \in authorized : MollieTxn(p) \in short'
        BY <1>4, <2>1 DEF Enters
    <2> QED BY <1>2, <1>4, <2>2 DEF Enters
<1>5. ASSUME NEW p \in MolliePayments, Authorizes(p)
      PROVE  HeldIsAuthorized' /\ (order'.held = 0 <=> authorized' = {})
    <2>1. Rows(MollieTxn(p))' = {}
        BY <1>3, <1>5, CartRows DEF Authorizes
    <2>2. mollie[p].amount \in Nat
        BY DEF ShopInv, TypeOK, MollieType
    <2> QED BY <1>1, <1>5, <2>1, <2>2 DEF Authorizes, HeldIsAuthorized
<1>6. ASSUME NEW p \in MolliePayments, SettlesHeld(p)
      PROVE  HeldIsAuthorized' /\ (order'.held = 0 <=> authorized' = {})
    BY <1>6 DEF SettlesHeld, HeldIsAuthorized
<1>7. CASE BookKept \/ Moves
    <2>1. UNCHANGED <<settled, short, authorized>> /\ order'.held = order.held
        BY <1>7 DEF BookKept, Moves
    <2>2. \A p \in authorized : Rows(MollieTxn(p))' = {} \/ MollieTxn(p) \in short'
        BY <1>0, <1>3, <2>1
    <2> QED BY <1>2, <2>1, <2>2
<1> QED BY <1>4, <1>5, <1>6, <1>7, StepBooks DEF BookStep

\* A payment that was begun stays so.
LEMMA BegunStays ==
    ASSUME Careful, ShopInv, Next, NEW txn, Begun(txn)
    PROVE  Begun(txn)'
BY StripeTyped, MollieTyped DEF StripeGrows, MollieGrows, Begun

\* Which payments have fallen short after a step: only one more that was not in the rows.
LEMMA ShortGrows ==
    ASSUME Careful, ShopInv, Next
    PROVE  /\ short \subseteq short'
           /\ \A t \in short' \ short : Begun(t) /\ Rows(t) = {}
<1>1. ASSUME NEW txn, NEW amount, Enters(txn, amount)
      PROVE  /\ short \subseteq short'
             /\ \A t \in short' \ short : Begun(t) /\ Rows(t) = {}
    <2>1. Begun(txn) => txn \notin {Manual, Free}
        BY IdsDiffer, IdsAssumption DEF Begun
    <2> QED BY <1>1, <2>1 DEF Enters
<1>2. ASSUME NEW p \in MolliePayments, Authorizes(p)
      PROVE  /\ short \subseteq short'
             /\ \A t \in short' \ short : Begun(t) /\ Rows(t) = {}
    <2>1. \A t : Rows(t) = {}
        BY <1>2, CartRows DEF Authorizes
    <2>2. Begun(MollieTxn(p))
        BY <1>2 DEF Authorizes, Begun
    <2> QED BY <1>2, <2>1, <2>2 DEF Authorizes
<1>3. ASSUME NEW p \in MolliePayments, SettlesHeld(p) PROVE short' = short
    BY <1>3 DEF SettlesHeld
<1> QED BY <1>1, <1>2, <1>3, StepBooks DEF BookStep, BookKept, Moves

\* The payments that fell short, after a step.
LEMMA ShortStays ==
    ASSUME Careful, ShopInv, Next
    PROVE  ShortIsBegun' /\ short' \subseteq ProviderTxns
<1>1. \A txn \in short' : Begun(txn)
    BY ShortGrows DEF ShopInv, ShortIsBegun
<1>2. \A txn \in short' : Begun(txn)'
    BY <1>1, BegunStays
<1>3. \A txn \in short' : txn \in ProviderTxns
    BY <1>1, IdsDiffer DEF Begun
<1> QED BY <1>2, <1>3 DEF ShortIsBegun

\* A cart whose payments nobody has begun has no payments.
LEMMA UnpaidCart ==
    ASSUME ShopInv, order.state \in ActiveStates, ~Paying
    PROVE  settled = <<>> /\ order.covered = 0 /\ authorized = {}
<1>1. short = {}
    BY DEF ShopInv, ShortIsBegun, Begun, Paying, StripeOpen, MollieOpen
<1>2. DOMAIN settled = {} /\ authorized = {}
    BY <1>1 DEF ShopInv, CartIsShort
<1>3. settled = <<>>
    <2>1. settled \in Seq([txn : Captured \cup {Manual, Free}, amount : Nat])
        BY DEF ShopInv, TypeOK
    <2> QED BY <1>2, <2>1, EmptySeq, LenProperties
<1>4. SettledSum = 0
    <2>1. DOMAIN [i \in DOMAIN settled |-> settled[i].amount] = {}
        BY <1>2
    <2> QED BY <2>1, SumEmpty DEF SettledSum, SumFunction
<1>5. order.held = 0 /\ order.covered = 0
    BY <1>2, <1>4, OrderTyped DEF ShopInv, BooksMatchCharges
<1> QED BY <1>2, <1>3, <1>5

\* The cart after a step.
LEMMA CartStays ==
    ASSUME Careful, ShopInv, Next
    PROVE  CartIsShort'
<1> DEFINE Good == /\ \A i \in DOMAIN settled' : settled'[i].txn \in short'
                   /\ \A p \in authorized' : MollieTxn(p) \in short'
           Empty == settled' = <<>> /\ order'.covered = 0 /\ authorized' = {}
<1>1. SUFFICES /\ order'.state \in ActiveStates => Good
               /\ order'.state = "AddingItems" => Empty
    BY DEF CartIsShort
<1>2. order'.state \in ActiveStates => order.state \in ActiveStates
    BY StepKeepsState, OrderTyped DEF StateKept, OrderShape, OrderType
<1>3. order.state \in ActiveStates =>
          /\ \A i \in DOMAIN settled : settled[i].txn \in short'
          /\ \A p \in authorized : MollieTxn(p) \in short'
    BY ShortGrows DEF ShopInv, CartIsShort
<1>4. settled \in Seq([txn : Captured \cup {Manual, Free}, amount : Nat])
    BY DEF ShopInv, TypeOK
<1>5. ASSUME NEW txn, NEW amount, Enters(txn, amount)
      PROVE  /\ order'.state \in ActiveStates => Good
             /\ order'.state = "AddingItems" => Empty
    <2>1. order'.state \in ActiveStates =>
             order'.state = "ArrangingPayment" /\ txn \in short' /\ authorized' = authorized
        BY <1>5 DEF Enters, ActiveStates, Extra
    <2>2. settled' = Append(settled, Row(txn, amount))
        BY <1>5 DEF Enters
    <2>3. order'.state \in ActiveStates => \A i \in DOMAIN settled' : settled'[i].txn \in short'
        BY <1>2, <1>3, <1>4, <2>1, <2>2, Appended
    <2>4. order'.state # "AddingItems"
        BY <2>1 DEF ActiveStates
    <2> QED BY <1>2, <1>3, <2>1, <2>3, <2>4
<1>6. ASSUME NEW p \in MolliePayments, Authorizes(p)
      PROVE  /\ order'.state \in ActiveStates => Good
             /\ order'.state = "AddingItems" => Empty
    <2>1. authorized' = {p} /\ settled' = settled /\ order.state \in ActiveStates
        BY <1>6 DEF Authorizes, ActiveStates
    <2>2. order'.state \in ActiveStates =>
             order'.state = "ArrangingPayment" /\ MollieTxn(p) \in short'
        BY <1>6 DEF Authorizes, ActiveStates
    <2>3. order'.state # "AddingItems"
        BY <2>2 DEF ActiveStates
    <2> QED BY <1>3, <2>1, <2>2, <2>3
<1>7. ASSUME NEW p \in MolliePayments, SettlesHeld(p)
      PROVE  /\ order'.state \in ActiveStates => Good
             /\ order'.state = "AddingItems" => Empty
    <2>1. /\ settled' = Append(settled, Row(MollieTxn(p), mollie[p].amount))
          /\ authorized = {p} /\ authorized' = {} /\ order'.state # "AddingItems"
        BY <1>7 DEF SettlesHeld
    <2>2. order'.state \in ActiveStates => \A i \in DOMAIN settled' : settled'[i].txn \in short'
        BY <1>2, <1>3, <1>4, <2>1, Appended
    <2> QED BY <2>1, <2>2
<1>8. CASE BookKept \/ Moves
    <2>1. UNCHANGED <<settled, authorized>> /\ order'.covered = order.covered
        BY <1>8 DEF BookKept, Moves
    <2>2. order'.state = "AddingItems" => order.state = "AddingItems" \/ ~Paying
        BY <1>8 DEF BookKept, Moves, ActiveStates, Extra
    <2>3. order'.state = "AddingItems" => Empty
        BY <1>2, <2>1, <2>2, UnpaidCart DEF ShopInv, CartIsShort, ActiveStates
    <2> QED BY <1>2, <1>3, <2>1, <2>3
<1> HIDE DEF Good, Empty
<1> QED BY <1>5, <1>6, <1>7, <1>8, StepBooks DEF BookStep

\* At most one Cashfree request after a step.
LEMMA OneCashfreeStays ==
    ASSUME Careful, ShopInv, Next
    PROVE  OneCashfree'
<1> SUFFICES ASSUME NEW a \in Actors, req'[a].plugin = "cashfree",
                    NEW b \in Actors, req'[b].plugin = "cashfree"
             PROVE  a \in Workers /\ a = b
    BY DEF OneCashfree, CashfreeServed
<1>1. CASE a \in CashfreeServed /\ b \in CashfreeServed
    BY <1>1 DEF ShopInv, OneCashfree
<1>2. CASE a \notin CashfreeServed
    <2>1. /\ a \in Workers /\ CashfreeServed = {}
          /\ \A c \in Actors : c # a => req'[c] = req[c]
        BY <1>2, CashfreeServing
    <2>2. b # a => b \in CashfreeServed
        BY <2>1 DEF CashfreeServed
    <2> QED BY <2>1, <2>2
<1>3. CASE a \in CashfreeServed /\ b \notin CashfreeServed
    BY <1>3, CashfreeServing
<1> QED BY <1>1, <1>2, <1>3

\* The first part of BooksMatchCharges.
RowsCharged ==
    \A i \in DOMAIN settled :
        settled[i].txn \in Captured => settled[i].amount = Charged(settled[i].txn)

\* The rows of captured transactions are of the amounts that were charged.
LEMMA RowsAreCharged == RowsKnown /\ KnownIsCharged => RowsCharged
BY DEF RowsKnown, KnownIsCharged, RowsCharged

\* What the books say after a step.
LEMMA BooksStay ==
    ASSUME Careful, ShopInv, Next
    PROVE  BooksMatchCharges'
<1> DEFINE S == [txn : Captured \cup {Manual, Free}, amount : Nat]
<1>1. /\ settled \in Seq(S) /\ order.covered - order.held = SettledSum
      /\ order.covered \in Nat /\ order.held \in Nat
    BY OrderTyped DEF ShopInv, TypeOK, BooksMatchCharges
<1>2. ASSUME UNCHANGED settled, order'.covered = order.covered, order'.held = order.held
      PROVE  order'.covered - order'.held = SettledSum'
    BY <1>1, <1>2 DEF SettledSum
<1>3. ASSUME NEW txn, NEW amount \in Nat, settled' = Append(settled, Row(txn, amount)),
             order'.covered - order'.held = (order.covered - order.held) + amount
      PROVE  order'.covered - order'.held = SettledSum'
    BY <1>1, <1>3, SumAfter
<1>4. ASSUME NEW txn, NEW amount \in Nat, Enters(txn, amount)
      PROVE  order'.covered - order'.held = SettledSum'
    <2>1. order'.covered - order'.held = (order.covered - order.held) + amount
        BY <1>1, <1>4 DEF Enters
    <2> QED BY <1>3, <1>4, <2>1 DEF Enters
<1>5. ASSUME NEW p \in MolliePayments, Authorizes(p)
      PROVE  order'.covered - order'.held = SettledSum'
    <2>1. order.covered = 0 /\ order.held = 0
        BY <1>5, CartRows DEF Authorizes
    <2>2. mollie[p].amount \in Nat
        BY DEF ShopInv, TypeOK, MollieType
    <2>3. order'.covered - order'.held = 0 /\ SettledSum = 0 /\ settled' = settled
        BY <1>1, <1>5, <2>1, <2>2 DEF Authorizes
    <2> QED BY <2>3 DEF SettledSum
<1>6. ASSUME NEW p \in MolliePayments, SettlesHeld(p)
      PROVE  order'.covered - order'.held = SettledSum'
    <2>1. PICK amount : amount = mollie[p].amount
        OBVIOUS
    <2>2. amount \in Nat /\ order.held = amount
        BY <1>6, <2>1 DEF ShopInv, TypeOK, MollieType, HeldIsAuthorized, SettlesHeld
    <2>3. order'.covered - order'.held = (order.covered - order.held) + amount
        BY <1>1, <1>6, <2>2 DEF SettlesHeld
    <2> QED BY <1>3, <1>6, <2>1, <2>2, <2>3 DEF SettlesHeld
<1>7. order'.covered - order'.held = SettledSum'
    BY <1>2, <1>4, <1>5, <1>6, StepBooks DEF BookStep, BookKept, Moves
<1>8. RowsKnown' /\ KnownIsCharged'
    <2>1. KnownIsCharged'
        BY KnownMeans, PTL
    <2> QED BY <2>1, SettledTyped
<1>9. RowsCharged'
    <2>1. RowsKnown' /\ KnownIsCharged' => RowsCharged'
        BY RowsAreCharged, PTL
    <2> QED BY <1>8, <2>1
<1> QED BY <1>7, <1>9, HeldStays DEF BooksMatchCharges, RowsCharged

\* The rows that a step can enter while an additional payment is awaited.
ExtraRows ==
    /\ authorized' = authorized
    /\ \/ UNCHANGED <<settled>>
       \/ \E i \in Intents, amount \in Nat :
             /\ settled' = Append(settled, Row(StripeTxn(i), amount))
             /\ stripeOutbox' = stripeOutbox \ {i}

\* How the order comes to wait for an additional payment, or goes on waiting for it.
LEMMA ExtraSteps ==
    ASSUME Careful, ShopInv, Next, order'.state = Extra
    PROVE  \/ order.state = Extra /\ ExtraRows
           \/ ~Busy /\ UNCHANGED <<settled, authorized, stripeOutbox, mollieOutbox, req>>
<1>1. ASSUME NEW txn, NEW amount \in Nat, Enters(txn, amount)
      PROVE  order.state = Extra /\ ExtraRows
    BY <1>1 DEF Enters, Extra, ExtraRows
<1>2. CASE BookKept
    BY <1>2 DEF BookKept, ExtraRows
<1>3. CASE Moves
    BY <1>3 DEF Moves, ActiveStates, Extra
<1>4. ASSUME NEW p \in MolliePayments, Authorizes(p) \/ SettlesHeld(p) PROVE FALSE
    BY <1>4 DEF Authorizes, SettlesHeld, Extra
<1> QED BY <1>1, <1>2, <1>3, <1>4, StepBooks DEF BookStep

\* In that state, a step changes the rows of one payment at most: one that Stripe announced.
LEMMA ExtraKeepsRows ==
    ASSUME ShopInv, ExtraRows
    PROVE  /\ \A i \in stripeOutbox' : Rows(StripeTxn(i))' = Rows(StripeTxn(i))
           /\ \A p : Rows(MollieTxn(p))' = Rows(MollieTxn(p))
           /\ Rows(CashfreeTxn)' = Rows(CashfreeTxn)
<1>1. CASE UNCHANGED settled
    BY <1>1 DEF Rows
<1>2. ASSUME NEW i \in Intents, NEW amount \in Nat,
             settled' = Append(settled, Row(StripeTxn(i), amount)),
             stripeOutbox' = stripeOutbox \ {i}
      PROVE  /\ \A j \in stripeOutbox' : Rows(StripeTxn(j))' = Rows(StripeTxn(j))
             /\ \A p : Rows(MollieTxn(p))' = Rows(MollieTxn(p))
             /\ Rows(CashfreeTxn)' = Rows(CashfreeTxn)
    <2>1. \A t : t # StripeTxn(i) => Rows(t)' = Rows(t)
        BY <1>2, RowsAfter DEF ShopInv, TypeOK
    <2>2. \A j \in stripeOutbox' : StripeTxn(j) # StripeTxn(i)
        BY <1>2, IdsDiffer
    <2> QED BY <2>1, <2>2, IdsDiffer
<1> QED BY <1>1, <1>2 DEF ExtraRows

\* The quiet of an order that waits for an additional payment, after a step.
LEMMA ExtraStays ==
    ASSUME Careful, ShopInv, Next
    PROVE  ExtraIsQuiet'
<1>1. ASSUME order'.state = Extra, order.state = Extra, ExtraRows
      PROVE  /\ authorized' = {}
             /\ \A i \in stripeOutbox' : Rows(StripeTxn(i))' = {}
             /\ \A e \in mollieOutbox' : Rows(MollieTxn(e.id))' = {}
             /\ \A a \in Actors : req'[a].plugin = "cashfree" /\ ~req'[a].paid
                                     => Rows(CashfreeTxn)' = {}
             /\ \A a \in Actors : req'[a].plugin = "mollie" => req'[a].state = Extra
    <2>0. /\ authorized = {}
          /\ \A i \in stripeOutbox : Rows(StripeTxn(i)) = {}
          /\ \A e \in mollieOutbox : Rows(MollieTxn(e.id)) = {}
          /\ \A a \in CashfreeServed : ~req[a].paid => Rows(CashfreeTxn) = {}
          /\ \A a \in MollieServed : req[a].state = Extra
        BY <1>1 DEF ShopInv, ExtraIsQuiet
    <2>1. authorized' = {}
        BY <1>1, <2>0 DEF ExtraRows
    <2>2. ASSUME NEW i \in stripeOutbox' PROVE Rows(StripeTxn(i))' = {}
        <3>1. Rows(StripeTxn(i)) = {}
            BY <1>1, <2>0, StripeAnnounces, NotEntered
        <3> QED BY <1>1, <3>1, ExtraKeepsRows
    <2>3. ASSUME NEW p, NEW e \in mollieOutbox', e.id = p PROVE Rows(MollieTxn(p))' = {}
        <3>1. Rows(MollieTxn(p)) = {}
            BY <1>1, <2>0, <2>3, MollieAnnounces, NotEntered
        <3> QED BY <1>1, <3>1, ExtraKeepsRows
    <2>4. ASSUME NEW a \in Actors, req'[a].plugin = "cashfree", ~req'[a].paid
          PROVE  Rows(CashfreeTxn)' = {}
        <3>1. Rows(CashfreeTxn) = {}
            BY <2>0, <2>4, CashfreeServing
        <3> QED BY <1>1, <3>1, ExtraKeepsRows
    <2>5. ASSUME NEW a \in Actors, req'[a].plugin = "mollie" PROVE req'[a].state = Extra
        BY <1>1, <2>0, <2>5, MollieServing
    <2>6. \A e \in mollieOutbox' : Rows(MollieTxn(e.id))' = {}
        BY <2>3
    <2> QED BY <2>1, <2>2, <2>4, <2>5, <2>6
<1>2. ASSUME order'.state = Extra, ~Busy,
             UNCHANGED <<settled, authorized, stripeOutbox, mollieOutbox, req>>
      PROVE  /\ authorized' = {}
             /\ \A i \in stripeOutbox' : Rows(StripeTxn(i))' = {}
             /\ \A e \in mollieOutbox' : Rows(MollieTxn(e.id))' = {}
             /\ \A a \in Actors : req'[a].plugin = "cashfree" /\ ~req'[a].paid
                                     => Rows(CashfreeTxn)' = {}
             /\ \A a \in Actors : req'[a].plugin = "mollie" => req'[a].state = Extra
    <2>1. authorized = {} /\ stripeOutbox = {} /\ mollieOutbox = {}
        BY <1>2 DEF Busy
    <2>2. \A a \in Actors : req[a].plugin = "none"
        BY <1>2, PluginNames DEF Busy
    <2> QED BY <1>2, <2>1, <2>2
<1>3. ASSUME NEW a \in Actors, req'[a].plugin = "mollie", req'[a].state = Extra
      PROVE  ~req'[a].known
    <2>1. CASE a \in MollieServed /\ req'[a] = req[a]
        BY <1>3, <2>1 DEF ShopInv, ExtraIsQuiet
    <2>2. CASE a \notin MollieServed \/ req'[a] # req[a]
        <3>1. /\ req'[a].state = order.state
              /\ req'[a].known <=> (req'[a].id \in authorized \/ Rows(MollieTxn(req'[a].id)) # {})
              /\ order.state = Extra => \E e \in mollieOutbox : e.id = req'[a].id
            BY <1>3, <2>2, MollieServing
        <3>2. authorized = {} /\ Rows(MollieTxn(req'[a].id)) = {}
            BY <1>3, <3>1 DEF ShopInv, ExtraIsQuiet
        <3> QED BY <3>1, <3>2
    <2> QED BY <2>1, <2>2
<1> QED BY <1>1, <1>2, <1>3, ExtraSteps DEF ExtraIsQuiet, CashfreeServed, MollieServed

UsedType ==
    [checkouts : 0..MaxCheckouts, edits : 0..MaxEdits,
     modify : 0..MaxModify, faults : 0..MaxFaults]

\* The counters and the switch of the payment methods.
LEMMA BookRestTyped ==
    ASSUME ShopInv, Next
    PROVE  enabled' \in BOOLEAN
           /\ used' \in UsedType
<1>1. /\ enabled \in BOOLEAN
      /\ used \in UsedType
    BY DEF ShopInv, TypeOK, BookType, UsedType
<1>2. enabled' \in BOOLEAN
    <2>1. enabled' \in {enabled, TRUE, FALSE}
        BY DEF Next, Stripe, StripeNext, StripeShopper, StripeServer, StripeWebhook,
               CreateStripePaymentIntent, StripePay, StripeRedeliver, StripeWebhookDies,
               Cashfree, CashfreeNext, CreateCashfreeOrder, CashfreePay, CashfreeRedeliver,
               CashfreeAddPayment, CashfreeServer, CashfreeRead, CashfreeCommit, CashfreeThrows,
           CashfreeDies,
               Mollie, MollieNext, CreateMolliePaymentIntent, MollieStatus, MolliePay, MollieAuthorize,
               MollieCapture, MollieRedeliver, AdminSettlePayment, SettleFreeOrder, MollieWebhook,
               SyncMolliePaymentStatus, MollieRead, MollieEnd, MollieThrows,
               MollieCommit, MollieSettleExisting, MollieTransition, MollieAnswer,
               Braintree, BraintreeNext, BraintreeAddPayment,
               BraintreeAddPaymentDies, Shop, EditOrder, ModifyOrder, EnterCheckout, LeaveCheckout,
               ManualPayment, CancelOrder, DisableMethods, EnableMethods, RequestDies, Checkout, bookVars
    <2> QED BY <1>1, <2>1
<1>3. \/ used' = used
      \/ used.checkouts < MaxCheckouts /\ used' = [used EXCEPT !.checkouts = @ + 1]
      \/ used.faults < MaxFaults /\ used' = [used EXCEPT !.faults = @ + 1]
      \/ used.edits < MaxEdits /\ used' = [used EXCEPT !.edits = @ + 1]
      \/ used.modify < MaxModify /\ used' = [used EXCEPT !.modify = @ + 1]
    BY DEF Next, Stripe, StripeNext, StripeShopper, StripeServer, StripeWebhook,
           CreateStripePaymentIntent, StripePay, StripeRedeliver, StripeWebhookDies,
           Cashfree, CashfreeNext, CreateCashfreeOrder, CashfreePay, CashfreeRedeliver,
           CashfreeAddPayment, CashfreeServer, CashfreeRead, CashfreeCommit, CashfreeThrows,
           CashfreeDies,
           Mollie, MollieNext, CreateMolliePaymentIntent, MollieStatus, MolliePay, MollieAuthorize,
           MollieCapture, MollieRedeliver, AdminSettlePayment, SettleFreeOrder, MollieWebhook,
           SyncMolliePaymentStatus, MollieRead, MollieEnd, MollieThrows,
           MollieCommit, MollieSettleExisting, MollieTransition, MollieAnswer,
           Braintree, BraintreeNext, BraintreeAddPayment,
           BraintreeAddPaymentDies, Shop, EditOrder, ModifyOrder, EnterCheckout, LeaveCheckout,
           ManualPayment, CancelOrder, DisableMethods, EnableMethods, RequestDies, Checkout, bookVars, Fault
<1>4. ASSUME used.faults < MaxFaults, used' = [used EXCEPT !.faults = @ + 1]
      PROVE  used' \in UsedType
    BY <1>1, <1>4, BoundsAssumption DEF UsedType
<1>5. ASSUME used.edits < MaxEdits, used' = [used EXCEPT !.edits = @ + 1]
      PROVE  used' \in UsedType
    BY <1>1, <1>5, BoundsAssumption DEF UsedType
<1>6. ASSUME used.modify < MaxModify, used' = [used EXCEPT !.modify = @ + 1]
      PROVE  used' \in UsedType
    BY <1>1, <1>6, BoundsAssumption DEF UsedType
<1>7. ASSUME used.checkouts < MaxCheckouts, used' = [used EXCEPT !.checkouts = @ + 1]
      PROVE  used' \in UsedType
    BY <1>1, <1>7, BoundsAssumption DEF UsedType
<1> QED BY <1>1, <1>2, <1>3, <1>4, <1>5, <1>6, <1>7

-----------------------------------------------------------------------------
\* The shop begins with nothing paid, nothing announced and nothing entered.
LEMMA ShopInit ==
    ASSUME Init
    PROVE  ShopInv
<1> USE DEF Init, BookInit, StripeInit, CashfreeInit, MollieInit, BraintreeInit
<1>1. /\ order.state = "AddingItems" /\ order.total \in Totals
      /\ order.covered = 0 /\ order.held = 0
    OBVIOUS
<1>2. BookType
    <2>1. order \in [state : OrderStates, total : Totals, covered : Nat, held : Nat]
        BY DEF OrderStates
    <2> QED BY <2>1, BoundsAssumption DEF BookType
<1>3. StripeType /\ CashfreeType /\ MollieType /\ BraintreeType
    BY DEF StripeType, CashfreeType, MollieType, BraintreeType
<1>4. settled = <<>> /\ settled \in Seq([txn : Captured \cup {Manual, Free}, amount : Nat])
    OBVIOUS
<1>5. req \in [Actors -> {Idle} \cup CashfreeRequests \cup MollieRequests]
    OBVIOUS
<1>6. \A a \in Actors : req[a].plugin = "none"
    BY PluginNames
<1>7. CashfreeServed = {} /\ MollieServed = {} /\ MollieSettled = {}
    BY <1>6 DEF CashfreeServed, MollieServed, MollieSettled
<1>8. AnnouncedIsTrue /\ HeldIsAuthorized /\ ExtraIsQuiet /\ OneCashfree
    BY <1>1, <1>7 DEF AnnouncedIsTrue, HeldIsAuthorized, ExtraIsQuiet, OneCashfree, Extra
<1>9. CartIsShort /\ ShortIsBegun /\ short \subseteq ProviderTxns
    <2>1. DOMAIN settled = {}
        BY <1>4
    <2> QED BY <1>1, <2>1 DEF CartIsShort, ShortIsBegun
<1>10. SettledSum = 0
    <2>1. DOMAIN settled = {} /\ DOMAIN [i \in DOMAIN settled |-> settled[i].amount] = {}
        BY <1>4
    <2> QED BY <2>1, SumEmpty DEF SettledSum, SumFunction
<1>11. BooksMatchCharges
    <2>1. DOMAIN settled = {}
        BY <1>4
    <2> QED BY <1>1, <1>10, <2>1 DEF BooksMatchCharges
<1> QED BY <1>2, <1>3, <1>4, <1>5, <1>8, <1>9, <1>11 DEF ShopInv, TypeOK

\* Every step of the shop keeps the invariant.
LEMMA ShopNext ==
    ASSUME Careful, ShopInv, Next
    PROVE  ShopInv'
<1>1. BookType'
    <2>1. order' \in OrderType
        BY StepBooks DEF BookStep
    <2> QED BY <2>1, BookRestTyped DEF BookType, OrderType, UsedType
<1>2. TypeOK'
    BY <1>1, StripeTyped, CashfreeTyped, MollieTyped, BraintreeTyped, SettledTyped, RequestsTyped,
       ShortStays
    DEF TypeOK, RequestType
<1> QED BY <1>2, AnnouncedStays, HeldStays, CartStays, ShortStays, ExtraStays, OneCashfreeStays,
           BooksStay
        DEF ShopInv

\* A step that changes nothing keeps the invariant.
LEMMA ShopStutters ==
    ASSUME ShopInv, UNCHANGED vars
    PROVE  ShopInv'
<1> USE DEF vars, bookVars, stripeVars, cashfreeVars, mollieVars
<1>1. (BookType /\ StripeType /\ CashfreeType /\ MollieType /\ BraintreeType)'
    BY DEF ShopInv, TypeOK, BookType, StripeType, CashfreeType, MollieType, BraintreeType
<1>2. Captured' = Captured
    BY DEF Captured, Backed, StripeCaptured, CashfreeCaptured, MollieCaptured, MolliePaid,
           BraintreeCaptured
<1>3. TypeOK'
    BY <1>1, <1>2 DEF ShopInv, TypeOK
<1>4. \A t : Rows(t)' = Rows(t)
    BY DEF Rows
<1>5. CashfreeServed' = CashfreeServed /\ MollieServed' = MollieServed
      /\ MollieSettled' = MollieSettled
    BY DEF CashfreeServed, MollieServed, MollieSettled
<1>6. AnnouncedIsTrue'
    BY <1>5 DEF ShopInv, AnnouncedIsTrue
<1>7. HeldIsAuthorized'
    BY <1>4 DEF ShopInv, HeldIsAuthorized
<1>8. CartIsShort' /\ ShortIsBegun'
    BY DEF ShopInv, CartIsShort, ShortIsBegun, Begun
<1>9. ExtraIsQuiet'
    BY <1>4, <1>5 DEF ShopInv, ExtraIsQuiet
<1>10. OneCashfree'
    BY <1>5 DEF ShopInv, OneCashfree
<1>11. SettledSum' = SettledSum
    BY DEF SettledSum
<1>12. \A t : Charged(t)' = Charged(t)
    BY DEF Charged, StripeCaptured, CashfreeCaptured, MollieCaptured, MolliePaid, BraintreeCaptured
<1>13. \A i \in DOMAIN settled : Charged(settled[i].txn)' = Charged(settled[i].txn)
    BY <1>12
<1>14. BooksMatchCharges'
    BY <1>2, <1>11, <1>13 DEF ShopInv, BooksMatchCharges
<1> QED BY <1>3, <1>6, <1>7, <1>8, <1>9, <1>10, <1>14 DEF ShopInv

\* ShopInv is an invariant of the order that four plugins settle, however its contents change
\* while it is paid, when the storefront leaves it in the checkout, an order is modified only
\* when nothing is on its way, and Cashfree does not repeat an event that is being served.
THEOREM ShopInvariant == Careful => (Spec => []ShopInv)
<1> SUFFICES ASSUME Careful PROVE Spec => []ShopInv
    OBVIOUS
<1>1. Init => ShopInv
    BY ShopInit
<1>2. ShopInv /\ [Next]_vars => ShopInv'
    BY ShopNext, ShopStutters
<1> QED BY <1>1, <1>2, PTL DEF Spec

\* Under the same assumptions, every variable of the four plugins and of the order keeps its
\* type: a row names a payment that its provider took, no sum is negative.
THEOREM ShopTypes == Careful => (Spec => []TypeOK)
<1> SUFFICES ASSUME Careful PROVE Spec => []TypeOK
    OBVIOUS
<1>1. ShopInv => TypeOK
    BY DEF ShopInv
<1> QED BY <1>1, ShopInvariant, PTL

\* Under the same assumptions, every row says what its provider charged, whatever the unit of
\* the currency, and what the order counts as covered is the sum of its rows and of what is held.
THEOREM BooksAreRight == Careful => (Spec => []BooksMatchCharges)
<1> SUFFICES ASSUME Careful PROVE Spec => []BooksMatchCharges
    OBVIOUS
<1>1. ShopInv => BooksMatchCharges
    BY DEF ShopInv
<1> QED BY <1>1, ShopInvariant, PTL

\* Under the same assumptions, the money of a payment is never both held and settled, unless
\* the payment fell short of the order when it was entered: then it is entered once more.
THEOREM MoneyCountsOnce == Careful => (Spec => []HeldOrSettled)
<1> SUFFICES ASSUME Careful PROVE Spec => []HeldOrSettled
    OBVIOUS
<1>1. ShopInv => HeldOrSettled
    BY DEF ShopInv, HeldIsAuthorized, HeldOrSettled
<1> QED BY <1>1, ShopInvariant, PTL

-----------------------------------------------------------------------------
\* The entry of a row after a step.
EntryAfter(txn) == IF txn = Free \/ txn \in short' THEN Manual ELSE txn

\* The rows there are stay the entries they are.
LEMMA EntriesStay ==
    ASSUME Careful, ShopInv, Next
    PROVE  \A i \in DOMAIN settled : EntryAfter(settled[i].txn) = Entry(settled[i].txn)
<1>1. \A i \in DOMAIN settled : settled[i].txn \in short' => settled[i].txn \in short
    BY ShortGrows DEF Rows
<1> QED BY <1>1, ShortGrows DEF Entry, EntryAfter

\* A row that is entered is an entry of the ledger.
LEMMA BookAfter ==
    ASSUME NEW S, settled \in Seq(S), NEW txn, NEW amount,
           settled' = Append(settled, Row(txn, amount)),
           \A i \in DOMAIN settled : EntryAfter(settled[i].txn) = Entry(settled[i].txn)
    PROVE  Book' = Append(Book, EntryAfter(txn))
<1> DEFINE n == Len(settled)
           V == {Entry(settled[i].txn) : i \in 1..n} \cup {EntryAfter(txn)}
<1>0. Book' = [i \in DOMAIN settled' |-> EntryAfter(settled'[i].txn)]
    BY DEF Book, Entry, EntryAfter
<1>1. /\ DOMAIN settled = 1..n /\ n \in Nat /\ n + 1 \notin DOMAIN settled
      /\ DOMAIN settled' = DOMAIN settled \cup {n + 1}
      /\ \A i \in DOMAIN settled : settled'[i] = settled[i]
      /\ settled'[n + 1].txn = txn
    BY Appended
<1>2. 1..n \cup {n + 1} = 1..n + 1
    BY <1>1
<1>3. Book \in [1..n -> V] /\ Book' \in [1..n + 1 -> V]
    <2>1. Book \in [1..n -> V]
        BY <1>1 DEF Book
    <2>2. \A i \in 1..n : EntryAfter(settled'[i].txn) \in V
        BY <1>1
    <2>3. EntryAfter(settled'[n + 1].txn) \in V
        BY <1>1
    <2>4. \A i \in 1..n + 1 : EntryAfter(settled'[i].txn) \in V
        BY <1>2, <2>2, <2>3
    <2>5. Book' = [i \in 1..n + 1 |-> EntryAfter(settled'[i].txn)]
        BY <1>0, <1>1, <1>2
    <2> HIDE DEF V
    <2> QED BY <2>1, <2>4, <2>5
<1>4. Book \in Seq(V) /\ Book' \in Seq(V)
    <2>1. ASSUME NEW T, NEW m \in Nat, NEW f \in [1..m -> T] PROVE f \in Seq(T)
        BY SeqDef
    <2>2. n + 1 \in Nat
        BY <1>1
    <2> HIDE DEF V
    <2>3. Book \in Seq(V)
        BY <1>1, <1>3, <2>1
    <2>4. Book' \in Seq(V)
        BY <1>3, <2>1, <2>2
    <2> QED BY <2>3, <2>4
<1>5. Len(Book) = n /\ Len(Book') = n + 1
    BY <1>1, <1>3, <1>4, LenProperties
<1>6. /\ EntryAfter(txn) \in V
      /\ \A i \in 1..n : Book'[i] = Book[i]
      /\ Book'[n + 1] = EntryAfter(txn)
    BY <1>0, <1>1, <1>2 DEF Book
<1> HIDE DEF n, V
<1> DEFINE t == Append(Book, EntryAfter(txn))
<1>7. t \in Seq(V) /\ Len(t) = n + 1 /\ t[n + 1] = EntryAfter(txn)
      /\ \A i \in 1..n : t[i] = Book[i]
    BY <1>1, <1>4, <1>5, <1>6
<1>8. \A i \in 1..Len(Book') : Book'[i] = t[i]
    BY <1>1, <1>5, <1>6, <1>7
<1> HIDE DEF t
<1>9. Book' = t
    BY <1>4, <1>5, <1>7, <1>8, SeqEqual
<1> QED BY <1>9 DEF t

\* How the money that the providers took changes with the books.
LEMMA CaptureSteps ==
    ASSUME Careful, ShopInv, Next
    PROVE  \/ Captured' = Captured
           \/ \E t \in ProviderTxns : Captured' = Captured \cup {t} /\ UNCHANGED <<settled, short>>
           \/ \E t \in ProviderTxns : \E amount :
                 /\ Captured' = Captured \cup {t} /\ t \notin Captured
                 /\ settled' = Append(settled, Row(t, amount)) /\ Rows(t) = {}
                 /\ t \notin short /\ short' = short
<1>1. CASE Stripe
    <2>1. UNCHANGED <<CashfreeCaptured, MollieCaptured, BraintreeCaptured>>
        BY <1>1 DEF Stripe, cashfreeVars, mollieVars, CashfreeCaptured, MollieCaptured, MolliePaid,
            BraintreeCaptured
    <2>2. ASSUME NEW i \in Intents, StripePay(i)
          PROVE  StripeCaptured' = StripeCaptured \cup {StripeTxn(i)} /\ UNCHANGED <<settled, short>>
        <3>1. \A j \in Intents : stripe'[j] = "succeeded" <=> (stripe[j] = "succeeded" \/ j = i)
            BY <2>2 DEF StripePay, ShopInv, TypeOK, StripeType
        <3> QED BY <2>2, <3>1 DEF StripePay, bookVars, StripeCaptured
    <2>3. CASE CreateStripePaymentIntent
        <3>1. \A j \in Intents : stripe'[j] = "succeeded" <=> stripe[j] = "succeeded"
            BY <2>3 DEF CreateStripePaymentIntent, ShopInv, TypeOK, StripeType
        <3> QED BY <2>1, <3>1 DEF StripeCaptured, Captured, Backed
    <2>4. CASE stripe' = stripe
        BY <2>1, <2>4 DEF StripeCaptured, Captured, Backed
    <2>5. ASSUME NEW i \in Intents, StripePay(i)
          PROVE  \E t \in ProviderTxns : Captured' = Captured \cup {t} /\ UNCHANGED <<settled, short>>
        <3>1. StripeTxn(i) \in ProviderTxns
            BY <2>5, IdsDiffer
        <3>2. Captured' = Captured \cup {StripeTxn(i)} /\ UNCHANGED <<settled, short>>
            BY <2>1, <2>2, <2>5 DEF Captured, Backed
        <3> QED BY <3>1, <3>2
    <2> QED BY <1>1, <2>3, <2>4, <2>5
            DEF Stripe, StripeNext, StripeShopper, StripeServer, StripeWebhook, StripeRedeliver,
                StripeWebhookDies, stripeVars
<1>2. CASE Cashfree
    <2>1. UNCHANGED <<StripeCaptured, MollieCaptured, BraintreeCaptured>>
        BY <1>2 DEF Cashfree, stripeVars, mollieVars, StripeCaptured, MollieCaptured, MolliePaid,
            BraintreeCaptured
    <2>2. CASE CashfreePay
        <3>1. CashfreeCaptured' = CashfreeCaptured \cup {CashfreeTxn} /\ UNCHANGED <<settled, short>>
            BY <2>2 DEF CashfreePay, bookVars, CashfreeCaptured, ShopInv, TypeOK, CashfreeType
        <3>2. Captured' = Captured \cup {CashfreeTxn}
            BY <2>1, <3>1 DEF Captured, Backed
        <3> QED BY <3>1, <3>2, IdsDiffer
    <2>3. CASE cashfree' = cashfree \/ CreateCashfreeOrder
        <3>1. CashfreeCaptured' = CashfreeCaptured
            BY <2>3 DEF CashfreeCaptured, CreateCashfreeOrder
        <3> QED BY <2>1, <3>1 DEF Captured, Backed
    <2> QED BY <1>2, <2>2, <2>3
            DEF Cashfree, CashfreeNext, CashfreeRedeliver, CashfreeAddPayment, CashfreeServer,
                CashfreeRead, CashfreeCommit, CashfreeThrows, CashfreeDies, cashfreeVars
<1>3. CASE Mollie
    <2>1. UNCHANGED <<StripeCaptured, CashfreeCaptured, BraintreeCaptured>>
        BY <1>3 DEF Mollie, stripeVars, cashfreeVars, StripeCaptured, CashfreeCaptured,
            BraintreeCaptured
    <2>2. CASE mollie' = mollie
        BY <2>1, <2>2 DEF MollieCaptured, MolliePaid, Captured, Backed
    <2>3. ASSUME NEW p \in MolliePayments, NEW manual \in BOOLEAN, CreateMolliePaymentIntent(p, manual)
          PROVE  Captured' = Captured
        <3>1. \A q \in MolliePayments : mollie'[q].status = "paid" <=> mollie[q].status = "paid"
            BY <2>3 DEF CreateMolliePaymentIntent, ShopInv, TypeOK, MollieType
        <3> QED BY <2>1, <3>1 DEF MollieCaptured, MolliePaid, Captured, Backed
    <2>4. ASSUME NEW p \in MolliePayments, NEW from \in {"open", "authorized"},
                 NEW to \in {"authorized", "paid"}, MollieStatus(p, from, to)
          PROVE  \/ Captured' = Captured
                 \/ \E t \in ProviderTxns : Captured' = Captured \cup {t} /\ UNCHANGED <<settled, short>>
        <3>1. /\ mollie'[p].status = to /\ mollie[p].status = from
              /\ \A q \in MolliePayments : q # p => mollie'[q] = mollie[q]
            BY <2>4 DEF MollieStatus, ShopInv, TypeOK, MollieType
        <3>2. UNCHANGED <<settled, short>> /\ MollieTxn(p) \in ProviderTxns
            BY <2>4, IdsDiffer DEF MollieStatus, bookVars
        <3>3. CASE to = "paid"
            <4>1. MolliePaid' = MolliePaid \cup {p}
                BY <3>1, <3>3 DEF MolliePaid
            <4>2. MollieCaptured' = MollieCaptured \cup {MollieTxn(p)}
                BY <4>1 DEF MollieCaptured
            <4>3. Captured' = Captured \cup {MollieTxn(p)}
                BY <2>1, <4>2 DEF Captured, Backed
            <4> QED BY <3>2, <4>3
        <3>4. CASE to = "authorized"
            <4>1. MolliePaid' = MolliePaid
                BY <3>1, <3>4 DEF MolliePaid
            <4> QED BY <2>1, <4>1 DEF MollieCaptured, Captured, Backed
        <3> QED BY <3>3, <3>4
    <2> QED BY <2>2, <2>3, <2>4, MollieMovesOnly DEF MollieMoves
<1>4. CASE Braintree
    <2>1. UNCHANGED <<StripeCaptured, CashfreeCaptured, MollieCaptured>>
        BY <1>4 DEF Braintree, stripeVars, cashfreeVars, mollieVars, StripeCaptured,
            CashfreeCaptured, MollieCaptured, MolliePaid
    <2>2. ASSUME NEW s \in Sales, Sale(s)
          PROVE  Captured' = Captured \cup {BraintreeTxn(s)} /\ BraintreeTxn(s) \notin Captured
                 /\ BraintreeTxn(s) \in ProviderTxns
        <3>1. Outstanding(order) \in Int
            BY OrderTyped, OutstandingCovers
        <3>2. \A b \in Sales : braintree'[b] > 0 <=> (braintree[b] > 0 \/ b = s)
            BY <2>2, <3>1 DEF Sale, ShopInv, TypeOK, BraintreeType
        <3>3. BraintreeCaptured' = BraintreeCaptured \cup {BraintreeTxn(s)}
            BY <2>2, <3>2 DEF BraintreeCaptured
        <3>4. BraintreeTxn(s) \notin BraintreeCaptured
            BY <2>2, IdsDiffer DEF BraintreeCaptured, Sale
        <3>5. /\ BraintreeTxn(s) \notin StripeCaptured
              /\ BraintreeTxn(s) \notin CashfreeCaptured
              /\ BraintreeTxn(s) \notin MollieCaptured
            BY IdsDiffer DEF StripeCaptured, CashfreeCaptured, MollieCaptured
        <3> QED BY <2>1, <2>2, <3>3, <3>4, <3>5, IdsDiffer DEF Captured, Backed
    <2>3. ASSUME NEW s \in Sales, BraintreeAddPayment(s)
          PROVE  \E t \in ProviderTxns : \E amount :
                    /\ Captured' = Captured \cup {t} /\ t \notin Captured
                    /\ settled' = Append(settled, Row(t, amount)) /\ Rows(t) = {}
                 /\ t \notin short /\ short' = short
        <3>1. settled' = Append(settled, Row(BraintreeTxn(s), Outstanding(order)))
              /\ BraintreeTxn(s) \notin short /\ Rows(BraintreeTxn(s)) = {}
            BY <2>3, CartRows, NeverShort
            DEF BraintreeAddPayment, EnterSettled, Row, Sale, ActiveStates
        <3>2. short' = short
            BY <2>3, OrderTyped, OutstandingCovers DEF BraintreeAddPayment, EnterSettled, MarkShort
        <3> QED BY <2>2, <2>3, <3>1, <3>2 DEF BraintreeAddPayment
    <2>4. ASSUME NEW s \in Sales, BraintreeAddPaymentDies(s)
          PROVE  \E t \in ProviderTxns : Captured' = Captured \cup {t} /\ UNCHANGED <<settled, short>>
        BY <2>2, <2>4 DEF BraintreeAddPaymentDies
    <2> QED BY <1>4, <2>3, <2>4 DEF Braintree, BraintreeNext
<1>5. CASE Shop
    BY <1>5 DEF Shop, stripeVars, cashfreeVars, mollieVars, Captured, Backed, StripeCaptured,
        CashfreeCaptured, MollieCaptured, MolliePaid, BraintreeCaptured
<1> QED BY <1>1, <1>2, <1>3, <1>4, <1>5 DEF Next

\* What is not in the rows is not in the ledger's book.
LEMMA NotInBook ==
    ASSUME NEW t \in ProviderTxns, Rows(t) = {}
    PROVE  ~\E i \in DOMAIN Book : Book[i] = t
BY IdsAssumption DEF Book, Entry, Rows

\* A step of the shop is a step of the ledger, or changes nothing of it.
LEMMA LedgerStep ==
    ASSUME Careful, ShopInv, Next
    PROVE  Ledger!Next \/ UNCHANGED <<Captured, Book>>
<1>0. settled \in Seq([txn : Captured \cup {Manual, Free}, amount : Nat])
    BY DEF ShopInv, TypeOK
<1>1. settled' = settled => Book' = Book
    <2> SUFFICES ASSUME settled' = settled PROVE Book' = Book
        OBVIOUS
    <2>1. Book' = [i \in DOMAIN settled |-> EntryAfter(settled[i].txn)]
        BY DEF Book, Entry, EntryAfter
    <2> QED BY <2>1, EntriesStay DEF Book
<1>2. ASSUME NEW t \in ProviderTxns, Captured' = Captured \cup {t}, settled' = settled
      PROVE  Ledger!Next
    BY <1>1, <1>2 DEF Ledger!Next, Ledger!Capture
<1>3. ASSUME NEW t \in ProviderTxns, NEW amount, Captured' = Captured \cup {t}, t \notin Captured,
             settled' = Append(settled, Row(t, amount)), Rows(t) = {}, t \notin short'
      PROVE  Ledger!Next
    <2>1. Book' = Append(Book, t)
        <3>1. EntryAfter(t) = t
            BY <1>3, IdsAssumption DEF EntryAfter
        <3> QED BY <1>0, <1>3, <3>1, EntriesStay, BookAfter
    <2>2. ~Ledger!Entered(t)
        BY <1>3, NotInBook DEF Ledger!Entered
    <2>3. Ledger!Charge(t)
        BY <1>3, <2>1, <2>2 DEF Ledger!Charge
    <2> QED BY <2>3 DEF Ledger!Next
<1>4. ASSUME NEW txn \in ProviderTxns \cup {Manual, Free}, NEW amount, Captured' = Captured,
             settled' = Append(settled, Row(txn, amount)), Known(txn, amount)',
             Rows(txn) = {} \/ txn \in {Manual, Free} \cup short
      PROVE  Ledger!Next
    <2>1. Book' = Append(Book, EntryAfter(txn))
        BY <1>0, <1>4, EntriesStay, BookAfter
    <2>2. CASE txn \in {Manual, Free} \cup short'
        <3>1. EntryAfter(txn) = Manual
            BY <2>2 DEF EntryAfter
        <3>2. Ledger!EnterOther
            BY <1>4, <2>1, <3>1 DEF Ledger!EnterOther
        <3> QED BY <3>2 DEF Ledger!Next
    <2>3. CASE txn \in ProviderTxns /\ txn \notin short'
        <3>1. txn \notin {Manual, Free} /\ EntryAfter(txn) = txn /\ txn \notin short
            BY <2>3, ShortGrows, IdsAssumption DEF EntryAfter
        <3>2. txn \in Captured
            <4>1. KnownIsCharged'
                BY KnownMeans, PTL
            <4> QED BY <1>4, <3>1, <4>1 DEF KnownIsCharged
        <3>3. ~Ledger!Entered(txn)
            BY <1>4, <2>3, <3>1, NotInBook DEF Ledger!Entered
        <3>4. Ledger!Enter(txn)
            BY <1>4, <2>1, <3>1, <3>2, <3>3 DEF Ledger!Enter
        <3> QED BY <2>3, <3>4 DEF Ledger!Next
    <2> QED BY <1>4, <2>2, <2>3
<1>5. CASE Captured' = Captured
    <2>1. ASSUME NEW p \in MolliePayments, SettlesHeld(p) PROVE Ledger!Next
        <3>1. PICK amount : amount = mollie[p].amount
            OBVIOUS
        <3>2. Known(MollieTxn(p), amount)'
            <4>1. Known(MollieTxn(p), amount)
                BY <2>1, <3>1 DEF SettlesHeld, Known
            <4> QED BY <4>1, KnownNext
        <3>3. /\ Rows(MollieTxn(p)) = {} \/ MollieTxn(p) \in short
              /\ settled' = Append(settled, Row(MollieTxn(p), amount))
            BY <2>1, <3>1 DEF SettlesHeld, ShopInv, HeldIsAuthorized
        <3> QED BY <1>4, <1>5, <3>2, <3>3, IdsDiffer
    <2>2. ASSUME NEW txn \in ProviderTxns \cup {Manual, Free}, NEW amount \in Nat,
                 Enters(txn, amount), Known(txn, amount)'
          PROVE  Ledger!Next
        BY <1>4, <1>5, <2>2 DEF Enters
    <2>3. CASE settled' = settled
        BY <1>1, <1>5, <2>3
    <2> QED BY <2>1, <2>2, <2>3, StepBooks DEF BookStep, BookKept, Moves, Authorizes
<1> QED BY <1>2, <1>3, <1>5, CaptureSteps

\* Under the same assumptions the four plugins together keep the books of PaymentLedger: money
\* that a provider took is entered at most once, unless it fell short of the order when it was
\* entered, money that was not taken is not entered, and no entry is struck out.
THEOREM ShopKeepsTheLedger == Careful => (Spec => RefinesLedger)
<1> SUFFICES ASSUME Careful PROVE Spec => RefinesLedger
    OBVIOUS
<1>1. Init => Ledger!Init
    <2> SUFFICES ASSUME Init PROVE Ledger!Init
        OBVIOUS
    <2>1. settled = <<>> /\ DOMAIN settled = {}
        BY DEF Init, BookInit
    <2>2. Book = <<>>
        BY <2>1 DEF Book
    <2>3. Captured = {}
        BY DEF Init, StripeInit, CashfreeInit, MollieInit, BraintreeInit, Captured, Backed,
            StripeCaptured, CashfreeCaptured, MollieCaptured, MolliePaid, BraintreeCaptured
    <2> QED BY <2>2, <2>3 DEF Ledger!Init
<1>2. ShopInv /\ [Next]_vars => [Ledger!Next]_(Ledger!ledgerVars)
    <2>1. ASSUME UNCHANGED vars PROVE UNCHANGED <<Captured, Book>>
        BY <2>1 DEF vars, bookVars, stripeVars, cashfreeVars, mollieVars, Captured, Backed,
            StripeCaptured, CashfreeCaptured, MollieCaptured, MolliePaid, BraintreeCaptured, Book,
            Entry
    <2> QED BY <2>1, LedgerStep DEF Ledger!ledgerVars
<1> QED BY <1>1, <1>2, ShopInvariant, PTL DEF Spec, RefinesLedger, Ledger!Spec
=============================================================================
