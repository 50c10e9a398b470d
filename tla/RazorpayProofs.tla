--------------------------- MODULE RazorpayProofs ---------------------------
(***************************************************************************)
(* Proofs about RazorpaySettlement, for every set of payments, amounts and *)
(* webhook workers and every bound.                                        *)
(***************************************************************************)
EXTENDS RazorpaySettlement, SequenceTheorems, TLAPS

\* Appending a payment row keeps the rows that are there.
LEMMA AppendRow ==
    ASSUME NEW S, NEW s \in Seq(S), NEW e \in S
    PROVE  /\ Append(s, e) \in Seq(S)
           /\ Len(Append(s, e)) = Len(s) + 1
           /\ Append(s, e)[Len(s) + 1] = e
           /\ \A i \in 1..Len(s) : Append(s, e)[i] = s[i]
           /\ Len(s) \in Nat
           /\ DOMAIN s = 1..Len(s)
           /\ DOMAIN Append(s, e) = 1..(Len(s) + 1)
  OBVIOUS

\* A row of a sequence of rows is a row.
LEMMA RowOfSeq ==
    ASSUME NEW S, NEW s \in Seq(S), NEW i \in DOMAIN s PROVE s[i] \in S
  OBVIOUS

-----------------------------------------------------------------------------
\* What the handler's verdict does to the rows of the order.
LEMMA AddPaymentType ==
    ASSUME OrderType, NEW p \in Payments, NEW from \in OrderStates,
           NEW view \in OrderRows, AddPayment(p, from, view)
    PROVE  OrderType'
  <1>1. Outstanding(view) \in Int
    BY TotalsAssumption DEF Outstanding, OrderRows
  <1>2. [txn |-> p, amount |-> Outstanding(view)] \in [txn : Txns, amount : Int]
    BY <1>1 DEF Txns
  <1>3. CASE from \in PayableStates /\ SignatureValid(p)
    <2> DEFINE row == [txn |-> p, amount |-> Outstanding(view)]
    <2>0. settled' = Append(settled, row)
      BY <1>3 DEF AddPayment
    <2>1. settled' \in Seq([txn : Txns, amount : Int])
      <3> HIDE DEF row
      <3>1. row \in [txn : Txns, amount : Int]
        BY <1>2 DEF row
      <3>2. QED
        BY <2>0, <3>1, AppendRow DEF OrderType
    <2>2. order.covered \in Int /\ order.covered + Outstanding(view) \in Int
      BY <1>1 DEF OrderType, OrderRows
    <2>3. order' = [order EXCEPT !.state = "PaymentSettled",
                                 !.covered = @ + Outstanding(view)]
      BY <1>3 DEF AddPayment
    <2>4. order' \in OrderRows
      BY <2>2, <2>3 DEF OrderType, OrderRows, OrderStates
    <2>5. QED
      BY <1>3, <2>1, <2>4 DEF AddPayment, OrderType
  <1>4. CASE from \in PayableStates /\ ~SignatureValid(p)
    BY <1>4 DEF AddPayment, OrderType
  <1>5. CASE from \notin PayableStates
    BY <1>5 DEF AddPayment, OrderType
  <1>6. QED
    BY <1>3, <1>4, <1>5

-----------------------------------------------------------------------------
\* Which steps touch which part of the state.
LEMMA Frame ==
    ASSUME Next
    PROVE  /\ \/ UNCHANGED <<order, settled, declined>>
              \/ \E total \in Totals : ModifyOrder(total) \/ EditOrder(total)
              \/ ManualPayment \/ EnterCheckout \/ LeaveCheckout \/ ShopCommit
              \/ \E w \in Workers :
                    WebhookTransitionInDefaultChannel(w) \/ WebhookCommit(w)
           /\ \/ UNCHANGED provider
              \/ \E p \in Payments :
                    Capture(p) \/ FailCheckout(p) \/ CreateRazorpayOrder(p)
           /\ \/ UNCHANGED <<outbox, delivered>>
              \/ \E p \in Payments : Capture(p) \/ FailCheckout(p)
              \/ \E e \in delivered : Redeliver(e)
              \/ \E w \in Workers, e \in outbox : WebhookIgnore(w, e)
              \/ \E w \in Workers : WebhookCommit(w)
           /\ \/ UNCHANGED req
              \/ \E p \in Payments : ShopAddPayment(p)
              \/ ShopCommit
              \/ \E w \in Workers, e \in outbox : WebhookRead(w, e)
              \/ \E w \in Workers :
                    \/ WebhookBegin(w) \/ WebhookCommit(w)
                    \/ WebhookTransitionInDefaultChannel(w)
              \/ \E a \in Actors : Abort(a)
           /\ \/ UNCHANGED <<methodEnabled, used>>
              \/ \E e \in delivered : Redeliver(e)
              \/ DisableMethod \/ EnableMethod
              \/ \E total \in Totals : ModifyOrder(total) \/ EditOrder(total)
              \/ LeaveCheckout
              \/ \E a \in Actors : Abort(a)
  <1> USE DEF WebhookStep
  <1>1. CASE \E p \in Payments :
               \/ Capture(p) \/ FailCheckout(p) \/ CreateRazorpayOrder(p)
               \/ ShopAddPayment(p)
    BY <1>1 DEF Capture, FailCheckout, FinishCheckout, CreateRazorpayOrder,
                ShopAddPayment
  <1>2. CASE \E e \in delivered : Redeliver(e)
    BY <1>2 DEF Redeliver
  <1>3. CASE DisableMethod \/ EnableMethod
    BY <1>3 DEF DisableMethod, EnableMethod
  <1>4. CASE \E total \in Totals : ModifyOrder(total) \/ EditOrder(total)
    BY <1>4 DEF ModifyOrder, EditOrder
  <1>5. CASE ManualPayment \/ EnterCheckout \/ LeaveCheckout
    BY <1>5 DEF ManualPayment, EnterCheckout, LeaveCheckout
  <1>6. CASE ShopCommit
    BY <1>6 DEF ShopCommit
  <1>7. CASE \E w \in Workers : WebhookStep(w)
    BY <1>7 DEF WebhookIgnore, WebhookRead, WebhookBegin, WebhookCommit,
                WebhookTransitionInDefaultChannel
  <1>8. CASE \E a \in Actors : Abort(a)
    BY <1>8 DEF Abort
  <1>9. QED
    BY <1>1, <1>2, <1>3, <1>4, <1>5, <1>6, <1>7, <1>8 DEF Next

\* The order after a step.
LEMMA OrderTypeStep ==
    ASSUME OrderType, RequestsType, Next PROVE OrderType'
  <1>1. ASSUME NEW total \in Totals, ModifyOrder(total) PROVE OrderType'
    BY <1>1 DEF OrderType, ModifyOrder, OrderRows, OrderStates
  <1>2. ASSUME NEW total \in Totals, EditOrder(total) PROVE OrderType'
    BY <1>2 DEF OrderType, EditOrder, OrderRows
  <1>3. CASE ManualPayment
    <2>1. [txn |-> Manual, amount |-> Outstanding(order)]
            \in [txn : Txns, amount : Int]
      BY TotalsAssumption DEF OrderType, OrderRows, Outstanding, Txns
    <2>2. settled' \in Seq([txn : Txns, amount : Int])
      BY <1>3, <2>1, AppendRow DEF OrderType, ManualPayment
    <2>3. order.total \in Int
      BY TotalsAssumption DEF OrderType, OrderRows
    <2>4. order' \in OrderRows
      BY <1>3, <2>3 DEF OrderType, ManualPayment, OrderRows, OrderStates
    <2>5. QED
      BY <1>3, <2>2, <2>4 DEF OrderType, ManualPayment
  <1>4. CASE EnterCheckout \/ LeaveCheckout
    BY <1>4 DEF OrderType, EnterCheckout, LeaveCheckout, OrderRows, OrderStates
  <1>5. CASE ShopCommit
    <2>1. req[Shop] \in ShopRequests
      BY <1>5 DEF ShopCommit, RequestsType, Idle
    <2>2. /\ req[Shop].id \in Payments /\ req[Shop].view \in OrderRows
          /\ req[Shop].view.state \in OrderStates
      BY <2>1 DEF ShopRequests, OrderRows
    <2>3. QED
      BY <1>5, <2>2, AddPaymentType DEF ShopCommit
  <1>6. ASSUME NEW w \in Workers, WebhookTransitionInDefaultChannel(w)
        PROVE  OrderType'
    BY <1>6 DEF OrderType, WebhookTransitionInDefaultChannel, OrderRows,
                OrderStates
  <1>7. ASSUME NEW w \in Workers, WebhookCommit(w) PROVE OrderType'
    <2>1. /\ req[w].id \in Payments /\ req[w].view \in OrderRows
          /\ req[w].view.state \in OrderStates
      BY <1>7 DEF WebhookCommit, RequestsType, WebhookRequests, Idle, OrderRows
    <2>2. "ArrangingPayment" \in OrderStates
      BY DEF OrderStates
    <2>3. CASE UNCHANGED <<order, settled, declined>>
      BY <2>3 DEF OrderType
    <2>4. QED
      BY <1>7, <2>1, <2>2, <2>3, AddPaymentType DEF WebhookCommit
  <1>8. CASE UNCHANGED <<order, settled, declined>>
    BY <1>8 DEF OrderType
  <1>9. QED
    BY <1>1, <1>2, <1>3, <1>4, <1>5, <1>6, <1>7, <1>8, Frame

\* What Razorpay keeps after a step.
LEMMA ProviderTypeStep ==
    ASSUME OrderType, ProviderType, Next PROVE ProviderType'
  <1>1. ASSUME NEW p \in Payments, Capture(p) \/ FailCheckout(p)
        PROVE  ProviderType'
    BY <1>1 DEF ProviderType, Capture, FailCheckout, FinishCheckout
  <1>2. ASSUME NEW p \in Payments, CreateRazorpayOrder(p) PROVE ProviderType'
    <2>1. order.total \in Nat
      BY TotalsAssumption DEF OrderType, OrderRows
    <2>2. QED
      BY <1>2, <2>1 DEF ProviderType, CreateRazorpayOrder
  <1>3. CASE UNCHANGED provider
    BY <1>3 DEF ProviderType
  <1>4. QED
    BY <1>1, <1>2, <1>3, Frame

\* The events of Razorpay after a step.
LEMMA EventsTypeStep ==
    ASSUME EventsType, RequestsType, Next PROVE EventsType'
  <1> USE DEF EventsType, Events, EventTypes
  <1>1. ASSUME NEW p \in Payments, Capture(p) \/ FailCheckout(p)
        PROVE  EventsType'
    BY <1>1 DEF Capture, FailCheckout, FinishCheckout
  <1>2. ASSUME NEW e \in delivered, Redeliver(e) PROVE EventsType'
    BY <1>2 DEF Redeliver
  <1>3. ASSUME NEW w \in Workers, NEW e \in outbox, WebhookIgnore(w, e)
        PROVE  EventsType'
    BY <1>3 DEF WebhookIgnore, Acknowledge
  <1>4. ASSUME NEW w \in Workers, WebhookCommit(w) PROVE EventsType'
    <2>1. req[w].id \in Payments
      BY <1>4 DEF WebhookCommit, RequestsType, WebhookRequests, Idle
    <2>2. QED
      BY <1>4, <2>1 DEF WebhookCommit, Acknowledge
  <1>5. CASE UNCHANGED <<outbox, delivered>>
    BY <1>5
  <1>6. QED
    BY <1>1, <1>2, <1>3, <1>4, <1>5, Frame

\* The requests in service after a step.
LEMMA RequestsTypeStep ==
    ASSUME OrderType, EventsType, RequestsType, Next PROVE RequestsType'
  <1> USE NamesAssumption DEF RequestsType, Actors
  <1>1. ASSUME NEW p \in Payments, ShopAddPayment(p) PROVE RequestsType'
    BY <1>1 DEF ShopAddPayment, ShopRequests, OrderType
  <1>2. CASE ShopCommit
    BY <1>2 DEF ShopCommit
  <1>3. ASSUME NEW w \in Workers, NEW e \in outbox, WebhookRead(w, e)
        PROVE  RequestsType'
    <2>1. {settled[i].txn : i \in DOMAIN settled} \subseteq Txns
      <3>1. \A i \in DOMAIN settled : settled[i] \in [txn : Txns, amount : Int]
        BY RowOfSeq DEF OrderType
      <3>2. QED
        BY <3>1
    <2>2. e.id \in Payments /\ order.state \in OrderStates
      BY DEF EventsType, Events, OrderType, OrderRows
    <2>3. QED
      BY <1>3, <2>1, <2>2 DEF WebhookRead, WebhookRequests
  <1>4. ASSUME NEW w \in Workers, WebhookBegin(w) PROVE RequestsType'
    BY <1>4 DEF WebhookBegin, WebhookRequests, Idle, OrderType
  <1>5. ASSUME NEW w \in Workers, WebhookTransitionInDefaultChannel(w)
        PROVE  RequestsType'
    <2>1. req[w] \in [pc : {"txn"}, id : Payments, state : OrderStates,
                      paid : SUBSET Txns, view : OrderRows]
      BY <1>5 DEF WebhookTransitionInDefaultChannel, WebhookRequests, Idle
    <2>2. req'[w] = [req[w] EXCEPT !.state = "ArrangingPayment",
                                   !.view = [@ EXCEPT !.state = "ArrangingPayment"]]
      BY <1>5 DEF WebhookTransitionInDefaultChannel
    <2>3. req'[w] \in WebhookRequests
      <3>1. [req[w].view EXCEPT !.state = "ArrangingPayment"] \in OrderRows
        BY <2>1 DEF OrderRows, OrderStates
      <3>2. QED
        BY <2>1, <2>2, <3>1 DEF WebhookRequests, OrderStates
    <2>4. QED
      BY <1>5, <2>3 DEF WebhookTransitionInDefaultChannel
  <1>6. ASSUME NEW w \in Workers, WebhookCommit(w) PROVE RequestsType'
    BY <1>6 DEF WebhookCommit
  <1>7. ASSUME NEW a \in Actors, Abort(a) PROVE RequestsType'
    BY <1>7 DEF Abort
  <1>8. CASE UNCHANGED req
    BY <1>8
  <1>9. QED
    BY <1>1, <1>2, <1>3, <1>4, <1>5, <1>6, <1>7, <1>8, Frame

\* The bounded counters after a step.
LEMMA CountersTypeStep ==
    ASSUME CountersType, Next PROVE CountersType'
  <1> USE DEF CountersType
  <1>1. ASSUME NEW e \in delivered, Redeliver(e) PROVE CountersType'
    BY <1>1 DEF Redeliver
  <1>2. CASE DisableMethod \/ EnableMethod
    <2>1. methodEnabled' \in BOOLEAN
      BY <1>2, Zenon DEF DisableMethod, EnableMethod
    <2>2. used' \in [edits : Nat, modify : Nat, faults : Nat]
      BY <1>2 DEF DisableMethod, EnableMethod
    <2>3. QED
      BY <2>1, <2>2
  <1>3. ASSUME NEW total \in Totals, ModifyOrder(total) \/ EditOrder(total)
        PROVE  CountersType'
    BY <1>3 DEF ModifyOrder, EditOrder
  <1>4. CASE LeaveCheckout
    BY <1>4 DEF LeaveCheckout
  <1>5. ASSUME NEW a \in Actors, Abort(a) PROVE CountersType'
    BY <1>5 DEF Abort
  <1>6. CASE UNCHANGED <<methodEnabled, used>>
    BY <1>6
  <1>7. QED
    BY <1>1, <1>2, <1>3, <1>4, <1>5, <1>6, Frame

\* A checkout the cart has been changed under is never up to date again.
LEMMA OutdatedStep ==
    Next => \/ UNCHANGED outdated
            \/ outdated' = outdated \cup {p \in Payments : Opened(p)}
  <1>1. ASSUME NEW total \in Totals, EditOrder(total)
        PROVE  outdated' = outdated \cup {p \in Payments : Opened(p)}
    BY <1>1 DEF EditOrder
  <1>2. Next => UNCHANGED outdated \/ \E total \in Totals : EditOrder(total)
    BY ZenonT(60)
       DEF Next, WebhookStep, Capture, FailCheckout, FinishCheckout,
           CreateRazorpayOrder, ShopAddPayment, Redeliver, DisableMethod,
           EnableMethod, ModifyOrder, ManualPayment, EnterCheckout,
           LeaveCheckout, ShopCommit, WebhookIgnore, WebhookRead, WebhookBegin,
           WebhookTransitionInDefaultChannel, WebhookCommit, Abort
  <1>3. QED
    BY <1>1, <1>2

\* Every variable keeps its type: the order stays in the states the plugin
\* knows, and a request's copy of the order is an order row.
THEOREM TypeCorrect == Spec => []TypeOK
  <1>1. Init => TypeOK
    BY TotalsAssumption
       DEF Init, TypeOK, OrderType, ProviderType, EventsType, RequestsType,
           CountersType, HistoryType, OrderRows, OrderStates, Idle, Actors
  <1>2. TypeOK /\ [Next]_vars => TypeOK'
    <2> SUFFICES ASSUME TypeOK, [Next]_vars PROVE TypeOK'
      OBVIOUS
    <2>1. CASE Next
      BY <2>1, OrderTypeStep, ProviderTypeStep, EventsTypeStep, RequestsTypeStep,
         CountersTypeStep, OutdatedStep DEF TypeOK, HistoryType
    <2>2. CASE UNCHANGED vars
      BY <2>2 DEF vars, TypeOK, OrderType, ProviderType, EventsType,
                  RequestsType, CountersType, HistoryType
    <2>3. QED
      BY <2>1, <2>2
  <1>3. QED
    BY <1>1, <1>2, PTL DEF Spec

-----------------------------------------------------------------------------
\* Booking a row changes the rows of its own payment only.
LEMMA BookRow ==
    ASSUME OrderType, NEW p \in Txns, NEW x \in Int,
           settled' = Append(settled, [txn |-> p, amount |-> x])
    PROVE  /\ settled' # <<>>
           /\ BookedRows(p)' = BookedRows(p) \cup {Len(settled) + 1}
           /\ \A q : q # p => BookedRows(q)' = BookedRows(q)
  <1> DEFINE row == [txn |-> p, amount |-> x]
  <1>1. row \in [txn : Txns, amount : Int] /\ row.txn = p
    OBVIOUS
  <1>2. settled' = Append(settled, row)
    OBVIOUS
  <1> HIDE DEF row
  <1>3. /\ DOMAIN settled = 1..Len(settled)
        /\ DOMAIN settled' = 1..(Len(settled) + 1)
        /\ settled'[Len(settled) + 1] = row
        /\ \A i \in 1..Len(settled) : settled'[i] = settled[i]
        /\ Len(settled) \in Nat /\ Len(settled') = Len(settled) + 1
    BY <1>1, <1>2, AppendRow DEF OrderType
  <1>4. DOMAIN settled' = DOMAIN settled \cup {Len(settled) + 1}
    BY <1>3
  <1>5. settled' # <<>>
    BY <1>3
  <1>6. QED
    BY <1>1, <1>3, <1>4, <1>5 DEF BookedRows

\* What the end of a transaction has done: nothing, or it has booked a captured
\* payment that was not booked before, and settled the order.
Outcome(p) ==
    \/ UNCHANGED <<order, settled>>
    \/ /\ Captured(p)
       /\ BookedRows(p) = {}
       /\ order'.state = "PaymentSettled"
       /\ \E x \in Int : settled' = Append(settled, [txn |-> p, amount |-> x])

\* addPaymentToOrder books the payment once, or refuses it and changes no row.
LEMMA AddPaymentOutcome ==
    ASSUME OrderType, NEW p \in Payments, NEW from, AddPayment(p, from, order),
           from \in PayableStates => BookedRows(p) = {}
    PROVE  Outcome(p)
  <1>1. Outstanding(order) \in Int
    BY TotalsAssumption DEF Outstanding, OrderType, OrderRows
  <1>2. CASE from \in PayableStates /\ SignatureValid(p)
    <2>1. order'.state = "PaymentSettled"
      BY <1>2 DEF AddPayment, OrderType, OrderRows
    <2>2. settled' = Append(settled, [txn |-> p, amount |-> Outstanding(order)])
      BY <1>2 DEF AddPayment
    <2>3. QED
      BY <1>1, <1>2, <2>1, <2>2 DEF Outcome, SignatureValid
  <1>3. CASE ~(from \in PayableStates /\ SignatureValid(p))
    BY <1>3 DEF AddPayment, Outcome
  <1>4. QED
    BY <1>2, <1>3

\* The outcome of the shopper's own request.
LEMMA ShopOutcome ==
    ASSUME TypeOK, LedgerInv, ShopCommit PROVE Outcome(req[Shop].id)
  <1>1. req[Shop] \in ShopRequests
    BY DEF ShopCommit, TypeOK, RequestsType, Idle
  <1>2. req[Shop].view = order /\ order.state \in ActiveStates
    BY DEF LedgerInv, OneTransaction, ShopPaysOpenOrder, ShopCommit, Actors
  <1>3. settled = <<>>
    BY <1>2 DEF LedgerInv, ClosedOnceBooked
  <1>4. BookedRows(req[Shop].id) = {}
    BY <1>3 DEF BookedRows
  <1>5. QED
    BY <1>1, <1>2, <1>4, AddPaymentOutcome DEF ShopCommit, TypeOK, ShopRequests

\* The outcome of a webhook request.
LEMMA WebhookOutcome ==
    ASSUME TypeOK, LedgerInv, NEW w \in Workers, WebhookCommit(w)
    PROVE  Outcome(req[w].id)
  <1> DEFINE p == req[w].id
  <1>1. p \in Payments
    BY DEF WebhookCommit, TypeOK, RequestsType, WebhookRequests, Idle
  <1>2. req[w].view = order /\ order.state \in OrderStates
    BY DEF LedgerInv, OneTransaction, WebhookCommit, Actors, TypeOK, OrderType,
           OrderRows
  <1>3. BookedRows(p) = {} \/ settled # <<>>
    BY DEF BookedRows
  <1>4. CASE UNCHANGED <<order, settled>>
    BY <1>4 DEF Outcome
  <1>5. CASE ~AlreadySettled(req[w]) /\ CanTransition(order.state, "ArrangingPayment")
                /\ AddPayment(p, "ArrangingPayment", order)
    <2>1. order.state \in ActiveStates
      BY <1>5 DEF CanTransition, OrderTransitions, ActiveStates
    <2>2. BookedRows(p) = {}
      BY <1>3, <2>1 DEF LedgerInv, ClosedOnceBooked
    <2>3. QED
      BY <1>1, <1>5, <2>2, AddPaymentOutcome DEF TypeOK
  <1>6. CASE ~AlreadySettled(req[w]) /\ AddPayment(p, order.state, order)
    <2>1. BookedRows(p) # {} => order.state = "PaymentSettled"
      BY <1>6 DEF LedgerInv, StaleCopyIsHarmless, AlreadySettled, WebhookCommit
    <2>2. order.state \in PayableStates => BookedRows(p) = {}
      BY <2>1 DEF PayableStates
    <2>3. QED
      BY <1>1, <1>6, <2>2, AddPaymentOutcome DEF TypeOK
  <1>7. QED
    BY <1>2, <1>4, <1>5, <1>6 DEF WebhookCommit

\* Ending a transaction with such an outcome keeps the books.
LEMMA CommitKeepsBooks ==
    ASSUME TypeOK, LedgerInv, NEW a \in Actors, req[a].pc = "txn",
           NEW p \in Payments, Outcome(p),
           req' = [req EXCEPT ![a] = Idle], UNCHANGED provider
    PROVE  /\ ClosedOnceBooked' /\ OneTransaction' /\ ShopPaysOpenOrder'
           /\ StaleCopyIsHarmless' /\ OnlyCapturedBooked' /\ OneRecordPerCapture'
  <1>1. \A b \in Actors : req'[b] = IF b = a THEN Idle ELSE req[b]
    BY DEF TypeOK, RequestsType
  <1>2. \A b \in Actors : req'[b].pc # "txn"
    BY <1>1 DEF LedgerInv, OneTransaction, Idle
  <1>3. OneTransaction' /\ ShopPaysOpenOrder'
    BY <1>2 DEF OneTransaction, ShopPaysOpenOrder, Actors
  <1>4. CASE UNCHANGED <<order, settled>>
    <2>1. \A q : BookedRows(q)' = BookedRows(q)
      BY <1>4 DEF BookedRows
    <2>2. StaleCopyIsHarmless'
      BY <1>1, <1>4, <2>1 DEF LedgerInv, StaleCopyIsHarmless, Idle, Actors
    <2>3. ClosedOnceBooked'
      BY <1>4 DEF LedgerInv, ClosedOnceBooked
    <2>4. OnlyCapturedBooked' /\ OneRecordPerCapture'
      BY <2>1 DEF LedgerInv, OnlyCapturedBooked, OneRecordPerCapture, Captured
    <2>5. QED
      BY <1>3, <2>2, <2>3, <2>4
  <1>5. CASE /\ Captured(p) /\ BookedRows(p) = {} /\ order'.state = "PaymentSettled"
             /\ \E x \in Int : settled' = Append(settled, [txn |-> p, amount |-> x])
    <2>1. /\ BookedRows(p)' = {Len(settled) + 1}
          /\ \A q : q # p => BookedRows(q)' = BookedRows(q)
      <3>1. PICK x \in Int : settled' = Append(settled, [txn |-> p, amount |-> x])
        BY <1>5
      <3>2. p \in Txns
        BY DEF Txns
      <3>3. /\ BookedRows(p)' = BookedRows(p) \cup {Len(settled) + 1}
            /\ \A q : q # p => BookedRows(q)' = BookedRows(q)
        BY <3>1, <3>2, BookRow DEF TypeOK
      <3>4. QED
        BY <1>5, <3>3
    <2>2. ClosedOnceBooked' /\ StaleCopyIsHarmless'
      BY <1>5 DEF ClosedOnceBooked, StaleCopyIsHarmless, ActiveStates
    <2>3. OnlyCapturedBooked'
      BY <1>5, <2>1 DEF LedgerInv, OnlyCapturedBooked, Captured
    <2>4. OneRecordPerCapture'
      <3>1. ASSUME NEW q \in Payments, NEW i \in BookedRows(q)', NEW j \in BookedRows(q)'
            PROVE  i = j
        <4>1. CASE q = p
          BY <2>1, <4>1
        <4>2. CASE q # p
          BY <2>1, <4>2 DEF LedgerInv, OneRecordPerCapture
        <4>3. QED
          BY <4>1, <4>2
      <3>2. QED
        BY <3>1 DEF OneRecordPerCapture
    <2>5. QED
      BY <1>3, <2>2, <2>3, <2>4
  <1>6. QED
    BY <1>4, <1>5 DEF Outcome

\* The steps that end no transaction book nothing.
LEMMA OtherStepsKeepBooks ==
    ASSUME Serial, QuietModify, TypeOK, LedgerInv, Next,
           ~ManualPayment, ~ShopCommit, \A w \in Workers : ~WebhookCommit(w)
    PROVE  /\ ClosedOnceBooked' /\ OneTransaction' /\ ShopPaysOpenOrder'
           /\ StaleCopyIsHarmless' /\ OnlyCapturedBooked' /\ OneRecordPerCapture'
  <1>1. UNCHANGED settled
    BY Frame DEF ModifyOrder, EditOrder, EnterCheckout, LeaveCheckout,
                 WebhookTransitionInDefaultChannel
  <1>2. \A q : BookedRows(q)' = BookedRows(q)
    BY <1>1 DEF BookedRows
  <1>3. \A q \in Payments : Captured(q) => Captured(q)'
    BY Frame DEF Capture, FailCheckout, FinishCheckout, CreateRazorpayOrder,
                 Opened, Captured, TypeOK, ProviderType
  <1>4. OnlyCapturedBooked' /\ OneRecordPerCapture'
    BY <1>2, <1>3 DEF LedgerInv, OnlyCapturedBooked, OneRecordPerCapture
  <1> DEFINE Books == /\ ClosedOnceBooked' /\ OneTransaction' /\ ShopPaysOpenOrder'
                     /\ StaleCopyIsHarmless'
  <1> SUFFICES Books
    BY <1>4
  <1> USE DEF LedgerInv
  <1>5. ASSUME NEW total \in Totals, ModifyOrder(total) PROVE Books
    <2>1. /\ order'.state = "ArrangingAdditionalPayment"
          /\ UNCHANGED req
          /\ \A a \in Actors : req[a].pc # "txn"
          /\ \A w \in Workers : req[w].pc = "idle"
      BY <1>5 DEF ModifyOrder, DatabaseFree, TypeOK, OrderType, OrderRows
    <2>2. QED
      BY <2>1 DEF ClosedOnceBooked, OneTransaction, ShopPaysOpenOrder,
                  StaleCopyIsHarmless, ActiveStates, Actors
  <1>6. CASE \/ EnterCheckout \/ LeaveCheckout
             \/ \E total \in Totals : EditOrder(total)
    <2>1. /\ order.state \in ActiveStates
          /\ UNCHANGED req
          /\ \A a \in Actors : req[a].pc # "txn"
      BY <1>6 DEF EnterCheckout, LeaveCheckout, EditOrder, DatabaseFree, ActiveStates
    <2>2. settled = <<>> /\ \A q : BookedRows(q) = {}
      BY <2>1 DEF ClosedOnceBooked, BookedRows
    <2>3. QED
      <3>1. ClosedOnceBooked' /\ StaleCopyIsHarmless'
        BY <1>1, <1>2, <2>2 DEF ClosedOnceBooked, StaleCopyIsHarmless
      <3>2. OneTransaction' /\ ShopPaysOpenOrder'
        BY <2>1 DEF OneTransaction, ShopPaysOpenOrder, Actors
      <3>3. QED
        BY <3>1, <3>2
  <1>7. ASSUME NEW w \in Workers, WebhookTransitionInDefaultChannel(w) PROVE Books
    <2>1. order.state \in ActiveStates
      BY <1>7 DEF WebhookTransitionInDefaultChannel, CanTransition,
                  OrderTransitions, ActiveStates
    <2>2. settled = <<>> /\ \A q : BookedRows(q) = {}
      BY <2>1 DEF ClosedOnceBooked, BookedRows
    <2>3. \A b \in Actors : req[b].pc = "txn" => b = w
      BY <1>7 DEF OneTransaction, WebhookTransitionInDefaultChannel, Actors
    <2>4. req[w].view = order
      BY <1>7 DEF OneTransaction, WebhookTransitionInDefaultChannel, Actors
    <2>5. \A b \in Actors \ {w} : req'[b] = req[b]
      BY <1>7 DEF WebhookTransitionInDefaultChannel, TypeOK, RequestsType
    <2>6. req'[w].view = order'
      <3>1. req[w] \in [pc : {"txn"}, id : Payments, state : OrderStates,
                        paid : SUBSET Txns, view : OrderRows]
        BY <1>7 DEF WebhookTransitionInDefaultChannel, WebhookRequests, Idle,
                    TypeOK, RequestsType
      <3>2. req'[w] = [req[w] EXCEPT !.state = "ArrangingPayment",
                                     !.view = [@ EXCEPT !.state = "ArrangingPayment"]]
        BY <1>7 DEF WebhookTransitionInDefaultChannel, TypeOK, RequestsType, Actors
      <3>3. req'[w].view = [order EXCEPT !.state = "ArrangingPayment"]
        BY <2>4, <3>1, <3>2
      <3>4. QED
        BY <1>7, <3>3 DEF WebhookTransitionInDefaultChannel
    <2>7. OneTransaction'
      BY <2>3, <2>5, <2>6 DEF OneTransaction
    <2>8. ShopPaysOpenOrder'
      BY <2>3, <2>5, NamesAssumption DEF ShopPaysOpenOrder, Actors
    <2>9. ClosedOnceBooked' /\ StaleCopyIsHarmless'
      BY <1>1, <1>2, <2>2 DEF ClosedOnceBooked, StaleCopyIsHarmless
    <2>10. QED
      BY <2>7, <2>8, <2>9
  <1>8. CASE UNCHANGED order
    <2>1. ClosedOnceBooked'
      BY <1>1, <1>8 DEF ClosedOnceBooked
    <2>2. ASSUME NEW p \in Payments, ShopAddPayment(p) PROVE Books
      <3>1. /\ \A a \in Actors : req[a].pc # "txn"
            /\ req'[Shop] = [pc |-> "txn", id |-> p, view |-> order]
            /\ \A w \in Workers : req'[w] = req[w]
            /\ order.state \in ActiveStates
        BY <2>2, NamesAssumption DEF ShopAddPayment, DatabaseFree, TypeOK,
           RequestsType, Actors
      <3>2. QED
        BY <1>2, <1>8, <2>1, <3>1
           DEF OneTransaction, ShopPaysOpenOrder, StaleCopyIsHarmless, Actors
    <2>3. ASSUME NEW w \in Workers, NEW e \in outbox, WebhookRead(w, e) PROVE Books
      <3>1. /\ req'[w].pc = "read" /\ req'[w].id = e.id
            /\ req'[w].paid = {settled[i].txn : i \in DOMAIN settled}
            /\ \A a \in Actors \ {w} : req'[a] = req[a]
        BY <2>3 DEF WebhookRead, TypeOK, RequestsType, Actors
      <3>2. BookedRows(e.id) # {} => e.id \in req'[w].paid
        BY <3>1 DEF BookedRows
      <3>3. StaleCopyIsHarmless'
        BY <1>2, <1>8, <3>1, <3>2 DEF StaleCopyIsHarmless, Actors
      <3>4. OneTransaction' /\ ShopPaysOpenOrder'
        BY <1>8, <3>1, NamesAssumption DEF OneTransaction, ShopPaysOpenOrder, Actors
      <3>5. QED
        BY <2>1, <3>3, <3>4
    <2>4. ASSUME NEW w \in Workers, WebhookBegin(w) PROVE Books
      <3>1. /\ req'[w].id = req[w].id /\ req'[w].paid = req[w].paid
            /\ req[w].pc # "idle" /\ req'[w].view = order
            /\ \A a \in Actors \ {w} : req'[a] = req[a]
            /\ \A a \in Actors : req[a].pc # "txn"
        BY <2>4 DEF WebhookBegin, TypeOK, RequestsType, Actors, DatabaseFree
      <3>2. QED
        BY <1>2, <1>8, <2>1, <3>1, NamesAssumption
           DEF OneTransaction, ShopPaysOpenOrder, StaleCopyIsHarmless, Actors
    <2>5. ASSUME NEW a \in Actors, Abort(a) PROVE Books
      <3>1. \A b \in Actors : req'[b] = IF b = a THEN Idle ELSE req[b]
        BY <2>5 DEF Abort, TypeOK, RequestsType
      <3>2. OneTransaction' /\ ShopPaysOpenOrder'
        BY <1>8, <3>1 DEF OneTransaction, ShopPaysOpenOrder, Actors, Idle
      <3>3. StaleCopyIsHarmless'
        BY <1>2, <1>8, <3>1 DEF StaleCopyIsHarmless, Actors, Idle
      <3>4. QED
        BY <2>1, <3>2, <3>3
    <2>6. CASE UNCHANGED req
      <3>1. OneTransaction' /\ ShopPaysOpenOrder'
        BY <1>8, <2>6 DEF OneTransaction, ShopPaysOpenOrder
      <3>2. StaleCopyIsHarmless'
        BY <1>2, <1>8, <2>6 DEF StaleCopyIsHarmless
      <3>3. QED
        BY <2>1, <3>1, <3>2
    <2>7. CASE \E w \in Workers : WebhookTransitionInDefaultChannel(w)
      BY <2>7, <1>7
    <2>8. QED
      BY <2>2, <2>3, <2>4, <2>5, <2>6, <2>7, Frame
  <1>9. QED
    BY <1>5, <1>6, <1>7, <1>8, Frame

\* Events go on telling the truth: a captured payment stays captured.
LEMMA EventsStayTrue ==
    ASSUME TypeOK, EventsAreTrue, Next PROVE EventsAreTrue'
  <1>1. \A q \in Payments : Captured(q) => Captured(q)'
    BY Frame DEF Capture, FailCheckout, FinishCheckout, CreateRazorpayOrder,
                 Opened, Captured, TypeOK, ProviderType
  <1>2. \A e \in (outbox \cup delivered)' :
           e.type = "payment.captured" => e.id \in Payments /\ Captured(e.id)'
    <2>1. \A e \in outbox \cup delivered :
             e.type = "payment.captured" => e.id \in Payments /\ Captured(e.id)'
      BY <1>1 DEF EventsAreTrue, TypeOK, EventsType, Events
    <2>2. ASSUME NEW p \in Payments, Capture(p) PROVE Captured(p)'
      BY <2>2 DEF Capture, FinishCheckout, Captured, TypeOK, ProviderType
    <2>3. ASSUME NEW p \in Payments, Capture(p) \/ FailCheckout(p)
          PROVE  \A e \in (outbox \cup delivered)' :
                    \/ e \in outbox \cup delivered
                    \/ e.type # "payment.captured"
                    \/ e.id = p /\ Capture(p)
      BY <2>3 DEF Capture, FailCheckout, FinishCheckout
    <2>4. ASSUME NEW e \in delivered, Redeliver(e)
          PROVE  (outbox \cup delivered)' \subseteq outbox \cup delivered
      BY <2>4 DEF Redeliver
    <2>5. ASSUME NEW w \in Workers, NEW e \in outbox, WebhookIgnore(w, e)
          PROVE  (outbox \cup delivered)' \subseteq outbox \cup delivered
      BY <2>5 DEF WebhookIgnore, Acknowledge
    <2>6. ASSUME NEW w \in Workers, WebhookCommit(w)
          PROVE  \A e \in (outbox \cup delivered)' :
                    \/ e \in outbox \cup delivered
                    \/ e.id = req[w].id /\ e.id \in Payments /\ Captured(e.id)'
      <3>1. req[w].id \in Payments /\ Captured(req[w].id)
        BY <2>6 DEF WebhookCommit, EventsAreTrue, TypeOK, RequestsType,
                    WebhookRequests, Idle
      <3>2. UNCHANGED provider
        BY <2>6 DEF WebhookCommit
      <3>3. \A e \in (outbox \cup delivered)' :
               e \in outbox \cup delivered \/ e.id = req[w].id
        BY <2>6 DEF WebhookCommit, Acknowledge
      <3>4. QED
        BY <3>1, <3>2, <3>3 DEF Captured
    <2>7. CASE UNCHANGED <<outbox, delivered>>
      BY <2>1, <2>7
    <2>8. QED
      BY <2>1, <2>2, <2>3, <2>4, <2>5, <2>6, <2>7, Frame
  <1>3. \A w \in Workers : req'[w].pc # "idle" =>
           req'[w].id \in Payments /\ provider'[req'[w].id].status = "captured"
    <2>1. \A w \in Workers : req[w].pc # "idle" =>
             req[w].id \in Payments /\ Captured(req[w].id)
      BY DEF EventsAreTrue, TypeOK, RequestsType, WebhookRequests, Idle
    <2>2. \A w \in Workers :
             \/ req'[w].pc = "idle"
             \/ req'[w].id = req[w].id /\ req[w].pc # "idle"
             \/ \E e \in outbox : e.type = "payment.captured" /\ req'[w].id = e.id
      <3> SUFFICES ASSUME NEW v \in Workers
                   PROVE  \/ req'[v].pc = "idle"
                          \/ req'[v].id = req[v].id /\ req[v].pc # "idle"
                          \/ \E e \in outbox :
                                e.type = "payment.captured" /\ req'[v].id = e.id
        OBVIOUS
      <3> USE NamesAssumption DEF TypeOK, RequestsType, Actors, Idle
      <3>1. ASSUME NEW p \in Payments, ShopAddPayment(p) PROVE req'[v] = req[v]
        BY <3>1 DEF ShopAddPayment
      <3>2. CASE ShopCommit
        BY <3>2 DEF ShopCommit
      <3>3. ASSUME NEW w \in Workers, NEW e \in outbox, WebhookRead(w, e)
            PROVE  req'[v] = req[v] \/ (e.type = "payment.captured" /\ req'[v].id = e.id)
        BY <3>3 DEF WebhookRead
      <3>4. ASSUME NEW w \in Workers, WebhookBegin(w)
            PROVE  req'[v] = req[v] \/ (req'[v].id = req[v].id /\ req[v].pc # "idle")
        BY <3>4 DEF WebhookBegin
      <3>5. ASSUME NEW w \in Workers, WebhookTransitionInDefaultChannel(w)
            PROVE  req'[v] = req[v] \/ (req'[v].id = req[v].id /\ req[v].pc # "idle")
        <4>1. req[w] \in [pc : {"txn"}, id : Payments, state : OrderStates,
                          paid : SUBSET Txns, view : OrderRows]
          BY <3>5 DEF WebhookTransitionInDefaultChannel, WebhookRequests
        <4>2. req'[w] = [req[w] EXCEPT !.state = "ArrangingPayment",
                                       !.view = [@ EXCEPT !.state = "ArrangingPayment"]]
          BY <3>5 DEF WebhookTransitionInDefaultChannel
        <4>3. req'[w].id = req[w].id /\ req[w].pc # "idle"
          BY <4>1, <4>2
        <4>4. v # w => req'[v] = req[v]
          BY <3>5 DEF WebhookTransitionInDefaultChannel
        <4>5. QED
          BY <4>3, <4>4
      <3>6. ASSUME NEW w \in Workers, WebhookCommit(w)
            PROVE  req'[v] = req[v] \/ req'[v].pc = "idle"
        BY <3>6 DEF WebhookCommit
      <3>7. ASSUME NEW a \in Actors, Abort(a)
            PROVE  req'[v] = req[v] \/ req'[v].pc = "idle"
        BY <3>7 DEF Abort
      <3>8. req'[v] = req[v] => \/ req'[v].pc = "idle"
                                \/ req'[v].id = req[v].id /\ req[v].pc # "idle"
        OBVIOUS
      <3>9. QED
        BY <3>1, <3>2, <3>3, <3>4, <3>5, <3>6, <3>7, <3>8, Frame
    <2>3. \A e \in outbox : e.type = "payment.captured" => e.id \in Payments /\ Captured(e.id)
      BY DEF EventsAreTrue, TypeOK, EventsType, Events
    <2>4. \A w \in Workers : req'[w].pc # "idle" =>
             req'[w].id \in Payments /\ provider[req'[w].id].status = "captured"
      BY <2>1, <2>2, <2>3 DEF Captured
    <2>5. \A q \in Payments : provider[q].status = "captured" => provider'[q].status = "captured"
      BY <1>1 DEF Captured
    <2>6. QED
      BY <2>4, <2>5
  <1>4. QED
    <2>1. \A w \in Workers : req'[w].pc # "idle" => provider'[req'[w].id].status = "captured"
      BY <1>3
    <2>2. \A e \in outbox' \cup delivered' :
             e.type = "payment.captured" => provider'[e.id].status = "captured"
      BY <1>2 DEF Captured
    <2>3. QED
      BY <2>1, <2>2 DEF EventsAreTrue, Captured

\* A payment entered by hand closes the order, which leaves the invariant true.
LEMMA ManualKeepsBooks ==
    ASSUME Serial, TypeOK, LedgerInv, ManualPayment
    PROVE  /\ ClosedOnceBooked' /\ OneTransaction' /\ ShopPaysOpenOrder'
           /\ StaleCopyIsHarmless' /\ OnlyCapturedBooked' /\ OneRecordPerCapture'
  <1> USE DEF LedgerInv
  <1>1. /\ order'.state = "PaymentSettled"
        /\ UNCHANGED <<provider, req>>
    BY DEF ManualPayment, TypeOK, OrderType, OrderRows
  <1>2. Outstanding(order) \in Int
    BY TotalsAssumption DEF Outstanding, TypeOK, OrderType, OrderRows
  <1>3. settled' = Append(settled, [txn |-> Manual, amount |-> Outstanding(order)])
    BY DEF ManualPayment
  <1>4. \A q : q # Manual => BookedRows(q)' = BookedRows(q)
    BY <1>2, <1>3, BookRow DEF TypeOK, Txns
  <1>5. \A q \in Payments : BookedRows(q)' = BookedRows(q)
    BY <1>4, NamesAssumption
  <1>6. OnlyCapturedBooked' /\ OneRecordPerCapture'
    BY <1>1, <1>5 DEF OnlyCapturedBooked, OneRecordPerCapture, Captured
  <1>7. ClosedOnceBooked' /\ StaleCopyIsHarmless'
    BY <1>1 DEF ClosedOnceBooked, StaleCopyIsHarmless, ActiveStates
  <1>8. \A a \in Actors : req[a].pc # "txn"
    BY DEF ManualPayment, DatabaseFree
  <1>9. OneTransaction' /\ ShopPaysOpenOrder'
    BY <1>1, <1>8 DEF OneTransaction, ShopPaysOpenOrder, Actors
  <1>10. QED
    BY <1>6, <1>7, <1>9

-----------------------------------------------------------------------------
\* The conjuncts of LedgerInv are inductive together: each transaction relies
\* on the order it read being the committed one (OneTransaction), on a booked
\* payment having closed the order (ClosedOnceBooked, StaleCopyIsHarmless) and
\* on events telling the truth (EventsAreTrue).
LEMMA LedgerInvInit == Init => LedgerInv
  <1> SUFFICES ASSUME Init PROVE LedgerInv
    OBVIOUS
  <1>1. settled = <<>> /\ \A q : BookedRows(q) = {}
    BY DEF Init, BookedRows
  <1>2. \A a \in Actors : req[a].pc = "idle"
    BY DEF Init, Idle
  <1>3. ClosedOnceBooked /\ OnlyCapturedBooked /\ OneRecordPerCapture
    BY <1>1 DEF ClosedOnceBooked, OnlyCapturedBooked, OneRecordPerCapture
  <1>4. EventsAreTrue /\ OneTransaction /\ ShopPaysOpenOrder /\ StaleCopyIsHarmless
    BY <1>2 DEF Init, EventsAreTrue, OneTransaction, ShopPaysOpenOrder,
                StaleCopyIsHarmless, Actors
  <1>5. QED
    BY <1>3, <1>4 DEF LedgerInv

\* Every step keeps the strengthened invariant.
LEMMA LedgerInvStep ==
    ASSUME Serial, QuietModify, TypeOK, LedgerInv, [Next]_vars PROVE LedgerInv'
  <1>1. CASE Next
    <2>1. EventsAreTrue'
      BY <1>1, EventsStayTrue DEF LedgerInv
    <2> DEFINE Books == /\ ClosedOnceBooked' /\ OneTransaction' /\ ShopPaysOpenOrder'
                        /\ StaleCopyIsHarmless' /\ OnlyCapturedBooked'
                        /\ OneRecordPerCapture'
    <2> SUFFICES Books
      BY <2>1 DEF LedgerInv
    <2>2. CASE ShopCommit
      <3>1. /\ req[Shop].pc = "txn" /\ req[Shop].id \in Payments
            /\ req' = [req EXCEPT ![Shop] = Idle] /\ UNCHANGED provider
        BY <2>2 DEF ShopCommit, TypeOK, RequestsType, ShopRequests, Idle
      <3>2. PICK p \in Payments : p = req[Shop].id
        BY <3>1
      <3>3. Outcome(p)
        BY <2>2, <3>2, ShopOutcome DEF Outcome
      <3>4. Shop \in Actors
        BY DEF Actors
      <3>5. QED
        BY <3>1, <3>3, <3>4, CommitKeepsBooks
    <2>3. ASSUME NEW w \in Workers, WebhookCommit(w) PROVE Books
      <3>1. /\ req[w].pc = "txn" /\ req[w].id \in Payments
            /\ req' = [req EXCEPT ![w] = Idle] /\ UNCHANGED provider
        BY <2>3 DEF WebhookCommit, TypeOK, RequestsType, WebhookRequests, Idle
      <3>2. PICK p \in Payments : p = req[w].id
        BY <3>1
      <3>3. Outcome(p)
        BY <2>3, <3>2, WebhookOutcome DEF Outcome
      <3>4. w \in Actors
        BY DEF Actors
      <3>5. QED
        BY <3>1, <3>3, <3>4, CommitKeepsBooks
    <2>4. CASE ManualPayment
      BY <2>4, ManualKeepsBooks
    <2>5. QED
      BY <1>1, <2>2, <2>3, <2>4, OtherStepsKeepBooks
  <1>2. CASE UNCHANGED vars
    BY <1>2 DEF vars, LedgerInv, ClosedOnceBooked, EventsAreTrue, OneTransaction,
                ShopPaysOpenOrder, StaleCopyIsHarmless, OnlyCapturedBooked,
                OneRecordPerCapture, BookedRows, Captured
  <1>3. QED
    BY <1>1, <1>2

-----------------------------------------------------------------------------
\* Where the database runs transactions one by one and orders are modified only
\* while no webhook is being served, the storefront and any number of repeated,
\* delayed, dying webhook requests record every captured payment at most once,
\* although each webhook decides on a copy of the order read before its
\* transaction (razorpay.controller.ts:69, 120-127).
THEOREM BooksAreRight ==
    ASSUME Serial, QuietModify PROVE Spec => []LedgerInv
  <1>1. TypeOK /\ LedgerInv /\ [Next]_vars => LedgerInv'
    BY LedgerInvStep
  <1>2. QED
    BY <1>1, LedgerInvInit, TypeCorrect, PTL DEF Spec

\* The statement the run RazorpaySafety checks, on its own: no Razorpay payment
\* is recorded as Settled twice.
THEOREM RecordedOnce ==
    ASSUME Serial, QuietModify PROVE Spec => []OneRecordPerCapture
  <1>1. LedgerInv => OneRecordPerCapture
    BY DEF LedgerInv
  <1>2. QED
    BY <1>1, BooksAreRight, PTL

\* What a step does to the rows: nothing, or it adds one, for a captured payment
\* that has none yet or for the administrator's payment.
LEMMA RowsOfStep ==
    ASSUME Serial, QuietModify, TypeOK, LedgerInv, Next
    PROVE  \/ UNCHANGED settled
           \/ /\ UNCHANGED provider
              /\ \E x \in Int : settled' = Append(settled, [txn |-> Manual, amount |-> x])
           \/ /\ UNCHANGED provider
              /\ \E p \in Payments, x \in Int :
                    /\ Captured(p) /\ BookedRows(p) = {}
                    /\ settled' = Append(settled, [txn |-> p, amount |-> x])
  <1>1. CASE ShopCommit
    <2>1. req[Shop].id \in Payments /\ UNCHANGED provider
      BY <1>1 DEF ShopCommit, TypeOK, RequestsType, ShopRequests, Idle
    <2>2. QED
      BY <1>1, <2>1, ShopOutcome DEF Outcome
  <1>2. ASSUME NEW w \in Workers, WebhookCommit(w)
        PROVE  \/ UNCHANGED settled
               \/ /\ UNCHANGED provider
                  /\ \E p \in Payments, x \in Int :
                        /\ Captured(p) /\ BookedRows(p) = {}
                        /\ settled' = Append(settled, [txn |-> p, amount |-> x])
    <2>1. req[w].id \in Payments /\ UNCHANGED provider
      BY <1>2 DEF WebhookCommit, TypeOK, RequestsType, WebhookRequests, Idle
    <2>2. QED
      BY <1>2, <2>1, WebhookOutcome DEF Outcome
  <1>3. CASE ManualPayment
    <2>1. Outstanding(order) \in Int
      BY TotalsAssumption DEF Outstanding, TypeOK, OrderType, OrderRows
    <2>2. QED
      BY <1>3, <2>1 DEF ManualPayment
  <1>4. CASE UNCHANGED settled
    BY <1>4
  <1>5. QED
    BY <1>1, <1>2, <1>3, <1>4, Frame
       DEF ModifyOrder, EditOrder, EnterCheckout, LeaveCheckout,
           WebhookTransitionInDefaultChannel

\* Once a Razorpay payment is booked, no step of the storefront, a webhook or an
\* administrator turns the order into an open cart.
THEOREM StaysPlaced ==
    ASSUME Serial, QuietModify PROVE Spec => NeverReopened
  <1>1. ASSUME TypeOK, LedgerInv, LedgerInv', [Next]_vars
        PROVE  [(\E p \in Payments : BookedRows(p) # {})
                   => order'.state \notin ActiveStates]_vars
    <2>1. CASE UNCHANGED vars
      BY <2>1
    <2>2. CASE Next
      <3>1. SUFFICES ASSUME \E p \in Payments : BookedRows(p) # {}
                     PROVE  order'.state \notin ActiveStates
        OBVIOUS
      <3>2. settled # <<>>
        BY <3>1 DEF BookedRows
      <3>3. settled' # <<>>
        <4>1. CASE UNCHANGED settled
          BY <3>2, <4>1
        <4>2. ASSUME NEW p \in Txns, NEW x \in Int,
                     settled' = Append(settled, [txn |-> p, amount |-> x])
              PROVE  settled' # <<>>
          BY <4>2, BookRow, <1>1 DEF TypeOK
        <4>3. QED
          BY <1>1, <2>2, <4>1, <4>2, RowsOfStep DEF Txns
      <3>4. QED
        BY <1>1, <3>3 DEF LedgerInv, ClosedOnceBooked
    <2>3. QED
      BY <1>1, <2>1, <2>2
  <1>2. QED
    BY <1>1, TypeCorrect, BooksAreRight, PTL DEF Spec, NeverReopened

-----------------------------------------------------------------------------
\* Until the first payment is booked the order is an open cart, nothing of it is
\* covered, and every checkout opened for it asks for what it costs now, unless
\* the cart has been changed since.
CartIsAsCharged ==
    settled = <<>> =>
        /\ order.state \in ActiveStates
        /\ order.covered = 0
        /\ \A p \in Payments :
               Opened(p) /\ p \notin outdated => provider[p].amount = order.total

\* A checkout keeps the amount it was opened with, the total of the order then.
LEMMA ChargeStays ==
    ASSUME ProviderType, Next, NEW p \in Payments
    PROVE  /\ Opened(p) => provider'[p].amount = provider[p].amount
           /\ ~Opened(p) /\ provider'[p].status # "none" =>
                 /\ provider'[p].amount = order.total
                 /\ UNCHANGED <<order, settled>>
  <1>1. ASSUME NEW q \in Payments, Capture(q) \/ FailCheckout(q)
        PROVE  /\ provider'[p].amount = provider[p].amount
               /\ Opened(p) \/ provider'[p].status = "none"
    BY <1>1 DEF Capture, FailCheckout, FinishCheckout, ProviderType, Opened
  <1>2. ASSUME NEW q \in Payments, CreateRazorpayOrder(q)
        PROVE  /\ provider'[p] = IF p = q THEN [status |-> "created",
                                               amount |-> order.total]
                                 ELSE provider[p]
               /\ ~Opened(q) /\ UNCHANGED <<order, settled>>
    BY <1>2 DEF CreateRazorpayOrder, ProviderType
  <1>3. CASE \E q \in Payments : Capture(q) \/ FailCheckout(q)
    BY <1>1, <1>3
  <1>4. CASE \E q \in Payments : CreateRazorpayOrder(q)
    BY <1>2, <1>4 DEF Opened
  <1>5. CASE UNCHANGED provider
    BY <1>5 DEF Opened
  <1>6. QED
    BY <1>3, <1>4, <1>5, Frame

\* A transaction that ends has written nothing, or it has booked a captured
\* payment with the amount the order had outstanding.
LEMMA CommitBooksOutstanding ==
    ASSUME TypeOK, LedgerInv, ShopCommit \/ \E w \in Workers : WebhookCommit(w)
    PROVE  \/ UNCHANGED <<order, settled>>
           \/ \E p \in Payments :
                /\ Captured(p)
                /\ settled' = Append(settled, [txn |-> p,
                                               amount |-> Outstanding(order)])
  <1>1. ASSUME NEW p \in Payments, NEW from, AddPayment(p, from, order)
        PROVE  \/ UNCHANGED <<order, settled>>
               \/ /\ Captured(p)
                  /\ settled' = Append(settled, [txn |-> p,
                                                 amount |-> Outstanding(order)])
    BY <1>1 DEF AddPayment, SignatureValid
  <1>2. CASE ShopCommit
    <2>1. req[Shop].id \in Payments
      BY <1>2 DEF ShopCommit, TypeOK, RequestsType, ShopRequests, Idle
    <2>2. req[Shop].view = order
      BY <1>2 DEF LedgerInv, OneTransaction, ShopCommit, Actors
    <2>3. AddPayment(req[Shop].id, order.state, order)
      BY <1>2, <2>2 DEF ShopCommit
    <2>4. QED
      BY <1>1, <2>1, <2>3
  <1>3. ASSUME NEW w \in Workers, WebhookCommit(w)
        PROVE  \/ UNCHANGED <<order, settled>>
               \/ /\ Captured(req[w].id)
                  /\ settled' = Append(settled, [txn |-> req[w].id,
                                                 amount |-> Outstanding(order)])
    <2>1. req[w].id \in Payments
      BY <1>3 DEF WebhookCommit, TypeOK, RequestsType, WebhookRequests, Idle
    <2>2. req[w].view = order
      BY <1>3 DEF LedgerInv, OneTransaction, WebhookCommit, Actors
    <2>3. \/ UNCHANGED <<order, settled>>
          \/ AddPayment(req[w].id, "ArrangingPayment", order)
          \/ AddPayment(req[w].id, order.state, order)
      BY <1>3, <2>2 DEF WebhookCommit
    <2>4. QED
      BY <1>1, <2>1, <2>3
  <1>4. ASSUME NEW w \in Workers, WebhookCommit(w) PROVE req[w].id \in Payments
    BY <1>4 DEF WebhookCommit, TypeOK, RequestsType, WebhookRequests, Idle
  <1>5. QED
    BY <1>2, <1>3, <1>4

\* The cart after a step that books nothing: it is still open, nothing is covered,
\* and its total has changed only if every checkout opened so far is outdated.
LEMMA CartOfStep ==
    ASSUME TypeOK, LedgerInv, CartIsAsCharged, Next,
           settled = <<>>, settled' = <<>>
    PROVE  /\ order'.state \in ActiveStates
           /\ order'.covered = 0
           /\ \/ order'.total = order.total
              \/ \A p \in Payments : Opened(p) => p \in outdated'
  <1>1. order.state \in ActiveStates /\ order.covered = 0
    BY DEF CartIsAsCharged
  <1>2. order \in OrderRows
    BY DEF TypeOK, OrderType
  <1>3. CASE UNCHANGED order
    BY <1>1, <1>3
  <1>4. ASSUME NEW total \in Totals, ModifyOrder(total) PROVE FALSE
    BY <1>1, <1>4 DEF ModifyOrder, CanTransition, OrderTransitions, ActiveStates
  <1>5. CASE ManualPayment
    BY <1>1, <1>5 DEF ManualPayment, ActiveStates
  <1>6. ASSUME NEW total \in Totals, EditOrder(total)
        PROVE  /\ order'.state = order.state /\ order'.covered = order.covered
               /\ \A p \in Payments : Opened(p) => p \in outdated'
    BY <1>2, <1>6 DEF EditOrder, OrderRows
  <1>7. CASE \/ EnterCheckout \/ LeaveCheckout
             \/ \E w \in Workers : WebhookTransitionInDefaultChannel(w)
    <2>1. /\ order'.state \in {"ArrangingPayment", "AddingItems"}
          /\ order'.covered = order.covered /\ order'.total = order.total
      BY <1>2, <1>7 DEF EnterCheckout, LeaveCheckout,
                        WebhookTransitionInDefaultChannel, OrderRows
    <2>2. QED
      BY <1>1, <2>1 DEF ActiveStates
  <1>8. CASE ShopCommit \/ \E w \in Workers : WebhookCommit(w)
    <2>1. ASSUME NEW p \in Payments,
                 settled' = Append(settled, [txn |-> p, amount |-> Outstanding(order)])
          PROVE  FALSE
      <3>1. Outstanding(order) \in Int
        BY <1>2, TotalsAssumption DEF Outstanding, OrderRows
      <3>2. QED
        BY <2>1, <3>1, BookRow DEF TypeOK, Txns
    <2>2. UNCHANGED order
      BY <1>8, <2>1, CommitBooksOutstanding
    <2>3. QED
      BY <1>3, <2>2
  <1>9. QED
    BY <1>1, <1>3, <1>4, <1>5, <1>6, <1>7, <1>8, Frame

\* The row that a step adds to an order without rows is for what its payment was
\* charged, or its checkout is outdated.
LEMMA FirstRowOfStep ==
    ASSUME TypeOK, LedgerInv, CartIsAsCharged, Next,
           settled = <<>>, settled' # <<>>
    PROVE  PlacedForTheCharge'
  <1>1. order.state \in ActiveStates /\ order.covered = 0
    BY DEF CartIsAsCharged
  <1>2. ~ManualPayment
    BY <1>1 DEF ManualPayment, ActiveStates
  <1>3. ShopCommit \/ \E w \in Workers : WebhookCommit(w)
    BY <1>2, Frame DEF ModifyOrder, EditOrder, EnterCheckout, LeaveCheckout,
                       WebhookTransitionInDefaultChannel
  <1>4. UNCHANGED <<provider, outdated>>
    BY <1>3 DEF ShopCommit, WebhookCommit
  <1>5. PICK p \in Payments :
            /\ Captured(p)
            /\ settled' = Append(settled, [txn |-> p, amount |-> Outstanding(order)])
    BY <1>3, CommitBooksOutstanding
  <1>6. provider[p].amount = order.total \/ p \in outdated
    BY <1>5 DEF CartIsAsCharged, Captured, Opened
  <1>7. Outstanding(order) = order.total /\ Outstanding(order) \in Int
    BY <1>1, TotalsAssumption DEF Outstanding, TypeOK, OrderType, OrderRows
  <1>8. settled'[1] = [txn |-> p, amount |-> Outstanding(order)]
    BY <1>5
  <1>9. QED
    BY <1>4, <1>6, <1>7, <1>8 DEF PlacedForTheCharge

\* Nothing is done to the first row once it is there.
LEMMA FirstRowStays ==
    ASSUME Serial, QuietModify, TypeOK, LedgerInv, Next, settled # <<>>
    PROVE  settled' # <<>> /\ settled'[1] = settled[1]
  <1>1. CASE UNCHANGED settled
    BY <1>1
  <1>2. ASSUME NEW p \in Txns, NEW x \in Int,
               settled' = Append(settled, [txn |-> p, amount |-> x])
        PROVE  settled' # <<>> /\ settled'[1] = settled[1]
    <2> DEFINE row == [txn |-> p, amount |-> x]
               Rows == [txn : Txns, amount : Int]
    <2>1. row \in Rows /\ settled' = Append(settled, row) /\ settled \in Seq(Rows)
      BY <1>2 DEF TypeOK, OrderType
    <2> HIDE DEF row, Rows
    <2>2. Len(settled) >= 1
      BY <2>1
    <2>3. QED
      BY <2>1, <2>2, AppendRow
  <1>3. QED
    BY <1>1, <1>2, RowsOfStep DEF Txns

\* One step keeps both: the cart is as charged, the order placed for the charge.
LEMMA ChargeStep ==
    ASSUME Serial, QuietModify, TypeOK, LedgerInv,
           CartIsAsCharged, PlacedForTheCharge, [Next]_vars
    PROVE  CartIsAsCharged' /\ PlacedForTheCharge'
  <1>1. CASE UNCHANGED vars
    BY <1>1 DEF vars, CartIsAsCharged, PlacedForTheCharge, Opened
  <1>2. CASE Next /\ settled # <<>>
    <2>1. settled' # <<>> /\ settled'[1] = settled[1]
      BY <1>2, FirstRowStays
    <2>2. PICK p \in Payments : p = settled[1].txn
      BY <1>2 DEF PlacedForTheCharge
    <2>3. settled[1].amount = provider[p].amount \/ p \in outdated
      BY <1>2, <2>2 DEF PlacedForTheCharge
    <2>4. Opened(p)
      <3>1. 1 \in DOMAIN settled
        BY <1>2 DEF TypeOK, OrderType
      <3>2. BookedRows(p) # {}
        BY <2>2, <3>1 DEF BookedRows
      <3>3. QED
        BY <3>2 DEF LedgerInv, OnlyCapturedBooked, Captured, Opened
    <2>5. provider'[p].amount = provider[p].amount
      BY <1>2, <2>4, ChargeStays DEF TypeOK
    <2>6. outdated \subseteq outdated'
      BY <1>2, OutdatedStep
    <2>7. QED
      BY <2>1, <2>2, <2>3, <2>5, <2>6 DEF CartIsAsCharged, PlacedForTheCharge
  <1>3. CASE Next /\ settled = <<>> /\ settled' # <<>>
    BY <1>3, FirstRowOfStep DEF CartIsAsCharged
  <1>4. CASE Next /\ settled = <<>> /\ settled' = <<>>
    <2>1. /\ order'.state \in ActiveStates /\ order'.covered = 0
          /\ \/ order'.total = order.total
             \/ \A p \in Payments : Opened(p) => p \in outdated'
      BY <1>4, CartOfStep
    <2>2. ASSUME NEW p \in Payments, provider'[p].status # "none", p \notin outdated'
          PROVE  provider'[p].amount = order'.total
      <3>1. CASE Opened(p)
        <4>1. order'.total = order.total
          BY <2>1, <2>2, <3>1
        <4>2. provider[p].amount = order.total
          BY <1>4, <2>2, <3>1, OutdatedStep DEF CartIsAsCharged
        <4>3. QED
          BY <1>4, <3>1, <4>1, <4>2, ChargeStays DEF TypeOK
      <3>2. CASE ~Opened(p)
        BY <1>4, <2>2, <3>2, ChargeStays DEF TypeOK
      <3>3. QED
        BY <3>1, <3>2
    <2>3. QED
      BY <1>4, <2>1, <2>2 DEF CartIsAsCharged, PlacedForTheCharge, Opened
  <1>5. QED
    BY <1>1, <1>2, <1>3, <1>4

\* The order is placed by a Razorpay payment and books what that payment was
\* charged, unless its contents were changed after the checkout was opened:
\* whatever the storefront does, however requests overlap, die or are repeated,
\* nothing else makes the amount booked and the amount charged differ, although
\* razorpay.handler.createPayment is not told the amount of the Razorpay order
\* and records whatever is outstanding.
THEOREM PlacedAtTheCharge ==
    ASSUME Serial, QuietModify PROVE Spec => []PlacedForTheCharge
  <1>1. Init => CartIsAsCharged /\ PlacedForTheCharge
    BY DEF Init, CartIsAsCharged, PlacedForTheCharge, ActiveStates, Opened
  <1>2. /\ TypeOK /\ LedgerInv /\ CartIsAsCharged /\ PlacedForTheCharge
        /\ [Next]_vars
        => CartIsAsCharged' /\ PlacedForTheCharge'
    BY ChargeStep
  <1>3. QED
    BY <1>1, <1>2, TypeCorrect, BooksAreRight, PTL DEF Spec

-----------------------------------------------------------------------------
\* The detailed specification keeps the books of PaymentLedger.
Book(rows) == [i \in DOMAIN rows |-> rows[i].txn]

\* An entry at the end of the books is an entry at the end of what the ledger sees.
LEMMA BookAppend ==
    ASSUME NEW rows \in Seq([txn : Txns, amount : Int]), NEW p \in Txns, NEW x \in Int
    PROVE  Book(Append(rows, [txn |-> p, amount |-> x])) = Append(Book(rows), p)
  <1> DEFINE row == [txn |-> p, amount |-> x]
             longer == Append(rows, row)
             n == Len(rows)
  <1>1. row \in [txn : Txns, amount : Int] /\ row.txn = p
    OBVIOUS
  <1>2. n \in Nat /\ DOMAIN rows = 1..n /\ DOMAIN longer = 1..(n + 1)
        /\ longer[n + 1] = row /\ \A i \in 1..n : longer[i] = rows[i]
    <2> HIDE DEF row
    <2>1. QED
      BY <1>1, AppendRow
  <1>3. Book(rows) \in Seq(Txns) /\ Len(Book(rows)) = n
    <2>1. \A i \in 1..n : rows[i].txn \in Txns
      <3> DEFINE Rows == [txn : Txns, amount : Int]
      <3>1. \A r \in Rows : r.txn \in Txns
        OBVIOUS
      <3>2. \A i \in DOMAIN rows : rows[i] \in Rows
        <4> HIDE DEF Rows
        <4>1. rows \in Seq(Rows)
          BY DEF Rows
        <4>2. QED
          BY <4>1, RowOfSeq
      <3>3. QED
        BY <1>2, <3>1, <3>2
    <2>2. Book(rows) \in [1..n -> Txns]
      BY <1>2, <2>1 DEF Book
    <2>3. Book(rows) \in Seq(Txns)
      BY <1>2, <2>2, SeqDef
    <2>4. DOMAIN Book(rows) = 1..n
      BY <2>2
    <2>5. QED
      BY <1>2, <2>3, <2>4, LenProperties
  <1>4. Append(Book(rows), p) \in Seq(Txns) /\ Len(Append(Book(rows), p)) = n + 1
        /\ Append(Book(rows), p)[n + 1] = p
        /\ \A i \in 1..n : Append(Book(rows), p)[i] = Book(rows)[i]
    BY <1>3, AppendRow
  <1>5. \A i \in 1..(n + 1) : Book(longer)[i] = Append(Book(rows), p)[i]
    <2>1. \A i \in 1..n : Book(longer)[i] = rows[i].txn /\ Book(rows)[i] = rows[i].txn
      BY <1>2 DEF Book
    <2>2. Book(longer)[n + 1] = p
      BY <1>1, <1>2 DEF Book
    <2>3. QED
      BY <1>2, <1>4, <2>1, <2>2
  <1>6. Book(longer) \in Seq(Txns) /\ Len(Book(longer)) = n + 1
    <2>1. DOMAIN Book(longer) = 1..(n + 1)
      BY <1>2 DEF Book
    <2>2. \A i \in 1..(n + 1) : Book(longer)[i] \in Txns
      BY <1>4, <1>5, ElementOfSeq
    <2>3. Book(longer) = [i \in 1..(n + 1) |-> Book(longer)[i]]
      BY <2>1 DEF Book
    <2>4. Book(longer) \in [1..(n + 1) -> Txns]
      BY <2>2, <2>3
    <2>5. Book(longer) \in Seq(Txns)
      BY <1>2, <2>4, SeqDef
    <2>6. QED
      BY <1>2, <2>1, <2>5, LenProperties
  <1>7. QED
    BY <1>4, <1>5, <1>6, SeqEqual

\* A step of the system is a step of the ledger, or leaves it alone.
LEMMA LedgerStep ==
    ASSUME Serial, QuietModify, TypeOK, LedgerInv, [Next]_vars
    PROVE  [Ledger!Next]_(Ledger!ledgerVars)
  <1> DEFINE Taken == {p \in Payments : Captured(p)}
  <1>1. CASE UNCHANGED vars
    BY <1>1 DEF vars, Ledger!ledgerVars, Captured
  <1>2. CASE Next
    <2>1. CASE UNCHANGED settled
      <3>1. \/ UNCHANGED provider
            \/ \E p \in Payments : Capture(p) \/ FailCheckout(p) \/ CreateRazorpayOrder(p)
        BY <1>2, Frame
      <3>2. ASSUME NEW p \in Payments, Capture(p)
            PROVE  Taken' = Taken \cup {p}
        BY <3>2 DEF Capture, FinishCheckout, Captured, TypeOK, ProviderType
      <3>3. ASSUME NEW p \in Payments, FailCheckout(p) \/ CreateRazorpayOrder(p)
            PROVE  Taken' = Taken
        BY <3>3 DEF FailCheckout, FinishCheckout, CreateRazorpayOrder, Opened,
                    Captured, TypeOK, ProviderType
      <3>4. UNCHANGED provider => Taken' = Taken
        BY DEF Captured
      <3>5. UNCHANGED [i \in DOMAIN settled |-> settled[i].txn]
        BY <2>1
      <3>6. QED
        BY <3>1, <3>2, <3>3, <3>4, <3>5
           DEF Ledger!Next, Ledger!Capture, Ledger!ledgerVars
    <2>2. ASSUME NEW x \in Int, UNCHANGED provider,
                 settled' = Append(settled, [txn |-> Manual, amount |-> x])
          PROVE  Ledger!EnterOther
      <3>1. Book(settled') = Append(Book(settled), Manual)
        BY <2>2, BookAppend DEF TypeOK, OrderType, Txns
      <3>2. Taken' = Taken
        BY <2>2 DEF Captured
      <3>3. QED
        BY <3>1, <3>2 DEF Ledger!EnterOther, Book
    <2>3. ASSUME UNCHANGED provider, NEW p \in Payments, NEW x \in Int, Captured(p),
                 BookedRows(p) = {},
                 settled' = Append(settled, [txn |-> p, amount |-> x])
          PROVE  Ledger!Enter(p)
      <3>1. Book(settled') = Append(Book(settled), p)
        BY <2>3, BookAppend DEF TypeOK, OrderType, Txns
      <3>2. Taken' = Taken
        BY <2>3 DEF Captured
      <3>3. ~Ledger!Entered(p)
        BY <2>3 DEF Ledger!Entered, BookedRows
      <3>4. QED
        BY <2>3, <3>1, <3>2, <3>3 DEF Ledger!Enter, Book
    <2>4. QED
      BY <1>2, <2>1, <2>2, <2>3, RowsOfStep DEF Ledger!Next
  <1>3. QED
    BY <1>1, <1>2

\* The storefront and the webhooks together implement the ledger: whatever they
\* do, and in whatever order, is entering captured payments one after the other,
\* each of them once.
THEOREM ImplementsLedger ==
    ASSUME Serial, QuietModify PROVE Spec => RefinesLedger
  <1>1. Init => Ledger!Init
    BY DEF Init, Ledger!Init, Captured
  <1>2. TypeOK /\ LedgerInv /\ [Next]_vars => [Ledger!Next]_(Ledger!ledgerVars)
    BY LedgerStep
  <1>3. QED
    BY <1>1, <1>2, TypeCorrect, BooksAreRight, PTL DEF Spec, RefinesLedger, Ledger!Spec

=============================================================================
