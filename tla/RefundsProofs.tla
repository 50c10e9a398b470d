--------------------------- MODULE RefundsProofs ----------------------------
(***************************************************************************)
(* Proofs about GatewayRefunds, for any number of refunds, administrators  *)
(* and webhook workers: that what the shop shows as Settled is money the   *)
(* gateway has returned, and that money that is returned is in the books.  *)
(*                                                                         *)
(* Neither is inductive.  What holds them up is said by the parts of       *)
(* RefundsInv: what the gateway has told, in an answer or in an event, is  *)
(* still true of the refund, and no two of the answers and rows name one   *)
(* refund.                                                                 *)
(***************************************************************************)
EXTENDS GatewayRefunds, Sums

\* The refunds that the gateway has created, and the two sums' functions.
Made == {r \in Refunds : provider[r].status # "none"}
Amount == [r \in Refunds |-> provider[r].amount]
CallAmount == [a \in Answered |-> call[a].amount]

\* Only finitely many refunds have been made and calls answered: the sums are over finite sets.
Finitely == IsFiniteSet(Made) /\ IsFiniteSet(Answered)

\* What an event says of a refund that has ended stays true of it.
IsTrue(e) ==
    /\ gateway \in Notifying
    /\ e.status \in Terminal => provider[e.id].status = e.status
    /\ e.status = "pending" => StatusEvents

EventsAreTrue ==
    /\ \A e \in outbox \cup delivered : IsTrue(e)
    /\ \A w \in Workers : hook[w].pc = "found" =>
          /\ IsTrue(hook[w].event)
          /\ hook[w].row \in DOMAIN rows
          /\ rows[hook[w].row].txn = hook[w].event.id

\* An answer is about a refund of its own that no row names yet.  Its status is that of the
\* refund, unless the refund is an instant one and has ended since.
AnswerMatches(a) ==
    LET c == call[a] IN
    /\ provider[c.id].amount = Asked(c.amount)
    /\ \/ provider[c.id].status = c.status
       \/ c.status = "pending" /\ provider[c.id].instant /\ provider[c.id].status \in Terminal
    /\ \A i \in DOMAIN rows : rows[i].txn # c.id
    /\ \A b \in Answered : call[b].id = c.id => b = a

AnswersMatch ==
    /\ \A r \in Refunds : provider[r].instant => gateway \in Notifying
    /\ \A a \in Answered : AnswerMatches(a)

\* A row that names a refund names one that was made.  With Razorpay and Cashfree it is its
\* only row and shows its amount, and it is Settled only if the refund was processed.
RowMatches(i) ==
    /\ rows[i].txn \in Refunds => provider[rows[i].txn].status # "none"
    /\ gateway \in Notifying =>
          /\ rows[i].state # "Failed" => rows[i].txn \in Refunds
          /\ rows[i].txn \in Refunds =>
                /\ provider[rows[i].txn].amount = rows[i].total
                /\ rows[i].state = "Settled" => provider[rows[i].txn].status = "processed"
                /\ \A n \in DOMAIN rows : rows[n].txn = rows[i].txn => n = i

RowsMatch == \A i \in DOMAIN rows : RowMatches(i)

RefundsInv == TypeOK /\ Finitely /\ EventsAreTrue /\ AnswersMatch /\ RowsMatch

\* The answered calls whose row will be Settled at once.
Settling ==
    {a \in Answered : \/ call[a].status = "processed"
                      \/ call[a].status = "pending" /\ gateway \in Trusting}

\* Without a webhook the rows do not say which refund they stand for: what is shown as
\* Settled, with what is about to be, is covered by what the gateway gives back.
Covered ==
    gateway \notin Notifying =>
        SettledTotal + SumFunctionOnSet(CallAmount, Settling) <= GivenBack

\* The answered calls whose row will not be Failed.
Booking == {a \in Answered : call[a].status # "failed"}

\* A refund that has not failed is in the books: by name where there is a webhook, otherwise
\* by the amounts.
Booked ==
    ~lost =>
        IF gateway \in Notifying
        THEN \A r \in Refunds : provider[r].status \in {"pending", "processed"} =>
                \/ \E i \in NotFailed : rows[i].txn = r
                \/ \E a \in Answered : call[a].id = r
        ELSE Returned <= SumFunctionOnSet(RowTotal, NotFailed)
                         + SumFunctionOnSet(CallAmount, Booking)

-----------------------------------------------------------------------------
\* The fields of a row, by its type.
LEMMA RowFields ==
    ASSUME TypeOK, NEW i \in DOMAIN rows
    PROVE  /\ rows[i] \in [state : RefundStates, txn : Refunds \cup {Payment}, total : Amounts]
           /\ rows[i].state \in RefundStates
           /\ rows[i].txn \in Refunds \cup {Payment}
           /\ rows[i].total \in Amounts
<1> DEFINE R == [state : RefundStates, txn : Refunds \cup {Payment}, total : Amounts]
<1>1. rows[i] \in R
    <2>1. rows \in Seq(R)
        BY DEF TypeOK
    <2> HIDE DEF R
    <2> QED BY <2>1
<1> QED BY <1>1

\* The sums of the model are over finite sets of natural numbers.
LEMMA SumsOfRefunds ==
    ASSUME TypeOK, Finitely, NEW S \in SUBSET Made
    PROVE  /\ IsFiniteSet(S) /\ \A r \in S : Amount[r] \in Nat
           /\ SumFunctionOnSet(Amount, S) \in Nat
<1>1. \A r \in S : Amount[r] \in Nat
    BY DEF TypeOK, Made, Amount
<1>2. IsFiniteSet(S)
    BY FS_Subset DEF Finitely
<1> QED BY <1>1, <1>2, SumType

\* The same of rows.
LEMMA SumsOfRows ==
    ASSUME TypeOK, NEW S \in SUBSET DOMAIN rows
    PROVE  /\ IsFiniteSet(S) /\ \A i \in S : RowTotal[i] \in Nat
           /\ SumFunctionOnSet(RowTotal, S) \in Nat
<1>1. \A i \in S : RowTotal[i] \in Nat
    BY RowFields, AmountsAssumption DEF RowTotal
<1>2. IsFiniteSet(S)
    <2>1. IsFiniteSet(DOMAIN rows)
        BY FS_Interval DEF TypeOK
    <2> QED BY <2>1, FS_Subset
<1> QED BY <1>1, <1>2, SumType

\* The same of answered calls.
LEMMA SumsOfCalls ==
    ASSUME TypeOK, Finitely, NEW S \in SUBSET Answered
    PROVE  /\ IsFiniteSet(S) /\ \A a \in S : CallAmount[a] \in Nat
           /\ SumFunctionOnSet(CallAmount, S) \in Nat
<1>1. \A a \in S : CallAmount[a] \in Nat
    BY AmountsAssumption DEF TypeOK, CallAmount, Calls, Answered, Idle
<1>2. IsFiniteSet(S)
    BY FS_Subset DEF Finitely
<1> QED BY <1>1, <1>2, SumType

\* What Returned adds up are refunds that were made.
LEMMA ReturnedType == TypeOK /\ Finitely => Returned \in Nat
<1> SUFFICES ASSUME TypeOK, Finitely PROVE Returned \in Nat
    OBVIOUS
<1>1. {r \in Refunds : provider[r].status \in {"pending", "processed"}} \subseteq Made
    BY DEF Made
<1> QED BY <1>1, SumsOfRefunds DEF Returned, Amount

\* A call's fields, by where it stands.
LEMMA CallFields ==
    ASSUME TypeOK, NEW a \in Admins
    PROVE  /\ call[a].pc # "idle" => call[a].amount \in Amounts
           /\ call[a].pc = "answered" => call[a].id \in Refunds /\ call[a].status \in Statuses \ {"none"}
BY DEF TypeOK, Calls, Idle

\* So is an event's.
LEMMA EventFields ==
    ASSUME NEW e \in Events
    PROVE  e.id \in Refunds /\ e.status \in {"pending"} \cup Terminal
BY DEF Events

-----------------------------------------------------------------------------
\* The gateway's steps keep the types.
LEMMA GatewayTypes ==
    ASSUME TypeOK, Finitely,
           \/ \E a \in Admins : \/ \E r \in Refunds, status \in Statuses, instant \in BOOLEAN :
                                      AcceptRefund(a, r, status, instant)
                                \/ RefuseRefund(a)
           \/ \E r \in Refunds, status \in Terminal : FinishRefund(r, status)
           \/ \E e \in delivered : Redeliver(e)
    PROVE  TypeOK'
<1> USE DEF Fault
<1>1. ASSUME NEW a \in Admins, NEW r \in Refunds, NEW status \in Statuses, NEW instant \in BOOLEAN,
             AcceptRefund(a, r, status, instant)
      PROVE  TypeOK'
    <2>1. call[a].amount \in Amounts /\ status \in {"pending"} \cup Terminal
        BY <1>1, CallFields DEF AcceptRefund, Statuses
    <2>2. Asked(call[a].amount) \in 0..Paid
        BY <1>1, <2>1, ReturnedType, AmountsAssumption DEF AcceptRefund, Asked
    <2>3. provider' \in [Refunds -> [status : Statuses, amount : 0..Paid, instant : BOOLEAN]]
        BY <1>1, <2>2 DEF AcceptRefund, TypeOK
    <2>4. outbox' \subseteq Events
        BY <1>1, <2>1 DEF AcceptRefund, TypeOK, EventsFor, Events
    <2>5. call' \in [Admins -> Calls] /\ faults' \in 0..MaxFaults /\ lost' \in BOOLEAN
        <3>1. [pc |-> "answered", amount |-> call[a].amount, id |-> r, status |-> status] \in Calls
            BY <1>1, <2>1 DEF Calls, AcceptRefund
        <3>2. [pc |-> "threw", amount |-> call[a].amount] \in Calls
            BY <2>1 DEF Calls
        <3>3. call' \in [Admins -> Calls]
            BY <1>1, <3>1, <3>2 DEF AcceptRefund, TypeOK
        <3>4. UNCHANGED <<faults, lost>> \/ (Fault /\ lost' = TRUE)
            BY <1>1 DEF AcceptRefund
        <3>5. faults' \in 0..MaxFaults
            BY <3>4, BoundsAssumption DEF TypeOK
        <3>6. lost' \in BOOLEAN
            BY <3>4 DEF TypeOK
        <3> QED BY <3>3, <3>5, <3>6
    <2> QED BY <1>1, <2>3, <2>4, <2>5 DEF AcceptRefund, TypeOK
<1>2. ASSUME NEW a \in Admins, RefuseRefund(a)
      PROVE  TypeOK'
    <2>1. call[a].amount \in Amounts
        BY <1>2, CallFields DEF RefuseRefund
    <2>2. [pc |-> IF gateway = "braintree" THEN "refused" ELSE "threw", amount |-> call[a].amount]
          \in Calls
        BY <2>1 DEF Calls
    <2> QED BY <1>2, <2>2, BoundsAssumption DEF RefuseRefund, TypeOK
<1>3. ASSUME NEW r \in Refunds, NEW status \in Terminal, FinishRefund(r, status)
      PROVE  TypeOK'
    <2>1. outbox' \subseteq Events
        BY <1>3 DEF FinishRefund, TypeOK, EventsFor, Events
    <2>2. provider' \in [Refunds -> [status : Statuses, amount : 0..Paid, instant : BOOLEAN]]
        BY <1>3 DEF FinishRefund, TypeOK, Statuses
    <2> QED BY <1>3, <2>1, <2>2 DEF FinishRefund, TypeOK
<1>4. ASSUME NEW e \in delivered, Redeliver(e)
      PROVE  TypeOK'
    BY <1>4, BoundsAssumption DEF Redeliver, TypeOK
<1> QED BY <1>1, <1>2, <1>3, <1>4

\* The mutations' steps keep the types.
LEMMA MutationTypes ==
    ASSUME TypeOK, NEW a \in Admins,
           \/ \E amount \in Amounts : RefundOrder(a, amount)
           \/ SaveRefund(a) \/ RefundOrderThrows(a) \/ RefundOrderDies(a)
    PROVE  TypeOK'
<1>0. Idle \in Calls
    BY DEF Calls
<1>1. ASSUME NEW amount \in Amounts, RefundOrder(a, amount)
      PROVE  TypeOK'
    <2>1. [pc |-> "calling", amount |-> amount] \in Calls
        BY DEF Calls
    <2> QED BY <1>1, <2>1 DEF RefundOrder, TypeOK
<1>2. ASSUME SaveRefund(a)
      PROVE  TypeOK'
    <2>1. call[a].amount \in Amounts
        BY <1>2, CallFields DEF SaveRefund
    <2>2. /\ CreateRefundResult(call[a]).state \in RefundStates
          /\ CreateRefundResult(call[a]).txn \in Refunds \cup {Payment}
        BY CallFields DEF CreateRefundResult, RefundStates
    <2>3. rows' \in Seq([state : RefundStates, txn : Refunds \cup {Payment}, total : Amounts])
        BY <1>2, <2>1, <2>2 DEF SaveRefund, TypeOK
    <2> QED BY <1>0, <1>2, <2>3 DEF SaveRefund, TypeOK
<1>3. ASSUME RefundOrderThrows(a)
      PROVE  TypeOK'
    BY <1>0, <1>3 DEF RefundOrderThrows, TypeOK
<1>4. ASSUME RefundOrderDies(a)
      PROVE  TypeOK'
    BY <1>0, <1>4, BoundsAssumption DEF RefundOrderDies, Fault, TypeOK
<1> QED BY <1>1, <1>2, <1>3, <1>4

\* Replacing a row of the list.
LEMMA RowReplaced ==
    ASSUME NEW R, NEW s \in Seq(R), NEW i \in DOMAIN s, NEW e \in R
    PROVE  [s EXCEPT ![i] = e] \in Seq(R)
OBVIOUS

\* The webhook's steps keep the types.
LEMMA WebhookTypes ==
    ASSUME TypeOK, EventsAreTrue, NEW w \in Workers, WebhookStep(w) \/ WebhookDies(w)
    PROVE  TypeOK'
<1>0. Idle \in Hooks
    BY DEF Hooks
<1>1. ASSUME NEW e \in outbox, NothingToReconcile(w, e)
      PROVE  TypeOK'
    BY <1>1 DEF NothingToReconcile, Acknowledge, TypeOK
<1>2. ASSUME NEW e \in outbox, FindRefund(w, e)
      PROVE  TypeOK'
    <2>1. PICK i \in RowsOf(e.id) :
              hook' = [hook EXCEPT ![w] = [pc |-> "found", event |-> e, row |-> i]]
        BY <1>2 DEF FindRefund
    <2>2. [pc |-> "found", event |-> e, row |-> i] \in Hooks
        BY DEF Hooks, RowsOf, TypeOK
    <2> QED BY <1>2, <2>1, <2>2 DEF FindRefund, TypeOK
<1>3. ASSUME TransitionRefund(w)
      PROVE  TypeOK'
    <2>1. hook[w].event \in Events
        BY <1>3 DEF TransitionRefund, TypeOK, Hooks, Idle
    <2>2. rows' \in Seq([state : RefundStates, txn : Refunds \cup {Payment}, total : Amounts])
        <3> DEFINE R == [state : RefundStates, txn : Refunds \cup {Payment}, total : Amounts]
                   row == hook[w].row
                   new == [rows[row] EXCEPT !.state = NewState(hook[w].event)]
        <3>1. row \in DOMAIN rows
            BY <1>3 DEF TransitionRefund, EventsAreTrue
        <3>2. new \in R
            <4>1. NewState(hook[w].event) \in RefundStates
                BY DEF NewState, RefundStates
            <4> QED BY <3>1, <4>1, RowFields
        <3>3. rows' = [rows EXCEPT ![row] = new] \/ rows' = rows
            BY <1>3 DEF TransitionRefund
        <3>4. rows \in Seq(R)
            BY DEF TypeOK
        <3> HIDE DEF row, new, R
        <3>5. rows' \in Seq(R)
            BY <3>1, <3>2, <3>3, <3>4, RowReplaced
        <3> QED BY <3>5 DEF R
    <2> QED BY <1>0, <1>3, <2>1, <2>2 DEF TransitionRefund, Acknowledge, TypeOK
<1>4. ASSUME WebhookDies(w)
      PROVE  TypeOK'
    BY <1>0, <1>4, BoundsAssumption DEF WebhookDies, Fault, TypeOK
<1> QED BY <1>1, <1>2, <1>3, <1>4 DEF WebhookStep

-----------------------------------------------------------------------------
\* One plugin takes the payment.
LEMMA GatewayStays == Next => gateway' = gateway
BY ZenonT(60) DEF Next, AcceptRefund, RefuseRefund, FinishRefund, Redeliver, RefundOrder, SaveRefund,
       RefundOrderThrows, RefundOrderDies, WebhookStep, NothingToReconcile, FindRefund,
       TransitionRefund, WebhookDies

\* What is lost is not found again.
LEMMA LostStays == Next => (lost => lost')
<1> SUFFICES ASSUME Next, lost PROVE lost'
    OBVIOUS
<1>1. ASSUME NEW a \in Admins, NEW r \in Refunds, NEW status \in Statuses, NEW instant \in BOOLEAN,
             AcceptRefund(a, r, status, instant)
      PROVE  lost' = lost \/ lost' = TRUE
    BY <1>1 DEF AcceptRefund
<1>2. ASSUME NEW a \in Admins, RefundOrderDies(a)
      PROVE  lost' = TRUE
    BY <1>2 DEF RefundOrderDies
<1>3. \/ lost' = lost \/ lost' = TRUE
    BY <1>1, <1>2
    DEF Next, RefuseRefund, FinishRefund, Redeliver, RefundOrder, SaveRefund, RefundOrderThrows,
        WebhookStep, NothingToReconcile, FindRefund, TransitionRefund, WebhookDies
<1> QED BY <1>3

-----------------------------------------------------------------------------
\* A step makes at most one refund and answers at most one call.
LEMMA FinitelyStep == TypeOK /\ Finitely /\ [Next]_vars => Finitely'
<1> SUFFICES ASSUME TypeOK, Finitely, \E r : Made' \subseteq Made \cup {r},
                    \E a : Answered' \subseteq Answered \cup {a}
             PROVE  Finitely'
    <2> SUFFICES ASSUME TypeOK, [Next]_vars
                 PROVE  /\ \E r : Made' \subseteq Made \cup {r}
                        /\ \E a : Answered' \subseteq Answered \cup {a}
        OBVIOUS
    <2>1. ASSUME NEW a \in Admins, NEW r \in Refunds, NEW status \in Statuses,
                 NEW instant \in BOOLEAN, AcceptRefund(a, r, status, instant)
          PROVE  Made' \subseteq Made \cup {r} /\ Answered' \subseteq Answered \cup {a}
        BY <2>1 DEF AcceptRefund, Made, Answered, TypeOK
    <2>2. ASSUME NEW r \in Refunds, NEW status \in Terminal, FinishRefund(r, status)
          PROVE  Made' \subseteq Made \cup {r} /\ Answered' \subseteq Answered
        BY <2>2 DEF FinishRefund, Made, Answered, TypeOK
    <2>3. ASSUME NEW a \in Admins,
                 \/ \E amount \in Amounts : RefundOrder(a, amount)
                 \/ RefuseRefund(a) \/ SaveRefund(a) \/ RefundOrderThrows(a) \/ RefundOrderDies(a)
          PROVE  Made' = Made /\ Answered' \subseteq Answered \cup {a}
        BY <2>3 DEF RefundOrder, RefuseRefund, SaveRefund, RefundOrderThrows, RefundOrderDies,
                    Made, Answered, TypeOK
    <2>4. ASSUME \/ \E e \in delivered : Redeliver(e)
                 \/ \E w \in Workers : WebhookStep(w) \/ WebhookDies(w)
                 \/ UNCHANGED vars
          PROVE  Made' = Made /\ Answered' = Answered
        BY <2>4 DEF Redeliver, WebhookStep, NothingToReconcile, FindRefund, TransitionRefund,
                    WebhookDies, vars, Made, Answered
    <2> QED BY <2>1, <2>2, <2>3, <2>4 DEF Next
<1>1. IsFiniteSet(Made')
    <2>1. PICK r : Made' \subseteq Made \cup {r}
        OBVIOUS
    <2>2. IsFiniteSet(Made \cup {r})
        BY FS_AddElement DEF Finitely
    <2> QED BY <2>1, <2>2, FS_Subset
<1>2. IsFiniteSet(Answered')
    <2>1. PICK a : Answered' \subseteq Answered \cup {a}
        OBVIOUS
    <2>2. IsFiniteSet(Answered \cup {a})
        BY FS_AddElement DEF Finitely
    <2> QED BY <2>1, <2>2, FS_Subset
<1> QED BY <1>1, <1>2 DEF Finitely

-----------------------------------------------------------------------------
\* What has been told of a refund stays true: a refund that has ended does not change.
LEMMA ToldStaysTrue ==
    ASSUME TypeOK, Next, NEW e \in Events, IsTrue(e)
    PROVE  IsTrue(e)'
<1>1. e.id \in Refunds
    BY EventFields
<1>2. gateway' = gateway
    BY GatewayStays
<1>3. ASSUME NEW a \in Admins, NEW r \in Refunds, NEW status \in Statuses, NEW instant \in BOOLEAN,
             AcceptRefund(a, r, status, instant)
      PROVE  IsTrue(e)'
    BY <1>1, <1>2, <1>3 DEF AcceptRefund, IsTrue, TypeOK, Terminal
<1>4. ASSUME NEW r \in Refunds, NEW status \in Terminal, FinishRefund(r, status)
      PROVE  IsTrue(e)'
    BY <1>1, <1>2, <1>4 DEF FinishRefund, IsTrue, TypeOK, Terminal
<1>5. ASSUME provider' = provider
      PROVE  IsTrue(e)'
    BY <1>2, <1>5 DEF IsTrue
<1> QED BY <1>3, <1>4, <1>5
        DEF Next, RefuseRefund, Redeliver, RefundOrder, SaveRefund, RefundOrderThrows,
            RefundOrderDies, WebhookStep, NothingToReconcile, FindRefund, TransitionRefund,
            WebhookDies

\* What the gateway announces is true.
LEMMA AnnouncedIsTrue ==
    ASSUME TypeOK,
           NEW r \in Refunds, NEW status \in Statuses \ {"none"}, NEW e \in EventsFor(r, status),
           gateway' = gateway, provider'[r].status = status
    PROVE  IsTrue(e)'
<1>1. e = [status |-> status, id |-> r]
    BY DEF EventsFor
<1>2. gateway \in Notifying
    BY DEF EventsFor, Notifying
<1>3. status = "pending" => StatusEvents
    BY DEF EventsFor, Terminal
<1> QED BY <1>1, <1>2, <1>3 DEF IsTrue

\* A row is not taken back: the steps add rows and change states.
LEMMA RowsStay ==
    ASSUME TypeOK, Next, NEW i \in DOMAIN rows
    PROVE  i \in DOMAIN rows' /\ rows'[i].txn = rows[i].txn /\ rows'[i].total = rows[i].total
<1>1. ASSUME NEW a \in Admins, SaveRefund(a)
      PROVE  i \in DOMAIN rows' /\ rows'[i] = rows[i]
    BY <1>1 DEF SaveRefund, TypeOK
<1>2. ASSUME NEW w \in Workers, TransitionRefund(w)
      PROVE  i \in DOMAIN rows' /\ rows'[i].txn = rows[i].txn /\ rows'[i].total = rows[i].total
    BY <1>2, RowFields DEF TransitionRefund
<1>3. ASSUME UNCHANGED rows
      PROVE  i \in DOMAIN rows' /\ rows'[i] = rows[i]
    BY <1>3
<1> QED BY <1>1, <1>2, <1>3
        DEF Next, AcceptRefund, RefuseRefund, FinishRefund, Redeliver, RefundOrder,
            RefundOrderThrows, RefundOrderDies, WebhookStep, NothingToReconcile, FindRefund,
            WebhookDies

\* The events on their way and in the webhooks stay true.
LEMMA EventsStep == TypeOK /\ EventsAreTrue /\ Next => EventsAreTrue'
<1> SUFFICES ASSUME TypeOK, EventsAreTrue, Next PROVE EventsAreTrue'
    OBVIOUS
<1> DEFINE Told == outbox \cup delivered \cup {e \in Events : \E w \in Workers :
                       hook[w].pc = "found" /\ hook[w].event = e}
<1>1. \A e \in Told : e \in Events /\ IsTrue(e) /\ IsTrue(e)'
    BY ToldStaysTrue DEF EventsAreTrue, TypeOK
<1>2. ASSUME NEW e \in outbox' \cup delivered'
      PROVE  IsTrue(e)'
    <2>1. ASSUME NEW a \in Admins, NEW r \in Refunds, NEW status \in Statuses,
                 NEW instant \in BOOLEAN, AcceptRefund(a, r, status, instant)
          PROVE  IsTrue(e)'
        <3>1. e \in Told \/ e \in EventsFor(r, status)
            BY <1>2, <2>1 DEF AcceptRefund
        <3>2. status # "none" /\ gateway' = gateway /\ provider'[r].status = status
            BY <2>1 DEF AcceptRefund, TypeOK
        <3> HIDE DEF Told
        <3> QED BY <1>1, <3>1, <3>2, AnnouncedIsTrue
    <2>2. ASSUME NEW r \in Refunds, NEW status \in Terminal, FinishRefund(r, status)
          PROVE  IsTrue(e)'
        <3>1. e \in Told \/ e \in EventsFor(r, status)
            BY <1>2, <2>2 DEF FinishRefund
        <3>2. /\ status \in Statuses \ {"none"}
              /\ gateway' = gateway /\ provider'[r].status = status
            BY <2>2 DEF FinishRefund, TypeOK, Terminal, Statuses
        <3> HIDE DEF Told
        <3> QED BY <1>1, <3>1, <3>2, AnnouncedIsTrue
    <2>3. ASSUME NEW w \in Workers, TransitionRefund(w)
          PROVE  e \in Told
        <3>1. hook[w].event \in Events /\ hook[w].pc = "found"
            BY <2>3 DEF TransitionRefund, TypeOK, Hooks, Idle
        <3> QED BY <1>2, <2>3, <3>1 DEF TransitionRefund, Acknowledge
    <2>4. ASSUME NEW w \in Workers,
                 (\E f \in outbox : NothingToReconcile(w, f) \/ FindRefund(w, f)) \/ WebhookDies(w)
          PROVE  e \in Told
        BY <1>2, <2>4 DEF NothingToReconcile, FindRefund, WebhookDies, Acknowledge
    <2>5. ASSUME NEW f \in delivered, Redeliver(f)
          PROVE  e \in Told
        BY <1>2, <2>5 DEF Redeliver
    <2>6. ASSUME UNCHANGED <<outbox, delivered>>
          PROVE  e \in Told
        BY <1>2, <2>6
    <2> HIDE DEF Told
    <2> QED BY <1>1, <2>1, <2>2, <2>3, <2>4, <2>5, <2>6
            DEF Next, WebhookStep, RefundOrder, RefuseRefund, SaveRefund, RefundOrderThrows,
                RefundOrderDies
<1>3. ASSUME NEW w \in Workers, hook'[w].pc = "found"
      PROVE  /\ IsTrue(hook[w].event)'
             /\ hook'[w].row \in DOMAIN rows'
             /\ rows'[hook'[w].row].txn = hook'[w].event.id
    <2>1. CASE hook'[w] = hook[w]
        <3>1. hook[w].event \in Told
            BY <1>3, <2>1 DEF TypeOK, Hooks, Idle
        <3>2. hook[w].row \in DOMAIN rows /\ rows[hook[w].row].txn = hook[w].event.id
            BY <1>3, <2>1 DEF EventsAreTrue
        <3>3. IsTrue(hook[w].event)'
            BY <1>1, <2>1, <3>1 DEF IsTrue
        <3> HIDE DEF Told
        <3> QED BY <2>1, <3>2, <3>3, RowsStay
    <2>2. CASE hook'[w] # hook[w]
        <3>1. PICK e \in outbox : FindRefund(w, e)
            <4>1. ASSUME NEW v \in Workers, TransitionRefund(v) \/ WebhookDies(v)
                  PROVE  FALSE
                BY <1>3, <2>2, <4>1 DEF TransitionRefund, WebhookDies, TypeOK, Idle
            <4>2. ASSUME NEW v \in Workers, NEW e \in outbox, FindRefund(v, e)
                  PROVE  v = w
                BY <1>3, <2>2, <4>2 DEF FindRefund, TypeOK
            <4>3. hook' # hook
                BY <2>2
            <4> QED BY <4>1, <4>2, <4>3, ZenonT(60)
                    DEF Next, AcceptRefund, RefuseRefund, FinishRefund, Redeliver, RefundOrder,
                        SaveRefund, RefundOrderThrows, RefundOrderDies, WebhookStep,
                        NothingToReconcile
        <3>2. PICK i \in RowsOf(e.id) : hook'[w] = [pc |-> "found", event |-> e, row |-> i]
            BY <3>1 DEF FindRefund, TypeOK
        <3>3. UNCHANGED <<rows, gateway, provider>>
            BY <3>1 DEF FindRefund
        <3>4. IsTrue(e)'
            BY <1>1
        <3> HIDE DEF Told
        <3> QED BY <3>2, <3>3, <3>4 DEF RowsOf, IsTrue
    <2> QED BY <2>1, <2>2
<1> QED BY <1>2, <1>3 DEF EventsAreTrue

\* The refund of an answer was made, and has no row.
LEMMA AnsweredRefund ==
    ASSUME TypeOK, AnswersMatch, NEW a \in Answered
    PROVE  /\ a \in Admins /\ call[a].pc = "answered"
           /\ call[a].id \in Refunds /\ call[a].status \in Statuses \ {"none"}
           /\ call[a].amount \in Amounts
           /\ provider[call[a].id].status # "none"
           /\ AnswerMatches(a)
<1>1. a \in Admins /\ call[a].pc = "answered"
    BY DEF Answered
<1>2. call[a].id \in Refunds /\ call[a].status \in Statuses \ {"none"} /\ call[a].amount \in Amounts
    BY <1>1, CallFields
<1>3. AnswerMatches(a)
    BY DEF AnswersMatch
<1> QED BY <1>1, <1>2, <1>3 DEF AnswerMatches, Terminal

\* The answers and their refunds keep to each other.
LEMMA AnswersStep == RefundsInv /\ Next => AnswersMatch'
<1> SUFFICES ASSUME RefundsInv, Next PROVE AnswersMatch'
    OBVIOUS
<1> USE DEF RefundsInv
<1>1. gateway' = gateway
    BY GatewayStays
<1>2. ASSUME NEW x \in Admins, NEW r \in Refunds, NEW status \in Statuses, NEW instant \in BOOLEAN,
             AcceptRefund(x, r, status, instant)
      PROVE  AnswersMatch'
    <2>1. /\ provider[r].status = "none" /\ status # "none" /\ rows' = rows
          /\ provider' = [provider EXCEPT ![r] = [status |-> status,
                             amount |-> Asked(call[x].amount), instant |-> instant]]
          /\ instant => gateway \in Notifying
        BY <1>2 DEF AcceptRefund
    <2>2. \A i \in Refunds : provider'[i].instant => gateway' \in Notifying
        BY <1>1, <2>1 DEF AnswersMatch, TypeOK
    <2>3. \A b \in Answered : b # x /\ call[b].id # r
        BY <1>2, <2>1, AnsweredRefund DEF AcceptRefund
    <2>4. /\ \A b \in Answered' : b # x => b \in Answered /\ call'[b] = call[b]
          /\ x \in Answered' => /\ call'[x].id = r /\ call'[x].status = status
                                /\ call'[x].amount = call[x].amount
        BY <1>2 DEF AcceptRefund, Answered, TypeOK
    <2>5. ASSUME x \in Answered'
          PROVE  AnswerMatches(x)'
        <3>1. provider'[r].status = status /\ provider'[r].amount = Asked(call[x].amount)
            BY <2>1 DEF TypeOK
        <3>2. \A i \in DOMAIN rows : rows[i].txn # r
            BY <2>1 DEF RowsMatch, RowMatches
        <3>3. \A b \in Answered' : call'[b].id = r => b = x
            BY <2>3, <2>4
        <3> QED BY <1>1, <2>1, <2>4, <2>5, <3>1, <3>2, <3>3 DEF AnswerMatches, Asked
    <2>6. ASSUME NEW a \in Answered', a # x
          PROVE  AnswerMatches(a)'
        <3>1. a \in Answered /\ call'[a] = call[a] /\ call[a].id # r /\ AnswerMatches(a)
            BY <2>3, <2>4, <2>6, AnsweredRefund
        <3>2. provider'[call[a].id] = provider[call[a].id]
            BY <2>1, <3>1, AnsweredRefund DEF TypeOK
        <3>3. \A b \in Answered' : call'[b].id = call[a].id => b = a
            BY <2>3, <2>4, <3>1 DEF AnswerMatches
        <3> QED BY <1>1, <2>1, <3>1, <3>2, <3>3 DEF AnswerMatches, Asked
    <2> QED BY <2>2, <2>5, <2>6 DEF AnswersMatch
<1>3. ASSUME NEW r \in Refunds, NEW status \in Terminal, FinishRefund(r, status)
      PROVE  AnswersMatch'
    <2>1. /\ \A i \in Refunds : provider'[i].instant = provider[i].instant
          /\ provider[r].status = "pending" /\ provider'[r].status = status
          /\ \A i \in Refunds : i # r => provider'[i] = provider[i]
          /\ \A i \in Refunds : provider'[i].amount = provider[i].amount
          /\ UNCHANGED <<rows, call>> /\ Answered' = Answered
        BY <1>3 DEF FinishRefund, TypeOK, Answered
    <2>2. ASSUME NEW a \in Answered
          PROVE  AnswerMatches(a)'
        <3>1. call[a].id \in Refunds /\ AnswerMatches(a) /\ call[a].pc = "answered" /\ a \in Admins
            BY AnsweredRefund
        <3>2. \/ provider'[call[a].id].status = call[a].status
              \/ /\ call[a].status = "pending" /\ provider'[call[a].id].instant
                 /\ provider'[call[a].id].status \in Terminal
            <4>1. CASE call[a].id = r
                <5>1. provider[r].instant
                    BY <1>3, <3>1, <4>1 DEF FinishRefund
                <5>2. call[a].status = "pending"
                    BY <2>1, <3>1, <4>1 DEF AnswerMatches
                <5> QED BY <2>1, <4>1, <5>1, <5>2
            <4>2. CASE call[a].id # r
                BY <2>1, <3>1, <4>2 DEF AnswerMatches
            <4> QED BY <4>1, <4>2
        <3> QED BY <1>1, <2>1, <3>1, <3>2 DEF AnswerMatches, Asked
    <2> QED BY <1>1, <2>1, <2>2 DEF AnswersMatch
<1>4. ASSUME NEW x \in Admins, SaveRefund(x)
      PROVE  AnswersMatch'
    <2>1. /\ \A b \in Answered' : b # x /\ b \in Answered /\ call'[b] = call[b]
          /\ provider' = provider
        BY <1>4 DEF SaveRefund, Answered, TypeOK, Idle
    <2>2. \A i \in DOMAIN rows' : \/ i \in DOMAIN rows /\ rows'[i] = rows[i]
                                  \/ rows'[i].txn = CreateRefundResult(call[x]).txn
        BY <1>4 DEF SaveRefund, TypeOK
    <2>3. ASSUME NEW a \in Answered'
          PROVE  AnswerMatches(a)'
        <3>1. a \in Answered /\ a # x /\ call'[a] = call[a] /\ AnswerMatches(a)
            BY <2>1, AnsweredRefund
        <3>2. CreateRefundResult(call[x]).txn # call[a].id
            <4>1. CASE call[x].pc = "answered"
                <5>1. x \in Answered
                    BY <4>1 DEF Answered
                <5>2. call[x].id # call[a].id
                    BY <3>1, <5>1 DEF AnswerMatches
                <5> QED BY <3>1, <5>2, AnsweredRefund, PaymentAssumption DEF CreateRefundResult
            <4>2. CASE call[x].pc # "answered"
                BY <3>1, <4>2, AnsweredRefund, PaymentAssumption DEF CreateRefundResult
            <4> QED BY <4>1, <4>2
        <3>3. \A i \in DOMAIN rows' : rows'[i].txn # call[a].id
            BY <2>2, <3>1, <3>2 DEF AnswerMatches
        <3> QED BY <1>1, <2>1, <3>1, <3>3 DEF AnswerMatches, Asked
    <2> QED BY <1>1, <2>1, <2>3 DEF AnswersMatch
<1>5. ASSUME provider' = provider, \A b \in Answered' : b \in Answered /\ call'[b] = call[b],
             \A i \in DOMAIN rows' : i \in DOMAIN rows /\ rows'[i].txn = rows[i].txn
      PROVE  AnswersMatch'
    BY <1>1, <1>5 DEF AnswersMatch, AnswerMatches, Asked
<1>6. ASSUME NEW a \in Admins,
             \/ \E amount \in Amounts : RefundOrder(a, amount)
             \/ RefuseRefund(a) \/ RefundOrderThrows(a) \/ RefundOrderDies(a)
      PROVE  AnswersMatch'
    <2>1. /\ UNCHANGED <<provider, rows>>
          /\ \A b \in Answered' : b \in Answered /\ call'[b] = call[b]
        BY <1>6 DEF RefundOrder, RefuseRefund, RefundOrderThrows, RefundOrderDies, Answered,
                    TypeOK, Idle
    <2> QED BY <1>5, <2>1
<1>7. ASSUME \/ \E e \in delivered : Redeliver(e)
             \/ \E w \in Workers : WebhookStep(w) \/ WebhookDies(w)
      PROVE  AnswersMatch'
    <2>1. UNCHANGED <<provider, call>> /\ Answered' = Answered
        BY <1>7 DEF Redeliver, WebhookStep, NothingToReconcile, FindRefund, TransitionRefund,
                    WebhookDies, Answered
    <2>2. DOMAIN rows' = DOMAIN rows
        BY <1>7 DEF Redeliver, WebhookStep, NothingToReconcile, FindRefund, TransitionRefund,
                    WebhookDies
    <2> QED BY <1>5, <2>1, <2>2, RowsStay
<1> QED BY <1>2, <1>3, <1>4, <1>6, <1>7 DEF Next

\* The rows and the refunds they name keep to each other.
LEMMA RowsStep == RefundsInv /\ Next => RowsMatch'
<1> SUFFICES ASSUME RefundsInv, Next PROVE RowsMatch'
    OBVIOUS
<1> USE DEF RefundsInv
<1>1. gateway' = gateway
    BY GatewayStays
<1>2. ASSUME UNCHANGED rows,
             \A i \in DOMAIN rows : rows[i].txn \in Refunds =>
                /\ provider'[rows[i].txn].status # "none"
                /\ provider'[rows[i].txn].amount = provider[rows[i].txn].amount
                /\ provider[rows[i].txn].status = "processed"
                   => provider'[rows[i].txn].status = "processed"
      PROVE  RowsMatch'
    BY <1>1, <1>2 DEF RowsMatch, RowMatches
<1>3. ASSUME NEW x \in Admins, NEW r \in Refunds, NEW status \in Statuses, NEW instant \in BOOLEAN,
             AcceptRefund(x, r, status, instant)
      PROVE  RowsMatch'
    <2>1. /\ UNCHANGED rows /\ provider[r].status = "none"
          /\ \A i \in Refunds : i # r => provider'[i] = provider[i]
        BY <1>3 DEF AcceptRefund, TypeOK
    <2>2. \A i \in DOMAIN rows : rows[i].txn \in Refunds =>
             rows[i].txn # r /\ provider[rows[i].txn].status # "none"
        BY <2>1 DEF RowsMatch, RowMatches
    <2> QED BY <1>2, <2>1, <2>2
<1>4. ASSUME NEW r \in Refunds, NEW status \in Terminal, FinishRefund(r, status)
      PROVE  RowsMatch'
    <2>1. /\ UNCHANGED rows /\ provider[r].status = "pending" /\ provider'[r].status # "none"
          /\ \A i \in Refunds : i # r => provider'[i] = provider[i]
          /\ \A i \in Refunds : provider'[i].amount = provider[i].amount
        BY <1>4 DEF FinishRefund, TypeOK, Terminal
    <2>2. \A i \in DOMAIN rows : rows[i].txn \in Refunds => provider[rows[i].txn].status # "none"
        BY DEF RowsMatch, RowMatches
    <2> QED BY <1>2, <2>1, <2>2
<1>5. ASSUME NEW x \in Admins, SaveRefund(x)
      PROVE  RowsMatch'
    <2> DEFINE new == Len(rows) + 1
               res == CreateRefundResult(call[x])
    <2>1. /\ provider' = provider /\ DOMAIN rows' = DOMAIN rows \cup {new} /\ new \notin DOMAIN rows
          /\ \A i \in DOMAIN rows : rows'[i] = rows[i]
          /\ rows'[new] = [state |-> res.state, txn |-> res.txn, total |-> call[x].amount]
        BY <1>5 DEF SaveRefund, TypeOK
    <2>2. /\ \A i \in DOMAIN rows : res.txn \in Refunds => rows[i].txn # res.txn
          /\ res.txn \in Refunds => /\ x \in Answered /\ res.txn = call[x].id
                                    /\ provider[res.txn].status # "none"
        <3>1. ASSUME res.txn \in Refunds
              PROVE  x \in Answered /\ res.txn = call[x].id
            BY <3>1, PaymentAssumption DEF CreateRefundResult, Answered
        <3> QED BY <3>1, AnsweredRefund DEF AnswerMatches
    <2>3. ASSUME gateway \in Notifying
          PROVE  /\ res.state # "Failed" => res.txn \in Refunds
                 /\ res.txn \in Refunds =>
                       /\ provider[res.txn].amount = call[x].amount
                       /\ res.state = "Settled" => provider[res.txn].status = "processed"
        <3>1. gateway \notin {"stripe", "mollie"} /\ gateway \notin Trusting
            BY <2>3 DEF Notifying, Trusting
        <3>2. ASSUME res.state # "Failed"
              PROVE  res.txn \in Refunds
            <4>1. call[x].pc = "answered"
                BY <3>2 DEF CreateRefundResult
            <4> QED BY <3>1, <4>1, CallFields DEF CreateRefundResult
        <3>3. ASSUME res.txn \in Refunds
              PROVE  provider[res.txn].amount = call[x].amount
            BY <2>2, <3>1, <3>3, AnsweredRefund DEF AnswerMatches, Asked
        <3>4. ASSUME res.txn \in Refunds, res.state = "Settled"
              PROVE  provider[res.txn].status = "processed"
            <4>1. x \in Answered /\ res.txn = call[x].id
                BY <2>2, <3>4
            <4>2. call[x].status = "processed"
                BY <3>1, <3>4 DEF CreateRefundResult
            <4> QED BY <4>1, <4>2, AnsweredRefund DEF AnswerMatches
        <3> QED BY <3>2, <3>3, <3>4
    <2> HIDE DEF new, res
    <2>4. ASSUME NEW i \in DOMAIN rows
          PROVE  RowMatches(i)'
        <3>1. RowMatches(i)
            BY DEF RowsMatch
        <3> QED BY <1>1, <2>1, <2>2, <3>1 DEF RowMatches
    <2>5. ASSUME NEW i, i = new
          PROVE  RowMatches(i)'
        BY <1>1, <2>1, <2>2, <2>3, <2>5 DEF RowMatches
    <2> QED BY <2>1, <2>4, <2>5 DEF RowsMatch
<1>6. ASSUME NEW w \in Workers, TransitionRefund(w)
      PROVE  RowsMatch'
    <2> DEFINE row == hook[w].row
               e == hook[w].event
    <2>1. /\ row \in DOMAIN rows /\ rows[row].txn = e.id /\ IsTrue(e)
          /\ e.id \in Refunds
        <3>1. e \in Events
            BY <1>6 DEF TransitionRefund, TypeOK, Hooks, Idle
        <3> QED BY <1>6, <3>1, EventFields DEF TransitionRefund, EventsAreTrue
    <2>2. /\ provider' = provider /\ DOMAIN rows' = DOMAIN rows
          /\ \A i \in DOMAIN rows : i # row => rows'[i] = rows[i]
          /\ rows'[row].state \in {rows[row].state, NewState(e)}
        BY <1>6, <2>1, RowFields DEF TransitionRefund
    <2> HIDE DEF row, e
    <2>3. NewState(e) = "Settled" => provider[e.id].status = "processed"
        BY <2>1 DEF NewState, IsTrue, Terminal
    <2>4. \A i \in DOMAIN rows : /\ rows'[i].txn = rows[i].txn /\ rows'[i].total = rows[i].total
                                 /\ RowMatches(i)
        BY RowsStay DEF RowsMatch
    <2>5. ASSUME NEW i \in DOMAIN rows, i # row
          PROVE  RowMatches(i)'
        BY <1>1, <2>2, <2>4, <2>5 DEF RowMatches
    <2>6. ASSUME NEW i \in DOMAIN rows, i = row
          PROVE  RowMatches(i)'
        BY <1>1, <2>1, <2>2, <2>3, <2>4, <2>6 DEF RowMatches
    <2> QED BY <2>2, <2>5, <2>6 DEF RowsMatch
<1>7. ASSUME UNCHANGED <<rows, provider>>
      PROVE  RowsMatch'
    BY <1>1, <1>7 DEF RowsMatch, RowMatches
<1> QED BY <1>3, <1>4, <1>5, <1>6, <1>7
        DEF Next, RefuseRefund, Redeliver, RefundOrder, RefundOrderThrows, RefundOrderDies,
            WebhookStep, NothingToReconcile, FindRefund, WebhookDies

-----------------------------------------------------------------------------
\* The parts of the invariant hold at the start: nothing was made, told or saved.
LEMMA RefundsInit == Init => RefundsInv
<1> SUFFICES ASSUME Init PROVE RefundsInv
    OBVIOUS
<1>1. Made = {} /\ Answered = {}
    BY DEF Init, Made, Answered, Idle
<1>2. Finitely
    BY <1>1, FS_EmptySet DEF Finitely
<1>3. TypeOK
    <2>1. Idle \in Calls /\ Idle \in Hooks
        BY DEF Calls, Hooks
    <2>2. provider \in [Refunds -> [status : Statuses, amount : 0..Paid, instant : BOOLEAN]]
        BY AmountsAssumption DEF Init, Statuses
    <2>3. rows \in Seq([state : RefundStates, txn : Refunds \cup {Payment}, total : Amounts])
        BY DEF Init
    <2>4. faults \in 0..MaxFaults
        BY BoundsAssumption DEF Init
    <2>7. lost \in BOOLEAN /\ gateway \in Gateways
        BY DEF Init
    <2>5. outbox \subseteq Events /\ delivered \subseteq Events
        BY DEF Init
    <2>6. call \in [Admins -> Calls] /\ hook \in [Workers -> Hooks]
        BY <2>1 DEF Init
    <2> QED BY <2>2, <2>3, <2>4, <2>5, <2>6, <2>7 DEF TypeOK
<1>4. EventsAreTrue /\ AnswersMatch /\ RowsMatch
    BY <1>1 DEF Init, EventsAreTrue, AnswersMatch, RowsMatch, Idle
<1> QED BY <1>2, <1>3, <1>4 DEF RefundsInv

\* Every step keeps all its parts.
LEMMA RefundsStep == RefundsInv /\ [Next]_vars => RefundsInv'
<1>1. RefundsInv /\ Next => TypeOK'
    BY GatewayTypes, MutationTypes, WebhookTypes DEF Next, RefundsInv
<1>2. RefundsInv /\ Next => RefundsInv'
    BY <1>1, FinitelyStep, EventsStep, AnswersStep, RowsStep DEF RefundsInv
<1>3. RefundsInv /\ UNCHANGED vars => RefundsInv'
    BY DEF RefundsInv, TypeOK, Finitely, EventsAreTrue, AnswersMatch, RowsMatch, vars,
           Made, Answered, IsTrue, AnswerMatches, RowMatches, Asked
<1> QED BY <1>2, <1>3

\* The invariant that the properties rest on.
THEOREM RefundsInvariant == Spec => []RefundsInv
BY RefundsInit, RefundsStep, PTL DEF Spec

\* The types of the state, however many refunds, mutations and webhook requests there are.
THEOREM RefundTypes == Spec => []TypeOK
<1>1. RefundsInv => TypeOK
    BY DEF RefundsInv
<1> QED BY <1>1, RefundsInvariant, PTL

-----------------------------------------------------------------------------
(* The sums, one step of the code at a time.                               *)

\* A new refund leaves the sums over the others alone, and adds its amount.
LEMMA RefundAdded ==
    ASSUME TypeOK, Finitely, NEW S \in SUBSET Made,
           NEW x \in Admins, NEW r \in Refunds, NEW status \in Statuses, NEW instant \in BOOLEAN,
           AcceptRefund(x, r, status, instant)
    PROVE  /\ SumFunctionOnSet(Amount', S) = SumFunctionOnSet(Amount, S)
           /\ SumFunctionOnSet(Amount', S \cup {r})
              = Asked(call[x].amount) + SumFunctionOnSet(Amount, S)
<1>1. r \notin S /\ \A i \in S : Amount'[i] = Amount[i]
    BY DEF AcceptRefund, Amount, Made, TypeOK
<1>2. Amount'[r] = Asked(call[x].amount)
    BY DEF AcceptRefund, Amount, TypeOK
<1>3. Asked(call[x].amount) \in Nat
    BY CallFields, AmountsAssumption DEF Asked, AcceptRefund
<1>4. SumFunctionOnSet(Amount', S) = SumFunctionOnSet(Amount, S)
    BY <1>1, SumsOfRefunds, SumSame
<1>5. \A i \in S \cup {r} : Amount'[i] \in Nat
    BY <1>1, <1>2, <1>3, SumsOfRefunds
<1>6. SumFunctionOnSet(Amount', S \cup {r}) = Amount'[r] + SumFunctionOnSet(Amount', S)
    BY <1>1, <1>5, SumsOfRefunds, SumAdd
<1> QED BY <1>2, <1>4, <1>6

\* So does a new row.
LEMMA RowAdded ==
    ASSUME TypeOK, NEW S \in SUBSET DOMAIN rows, NEW x \in Admins, SaveRefund(x)
    PROVE  /\ SumFunctionOnSet(RowTotal', S) = SumFunctionOnSet(RowTotal, S)
           /\ SumFunctionOnSet(RowTotal', S \cup {Len(rows) + 1})
              = call[x].amount + SumFunctionOnSet(RowTotal, S)
<1> DEFINE new == Len(rows) + 1
<1>1. new \notin S /\ \A i \in S : RowTotal'[i] = RowTotal[i]
    BY DEF SaveRefund, RowTotal, TypeOK
<1>2. RowTotal'[new] = call[x].amount
    BY DEF SaveRefund, RowTotal, TypeOK
<1>3. call[x].amount \in Nat
    BY CallFields, AmountsAssumption DEF SaveRefund
<1> HIDE DEF new
<1>4. SumFunctionOnSet(RowTotal', S) = SumFunctionOnSet(RowTotal, S)
    BY <1>1, SumsOfRows, SumSame
<1>5. \A i \in S \cup {new} : RowTotal'[i] \in Nat
    BY <1>1, <1>2, <1>3, SumsOfRows
<1>6. SumFunctionOnSet(RowTotal', S \cup {new}) = RowTotal'[new] + SumFunctionOnSet(RowTotal', S)
    BY <1>1, <1>5, SumsOfRows, SumAdd
<1> QED BY <1>2, <1>4, <1>6 DEF new

\* Calls that a step leaves answered keep their sum.
LEMMA CallsKept ==
    ASSUME TypeOK, Finitely, NEW S \in SUBSET Answered,
           \A a \in S : a \in Answered' /\ call'[a] = call[a]
    PROVE  SumFunctionOnSet(CallAmount', S) = SumFunctionOnSet(CallAmount, S)
<1>1. \A a \in S : CallAmount'[a] = CallAmount[a]
    BY DEF CallAmount
<1> QED BY <1>1, SumsOfCalls, SumSame

\* A call that is answered adds its amount.
LEMMA CallAdded ==
    ASSUME TypeOK, Finitely, NEW S \in SUBSET Answered,
           \A a \in S : a \in Answered' /\ call'[a] = call[a],
           NEW x \in Admins, x \notin Answered, x \in Answered', call'[x].amount = call[x].amount,
           call[x].amount \in Nat
    PROVE  SumFunctionOnSet(CallAmount', S \cup {x})
           = call[x].amount + SumFunctionOnSet(CallAmount, S)
<1>1. /\ x \notin S /\ CallAmount'[x] = call[x].amount
      /\ \A a \in S : CallAmount'[a] = CallAmount[a]
    BY DEF CallAmount
<1>2. \A a \in S \cup {x} : CallAmount'[a] \in Nat
    BY <1>1, SumsOfCalls
<1>3. SumFunctionOnSet(CallAmount', S \cup {x}) = CallAmount'[x] + SumFunctionOnSet(CallAmount', S)
    BY <1>1, <1>2, SumsOfCalls, SumAdd
<1> QED BY <1>1, <1>3, CallsKept

\* A call that ends takes its amount away.
LEMMA CallRemoved ==
    ASSUME TypeOK, Finitely, NEW S \in SUBSET Answered, NEW x \in S,
           \A a \in S \ {x} : a \in Answered' /\ call'[a] = call[a]
    PROVE  SumFunctionOnSet(CallAmount, S)
           = call[x].amount + SumFunctionOnSet(CallAmount', S \ {x})
<1>1. SumFunctionOnSet(CallAmount, S) = CallAmount[x] + SumFunctionOnSet(CallAmount, S \ {x})
    BY SumsOfCalls, SumTake
<1>2. SumFunctionOnSet(CallAmount', S \ {x}) = SumFunctionOnSet(CallAmount, S \ {x})
    BY CallsKept
<1> QED BY <1>1, <1>2 DEF CallAmount

\* What a step does to the calls.
LEMMA CallsOfStep ==
    ASSUME TypeOK, NEW x \in Admins
    PROVE  /\ SaveRefund(x) \/ RefundOrderThrows(x) \/ RefundOrderDies(x)
              => /\ Answered' = Answered \ {x} /\ \A a \in Answered' : call'[a] = call[a]
           /\ RefuseRefund(x) \/ (\E amount \in Amounts : RefundOrder(x, amount))
              => /\ Answered' = Answered /\ \A a \in Answered : call'[a] = call[a]
           /\ \A r \in Refunds, status \in Statuses, instant \in BOOLEAN :
                 AcceptRefund(x, r, status, instant) =>
                    /\ x \notin Answered /\ \A a \in Answered : a \in Answered' /\ call'[a] = call[a]
                    /\ \/ /\ Answered' = Answered \cup {x} /\ UNCHANGED lost
                          /\ call'[x] = [pc |-> "answered", amount |-> call[x].amount,
                                         id |-> r, status |-> status]
                       \/ Answered' = Answered /\ lost'
<1>1. SaveRefund(x) \/ RefundOrderThrows(x) \/ RefundOrderDies(x)
      => Answered' = Answered \ {x} /\ \A a \in Answered' : call'[a] = call[a]
    BY DEF SaveRefund, RefundOrderThrows, RefundOrderDies, Answered, TypeOK, Idle
<1>2. RefuseRefund(x) \/ (\E amount \in Amounts : RefundOrder(x, amount))
      => Answered' = Answered /\ \A a \in Answered : call'[a] = call[a]
    BY DEF RefuseRefund, RefundOrder, Answered, TypeOK
<1>3. ASSUME NEW r \in Refunds, NEW status \in Statuses, NEW instant \in BOOLEAN,
             AcceptRefund(x, r, status, instant)
      PROVE  /\ x \notin Answered /\ \A a \in Answered : a \in Answered' /\ call'[a] = call[a]
             /\ \/ /\ Answered' = Answered \cup {x} /\ UNCHANGED lost
                   /\ call'[x] = [pc |-> "answered", amount |-> call[x].amount,
                                  id |-> r, status |-> status]
                \/ Answered' = Answered /\ lost'
    <2>1. x \notin Answered
        BY <1>3 DEF AcceptRefund, Answered
    <2>2. \A a \in Answered : a \in Answered' /\ call'[a] = call[a]
        BY <1>3 DEF AcceptRefund, Answered, TypeOK
    <2>3. \/ call' = [call EXCEPT ![x] = [pc |-> "answered", amount |-> call[x].amount,
                                         id |-> r, status |-> status]] /\ UNCHANGED lost
          \/ call' = [call EXCEPT ![x] = [pc |-> "threw", amount |-> call[x].amount]] /\ lost'
        BY <1>3 DEF AcceptRefund
    <2>4. CASE /\ call' = [call EXCEPT ![x] = [pc |-> "answered", amount |-> call[x].amount,
                                              id |-> r, status |-> status]]
               /\ UNCHANGED lost
        BY <2>1, <2>2, <2>4 DEF Answered, TypeOK
    <2>5. CASE call' = [call EXCEPT ![x] = [pc |-> "threw", amount |-> call[x].amount]] /\ lost'
        <3>1. Answered' = Answered
            BY <2>1, <2>2, <2>5 DEF Answered, TypeOK
        <3> QED BY <2>1, <2>2, <2>5, <3>1
    <2> QED BY <2>3, <2>4, <2>5
<1> QED BY <1>1, <1>2, <1>3

\* A gateway without a webhook sends no events: only it and the mutations take steps.
LEMMA QuietGateway ==
    ASSUME RefundsInv, Next, gateway \notin Notifying
    PROVE  /\ gateway' = gateway
           /\ \/ \E a \in Admins :
                    \/ \E amount \in Amounts : RefundOrder(a, amount)
                    \/ \E r \in Refunds, status \in Statuses, instant \in BOOLEAN :
                          AcceptRefund(a, r, status, instant)
                    \/ RefuseRefund(a) \/ SaveRefund(a) \/ RefundOrderThrows(a)
                    \/ RefundOrderDies(a)
              \/ \E r \in Refunds, status \in Terminal : FinishRefund(r, status)
<1>1. outbox = {} /\ delivered = {} /\ \A w \in Workers : hook[w].pc # "found"
    BY DEF RefundsInv, EventsAreTrue, IsTrue
<1>2. gateway' = gateway
    BY GatewayStays
<1> QED BY <1>1, <1>2 DEF Next, WebhookStep, TransitionRefund, WebhookDies

\* The rows that are Settled, and the refunds that count as given back.
SettledRows == {i \in DOMAIN rows : rows[i].state = "Settled"}
Given == {r \in Refunds : \/ provider[r].status = "processed"
                          \/ provider[r].status = "pending" /\ gateway \in Trusting}

\* The totals are sums over them, of natural numbers.
SumsDefined ==
    /\ SettledTotal = SumFunctionOnSet(RowTotal, SettledRows)
    /\ GivenBack = SumFunctionOnSet(Amount, Given)
    /\ SettledTotal \in Nat /\ GivenBack \in Nat
    /\ SumFunctionOnSet(CallAmount, Settling) \in Nat
    /\ SettledRows \subseteq DOMAIN rows /\ Settling \subseteq Answered /\ Given \subseteq Made
    /\ IsFiniteSet(Given) /\ \A r \in Given : Amount[r] \in Nat

\* They are in every state whose types are right.
LEMMA SumsAreDefined == TypeOK /\ Finitely => SumsDefined
<1> SUFFICES ASSUME TypeOK, Finitely
             PROVE  /\ SumFunctionOnSet(RowTotal, SettledRows) \in Nat
                    /\ SumFunctionOnSet(Amount, Given) \in Nat
                    /\ SumFunctionOnSet(CallAmount, Settling) \in Nat
                    /\ SettledRows \subseteq DOMAIN rows /\ Settling \subseteq Answered
                    /\ Given \subseteq Made
                    /\ IsFiniteSet(Given) /\ \A r \in Given : Amount[r] \in Nat
    BY DEF SumsDefined, SettledTotal, GivenBack, SettledRows, Given, Amount
<1>1. SettledRows \subseteq DOMAIN rows /\ Settling \subseteq Answered /\ Given \subseteq Made
    BY DEF SettledRows, Given, Settling, Made
<1> QED BY <1>1, SumsOfRows, SumsOfCalls, SumsOfRefunds

\* Without a webhook, money is shown as Settled only by a call whose refund the gateway has
\* given back, and no refund given back is withdrawn.
LEMMA CoveredStep == ~AcceptedMayFail /\ RefundsInv /\ Covered /\ Next => Covered'
<1> SUFFICES ASSUME ~AcceptedMayFail, RefundsInv, Covered, Next, gateway \notin Notifying,
                    gateway' \notin Notifying
             PROVE  (SettledTotal + SumFunctionOnSet(CallAmount, Settling) <= GivenBack)'
    BY GatewayStays DEF Covered
<1> USE DEF RefundsInv
<1> DEFINE S == SumFunctionOnSet(RowTotal, SettledRows)
           C == SumFunctionOnSet(CallAmount, Settling)
           G == SumFunctionOnSet(Amount, Given)
<1>1. /\ SettledRows \subseteq DOMAIN rows /\ Settling \subseteq Answered /\ Given \subseteq Made
      /\ S \in Nat /\ C \in Nat /\ G \in Nat /\ S + C <= G
    BY SumsAreDefined DEF Covered, SumsDefined
<1>2. TypeOK' /\ Finitely' /\ gateway' = gateway
    BY RefundsStep, QuietGateway
<1>3. /\ SettledTotal' = S' /\ GivenBack' = G' /\ S' \in Nat /\ C' \in Nat /\ G' \in Nat
      /\ IsFiniteSet(Given') /\ \A r \in Given' : Amount'[r] \in Nat
    <2>1. TypeOK' /\ Finitely' => SumsDefined'
        BY SumsAreDefined, PTL
    <2> QED BY <1>2, <2>1 DEF SumsDefined
<1> SUFFICES S' + C' <= G'
    BY <1>3
<1>4. ASSUME UNCHANGED <<rows, provider>>, Settling' \subseteq Settling,
             \A a \in Settling' : a \in Answered' /\ call'[a] = call[a]
      PROVE  S' + C' <= G'
    <2>1. S' = S /\ G' = G
        BY <1>2, <1>4 DEF SettledRows, Given, RowTotal, Amount
    <2>2. SumFunctionOnSet(CallAmount', Settling') = SumFunctionOnSet(CallAmount, Settling')
        BY <1>1, <1>4, CallsKept
    <2>3. SumFunctionOnSet(CallAmount, Settling') <= C
        <3>1. \A a \in Settling : CallAmount[a] \in Nat
            BY <1>1, SumsOfCalls
        <3>2. IsFiniteSet(Settling)
            BY <1>1, SumsOfCalls
        <3>3. \A a \in Settling' : CallAmount[a] \in Nat /\ CallAmount[a] <= CallAmount[a]
            BY <1>4, <3>1
        <3> QED BY <1>4, <3>1, <3>2, <3>3, SumMonotonic
    <2> HIDE DEF S, C, G
    <2> QED BY <1>1, <1>3, <2>1, <2>2, <2>3 DEF C
<1>5. ASSUME NEW x \in Admins,
             \/ RefuseRefund(x) \/ RefundOrderThrows(x) \/ RefundOrderDies(x)
             \/ \E amount \in Amounts : RefundOrder(x, amount)
      PROVE  S' + C' <= G'
    <2>1. UNCHANGED <<rows, provider>>
        BY <1>5 DEF RefuseRefund, RefundOrderThrows, RefundOrderDies, RefundOrder
    <2>2. Answered' \subseteq Answered /\ \A a \in Answered' : call'[a] = call[a]
        BY <1>5, CallsOfStep
    <2>3. Settling' \subseteq Settling /\ \A a \in Settling' : a \in Answered' /\ call'[a] = call[a]
        BY <1>2, <2>2 DEF Settling
    <2> QED BY <1>4, <2>1, <2>3
<1>6. ASSUME NEW r \in Refunds, NEW status \in Terminal, FinishRefund(r, status)
      PROVE  S' + C' <= G'
    <2>1. Given \subseteq Given' /\ \A i \in Refunds : Amount'[i] = Amount[i]
        BY <1>2, <1>6 DEF FinishRefund, Given, Amount, TypeOK, Terminal
    <2>2. G <= G'
        <3>2. \A i \in Given : Amount[i] \in Nat /\ Amount[i] <= Amount'[i]
            BY <1>1, <2>1, SumsOfRefunds DEF Made
        <3> QED BY <1>3, <2>1, <3>2, SumMonotonic
    <2>3. S' = S /\ C' = C
        BY <1>2, <1>6 DEF FinishRefund, SettledRows, RowTotal, Settling, CallAmount, Answered
    <2> HIDE DEF S, C, G
    <2> QED BY <1>1, <1>3, <2>2, <2>3
<1>7. ASSUME NEW x \in Admins, SaveRefund(x)
      PROVE  S' + C' <= G'
    <2> DEFINE new == Len(rows) + 1
    <2>1. /\ G' = G /\ Answered' = Answered \ {x} /\ \A a \in Answered' : call'[a] = call[a]
          /\ Settling' = Settling \ {x}
        BY <1>2, <1>7, CallsOfStep DEF SaveRefund, Given, Amount, Settling
    <2>2. /\ DOMAIN rows' = DOMAIN rows \cup {new} /\ new \notin DOMAIN rows
          /\ \A i \in DOMAIN rows : rows'[i] = rows[i]
          /\ rows'[new].state = CreateRefundResult(call[x]).state
        BY <1>7 DEF SaveRefund, TypeOK
    <2>3. x \in Settling <=> rows'[new].state = "Settled"
        BY <1>7, <2>2, CallFields
        DEF Settling, Answered, CreateRefundResult, SaveRefund, Statuses, Terminal
    <2>4. SettledRows' = IF x \in Settling THEN SettledRows \cup {new} ELSE SettledRows
        BY <2>2, <2>3 DEF SettledRows
    <2>5. CASE x \in Settling
        <3>1. S' = call[x].amount + S
            BY <1>1, <1>7, <2>4, <2>5, RowAdded
        <3>2. C = call[x].amount + C'
            BY <1>1, <2>1, <2>5, CallRemoved
        <3>3. call[x].amount \in Nat
            BY <2>5, CallFields, AmountsAssumption DEF Settling, Answered
        <3> HIDE DEF S, C, G
        <3> QED BY <1>1, <1>3, <2>1, <3>1, <3>2, <3>3
    <2>6. CASE x \notin Settling
        <3>1. S' = S
            BY <1>1, <1>7, <2>4, <2>6, RowAdded
        <3>2. C' = C
            BY <1>1, <2>1, <2>6, CallsKept
        <3> HIDE DEF S, C, G
        <3> QED BY <1>1, <1>3, <2>1, <3>1, <3>2
    <2> QED BY <2>5, <2>6
<1>8. ASSUME NEW x \in Admins, NEW r \in Refunds, NEW status \in Statuses, NEW instant \in BOOLEAN,
             AcceptRefund(x, r, status, instant)
      PROVE  S' + C' <= G'
    <2> DEFINE settles == status = "processed" \/ (status = "pending" /\ gateway \in Trusting)
               amount == call[x].amount
    <2>1. /\ S' = S /\ amount \in Nat /\ amount <= Asked(amount) /\ Asked(amount) \in Nat
          /\ Given' = IF settles THEN Given \cup {r} ELSE Given
        <3>1. S' = S
            BY <1>8 DEF AcceptRefund, SettledRows, RowTotal
        <3>2. amount \in Nat
            BY <1>8, CallFields, AmountsAssumption DEF AcceptRefund
        <3>3. amount <= Asked(amount) /\ Asked(amount) \in Nat
            BY <3>2, AmountsAssumption DEF Asked
        <3>4. Given' = IF settles THEN Given \cup {r} ELSE Given
            <4>1. /\ provider[r].status = "none" /\ provider'[r].status = status
                  /\ \A i \in Refunds : i # r => provider'[i] = provider[i]
                BY <1>8 DEF AcceptRefund, TypeOK
            <4>2. r \notin Given
                BY <4>1 DEF Given
            <4>3. \A i \in Refunds : i \in Given' <=> i \in Given \/ (i = r /\ settles)
                BY <1>2, <4>1, <4>2 DEF Given
            <4>4. Given \subseteq Refunds /\ Given' \subseteq Refunds
                BY DEF Given
            <4> QED BY <4>3, <4>4
        <3> QED BY <3>1, <3>2, <3>3, <3>4
    <2>2. G' = IF settles THEN Asked(amount) + G ELSE G
        BY <1>1, <1>8, <2>1, RefundAdded
    <2>3. /\ x \notin Answered /\ \A a \in Answered : a \in Answered' /\ call'[a] = call[a]
          /\ \/ /\ Answered' = Answered \cup {x}
                /\ call'[x] = [pc |-> "answered", amount |-> amount, id |-> r, status |-> status]
             \/ Answered' = Answered
        BY <1>8, CallsOfStep
    <2>4. CASE Settling' = Settling
        <3>1. C' = C
            BY <1>1, <2>3, <2>4, CallsKept
        <3> HIDE DEF S, C, G, settles, amount
        <3> QED BY <1>1, <1>3, <2>1, <2>2, <3>1
    <2>5. CASE Settling' # Settling
        <3>1. /\ x \in Answered' /\ call'[x].amount = amount
              /\ settles /\ Settling' = Settling \cup {x}
            <4>1. Answered' = Answered => Settling' = Settling
                BY <1>2, <2>3 DEF Settling
            <4>2. /\ Answered' = Answered \cup {x}
                  /\ call'[x] = [pc |-> "answered", amount |-> amount, id |-> r, status |-> status]
                BY <2>3, <2>5, <4>1
            <4>3. Settling' = IF settles THEN Settling \cup {x} ELSE Settling
                <5>1. \A a \in Answered' : a \in Settling' <=> a \in Settling \/ (a = x /\ settles)
                    BY <1>2, <2>3, <4>2 DEF Settling
                <5>2. Settling \subseteq Answered' /\ Settling' \subseteq Answered'
                    BY <4>2 DEF Settling
                <5> QED BY <4>2, <5>1, <5>2
            <4> QED BY <2>5, <4>2, <4>3
        <3>2. C' = amount + C
            BY <1>1, <2>1, <2>3, <3>1, CallAdded
        <3> HIDE DEF S, C, G, settles, amount
        <3> QED BY <1>1, <1>3, <2>1, <2>2, <3>1, <3>2
    <2> QED BY <2>4, <2>5
<1> QED BY <1>5, <1>6, <1>7, <1>8, QuietGateway

\* With a webhook each Settled row names a processed refund of its own, with its amount.
LEMMA SettledByName == RefundsInv /\ gateway \in Notifying => SettledTotal <= GivenBack
<1> SUFFICES ASSUME RefundsInv, gateway \in Notifying PROVE SettledTotal <= GivenBack
    OBVIOUS
<1> DEFINE h == [i \in SettledRows |-> rows[i].txn]
<1>1. SumsDefined /\ TypeOK
    BY SumsAreDefined DEF RefundsInv
<1>2. IsFiniteSet(SettledRows) /\ \A i \in SettledRows : RowTotal[i] \in Nat
    BY <1>1, SumsOfRows DEF SumsDefined
<1>3. \A i \in SettledRows : h[i] \in Given /\ RowTotal[i] <= Amount[h[i]]
    <2> SUFFICES ASSUME NEW i \in SettledRows
                 PROVE  h[i] \in Given /\ RowTotal[i] <= Amount[h[i]]
        OBVIOUS
    <2>1. i \in DOMAIN rows /\ rows[i].state = "Settled" /\ RowMatches(i)
        BY DEF SettledRows, RefundsInv, RowsMatch
    <2>2. /\ h[i] \in Refunds /\ provider[h[i]].status = "processed"
          /\ provider[h[i]].amount = rows[i].total
        BY <2>1 DEF RowMatches
    <2>3. h[i] \in Given /\ Amount[h[i]] = RowTotal[i]
        BY <2>1, <2>2 DEF Given, Amount, RowTotal
    <2> QED BY <1>2, <2>3
<1>4. \A i, n \in SettledRows : h[i] = h[n] => i = n
    BY DEF SettledRows, RefundsInv, RowsMatch, RowMatches
<1> HIDE DEF h
<1> QED BY <1>1, <1>2, <1>3, <1>4, SumInjection DEF SumsDefined

\* Nothing is settled at the start.
LEMMA CoveredInit == Init => Covered
<1> SUFFICES ASSUME Init PROVE SettledTotal + SumFunctionOnSet(CallAmount, Settling) <= GivenBack
    BY DEF Covered
<1>1. SettledRows = {} /\ Settling = {}
    BY DEF Init, SettledRows, Settling, Answered, Idle
<1>2. SumsDefined
    BY RefundsInit, SumsAreDefined DEF RefundsInv
<1>3. SettledTotal = 0 /\ SumFunctionOnSet(CallAmount, Settling) = 0
    BY <1>1, <1>2, SumEmpty DEF SumsDefined
<1> QED BY <1>2, <1>3 DEF SumsDefined

\* Where a refund that was accepted does not fail later, what the shop shows as Settled is
\* money that the gateway returned, and with a webhook each row is the only one of a
\* processed refund of its amount.
THEOREM SettledIsReturned == ~AcceptedMayFail => (Spec => []SettledMeansReturned)
<1> SUFFICES ASSUME ~AcceptedMayFail PROVE Spec => []SettledMeansReturned
    OBVIOUS
<1>1. RefundsInv /\ Covered /\ [Next]_vars => Covered'
    <2>1. UNCHANGED vars /\ Covered => Covered'
        BY DEF vars, Covered, SettledTotal, GivenBack, RowTotal, Settling, CallAmount, Answered
    <2> QED BY <2>1, CoveredStep
<1>2. RefundsInv /\ Covered => SettledMeansReturned
    <2> SUFFICES ASSUME RefundsInv, Covered PROVE SettledMeansReturned
        OBVIOUS
    <2>1. SettledTotal <= GivenBack
        <3>1. CASE gateway \in Notifying
            BY <3>1, SettledByName
        <3>2. CASE gateway \notin Notifying
            <4>1. SumsDefined
                BY SumsAreDefined DEF RefundsInv
            <4> QED BY <3>2, <4>1 DEF Covered, SumsDefined
        <3> QED BY <3>1, <3>2
    <2>2. ASSUME NEW i \in DOMAIN rows, gateway \in Notifying, rows[i].state = "Settled"
          PROVE  /\ rows[i].txn \in Refunds
                 /\ provider[rows[i].txn].status = "processed"
                 /\ provider[rows[i].txn].amount = rows[i].total
                 /\ RowsOf(rows[i].txn) = {i}
        BY <2>2 DEF RefundsInv, RowsMatch, RowMatches, RowsOf
    <2> QED BY <2>1, <2>2 DEF SettledMeansReturned
<1> QED BY <1>1, <1>2, CoveredInit, RefundsInvariant, PTL DEF Spec

-----------------------------------------------------------------------------
(* Money that goes back is in the books.                                   *)

\* The refunds that have not failed; the amounts asked for are those of the shop.
Due == {r \in Refunds : provider[r].status \in {"pending", "processed"}}
AsksTheAmount == Unit = 1 \/ "stripe" \notin Gateways

DueDefined ==
    /\ Returned = SumFunctionOnSet(Amount, Due) /\ Returned \in Nat
    /\ SumFunctionOnSet(RowTotal, NotFailed) \in Nat
    /\ SumFunctionOnSet(CallAmount, Booking) \in Nat
    /\ NotFailed \subseteq DOMAIN rows /\ Booking \subseteq Answered /\ Due \subseteq Made
    /\ IsFiniteSet(Due) /\ \A r \in Due : Amount[r] \in Nat

\* The sums of Booked are defined where the types are right.
LEMMA DueIsDefined == TypeOK /\ Finitely => DueDefined
<1> SUFFICES ASSUME TypeOK, Finitely
             PROVE  /\ Returned = SumFunctionOnSet(Amount, Due)
                    /\ NotFailed \subseteq DOMAIN rows /\ Booking \subseteq Answered
                    /\ Due \subseteq Made
    BY SumsOfRows, SumsOfCalls, SumsOfRefunds DEF DueDefined
<1> QED BY DEF Returned, Due, Amount, NotFailed, Booking, Made

\* With a webhook: the call or the row that stands for a refund does so until it fails.
LEMMA BookedByName ==
    ASSUME ~StatusEvents, RefundsInv, Booked, Next, gateway \in Notifying, ~lost, ~lost',
           NEW r \in Refunds, provider'[r].status \in {"pending", "processed"}
    PROVE  \/ \E i \in NotFailed' : rows'[i].txn = r
           \/ \E a \in Answered' : call'[a].id = r
<1> USE DEF RefundsInv
<1>1. \A i \in NotFailed : i \in DOMAIN rows
    BY DEF NotFailed
<1>2. ASSUME provider[r].status \in {"pending", "processed"}
      PROVE  (\E i \in NotFailed : rows[i].txn = r) \/ (\E a \in Answered : call[a].id = r)
    BY <1>2 DEF Booked
<1>3. ASSUME provider[r].status \in {"pending", "processed"},
             \A i \in NotFailed : i \in DOMAIN rows' /\ rows'[i] = rows[i],
             \A a \in Answered : a \in Answered' /\ call'[a] = call[a]
      PROVE  \/ \E i \in NotFailed' : rows'[i].txn = r
             \/ \E a \in Answered' : call'[a].id = r
    BY <1>2, <1>3 DEF NotFailed
<1>4. ASSUME NEW x \in Admins, NEW q \in Refunds, NEW status \in Statuses, NEW instant \in BOOLEAN,
             AcceptRefund(x, q, status, instant)
      PROVE  \/ \E i \in NotFailed' : rows'[i].txn = r
             \/ \E a \in Answered' : call'[a].id = r
    <2>1. /\ \A a \in Answered : a \in Answered' /\ call'[a] = call[a]
          /\ x \in Answered' /\ call'[x].id = q
        <3>1. /\ \A a \in Answered : a \in Answered' /\ call'[a] = call[a]
              /\ \/ /\ Answered' = Answered \cup {x}
                    /\ call'[x] = [pc |-> "answered", amount |-> call[x].amount,
                                   id |-> q, status |-> status]
                 \/ lost'
            BY <1>4, CallsOfStep
        <3>2. /\ Answered' = Answered \cup {x}
              /\ call'[x] = [pc |-> "answered", amount |-> call[x].amount,
                             id |-> q, status |-> status]
            BY <3>1
        <3> QED BY <3>1, <3>2
    <2>2. UNCHANGED rows /\ (r # q => provider'[r] = provider[r])
        BY <1>4 DEF AcceptRefund, TypeOK
    <2> QED BY <1>1, <1>3, <2>1, <2>2
<1>5. ASSUME NEW q \in Refunds, NEW status \in Terminal, FinishRefund(q, status)
      PROVE  \/ \E i \in NotFailed' : rows'[i].txn = r
             \/ \E a \in Answered' : call'[a].id = r
    <2>1. provider[r].status \in {"pending", "processed"}
        BY <1>5 DEF FinishRefund, TypeOK
    <2>2. UNCHANGED <<rows, call>> /\ Answered' = Answered
        BY <1>5 DEF FinishRefund, Answered
    <2> QED BY <1>1, <1>3, <2>1, <2>2
<1>6. ASSUME NEW x \in Admins, SaveRefund(x)
      PROVE  \/ \E i \in NotFailed' : rows'[i].txn = r
             \/ \E a \in Answered' : call'[a].id = r
    <2> DEFINE new == Len(rows) + 1
    <2>1. /\ Answered' = Answered \ {x} /\ \A a \in Answered' : call'[a] = call[a]
          /\ provider' = provider
        BY <1>6, CallsOfStep DEF SaveRefund
    <2>2. /\ \A i \in DOMAIN rows : i \in DOMAIN rows' /\ rows'[i] = rows[i]
          /\ new \in DOMAIN rows' /\ rows'[new].txn = CreateRefundResult(call[x]).txn
          /\ rows'[new].state = CreateRefundResult(call[x]).state
        BY <1>6 DEF SaveRefund, TypeOK
    <2>3. CASE x \in Answered /\ call[x].id = r
        <3>1. AnswerMatches(x) /\ call[x].pc = "answered"
            BY <2>3, AnsweredRefund
        <3>2. call[x].status # "failed"
            BY <2>1, <2>3, <3>1 DEF AnswerMatches
        <3>3. gateway \notin {"stripe", "mollie"}
            BY DEF Notifying
        <3>4. rows'[new].txn = r /\ rows'[new].state # "Failed"
            BY <2>2, <2>3, <3>1, <3>2, <3>3 DEF CreateRefundResult
        <3> QED BY <2>2, <3>4 DEF NotFailed
    <2>4. CASE ~(x \in Answered /\ call[x].id = r)
        <3>1. CASE \E i \in NotFailed : rows[i].txn = r
            BY <2>2, <3>1 DEF NotFailed
        <3>2. CASE \E a \in Answered : call[a].id = r
            BY <2>1, <2>4, <3>2
        <3> QED BY <1>2, <2>1, <3>1, <3>2
    <2> QED BY <2>3, <2>4
<1>7. ASSUME NEW w \in Workers, TransitionRefund(w)
      PROVE  \/ \E i \in NotFailed' : rows'[i].txn = r
             \/ \E a \in Answered' : call'[a].id = r
    <2> DEFINE row == hook[w].row
               e == hook[w].event
    <2>1. UNCHANGED <<provider, call>> /\ Answered' = Answered /\ DOMAIN rows' = DOMAIN rows
        BY <1>7 DEF TransitionRefund, Answered
    <2>2. /\ row \in DOMAIN rows /\ rows[row].txn = e.id /\ IsTrue(e)
          /\ e.id \in Refunds /\ e.status \in Terminal
        <3>1. e \in Events
            BY <1>7 DEF TransitionRefund, TypeOK, Hooks, Idle
        <3> QED BY <1>7, <3>1, EventFields DEF TransitionRefund, EventsAreTrue, IsTrue
    <2>3. /\ \A i \in DOMAIN rows : i # row => rows'[i] = rows[i]
          /\ rows'[row].state \in {rows[row].state, NewState(e)}
          /\ \A i \in DOMAIN rows : rows'[i].txn = rows[i].txn
        BY <1>7, <2>2, RowFields, RowsStay DEF TransitionRefund
    <2>4. CASE \E a \in Answered : call[a].id = r
        BY <2>1, <2>4
    <2>5. ASSUME NEW i \in NotFailed, rows[i].txn = r
          PROVE  i \in NotFailed'
        <3>1. CASE i # row
            BY <2>1, <2>3, <3>1 DEF NotFailed
        <3>2. CASE i = row
            <4>1. NewState(e) = "Settled"
                BY <2>1, <2>2, <2>5, <3>2 DEF IsTrue, NewState, Terminal
            <4>2. rows[row].state # "Failed" /\ row \in DOMAIN rows
                BY <3>2 DEF NotFailed
            <4> HIDE DEF row, e
            <4> QED BY <2>1, <2>3, <3>2, <4>1, <4>2 DEF NotFailed
        <3> QED BY <3>1, <3>2
    <2>6. \A i \in NotFailed : i \in DOMAIN rows
        BY <1>1
    <2> HIDE DEF row, e
    <2> QED BY <1>2, <2>1, <2>3, <2>4, <2>5, <2>6
<1>8. ASSUME UNCHANGED <<rows, provider>>, \A a \in Answered : a \in Answered' /\ call'[a] = call[a]
      PROVE  \/ \E i \in NotFailed' : rows'[i].txn = r
             \/ \E a \in Answered' : call'[a].id = r
    BY <1>1, <1>3, <1>8
<1>9. ASSUME NEW x \in Admins,
             \/ RefuseRefund(x) \/ RefundOrderThrows(x) \/ RefundOrderDies(x)
             \/ \E amount \in Amounts : RefundOrder(x, amount)
      PROVE  UNCHANGED <<rows, provider>> /\ \A a \in Answered : a \in Answered' /\ call'[a] = call[a]
    <2>1. ~RefundOrderDies(x)
        BY DEF RefundOrderDies
    <2>2. RefundOrderThrows(x) => x \notin Answered
        BY DEF RefundOrderThrows, Answered
    <2>3. UNCHANGED <<rows, provider>>
        BY <1>9, <2>1 DEF RefuseRefund, RefundOrderThrows, RefundOrder
    <2> QED BY <1>9, <2>1, <2>2, <2>3, CallsOfStep
<1>10. ASSUME \/ \E e \in delivered : Redeliver(e)
              \/ \E w \in Workers :
                    WebhookDies(w) \/ \E e \in outbox : NothingToReconcile(w, e) \/ FindRefund(w, e)
       PROVE  UNCHANGED <<rows, provider>> /\ \A a \in Answered : a \in Answered' /\ call'[a] = call[a]
    BY <1>10 DEF Redeliver, WebhookDies, NothingToReconcile, FindRefund, Answered
<1> QED BY <1>4, <1>5, <1>6, <1>7, <1>8, <1>9, <1>10 DEF Next, WebhookStep

\* Without a webhook: a refund is returned when its call is answered, and the call leaves a row
\* of its amount.
LEMMA BookedByAmount ==
    ASSUME AsksTheAmount, RefundsInv, Booked, Next, gateway \notin Notifying, ~lost, ~lost'
    PROVE  (Returned <= SumFunctionOnSet(RowTotal, NotFailed)
                        + SumFunctionOnSet(CallAmount, Booking))'
<1> USE DEF RefundsInv
<1> DEFINE S == SumFunctionOnSet(RowTotal, NotFailed)
           C == SumFunctionOnSet(CallAmount, Booking)
           D == SumFunctionOnSet(Amount, Due)
<1>1. /\ NotFailed \subseteq DOMAIN rows /\ Booking \subseteq Answered /\ Due \subseteq Made
      /\ S \in Nat /\ C \in Nat /\ D \in Nat /\ D <= S + C
    BY DueIsDefined DEF Booked, DueDefined
<1>2. TypeOK' /\ Finitely' /\ gateway' = gateway
    BY RefundsStep, QuietGateway
<1>3. /\ Returned' = D' /\ S' \in Nat /\ C' \in Nat /\ D' \in Nat
      /\ IsFiniteSet(Due') /\ \A r \in Due' : Amount'[r] \in Nat
    <2>1. TypeOK' /\ Finitely' => DueDefined'
        BY DueIsDefined, PTL
    <2> QED BY <1>2, <2>1 DEF DueDefined
<1> SUFFICES D' <= S' + C'
    BY <1>3
<1>4. ASSUME UNCHANGED <<rows, provider>>, Booking' = Booking,
             \A a \in Booking : a \in Answered' /\ call'[a] = call[a]
      PROVE  D' <= S' + C'
    <2>1. S' = S /\ D' = D
        BY <1>4 DEF NotFailed, Due, RowTotal, Amount
    <2>2. C' = C
        BY <1>1, <1>4, CallsKept
    <2> HIDE DEF S, C, D
    <2> QED BY <1>1, <2>1, <2>2
<1>5. ASSUME NEW x \in Admins,
             \/ RefuseRefund(x) \/ RefundOrderThrows(x) \/ RefundOrderDies(x)
             \/ \E amount \in Amounts : RefundOrder(x, amount)
      PROVE  D' <= S' + C'
    <2>1. ~RefundOrderDies(x)
        BY DEF RefundOrderDies
    <2>2. RefundOrderThrows(x) => x \notin Answered
        BY DEF RefundOrderThrows, Answered
    <2>3. UNCHANGED <<rows, provider>>
        BY <1>5, <2>1 DEF RefuseRefund, RefundOrderThrows, RefundOrder
    <2>4. Answered' = Answered /\ \A a \in Answered : call'[a] = call[a]
        BY <1>5, <2>1, <2>2, CallsOfStep
    <2>5. Booking' = Booking
        BY <2>4 DEF Booking
    <2> QED BY <1>1, <1>4, <2>3, <2>4, <2>5
<1>6. ASSUME NEW r \in Refunds, NEW status \in Terminal, FinishRefund(r, status)
      PROVE  D' <= S' + C'
    <2>1. Due' \subseteq Due /\ \A i \in Refunds : Amount'[i] = Amount[i]
        BY <1>6 DEF FinishRefund, Due, Amount, TypeOK
    <2>2. D' <= D
        <3>1. IsFiniteSet(Due) /\ \A i \in Due : Amount[i] \in Nat
            BY <1>1, SumsOfRefunds
        <3>2. \A i \in Due' : Amount'[i] \in Nat /\ Amount'[i] <= Amount[i]
            BY <1>3, <2>1 DEF Due
        <3> QED BY <2>1, <3>1, <3>2, SumMonotonic
    <2>3. S' = S /\ C' = C
        BY <1>6 DEF FinishRefund, NotFailed, RowTotal, Booking, CallAmount, Answered
    <2> HIDE DEF S, C, D
    <2> QED BY <1>1, <1>3, <2>2, <2>3
<1>7. ASSUME NEW x \in Admins, SaveRefund(x)
      PROVE  D' <= S' + C'
    <2> DEFINE new == Len(rows) + 1
    <2>1. /\ D' = D /\ Answered' = Answered \ {x} /\ \A a \in Answered' : call'[a] = call[a]
          /\ Booking' = Booking \ {x}
        BY <1>7, CallsOfStep DEF SaveRefund, Due, Amount, Booking
    <2>2. /\ DOMAIN rows' = DOMAIN rows \cup {new} /\ new \notin DOMAIN rows
          /\ \A i \in DOMAIN rows : rows'[i] = rows[i]
          /\ rows'[new].state = CreateRefundResult(call[x]).state
        BY <1>7 DEF SaveRefund, TypeOK
    <2>3. x \in Booking <=> rows'[new].state # "Failed"
        BY <2>2 DEF Booking, Answered, CreateRefundResult
    <2>4. NotFailed' = IF x \in Booking THEN NotFailed \cup {new} ELSE NotFailed
        BY <2>2, <2>3 DEF NotFailed
    <2>5. CASE x \in Booking
        <3>1. S' = call[x].amount + S
            BY <1>1, <1>7, <2>4, <2>5, RowAdded
        <3>2. C = call[x].amount + C'
            BY <1>1, <2>1, <2>5, CallRemoved
        <3>3. call[x].amount \in Nat
            BY <2>5, CallFields, AmountsAssumption DEF Booking, Answered
        <3> HIDE DEF S, C, D
        <3> QED BY <1>1, <1>3, <2>1, <3>1, <3>2, <3>3
    <2>6. CASE x \notin Booking
        <3>1. S' = S
            BY <1>1, <1>7, <2>4, <2>6, RowAdded
        <3>2. C' = C
            BY <1>1, <2>1, <2>6, CallsKept
        <3> HIDE DEF S, C, D
        <3> QED BY <1>1, <2>1, <3>1, <3>2
    <2> QED BY <2>5, <2>6
<1>8. ASSUME NEW x \in Admins, NEW r \in Refunds, NEW status \in Statuses, NEW instant \in BOOLEAN,
             AcceptRefund(x, r, status, instant)
      PROVE  D' <= S' + C'
    <2> DEFINE amount == call[x].amount
               books == status # "failed"
    <2>1. /\ x \notin Answered /\ \A a \in Answered : a \in Answered' /\ call'[a] = call[a]
          /\ Answered' = Answered \cup {x}
          /\ call'[x] = [pc |-> "answered", amount |-> amount, id |-> r, status |-> status]
        <3>1. /\ x \notin Answered /\ \A a \in Answered : a \in Answered' /\ call'[a] = call[a]
              /\ \/ /\ Answered' = Answered \cup {x}
                    /\ call'[x] = [pc |-> "answered", amount |-> amount, id |-> r, status |-> status]
                 \/ lost'
            BY <1>8, CallsOfStep
        <3>2. /\ Answered' = Answered \cup {x}
              /\ call'[x] = [pc |-> "answered", amount |-> amount, id |-> r, status |-> status]
            BY <3>1
        <3> QED BY <3>1, <3>2
    <2>2. S' = S
        BY <1>8 DEF AcceptRefund, NotFailed, RowTotal
    <2>3. amount \in Nat /\ Asked(amount) = amount
        <3>1. amount \in Nat
            BY <1>8, CallFields, AmountsAssumption DEF AcceptRefund
        <3>2. gateway = "stripe" => Unit = 1
            BY DEF AsksTheAmount, TypeOK
        <3> QED BY <3>1, <3>2 DEF Asked
    <2>4. /\ r \notin Due /\ x \notin Booking
          /\ Due' = IF books THEN Due \cup {r} ELSE Due
          /\ Booking' = IF books THEN Booking \cup {x} ELSE Booking
        <3>1. /\ provider[r].status = "none" /\ provider'[r].status = status
              /\ status \in {"pending", "processed", "failed"}
              /\ \A i \in Refunds : i # r => provider'[i] = provider[i]
            BY <1>8 DEF AcceptRefund, TypeOK, Statuses, Terminal
        <3>2. \A i \in Refunds : i \in Due' <=> i \in Due \/ (i = r /\ books)
            BY <3>1 DEF Due
        <3>3. \A a \in Answered' : a \in Booking' <=> a \in Booking \/ (a = x /\ books)
            BY <2>1 DEF Booking
        <3>4. /\ Due \subseteq Refunds /\ Due' \subseteq Refunds
              /\ Booking \subseteq Answered' /\ Booking' \subseteq Answered'
            BY <2>1 DEF Due, Booking
        <3>5. r \notin Due /\ x \notin Booking /\ x \in Answered'
            BY <2>1, <3>1 DEF Due, Booking
        <3> HIDE DEF books
        <3> QED BY <3>2, <3>3, <3>4, <3>5
    <2>5. CASE books
        <3>1. D' = amount + D
            BY <1>1, <1>8, <2>3, <2>4, <2>5, RefundAdded
        <3>2. C' = amount + C
            BY <1>1, <2>1, <2>3, <2>4, <2>5, CallAdded
        <3> HIDE DEF S, C, D, books, amount
        <3> QED BY <1>1, <2>2, <2>3, <3>1, <3>2
    <2>6. CASE ~books
        <3>1. D' = D
            <4>1. Due' = Due
                BY <2>4, <2>6
            <4>2. SumFunctionOnSet(Amount', Due) = SumFunctionOnSet(Amount, Due)
                BY <1>1, <1>8, RefundAdded, ZenonT(60)
            <4> QED BY <4>1, <4>2
        <3>2. C' = C
            BY <1>1, <2>1, <2>4, <2>6, CallsKept
        <3> HIDE DEF S, C, D, books, amount
        <3> QED BY <1>1, <2>2, <3>1, <3>2
    <2> QED BY <2>5, <2>6
<1> QED BY <1>5, <1>6, <1>7, <1>8, QuietGateway

\* Nothing is due at the start.
LEMMA BookedInit == Init => Booked
<1> SUFFICES ASSUME Init PROVE Booked
    OBVIOUS
<1>1. /\ \A r \in Refunds : provider[r].status \notin {"pending", "processed"}
      /\ Due = {} /\ NotFailed = {} /\ Booking = {}
    BY DEF Init, Due, NotFailed, Booking, Answered, Idle
<1>2. DueDefined
    BY RefundsInit, DueIsDefined DEF RefundsInv
<1>3. Returned = 0
    BY <1>1, <1>2, SumEmpty DEF DueDefined
<1>4. Returned <= SumFunctionOnSet(RowTotal, NotFailed) + SumFunctionOnSet(CallAmount, Booking)
    BY <1>2, <1>3 DEF DueDefined
<1> QED BY <1>1, <1>4 DEF Booked

\* By name, each refund that is due is in a row or a call of its own, of its amount.
LEMMA BookedIsEnough ==
    ASSUME AsksTheAmount, RefundsInv, Booked, ~lost
    PROVE  Returned <= SumFunctionOnSet(RowTotal, NotFailed) + SumFunctionOnSet(CallAmount, Answered)
<1> USE DEF RefundsInv
<1>0. DueDefined
    BY DueIsDefined
<1>1. /\ IsFiniteSet(Answered) /\ \A a \in Answered : CallAmount[a] \in Nat
      /\ SumFunctionOnSet(CallAmount, Answered) \in Nat
    BY SumsOfCalls
<1>2. /\ IsFiniteSet(NotFailed) /\ \A i \in NotFailed : RowTotal[i] \in Nat
      /\ SumFunctionOnSet(RowTotal, NotFailed) \in Nat
    BY <1>0, SumsOfRows DEF DueDefined
<1>3. CASE gateway \notin Notifying
    <2>1. SumFunctionOnSet(CallAmount, Booking) <= SumFunctionOnSet(CallAmount, Answered)
        <3>1. \A a \in Booking : CallAmount[a] \in Nat /\ CallAmount[a] <= CallAmount[a]
            BY <1>1 DEF Booking
        <3> QED BY <1>0, <1>1, <3>1, SumMonotonic DEF DueDefined
    <2> QED BY <1>0, <1>1, <1>2, <1>3, <2>1 DEF Booked, DueDefined
<1>4. CASE gateway \in Notifying
    <2> DEFINE R == {r \in Due : \E i \in NotFailed : rows[i].txn = r}
               Q == Due \ R
               h == [r \in R |-> CHOOSE i \in NotFailed : rows[i].txn = r]
               k == [r \in Q |-> CHOOSE a \in Answered : call[a].id = r]
    <2>1. /\ IsFiniteSet(R) /\ IsFiniteSet(Q) /\ R \cap Q = {} /\ R \cup Q = Due
          /\ \A r \in R \cup Q : Amount[r] \in Nat
        BY <1>0, FS_Subset DEF DueDefined
    <2>2. SumFunctionOnSet(Amount, R) <= SumFunctionOnSet(RowTotal, NotFailed)
        <3>1. ASSUME NEW r \in R
              PROVE  h[r] \in NotFailed /\ rows[h[r]].txn = r /\ Amount[r] <= RowTotal[h[r]]
            <4>1. h[r] \in NotFailed /\ rows[h[r]].txn = r
                OBVIOUS
            <4>2. h[r] \in DOMAIN rows /\ r \in Refunds
                BY <1>0, <4>1 DEF DueDefined, Due
            <4>3. Amount[r] = RowTotal[h[r]]
                BY <1>4, <4>1, <4>2 DEF RowsMatch, RowMatches, Amount, RowTotal
            <4> HIDE DEF h
            <4> QED BY <1>2, <4>1, <4>3
        <3>2. \A r, q \in R : h[r] = h[q] => r = q
            BY <3>1
        <3>3. \A r \in R : h[r] \in NotFailed /\ Amount[r] <= RowTotal[h[r]]
            BY <3>1
        <3> HIDE DEF R, Q, h
        <3> QED BY <1>2, <2>1, <3>2, <3>3, SumInjection
    <2>3. SumFunctionOnSet(Amount, Q) <= SumFunctionOnSet(CallAmount, Answered)
        <3>1. ASSUME NEW r \in Q
              PROVE  k[r] \in Answered /\ call[k[r]].id = r /\ Amount[r] <= CallAmount[k[r]]
            <4>1. \E a \in Answered : call[a].id = r
                BY <1>4 DEF Booked, Due
            <4>2. k[r] \in Answered /\ call[k[r]].id = r
                BY <4>1
            <4>3. gateway # "stripe" /\ r \in Refunds
                BY <1>4 DEF Notifying, Due
            <4>4. provider[r].amount = call[k[r]].amount
                <5> HIDE DEF k, Q
                <5> QED BY <4>2, <4>3 DEF AnswersMatch, AnswerMatches, Asked
            <4>5. Amount[r] = CallAmount[k[r]]
                <5> HIDE DEF k, Q
                <5> QED BY <4>2, <4>3, <4>4 DEF Amount, CallAmount
            <4> HIDE DEF k, Q
            <4> QED BY <1>1, <4>2, <4>5
        <3>2. \A r, q \in Q : k[r] = k[q] => r = q
            BY <3>1
        <3>3. \A r \in Q : k[r] \in Answered /\ Amount[r] <= CallAmount[k[r]]
            BY <3>1
        <3> HIDE DEF R, Q, k
        <3> QED BY <1>1, <2>1, <3>2, <3>3, SumInjection
    <2> HIDE DEF R, Q, h, k
    <2>4. SumFunctionOnSet(Amount, Due) = SumFunctionOnSet(Amount, R) + SumFunctionOnSet(Amount, Q)
        BY <2>1, SumUnion
    <2>5. SumFunctionOnSet(Amount, R) \in Nat /\ SumFunctionOnSet(Amount, Q) \in Nat
        BY <2>1, SumType
    <2> QED BY <1>0, <1>1, <1>2, <2>2, <2>3, <2>4, <2>5 DEF DueDefined
<1> QED BY <1>3, <1>4

\* Where the gateway is asked for the amount of the shop and tells only how a refund ended,
\* money that goes back to the customer is in the books as long as nothing is lost.
THEOREM ReturnedMoneyIsBooked ==
    AsksTheAmount /\ ~StatusEvents => (Spec => []ReturnedIsBooked)
<1> SUFFICES ASSUME AsksTheAmount, ~StatusEvents PROVE Spec => []ReturnedIsBooked
    OBVIOUS
<1>1. RefundsInv /\ Booked /\ [Next]_vars => Booked'
    <2>1. UNCHANGED vars /\ Booked => Booked'
        BY DEF vars, Booked, Returned, NotFailed, RowTotal, Booking, CallAmount, Answered
    <2>2. ASSUME RefundsInv, Booked, Next PROVE Booked'
        <3>1. gateway' = gateway /\ (lost => lost')
            BY <2>2, GatewayStays, LostStays
        <3>2. CASE lost'
            BY <3>2 DEF Booked
        <3>3. CASE ~lost' /\ gateway \in Notifying
            BY <2>2, <3>1, <3>3, BookedByName DEF Booked
        <3>4. CASE ~lost' /\ gateway \notin Notifying
            BY <2>2, <3>1, <3>4, BookedByAmount DEF Booked
        <3> QED BY <3>2, <3>3, <3>4
    <2> QED BY <2>1, <2>2
<1>2. RefundsInv /\ Booked => ReturnedIsBooked
    BY BookedIsEnough DEF ReturnedIsBooked, CallAmount
<1> QED BY <1>1, <1>2, BookedInit, RefundsInvariant, PTL DEF Spec
=============================================================================
