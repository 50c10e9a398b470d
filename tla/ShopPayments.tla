---------------------------- MODULE ShopPayments ----------------------------
(***************************************************************************)
(* One order that the storefront offers to pay with Stripe, Cashfree,      *)
(* Mollie and Braintree: shoppers may open several checkouts and pay more  *)
(* than one, and every plugin records its payments on the same order row.  *)
(***************************************************************************)
EXTENDS StripeSettlement, CashfreeSettlement, MollieSettlement, BraintreeSettlement

\* The ids that the providers give to payments: no other payment has one of them.
ProviderTxns ==
    {StripeTxn(i) : i \in Intents} \cup {CashfreeTxn}
    \cup {MollieTxn(p) : p \in MolliePayments} \cup {BraintreeTxn(s) : s \in Sales}

ASSUME IdsAssumption == Manual \notin ProviderTxns /\ Free \notin ProviderTxns

vars == <<bookVars, stripeVars, cashfreeVars, mollieVars, braintree>>

Init == BookInit /\ StripeInit /\ CashfreeInit /\ MollieInit /\ BraintreeInit

Stripe == StripeNext /\ UNCHANGED <<cashfreeVars, mollieVars, braintree>>
Cashfree == CashfreeNext /\ UNCHANGED <<stripeVars, mollieVars, braintree>>
Mollie == MollieNext /\ UNCHANGED <<stripeVars, cashfreeVars, braintree>>
Braintree == BraintreeNext /\ UNCHANGED <<stripeVars, cashfreeVars, mollieVars>>

\* Payments of a provider that records them without the shopper's help, and all.
Backed == StripeCaptured \cup CashfreeCaptured \cup MollieCaptured
Captured == Backed \cup BraintreeCaptured

Paying == StripeOpen \/ CashfreeOpen \/ MollieOpen
Busy ==
    \/ stripeOutbox # {} \/ cashfreeEvent = "pending" \/ mollieOutbox # {}
    \/ authorized # {}
    \/ \E a \in Actors : req[a] # Idle

\* Shoppers, administrators and deaths of requests.
Shop ==
    /\ \/ \E total \in Totals : EditOrder(total) \/ ModifyOrder(total, Busy)
       \/ EnterCheckout(Captured # {})
       \/ LeaveCheckout(Paying)
       \/ ManualPayment \/ CancelOrder
       \/ DisableMethods \/ EnableMethods
       \/ \E a \in Actors : RequestDies(a)
    /\ UNCHANGED <<stripeVars, cashfreeVars, mollieVars, braintree>>

Next == Stripe \/ Cashfree \/ Mollie \/ Braintree \/ Shop

Spec == Init /\ [][Next]_vars

\* The server answers the requests it has, the providers repeat what is not
\* acknowledged, and disabled methods are enabled again. Shoppers and
\* administrators owe nothing. A request that throws for a reason that persists
\* may not starve the events of the other providers: strong fairness of each.
Fairness ==
    /\ WF_vars(StripeServer /\ UNCHANGED <<cashfreeVars, mollieVars, braintree>>)
    /\ \A w \in Workers :
          /\ SF_vars(CashfreeRead(w) /\ UNCHANGED <<stripeVars, mollieVars, braintree>>)
          /\ WF_vars(CashfreeCommit(w) /\ UNCHANGED <<stripeVars, mollieVars, braintree>>)
          /\ \A e \in Announcements :
                SF_vars(MollieWebhook(w, e) /\ UNCHANGED <<stripeVars, cashfreeVars, braintree>>)
    /\ \A a \in Actors :
          WF_vars(MollieEnd(a) /\ UNCHANGED <<stripeVars, cashfreeVars, braintree>>)
    /\ WF_vars(EnableMethods /\ UNCHANGED <<stripeVars, cashfreeVars, mollieVars, braintree>>)

FairSpec == Spec /\ Fairness

-----------------------------------------------------------------------------
TypeOK ==
    /\ BookType /\ StripeType /\ CashfreeType /\ MollieType /\ BraintreeType
    /\ settled \in Seq([txn : Captured \cup {Manual, Free}, amount : Nat])
    /\ short \subseteq ProviderTxns
    /\ req \in [Actors -> {Idle} \cup CashfreeRequests \cup MollieRequests]

\* What the provider of a payment took for it, in the shop's currency unit.
Charged(txn) ==
    CASE txn \in StripeCaptured -> FromStripe(txn[2])
      [] txn \in CashfreeCaptured -> cashfree.amount
      [] txn \in MollieCaptured -> mollie[txn[2]].amount
      [] txn \in BraintreeCaptured -> braintree[txn[2]]

\* Every Settled row of a provider's payment says what the provider charged,
\* and the order's idea of what is covered is the sum of its Settled rows and
\* of the money Mollie holds.
BooksMatchCharges ==
    /\ \A i \in DOMAIN settled :
           settled[i].txn \in Captured => settled[i].amount = Charged(settled[i].txn)
    /\ order.covered - order.held = SettledSum
    /\ order.held = 0 <=> authorized = {}

\* Money is not counted twice: a payment is either held or settled, unless it
\* fell short of the order when it was entered.
HeldOrSettled ==
    \A p \in authorized : MollieTxn(p) \notin short => Rows(MollieTxn(p)) = {}

\* A placed order does not become a cart again, which could be paid once more.
StaysPlaced == [][Placed => order'.state \notin ActiveStates]_vars

\* Some of the money was taken for another price than the order has, or was
\* entered and did not cover it.
OutOfPrice == short # {} \/ \E txn \in Backed : Charged(txn) # order.total

\* Whatever requests die and events repeat, money that Stripe, Cashfree or
\* Mollie took for what the order costs places it without a further step of the
\* shopper.
BackstopPlaces ==
    Backed # {} ~> Placed \/ order.state = "Cancelled" \/ OutOfPrice

\* Money that Mollie held and that is captured later does not stay a mere
\* authorization in the books, unless the order has another price by then.
HeldMoneySettles ==
    \A p \in MolliePayments :
        p \in authorized /\ p \in MolliePaid
            ~> \/ p \notin authorized \/ order.state = "Cancelled"
               \/ mollie[p].amount # order.total

\* README of the Mollie plugin: an order in ArrangingAdditionalPayment is
\* finalized by another payment intent. Once the webhook of that payment is
\* answered, the payment is in the books.
AdditionalPaymentFinalizes ==
    \A p \in MolliePayments :
        mollie[p].additional /\ [id |-> p, of |-> "paid"] \in mollieDelivered
            => Rows(MollieTxn(p)) # {} \/ order.state = "Cancelled"

\* The Settled rows as entries of PaymentLedger. A payment of nothing is no
\* provider's. A payment that fell short leaves the order in the checkout, where
\* Stripe's webhook and Mollie's look for no row of it: it is entered as often as
\* its event is delivered, and the ledger keeps no account of it.
Entry(txn) == IF txn = Free \/ txn \in short THEN Manual ELSE txn
Book == [i \in DOMAIN settled |-> Entry(settled[i].txn)]

\* The plugins together keep the books of PaymentLedger, for every payment that
\* covered what was left to pay when it was entered.
Ledger == INSTANCE PaymentLedger WITH
              Payments <- ProviderTxns,
              captured <- Captured,
              book <- Book,
              Other <- Manual

RefinesLedger == Ledger!Spec

=============================================================================
