-------------------------- MODULE StripeSettlement --------------------------
(***************************************************************************)
(* A Stripe payment of the order: createStripePaymentIntent, and the       *)
(* payment_intent.succeeded events of the webhook. The webhook reads the   *)
(* order inside its transaction and knows no check for a payment that is   *)
(* already there: the state of the order is its only defence.              *)
(*                                                                         *)
(* Intents are created with the idempotency key <order code>_<amount>, so  *)
(* there is one for each amount; it is named by its amount. Failed         *)
(* attempts are answered 200 without a trace and are not modelled.         *)
(***************************************************************************)
EXTENDS OrderBook

CONSTANT Unit \* 100 for a currency without a fraction, 1 for the others

ASSUME UnitAssumption == Unit \in Nat \ {0}

VARIABLES
    stripe,          \* the status of every payment intent
    stripeOutbox,    \* succeeded events Stripe still has to deliver
    stripeDelivered  \* succeeded events answered with a 2xx

stripeVars == <<stripe, stripeOutbox, stripeDelivered>>

\* getAmountInStripeMinorUnits and back. Math.round rounds a half upwards.
ToStripe(amount) == (2 * amount + Unit) \div (2 * Unit)
FromStripe(minor) == minor * Unit

Intents == {ToStripe(total) : total \in Totals \ {0}}
StripeTxn(i) == <<"stripe", i>>

StripeInit ==
    /\ stripe = [i \in Intents |-> "none"]
    /\ stripeOutbox = {}
    /\ stripeDelivered = {}

\* For the active order, over its full total. A second call with the same total
\* is answered with the same intent.
CreateStripePaymentIntent ==
    LET i == ToStripe(order.total) IN
    /\ order.state \in ActiveStates
    /\ enabled
    /\ i \in Intents
    /\ stripe[i] = "none"
    /\ stripe' = [stripe EXCEPT ![i] = "created"]
    /\ Checkout
    /\ UNCHANGED <<stripeOutbox, stripeDelivered>>

StripePay(i) ==
    /\ stripe[i] = "created"
    /\ stripe' = [stripe EXCEPT ![i] = "succeeded"]
    /\ stripeOutbox' = stripeOutbox \cup {i}
    /\ UNCHANGED <<bookVars, stripeDelivered>>

StripeRedeliver(i) ==
    /\ i \in stripeDelivered
    /\ QuietModify => order.state # "ArrangingAdditionalPayment"
    /\ Fault
    /\ stripeOutbox' = stripeOutbox \cup {i}
    /\ stripeDelivered' = stripeDelivered \ {i}
    /\ UNCHANGED <<order, settled, short, enabled, req, stripe>>

\* Mutant: the payment row gets the amount in Stripe's units.
StripeAmountUnconverted(i) == i

\* stripe.handler createPayment: what was received, not what is outstanding.
StripeAmount(i) == FromStripe(i)

\* Mutant: an order that is not open for payment is opened by force.
StripeWebhookForces(i) ==
    /\ i \in stripeOutbox
    /\ enabled
    /\ EnterSettled("ArrangingPayment", StripeTxn(i), StripeAmount(i))
    /\ stripeOutbox' = stripeOutbox \ {i}
    /\ stripeDelivered' = stripeDelivered \cup {i}
    /\ UNCHANGED <<enabled, req, used, stripe>>

\* The webhook, one transaction. While the method is disabled it answers 400.
\* An order that cannot be paid any more is logged and answered 200.
StripeWebhook(i) ==
    LET from == PaymentState(order.state) IN
    /\ i \in stripeOutbox
    /\ enabled
    /\ \/ EnterSettled(from, StripeTxn(i), StripeAmount(i))
       \/ from \notin PayableStates /\ UNCHANGED <<order, settled, short>>
    /\ stripeOutbox' = stripeOutbox \ {i}
    /\ stripeDelivered' = stripeDelivered \cup {i}
    /\ UNCHANGED <<enabled, req, used, stripe>>

\* Mutant: in the default channel the state is written, not transitioned to.
StripeWebhookDiesForced(i) ==
    /\ i \in stripeOutbox
    /\ enabled
    /\ Fault
    /\ order' = [order EXCEPT !.state = "ArrangingPayment"]
    /\ UNCHANGED <<settled, short, enabled, req, stripeVars>>

\* The transition was refused in the event's channel, made in a context of the
\* default channel, and so committed; then the transaction failed.
StripeWebhookDies(i) ==
    /\ i \in stripeOutbox
    /\ enabled
    /\ CanTransition(order.state, "ArrangingPayment")
    /\ Fault
    /\ order' = [order EXCEPT !.state = "ArrangingPayment"]
    /\ UNCHANGED <<settled, short, enabled, req, stripeVars>>

StripeShopper == CreateStripePaymentIntent

StripeServer == \E i \in stripeOutbox : StripeWebhook(i)

StripeNext ==
    \/ StripeShopper
    \/ StripeServer
    \/ \E i \in Intents : StripePay(i) \/ StripeRedeliver(i) \/ StripeWebhookDies(i)

StripeOpen == \E i \in Intents : stripe[i] # "none"
StripeCaptured == {StripeTxn(i) : i \in {j \in Intents : stripe[j] = "succeeded"}}

StripeType ==
    /\ stripe \in [Intents -> {"none", "created", "succeeded"}]
    /\ stripeOutbox \subseteq Intents
    /\ stripeDelivered \subseteq Intents

=============================================================================
