---------------------------- MODULE VendureOrder ----------------------------
(***************************************************************************)
(* What the payment plugins rely on of Vendure's OrderService (package     *)
(* @vendure/core, not part of this repository): the order states, which    *)
(* transitions the default order process allows, and what                  *)
(* addPaymentToOrder does with the result of a payment handler.            *)
(*                                                                         *)
(* An order is a record [state, total, covered]; covered is the sum of its *)
(* Settled payment rows, so the outstanding amount is total - covered.     *)
(***************************************************************************)
EXTENDS Integers

\* States of the default order process a payment plugin can meet. Fulfilment
\* states behave like PaymentSettled for a payment and are not told apart.
OrderStates == {"AddingItems", "ArrangingPayment", "PaymentAuthorized",
                "PaymentSettled", "ArrangingAdditionalPayment", "Cancelled"}

\* An order that has not been placed yet: it can be the active order of a
\* session, the only order the shop API acts on.
ActiveStates == {"AddingItems", "ArrangingPayment"}

\* orderService.addPaymentToOrder answers OrderPaymentStateError elsewhere.
PayableStates == {"ArrangingPayment", "ArrangingAdditionalPayment"}

\* The transitions of the default order process between these states. There is
\* no self transition: ArrangingPayment -> ArrangingPayment is an error.
OrderTransitions ==
    { <<"AddingItems", "ArrangingPayment">>,
      <<"ArrangingPayment", "AddingItems">>,
      <<"ArrangingPayment", "PaymentAuthorized">>,
      <<"ArrangingPayment", "PaymentSettled">>,
      <<"PaymentAuthorized", "PaymentSettled">>,
      <<"PaymentAuthorized", "ArrangingAdditionalPayment">>,
      <<"PaymentSettled", "ArrangingAdditionalPayment">>,
      <<"ArrangingAdditionalPayment", "PaymentAuthorized">>,
      <<"ArrangingAdditionalPayment", "PaymentSettled">> }
    \cup (OrderStates \ {"Cancelled"}) \X {"Cancelled"}

\* Does orderService.transitionToState succeed?
CanTransition(from, to) == <<from, to>> \in OrderTransitions

\* The amount OrderService passes to the payment handler.
Outstanding(o) == o.total - o.covered

=============================================================================
