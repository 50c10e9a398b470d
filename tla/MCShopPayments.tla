--------------------------- MODULE MCShopPayments ---------------------------
(***************************************************************************)
(* ShopPayments on small instances: a free order, and two prices that a    *)
(* currency without a fraction (Unit = 100) can express.                   *)
(***************************************************************************)
EXTENDS ShopPayments, TLC

CONSTANTS m1, m2, b1, w1, w2

MCTotals == {0, 200, 300}
MCManual == <<"manual", 0>>
MCFree == <<"free", 0>>
=============================================================================
