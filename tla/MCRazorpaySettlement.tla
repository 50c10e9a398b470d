------------------------ MODULE MCRazorpaySettlement ------------------------
(***************************************************************************)
(* RazorpaySettlement on small instances. Two payments are two checkouts   *)
(* of the same order (two browser tabs, or a failed attempt and another);  *)
(* two amounts let the order change between opening the checkout and       *)
(* paying.                                                                 *)
(***************************************************************************)
EXTENDS RazorpaySettlement, TLC

CONSTANTS p1, p2, w1, w2

MCTotals == {10, 20}
Symmetry == Permutations(Payments) \cup Permutations(Workers)
=============================================================================
