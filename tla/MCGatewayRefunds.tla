-------------------------- MODULE MCGatewayRefunds --------------------------
(***************************************************************************)
(* GatewayRefunds on a small instance: two refunds of a payment of two     *)
(* units, so that both fit, or one of them leaves no room for the other.   *)
(***************************************************************************)
EXTENDS GatewayRefunds

CONSTANTS r1, r2, a1, a2, w1, w2
=============================================================================
