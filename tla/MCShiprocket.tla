---------------------------- MODULE MCShiprocket ----------------------------
EXTENDS Shiprocket

MCFulfillments == 1 .. 2
=============================================================================
