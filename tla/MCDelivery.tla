----------------------------- MODULE MCDelivery ------------------------------
(***************************************************************************)
(* Delivery on small instances.                                            *)
(***************************************************************************)
EXTENDS Delivery

CONSTANTS j1, j2, j3, j4, p1, p2, w1, w2

=============================================================================
