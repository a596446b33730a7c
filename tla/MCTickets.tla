------------------------------ MODULE MCTickets ------------------------------
(***************************************************************************)
(* Tickets on small instances.                                             *)
(***************************************************************************)
EXTENDS Tickets

CONSTANTS t1, t2, t3, m1, m2, a1, a2

=============================================================================
