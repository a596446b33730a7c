------------------------------ MODULE MCOrders ------------------------------
(* Small instances of Orders for TLC. *)
EXTENDS Orders

CONSTANTS o1, o2, o3, s1, a1, a2, r1, r2

\* o1 is a new subscription; o2 and o3 renew s1.
MCTarget == [o \in Orders |-> IF o = o1 THEN NoSub ELSE s1]
=============================================================================
