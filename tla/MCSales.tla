------------------------------- MODULE MCSales -------------------------------
(***************************************************************************)
(* Sales on small instances.                                               *)
(***************************************************************************)
EXTENDS Sales, TLC

CONSTANTS o1, o2, o3, o4, b1, b2, a1, a2

\* Orders, handlers and admins are alike.
Alike == Permutations(Orders) \union Permutations(Buyers) \union Permutations(Admins)

=============================================================================
