-------------------------------- MODULE MCChat --------------------------------
(* Small instances of Chat for TLC. *)
EXTENDS Chat, TLC

CONSTANTS u1, u2, o1, o2, o3, t1, t2, b1

Symmetry == Permutations(Tasks) \union Permutations(Orders) \union Permutations(Tickets)
=============================================================================
