----------------------------- MODULE MCJobQueue -----------------------------
(* A small instance of JobQueue for TLC. *)
EXTENDS JobQueue, TLC

CONSTANTS j1, j2, w1, w2

\* The jobs are of the same type for the same subscription, so that queueing one
\* looks at the other.
MCJobKey   == [j \in Jobs |-> "same"]
MCBackoff  == [n \in 1..MaxAttempts |-> n]
=============================================================================
