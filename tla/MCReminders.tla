----------------------------- MODULE MCReminders -----------------------------
(***************************************************************************)
(* Reminders on a small instance.                                          *)
(***************************************************************************)
EXTENDS Reminders

CONSTANTS s1

=============================================================================
