---------------------------- MODULE JobContract ----------------------------
(***************************************************************************)
(* What the job queue promises the rest of the bot, without rows, locks,   *)
(* leases or delays: a submitted job is tried by one worker at a time, at  *)
(* most Tries times, until it succeeds or fails; a worker may give up what *)
(* it has taken, which counts as no try; and only an operator's Retry      *)
(* reopens a job, a failed one.                                            *)
(***************************************************************************)
EXTENDS Naturals

CONSTANTS Jobs, Workers, NoWorker, Tries

VARIABLES
  state,    \* "absent", "open", "succeeded" or "permanent_failure"
  runner,   \* the worker that has taken the job
  tries     \* failed tries since the job was last submitted or reopened

vars == <<state, runner, tries>>

Init ==
  /\ state  = [j \in Jobs |-> "absent"]
  /\ runner = [j \in Jobs |-> NoWorker]
  /\ tries  = [j \in Jobs |-> 0]

Submit(j) ==
  /\ state[j] = "absent"
  /\ state' = [state EXCEPT ![j] = "open"]
  /\ UNCHANGED <<runner, tries>>

\* A free worker takes some open jobs nobody has.
Take(w, S) ==
  /\ S # {}
  /\ \A j \in S : state[j] = "open" /\ runner[j] = NoWorker
  /\ \A j \in Jobs : runner[j] # w
  /\ runner' = [j \in Jobs |-> IF j \in S THEN w ELSE runner[j]]
  /\ UNCHANGED <<state, tries>>

GiveUp(w) ==
  /\ runner' = [j \in Jobs |-> IF runner[j] = w THEN NoWorker ELSE runner[j]]
  /\ UNCHANGED <<state, tries>>

\* Only the worker that has the job ends a try, and lets go of the job.
Succeed(j) ==
  /\ runner[j] # NoWorker
  /\ state'  = [state EXCEPT ![j] = "succeeded"]
  /\ runner' = [runner EXCEPT ![j] = NoWorker]
  /\ UNCHANGED tries

Fail(j) ==
  /\ runner[j] # NoWorker
  /\ tries'  = [tries EXCEPT ![j] = @ + 1]
  /\ \/ state' = [state EXCEPT ![j] = "permanent_failure"]
     \/ tries[j] + 1 < Tries /\ UNCHANGED state
  /\ runner' = [runner EXCEPT ![j] = NoWorker]

Reopen(j) ==
  /\ state[j] = "permanent_failure"
  /\ state' = [state EXCEPT ![j] = "open"]
  /\ tries' = [tries EXCEPT ![j] = 0]
  /\ UNCHANGED runner

Next ==
  \/ \E j \in Jobs : Submit(j) \/ Succeed(j) \/ Fail(j) \/ Reopen(j)
  \/ \E w \in Workers : GiveUp(w) \/ \E S \in SUBSET Jobs : Take(w, S)

Spec == Init /\ [][Next]_vars
=============================================================================
