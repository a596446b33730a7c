------------------------------ MODULE Delivery -------------------------------
(***************************************************************************)
(* The config files that a customer asks for again: the button and its     *)
(* limit (bot/handlers/customer), the jobs it queues, the worker that      *)
(* sends the file and counts it (worker/engine), and Retry                 *)
(* (bot/handlers/admin_jobs). The subscription is one that has its peer.   *)
(*                                                                         *)
(* The limit is checked when the button is pressed, and the count goes up  *)
(* when the worker commits what it has sent. JobQueue is about who runs a  *)
(* job and how often; here a run may fail at any time, also when the file  *)
(* is with the customer already.                                           *)
(*                                                                         *)
(* A definition whose name ends in an underscore and a word is the one     *)
(* before the underscore with a mistake in it, which a property excludes.  *)
(***************************************************************************)
EXTENDS Naturals, FiniteSets

CONSTANTS
  Jobs,         \* ids of redeliver jobs
  Presses,      \* handlers of the button that may run at once
  Workers,
  Limit,        \* CONFIG_REDELIVERY_LIMIT
  Patient,      \* does the customer wait for one config before asking for the next?
  MaxSends,     \* bound: sends by the worker
  CrashBudget,  \* bound: crashes of a worker
  MissBudget,   \* bound: failures reported after a config was sent
  RetryBudget,  \* bound: uses of Retry
  NoJob

ASSUME DeliveryAssumption ==
  /\ NoJob \notin Jobs /\ IsFiniteSet(Jobs)
  /\ Limit \in Nat /\ MaxSends \in Nat
  /\ CrashBudget \in Nat /\ MissBudget \in Nat /\ RetryBudget \in Nat
  /\ Patient \in BOOLEAN

VARIABLES
  job,      \* "none", "open", "done" or "failed" (for good)
  count,    \* subscriptions.config_redelivery_count
  asked,    \* presses that were accepted
  sent,     \* configs sent to the customer
  press,    \* the handlers of the button
  run,      \* what each worker is doing, and the count in its copy of the row
  crashes,
  misses,   \* failures reported after a config was sent
  retries

vars == <<job, count, asked, sent, press, run, crashes, misses, retries>>

-----------------------------------------------------------------------------
Idle == [step |-> "idle", job |-> NoJob, seen |-> 0]

Init ==
  /\ job     = [j \in Jobs |-> "none"]
  /\ count   = 0
  /\ asked   = 0
  /\ sent    = 0
  /\ press   = [p \in Presses |-> "idle"]
  /\ run     = [w \in Workers |-> Idle]
  /\ crashes = 0
  /\ misses  = 0
  /\ retries = 0

OpenJobs == {j \in Jobs : job[j] = "open"}

-----------------------------------------------------------------------------
(* The customer. *)

WithinLimit_OneMore == count <= Limit

WithinLimit == count < Limit

\* callback_redeliver_subscription reads the count ...
Press(p) ==
  /\ press[p] = "idle"
  /\ WithinLimit
  /\ Patient => OpenJobs = {} /\ \A q \in Presses : press[q] = "idle"
  /\ press' = [press EXCEPT ![p] = "queue"]
  /\ UNCHANGED <<job, count, asked, sent, run, crashes, misses, retries>>

\* ... and queues a job.
QueueRedelivery(p) ==
  /\ press[p] = "queue"
  /\ \E j \in Jobs : job[j] = "none" /\ job' = [job EXCEPT ![j] = "open"]
  /\ asked' = asked + 1
  /\ press' = [press EXCEPT ![p] = "idle"]
  /\ UNCHANGED <<count, sent, run, crashes, misses, retries>>

-----------------------------------------------------------------------------
(* The workers. *)

\* One worker runs a job. It reads the subscription ...
Begin(w, j) ==
  /\ run[w] = Idle
  /\ job[j] = "open" /\ \A v \in Workers : run[v].job # j
  /\ run' = [run EXCEPT ![w] = [step |-> "send", job |-> j, seen |-> count]]
  /\ UNCHANGED <<job, count, asked, sent, press, crashes, misses, retries>>

\* ... gets the config and sends the file. The key that follows may fail.
SendDocument(w) ==
  /\ run[w].step = "send"
  /\ sent < MaxSends
  /\ sent' = sent + 1
  /\ run'  = [run EXCEPT ![w].step = "count"]
  /\ UNCHANGED <<job, count, asked, press, crashes, misses, retries>>

CommitCount_Lost(w) ==
  /\ run[w].step = "count"
  /\ job' = [job EXCEPT ![run[w].job] = "done"]
  /\ run' = [run EXCEPT ![w] = Idle]
  /\ UNCHANGED <<count, asked, sent, press, crashes, misses, retries>>

\* increment_redelivery_count adds to the copy; mark_completed; one commit.
CommitCount(w) ==
  /\ run[w].step = "count"
  /\ count' = run[w].seen + 1
  /\ job'   = [job EXCEPT ![run[w].job] = "done"]
  /\ run'   = [run EXCEPT ![w] = Idle]
  /\ UNCHANGED <<asked, sent, press, crashes, misses, retries>>

FailSend_Counts(w) ==
  /\ run[w].step = "send"
  /\ count' = run[w].seen + 1
  /\ job' \in {job, [job EXCEPT ![run[w].job] = "failed"]}
  /\ run' = [run EXCEPT ![w] = Idle]
  /\ UNCHANGED <<asked, sent, press, crashes, misses, retries>>

\* The config cannot be had, or not sent: nothing is counted, the job waits or gives up.
FailSend(w) ==
  /\ run[w].step = "send"
  /\ job' \in {job, [job EXCEPT ![run[w].job] = "failed"]}
  /\ run' = [run EXCEPT ![w] = Idle]
  /\ UNCHANGED <<count, asked, sent, press, crashes, misses, retries>>

\* The config is sent, but Telegram's answer is late, or the count cannot be written or
\* committed (another connection has the database locked): the same failure is recorded.
FailCount(w) ==
  /\ run[w].step = "count"
  /\ misses < MissBudget
  /\ misses' = misses + 1
  /\ job' \in {job, [job EXCEPT ![run[w].job] = "failed"]}
  /\ run' = [run EXCEPT ![w] = Idle]
  /\ UNCHANGED <<count, asked, sent, press, crashes, retries>>

\* The worker dies, or cannot record the failure either. The job's lease passes, and it
\* is run again.
Crash(w) ==
  /\ run[w] # Idle
  /\ crashes < CrashBudget
  /\ crashes' = crashes + 1
  /\ run' = [run EXCEPT ![w] = Idle]
  /\ UNCHANGED <<job, count, asked, sent, press, misses, retries>>

-----------------------------------------------------------------------------
\* The admin's Retry, unless the customer has asked again meanwhile.
Retry(j) ==
  /\ job[j] = "failed"
  /\ OpenJobs = {}
  /\ retries < RetryBudget
  /\ retries' = retries + 1
  /\ job' = [job EXCEPT ![j] = "open"]
  /\ UNCHANGED <<count, asked, sent, press, run, crashes, misses>>

Next ==
  \/ \E p \in Presses : Press(p) \/ QueueRedelivery(p)
  \/ \E w \in Workers : \/ SendDocument(w) \/ CommitCount(w) \/ FailSend(w) \/ FailCount(w)
                        \/ Crash(w)
                        \/ \E j \in Jobs : Begin(w, j)
  \/ \E j \in Jobs : Retry(j)

Spec == Init /\ [][Next]_vars

-----------------------------------------------------------------------------
(* Properties. *)

TypeOK ==
  /\ job \in [Jobs -> {"none", "open", "done", "failed"}]
  /\ count \in 0 .. MaxSends
  /\ asked \in 0 .. Cardinality(Jobs)
  /\ sent \in 0 .. MaxSends
  /\ press \in [Presses -> {"idle", "queue"}]
  /\ run \in [Workers -> [step : {"idle", "send", "count"}, job : Jobs \union {NoJob}, seen : 0 .. MaxSends]]
  /\ crashes \in 0 .. CrashBudget
  /\ misses \in 0 .. MissBudget
  /\ retries \in 0 .. RetryBudget

\* A customer's count never goes up for a config that was not sent, however workers
\* overlap, fail or die.
CountedWereSent == count <= sent

\* With one worker, a config is sent without being counted only by a crash between the
\* two or by a failure reported after it was sent, or is being counted now.
SentAreCounted ==
  sent <= count + crashes + misses + Cardinality({w \in Workers : run[w].step = "count"})

\* A customer who waits gets Limit configs, and one more for each crash, each failure
\* reported after a config was sent, and each Retry.
SentWithinLimit == sent <= Limit + crashes + misses + retries

\* CONFIG_REDELIVERY_LIMIT is "how many times a customer can ask for their config
\* again".
AskedWithinLimit == asked <= Limit
=============================================================================
