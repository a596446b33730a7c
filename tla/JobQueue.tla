------------------------------ MODULE JobQueue ------------------------------
(***************************************************************************)
(* The provisioning job table, the workers that lease jobs from it and the *)
(* admin's Retry button:                                                   *)
(*   src/src/app/db/repositories/job_repo.py     the table's operations    *)
(*   src/src/app/worker/engine.py                the worker's batch loop   *)
(*   src/src/app/bot/handlers/admin_jobs.py      Retry                     *)
(* What a job does to its subscription and its peer is in Access; here     *)
(* a job is a row, and running it takes time and ends in one of three ways.*)
(*                                                                         *)
(* Time is relative, so that a behaviour can go on for ever in a finite    *)
(* state space: avail[j] is the number of ticks until available_at (zero   *)
(* or less when the job is due, never below -MaxLate), age[j] the number   *)
(* of ticks since locked_at (never above Lease + 1).                       *)
(*                                                                         *)
(* A definition whose name ends in an underscore and a word, as Won_Stale, *)
(* is the one before the underscore with a mistake in it: a property that  *)
(* holds of the queue fails of a queue with that mistake.                  *)
(***************************************************************************)
EXTENDS Integers, Sequences, FiniteSets

CONSTANTS
  Jobs,           \* ids of provisioning_jobs rows
  JobKey,         \* [Jobs -> Keys]: the (job_type, aggregate_id) of a job
  Workers,        \* worker ids
  RetryHandlers,  \* Retry callbacks that may be in progress at once
  NoWorker, NoJob,
  Lease,          \* the 5 minutes after which a processing job is claimable again
  CallTime,       \* the longest that running one job can take
  BatchLimit,     \* the limit of claim_pending_jobs (10)
  MaxAttempts,    \* the max_retries of mark_failed (5)
  Backoff,        \* [1..MaxAttempts -> Nat]: the delay after the n-th failure
  MaxLate,        \* bound: how far into the past avail is followed
  CrashBudget     \* bound: how many batches are abandoned half way

ASSUME JobQueueAssumption ==
  /\ Lease \in Nat
  /\ CallTime \in Nat
  /\ BatchLimit \in Nat \ {0}
  /\ MaxAttempts \in Nat \ {0}
  /\ Backoff \in [1..MaxAttempts -> Nat]
  /\ MaxLate \in Nat
  /\ CrashBudget \in Nat
  /\ NoWorker \notin Workers
  /\ NoJob \notin Jobs

VARIABLES
  status,     \* the row's status, "absent" before it is inserted
  attempts,   \* attempt_count
  avail,      \* available_at - now
  owner,      \* locked_by
  age,        \* now - locked_at, 0 when the row is not locked
  cand,       \* the candidates a worker selected and has not claimed yet
  batch,      \* the claimed jobs a worker has still to finish, in order
  callAge,    \* how long the worker has been running the head of its batch
  held,       \* how long ago the worker claimed its batch
  retry,      \* the job a Retry callback has checked and not requeued yet
  crashes     \* batches abandoned so far

rowVars    == <<status, attempts, avail, owner, age>>
workerVars == <<cand, batch, callAge, held>>
vars       == <<rowVars, workerVars, retry, crashes>>

-----------------------------------------------------------------------------
Open    == {"pending", "processing", "retryable_failure"}
Settled == {"succeeded", "permanent_failure"}
Status  == {"absent"} \union Open \union Settled

\* The batches claim_pending_jobs can return.
Batches == UNION {[1..n -> Jobs] : n \in 1..BatchLimit}

Elements(s) == {s[i] : i \in 1..Len(s)}

Later(n, cap) == IF n > cap THEN n ELSE n + 1

Init ==
  /\ status   = [j \in Jobs |-> "absent"]
  /\ attempts = [j \in Jobs |-> 0]
  /\ avail    = [j \in Jobs |-> 0]
  /\ owner    = [j \in Jobs |-> NoWorker]
  /\ age      = [j \in Jobs |-> 0]
  /\ cand     = [w \in Workers |-> {}]
  /\ batch    = [w \in Workers |-> <<>>]
  /\ callAge  = [w \in Workers |-> 0]
  /\ held     = [w \in Workers |-> 0]
  /\ retry    = [a \in RetryHandlers |-> NoJob]
  /\ crashes  = 0

-----------------------------------------------------------------------------
(* The table's clients: approvals, renewals, the scheduler, redelivery. *)

Enqueue(j) ==
  /\ status[j] = "absent"
  /\ status' = [status EXCEPT ![j] = "pending"]
  /\ avail'  = [avail EXCEPT ![j] = 0]
  /\ UNCHANGED <<attempts, owner, age, workerVars, retry, crashes>>

-----------------------------------------------------------------------------
(* The worker. *)

Claimable_Never(j) == status[j] \in {"pending", "retryable_failure"} /\ avail[j] <= 0

\* Pending or retrying and due, or left in processing for longer than the lease.
Claimable(j) ==
  /\ \/ status[j] \in {"pending", "retryable_failure"}
     \/ status[j] = "processing" /\ age[j] > Lease
  /\ avail[j] <= 0

\* The candidates are the BatchLimit jobs that have been due longest.
Candidates(C) ==
  LET due == {j \in Jobs : Claimable(j)} IN
  /\ C \subseteq due
  /\ C # {}
  /\ Cardinality(C) <= BatchLimit
  /\ C # due => Cardinality(C) = BatchLimit
  /\ \A j \in C, k \in due \ C : avail[j] <= avail[k]

Poll_Eager(w) ==
  /\ cand[w] = {}
  /\ \E C \in SUBSET Jobs :
       /\ Candidates(C)
       /\ cand' = [cand EXCEPT ![w] = C]
  /\ UNCHANGED <<rowVars, batch, callAge, held, retry, crashes>>

\* The SELECT of claim_pending_jobs.
Poll(w) ==
  /\ batch[w] = <<>>
  /\ cand[w] = {}
  /\ \E C \in SUBSET Jobs :
       /\ Candidates(C)
       /\ cand' = [cand EXCEPT ![w] = C]
  /\ UNCHANGED <<rowVars, batch, callAge, held, retry, crashes>>

\* s lists the jobs of S, those that have been due longest first.
Lists(s, S) ==
  /\ Elements(s) = S
  /\ \A i, k \in 1..Len(s) :
       i < k => s[i] # s[k] /\ avail[s[i]] <= avail[s[k]]

Won_Stale(w) == cand[w]

\* claim_one for every candidate: an UPDATE that matches only the rows that
\* are claimable still, all of them committed together.
Won(w) == {j \in cand[w] : Claimable(j)}

LockWon(w) ==
  /\ \E s \in Batches :
       /\ Lists(s, Won(w))
       /\ batch' = [batch EXCEPT ![w] = s]
  /\ status'  = [j \in Jobs |-> IF j \in Won(w) THEN "processing" ELSE status[j]]
  /\ owner'   = [j \in Jobs |-> IF j \in Won(w) THEN w ELSE owner[j]]
  /\ age'     = [j \in Jobs |-> IF j \in Won(w) THEN 0 ELSE age[j]]
  /\ callAge' = [callAge EXCEPT ![w] = 0]
  /\ held'    = [held EXCEPT ![w] = 0]

ClaimBatch(w) ==
  /\ cand[w] # {}
  /\ cand' = [cand EXCEPT ![w] = {}]
  /\ \/ LockWon(w)
     \/ Won(w) = {} /\ UNCHANGED <<status, owner, age, batch, callAge, held>>
  /\ UNCHANGED <<attempts, avail, retry, crashes>>

\* The row of the job just run is written whoever holds its lock by now, the
\* lock is cleared, and the worker turns to the next job of its batch.
Unlock(w) ==
  LET j == Head(batch[w]) IN
  /\ owner'   = [owner EXCEPT ![j] = NoWorker]
  /\ age'     = [age EXCEPT ![j] = 0]
  /\ batch'   = [batch EXCEPT ![w] = Tail(batch[w])]
  /\ callAge' = [callAge EXCEPT ![w] = 0]

MarkCompleted(w) ==
  /\ batch[w] # <<>>
  /\ status' = [status EXCEPT ![Head(batch[w])] = "succeeded"]
  /\ Unlock(w)
  /\ UNCHANGED <<attempts, avail, cand, held, retry, crashes>>

MarkFailed_OffByOne(w, retryable) ==
  LET j == Head(batch[w])
      n == attempts[j] + 1
  IN
  /\ batch[w] # <<>>
  /\ attempts' = [attempts EXCEPT ![j] = n]
  /\ \/ /\ retryable /\ n <= MaxAttempts
        /\ status' = [status EXCEPT ![j] = "retryable_failure"]
        /\ avail'  = [avail EXCEPT ![j] = Backoff[n]]
     \/ /\ ~(retryable /\ n <= MaxAttempts)
        /\ status' = [status EXCEPT ![j] = "permanent_failure"]
        /\ UNCHANGED avail
  /\ Unlock(w)
  /\ UNCHANGED <<cand, held, retry, crashes>>

\* A failed job is retried with a growing delay while it has attempts left.
MarkFailed(w, retryable) ==
  LET j == Head(batch[w])
      n == attempts[j] + 1
  IN
  /\ batch[w] # <<>>
  /\ attempts' = [attempts EXCEPT ![j] = n]
  /\ \/ /\ retryable /\ n < MaxAttempts
        /\ status' = [status EXCEPT ![j] = "retryable_failure"]
        /\ avail'  = [avail EXCEPT ![j] = Backoff[n]]
     \/ /\ ~(retryable /\ n < MaxAttempts)
        /\ status' = [status EXCEPT ![j] = "permanent_failure"]
        /\ UNCHANGED avail
  /\ Unlock(w)
  /\ UNCHANGED <<cand, held, retry, crashes>>

\* The process dies, or the database refuses a commit and the exception leaves
\* run_single_batch: what was claimed stays in processing until its lease ends.
Abandon(w) ==
  /\ crashes < CrashBudget
  /\ batch[w] # <<>>
  /\ crashes' = crashes + 1
  /\ batch'   = [batch EXCEPT ![w] = <<>>]
  /\ callAge' = [callAge EXCEPT ![w] = 0]
  /\ UNCHANGED <<rowVars, cand, held, retry>>

-----------------------------------------------------------------------------
(* Retry, in the admin chat. *)

HasOpenJob(key) == \E k \in Jobs : JobKey[k] = key /\ status[k] \in Open

RetryCheck_AnyStatus(a, j) ==
  /\ retry[a] = NoJob
  /\ ~HasOpenJob(JobKey[j])
  /\ retry' = [retry EXCEPT ![a] = j]
  /\ UNCHANGED <<rowVars, workerVars, crashes>>

\* The callback reads the job and runs retry_blocker ...
RetryCheck(a, j) ==
  /\ retry[a] = NoJob
  /\ status[j] = "permanent_failure"
  /\ ~HasOpenJob(JobKey[j])
  /\ retry' = [retry EXCEPT ![a] = j]
  /\ UNCHANGED <<rowVars, workerVars, crashes>>

Requeue_KeepsAttempts(a) ==
  LET j == retry[a] IN
  /\ j # NoJob
  /\ status'   = [status EXCEPT ![j] = "pending"]
  /\ avail'    = [avail EXCEPT ![j] = 0]
  /\ retry'    = [retry EXCEPT ![a] = NoJob]
  /\ UNCHANGED <<attempts, owner, age, workerVars, crashes>>

\* ... and then writes the row back as a fresh one, and commits. Its copy of a job
\* that failed for good has no lock, so the lock columns are not written.
Requeue(a) ==
  LET j == retry[a] IN
  /\ j # NoJob
  /\ status'   = [status EXCEPT ![j] = "pending"]
  /\ attempts' = [attempts EXCEPT ![j] = 0]
  /\ avail'    = [avail EXCEPT ![j] = 0]
  /\ retry'    = [retry EXCEPT ![a] = NoJob]
  /\ UNCHANGED <<owner, age, workerVars, crashes>>

-----------------------------------------------------------------------------
\* A tick of the clock. No job runs past CallTime, and a claim, which calls
\* nothing but the database, takes no time.
Tick ==
  /\ \A w \in Workers :
       /\ cand[w] = {}
       /\ batch[w] # <<>> => callAge[w] < CallTime
  /\ avail'   = [j \in Jobs |-> IF avail[j] > -MaxLate THEN avail[j] - 1 ELSE avail[j]]
  /\ age'     = [j \in Jobs |-> IF status[j] = "processing"
                                  THEN Later(age[j], Lease) ELSE age[j]]
  /\ callAge' = [w \in Workers |-> IF batch[w] # <<>> THEN callAge[w] + 1 ELSE callAge[w]]
  /\ held'    = [w \in Workers |-> IF batch[w] # <<>>
                                     THEN Later(held[w], Lease) ELSE held[w]]
  /\ UNCHANGED <<status, attempts, owner, cand, batch, retry, crashes>>

Finish(w) == MarkCompleted(w) \/ \E retryable \in BOOLEAN : MarkFailed(w, retryable)

Next ==
  \/ \E j \in Jobs : Enqueue(j)
  \/ \E w \in Workers : Poll(w) \/ ClaimBatch(w) \/ Finish(w) \/ Abandon(w)
  \/ \E a \in RetryHandlers : (\E j \in Jobs : RetryCheck(a, j)) \/ Requeue(a)
  \/ Tick

Spec == Init /\ [][Next]_vars

\* The loop of WorkerEngine.start polls for ever and every call it makes has a
\* timeout; time passes; a callback that has begun ends. Nothing makes a
\* customer order, an admin press Retry, or a process die.
Fairness ==
  /\ \A w \in Workers : WF_vars(Poll(w)) /\ WF_vars(ClaimBatch(w)) /\ WF_vars(Finish(w))
  /\ \A a \in RetryHandlers : WF_vars(Requeue(a))
  /\ SF_vars(Tick)

FairSpec == Spec /\ Fairness

-----------------------------------------------------------------------------
(* Properties. *)

TypeOK ==
  /\ status \in [Jobs -> Status]
  /\ attempts \in [Jobs -> Nat]
  /\ avail \in [Jobs -> Int]
  /\ owner \in [Jobs -> Workers \union {NoWorker}]
  /\ age \in [Jobs -> Nat]
  /\ cand \in [Workers -> SUBSET Jobs]
  /\ batch \in [Workers -> Seq(Jobs)]
  /\ callAge \in [Workers -> Nat]
  /\ held \in [Workers -> Nat]
  /\ retry \in [RetryHandlers -> Jobs \union {NoJob}]
  /\ crashes \in Nat

\* The conditions under which a job is safe with the worker that claimed it: a
\* whole batch ends within the lease, or there is one worker only, and Retry
\* callbacks do not overlap.
BatchFitsLease  == BatchLimit * CallTime <= Lease
OneWorker       == \A w, v \in Workers : w = v
OneRetryAtATime == \A a, b \in RetryHandlers : a = b

\* No job is in the hands of two workers, and none is twice in one batch:
\* "if two workers ever run, only one of them gets a job" (ARCHITECTURE.md).
NoDoubleRun ==
  /\ \A w, v \in Workers : w # v => Elements(batch[w]) \intersect Elements(batch[v]) = {}
  /\ \A w \in Workers : \A i, k \in 1..Len(batch[w]) :
       i # k => batch[w][i] # batch[w][k]

\* A worker holds the lock of every job it has still to finish, and the lock is
\* as old as its batch: mark_completed and mark_failed, which do not look at
\* locked_by, only ever clear the caller's own lock.
HoldsLocks ==
  \A w \in Workers : \A j \in Elements(batch[w]) :
    /\ status[j] = "processing"
    /\ owner[j] = w
    /\ age[j] = held[w]

\* A job is never tried more often than mark_failed allows, through all
\* crashes, lost leases and retries, and an open one has an attempt left.
AttemptsBounded ==
  \A j \in Jobs :
    /\ attempts[j] <= MaxAttempts
    /\ status[j] \in Open => attempts[j] < MaxAttempts

\* A job that succeeded stays so, and one that failed for good goes back to
\* work only through Retry: no late answer of a worker reopens it.
SettledStays ==
  [][\A j \in Jobs :
       /\ status[j] = "succeeded" => status'[j] = "succeeded"
       /\ status[j] = "permanent_failure" /\ status'[j] # status[j] =>
            /\ status'[j] = "pending"
            /\ \E a \in RetryHandlers : retry[a] = j /\ retry'[a] = NoJob
    ]_vars

\* Retry only ever touches a job that failed for good: requeue is there to "give
\* a job that failed for good a fresh set of attempts".
RetryOnlyFailed ==
  [][\A a \in RetryHandlers :
       retry[a] # NoJob /\ retry'[a] = NoJob => status[retry[a]] = "permanent_failure"
    ]_vars

\* Every job that is queued is run until it succeeds or fails for good, also
\* when the worker that claimed it dies.
OpenJobsSettle ==
  \A j \in Jobs : status[j] \in Open ~> status[j] \in Settled

\* What makes the invariants above inductive: a worker selects candidates only
\* with its batch done; the jobs it has still to do fit into what is left of the
\* time a whole batch may take; a checked Retry still finds its job failed; and
\* a job nobody queued has not been tried.
PollsWhenDone == \A w \in Workers : cand[w] # {} => batch[w] = <<>>

BatchInTime ==
  \A w \in Workers : batch[w] # <<>> =>
    /\ callAge[w] <= CallTime
    /\ held[w] + Len(batch[w]) * CallTime <= BatchLimit * CallTime + callAge[w]

RetryStillDue == \A a \in RetryHandlers :
  retry[a] # NoJob => status[retry[a]] = "permanent_failure"

AbsentUntried == \A j \in Jobs : status[j] = "absent" => attempts[j] = 0

QueueInv ==
  /\ TypeOK
  /\ HoldsLocks
  /\ NoDoubleRun
  /\ AttemptsBounded
  /\ PollsWhenDone
  /\ BatchInTime
  /\ RetryStillDue
  /\ AbsentUntried

\* The queue seen from outside: see JobContract. A row shows how its job fares ...
Shown(st) == CASE st = "absent"   -> "absent"
               [] st \in Open    -> "open"
               [] st \in Settled -> st

JobState == [j \in Jobs |-> Shown(status[j])]

\* ... and a batch who runs it.
Runner == [j \in Jobs |-> IF \E w \in Workers : j \in Elements(batch[w])
                            THEN CHOOSE w \in Workers : j \in Elements(batch[w])
                            ELSE NoWorker]

Contract == INSTANCE JobContract WITH
  Tries  <- MaxAttempts,
  tries  <- attempts,
  state  <- JobState,
  runner <- Runner

\* The table and its workers implement the contract: rows, locks, leases and
\* delays amount to jobs that one worker at a time tries a bounded number of times.
RefinesContract == Contract!Spec
=============================================================================
