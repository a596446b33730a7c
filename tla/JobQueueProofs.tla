--------------------------- MODULE JobQueueProofs ---------------------------
(***************************************************************************)
(* Proofs about JobQueue, for any number of jobs, workers and Retry        *)
(* handlers, any lease, call time, batch limit and delays.                 *)
(***************************************************************************)
EXTENDS JobQueue, SequenceTheorems, TLAPS

-----------------------------------------------------------------------------
(* Batches as sequences. *)

\* A batch that claim_pending_jobs can return is a non-empty sequence of jobs.
LEMMA BatchIsSeq ==
  ASSUME NEW s \in Batches
  PROVE  /\ s \in Seq(Jobs)
         /\ s # <<>>
         /\ Len(s) \in 1..BatchLimit
<1>1. PICK n \in 1..BatchLimit : s \in [1..n -> Jobs]
  BY DEF Batches
<1>2. BatchLimit \in Nat
  BY JobQueueAssumption
<1>3. n \in Nat /\ n \in 1..BatchLimit
  BY <1>1, <1>2
<1>4. s \in Seq(Jobs)
  BY <1>1, <1>3, IsASeq
<1>5. Len(s) = n
  BY <1>1, <1>3, <1>4, LenProperties
<1> QED
  BY <1>3, <1>4, <1>5, EmptySeq

\* What is left of a batch once its head is done.
LEMMA TailOfBatch ==
  ASSUME NEW S, NEW s \in Seq(S), s # <<>>
  PROVE  /\ Tail(s) \in Seq(S)
         /\ Len(Tail(s)) = Len(s) - 1
         /\ \A i \in 1..Len(Tail(s)) : i + 1 \in 1..Len(s) /\ Tail(s)[i] = s[i + 1]
         /\ Head(s) = s[1] /\ 1 \in 1..Len(s)
         /\ Head(s) \in S
         /\ Len(s) \in Nat /\ Len(s) > 0
         /\ Tail(s) # <<>> => Len(s) > 1
         /\ Elements(Tail(s)) \subseteq Elements(s)
         /\ Head(s) \in Elements(s)
         /\ Elements(s) \subseteq S
<1>1. /\ Len(s) \in Nat
      /\ Len(s) > 0
      /\ \A i \in 1..Len(s) : s[i] \in S
  BY LenProperties, EmptySeq, ElementOfSeq
<1>2. /\ Head(s) = s[1]
      /\ Head(s) \in S
      /\ Tail(s) \in Seq(S)
      /\ Len(Tail(s)) = Len(s) - 1
      /\ \A i \in 1..Len(Tail(s)) : Tail(s)[i] = s[i + 1]
  BY HeadTailProperties, <1>1
<1>3. \A i \in 1..Len(Tail(s)) : i + 1 \in 1..Len(s)
  BY <1>1, <1>2
<1>4. Tail(s) # <<>> => Len(s) > 1
  BY <1>1, <1>2, EmptySeq
<1> QED
  BY <1>1, <1>2, <1>3, <1>4 DEF Elements

-----------------------------------------------------------------------------
(* Types. *)

\* Init gives every variable a value of its type.
LEMMA InitTypeOK == Init => TypeOK
BY JobQueueAssumption DEF Init, TypeOK, Status

\* Every step keeps the types.
LEMMA NextTypeOK == TypeOK /\ [Next]_vars => TypeOK'
<1> SUFFICES ASSUME TypeOK, [Next]_vars PROVE TypeOK'
  OBVIOUS
<1> USE JobQueueAssumption
<1>1. ASSUME NEW j \in Jobs, Enqueue(j) PROVE TypeOK'
  BY <1>1 DEF TypeOK, Enqueue, workerVars, Status, Open
<1>2. ASSUME NEW w \in Workers, Poll(w) PROVE TypeOK'
  BY <1>2 DEF TypeOK, Poll, rowVars
<1>3. ASSUME NEW w \in Workers, ClaimBatch(w) PROVE TypeOK'
  <2>1. CASE LockWon(w)
    <3>1. batch' \in [Workers -> Seq(Jobs)]
      BY <2>1, BatchIsSeq DEF TypeOK, LockWon
    <3>2. /\ status' \in [Jobs -> Status]
          /\ owner' \in [Jobs -> Workers \union {NoWorker}]
          /\ age' \in [Jobs -> Nat]
          /\ callAge' \in [Workers -> Nat]
          /\ held' \in [Workers -> Nat]
      BY <2>1 DEF TypeOK, LockWon, Status, Open
    <3> QED
      BY <1>3, <3>1, <3>2 DEF TypeOK, ClaimBatch
  <2>2. CASE UNCHANGED <<status, owner, age, batch, callAge, held>>
    BY <1>3, <2>2 DEF TypeOK, ClaimBatch
  <2> QED
    BY <1>3, <2>1, <2>2 DEF ClaimBatch
<1>4. ASSUME NEW w \in Workers, MarkCompleted(w) PROVE TypeOK'
  <2>1. Tail(batch[w]) \in Seq(Jobs) /\ Head(batch[w]) \in Jobs
    BY <1>4, TailOfBatch DEF TypeOK, MarkCompleted
  <2> QED
    BY <1>4, <2>1 DEF TypeOK, MarkCompleted, Unlock, Status, Settled
<1>5. ASSUME NEW w \in Workers, NEW r \in BOOLEAN, MarkFailed(w, r) PROVE TypeOK'
  <2> DEFINE j == Head(batch[w])
             n == attempts[j] + 1
  <2>1. Tail(batch[w]) \in Seq(Jobs) /\ j \in Jobs
    BY <1>5, TailOfBatch DEF TypeOK, MarkFailed
  <2>2. n \in Nat \ {0}
    BY <2>1 DEF TypeOK
  <2>3. attempts' \in [Jobs -> Nat]
    BY <1>5, <2>1, <2>2 DEF TypeOK, MarkFailed
  <2>4. status' \in [Jobs -> Status] /\ avail' \in [Jobs -> Int]
    <3>1. CASE r /\ n < MaxAttempts
      <4>1. n \in 1..MaxAttempts
        BY <2>2, <3>1
      <4>2. Backoff[n] \in Int
        BY <4>1
      <4> QED
        BY <1>5, <2>1, <3>1, <4>2 DEF TypeOK, MarkFailed, Status, Open
    <3>2. CASE ~(r /\ n < MaxAttempts)
      BY <1>5, <2>1, <3>2 DEF TypeOK, MarkFailed, Status, Settled
    <3> QED
      BY <3>1, <3>2
  <2> QED
    BY <1>5, <2>1, <2>3, <2>4 DEF TypeOK, MarkFailed, Unlock
<1>6. ASSUME NEW w \in Workers, Abandon(w) PROVE TypeOK'
  <2>1. <<>> \in Seq(Jobs)
    BY EmptySeq
  <2> QED
    BY <1>6, <2>1 DEF TypeOK, Abandon, rowVars
<1>7. ASSUME NEW a \in RetryHandlers, NEW j \in Jobs, RetryCheck(a, j) PROVE TypeOK'
  BY <1>7 DEF TypeOK, RetryCheck, rowVars, workerVars
<1>8. ASSUME NEW a \in RetryHandlers, Requeue(a) PROVE TypeOK'
  BY <1>8 DEF TypeOK, Requeue, workerVars, Status, Open
<1>9. ASSUME Tick PROVE TypeOK'
  <2>1. avail' \in [Jobs -> Int]
    BY <1>9 DEF TypeOK, Tick
  <2>2. \A n \in Nat : Later(n, Lease) \in Nat
    BY DEF Later
  <2>3. age' \in [Jobs -> Nat]
    BY <1>9, <2>2 DEF TypeOK, Tick
  <2>4. held' \in [Workers -> Nat]
    BY <1>9, <2>2 DEF TypeOK, Tick
  <2>5. callAge' \in [Workers -> Nat]
    BY <1>9 DEF TypeOK, Tick
  <2> QED
    BY <1>9, <2>1, <2>3, <2>4, <2>5 DEF TypeOK, Tick
<1>10. CASE UNCHANGED vars
  BY <1>10 DEF TypeOK, vars, rowVars, workerVars
<1> QED
  BY <1>1, <1>2, <1>3, <1>4, <1>5, <1>6, <1>7, <1>8, <1>9, <1>10 DEF Next, Finish

\* Every reachable state has the types the rows, the workers and the callbacks
\* of the code have.
THEOREM TypeCorrect == Spec => []TypeOK
BY InitTypeOK, NextTypeOK, PTL DEF Spec

-----------------------------------------------------------------------------
(* A job stays with the worker that claimed it. *)

\* The part of QueueInv that relates batches to the rows' locks.
LocksInv == HoldsLocks /\ NoDoubleRun /\ BatchInTime /\ PollsWhenDone

\* A step that leaves the batches alone, and the rows of the jobs in them, keeps
\* the locks.
LEMMA LocksUntouched ==
  ASSUME QueueInv,
         batch' = batch, callAge' = callAge, held' = held,
         \A w \in Workers : cand'[w] # {} => cand[w] # {} \/ batch[w] = <<>>,
         \A w \in Workers : \A j \in Elements(batch[w]) :
           status'[j] = status[j] /\ owner'[j] = owner[j] /\ age'[j] = age[j]
  PROVE  LocksInv'
<1>1. HoldsLocks'
  BY DEF QueueInv, HoldsLocks, Elements
<1>2. NoDoubleRun'
  BY DEF QueueInv, NoDoubleRun
<1>3. BatchInTime'
  BY DEF QueueInv, BatchInTime
<1>4. PollsWhenDone'
  BY DEF QueueInv, PollsWhenDone
<1> QED
  BY <1>1, <1>2, <1>3, <1>4 DEF LocksInv

\* A job has at most one worker that holds its lock, so no two batches share it.
LEMMA LocksExclude ==
  ASSUME HoldsLocks
  PROVE  \A w, v \in Workers : w # v => Elements(batch[w]) \intersect Elements(batch[v]) = {}
BY DEF HoldsLocks

\* Ending the head of a batch leaves every other claimed job's lock in place.
LEMMA LocksUnlock ==
  ASSUME QueueInv, NEW w \in Workers, batch[w] # <<>>, Unlock(w),
         cand' = cand, held' = held,
         \A j \in Jobs : j # Head(batch[w]) => status'[j] = status[j]
  PROVE  LocksInv'
<1> DEFINE h == Head(batch[w])
<1>1. batch[w] \in Seq(Jobs)
  BY DEF QueueInv, TypeOK
<1>2. /\ \A v \in Workers : v # w => batch'[v] = batch[v] /\ callAge'[v] = callAge[v]
      /\ batch'[w] = Tail(batch[w]) /\ callAge'[w] = 0
  BY DEF Unlock, QueueInv, TypeOK
<1>3. \A j \in Jobs : j # h => owner'[j] = owner[j] /\ age'[j] = age[j]
  BY DEF Unlock, QueueInv, TypeOK
<1>4. h \notin Elements(Tail(batch[w]))
  <2>1. \A i \in 1..Len(Tail(batch[w])) : i + 1 \in 1..Len(batch[w]) /\ i + 1 # 1
    BY <1>1, TailOfBatch
  <2>2. \A i \in 1..Len(Tail(batch[w])) : batch[w][i + 1] # batch[w][1]
    BY <1>1, <2>1, TailOfBatch DEF QueueInv, NoDoubleRun
  <2> QED
    BY <1>1, <2>2, TailOfBatch DEF Elements
<1>5. \A v \in Workers : h \notin Elements(batch'[v])
  <2>1. \A v \in Workers : v # w => h \notin Elements(batch[v])
    BY <1>1, TailOfBatch DEF QueueInv, NoDoubleRun
  <2> QED
    BY <1>2, <1>4, <2>1
<1>6. \A v \in Workers : Elements(batch'[v]) \subseteq Elements(batch[v]) /\ Elements(batch[v]) \subseteq Jobs
  <2>1. \A v \in Workers : Elements(batch[v]) \subseteq Jobs
    <3> SUFFICES ASSUME NEW v \in Workers PROVE Elements(batch[v]) \subseteq Jobs
      OBVIOUS
    <3>1. batch[v] \in Seq(Jobs)
      BY DEF QueueInv, TypeOK
    <3> QED
      BY <3>1, ElementOfSeq DEF Elements
  <2> QED
    BY <1>1, <1>2, <2>1, TailOfBatch
<1>7. HoldsLocks'
  <2> SUFFICES ASSUME NEW v \in Workers, NEW j \in Elements(batch'[v])
               PROVE  /\ status'[j] = "processing" /\ owner'[j] = v /\ age'[j] = held'[v]
    BY DEF HoldsLocks
  <2>1. j \in Elements(batch[v]) /\ j \in Jobs /\ j # h
    BY <1>5, <1>6
  <2> QED
    BY <2>1, <1>3 DEF QueueInv, HoldsLocks
<1>8. NoDoubleRun'
  <2>1. \A v, u \in Workers : v # u => Elements(batch'[v]) \intersect Elements(batch'[u]) = {}
    BY <1>6 DEF QueueInv, NoDoubleRun
  <2>2. \A i, k \in 1..Len(Tail(batch[w])) : i # k => Tail(batch[w])[i] # Tail(batch[w])[k]
    <3> SUFFICES ASSUME NEW i \in 1..Len(Tail(batch[w])), NEW k \in 1..Len(Tail(batch[w])), i # k
                 PROVE  Tail(batch[w])[i] # Tail(batch[w])[k]
      OBVIOUS
    <3>1. i + 1 \in 1..Len(batch[w]) /\ k + 1 \in 1..Len(batch[w]) /\ i + 1 # k + 1
      BY <1>1, TailOfBatch
    <3> QED
      BY <1>1, <3>1, TailOfBatch DEF QueueInv, NoDoubleRun
  <2>3. ASSUME NEW v \in Workers
        PROVE  \A i, k \in 1..Len(batch'[v]) : i # k => batch'[v][i] # batch'[v][k]
    <3>1. CASE v = w
      BY <3>1, <1>2, <2>2
    <3>2. CASE v # w
      BY <3>2, <1>2 DEF QueueInv, NoDoubleRun
    <3> QED
      BY <3>1, <3>2
  <2> QED
    BY <2>1, <2>3 DEF NoDoubleRun
<1>9. BatchInTime'
  <2>1. ASSUME Tail(batch[w]) # <<>>
        PROVE  /\ 0 <= CallTime
               /\ held[w] + Len(Tail(batch[w])) * CallTime <= BatchLimit * CallTime
    <3> DEFINE L == Len(batch[w])
    <3>1. L \in Nat /\ CallTime \in Nat /\ BatchLimit \in Nat /\ held[w] \in Nat /\ callAge[w] \in Nat
      BY <1>1, TailOfBatch, JobQueueAssumption DEF QueueInv, TypeOK
    <3>2. callAge[w] <= CallTime /\ held[w] + L * CallTime <= BatchLimit * CallTime + callAge[w]
      BY DEF QueueInv, BatchInTime
    <3>3. (L - 1) * CallTime = L * CallTime - CallTime
      BY <3>1
    <3>4. L * CallTime \in Nat /\ BatchLimit * CallTime \in Nat
      BY <3>1
    <3>5. held[w] + (L * CallTime - CallTime) <= BatchLimit * CallTime
      BY <3>1, <3>2, <3>4
    <3> QED
      BY <1>1, <3>1, <3>3, <3>5, TailOfBatch
  <2>2. BatchLimit * CallTime \in Nat
    BY JobQueueAssumption
  <2>3. ASSUME NEW v \in Workers, batch'[v] # <<>>
        PROVE  /\ callAge'[v] <= CallTime
               /\ held'[v] + Len(batch'[v]) * CallTime <= BatchLimit * CallTime + callAge'[v]
    <3>1. CASE v = w
      BY <3>1, <2>3, <1>2, <2>1, <2>2
    <3>2. CASE v # w
      BY <3>2, <2>3, <1>2 DEF QueueInv, BatchInTime
    <3> QED
      BY <3>1, <3>2
  <2> QED
    BY <2>3 DEF BatchInTime
<1>10. PollsWhenDone'
  BY <1>2 DEF QueueInv, PollsWhenDone
<1> QED
  BY <1>7, <1>8, <1>9, <1>10 DEF LocksInv
\* Under either protection no worker wins a job another worker has to finish:
\* the job's lock is younger than the lease, or there is no other worker.
LEMMA WonIsFree ==
  ASSUME QueueInv, BatchFitsLease \/ OneWorker,
         NEW w \in Workers, cand[w] # {},
         NEW v \in Workers, NEW j \in Elements(batch[v])
  PROVE  j \notin Won(w)
<1>1. batch[w] = <<>>
  BY DEF QueueInv, PollsWhenDone
<1>2. batch[v] \in Seq(Jobs)
  BY DEF QueueInv, TypeOK
<1>3. batch[v] # <<>>
  BY <1>2, LenProperties, EmptySeq DEF Elements
<1>4. v # w
  BY <1>1, <1>3
<1>5. CASE OneWorker
  BY <1>4, <1>5 DEF OneWorker
<1>6. CASE BatchFitsLease
  <2> DEFINE L == Len(batch[v])
  <2>1. L \in Nat /\ L > 0 /\ CallTime \in Nat /\ Lease \in Nat
        /\ held[v] \in Nat /\ callAge[v] \in Nat
    BY <1>2, <1>3, TailOfBatch, JobQueueAssumption DEF QueueInv, TypeOK
  <2>2. L * CallTime >= CallTime /\ L * CallTime \in Nat
    <3>1. (L - 1) \in Nat
      BY <2>1
    <3>2. (L - 1) * CallTime \in Nat
      BY <2>1, <3>1
    <3>3. (L - 1) * CallTime = L * CallTime - CallTime
      BY <2>1
    <3> QED
      BY <2>1, <3>2, <3>3
  <2>3. callAge[v] <= CallTime /\ held[v] + L * CallTime <= BatchLimit * CallTime + callAge[v]
    BY <1>3 DEF QueueInv, BatchInTime
  <2>4. BatchLimit * CallTime \in Nat /\ BatchLimit * CallTime <= Lease
    BY <1>6, JobQueueAssumption DEF BatchFitsLease
  <2>5. held[v] <= Lease
    BY <2>1, <2>2, <2>3, <2>4
  <2>6. status[j] = "processing" /\ age[j] = held[v]
    BY DEF QueueInv, HoldsLocks
  <2>7. ~Claimable(j)
    BY <2>1, <2>5, <2>6 DEF Claimable
  <2> QED
    BY <2>7 DEF Won
<1> QED
  BY <1>5, <1>6

\* A claim locks what it won for the worker and leaves the other locks in place.
LEMMA LocksClaim ==
  ASSUME QueueInv, BatchFitsLease \/ OneWorker,
         NEW w \in Workers, cand[w] # {}, LockWon(w),
         cand' = [cand EXCEPT ![w] = {}]
  PROVE  LocksInv'
<1>1. PICK s \in Batches : Lists(s, Won(w)) /\ batch' = [batch EXCEPT ![w] = s]
  BY DEF LockWon
<1>2. /\ batch'[w] = s /\ callAge'[w] = 0 /\ held'[w] = 0 /\ cand'[w] = {}
      /\ \A v \in Workers : v # w =>
           batch'[v] = batch[v] /\ callAge'[v] = callAge[v] /\ held'[v] = held[v] /\ cand'[v] = cand[v]
  BY <1>1 DEF LockWon, QueueInv, TypeOK
<1>3. Won(w) \subseteq Jobs
  BY DEF Won, QueueInv, TypeOK
<1>4. Elements(s) = Won(w)
  BY <1>1 DEF Lists
<1>5. ASSUME NEW v \in Workers, v # w, NEW j \in Elements(batch[v])
      PROVE  j \in Jobs /\ status'[j] = status[j] /\ owner'[j] = owner[j] /\ age'[j] = age[j]
  <2>1. batch[v] \in Seq(Jobs)
    BY DEF QueueInv, TypeOK
  <2>2. j \in Jobs
    BY <2>1, ElementOfSeq DEF Elements
  <2>3. j \notin Won(w)
    BY <1>5, WonIsFree
  <2> QED
    BY <2>2, <2>3 DEF LockWon
<1>6. HoldsLocks'
  <2> SUFFICES ASSUME NEW v \in Workers, NEW j \in Elements(batch'[v])
               PROVE  status'[j] = "processing" /\ owner'[j] = v /\ age'[j] = held'[v]
    BY DEF HoldsLocks
  <2>1. CASE v = w
    BY <2>1, <1>2, <1>3, <1>4 DEF LockWon
  <2>2. CASE v # w
    BY <2>2, <1>2, <1>5 DEF QueueInv, HoldsLocks
  <2> QED
    BY <2>1, <2>2
<1>7. NoDoubleRun'
  <2>1. \A i, k \in 1..Len(s) : i # k => s[i] # s[k]
    <3> SUFFICES ASSUME NEW i \in 1..Len(s), NEW k \in 1..Len(s), i # k PROVE s[i] # s[k]
      OBVIOUS
    <3>1. i < k \/ k < i
      BY BatchIsSeq
    <3> QED
      BY <1>1, <3>1 DEF Lists
  <2>2. ASSUME NEW v \in Workers
        PROVE  \A i, k \in 1..Len(batch'[v]) : i # k => batch'[v][i] # batch'[v][k]
    BY <1>2, <2>1 DEF QueueInv, NoDoubleRun
  <2>3. \A v, u \in Workers : v # u => Elements(batch'[v]) \intersect Elements(batch'[u]) = {}
    BY <1>6 DEF HoldsLocks
  <2> QED
    BY <2>2, <2>3 DEF NoDoubleRun
<1>8. BatchInTime'
  <2>1. 0 + Len(s) * CallTime <= BatchLimit * CallTime + 0 /\ 0 <= CallTime
    <3>1. Len(s) \in Nat /\ BatchLimit - Len(s) \in Nat /\ CallTime \in Nat /\ BatchLimit \in Nat
      BY BatchIsSeq, JobQueueAssumption
    <3>2. (BatchLimit - Len(s)) * CallTime \in Nat
      BY <3>1
    <3>3. (BatchLimit - Len(s)) * CallTime = BatchLimit * CallTime - Len(s) * CallTime
      BY <3>1
    <3>4. Len(s) * CallTime \in Nat /\ BatchLimit * CallTime \in Nat
      BY <3>1
    <3> QED
      BY <3>1, <3>2, <3>3, <3>4
  <2>2. ASSUME NEW v \in Workers, batch'[v] # <<>>
        PROVE  /\ callAge'[v] <= CallTime
               /\ held'[v] + Len(batch'[v]) * CallTime <= BatchLimit * CallTime + callAge'[v]
    <3>1. CASE v = w
      BY <3>1, <1>2, <2>1
    <3>2. CASE v # w
      BY <2>2, <3>2, <1>2 DEF QueueInv, BatchInTime
    <3> QED
      BY <3>1, <3>2
  <2> QED
    BY <2>2 DEF BatchInTime
<1>9. PollsWhenDone'
  BY <1>2 DEF QueueInv, PollsWhenDone
<1> QED
  BY <1>6, <1>7, <1>8, <1>9 DEF LocksInv

\* Time makes a lock and its batch older together, and no running job too old.
LEMMA LocksTick ==
  ASSUME QueueInv, Tick
  PROVE  LocksInv'
<1>1. \A w \in Workers : batch'[w] = batch[w] /\ cand'[w] = cand[w]
  BY DEF Tick
<1>2. \A w \in Workers : Elements(batch[w]) \subseteq Jobs /\ (Elements(batch[w]) # {} => batch[w] # <<>>)
  <2> SUFFICES ASSUME NEW w \in Workers
               PROVE  Elements(batch[w]) \subseteq Jobs /\ (Elements(batch[w]) # {} => batch[w] # <<>>)
    OBVIOUS
  <2>1. batch[w] \in Seq(Jobs)
    BY DEF QueueInv, TypeOK
  <2>2. Elements(batch[w]) \subseteq Jobs
    BY <2>1, ElementOfSeq DEF Elements
  <2>3. batch[w] = <<>> => Elements(batch[w]) = {}
    BY EmptySeq DEF Elements
  <2> QED
    BY <2>2, <2>3
<1>3. HoldsLocks'
  <2> SUFFICES ASSUME NEW w \in Workers, NEW j \in Elements(batch[w])
               PROVE  status'[j] = "processing" /\ owner'[j] = w /\ age'[j] = held'[w]
    BY <1>1 DEF HoldsLocks
  <2>1. j \in Jobs /\ batch[w] # <<>>
    BY <1>2
  <2>2. status[j] = "processing" /\ owner[j] = w /\ age[j] = held[w]
    BY DEF QueueInv, HoldsLocks
  <2> QED
    BY <2>1, <2>2 DEF Tick
<1>4. NoDoubleRun'
  <2>1. batch' = batch
    BY DEF Tick
  <2> QED
    BY <2>1 DEF QueueInv, NoDoubleRun
<1>5. BatchInTime'
  <2> SUFFICES ASSUME NEW w \in Workers, batch[w] # <<>>
               PROVE  /\ callAge'[w] <= CallTime
                      /\ held'[w] + Len(batch[w]) * CallTime <= BatchLimit * CallTime + callAge'[w]
    BY <1>1 DEF BatchInTime
  <2>1. batch[w] \in Seq(Jobs)
    BY DEF QueueInv, TypeOK
  <2>2. Len(batch[w]) \in Nat /\ CallTime \in Nat /\ BatchLimit \in Nat /\ Lease \in Nat
        /\ held[w] \in Nat /\ callAge[w] \in Nat
    BY <2>1, LenProperties, JobQueueAssumption DEF QueueInv, TypeOK
  <2>3. Len(batch[w]) * CallTime \in Nat /\ BatchLimit * CallTime \in Nat
    BY <2>2
  <2>4. callAge'[w] = callAge[w] + 1 /\ callAge[w] < CallTime /\ held'[w] = Later(held[w], Lease)
    BY DEF Tick
  <2>5. Later(held[w], Lease) \in Nat /\ Later(held[w], Lease) <= held[w] + 1
    BY <2>2 DEF Later
  <2>6. held[w] + Len(batch[w]) * CallTime <= BatchLimit * CallTime + callAge[w]
    BY DEF QueueInv, BatchInTime
  <2> QED
    BY <2>2, <2>3, <2>4, <2>5, <2>6
<1>6. PollsWhenDone'
  BY <1>1 DEF QueueInv, PollsWhenDone
<1> QED
  BY <1>3, <1>4, <1>5, <1>6 DEF LocksInv
-----------------------------------------------------------------------------
(* The invariant and its consequences. *)

\* What QueueInv says of attempts and of Retry, which depends on the locks.
RowsInv == AttemptsBounded /\ RetryStillDue /\ AbsentUntried

\* Nothing is locked, tried or checked at first.
LEMMA InitQueueInv == Init => QueueInv
<1> SUFFICES ASSUME Init PROVE QueueInv
  OBVIOUS
<1>1. TypeOK
  BY InitTypeOK
<1>2. \A w \in Workers : batch[w] = <<>> /\ cand[w] = {} /\ Elements(batch[w]) = {} /\ Len(batch[w]) = 0
  BY EmptySeq DEF Init, Elements
<1>3. HoldsLocks /\ PollsWhenDone /\ BatchInTime
  BY <1>2 DEF HoldsLocks, PollsWhenDone, BatchInTime
<1>4. NoDoubleRun
  <2>1. ASSUME NEW w \in Workers, NEW i \in 1..Len(batch[w]) PROVE FALSE
    BY <1>2, <2>1
  <2> QED
    BY <1>2, <2>1 DEF NoDoubleRun
<1>5. AttemptsBounded /\ RetryStillDue /\ AbsentUntried
  BY JobQueueAssumption DEF Init, AttemptsBounded, RetryStillDue, AbsentUntried, Open
<1> QED
  BY <1>1, <1>3, <1>4, <1>5 DEF QueueInv

\* The head of a batch is a job in processing, with an attempt left, that no
\* Retry callback has found failed.
LEMMA HeadIsOpen ==
  ASSUME QueueInv, NEW w \in Workers, batch[w] # <<>>
  PROVE  /\ Head(batch[w]) \in Jobs
         /\ status[Head(batch[w])] = "processing"
         /\ attempts[Head(batch[w])] < MaxAttempts
         /\ \A a \in RetryHandlers : retry[a] # Head(batch[w]) \/ retry[a] = NoJob
<1>1. batch[w] \in Seq(Jobs)
  BY DEF QueueInv, TypeOK
<1>2. Head(batch[w]) \in Jobs /\ Head(batch[w]) \in Elements(batch[w])
  BY <1>1, TailOfBatch
<1>3. status[Head(batch[w])] = "processing"
  BY <1>2 DEF QueueInv, HoldsLocks
<1> QED
  BY <1>2, <1>3 DEF QueueInv, AttemptsBounded, RetryStillDue, Open

\* Under the protections of a job, every step keeps QueueInv.
LEMMA NextQueueInv ==
  ASSUME BatchFitsLease \/ OneWorker, OneRetryAtATime,
         QueueInv, [Next]_vars
  PROVE  QueueInv'
<1> USE JobQueueAssumption
<1>1. TypeOK'
  BY NextTypeOK DEF QueueInv
<1> SUFFICES LocksInv' /\ RowsInv'
  BY <1>1 DEF LocksInv, RowsInv, QueueInv
<1>2. \A w \in Workers : \A j \in Elements(batch[w]) : j \in Jobs /\ status[j] = "processing"
  <2> SUFFICES ASSUME NEW w \in Workers PROVE Elements(batch[w]) \subseteq Jobs
    BY DEF QueueInv, HoldsLocks
  <2>1. batch[w] \in Seq(Jobs)
    BY DEF QueueInv, TypeOK
  <2> QED
    BY <2>1, ElementOfSeq DEF Elements
<1>3. ASSUME NEW j \in Jobs, Enqueue(j) PROVE LocksInv' /\ RowsInv'
  <2>1. LocksInv'
    BY <1>2, <1>3, LocksUntouched DEF Enqueue, workerVars, QueueInv, TypeOK
  <2>2. RowsInv'
    BY <1>3 DEF RowsInv, Enqueue, QueueInv, TypeOK, AttemptsBounded, RetryStillDue, AbsentUntried, Open
  <2> QED
    BY <2>1, <2>2
<1>4. ASSUME NEW w \in Workers, Poll(w) PROVE LocksInv' /\ RowsInv'
  <2>1. \A v \in Workers : cand'[v] # {} => cand[v] # {} \/ batch[v] = <<>>
    BY <1>4 DEF Poll, QueueInv, TypeOK
  <2>2. LocksInv'
    BY <1>4, <2>1, LocksUntouched DEF Poll, rowVars
  <2>3. RowsInv'
    BY <1>4 DEF RowsInv, Poll, rowVars, QueueInv, AttemptsBounded, RetryStillDue, AbsentUntried
  <2> QED
    BY <2>2, <2>3
<1>5. ASSUME NEW w \in Workers, ClaimBatch(w) PROVE LocksInv' /\ RowsInv'
  <2>1. CASE LockWon(w)
    <3>1. LocksInv'
      BY <1>5, <2>1, LocksClaim DEF ClaimBatch
    <3>2. \A j \in Jobs : j \in Won(w) => status[j] \in Open
      BY DEF Won, Claimable, Open
    <3>3. RowsInv'
      BY <1>5, <2>1, <3>2 DEF RowsInv, ClaimBatch, LockWon, QueueInv, TypeOK,
                              AttemptsBounded, RetryStillDue, AbsentUntried, Open
    <3> QED
      BY <3>1, <3>3
  <2>2. CASE UNCHANGED <<status, owner, age, batch, callAge, held>>
    <3>1. \A v \in Workers : cand'[v] # {} => cand[v] # {} \/ batch[v] = <<>>
      BY <1>5 DEF ClaimBatch, QueueInv, TypeOK
    <3>2. LocksInv'
      BY <2>2, <3>1, LocksUntouched
    <3>3. RowsInv'
      BY <1>5, <2>2 DEF RowsInv, ClaimBatch, QueueInv, AttemptsBounded, RetryStillDue, AbsentUntried
    <3> QED
      BY <3>2, <3>3
  <2> QED
    BY <1>5, <2>1, <2>2 DEF ClaimBatch
<1>6. ASSUME NEW w \in Workers, MarkCompleted(w) PROVE LocksInv' /\ RowsInv'
  <2>1. LocksInv'
    BY <1>6, LocksUnlock DEF MarkCompleted, QueueInv, TypeOK
  <2>2. RowsInv'
    BY <1>6, HeadIsOpen DEF RowsInv, MarkCompleted, QueueInv, TypeOK,
                            AttemptsBounded, RetryStillDue, AbsentUntried, Open
  <2> QED
    BY <2>1, <2>2
<1>7. ASSUME NEW w \in Workers, NEW r \in BOOLEAN, MarkFailed(w, r) PROVE LocksInv' /\ RowsInv'
  <2> DEFINE h == Head(batch[w])
  <2>1. /\ h \in Jobs /\ status[h] = "processing" /\ attempts[h] < MaxAttempts
        /\ \A a \in RetryHandlers : retry[a] # h \/ retry[a] = NoJob
    BY <1>7, HeadIsOpen DEF MarkFailed
  <2>2. /\ \A j \in Jobs : j # h => status'[j] = status[j] /\ attempts'[j] = attempts[j]
        /\ attempts'[h] = attempts[h] + 1
        /\ \/ status'[h] = "retryable_failure" /\ attempts[h] + 1 < MaxAttempts
           \/ status'[h] = "permanent_failure"
        /\ retry' = retry
    BY <1>7, <2>1 DEF MarkFailed, QueueInv, TypeOK
  <2>3. LocksInv'
    BY <1>7, <2>2, LocksUnlock DEF MarkFailed
  <2>4. attempts[h] \in Nat
    BY <2>1 DEF QueueInv, TypeOK
  <2>5. AttemptsBounded'
    BY <2>1, <2>2, <2>4 DEF QueueInv, AttemptsBounded, Open
  <2>6. RetryStillDue' /\ AbsentUntried'
    BY <2>1, <2>2 DEF QueueInv, TypeOK, RetryStillDue, AbsentUntried
  <2> QED
    BY <2>3, <2>5, <2>6 DEF RowsInv
<1>8. ASSUME NEW w \in Workers, Abandon(w) PROVE LocksInv' /\ RowsInv'
  <2>1. /\ \A v \in Workers : v # w => batch'[v] = batch[v] /\ callAge'[v] = callAge[v]
        /\ batch'[w] = <<>>
        /\ held' = held /\ cand' = cand /\ status' = status /\ owner' = owner /\ age' = age
        /\ attempts' = attempts /\ retry' = retry
    BY <1>8 DEF Abandon, rowVars, QueueInv, TypeOK
  <2>2. Elements(<<>>) = {} /\ Len(<<>>) = 0
    BY EmptySeq DEF Elements
  <2>3. HoldsLocks'
    BY <2>1, <2>2 DEF QueueInv, HoldsLocks
  <2>4. NoDoubleRun'
    <3>1. \A v, u \in Workers : v # u => Elements(batch'[v]) \intersect Elements(batch'[u]) = {}
      BY <2>3 DEF HoldsLocks
    <3>2. ASSUME NEW v \in Workers
          PROVE  \A i, k \in 1..Len(batch'[v]) : i # k => batch'[v][i] # batch'[v][k]
      <4>1. CASE v = w
        <5>1. 1..Len(batch'[v]) = {}
          BY <4>1, <2>1, <2>2
        <5> QED
          BY <5>1
      <4>2. CASE v # w
        BY <4>2, <2>1 DEF QueueInv, NoDoubleRun
      <4> QED
        BY <4>1, <4>2
    <3> QED
      BY <3>1, <3>2 DEF NoDoubleRun
  <2>5. BatchInTime' /\ PollsWhenDone'
    BY <2>1 DEF QueueInv, BatchInTime, PollsWhenDone
  <2>6. RowsInv'
    BY <2>1 DEF RowsInv, QueueInv, AttemptsBounded, RetryStillDue, AbsentUntried
  <2> QED
    BY <2>3, <2>4, <2>5, <2>6 DEF LocksInv
<1>9. ASSUME NEW a \in RetryHandlers, NEW j \in Jobs, RetryCheck(a, j) PROVE LocksInv' /\ RowsInv'
  <2>1. LocksInv'
    BY <1>9, LocksUntouched DEF RetryCheck, rowVars, workerVars
  <2>2. RowsInv'
    BY <1>9 DEF RowsInv, RetryCheck, rowVars, QueueInv, TypeOK, AttemptsBounded, RetryStillDue, AbsentUntried
  <2> QED
    BY <2>1, <2>2
<1>10. ASSUME NEW a \in RetryHandlers, Requeue(a) PROVE LocksInv' /\ RowsInv'
  <2> DEFINE j == retry[a]
  <2>1. j \in Jobs /\ status[j] = "permanent_failure"
    BY <1>10 DEF Requeue, QueueInv, TypeOK, RetryStillDue
  <2>2. \A k \in Jobs : k # j => status'[k] = status[k] /\ owner'[k] = owner[k] /\ age'[k] = age[k]
                              /\ attempts'[k] = attempts[k]
    BY <1>10, <2>1 DEF Requeue, QueueInv, TypeOK
  <2>3. LocksInv'
    BY <1>2, <1>10, <2>1, <2>2, LocksUntouched DEF Requeue, workerVars
  <2>4. \A b \in RetryHandlers : retry'[b] = NoJob
    BY <1>10 DEF Requeue, OneRetryAtATime, QueueInv, TypeOK
  <2>5. status'[j] = "pending" /\ attempts'[j] = 0
    BY <1>10, <2>1 DEF Requeue, QueueInv, TypeOK
  <2>6. RowsInv'
    BY <2>1, <2>2, <2>4, <2>5 DEF RowsInv, QueueInv, AttemptsBounded, RetryStillDue, AbsentUntried, Open
  <2> QED
    BY <2>3, <2>6
<1>11. ASSUME Tick PROVE LocksInv' /\ RowsInv'
  <2>1. LocksInv'
    BY <1>11, LocksTick
  <2>2. RowsInv'
    BY <1>11 DEF RowsInv, Tick, QueueInv, AttemptsBounded, RetryStillDue, AbsentUntried
  <2> QED
    BY <2>1, <2>2
<1>12. CASE UNCHANGED vars
  <2>1. LocksInv'
    BY <1>12, LocksUntouched DEF vars, rowVars, workerVars
  <2>2. RowsInv'
    BY <1>12 DEF RowsInv, vars, rowVars, QueueInv, AttemptsBounded, RetryStillDue, AbsentUntried
  <2> QED
    BY <2>1, <2>2
<1> QED
  BY <1>3, <1>4, <1>5, <1>6, <1>7, <1>8, <1>9, <1>10, <1>11, <1>12 DEF Next, Finish
\* QueueInv is an invariant of every instance in which a batch fits into the
\* lease or one worker runs, and Retry callbacks do not overlap.
THEOREM QueueCorrect ==
  ASSUME BatchFitsLease \/ OneWorker, OneRetryAtATime
  PROVE  Spec => []QueueInv
<1>1. Init => QueueInv
  BY InitQueueInv
<1>2. QueueInv /\ [Next]_vars => QueueInv'
  BY NextQueueInv
<1> QED
  BY <1>1, <1>2, PTL DEF Spec

\* Only one worker runs a job at a time, whatever crashes and retries happen.
THEOREM JobsRunOnce ==
  ASSUME BatchFitsLease \/ OneWorker, OneRetryAtATime
  PROVE  Spec => []NoDoubleRun
<1>1. QueueInv => NoDoubleRun
  BY DEF QueueInv
<1> QED
  BY <1>1, QueueCorrect, PTL

\* A worker's mark_completed or mark_failed clears no lock but its own.
THEOREM WorkersHoldTheirLocks ==
  ASSUME BatchFitsLease \/ OneWorker, OneRetryAtATime
  PROVE  Spec => []HoldsLocks
<1>1. QueueInv => HoldsLocks
  BY DEF QueueInv
<1> QED
  BY <1>1, QueueCorrect, PTL

\* No job is tried more than MaxAttempts times between two Retries.
THEOREM AttemptsAreBounded ==
  ASSUME BatchFitsLease \/ OneWorker, OneRetryAtATime
  PROVE  Spec => []AttemptsBounded
<1>1. QueueInv => AttemptsBounded
  BY DEF QueueInv
<1> QED
  BY <1>1, QueueCorrect, PTL

\* What SettledStays asks of a step.
SettledStep ==
  \A j \in Jobs :
    /\ status[j] = "succeeded" => status'[j] = "succeeded"
    /\ status[j] = "permanent_failure" /\ status'[j] # status[j] =>
         /\ status'[j] = "pending"
         /\ \E a \in RetryHandlers : retry[a] = j /\ retry'[a] = NoJob

\* The worker's steps touch no settled job, and Requeue a failed one only.
LEMMA NextSettledStep ==
  ASSUME QueueInv, [Next]_vars
  PROVE  [SettledStep]_vars
<1> SUFFICES ASSUME Next PROVE SettledStep
  BY DEF SettledStep
<1>1. ASSUME NEW w \in Workers, Poll(w) \/ ClaimBatch(w) \/ Abandon(w) PROVE SettledStep
  <2>1. \A j \in Jobs : j \in Won(w) => status[j] \in Open
    BY DEF Won, Claimable, Open
  <2>2. \A j \in Jobs : status[j] \in Settled => status'[j] = status[j]
    BY <1>1, <2>1 DEF Poll, ClaimBatch, LockWon, Abandon, rowVars, Open, Settled
  <2> QED
    BY <2>2 DEF SettledStep, Settled
<1>2. ASSUME NEW w \in Workers, Finish(w) PROVE SettledStep
  <2>1. batch[w] # <<>>
    BY <1>2 DEF Finish, MarkCompleted, MarkFailed
  <2>2. \A j \in Jobs : j # Head(batch[w]) => status'[j] = status[j]
    BY <1>2, HeadIsOpen, <2>1 DEF Finish, MarkCompleted, MarkFailed, QueueInv, TypeOK
  <2>3. status[Head(batch[w])] = "processing"
    BY <2>1, HeadIsOpen
  <2> QED
    BY <2>2, <2>3 DEF SettledStep
<1>3. ASSUME NEW a \in RetryHandlers, Requeue(a) PROVE SettledStep
  <2>1. /\ retry[a] \in Jobs /\ status[retry[a]] = "permanent_failure"
        /\ status' = [status EXCEPT ![retry[a]] = "pending"]
        /\ retry'[a] = NoJob
    BY <1>3 DEF Requeue, QueueInv, TypeOK, RetryStillDue
  <2> QED
    BY <2>1 DEF SettledStep, QueueInv, TypeOK
<1>4. CASE \/ \E j \in Jobs : Enqueue(j)
           \/ \E a \in RetryHandlers, j \in Jobs : RetryCheck(a, j)
           \/ Tick
  BY <1>4 DEF SettledStep, Enqueue, RetryCheck, Tick, rowVars, QueueInv, TypeOK
<1> QED
  BY <1>1, <1>2, <1>3, <1>4 DEF Next

\* A settled job is final, but for an admin's Retry of a failed one.
THEOREM SettledJobsStay ==
  ASSUME BatchFitsLease \/ OneWorker, OneRetryAtATime
  PROVE  Spec => SettledStays
<1>1. QueueInv /\ [Next]_vars => [SettledStep]_vars
  BY NextSettledStep
<1>2. Spec => [][SettledStep]_vars
  BY <1>1, QueueCorrect, PTL DEF Spec
<1> QED
  BY <1>2 DEF SettledStays, SettledStep

-----------------------------------------------------------------------------
(* The queue implements JobContract. *)

\* Runner, of any batches.
RunnerIn(b) == [j \in Jobs |-> IF \E w \in Workers : j \in Elements(b[w])
                                 THEN CHOOSE w \in Workers : j \in Elements(b[w])
                                 ELSE NoWorker]

\* When no job is in two batches, a job's runner is the worker that has it.
LEMMA RunnerHasIt ==
  ASSUME NEW b,
         \A w, v \in Workers : w # v => Elements(b[w]) \intersect Elements(b[v]) = {}
  PROVE  /\ RunnerIn(b) \in [Jobs -> Workers \union {NoWorker}]
         /\ \A j \in Jobs, w \in Workers : RunnerIn(b)[j] = w <=> j \in Elements(b[w])
<1>1. ASSUME NEW j \in Jobs
      PROVE  /\ RunnerIn(b)[j] \in Workers \union {NoWorker}
             /\ \A w \in Workers : RunnerIn(b)[j] = w <=> j \in Elements(b[w])
  <2>1. CASE \E w \in Workers : j \in Elements(b[w])
    <3>1. RunnerIn(b)[j] = CHOOSE w \in Workers : j \in Elements(b[w])
      BY <2>1 DEF RunnerIn
    <3>2. RunnerIn(b)[j] \in Workers /\ j \in Elements(b[RunnerIn(b)[j]])
      BY <2>1, <3>1
    <3> QED
      BY <3>2
  <2>2. CASE ~ \E w \in Workers : j \in Elements(b[w])
    <3>1. RunnerIn(b)[j] = NoWorker
      BY <2>2 DEF RunnerIn
    <3> QED
      BY <2>2, <3>1, JobQueueAssumption
  <2> QED
    BY <2>1, <2>2
<1>2. RunnerIn(b) \in [Jobs -> Workers \union {NoWorker}]
  BY <1>1 DEF RunnerIn
<1> QED
  BY <1>1, <1>2

\* Runner is as it should be before a step of the queue ...
LEMMA RunnersBefore ==
  ASSUME QueueInv
  PROVE  /\ Runner \in [Jobs -> Workers \union {NoWorker}]
         /\ \A j \in Jobs, w \in Workers : Runner[j] = w <=> j \in Elements(batch[w])
         /\ JobState \in [Jobs -> {"absent", "open"} \union Settled]
<1>1. Runner = RunnerIn(batch)
  BY DEF Runner, RunnerIn
<1>2. \A w, v \in Workers : w # v => Elements(batch[w]) \intersect Elements(batch[v]) = {}
  BY DEF QueueInv, NoDoubleRun
<1>3. JobState \in [Jobs -> {"absent", "open"} \union Settled]
  BY DEF QueueInv, TypeOK, JobState, Shown, Status, Open, Settled
<1> QED
  BY <1>1, <1>2, <1>3, RunnerHasIt

\* ... and after it.
LEMMA RunnersAfter ==
  ASSUME QueueInv'
  PROVE  /\ Runner' \in [Jobs -> Workers \union {NoWorker}]
         /\ \A j \in Jobs, w \in Workers : Runner'[j] = w <=> j \in Elements(batch'[w])
<1>1. Runner' = RunnerIn(batch')
  BY DEF Runner, RunnerIn
<1>2. \A w, v \in Workers : w # v => Elements(batch'[w]) \intersect Elements(batch'[v]) = {}
  BY DEF QueueInv, NoDoubleRun
<1> QED
  BY <1>1, <1>2, RunnerHasIt
\* An open row shows an open job.
LEMMA OpenShows == \A st \in Open : Shown(st) = "open"
BY DEF Shown, Open, Settled

\* Rows and batches that stay as they are show nothing to the outside.
LEMMA ShowsNothing ==
  ASSUME batch' = batch, status' = status
  PROVE  JobState' = JobState /\ Runner' = Runner
BY DEF JobState, Runner

\* One row changes what it shows.
LEMMA ShowsOne ==
  ASSUME QueueInv, NEW j \in Jobs, NEW st \in Status, status' = [status EXCEPT ![j] = st]
  PROVE  JobState' = [JobState EXCEPT ![j] = Shown(st)]
BY DEF JobState, QueueInv, TypeOK

\* Ending a job takes it, and no other, from its worker.
LEMMA RunnerLetsGo ==
  ASSUME QueueInv, QueueInv', NEW w \in Workers, batch[w] # <<>>, Unlock(w),
         status'[Head(batch[w])] # "processing"
  PROVE  /\ Head(batch[w]) \in Jobs
         /\ Runner[Head(batch[w])] = w
         /\ Runner' = [Runner EXCEPT ![Head(batch[w])] = NoWorker]
<1> DEFINE h == Head(batch[w])
<1>1. batch \in [Workers -> Seq(Jobs)] /\ batch' = [batch EXCEPT ![w] = Tail(batch[w])]
  BY DEF QueueInv, TypeOK, Unlock
<1>2. h \in Jobs /\ h \in Elements(batch[w])
  BY <1>1, TailOfBatch
<1>3. \A v \in Workers : h \notin Elements(batch'[v])
  BY DEF QueueInv, HoldsLocks
<1>4. \A v \in Workers, j \in Jobs : j # h => (j \in Elements(batch'[v]) <=> j \in Elements(batch[v]))
  <2> SUFFICES ASSUME NEW v \in Workers, NEW j \in Jobs, j # h
               PROVE  j \in Elements(batch'[v]) <=> j \in Elements(batch[v])
    OBVIOUS
  <2>1. CASE v # w
    BY <1>1, <2>1
  <2>2. CASE v = w
    <3>1. /\ Elements(Tail(batch[w])) \subseteq Elements(batch[w])
          /\ Len(Tail(batch[w])) = Len(batch[w]) - 1 /\ Len(batch[w]) \in Nat
          /\ \A i \in 1..Len(Tail(batch[w])) : Tail(batch[w])[i] = batch[w][i + 1]
          /\ h = batch[w][1]
      BY <1>1, TailOfBatch
    <3>2. ASSUME j \in Elements(batch[w]) PROVE j \in Elements(Tail(batch[w]))
      <4>1. PICK i \in 1..Len(batch[w]) : j = batch[w][i]
        BY <3>2 DEF Elements
      <4>2. i # 1
        BY <3>1, <4>1
      <4>3. i - 1 \in 1..Len(Tail(batch[w])) /\ (i - 1) + 1 = i
        BY <3>1, <4>1, <4>2
      <4>4. Tail(batch[w])[i - 1] = batch[w][i]
        BY <3>1, <4>3
      <4> QED
        BY <4>1, <4>3, <4>4 DEF Elements
    <3>3. batch'[v] = Tail(batch[w])
      BY <1>1, <2>2
    <3> QED
      BY <2>2, <3>1, <3>2, <3>3
  <2> QED
    BY <2>1, <2>2
<1>5. /\ Runner \in [Jobs -> Workers \union {NoWorker}]
      /\ \A j \in Jobs, v \in Workers : Runner[j] = v <=> j \in Elements(batch[v])
  BY RunnersBefore
<1>6. /\ Runner' \in [Jobs -> Workers \union {NoWorker}]
      /\ \A j \in Jobs, v \in Workers : Runner'[j] = v <=> j \in Elements(batch'[v])
  BY RunnersAfter
<1>7. Runner'[h] = NoWorker
  BY <1>2, <1>3, <1>6
<1>8. \A j \in Jobs : j # h => Runner'[j] = Runner[j]
  BY <1>4, <1>5, <1>6, JobQueueAssumption
<1> QED
  BY <1>2, <1>5, <1>6, <1>7, <1>8

\* A claim that wins something is a taking of free, open jobs by a free worker.
LEMMA ClaimTakes ==
  ASSUME BatchFitsLease \/ OneWorker, QueueInv, QueueInv',
         NEW w \in Workers, ClaimBatch(w), LockWon(w)
  PROVE  Contract!Take(w, Won(w))
<1>1. PICK s \in Batches : Lists(s, Won(w)) /\ batch' = [batch EXCEPT ![w] = s]
  BY DEF LockWon
<1>2. s \in Seq(Jobs) /\ s # <<>> /\ Len(s) \in 1..BatchLimit /\ Elements(s) = Won(w)
  BY <1>1, BatchIsSeq DEF Lists
<1>3. BatchLimit \in Nat
  BY JobQueueAssumption
<1>4. Won(w) # {} /\ Won(w) \subseteq Jobs
  <2>1. Won(w) \subseteq Jobs
    BY DEF Won, QueueInv, TypeOK
  <2>2. 1 \in 1..Len(s)
    BY <1>2, <1>3
  <2>3. s[1] \in Elements(s)
    BY <2>2 DEF Elements
  <2> QED
    BY <1>2, <2>1, <2>3
<1>5. batch[w] = <<>> /\ Elements(batch[w]) = {}
  BY EmptySeq DEF ClaimBatch, QueueInv, PollsWhenDone, Elements
<1>6. \A v \in Workers : v # w => batch'[v] = batch[v]
  BY <1>1 DEF QueueInv, TypeOK
<1>7. batch'[w] = s
  BY <1>1 DEF QueueInv, TypeOK
<1>8. /\ Runner \in [Jobs -> Workers \union {NoWorker}]
      /\ \A j \in Jobs, v \in Workers : Runner[j] = v <=> j \in Elements(batch[v])
  BY RunnersBefore
<1>9. /\ Runner' \in [Jobs -> Workers \union {NoWorker}]
      /\ \A j \in Jobs, v \in Workers : Runner'[j] = v <=> j \in Elements(batch'[v])
  BY RunnersAfter
<1>10. \A v \in Workers : v # w => Elements(batch[v]) \intersect Won(w) = {}
  <2> SUFFICES ASSUME NEW v \in Workers, NEW j \in Elements(batch[v]) PROVE j \notin Won(w)
    OBVIOUS
  <2> QED
    BY WonIsFree DEF ClaimBatch
<1>11. \A j \in Won(w) : JobState[j] = "open" /\ Runner[j] = NoWorker
  <2> SUFFICES ASSUME NEW j \in Won(w) PROVE JobState[j] = "open" /\ Runner[j] = NoWorker
    OBVIOUS
  <2>1. status[j] \in Open /\ j \in Jobs
    BY <1>4 DEF Won, Claimable, Open
  <2>2. JobState[j] = "open"
    BY <2>1, OpenShows DEF JobState
  <2>3. \A v \in Workers : j \notin Elements(batch[v])
    BY <1>5, <1>10
  <2> QED
    BY <1>8, <2>1, <2>2, <2>3
<1>12. \A j \in Jobs : Runner[j] # w
  BY <1>5, <1>8
<1>13. \A j \in Jobs : Runner'[j] = IF j \in Won(w) THEN w ELSE Runner[j]
  <2> SUFFICES ASSUME NEW j \in Jobs PROVE Runner'[j] = IF j \in Won(w) THEN w ELSE Runner[j]
    OBVIOUS
  <2>1. CASE j \in Won(w)
    BY <1>2, <1>7, <1>9, <2>1
  <2>2. CASE j \notin Won(w)
    <3>1. \A v \in Workers : j \in Elements(batch'[v]) <=> j \in Elements(batch[v])
      BY <1>2, <1>5, <1>6, <1>7, <2>2
    <3> QED
      BY <1>8, <1>9, <2>2, <3>1, JobQueueAssumption
  <2> QED
    BY <2>1, <2>2
<1>14. Runner' = [j \in Jobs |-> IF j \in Won(w) THEN w ELSE Runner[j]]
  BY <1>9, <1>13
<1>15. JobState' = JobState
  <2>1. \A j \in Jobs : Shown(status'[j]) = Shown(status[j])
    <3> SUFFICES ASSUME NEW j \in Jobs PROVE Shown(status'[j]) = Shown(status[j])
      OBVIOUS
    <3>1. status'[j] = IF j \in Won(w) THEN "processing" ELSE status[j]
      BY DEF LockWon
    <3>2. j \in Won(w) => status[j] \in Open
      BY DEF Won, Claimable, Open
    <3>3. "processing" \in Open
      BY DEF Open
    <3> QED
      BY <3>1, <3>2, <3>3, OpenShows
  <2> QED
    BY <2>1 DEF JobState
<1>16. attempts' = attempts
  BY DEF ClaimBatch
<1> QED
  BY <1>4, <1>11, <1>12, <1>14, <1>15, <1>16 DEF Contract!Take
\* Every step of the queue is a step of the contract, or shows nothing.
LEMMA StepRefines ==
  ASSUME BatchFitsLease \/ OneWorker, OneRetryAtATime,
         QueueInv, [Next]_vars
  PROVE  [Contract!Next]_(Contract!vars)
<1> SUFFICES ASSUME Next
             PROVE  Contract!Next \/ (JobState' = JobState /\ Runner' = Runner /\ attempts' = attempts)
  BY ShowsNothing DEF Contract!vars, vars, rowVars, workerVars
<1>1. QueueInv'
  BY NextQueueInv
<1>2. ASSUME NEW j \in Jobs, Enqueue(j) PROVE Contract!Submit(j)
  <2>1. JobState' = [JobState EXCEPT ![j] = "open"]
    BY <1>2, ShowsOne, OpenShows DEF Enqueue, Status, Open
  <2>2. JobState[j] = "absent"
    BY <1>2 DEF Enqueue, JobState, Shown, Open, Settled
  <2>3. Runner' = Runner /\ attempts' = attempts
    BY <1>2 DEF Enqueue, workerVars, Runner
  <2> QED
    BY <2>1, <2>2, <2>3 DEF Contract!Submit
<1>3. ASSUME NEW w \in Workers, ClaimBatch(w)
      PROVE  Contract!Take(w, Won(w)) \/ (JobState' = JobState /\ Runner' = Runner /\ attempts' = attempts)
  <2>1. CASE LockWon(w)
    BY <1>1, <1>3, <2>1, ClaimTakes
  <2>2. CASE UNCHANGED <<status, owner, age, batch, callAge, held>>
    BY <1>3, <2>2, ShowsNothing DEF ClaimBatch
  <2> QED
    BY <1>3, <2>1, <2>2 DEF ClaimBatch
<1>4. ASSUME NEW w \in Workers, MarkCompleted(w) PROVE Contract!Succeed(Head(batch[w]))
  <2> DEFINE h == Head(batch[w])
  <2>1. h \in Jobs /\ status' = [status EXCEPT ![h] = "succeeded"]
    BY <1>4, HeadIsOpen DEF MarkCompleted
  <2>2. status'[h] # "processing"
    BY <2>1 DEF QueueInv, TypeOK
  <2>3. Runner[h] = w /\ Runner' = [Runner EXCEPT ![h] = NoWorker]
    BY <1>1, <1>4, <2>2, RunnerLetsGo DEF MarkCompleted
  <2>4. JobState' = [JobState EXCEPT ![h] = "succeeded"]
    <3>1. Shown("succeeded") = "succeeded" /\ "succeeded" \in Status
      BY DEF Shown, Open, Settled, Status
    <3> QED
      BY <2>1, <3>1, ShowsOne
  <2> QED
    BY <1>4, <2>3, <2>4, JobQueueAssumption DEF MarkCompleted, Contract!Succeed
<1>5. ASSUME NEW w \in Workers, NEW r \in BOOLEAN, MarkFailed(w, r) PROVE Contract!Fail(Head(batch[w]))
  <2> DEFINE h == Head(batch[w])
  <2>1. h \in Jobs /\ status[h] = "processing"
    BY <1>5, HeadIsOpen DEF MarkFailed
  <2>2. \/ status' = [status EXCEPT ![h] = "retryable_failure"] /\ attempts[h] + 1 < MaxAttempts
        \/ status' = [status EXCEPT ![h] = "permanent_failure"]
    BY <1>5 DEF MarkFailed
  <2>3. status'[h] # "processing"
    BY <2>1, <2>2 DEF QueueInv, TypeOK
  <2>4. Runner[h] = w /\ Runner' = [Runner EXCEPT ![h] = NoWorker]
    BY <1>1, <1>5, <2>3, RunnerLetsGo DEF MarkFailed
  <2>5. \/ JobState' = [JobState EXCEPT ![h] = "permanent_failure"]
        \/ attempts[h] + 1 < MaxAttempts /\ JobState' = JobState
    <3>1. Shown("permanent_failure") = "permanent_failure" /\ "permanent_failure" \in Status
      BY DEF Shown, Open, Settled, Status
    <3>2. JobState[h] = "open" /\ JobState \in [Jobs -> {"absent", "open"} \union Settled]
      BY <2>1, OpenShows, RunnersBefore DEF JobState, Open
    <3>3. CASE status' = [status EXCEPT ![h] = "retryable_failure"] /\ attempts[h] + 1 < MaxAttempts
      <4>1. "retryable_failure" \in Status /\ Shown("retryable_failure") = "open"
        BY OpenShows DEF Status, Open
      <4>2. JobState' = [JobState EXCEPT ![h] = "open"]
        BY <2>1, <3>3, <4>1, ShowsOne
      <4> QED
        BY <3>2, <3>3, <4>2
    <3>4. CASE status' = [status EXCEPT ![h] = "permanent_failure"]
      BY <2>1, <3>1, <3>4, ShowsOne
    <3> QED
      BY <2>2, <3>3, <3>4
  <2>6. attempts' = [attempts EXCEPT ![h] = attempts[h] + 1]
    BY <1>5 DEF MarkFailed
  <2> QED
    BY <2>4, <2>5, <2>6, JobQueueAssumption DEF Contract!Fail
<1>6. ASSUME NEW w \in Workers, Abandon(w) PROVE Contract!GiveUp(w)
  <2>1. batch' = [batch EXCEPT ![w] = <<>>] /\ status' = status /\ attempts' = attempts
    BY <1>6 DEF Abandon, rowVars
  <2>2. batch'[w] = <<>> /\ \A v \in Workers : v # w => batch'[v] = batch[v]
    BY <2>1 DEF QueueInv, TypeOK
  <2>3. Elements(batch'[w]) = {}
    BY <2>2, EmptySeq DEF Elements
  <2>4. /\ Runner \in [Jobs -> Workers \union {NoWorker}]
        /\ \A j \in Jobs, v \in Workers : Runner[j] = v <=> j \in Elements(batch[v])
    BY RunnersBefore
  <2>5. /\ Runner' \in [Jobs -> Workers \union {NoWorker}]
        /\ \A j \in Jobs, v \in Workers : Runner'[j] = v <=> j \in Elements(batch'[v])
    BY <1>1, RunnersAfter
  <2>6. \A j \in Jobs : Runner'[j] = IF Runner[j] = w THEN NoWorker ELSE Runner[j]
    <3> SUFFICES ASSUME NEW j \in Jobs
                 PROVE  Runner'[j] = IF Runner[j] = w THEN NoWorker ELSE Runner[j]
      OBVIOUS
    <3>1. Runner'[j] # w
      BY <2>3, <2>5
    <3>2. \A v \in Workers : v # w => (Runner'[j] = v <=> Runner[j] = v)
      BY <2>2, <2>4, <2>5
    <3> QED
      BY <2>4, <2>5, <3>1, <3>2, JobQueueAssumption
  <2>7. Runner' = [j \in Jobs |-> IF Runner[j] = w THEN NoWorker ELSE Runner[j]]
    BY <2>5, <2>6
  <2>8. JobState' = JobState
    BY <2>1 DEF JobState
  <2> QED
    BY <2>1, <2>7, <2>8 DEF Contract!GiveUp
<1>7. ASSUME NEW a \in RetryHandlers, Requeue(a) PROVE retry[a] \in Jobs /\ Contract!Reopen(retry[a])
  <2>1. /\ retry[a] \in Jobs /\ status[retry[a]] = "permanent_failure"
        /\ status' = [status EXCEPT ![retry[a]] = "pending"]
        /\ attempts' = [attempts EXCEPT ![retry[a]] = 0]
        /\ batch' = batch
    BY <1>7 DEF Requeue, QueueInv, TypeOK, RetryStillDue, workerVars
  <2>2. JobState[retry[a]] = "permanent_failure"
    BY <2>1 DEF JobState, Shown, Open, Settled
  <2>3. JobState' = [JobState EXCEPT ![retry[a]] = "open"]
    <3>1. "pending" \in Status /\ Shown("pending") = "open"
      BY OpenShows DEF Status, Open
    <3> QED
      BY <2>1, <3>1, ShowsOne
  <2>4. Runner' = Runner
    BY <2>1 DEF Runner
  <2> QED
    BY <2>1, <2>2, <2>3, <2>4 DEF Contract!Reopen
<1>8. CASE \/ \E w \in Workers : Poll(w)
           \/ \E a \in RetryHandlers, j \in Jobs : RetryCheck(a, j)
           \/ Tick
  BY <1>8, ShowsNothing DEF Poll, RetryCheck, Tick, rowVars, workerVars
<1>9. \A w \in Workers : batch[w] # <<>> => Head(batch[w]) \in Jobs
  BY HeadIsOpen
<1>10. \A w \in Workers : Won(w) \in SUBSET Jobs
  BY DEF Won, QueueInv, TypeOK
<1>11. CASE \E j \in Jobs : Enqueue(j)
  BY <1>2, <1>11 DEF Contract!Next
<1>12. CASE \E w \in Workers : ClaimBatch(w) \/ Abandon(w)
  BY <1>3, <1>6, <1>10, <1>12 DEF Contract!Next
<1>13. CASE \E w \in Workers : Finish(w)
  <2>1. PICK w \in Workers : Finish(w)
    BY <1>13
  <2>2. batch[w] # <<>>
    BY <2>1 DEF Finish, MarkCompleted, MarkFailed
  <2>3. Contract!Succeed(Head(batch[w])) \/ Contract!Fail(Head(batch[w]))
    BY <1>4, <1>5, <2>1 DEF Finish
  <2> QED
    BY <1>9, <2>2, <2>3 DEF Contract!Next
<1>14. CASE \E a \in RetryHandlers : Requeue(a)
  BY <1>7, <1>14 DEF Contract!Next
<1> QED
  BY <1>8, <1>11, <1>12, <1>13, <1>14 DEF Next

\* Whoever queues a job may count on JobContract: one worker at a time tries
\* it, a bounded number of times, and only Retry reopens it.
THEOREM QueueImplementsContract ==
  ASSUME BatchFitsLease \/ OneWorker, OneRetryAtATime
  PROVE  Spec => RefinesContract
<1>1. Init => Contract!Init
  <2> SUFFICES ASSUME Init PROVE Contract!Init
    OBVIOUS
  <2>1. \A w \in Workers : Elements(batch[w]) = {}
    BY EmptySeq DEF Init, Elements
  <2>2. Runner = [j \in Jobs |-> NoWorker]
    BY <2>1 DEF Runner
  <2>3. JobState = [j \in Jobs |-> "absent"]
    BY DEF Init, JobState, Shown, Open, Settled
  <2> QED
    BY <2>2, <2>3 DEF Init, Contract!Init
<1>2. QueueInv /\ [Next]_vars => [Contract!Next]_(Contract!vars)
  BY StepRefines
<1> QED
  BY <1>1, <1>2, QueueCorrect, PTL DEF Spec, RefinesContract, Contract!Spec
=============================================================================
