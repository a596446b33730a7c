---------------------------- MODULE RequestsProofs ----------------------------
(***************************************************************************)
(* Proofs about what a customer asks of the bot besides an order: the      *)
(* config once more (Delivery) and help (Tickets).                         *)
(*                                                                         *)
(* Delivery, for any jobs, workers, limit and faults: a customer's count   *)
(* of redeliveries never passes what was sent. A worker counts from its    *)
(* copy of the row, and no copy is ahead of what was sent. With one worker *)
(* the copy is up to date as well, so nothing that is sent goes uncounted  *)
(* but by a fault: a crash, or a failure that is reported once the config  *)
(* is with the customer. And if the customer waits for each config, what   *)
(* is counted and what is still owed is within the limit.                  *)
(*                                                                         *)
(* Tickets, for any tickets, messages and admins: a customer whose         *)
(* messages do not overlap, and whose admins are one who answers open      *)
(* tickets, has one active ticket at most, through restarts at any point.  *)
(***************************************************************************)
EXTENDS Delivery, Tickets, FiniteSetTheorems, TLAPS

Step == {"idle", "send", "count"}

CopiesBehind ==
  /\ run \in [Workers -> [step : Step, job : Jobs \union {NoJob}, seen : Nat]]
  /\ \A w \in Workers : /\ run[w].step = "send" => run[w].seen <= sent
                        /\ run[w].step = "count" => run[w].seen < sent

CountInv == count \in Nat /\ sent \in Nat /\ CopiesBehind /\ CountedWereSent

-----------------------------------------------------------------------------
\* Nothing is counted or sent at first.
LEMMA CountInit == Init => CountInv
BY DEF Init, Idle, Step, CountInv, CopiesBehind, CountedWereSent

\* The count follows what was sent, whatever workers overlap.
LEMMA CountNext == CountInv /\ [Next]_vars => CountInv'
<1> SUFFICES ASSUME CountInv, [Next]_vars PROVE CountInv'
  OBVIOUS
<1> USE DEF CountInv, CopiesBehind, CountedWereSent, Step, Idle
<1>1. ASSUME UNCHANGED <<count, sent, run>> PROVE CountInv'
  BY <1>1
<1>2. ASSUME NEW p \in Presses, Press(p) \/ QueueRedelivery(p) PROVE CountInv'
  BY <1>1, <1>2 DEF Press, QueueRedelivery
<1>3. ASSUME NEW w \in Workers, NEW j \in Jobs, Begin(w, j) PROVE CountInv'
  BY <1>3 DEF Begin
<1>4. ASSUME NEW w \in Workers, SendDocument(w) PROVE CountInv'
  BY <1>4 DEF SendDocument
<1>5. ASSUME NEW w \in Workers, CommitCount(w) PROVE CountInv'
  BY <1>5 DEF CommitCount
<1>6. ASSUME NEW w \in Workers, FailSend(w) \/ FailCount(w) \/ Crash(w) PROVE CountInv'
  BY <1>6 DEF FailSend, FailCount, Crash
<1>7. ASSUME NEW j \in Jobs, Retry(j) PROVE CountInv'
  BY <1>1, <1>7 DEF Retry
<1>8. CASE UNCHANGED vars
  BY <1>1, <1>8 DEF vars
<1> QED
  BY <1>2, <1>3, <1>4, <1>5, <1>6, <1>7, <1>8 DEF Next

\* A customer's count never goes up for a config that was not sent, whatever workers
\* overlap, fail, die or run a job again.
THEOREM CountsAreSent == Spec => []CountedWereSent
<1>1. CountInv => CountedWereSent
  BY DEF CountInv
<1> QED
  BY <1>1, CountInit, CountNext, PTL DEF Spec
-----------------------------------------------------------------------------
(* The types. *)

Known == {j \in Jobs : job[j] # "none"}

JobTypes ==
  /\ job \in [Jobs -> {"none", "open", "done", "failed"}]
  /\ \A w \in Workers : run[w] = Idle \/ (run[w].job \in Jobs /\ job[run[w].job] = "open"
                                          /\ run[w].step \in {"send", "count"})
  /\ \A v, w \in Workers : v # w /\ run[v] # Idle => run[v].job # run[w].job
  /\ asked = Cardinality(Known)
  /\ press \in [Presses -> {"idle", "queue"}]
  /\ sent \in 0 .. MaxSends
  /\ crashes \in 0 .. CrashBudget
  /\ misses \in 0 .. MissBudget
  /\ retries \in 0 .. RetryBudget

\* A step that leaves the jobs that there are.
LEMMA SameJobs ==
  ASSUME JobTypes, CountInv, UNCHANGED <<asked, press, sent>>,
         crashes' \in 0 .. CrashBudget, misses' \in 0 .. MissBudget, retries' \in 0 .. RetryBudget,
         job' \in [Jobs -> {"none", "open", "done", "failed"}],
         \A j \in Jobs : job'[j] = "none" <=> job[j] = "none",
         \A w \in Workers : run'[w] = Idle \/ (run'[w] = run[w] /\ (run[w] # Idle => job'[run[w].job] = "open"))
  PROVE  JobTypes'
<1>1. Known' = Known
  BY DEF Known
<1>2. \A v \in Workers : run[v] # Idle => run[v].job # NoJob
  BY DeliveryAssumption DEF JobTypes
<1>3. \A v, w \in Workers : v # w /\ run'[v] # Idle => run'[v].job # run'[w].job
  BY <1>2 DEF JobTypes, Idle
<1> QED
  BY <1>1, <1>3 DEF JobTypes

\* Every step keeps the types.
LEMMA JobTypesNext == JobTypes /\ CountInv /\ [Next]_vars => JobTypes'
<1> SUFFICES ASSUME JobTypes, CountInv, [Next]_vars PROVE JobTypes'
  OBVIOUS
<1>0. /\ MaxSends \in Nat /\ CrashBudget \in Nat /\ MissBudget \in Nat /\ RetryBudget \in Nat
      /\ NoJob \notin Jobs /\ IsFiniteSet(Jobs)
  BY DeliveryAssumption
<1>1. ASSUME NEW p \in Presses, Press(p) PROVE JobTypes'
  BY <1>1 DEF Press, JobTypes, Known
<1>2. ASSUME NEW p \in Presses, QueueRedelivery(p) PROVE JobTypes'
  <2>1. PICK j \in Jobs : job[j] = "none" /\ job' = [job EXCEPT ![j] = "open"]
    BY <1>2 DEF QueueRedelivery
  <2>2. Known' = Known \union {j} /\ j \notin Known
    BY <2>1 DEF Known, JobTypes
  <2>3. IsFiniteSet(Known)
    BY <1>0, FS_Subset DEF Known
  <2>4. asked' = Cardinality(Known')
    BY <1>2, <2>2, <2>3, FS_AddElement DEF QueueRedelivery, JobTypes
  <2> QED
    BY <1>2, <2>1, <2>4 DEF QueueRedelivery, JobTypes
<1>3. ASSUME NEW w \in Workers, NEW j \in Jobs, Begin(w, j) PROVE JobTypes'
  <2>1. \A v \in Workers : run'[v] = IF v = w THEN [step |-> "send", job |-> j, seen |-> count] ELSE run[v]
    BY <1>3 DEF Begin, CountInv, CopiesBehind
  <2>2. Known' = Known
    BY <1>3 DEF Begin, Known
  <2> QED
    BY <1>3, <2>1, <2>2 DEF Begin, JobTypes
<1>4. ASSUME NEW w \in Workers, SendDocument(w) PROVE JobTypes'
  <2>1. \A v \in Workers : run'[v] = IF v = w THEN [run[w] EXCEPT !.step = "count"] ELSE run[v]
    BY <1>4 DEF SendDocument, CountInv, CopiesBehind
  <2>2. run[w] # Idle
    BY <1>4 DEF SendDocument, Idle
  <2>3. run'[w].job = run[w].job /\ run'[w].step = "count"
    BY <2>1 DEF CountInv, CopiesBehind
  <2>4. Known' = Known
    BY <1>4 DEF SendDocument, Known
  <2>5. sent' \in 0 .. MaxSends
    BY <1>0, <1>4 DEF SendDocument, JobTypes
  <2>6. \A v \in Workers : v # w => run'[v] = run[v]
    BY <2>1
  <2> QED
    BY <1>4, <2>2, <2>3, <2>4, <2>5, <2>6 DEF SendDocument, JobTypes
<1>5. ASSUME NEW w \in Workers, CommitCount(w) \/ FailSend(w) \/ FailCount(w) PROVE JobTypes'
  <2>1. run[w] # Idle /\ run[w].job \in Jobs /\ job[run[w].job] = "open"
    BY <1>5 DEF CommitCount, FailSend, FailCount, JobTypes, Idle
  <2>2. /\ job' \in [Jobs -> {"none", "open", "done", "failed"}]
        /\ \A j \in Jobs : job'[j] = job[j] \/ (j = run[w].job /\ job'[j] \in {"done", "failed"})
    BY <1>5, <2>1 DEF CommitCount, FailSend, FailCount, JobTypes
  <2>3. run' = [run EXCEPT ![w] = Idle]
    BY <1>5 DEF CommitCount, FailSend, FailCount
  <2>4. \A v \in Workers : run'[v] = Idle \/ (run'[v] = run[v] /\ (run[v] # Idle => job'[run[v].job] = "open"))
    BY <2>1, <2>2, <2>3 DEF JobTypes, CountInv, CopiesBehind
  <2>5. UNCHANGED <<asked, press, sent, crashes, retries>>
    BY <1>5 DEF CommitCount, FailSend, FailCount
  <2>8. misses' \in 0 .. MissBudget
    BY <1>0, <1>5 DEF CommitCount, FailSend, FailCount, JobTypes
  <2>6. \A j \in Jobs : job'[j] = "none" <=> job[j] = "none"
    BY <2>1, <2>2
  <2>7. crashes' \in 0 .. CrashBudget /\ retries' \in 0 .. RetryBudget
    BY <2>5 DEF JobTypes
  <2> QED
    BY <2>2, <2>4, <2>5, <2>6, <2>7, <2>8, SameJobs
<1>6. ASSUME NEW w \in Workers, Crash(w) PROVE JobTypes'
  <2>1. crashes' \in 0 .. CrashBudget
    BY <1>0, <1>6 DEF Crash, JobTypes
  <2> QED
    BY <1>6, <2>1, SameJobs DEF Crash, JobTypes, CountInv, CopiesBehind
<1>7. ASSUME NEW j \in Jobs, Retry(j) PROVE JobTypes'
  <2>1. retries' \in 0 .. RetryBudget
    BY <1>0, <1>7 DEF Retry, JobTypes
  <2> QED
    BY <1>7, <2>1, SameJobs DEF Retry, JobTypes, OpenJobs
<1>8. CASE UNCHANGED vars
  BY <1>8 DEF vars, JobTypes, Known
<1> QED
  BY <1>1, <1>2, <1>3, <1>4, <1>5, <1>6, <1>7, <1>8 DEF Next

\* No job is queued at first.
LEMMA JobTypesInit == Init => JobTypes
<1> SUFFICES ASSUME Init PROVE JobTypes
  OBVIOUS
<1>1. Known = {}
  BY DEF Init, Known
<1> QED
  BY <1>1, FS_EmptySet, DeliveryAssumption DEF Init, JobTypes

\* Every variable keeps its type: a customer was not asked for more than there are jobs,
\* and no count goes beyond what could be sent.
THEOREM DeliveryTypes == Spec => []TypeOK
<1>1. CountInv /\ JobTypes => TypeOK
  <2> SUFFICES ASSUME CountInv, JobTypes PROVE TypeOK
    OBVIOUS
  <2>1. asked \in 0 .. Cardinality(Jobs)
    <3>1. Known \in SUBSET Jobs /\ IsFiniteSet(Jobs)
      BY DeliveryAssumption DEF Known
    <3>2. IsFiniteSet(Known) /\ Cardinality(Known) <= Cardinality(Jobs)
      BY <3>1, FS_Subset
    <3>3. Cardinality(Known) \in Nat /\ Cardinality(Jobs) \in Nat
      BY <3>1, <3>2, FS_CardinalityType
    <3> QED
      BY <3>2, <3>3 DEF JobTypes
  <2>2. count \in 0 .. MaxSends /\ sent \in 0 .. MaxSends
    BY DeliveryAssumption DEF CountInv, CountedWereSent, JobTypes
  <2>3. ASSUME NEW w \in Workers PROVE run[w].seen \in 0 .. MaxSends
    BY <2>2, DeliveryAssumption DEF CountInv, CopiesBehind, JobTypes, Idle
  <2>4. run \in [Workers -> [step : {"idle", "send", "count"}, job : Jobs \union {NoJob}, seen : 0 .. MaxSends]]
    BY <2>3 DEF CountInv, CopiesBehind, Step
  <2> QED
    BY <2>1, <2>2, <2>4 DEF JobTypes, TypeOK
<1> QED
  BY <1>1, CountInit, CountNext, JobTypesInit, JobTypesNext, PTL DEF Spec
-----------------------------------------------------------------------------
(* With one worker. *)

Counting == {w \in Workers : run[w].step = "count"}

\* The worker's copy of the row is up to date.
CopyIsFresh == \A w \in Workers : run[w].step # "idle" => run[w].seen = count

FreshInv == CopyIsFresh /\ SentAreCounted

\* How many workers count after a step of one.
LEMMA CountingNow ==
  ASSUME \A v, w \in Workers : v = w, NEW w \in Workers, CountInv
  PROVE  /\ run[w].step = "count" => Cardinality(Counting) = 1
         /\ run[w].step # "count" => Cardinality(Counting) = 0
<1>1. Counting = IF run[w].step = "count" THEN {w} ELSE {}
  BY DEF Counting
<1> QED
  BY <1>1, FS_EmptySet, FS_Singleton

\* No worker has a copy at first.
LEMMA FreshInit ==
  ASSUME \A v, w \in Workers : v = w
  PROVE  Init => FreshInv
<1> SUFFICES ASSUME Init PROVE FreshInv
  OBVIOUS
<1>1. Counting = {}
  BY DEF Init, Idle, Counting
<1> QED
  BY <1>1, FS_EmptySet DEF Init, Idle, Counting, FreshInv, CopyIsFresh, SentAreCounted

\* One worker reads, sends and counts, and nobody else changes the count.
LEMMA FreshNext ==
  ASSUME \A v, w \in Workers : v = w
  PROVE  CountInv /\ FreshInv /\ [Next]_vars /\ JobTypes => FreshInv'
<1> SUFFICES ASSUME CountInv, FreshInv, [Next]_vars, JobTypes PROVE FreshInv'
  OBVIOUS
<1>0. crashes \in Nat /\ misses \in Nat /\ sent \in Nat /\ count \in Nat /\ CountInv'
  BY CountNext, DeliveryAssumption DEF CountInv, JobTypes
<1>1. ASSUME UNCHANGED <<count, sent, run, crashes, misses>> PROVE FreshInv'
  BY <1>1 DEF FreshInv, CopyIsFresh, SentAreCounted
<1>2. ASSUME NEW w \in Workers,
             SendDocument(w) \/ CommitCount(w) \/ FailSend(w) \/ FailCount(w) \/ Crash(w) \/ (\E j \in Jobs : Begin(w, j))
      PROVE  FreshInv'
  <2>1. \A v \in Workers : v = w
    OBVIOUS
  <2>2. /\ run[w].step = "count" => Cardinality(Counting) = 1
        /\ run[w].step # "count" => Cardinality(Counting) = 0
    BY CountingNow
  <2>3. /\ run'[w].step = "count" => Cardinality(Counting') = 1
        /\ run'[w].step # "count" => Cardinality(Counting') = 0
    <3>1. Counting' = IF run'[w].step = "count" THEN {w} ELSE {}
      BY <2>1 DEF Counting
    <3> QED
      BY <3>1, FS_EmptySet, FS_Singleton
  <2>4. sent <= count + crashes + misses + Cardinality(Counting)
    BY DEF FreshInv, SentAreCounted, Counting
  <2>5. run[w].step # "idle" => run[w].seen = count
    BY DEF FreshInv, CopyIsFresh
  <2>6. /\ run'[w].step # "idle" => run'[w].seen = count'
        /\ sent' <= count' + crashes' + misses' + Cardinality(Counting')
    <3> USE <1>0, <2>2, <2>3, <2>4, <2>5 DEF CountInv, CopiesBehind, Step, Idle
    <3> HIDE DEF CountInv
    <3>1. run \in [Workers -> [step : Step, job : Jobs \union {NoJob}, seen : Nat]]
      BY DEF CountInv
    <3>2. CASE SendDocument(w)
      BY <3>1, <3>2 DEF SendDocument
    <3>3. CASE CommitCount(w)
      BY <3>1, <3>3 DEF CommitCount
    <3>4. CASE FailSend(w)
      BY <3>1, <3>4 DEF FailSend
    <3>5. CASE Crash(w)
      BY <3>1, <3>5 DEF Crash
    <3>7. CASE FailCount(w)
      BY <3>1, <3>7 DEF FailCount
    <3>6. ASSUME NEW j \in Jobs, Begin(w, j)
          PROVE  /\ run'[w].step # "idle" => run'[w].seen = count'
                 /\ sent' <= count' + crashes' + misses' + Cardinality(Counting')
      BY <3>1, <3>6 DEF Begin
    <3> QED
      BY <1>2, <3>2, <3>3, <3>4, <3>5, <3>6, <3>7
  <2>7. CopyIsFresh'
    BY <2>1, <2>6 DEF CopyIsFresh
  <2>8. SentAreCounted'
    BY <2>6 DEF SentAreCounted, Counting
  <2> QED
    BY <2>7, <2>8 DEF FreshInv
<1>3. ASSUME NEW p \in Presses, Press(p) \/ QueueRedelivery(p) PROVE FreshInv'
  BY <1>1, <1>3 DEF Press, QueueRedelivery
<1>4. ASSUME NEW j \in Jobs, Retry(j) PROVE FreshInv'
  BY <1>1, <1>4 DEF Retry
<1>5. CASE UNCHANGED vars
  BY <1>1, <1>5 DEF vars
<1> QED
  BY <1>2, <1>3, <1>4, <1>5 DEF Next

\* With one worker a config that is sent is counted, unless the worker dies in between or
\* a failure is reported after it was sent: a late answer, a count that is not committed.
THEOREM UncountedNeedFault ==
  ASSUME \A v, w \in Workers : v = w
  PROVE  Spec => []SentAreCounted
<1>1. FreshInv => SentAreCounted
  BY DEF FreshInv
<1> QED
  BY <1>1, CountInit, CountNext, JobTypesInit, JobTypesNext, FreshInit, FreshNext, PTL DEF Spec
-----------------------------------------------------------------------------
(* A customer who waits. *)

Asking == IF \E p \in Presses : press[p] = "queue" THEN 1 ELSE 0

\* One press at a time, and what is counted and still owed is within the limit.
Budget ==
  /\ \A p, q \in Presses : press[p] = "queue" /\ press[q] = "queue" => p = q
  /\ count + Cardinality(OpenJobs) + Asking <= Limit + retries

BudgetInv == CountInv /\ JobTypes /\ FreshInv /\ Budget

\* The open jobs can be counted.
LEMMA OpenIsFinite == IsFiniteSet(OpenJobs) /\ Cardinality(OpenJobs) \in Nat
<1>1. IsFiniteSet(Jobs) /\ OpenJobs \in SUBSET Jobs
  BY DeliveryAssumption DEF OpenJobs
<1>2. IsFiniteSet(OpenJobs)
  BY <1>1, FS_Subset
<1> QED
  BY <1>2, FS_CardinalityType

\* A patient customer is granted what is left of the limit, and Retry one more.
LEMMA BudgetNext ==
  ASSUME Patient
  PROVE  BudgetInv /\ [Next]_vars => Budget'
<1> SUFFICES ASSUME BudgetInv, [Next]_vars PROVE Budget'
  OBVIOUS
<1>0. /\ count \in Nat /\ retries \in Nat /\ Limit \in Nat /\ Asking \in {0, 1}
      /\ count + Cardinality(OpenJobs) + Asking <= Limit + retries
  BY DeliveryAssumption DEF BudgetInv, CountInv, JobTypes, Budget, Asking
<1>1. ASSUME UNCHANGED <<job, count, press, retries>> PROVE Budget'
  BY <1>1 DEF BudgetInv, Budget, OpenJobs, Asking
<1>2. ASSUME NEW p \in Presses, Press(p) PROVE Budget'
  <2>1. OpenJobs' = {} /\ Cardinality(OpenJobs') = 0
    BY <1>2, FS_EmptySet DEF Press, OpenJobs
  <2>2. \A q \in Presses : press'[q] = "queue" => q = p
    BY <1>2 DEF Press, BudgetInv, JobTypes
  <2>3. count' < Limit /\ UNCHANGED <<count, retries>>
    BY <1>2 DEF Press, WithinLimit
  <2>4. Asking' \in {0, 1}
    BY DEF Asking
  <2> QED
    BY <1>0, <2>1, <2>2, <2>3, <2>4 DEF Budget
<1>3. ASSUME NEW p \in Presses, QueueRedelivery(p) PROVE Budget'
  <2>1. PICK j \in Jobs : job[j] = "none" /\ job' = [job EXCEPT ![j] = "open"]
    BY <1>3 DEF QueueRedelivery
  <2>2. OpenJobs' = OpenJobs \union {j} /\ j \notin OpenJobs
    BY <2>1 DEF OpenJobs, BudgetInv, JobTypes
  <2>3. Cardinality(OpenJobs') = Cardinality(OpenJobs) + 1
    BY <2>2, OpenIsFinite, FS_AddElement
  <2>4. Asking = 1 /\ \A q \in Presses : press'[q] # "queue"
    BY <1>3 DEF QueueRedelivery, Asking, BudgetInv, Budget, JobTypes
  <2>5. Asking' = 0 /\ UNCHANGED <<count, retries>>
    BY <1>3, <2>4 DEF QueueRedelivery, Asking
  <2> QED
    BY <1>0, <2>3, <2>4, <2>5, OpenIsFinite DEF Budget
<1>4. ASSUME NEW w \in Workers, CommitCount(w) PROVE Budget'
  <2>1. /\ run[w].job \in Jobs /\ job[run[w].job] = "open" /\ run[w].seen = count
        /\ job' = [job EXCEPT ![run[w].job] = "done"]
        /\ count' = count + 1 /\ UNCHANGED <<press, retries>>
    BY <1>4 DEF CommitCount, BudgetInv, JobTypes, Idle, FreshInv, CopyIsFresh
  <2>2. OpenJobs' = OpenJobs \ {run[w].job} /\ run[w].job \in OpenJobs
    BY <2>1 DEF OpenJobs, BudgetInv, JobTypes
  <2>3. Cardinality(OpenJobs') = Cardinality(OpenJobs) - 1
    BY <2>2, OpenIsFinite, FS_RemoveElement
  <2>4. UNCHANGED Asking
    BY <2>1 DEF Asking
  <2> QED
    BY <1>0, <2>1, <2>3, <2>4, OpenIsFinite DEF Budget, BudgetInv
<1>5. ASSUME NEW w \in Workers, FailSend(w) \/ FailCount(w) PROVE Budget'
  <2>1. /\ run[w].job \in Jobs /\ UNCHANGED <<count, press, retries>>
        /\ UNCHANGED job \/ job' = [job EXCEPT ![run[w].job] = "failed"]
    BY <1>5 DEF FailSend, FailCount, BudgetInv, JobTypes, Idle
  <2>2. OpenJobs' \in SUBSET OpenJobs
    BY <2>1 DEF OpenJobs, BudgetInv, JobTypes
  <2>3. Cardinality(OpenJobs') <= Cardinality(OpenJobs) /\ IsFiniteSet(OpenJobs')
    BY <2>2, OpenIsFinite, FS_Subset
  <2>4. Cardinality(OpenJobs') \in Nat
    BY <2>3, FS_CardinalityType
  <2>5. UNCHANGED Asking
    BY <2>1 DEF Asking
  <2> QED
    BY <1>0, <2>1, <2>3, <2>4, <2>5, OpenIsFinite DEF Budget, BudgetInv
<1>6. ASSUME NEW j \in Jobs, Retry(j) PROVE Budget'
  <2>1. OpenJobs = {} /\ OpenJobs' = {j}
    BY <1>6 DEF Retry, OpenJobs, BudgetInv, JobTypes
  <2>2. Cardinality(OpenJobs) = 0 /\ Cardinality(OpenJobs') = 1
    BY <2>1, FS_EmptySet, FS_Singleton
  <2>3. UNCHANGED <<Asking, count, press>> /\ retries' = retries + 1
    BY <1>6 DEF Retry, Asking
  <2> QED
    BY <1>0, <2>2, <2>3 DEF Budget, BudgetInv
<1>7. ASSUME NEW w \in Workers, SendDocument(w) \/ Crash(w) \/ (\E j \in Jobs : Begin(w, j)) PROVE Budget'
  BY <1>1, <1>7 DEF SendDocument, Crash, Begin
<1>8. CASE UNCHANGED vars
  BY <1>1, <1>8 DEF vars
<1> QED
  BY <1>2, <1>3, <1>4, <1>5, <1>6, <1>7, <1>8 DEF Next

\* A worker that counts what it sent has an open job to do it for.
LEMMA BudgetBounds ==
  ASSUME \A v, w \in Workers : v = w
  PROVE  BudgetInv => SentWithinLimit
<1> SUFFICES ASSUME BudgetInv PROVE SentWithinLimit
  OBVIOUS
<1>1. Cardinality(Counting) \in Nat /\ Cardinality(Counting) <= Cardinality(OpenJobs)
  <2>1. CASE \E w \in Workers : run[w].step = "count"
    <3>1. PICK w \in Workers : run[w].step = "count"
      BY <2>1
    <3>2. Cardinality(Counting) = 1
      BY <3>1, CountingNow DEF BudgetInv
    <3>3. run[w].job \in OpenJobs
      BY <3>1 DEF BudgetInv, JobTypes, Idle, OpenJobs
    <3>4. Cardinality(OpenJobs) # 0
      BY <3>3, OpenIsFinite, FS_EmptySet
    <3> QED
      BY <3>2, <3>4, OpenIsFinite
  <2>2. CASE ~ \E w \in Workers : run[w].step = "count"
    <3>1. Counting = {}
      BY <2>2 DEF Counting
    <3> QED
      BY <3>1, FS_EmptySet, OpenIsFinite
  <2> QED
    BY <2>1, <2>2
<1>2. sent <= count + crashes + misses + Cardinality(Counting)
  BY DEF BudgetInv, FreshInv, SentAreCounted, Counting
<1>3. count + Cardinality(OpenJobs) + Asking <= Limit + retries
  BY DEF BudgetInv, Budget
<1>4. /\ count \in Nat /\ sent \in Nat /\ crashes \in Nat /\ misses \in Nat /\ retries \in Nat /\ Limit \in Nat
      /\ Asking \in {0, 1}
  BY DeliveryAssumption DEF BudgetInv, CountInv, JobTypes, Asking
<1> QED
  BY <1>1, <1>2, <1>3, <1>4, OpenIsFinite DEF SentWithinLimit

\* A customer who waits for each config gets as many as the setting says, and one more
\* for each crash of the worker, each failure reported after a config was sent, and each
\* Retry of an admin.
THEOREM LimitIsKept ==
  ASSUME Patient, \A v, w \in Workers : v = w
  PROVE  Spec => []SentWithinLimit
<1>1. Init => Budget
  <2> SUFFICES ASSUME Init PROVE Budget
    OBVIOUS
  <2>1. OpenJobs = {} /\ Asking = 0
    BY DEF Init, OpenJobs, Asking
  <2> QED
    BY <2>1, FS_EmptySet, DeliveryAssumption DEF Init, Budget
<1>2. BudgetInv => SentWithinLimit
  BY BudgetBounds
<1>3. BudgetInv /\ [Next]_vars => BudgetInv'
  BY CountNext, JobTypesNext, FreshNext, BudgetNext DEF BudgetInv
<1>4. Init => BudgetInv
  BY <1>1, CountInit, JobTypesInit, FreshInit DEF BudgetInv
<1> QED
  BY <1>2, <1>3, <1>4, PTL DEF Spec

-----------------------------------------------------------------------------
(* Tickets: the type invariant, by action. *)

\* TicketInit gives every variable a value of its type.
LEMMA TypeInit == TicketInit => TicketTypeOK
BY TicketsAssumption DEF TicketInit, TicketTypeOK, Statuses, NoHandler

\* Every step keeps the types.
LEMMA TypeNext == TicketTypeOK /\ [TicketNext]_ticketVars => TicketTypeOK'
<1> USE DEF TicketTypeOK, Statuses, Active, NoHandler
<1> SUFFICES ASSUME TicketTypeOK, [TicketNext]_ticketVars PROVE TicketTypeOK'
  OBVIOUS
<1>1. CASE AskForSupport \/ LeaveChat
  BY <1>1 DEF AskForSupport, LeaveChat
<1>2. ASSUME NEW m \in Messages, WriteMessage(m) PROVE TicketTypeOK'
  BY <1>2 DEF WriteMessage
<1>3. ASSUME NEW m \in Messages, FindTicket(m) PROVE TicketTypeOK'
  <2>1. CASE message' = [message EXCEPT ![m] = [step |-> "open"]] /\ UNCHANGED lost
    BY <1>3, <2>1 DEF FindTicket
  <2>2. ASSUME NEW t \in Tickets,
               message' = [message EXCEPT ![m] = [step |-> "add", ticket |-> t, seen |-> status[t]]],
               UNCHANGED lost
        PROVE  TicketTypeOK'
    BY <1>3, <2>2 DEF FindTicket
  <2>3. CASE message' = [message EXCEPT ![m] = NoHandler] /\ lost' = TRUE
    BY <1>3, <2>3 DEF FindTicket
  <2> QED
    BY <1>3, <2>1, <2>2, <2>3 DEF FindTicket, ActiveTickets
<1>4. ASSUME NEW m \in Messages, OpenTicket(m) PROVE TicketTypeOK'
  BY <1>4 DEF OpenTicket
<1>5. ASSUME NEW m \in Messages, AddMessage(m) PROVE TicketTypeOK'
  BY <1>5 DEF AddMessage, SetStatus
<1>6. ASSUME NEW a \in Admins, NEW t \in Tickets, PressReply(a, t) PROVE TicketTypeOK'
  BY <1>6 DEF PressReply
<1>7. ASSUME NEW a \in Admins, NEW t \in Tickets, BeginClose(a, t) PROVE TicketTypeOK'
  BY <1>7 DEF BeginClose, Handles
<1>8. ASSUME NEW a \in Admins, BeginAnswer(a) PROVE TicketTypeOK'
  BY <1>8 DEF BeginAnswer, Handles
<1>9. ASSUME NEW a \in Admins, Answer(a) PROVE TicketTypeOK'
  BY <1>9 DEF Answer, SetStatus
<1>10. ASSUME NEW a \in Admins, Close(a) PROVE TicketTypeOK'
  BY <1>10 DEF Close, SetStatus
<1>11. CASE Restart
  BY <1>11 DEF Restart
<1>12. CASE UNCHANGED ticketVars
  BY <1>12 DEF ticketVars
<1> QED
  BY <1>1, <1>2, <1>3, <1>4, <1>5, <1>6, <1>7, <1>8, <1>9, <1>10, <1>11, <1>12 DEF TicketNext

\* Every variable keeps its type, however the handlers overlap.
THEOREM TicketTypes == TicketSpec => []TicketTypeOK
BY TypeInit, TypeNext, PTL DEF TicketSpec

-----------------------------------------------------------------------------
(* What makes OneActive inductive. *)

\* A message that opens a ticket found none active, and there is none yet.
OpensFirst == \A m \in Messages : message[m].step = "open" => ActiveTickets = {}

\* A message that is added to a ticket found it active, and no other has become so.
AddsToActive ==
  \A m \in Messages : message[m].step = "add" =>
    message[m].seen \in Active /\ ActiveTickets \subseteq {message[m].ticket}

\* An answer is for a ticket that is active still, since only its admin closes it.
AnswersActive ==
  \A a \in Admins : admin[a].step = "answer" =>
    admin[a].seen \in Active /\ admin[a].ticket \in ActiveTickets

\* An admin's chat waits for an answer to a ticket that was opened.
AnswersOpened ==
  \A a \in Admins : answering[a] # NoTicket => status[answering[a]] # "none"

\* A closing in progress is of a ticket that was opened.
ClosesOpened ==
  \A a \in Admins : admin[a].step = "close" => status[admin[a].ticket] # "none"

TicketInv ==
  TicketTypeOK /\ OneActive /\ NothingLost /\ OpensFirst /\ AddsToActive /\ AnswersActive /\ AnswersOpened /\ ClosesOpened

\* There is no ticket at first.
LEMMA InvInit == TicketInit => TicketInv
BY TypeInit, TicketsAssumption
   DEF TicketInit, TicketInv, OneActive, NothingLost, OpensFirst, AddsToActive, AnswersActive, AnswersOpened, ClosesOpened,
       Active, NoHandler

\* Every step keeps TicketInv.
LEMMA InvNext ==
  ASSUME OneMessageAtATime, OneAdmin, ~AnswersClosed, TicketInv, [TicketNext]_ticketVars
  PROVE  TicketInv'
<1> USE DEF TicketInv
<1>0. TicketTypeOK'
  BY TypeNext
<1> USE <1>0, TicketsAssumption
    DEF OneActive, NothingLost, OpensFirst, AddsToActive, AnswersActive, AnswersOpened, ClosesOpened,
        ActiveTickets, Active, Statuses, NoHandler, TicketTypeOK, OneMessageAtATime, OneAdmin
<1>1. CASE AskForSupport \/ LeaveChat
  BY <1>1 DEF AskForSupport, LeaveChat
<1>2. ASSUME NEW m \in Messages, WriteMessage(m) PROVE TicketInv'
  BY <1>2 DEF WriteMessage
<1>3. ASSUME NEW m \in Messages, FindTicket(m) PROVE TicketInv'
  <2>0. ~lost'
    BY <1>3 DEF FindTicket
  <2>1. CASE ActiveTickets = {} /\ message' = [message EXCEPT ![m] = [step |-> "open"]]
    BY <1>3, <2>0, <2>1 DEF FindTicket
  <2>2. ASSUME NEW t \in ActiveTickets, ActiveTickets = {t},
               message' = [message EXCEPT ![m] = [step |-> "add", ticket |-> t, seen |-> status[t]]]
        PROVE  TicketInv'
    BY <1>3, <2>0, <2>2 DEF FindTicket
  <2>3. CASE message' = [message EXCEPT ![m] = NoHandler]
    BY <1>3, <2>0, <2>3 DEF FindTicket
  <2> QED
    BY <1>3, <2>1, <2>2, <2>3 DEF FindTicket
<1>4. ASSUME NEW m \in Messages, OpenTicket(m) PROVE TicketInv'
  <2>1. PICK t \in Tickets : status[t] = "none" /\ status' = [status EXCEPT ![t] = "waiting_for_admin"]
    BY <1>4 DEF OpenTicket
  <2>2. ActiveTickets = {} /\ ActiveTickets' = {t}
    BY <1>4, <2>1 DEF OpenTicket
  <2>3. \A n \in Messages : message'[n] = NoHandler
    BY <1>4 DEF OpenTicket
  <2>4. \A a \in Admins : admin[a].step # "answer"
    BY <2>2
  <2> QED
    BY <1>4, <2>1, <2>2, <2>3, <2>4 DEF OpenTicket
<1>5. ASSUME NEW m \in Messages, AddMessage(m) PROVE TicketInv'
  <2>1. message[m] \in [step : {"add"}, ticket : Tickets, seen : Statuses]
    BY <1>5 DEF AddMessage
  <2>2. \A n \in Messages : message'[n] = NoHandler
    BY <1>5 DEF AddMessage
  <2>3. ActiveTickets' \subseteq {message[m].ticket} /\ ActiveTickets \subseteq ActiveTickets'
    BY <1>5, <2>1 DEF AddMessage, SetStatus
  <2>4. \A t \in Tickets : status'[t] = status[t] \/ status'[t] = "waiting_for_admin"
    BY <1>5, <2>1 DEF AddMessage, SetStatus
  <2> QED
    BY <1>5, <2>2, <2>3, <2>4 DEF AddMessage
<1>6. ASSUME NEW a \in Admins, NEW t \in Tickets, PressReply(a, t) PROVE TicketInv'
  BY <1>6 DEF PressReply
<1>7. ASSUME NEW a \in Admins, NEW t \in Tickets, BeginClose(a, t) PROVE TicketInv'
  BY <1>7 DEF BeginClose, Handles
<1>8. ASSUME NEW a \in Admins, BeginAnswer(a) PROVE TicketInv'
  BY <1>8 DEF BeginAnswer, Handles
<1>9. ASSUME NEW a \in Admins, Answer(a) PROVE TicketInv'
  <2>1. admin[a] \in [step : {"answer", "close"}, ticket : Tickets, seen : Statuses]
    BY <1>9 DEF Answer
  <2>2. \A b \in Admins : admin'[b] = NoHandler /\ answering'[b] = NoTicket
    BY <1>9 DEF Answer
  <2>3. ActiveTickets' = ActiveTickets
    BY <1>9, <2>1 DEF Answer, SetStatus
  <2> QED
    BY <1>9, <2>2, <2>3 DEF Answer
<1>10. ASSUME NEW a \in Admins, Close(a) PROVE TicketInv'
  <2>1. admin[a] \in [step : {"answer", "close"}, ticket : Tickets, seen : Statuses]
    BY <1>10 DEF Close
  <2>2. \A b \in Admins : admin'[b] = NoHandler
    BY <1>10 DEF Close
  <2>3. ActiveTickets' \subseteq ActiveTickets
    BY <1>10, <2>1 DEF Close, SetStatus
  <2>4. \A t \in Tickets : status'[t] = "none" <=> status[t] = "none"
    BY <1>10, <2>1 DEF Close, SetStatus
  <2> QED
    BY <1>10, <2>2, <2>3, <2>4 DEF Close
<1>11. CASE Restart
  BY <1>11 DEF Restart
<1>12. CASE UNCHANGED ticketVars
  BY <1>12 DEF ticketVars
<1> QED
  BY <1>1, <1>2, <1>3, <1>4, <1>5, <1>6, <1>7, <1>8, <1>9, <1>10, <1>11, <1>12 DEF TicketNext

\* A customer has one active ticket at most, if messages do not overlap and the one
\* admin answers open tickets only.
THEOREM OneTicketAtATime ==
  ASSUME OneMessageAtATime, OneAdmin, ~AnswersClosed
  PROVE  TicketSpec => []OneActive
<1>1. TicketInit => TicketInv
  BY InvInit
<1>2. TicketInv /\ [TicketNext]_ticketVars => TicketInv'
  BY InvNext
<1>3. TicketInv => OneActive
  BY DEF TicketInv
<1> QED
  BY <1>1, <1>2, <1>3, PTL DEF TicketSpec

\* So get_active_ticket_for_user never raises, and no message is refused.
THEOREM MessagesAreTaken ==
  ASSUME OneMessageAtATime, OneAdmin, ~AnswersClosed
  PROVE  TicketSpec => []NothingLost
<1>1. TicketInit => TicketInv
  BY InvInit
<1>2. TicketInv /\ [TicketNext]_ticketVars => TicketInv'
  BY InvNext
<1>3. TicketInv => NothingLost
  BY DEF TicketInv
<1> QED
  BY <1>1, <1>2, <1>3, PTL DEF TicketSpec
-----------------------------------------------------------------------------
(* Closed tickets, with any number of messages and admins. *)

\* A message is added to a ticket that its copy shows active.
SawActive == \A m \in Messages : message[m].step = "add" => message[m].seen \in Active

\* FindTicket reads active tickets only.
LEMMA NextSawActive == TicketTypeOK /\ SawActive /\ [TicketNext]_ticketVars => SawActive'
<1> SUFFICES ASSUME TicketTypeOK, SawActive, [TicketNext]_ticketVars PROVE SawActive'
  OBVIOUS
<1> USE DEF SawActive
<1>1. ASSUME NEW m \in Messages, WriteMessage(m) PROVE SawActive'
  BY <1>1 DEF WriteMessage, TicketTypeOK
<1>2. ASSUME NEW m \in Messages, FindTicket(m) PROVE SawActive'
  <2>1. CASE message' = [message EXCEPT ![m] = [step |-> "open"]]
    BY <2>1 DEF TicketTypeOK
  <2>2. ASSUME NEW t \in ActiveTickets,
               message' = [message EXCEPT ![m] = [step |-> "add", ticket |-> t, seen |-> status[t]]]
        PROVE  SawActive'
    BY <2>2 DEF ActiveTickets, TicketTypeOK
  <2>3. CASE message' = [message EXCEPT ![m] = NoHandler]
    BY <2>3 DEF TicketTypeOK, NoHandler
  <2> QED
    BY <1>2, <2>1, <2>2, <2>3 DEF FindTicket
<1>3. ASSUME NEW m \in Messages, OpenTicket(m) \/ AddMessage(m) PROVE SawActive'
  BY <1>3 DEF OpenTicket, AddMessage, TicketTypeOK, NoHandler
<1>4. CASE Restart
  BY <1>4 DEF Restart, NoHandler
<1>5. CASE UNCHANGED message
  BY <1>5
<1> QED
  BY <1>1, <1>2, <1>3, <1>4, <1>5
     DEF TicketNext, AskForSupport, LeaveChat, PressReply, BeginClose, BeginAnswer, Answer, Close, ticketVars

\* What ClosedStays asks of a step.
ClosedStep ==
  \A t \in Tickets : status[t] = "closed" /\ status'[t] # "closed" =>
    \/ \E a \in Admins : admin[a].step = "answer" /\ admin[a].ticket = t /\ admin'[a] = NoHandler
    \/ \E m \in Messages : message[m].step = "add" /\ message[m].ticket = t
                           /\ message[m].seen = "waiting_for_customer" /\ message'[m] = NoHandler

\* A write of the status is one of these, or of a new ticket, or a closing.
LEMMA NextClosedStep == TicketTypeOK /\ SawActive /\ [TicketNext]_ticketVars => [ClosedStep]_ticketVars
<1> SUFFICES ASSUME TicketTypeOK, SawActive, TicketNext PROVE ClosedStep
  BY DEF ClosedStep
<1>1. CASE UNCHANGED status
  BY <1>1 DEF ClosedStep
<1>2. ASSUME NEW m \in Messages, OpenTicket(m) PROVE ClosedStep
  BY <1>2 DEF OpenTicket, ClosedStep, TicketTypeOK
<1>3. ASSUME NEW m \in Messages, AddMessage(m) PROVE ClosedStep
  <2>1. message[m].step = "add" /\ message'[m] = NoHandler
    BY <1>3 DEF AddMessage, TicketTypeOK
  <2>2. message[m].seen \in Active
    BY <2>1 DEF SawActive
  <2>3. \A t \in Tickets : status'[t] # status[t] =>
          t = message[m].ticket /\ message[m].seen # "waiting_for_admin"
    BY <1>3 DEF AddMessage, SetStatus, TicketTypeOK
  <2> QED
    BY <2>1, <2>2, <2>3 DEF ClosedStep, Active
<1>4. ASSUME NEW a \in Admins, Answer(a) PROVE ClosedStep
  <2>1. admin[a].step = "answer" /\ admin'[a] = NoHandler
    BY <1>4 DEF Answer, TicketTypeOK
  <2>2. \A t \in Tickets : status'[t] # status[t] => t = admin[a].ticket
    BY <1>4 DEF Answer, SetStatus, TicketTypeOK
  <2> QED
    BY <2>1, <2>2 DEF ClosedStep
<1>5. ASSUME NEW a \in Admins, Close(a) PROVE ClosedStep
  BY <1>5 DEF Close, SetStatus, ClosedStep, TicketTypeOK
<1> QED
  BY <1>1, <1>2, <1>3, <1>4, <1>5
     DEF TicketNext, AskForSupport, LeaveChat, WriteMessage, FindTicket, PressReply, BeginClose, BeginAnswer, Restart

\* A closed ticket stays closed to whatever a customer writes after the closing,
\* however many messages and admins overlap.
THEOREM ClosedTicketsStay == TicketSpec => ClosedStays
<1>1. TicketInit => SawActive
  BY DEF TicketInit, SawActive, NoHandler
<1>2. TicketTypeOK /\ SawActive /\ [TicketNext]_ticketVars => SawActive'
  BY NextSawActive
<1>3. TicketTypeOK /\ SawActive /\ [TicketNext]_ticketVars => [ClosedStep]_ticketVars
  BY NextClosedStep
<1>4. TicketSpec => [][ClosedStep]_ticketVars
  BY <1>1, <1>2, <1>3, TypeInit, TypeNext, PTL DEF TicketSpec
<1> QED
  BY <1>4 DEF ClosedStays, ClosedStep
=============================================================================
