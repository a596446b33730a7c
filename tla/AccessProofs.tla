---------------------------- MODULE AccessProofs ----------------------------
(***************************************************************************)
(* Proofs about Access, for any number of subscriptions, any plan length,  *)
(* grace period and bounds, and whatever the environment does: crashes,    *)
(* lost answers, late calls, changes made while a call is in progress or   *)
(* from a copy that a call has overtaken, Retry.                           *)
(***************************************************************************)
EXTENDS Access, TLAPS

\* What a handler may have read.
Copies == [sub : Subs \union {NoSub}, left : Nat,
           sets : SUBSET {"status", "disabled_at"}, changed : BOOLEAN]

\* The types the proofs need. They say nothing of the bounds.
Types ==
  /\ status \in [Subs -> {"none", "provisioning", "active", "disabled", "expired"}]
  /\ left \in [Subs -> Nat]
  /\ hasPeer \in [Subs -> BOOLEAN]
  /\ disabledFor \in [Subs -> Int]
  /\ removed \in [Subs -> BOOLEAN]
  /\ peer \in [Subs -> {"none", "on", "off"}]
  /\ open \in [Subs -> [Kinds -> Int]]
  /\ failed \in [Subs -> [Kinds -> Int]]
  /\ run \in Calls
  /\ IF run.phase = "idle" THEN run.kind = "create" /\ run.sub = NoSub ELSE run.sub \in Subs
  /\ late \in Calls
  /\ IF late.phase = "idle" THEN late.kind = "create" /\ late.sub = NoSub ELSE late.sub \in Subs
  /\ scan \subseteq Subs
  /\ edit \in Copies
  /\ edit = NoEdit \/ edit.sub \in Subs

\* Init gives every variable a value of its type.
LEMMA InitTypes == Init => Types
BY DEF Init, Types, Calls, Copies, Idle, NoEdit, Kinds, Never

\* A changed flag is the only part of the calls an admin's step touches.
LEMMA OutdateRun ==
  ASSUME Types, NEW s \in Subs, Outdate(s)
  PROVE  /\ run'.sub = run.sub /\ run'.kind = run.kind
         /\ run'.phase = run.phase /\ run'.snap = run.snap
         /\ run'.changed = (run.changed \/ run.sub = s)
         /\ late'.sub = late.sub /\ late'.kind = late.kind /\ late'.phase = late.phase
         /\ late'.changed = (late.changed \/ late.sub = s)
         /\ run' \in Calls /\ late' \in Calls
BY DEF Types, Calls, Outdate

\* A call is left alone or becomes the late one.
LEMMA AbandonLate ==
  ASSUME Types, Abandon
  PROVE  /\ late' \in Calls
         /\ IF late'.phase = "idle" THEN late'.kind = "create" /\ late'.sub = NoSub ELSE late'.sub \in Subs
         /\ \/ late' = late
            \/ /\ run.phase = "calling" /\ late'.phase = "calling"
               /\ late'.sub = run.sub /\ late'.kind = run.kind /\ late'.changed = run.changed
BY DEF Types, Calls, Abandon

\* What an admin's handler reads, and what it will write.
LEMMA EditRead ==
  ASSUME Types, NEW s \in Subs, ReadToRenew(s) \/ ReadToExtend(s) \/ ReadToCut(s)
  PROVE  /\ hasPeer[s] /\ (ChangeInCall \/ run.sub # s)
         /\ edit' \in Copies /\ edit'.left \in 0 .. MaxLeft
         /\ edit'.sub = s /\ edit'.changed = FALSE
         /\ "status" \notin edit'.sets /\ (edit'.left > 0 \/ "disabled_at" \in edit'.sets) =>
              status[s] \notin {"disabled", "expired"}
         /\ UNCHANGED <<rowVars, peer, jobVars, run, late, scan>>
<1> DEFINE S == SUBSET {"status", "disabled_at"}
           Fits(new, sets) == "status" \notin sets /\ (new > 0 \/ "disabled_at" \in sets) =>
                                status[s] \notin {"disabled", "expired"}
<1>1. PICK new \in Nat, sets \in S : Read(s, new, sets) /\ Fits(new, sets)
  <2>1. ToActive(s) \in S /\ ("status" \notin ToActive(s) => status[s] = "active")
    BY DEF ToActive
  <2>2. {} \in S /\ 0 \in Nat /\ left[s] + Period \in Nat
    BY AccessAssumption DEF Types
  <2>3. \A new \in Nat : Fits(new, ToActive(s))
    BY <2>1
  <2>4. Fits(0, {}) /\ (status[s] \notin {"disabled", "expired"} => \A new \in Nat : Fits(new, {}))
    OBVIOUS
  <2> HIDE DEF S, Fits
  <2> QED
    BY <2>1, <2>2, <2>3, <2>4 DEF ReadToRenew, ReadToExtend, ReadToCut
<1>2. /\ edit' = [sub |-> s, left |-> new, sets |-> sets, changed |-> FALSE] /\ new <= MaxLeft
      /\ hasPeer[s] /\ (ChangeInCall \/ run.sub # s)
      /\ UNCHANGED <<rowVars, peer, jobVars, run, late, scan>>
  BY <1>1 DEF Read
<1>3. edit' \in Copies
  BY <1>1, <1>2 DEF Copies
<1>4. edit'.left \in 0 .. MaxLeft
  BY <1>1, <1>2, AccessAssumption
<1> QED
  BY <1>1, <1>2, <1>3, <1>4

\* What it writes is that of a subscription, to the row as it is by then.
LEMMA EditFlush ==
  ASSUME Types, Flush
  PROVE  /\ edit.sub \in Subs /\ Outdate(edit.sub)
         /\ left' = [left EXCEPT ![edit.sub] = edit.left]
         /\ status' \in [Subs -> {"none", "provisioning", "active", "disabled", "expired"}]
         /\ disabledFor' \in [Subs -> Int]
         /\ status'[edit.sub] = IF "status" \in edit.sets THEN "active" ELSE status[edit.sub]
         /\ disabledFor'[edit.sub] = IF "disabled_at" \in edit.sets THEN Never ELSE disabledFor[edit.sub]
         /\ \A r \in Subs \ {edit.sub} :
              status'[r] = status[r] /\ left'[r] = left[r] /\ disabledFor'[r] = disabledFor[r]
         /\ IF "status" \in edit.sets THEN open[edit.sub]["enable"] < MaxJobs /\ Queue(edit.sub, "enable")
                                      ELSE UNCHANGED open
         /\ edit' = NoEdit /\ UNCHANGED <<hasPeer, removed, peer, failed, scan>>
<1>1. edit.sub \in Subs
  BY DEF Types, Flush
<1> QED
  BY <1>1 DEF Types, Flush, Never

\* The worker's commit overtakes it ...
LEMMA EditOvertaken ==
  ASSUME Types, Commit
  PROVE  /\ edit' \in Copies
         /\ edit = NoEdit => edit' = NoEdit
         /\ edit'.sub = edit.sub /\ edit'.left = edit.left /\ edit'.sets = edit.sets
         /\ edit'.changed = (edit.changed \/ edit.sub = run.sub)
<1>1. edit' = [edit EXCEPT !.changed = edit.changed \/ edit.sub = run.sub] /\ run.sub \in Subs
  BY DEF Types, Commit
<1>2. ASSUME edit = NoEdit PROVE edit' = NoEdit
  <2>1. (edit.changed \/ edit.sub = run.sub) = edit.changed
    BY <1>1, <1>2, AccessAssumption DEF NoEdit
  <2>2. [edit EXCEPT !.changed = edit.changed] = edit
    BY DEF Types, Copies
  <2> QED
    BY <1>1, <1>2, <2>1, <2>2
<1> QED
  BY <1>1, <1>2 DEF Types, Copies

\* ... and time nears the expiry it will set.
LEMMA EditTick ==
  ASSUME Types, Tick
  PROVE  \/ edit' = NoEdit
         \/ /\ edit' \in Copies
            /\ edit'.sub = edit.sub /\ edit.sub \in Subs /\ edit'.sets = edit.sets
            /\ edit'.changed = edit.changed /\ edit'.left = edit.left - 1 /\ edit'.left > 0
<1>1. edit' = NoEdit \/ (edit.left > 1 /\ edit' = [edit EXCEPT !.left = edit.left - 1])
  BY DEF Tick
<1>2. edit.left > 1 => edit.sub \in Subs
  BY DEF Types, NoEdit
<1> QED
  BY <1>1, <1>2 DEF Types, Copies

\* No handler is at work.
LEMMA NoEditType == NoEdit \in Copies
BY DEF NoEdit, Copies

\* Every step keeps the types.
LEMMA NextTypes == Types /\ [Next]_vars => Types'
<1> SUFFICES ASSUME Types, [Next]_vars PROVE Types'
  OBVIOUS
<1> USE AccessAssumption
<1>1. ASSUME NEW s \in Subs, ApproveNew(s) PROVE Types'
  BY <1>1 DEF Types, ApproveNew, Queue, Kinds
<1>2. ASSUME NEW s \in Subs, ReadToRenew(s) \/ ReadToExtend(s) \/ ReadToCut(s) PROVE Types'
  BY <1>2, EditRead DEF Types, rowVars, jobVars
<1>3. CASE Flush
  <2>1. left' \in [Subs -> Nat]
    BY <1>3, EditFlush DEF Types, Copies
  <2>2. open' \in [Subs -> [Kinds -> Int]]
    <3>1. edit.sub \in Subs /\ (UNCHANGED open \/ Queue(edit.sub, "enable"))
      BY <1>3, EditFlush
    <3> QED
      BY <3>1 DEF Types, Queue, Kinds
  <2> QED
    BY <1>3, <2>1, <2>2, EditFlush, NoEditType, OutdateRun DEF Types
<1>4. CASE Drop
  BY <1>4, NoEditType DEF Types, Drop, rowVars, jobVars
<1>5. ASSUME NEW s \in Subs, NEW k \in Kinds, Retry(s, k) PROVE Types'
  BY <1>5 DEF Types, Retry, Queue, rowVars
<1>6. CASE Scheduler
  <2>1. open' \in [Subs -> [Kinds -> Int]]
    BY <1>6 DEF Types, Scheduler, ScanExpired, CommitScan, Cleanup, jobVars, Kinds
  <2> QED
    BY <1>6, <2>1 DEF Types, Scheduler, ScanExpired, CommitScan, Cleanup, rowVars, jobVars
<1>7. ASSUME NEW s \in Subs, NEW k \in Kinds, Begin(s, k) PROVE Types'
  BY <1>7 DEF Types, Calls, Begin, rowVars, jobVars
<1>8. ASSUME NEW s \in Subs, NEW k \in Kinds, Skip(s, k) PROVE Types'
  BY <1>8 DEF Types, Skip, Done, rowVars
<1>9. CASE ServerActs
  <2>1. \A k \in Kinds, p \in {"none", "on", "off"} : PeerAfter(k, p) \in {"none", "on", "off"}
    BY DEF PeerAfter, Kinds
  <2>2. peer' \in [Subs -> {"none", "on", "off"}]
    BY <1>9, <2>1 DEF Types, Calls, ServerActs
  <2> QED
    BY <1>9, <2>2 DEF Types, Calls, ServerActs, rowVars, jobVars
<1>10. CASE Commit
  <2>1. run.sub \in Subs /\ run.snap \in {"none", "provisioning", "active", "disabled", "expired"}
    BY <1>10 DEF Types, Calls, Commit
  <2>2. run' = Idle /\ open' \in [Subs -> [Kinds -> Int]]
    BY <1>10 DEF Commit, Done, Types, Calls
  <2>8. /\ edit' \in Copies
        /\ edit' = NoEdit \/ edit'.sub \in Subs
    BY <1>10, EditOvertaken DEF Types
  <2>3. \A new \in {"active", "disabled", "expired"} :
          Write(run.sub, new) => status' \in [Subs -> {"none", "provisioning", "active", "disabled", "expired"}]
    BY <2>1 DEF Types, Write
  <2>4. CASE run.kind = "create" /\ MarkActive(run.sub)
    BY <1>10, <2>2, <2>3, <2>4, <2>8 DEF Types, Calls, Commit, MarkActive, Idle, Kinds
  <2>5. CASE run.kind = "disable" /\ MarkDisabled(run.sub)
    BY <1>10, <2>2, <2>3, <2>5, <2>8 DEF Types, Calls, Commit, MarkDisabled, Idle, Kinds
  <2>6. CASE run.kind = "remove" /\ MarkRemoved(run.sub)
    BY <1>10, <2>2, <2>3, <2>6, <2>8 DEF Types, Calls, Commit, MarkRemoved, Idle, Kinds
  <2>7. CASE UNCHANGED <<status, hasPeer, disabledFor, removed>>
    BY <1>10, <2>2, <2>7, <2>8 DEF Types, Calls, Commit, Idle, Kinds
  <2> QED
    BY <1>10, <2>4, <2>5, <2>6, <2>7 DEF Commit
<1>11. CASE Fail \/ Crash
  <2>1. run' = Idle /\ UNCHANGED <<rowVars, peer, scan, edit>>
    BY <1>11 DEF Fail, Crash
  <2>2. Abandon
    BY <1>11 DEF Fail, Crash
  <2>3. open' \in [Subs -> [Kinds -> Int]] /\ failed' \in [Subs -> [Kinds -> Int]]
    <3>1. CASE UNCHANGED jobVars
      BY <3>1 DEF Types, jobVars
    <3>2. CASE Fail /\ ~UNCHANGED jobVars
      <4>1. run.sub \in Subs /\ run.kind \in Kinds
        BY <3>2 DEF Fail, Types, Calls
      <4>2. open' = [open EXCEPT ![run.sub][run.kind] = @ - 1]
        BY <3>2 DEF Fail, Done
      <4>3. failed' = [failed EXCEPT ![run.sub][run.kind] = IF @ < MaxJobs THEN @ + 1 ELSE @]
        BY <3>2 DEF Fail
      <4>4. open' \in [Subs -> [Kinds -> Int]]
        BY <4>1, <4>2 DEF Types
      <4>5. failed' \in [Subs -> [Kinds -> Int]]
        BY <4>1, <4>3 DEF Types
      <4> QED
        BY <4>4, <4>5
    <3> QED
      BY <1>11, <3>1, <3>2 DEF Crash
  <2> QED
    BY <2>1, <2>2, <2>3, AbandonLate DEF Types, Calls, Idle, Kinds, rowVars
<1>12. CASE Tick
  <2>1. left' \in [Subs -> Nat]
    BY <1>12 DEF Types, Tick
  <2>2. disabledFor' \in [Subs -> Int]
    BY <1>12 DEF Types, Tick
  <2>3. /\ edit' \in Copies
        /\ edit' = NoEdit \/ edit'.sub \in Subs
    BY <1>12, EditTick, NoEditType
  <2> QED
    BY <1>12, <2>1, <2>2, <2>3 DEF Types, Calls, Tick, Idle, Kinds, jobVars
<1>13. CASE UNCHANGED vars
  BY <1>13 DEF Types, vars, rowVars, jobVars
<1>14. CASE SwitchOff
  BY <1>14 DEF Types, SwitchOff, rowVars, jobVars
<1>15. CASE LateActs
  <2>1. \A k \in Kinds, p \in {"none", "on", "off"} : PeerAfter(k, p) \in {"none", "on", "off"}
    BY DEF PeerAfter, Kinds
  <2>2. peer' \in [Subs -> {"none", "on", "off"}]
    BY <1>15, <2>1 DEF Types, Calls, LateActs
  <2> QED
    BY <1>15, <2>2 DEF Types, Calls, LateActs, Idle, Kinds, rowVars, jobVars
<1> QED
  BY <1>1, <1>2, <1>3, <1>4, <1>5, <1>6, <1>7, <1>8, <1>9, <1>10, <1>11, <1>12, <1>13, <1>14, <1>15
  DEF Next, Admin, Worker, Take
-----------------------------------------------------------------------------
(* The life of a peer: it is made once, and not again after it was removed. *)

\* A row without a peer has never been active, and nobody disables, removes, enables or
\* extends what was never made.
NotMade(s) ==
  ~hasPeer[s] =>
    /\ status[s] \in {"none", "provisioning"} /\ disabledFor[s] = Never /\ ~removed[s]
    /\ open[s]["remove"] = 0 /\ failed[s]["remove"] = 0
    /\ run.sub = s => run.kind = "create"
    /\ late.sub = s => late.kind = "create"
    /\ edit.sub # s

\* A row with a peer is never made another: its create job is through.
Made(s) ==
  hasPeer[s] =>
    /\ status[s] \notin {"none", "provisioning"} /\ open[s]["create"] = 0
    /\ run.sub = s => run.kind # "create"

\* There is one create job at most, and it is there for as long as it runs.
Created(s) ==
  /\ open[s]["create"] \in {0, 1}
  /\ status[s] = "none" => open[s]["create"] = 0
  /\ run.sub = s /\ run.kind = "create" =>
       open[s]["create"] = 1 /\ run.snap \in {"none", "provisioning"}

\* While a create call is late, no tick has passed since the peer was made, and so
\* nothing is being removed.
LateCreate(s) ==
  late.sub = s /\ late.kind = "create" =>
    /\ ~removed[s] /\ disabledFor[s] \in {Never, 0}
    /\ open[s]["remove"] = 0 /\ failed[s]["remove"] = 0
    /\ ~(run.sub = s /\ run.kind = "remove")

\* What was removed has no peer, from the server's answer on.
Gone(s) ==
  /\ removed[s] => hasPeer[s] /\ peer[s] = "none"
  /\ run.sub = s /\ run.kind = "remove" /\ run.phase = "answered" => peer[s] = "none"

Life(s) == NotMade(s) /\ Made(s) /\ Created(s) /\ LateCreate(s) /\ Gone(s)

\* RemovedHasNoPeer follows from LifeInv, which is inductive.
LifeInv == Types /\ \A s \in Subs : Life(s)

\* No subscription has begun its life at first.
LEMMA InitLife == Init => LifeInv
<1> SUFFICES ASSUME Init, NEW s \in Subs PROVE Life(s)
  BY InitTypes DEF LifeInv
<1>1. run.sub # s /\ late.sub # s /\ edit.sub # s
  BY AccessAssumption DEF Init, Idle, NoEdit
<1> QED
  BY <1>1 DEF Init, Life, NotMade, Made, Created, LateCreate, Gone, Kinds

\* A subscription that a step leaves alone, with the calls for it, goes on living.
LEMMA LifeUntouched ==
  ASSUME NEW s \in Subs, Life(s),
         status'[s] = status[s], hasPeer'[s] = hasPeer[s], disabledFor'[s] = disabledFor[s],
         removed'[s] = removed[s], peer'[s] = peer[s], open'[s] = open[s], failed'[s] = failed[s],
         run'.sub = run.sub \/ run'.sub # s, late'.sub = late.sub \/ late'.sub # s,
         edit'.sub = edit.sub \/ edit'.sub # s,
         run'.sub = s => run'.kind = run.kind /\ run'.snap = run.snap /\ run'.phase = run.phase,
         late'.sub = s => late'.kind = late.kind
  PROVE  Life(s)'
BY DEF Life, NotMade, Made, Created, LateCreate, Gone

\* The admin's steps.
LEMMA AdminLife ==
  ASSUME LifeInv, Admin, NEW s \in Subs
  PROVE  Life(s)'
<1>1. Types /\ Life(s)
  BY DEF LifeInv
<1> USE DEF Life, NotMade, Made, Created, LateCreate, Gone, Kinds
<1>2. ASSUME NEW r \in Subs, ApproveNew(r) PROVE Life(s)'
  BY <1>1, <1>2 DEF ApproveNew, Queue, Types
<1>3. ASSUME NEW r \in Subs, ReadToRenew(r) \/ ReadToExtend(r) \/ ReadToCut(r) PROVE Life(s)'
  <2>1. hasPeer[r] /\ edit'.sub = r /\ UNCHANGED <<rowVars, peer, jobVars, run, late>>
    BY <1>1, <1>3, EditRead
  <2> QED
    BY <1>1, <2>1 DEF rowVars, jobVars
<1>5. CASE Flush
  <2>1. edit.sub \in Subs /\ edit'.sub = NoSub /\ NoSub # s
    BY <1>1, <1>5, EditFlush, AccessAssumption DEF NoEdit
  <2>2. /\ run'.sub = run.sub /\ run'.kind = run.kind /\ run'.phase = run.phase /\ run'.snap = run.snap
        /\ late'.sub = late.sub /\ late'.kind = late.kind
    BY <1>1, <1>5, EditFlush, OutdateRun
  <2>3. /\ UNCHANGED <<hasPeer, removed, peer, failed>>
        /\ status'[s] \in {status[s], "active"} /\ disabledFor'[s] \in {disabledFor[s], Never}
        /\ s # edit.sub => status'[s] = status[s] /\ disabledFor'[s] = disabledFor[s]
    BY <1>1, <1>5, EditFlush
  <2>4. open'[s]["create"] = open[s]["create"] /\ open'[s]["remove"] = open[s]["remove"]
    BY <1>1, <1>5, EditFlush DEF Queue, Types
  <2> QED
    BY <1>1, <2>1, <2>2, <2>3, <2>4
<1>6. CASE Drop
  BY <1>1, <1>6, AccessAssumption DEF Drop, NoEdit, rowVars, jobVars
<1>4. ASSUME NEW r \in Subs, NEW k \in Kinds, Retry(r, k) PROVE Life(s)'
  <2>1. UNCHANGED <<rowVars, peer, run, late, edit>>
    BY <1>4 DEF Retry
  <2>2. CASE s # r
    BY <1>1, <1>4, <2>1, <2>2 DEF Retry, Queue, Types, rowVars
  <2>3. CASE s = r
    <3>1. open'[s][k] = open[s][k] + 1 /\ failed'[s][k] = failed[s][k] - 1 /\ failed[s][k] > 0
          /\ \A j \in Kinds : j # k => open'[s][j] = open[s][j] /\ failed'[s][j] = failed[s][j]
      BY <1>1, <1>4, <2>3 DEF Retry, Queue, Types
    <3>2. k = "create" => status[s] = "provisioning" /\ ~(open[s][k] > 0)
      BY <1>4, <2>3 DEF Retry, HasOpenJob
    <3> QED
      BY <1>1, <2>1, <3>1, <3>2 DEF rowVars
  <2> QED
    BY <2>2, <2>3
<1> QED
  BY <1>2, <1>3, <1>4, <1>5, <1>6 DEF Admin

\* The scheduler's steps: a remove job is queued for a row disabled a tick ago at
\* least.
LEMMA SchedulerLife ==
  ASSUME LifeInv, Scheduler, NEW s \in Subs
  PROVE  Life(s)'
<1>1. Types /\ Life(s)
  BY DEF LifeInv
<1>2. UNCHANGED <<rowVars, peer, failed, run, late, edit>>
  BY DEF Scheduler, ScanExpired, CommitScan, Cleanup, jobVars
<1>3. open'[s]["create"] = open[s]["create"]
  BY <1>1 DEF Scheduler, ScanExpired, CommitScan, Cleanup, Types, Kinds, jobVars
<1>4. open'[s]["remove"] = open[s]["remove"] \/ (status[s] = "disabled" /\ disabledFor[s] = Grace)
  BY <1>1 DEF Scheduler, ScanExpired, CommitScan, Cleanup, Types, Kinds, jobVars
<1> QED
  BY <1>1, <1>2, <1>3, <1>4, AccessAssumption
  DEF Life, NotMade, Made, Created, LateCreate, Gone, rowVars, Never

\* Giving up a call leaves a create call late only for a row without a peer.
LEMMA EndLife ==
  ASSUME LifeInv, NEW s \in Subs, Fail \/ Crash
  PROVE  Life(s)'
<1>1. Types /\ Life(s)
  BY DEF LifeInv
<1>2. UNCHANGED <<rowVars, peer, edit>> /\ run'.sub = NoSub /\ NoSub # s
  BY AccessAssumption DEF Fail, Crash, Idle
<1>3. \/ late' = late
      \/ run.phase = "calling" /\ late'.sub = run.sub /\ late'.kind = run.kind
  BY <1>1, AbandonLate DEF Fail, Crash
<1>4. \A k \in Kinds : \/ open'[s][k] = open[s][k] /\ failed'[s][k] = failed[s][k]
                       \/ run.sub = s /\ run.kind = k /\ open'[s][k] = open[s][k] - 1
  <2>1. CASE UNCHANGED jobVars
    BY <2>1 DEF jobVars
  <2>2. CASE Fail /\ ~UNCHANGED jobVars
    <3>1. run.sub \in Subs /\ run.kind \in Kinds
      BY <1>1, <2>2 DEF Fail, Types, Calls
    <3>2. /\ open' = [open EXCEPT ![run.sub][run.kind] = @ - 1]
          /\ failed' = [failed EXCEPT ![run.sub][run.kind] = IF @ < MaxJobs THEN @ + 1 ELSE @]
      BY <2>2 DEF Fail, Done
    <3> QED
      BY <1>1, <3>1, <3>2 DEF Types
  <2> QED
    BY <2>1, <2>2 DEF Crash
<1> QED
  BY <1>1, <1>2, <1>3, <1>4 DEF Life, NotMade, Made, Created, LateCreate, Gone, Kinds, rowVars

\* What a call does to a peer: only a create call makes one, and a remove call
\* leaves none.
LEMMA CallPeer ==
  ASSUME NEW p \in {"none", "on", "off"}, NEW k \in Kinds, k = "enable" => p # "none"
  PROVE  /\ p = "none" /\ k # "create" => PeerAfter(k, p) = "none"
         /\ k = "remove" => PeerAfter(k, p) = "none"
BY DEF PeerAfter, Kinds

\* A late call acts.
LEMMA LateLife ==
  ASSUME LifeInv, LateActs, NEW s \in Subs
  PROVE  Life(s)'
<1>1. Types /\ Life(s)
  BY DEF LifeInv
<1>2. UNCHANGED <<rowVars, jobVars, run, edit>> /\ late'.sub = NoSub /\ NoSub # s
  BY AccessAssumption DEF LateActs, Idle
<1>3. late.sub # s => peer'[s] = peer[s]
  BY <1>1 DEF LateActs, Types
<1>4. late.sub = s /\ late.kind # "create" /\ peer[s] = "none" => peer'[s] = "none"
  <2> SUFFICES ASSUME late.sub = s, late.kind # "create", peer[s] = "none" PROVE peer'[s] = "none"
    OBVIOUS
  <2>1. peer' = [peer EXCEPT ![s] = PeerAfter(late.kind, @)] /\ (late.kind = "enable" => peer[s] # "none")
    BY DEF LateActs
  <2> QED
    BY <1>1, <2>1, CallPeer DEF Types, Calls
<1> QED
  BY <1>1, <1>2, <1>3, <1>4 DEF Life, NotMade, Made, Created, LateCreate, Gone, rowVars, jobVars

\* The worker's steps up to the server's answer.
LEMMA CallLife ==
  ASSUME LifeInv, Take \/ ServerActs \/ SwitchOff, NEW s \in Subs
  PROVE  Life(s)'
<1>1. Types /\ Life(s)
  BY DEF LifeInv
<1> USE DEF Life, NotMade, Made, Created, LateCreate, Gone, rowVars
<1>2. ASSUME NEW r \in Subs, NEW k \in Kinds, Begin(r, k) PROVE Life(s)'
  <2>1. /\ run'.sub = r /\ run'.kind = k /\ run'.phase = "calling" /\ run'.snap = status[r]
        /\ UNCHANGED <<rowVars, peer, jobVars, late, edit>>
    BY <1>2 DEF Begin
  <2>2. open[r][k] > 0 /\ (k = "create" \/ hasPeer[r])
    BY <1>2 DEF Begin, NeedsCall
  <2> QED
    BY <1>1, <2>1, <2>2 DEF jobVars
<1>3. ASSUME NEW r \in Subs, NEW k \in Kinds, Skip(r, k) PROVE Life(s)'
  <2>1. UNCHANGED <<rowVars, peer, failed, run, late, edit>> /\ k # "create" /\ open[r][k] > 0
    BY <1>3 DEF Skip, NeedsCall
  <2>2. /\ open'[s]["create"] = open[s]["create"]
        /\ open'[s]["remove"] = open[s]["remove"] \/ open[s]["remove"] > 0
    BY <1>1, <1>3, <2>1 DEF Skip, Done, Types, Kinds
  <2> QED
    BY <1>1, <2>1, <2>2
<1>4. CASE ServerActs
  <2>1. /\ run'.sub = run.sub /\ run'.kind = run.kind /\ run'.snap = run.snap /\ run'.phase = "answered"
        /\ UNCHANGED <<rowVars, jobVars, late, edit>>
    BY <1>1, <1>4 DEF ServerActs, Types, Calls
  <2>2. run.sub # s => peer'[s] = peer[s]
    BY <1>1, <1>4 DEF ServerActs, Types
  <2>3. run.sub = s => /\ run.kind # "create" /\ peer[s] = "none" => peer'[s] = "none"
                       /\ run.kind = "remove" => peer'[s] = "none"
    <3> SUFFICES ASSUME run.sub = s
                 PROVE  /\ run.kind # "create" /\ peer[s] = "none" => peer'[s] = "none"
                        /\ run.kind = "remove" => peer'[s] = "none"
      OBVIOUS
    <3>1. run.kind \in Kinds /\ peer[s] \in {"none", "on", "off"}
      BY <1>1 DEF Types, Calls
    <3>2. peer'[s] = PeerAfter(run.kind, peer[s]) /\ (run.kind = "enable" => peer[s] # "none")
      BY <1>1, <1>4 DEF ServerActs, Types
    <3> HIDE DEF Life, NotMade, Made, Created, LateCreate, Gone, rowVars
    <3> QED
      BY <3>1, <3>2, CallPeer
  <2> QED
    BY <1>1, <2>1, <2>2, <2>3 DEF jobVars
<1>5. CASE SwitchOff
  BY <1>1, <1>5 DEF SwitchOff, Types, jobVars
<1> QED
  BY <1>2, <1>3, <1>4, <1>5 DEF Take

\* The worker's commit.
LEMMA CommitLife ==
  ASSUME LifeInv, Commit, NEW s \in Subs
  PROVE  Life(s)'
<1>1. Types /\ Life(s)
  BY DEF LifeInv
<1>2. UNCHANGED <<peer, failed, late>> /\ run'.sub = NoSub /\ NoSub # s /\ edit'.sub = edit.sub
  BY <1>1, EditOvertaken, AccessAssumption DEF Commit, Idle
<1>3. run.phase = "answered" /\ run.sub \in Subs /\ run.kind \in Kinds
  BY <1>1 DEF Commit, Types, Calls
<1> USE DEF Life, NotMade, Made, Created, LateCreate, Gone
<1>4. CASE run.sub # s
  <2>1. /\ status'[s] = status[s] /\ hasPeer'[s] = hasPeer[s] /\ disabledFor'[s] = disabledFor[s]
        /\ removed'[s] = removed[s] /\ open'[s] = open[s]
    BY <1>1, <1>4 DEF Commit, MarkActive, MarkDisabled, MarkRemoved, Write, Done, Types
  <2> QED
    BY <1>1, <1>2, <1>4, <2>1
<1>5. CASE run.sub = s
  <2>1. \A k \in Kinds : open'[s][k] = IF k = run.kind THEN open[s][k] - 1 ELSE open[s][k]
    BY <1>1, <1>3, <1>5 DEF Commit, Done, Types
  <2>2. CASE run.kind = "create" /\ MarkActive(s)
    <3>1. status'[s] = "active" /\ hasPeer'[s] /\ disabledFor'[s] = disabledFor[s] /\ removed'[s] = removed[s]
      BY <1>1, <1>5, <2>2 DEF MarkActive, Write, Types
    <3> QED
      BY <1>1, <1>2, <1>5, <2>1, <2>2, <3>1 DEF Kinds
  <2>3. CASE run.kind = "disable" /\ MarkDisabled(s)
    <3>1. status'[s] \in {status[s], "disabled"} /\ hasPeer'[s] = hasPeer[s] /\ disabledFor'[s] = 0
          /\ removed'[s] = removed[s]
      BY <1>1, <1>5, <2>3 DEF MarkDisabled, Write, Types
    <3> QED
      BY <1>1, <1>2, <1>5, <2>1, <2>3, <3>1 DEF Kinds
  <2>4. CASE run.kind = "remove" /\ MarkRemoved(s)
    <3>1. status'[s] \in {status[s], "expired"} /\ hasPeer'[s] = hasPeer[s]
          /\ disabledFor'[s] = disabledFor[s] /\ removed'[s]
      BY <1>1, <1>5, <2>4 DEF MarkRemoved, Write, Types
    <3> QED
      BY <1>1, <1>2, <1>3, <1>5, <2>1, <2>4, <3>1 DEF Kinds
  <2>5. CASE run.kind = "enable" /\ UNCHANGED <<status, hasPeer, disabledFor, removed>>
    BY <1>1, <1>2, <1>5, <2>1, <2>5 DEF Kinds
  <2> QED
    BY <1>5, <2>2, <2>3, <2>4, <2>5 DEF Commit
<1> QED
  BY <1>4, <1>5

\* Every step keeps LifeInv.
LEMMA NextLife == LifeInv /\ [Next]_vars => LifeInv'
<1> SUFFICES ASSUME LifeInv, [Next]_vars, NEW s \in Subs PROVE Life(s)'
  BY NextTypes DEF LifeInv
<1>1. Types /\ Life(s)
  BY DEF LifeInv
<1>2. CASE Tick
  <2>1. /\ UNCHANGED <<status, hasPeer, removed, peer, jobVars, run>> /\ late'.sub = NoSub /\ NoSub # s
        /\ disabledFor[s] = Never => disabledFor'[s] = Never
        /\ edit'.sub \in {edit.sub, NoSub}
    BY <1>1, <1>2, EditTick, AccessAssumption DEF Tick, Idle, NoEdit, Types, Never
  <2> QED
    BY <1>1, <2>1 DEF Life, NotMade, Made, Created, LateCreate, Gone, jobVars
<1>3. CASE UNCHANGED vars
  BY <1>1, <1>3, LifeUntouched DEF vars, rowVars, jobVars
<1> QED
  BY <1>2, <1>3, AdminLife, SchedulerLife, CallLife, CommitLife, EndLife, LateLife DEF Next, Worker

\* A peer that was removed stays removed, whatever call comes late.
THEOREM RemovedForGood == Spec => []RemovedHasNoPeer
<1>1. LifeInv => RemovedHasNoPeer
  BY DEF LifeInv, Life, Gone, RemovedHasNoPeer
<1> QED
  BY <1>1, InitLife, NextLife, PTL DEF Spec
-----------------------------------------------------------------------------
(* What an approval or /extend writes from a copy is right unless the worker has written *)
(* the row since it was read.                                                            *)

\* A handler that leaves the status alone, though it gives time or clears a date, has read
\* an active row; and the row is that still if the worker has not been there.
EditFits ==
  edit.sub \in Subs /\ ~edit.changed /\ "status" \notin edit.sets
    /\ (edit.left > 0 \/ "disabled_at" \in edit.sets) => status[edit.sub] = "active"

\* LossOnlyInEdit follows from EditInv, which is inductive.
EditInv == LifeInv /\ EditFits

\* Nobody has read anything at first.
LEMMA InitEdit == Init => EditInv
BY InitLife, AccessAssumption DEF Init, EditInv, EditFits, NoEdit

\* Every step keeps EditInv: only the worker's commit takes a made peer's row out of active.
LEMMA NextEdit == EditInv /\ [Next]_vars => EditInv'
<1> SUFFICES ASSUME EditInv, [Next]_vars PROVE EditFits'
  BY NextLife DEF EditInv
<1>0. Types /\ EditFits /\ NoSub \notin Subs /\ \A s \in Subs : Life(s)
  BY AccessAssumption DEF EditInv, LifeInv
<1>1. ASSUME edit' = NoEdit PROVE EditFits'
  BY <1>0, <1>1 DEF EditFits, NoEdit
<1>2. ASSUME UNCHANGED edit, edit.sub \in Subs => status'[edit.sub] = status[edit.sub] PROVE EditFits'
  BY <1>0, <1>2 DEF EditFits
<1>3. ASSUME NEW s \in Subs, ApproveNew(s) PROVE EditFits'
  <2>1. UNCHANGED edit /\ status[s] = "none" /\ status' = [status EXCEPT ![s] = "provisioning"]
    BY <1>3 DEF ApproveNew
  <2>2. edit.sub \in Subs => edit.sub # s
    BY <1>0, <2>1 DEF Life, NotMade, Made
  <2> QED
    BY <1>0, <1>2, <2>1, <2>2 DEF Types
<1>4. ASSUME NEW s \in Subs, ReadToRenew(s) \/ ReadToExtend(s) \/ ReadToCut(s) PROVE EditFits'
  <2>1. /\ hasPeer[s] /\ edit'.sub = s /\ status' = status
        /\ "status" \notin edit'.sets /\ (edit'.left > 0 \/ "disabled_at" \in edit'.sets) =>
             status[s] \notin {"disabled", "expired"}
    BY <1>0, <1>4, EditRead DEF rowVars
  <2>2. status[s] \in {"active", "disabled", "expired"}
    BY <1>0, <2>1 DEF Life, Made, Types
  <2> QED
    BY <2>1, <2>2 DEF EditFits
<1>5. CASE Flush \/ Drop
  BY <1>1, <1>5 DEF Flush, Drop
<1>6. CASE Commit
  <2>1. /\ edit'.sub = edit.sub /\ edit'.left = edit.left /\ edit'.sets = edit.sets
        /\ edit'.changed = (edit.changed \/ edit.sub = run.sub)
    BY <1>0, <1>6, EditOvertaken
  <2>2. \A r \in Subs : r # run.sub => status'[r] = status[r]
    BY <1>0, <1>6 DEF Commit, MarkActive, MarkDisabled, MarkRemoved, Write, Types
  <2> QED
    BY <1>0, <2>1, <2>2 DEF EditFits
<1>7. CASE Tick
  <2>1. edit' # NoEdit =>
          /\ edit'.sub = edit.sub /\ edit'.sets = edit.sets /\ edit'.changed = edit.changed
          /\ edit.left > 0
    BY <1>0, <1>7, EditTick DEF Types, Copies
  <2> QED
    BY <1>0, <1>1, <1>7, <2>1 DEF EditFits, Tick
<1>8. CASE \/ \E s \in Subs, k \in Kinds : Retry(s, k)
           \/ Scheduler \/ Take \/ ServerActs \/ SwitchOff \/ Fail \/ Crash \/ LateActs \/ UNCHANGED vars
  BY <1>2, <1>8 DEF Retry, Scheduler, ScanExpired, CommitScan, Cleanup, Take, Begin, Skip, ServerActs,
                    SwitchOff, Fail, Crash, LateActs, vars, rowVars
<1> QED
  BY <1>3, <1>4, <1>5, <1>6, <1>7, <1>8 DEF Next, Admin, Worker

\* A step that leaves a disabled row without a date, or gives time to a row that is not
\* active, is the flush of a copy that the worker has outdated.
LEMMA NextLossInEdit ==
  ASSUME EditInv, Next
  PROVE  LossInEdit
<1> SUFFICES ASSUME NEW s \in Subs,
                    \/ left'[s] > left[s] /\ status'[s] \notin {"provisioning", "active"}
                    \/ /\ status'[s] = "disabled" /\ disabledFor'[s] = Never
                       /\ status[s] # "disabled" \/ disabledFor[s] # Never
             PROVE  edit.sub = s /\ edit.changed
  BY DEF LossInEdit
<1>0. Types /\ EditFits /\ left[s] \in Nat
  BY DEF EditInv, LifeInv, Types
<1>1. ASSUME UNCHANGED <<status, left, disabledFor>> PROVE FALSE
  BY <1>0, <1>1
<1>2. ASSUME NEW r \in Subs, ApproveNew(r) PROVE FALSE
  BY <1>0, <1>2 DEF ApproveNew, Types
<1>3. CASE Flush
  <2>1. edit.sub = s
    BY <1>0, <1>3, EditFlush
  <2>2. "status" \notin edit.sets /\ (edit.left > 0 \/ "disabled_at" \in edit.sets)
    <3>1. "status" \notin edit.sets
      BY <1>0, <1>3, <2>1, EditFlush
    <3>2. CASE left'[s] > left[s]
      BY <1>0, <1>3, <2>1, <3>1, <3>2, EditFlush DEF Types, Copies
    <3>3. CASE disabledFor'[s] = Never /\ disabledFor[s] # Never
      BY <1>0, <1>3, <2>1, <3>1, <3>3, EditFlush
    <3> QED
      BY <1>0, <1>3, <2>1, <3>1, <3>2, <3>3, EditFlush
  <2>3. status'[s] = status[s] /\ status'[s] # "active"
    BY <1>0, <1>3, <2>1, <2>2, EditFlush
  <2> QED
    BY <1>0, <2>1, <2>2, <2>3 DEF EditFits
<1>4. CASE Commit
  BY <1>0, <1>4 DEF Commit, MarkActive, MarkDisabled, MarkRemoved, Write, Types, Never
<1>5. CASE Tick
  <2>1. status' = status /\ ~(left'[s] > left[s])
    BY <1>0, <1>5 DEF Tick
  <2>2. disabledFor[s] # Never => disabledFor'[s] # Never
    BY <1>0, <1>5, AccessAssumption DEF Tick, Types, Never
  <2> QED
    BY <2>1, <2>2
<1>6. CASE \/ \E r \in Subs : \/ ReadToRenew(r) \/ ReadToExtend(r) \/ ReadToCut(r)
                            \/ \E k \in Kinds : Retry(r, k)
           \/ Drop \/ Scheduler \/ Take \/ ServerActs \/ SwitchOff \/ Fail \/ Crash \/ LateActs
  <2>1. UNCHANGED <<status, left, disabledFor>>
    BY <1>0, <1>6, EditRead
    DEF Retry, Drop, Scheduler, ScanExpired, CommitScan, Cleanup, Take, Begin, Skip, ServerActs,
        SwitchOff, Fail, Crash, LateActs, rowVars
  <2> QED
    BY <1>1, <2>1
<1> QED
  BY <1>2, <1>3, <1>4, <1>5, <1>6 DEF Next, Admin, Worker

\* However handlers and the worker interleave, time is given to a row that is not active, and
\* a disabled row is left without a date, only where the worker wrote between a handler's
\* read and its flush.
THEOREM EditsAreSafe == Spec => LossOnlyInEdit
<1>1. EditInv /\ [Next]_vars => [LossInEdit]_vars
  BY NextLossInEdit
<1>2. Spec => [][LossInEdit]_vars
  BY <1>1, InitEdit, NextEdit, PTL DEF Spec
<1> QED
  BY <1>2 DEF LossOnlyInEdit

\* No handler has read what a call is in progress for.
Apart == edit.sub \in Subs => run.sub # edit.sub /\ ~edit.changed

\* So it stays, if neither begins while the other is there.
LEMMA NextApart ==
  ASSUME ~ChangeInCall, Types
  PROVE  Apart /\ [Next]_vars => Apart'
<1> SUFFICES ASSUME Apart, [Next]_vars PROVE Apart'
  OBVIOUS
<1>0. NoSub \notin Subs /\ NoEdit.sub = NoSub /\ Idle.sub = NoSub
  BY AccessAssumption DEF NoEdit, Idle
<1>1. ASSUME UNCHANGED edit, run'.sub \in {run.sub, NoSub} PROVE Apart'
  BY <1>0, <1>1 DEF Apart
<1>2. ASSUME NEW s \in Subs, ReadToRenew(s) \/ ReadToExtend(s) \/ ReadToCut(s) PROVE Apart'
  <2>1. run.sub # s /\ edit'.sub = s /\ edit'.changed = FALSE /\ run' = run
    BY <1>2, EditRead
  <2> QED
    BY <2>1 DEF Apart
<1>3. CASE Flush \/ Drop
  BY <1>0, <1>3 DEF Flush, Drop, Apart
<1>4. ASSUME NEW s \in Subs, NEW k \in Kinds, Begin(s, k) PROVE Apart'
  <2>1. edit.sub # s /\ run'.sub = s /\ UNCHANGED edit
    BY <1>4 DEF Begin
  <2> QED
    BY <2>1 DEF Apart
<1>5. CASE Commit
  <2>1. edit'.sub = edit.sub /\ edit'.changed = (edit.changed \/ edit.sub = run.sub) /\ run' = Idle
    BY <1>5, EditOvertaken DEF Commit
  <2> QED
    BY <1>0, <2>1 DEF Apart
<1>6. CASE Tick
  <2>1. run' = run /\ (edit' = NoEdit \/ (edit'.sub = edit.sub /\ edit'.changed = edit.changed))
    BY <1>6, EditTick DEF Tick
  <2> QED
    BY <1>0, <2>1 DEF Apart
<1>7. CASE ServerActs
  <2>1. UNCHANGED edit /\ run'.sub = run.sub
    BY <1>7 DEF ServerActs, Types, Calls
  <2> QED
    BY <1>1, <2>1
<1>8. CASE \/ \E s \in Subs : ApproveNew(s) \/ \E k \in Kinds : Retry(s, k) \/ Skip(s, k)
           \/ Scheduler \/ SwitchOff \/ Fail \/ Crash \/ LateActs \/ UNCHANGED vars
  BY <1>0, <1>1, <1>8 DEF ApproveNew, Retry, Skip, Scheduler, ScanExpired, CommitScan, Cleanup,
                    SwitchOff, Fail, Crash, LateActs, vars
<1> QED
  BY <1>2, <1>3, <1>4, <1>5, <1>6, <1>7, <1>8 DEF Next, Admin, Worker, Take

\* Where handlers and calls stay apart, a row that is given time is active ...
THEOREM RenewalsShow ==
  ASSUME ~ChangeInCall
  PROVE  Spec => RenewalShows
<1> DEFINE Shows == \A s \in Subs : left'[s] > left[s] => status'[s] \in {"provisioning", "active"}
<1>1. EditInv /\ Apart /\ [Next]_vars => [Shows]_vars
  BY NextLossInEdit DEF LossInEdit, Apart
<1>2. EditInv /\ Apart /\ [Next]_vars => Apart'
  BY NextApart DEF EditInv, LifeInv
<1>3. Init => Apart
  BY AccessAssumption DEF Init, Apart, NoEdit
<1>4. Spec => [][Shows]_vars
  BY <1>1, <1>2, <1>3, InitEdit, NextEdit, PTL DEF Spec
<1> QED
  BY <1>4 DEF RenewalShows

\* ... and cleanup_removed_peers never loses sight of a disabled row.
THEOREM DisabledRowsAreDated ==
  ASSUME ~ChangeInCall
  PROVE  Spec => []DisabledIsDated
<1>1. EditInv /\ Apart /\ DisabledIsDated /\ [Next]_vars => DisabledIsDated'
  <2> SUFFICES ASSUME EditInv, Apart, DisabledIsDated, [Next]_vars, NEW s \in Subs, status'[s] = "disabled"
               PROVE  disabledFor'[s] # Never
    BY DEF DisabledIsDated
  <2>1. CASE Next
    BY <2>1, NextLossInEdit DEF LossInEdit, Apart, DisabledIsDated
  <2>2. CASE UNCHANGED vars
    BY <2>2 DEF DisabledIsDated, vars, rowVars
  <2> QED
    BY <2>1, <2>2
<1>2. EditInv /\ Apart /\ [Next]_vars => Apart'
  BY NextApart DEF EditInv, LifeInv
<1>3. Init => Apart /\ DisabledIsDated
  BY AccessAssumption DEF Init, Apart, DisabledIsDated, NoEdit
<1> QED
  BY <1>1, <1>2, <1>3, InitEdit, NextEdit, PTL DEF Spec
-----------------------------------------------------------------------------
(* A renewal is undone only if it was made while a call was in progress. *)

\* CallsUnpaid is inductive with LifeInv: a job that calls the server to cut a
\* peer read an unpaid row, a change of the row sets the flag, time alone pays for
\* nothing, and no create job makes the row active while such a call is late.
CutInv == LifeInv /\ CallsUnpaid

\* Nothing is called at first.
LEMMA InitCutInv == Init => CutInv
BY InitLife DEF Init, CutInv, CallsUnpaid, Idle

\* An admin's change either concerns another subscription or sets the flag.
LEMMA ChangeKeepsCallsUnpaid ==
  ASSUME CutInv, NEW s \in Subs, Outdate(s),
         \A r \in Subs : r # s => status'[r] = status[r] /\ left'[r] = left[r]
  PROVE  CallsUnpaid'
<1>1. ASSUME NEW c \in {run, late}, NEW d \in {run', late'},
             d.kind = c.kind, d.sub = c.sub, d.changed = (c.changed \/ c.sub = s)
      PROVE  d.kind \in {"disable", "remove"} /\ ~d.changed => ~Paid(d.sub)'
  <2> SUFFICES ASSUME c.kind \in {"disable", "remove"}, ~c.changed, c.sub # s
               PROVE  ~Paid(d.sub)'
    BY <1>1
  <2>1. c.sub \in Subs
    BY DEF CutInv, LifeInv, Types
  <2>2. ~Paid(c.sub)
    BY DEF CutInv, CallsUnpaid
  <2> QED
    BY <1>1, <2>1, <2>2 DEF Paid, Expired
<1>2. run'.kind = run.kind /\ run'.sub = run.sub /\ run'.changed = (run.changed \/ run.sub = s)
  BY OutdateRun DEF CutInv, LifeInv
<1>3. late'.kind = late.kind /\ late'.sub = late.sub /\ late'.changed = (late.changed \/ late.sub = s)
  BY OutdateRun DEF CutInv, LifeInv
<1> QED
  BY <1>1, <1>2, <1>3 DEF CallsUnpaid

\* Every step keeps CutInv.
LEMMA NextCutInv == CutInv /\ [Next]_vars => CutInv'
<1> SUFFICES ASSUME CutInv, [Next]_vars PROVE CallsUnpaid'
  BY NextLife DEF CutInv
<1>0. ASSUME NEW c \in {run, late}, c.kind \in {"disable", "remove"}, ~c.changed
      PROVE  c.sub \in Subs /\ ~Paid(c.sub)
  BY <1>0 DEF CutInv, LifeInv, Types, CallsUnpaid
<1>1. ASSUME NEW s \in Subs, ApproveNew(s) PROVE CallsUnpaid'
  <2>1. run' = run /\ late' = late
        /\ status' = [status EXCEPT ![s] = "provisioning"] /\ left' = [left EXCEPT ![s] = Period]
    BY <1>1 DEF ApproveNew
  <2>2. ASSUME NEW r \in Subs, ~Paid(r) PROVE ~Paid(r)'
    BY <2>1, <2>2 DEF CutInv, LifeInv, Types, Paid, Expired
  <2> QED
    BY <1>0, <2>1, <2>2 DEF CallsUnpaid
<1>2. CASE Flush
  <2>1. /\ edit.sub \in Subs /\ Outdate(edit.sub)
        /\ \A r \in Subs : r # edit.sub => status'[r] = status[r] /\ left'[r] = left[r]
    BY <1>2, EditFlush DEF CutInv, LifeInv
  <2> QED
    BY <2>1, ChangeKeepsCallsUnpaid
<1>3. ASSUME UNCHANGED <<status, left, run, late>> PROVE CallsUnpaid'
  BY <1>3 DEF CutInv, CallsUnpaid, Paid, Expired
<1>4. CASE \/ \E s \in Subs : \/ ReadToRenew(s) \/ ReadToExtend(s) \/ ReadToCut(s)
                            \/ \E k \in Kinds : Retry(s, k) \/ Skip(s, k)
           \/ Drop \/ Scheduler \/ SwitchOff \/ UNCHANGED vars
  BY <1>3, <1>4 DEF ReadToRenew, ReadToExtend, ReadToCut, Read, Drop, Retry, Skip, Scheduler, ScanExpired, CommitScan, Cleanup, SwitchOff, rowVars, vars
<1>5. ASSUME NEW s \in Subs, NEW k \in Kinds, Begin(s, k) PROVE CallsUnpaid'
  <2>1. run'.kind = k /\ run'.sub = s /\ late' = late /\ status' = status /\ left' = left
    BY <1>5 DEF Begin, rowVars
  <2>2. k \in {"disable", "remove"} => ~Paid(s)
    BY <1>5 DEF Begin, NeedsCall, Renewed
  <2> QED
    BY <1>0, <2>1, <2>2 DEF CallsUnpaid, Paid, Expired
<1>6. CASE ServerActs
  <2>1. run'.kind = run.kind /\ run'.sub = run.sub /\ run'.changed = run.changed
        /\ late' = late /\ status' = status /\ left' = left
    BY <1>6 DEF ServerActs, rowVars, CutInv, LifeInv, Types, Calls
  <2> QED
    BY <1>0, <2>1 DEF CallsUnpaid, Paid, Expired
<1>7. CASE Commit
  <2>1. run'.kind = "create" /\ late' = late /\ left' = left
    BY <1>7 DEF Commit, Idle
  <2>2. ASSUME late.sub \in Subs, late.kind \in {"disable", "remove"}, ~Paid(late.sub)
        PROVE  ~Paid(late.sub)'
    <3> DEFINE r == late.sub
    <3>1. Types /\ Life(r)
      BY <2>2 DEF CutInv, LifeInv
    <3>2. CASE run.sub = r /\ run.kind = "create"
      BY <2>2, <3>1, <3>2 DEF Life, NotMade, Made
    <3>3. CASE ~(run.sub = r /\ run.kind = "create")
      <4>1. \/ status' = status
            \/ status' = [status EXCEPT ![run.sub] = "disabled"]
            \/ status' = [status EXCEPT ![run.sub] = "expired"]
            \/ run.kind = "create" /\ status' = [status EXCEPT ![run.sub] = "active"]
        BY <1>7 DEF Commit, MarkActive, MarkDisabled, MarkRemoved, Write
      <4>2. status'[r] = "active" => status[r] = "active"
        BY <2>2, <3>1, <3>3, <4>1 DEF Types
      <4> QED
        BY <2>1, <2>2, <4>2 DEF Paid, Expired
    <3> QED
      BY <3>2, <3>3
  <2> QED
    BY <1>0, <2>1, <2>2 DEF CallsUnpaid
<1>8. CASE Fail \/ Crash
  <2>1. run'.kind = "create" /\ status' = status /\ left' = left /\ Abandon
    BY <1>8 DEF Fail, Crash, Idle, rowVars
  <2>2. \/ late' = late
        \/ late'.sub = run.sub /\ late'.kind = run.kind /\ late'.changed = run.changed
    BY <2>1, AbandonLate DEF CutInv, LifeInv
  <2> QED
    BY <1>0, <2>1, <2>2 DEF CallsUnpaid, Paid, Expired
<1>9. CASE LateActs
  <2>1. late'.kind = "create" /\ run' = run /\ status' = status /\ left' = left
    BY <1>9 DEF LateActs, Idle, rowVars
  <2> QED
    BY <1>0, <2>1 DEF CallsUnpaid, Paid, Expired
<1>10. CASE Tick
  <2>1. run' = run /\ late'.kind = "create" /\ status' = status
    BY <1>10 DEF Tick, Idle
  <2>2. ASSUME NEW r \in Subs, ~Paid(r) PROVE ~Paid(r)'
    BY <1>10, <2>2 DEF Tick, Paid, Expired
  <2> QED
    BY <1>0, <2>1, <2>2 DEF CallsUnpaid
<1> QED
  BY <1>1, <1>2, <1>4, <1>5, <1>6, <1>7, <1>8, <1>9, <1>10 DEF Next, Admin, Worker, Take

\* Whenever the worker asks the server to cut a peer, the row is unpaid or has
\* been changed since the worker read it.
THEOREM CallsAreUnpaid == Spec => []CallsUnpaid
<1>1. CutInv => CallsUnpaid
  BY DEF CutInv
<1> QED
  BY <1>1, InitCutInv, NextCutInv, PTL DEF Spec

\* A step that takes a paid subscription out of service ends or performs a call
\* that was in progress when the row was changed.
LEMMA NextLossInCall ==
  ASSUME CutInv, Next
  PROVE  LossInCall
<1> SUFFICES ASSUME NEW s \in Subs, Paid(s),
                    status'[s] # "active" \/ (peer[s] = "on" /\ peer'[s] # "on")
             PROVE  \E c \in {run, late} : c.sub = s /\ c.changed
  BY DEF LossInCall
<1>1. status[s] = "active" /\ Types
  BY DEF Paid, CutInv, LifeInv
<1>2. ASSUME NEW c \in {run, late}, c.sub = s, c.kind \in {"disable", "remove"}
      PROVE  c.changed
  BY <1>2 DEF CutInv, CallsUnpaid
<1>3. CASE Admin
  <2>1. CASE Flush
    BY <1>1, <2>1, EditFlush
  <2> QED
    BY <1>1, <1>3, <2>1
    DEF Admin, ApproveNew, ReadToRenew, ReadToExtend, ReadToCut, Read, Drop, Retry, rowVars, Types
<1>4. CASE Scheduler \/ Take \/ Fail \/ Crash \/ Tick
  BY <1>1, <1>4 DEF Scheduler, ScanExpired, CommitScan, Cleanup, Take, Begin, Skip, Fail, Crash, Tick, rowVars
<1>5. CASE ServerActs
  <2>1. status' = status /\ peer' = [peer EXCEPT ![run.sub] = PeerAfter(run.kind, @)]
    BY <1>5 DEF ServerActs, rowVars
  <2>2. run.sub = s /\ run.kind \in {"disable", "remove"}
    BY <1>1, <2>1 DEF Types, Calls, PeerAfter, Kinds
  <2> QED
    BY <1>2, <2>2
<1>6. CASE LateActs
  <2>1. status' = status
    BY <1>6 DEF LateActs, rowVars
  <2>2. late.sub = s /\ late.kind \in {"disable", "remove"}
    BY <1>1, <1>6, <2>1 DEF LateActs, Types, Calls, PeerAfter, Kinds
  <2> QED
    BY <1>2, <2>2
<1>7. CASE Commit
  <2>1. peer' = peer
    BY <1>7 DEF Commit
  <2>2. run.sub = s /\ run.kind \in {"disable", "remove"}
    BY <1>1, <1>7, <2>1 DEF Commit, MarkActive, MarkDisabled, MarkRemoved, Write, Types
  <2> QED
    BY <1>2, <2>2
<1>8. CASE SwitchOff
  BY <1>1, <1>2, <1>8 DEF SwitchOff, rowVars, Types
<1> QED
  BY <1>3, <1>4, <1>5, <1>6, <1>7, <1>8 DEF Next, Worker

\* However crashes, lost answers, retries and changes interleave, a renewal is
\* undone only by a call that was decided on before it was made.
THEOREM RenewalsAreSafe == Spec => LossOnlyInCall
<1>1. CutInv /\ [Next]_vars => [LossInCall]_vars
  BY NextLossInCall
<1>2. Spec => [][LossInCall]_vars
  BY <1>1, InitCutInv, NextCutInv, PTL DEF Spec
<1> QED
  BY <1>2 DEF LossOnlyInCall

-----------------------------------------------------------------------------
(* The bounds: of the time, and of the jobs. *)

Within ==
  /\ left \in [Subs -> 0 .. (MaxLeft + Period)]
  /\ disabledFor \in [Subs -> {Never} \union 0 .. Grace]
  /\ open \in [Subs -> [Kinds -> 0 .. MaxJobs]]
  /\ failed \in [Subs -> [Kinds -> 0 .. MaxJobs]]
  /\ edit.left \in 0 .. MaxLeft

\* Nobody but the worker closes a job, and not before it is through with it.
RunIsOpen == run.phase # "idle" => open[run.sub][run.kind] > 0

\* TypeOK follows from BoundInv, which is inductive: a job is queued where none is
\* open or where there is room, and only one that is open is closed.
BoundInv == LifeInv /\ Within /\ RunIsOpen

\* Nothing is queued at first.
LEMMA InitBound == Init => BoundInv
BY InitLife, AccessAssumption DEF Init, BoundInv, Within, RunIsOpen, Idle, NoEdit, Never, Kinds

\* One more job of a kind that there was room for.
LEMMA QueueBound ==
  ASSUME BoundInv, NEW s \in Subs, NEW k \in Kinds, Queue(s, k), open[s][k] < MaxJobs
  PROVE  /\ open' \in [Subs -> [Kinds -> 0 .. MaxJobs]]
         /\ \A r \in Subs, j \in Kinds : open'[r][j] >= open[r][j]
<1>1. open \in [Subs -> [Kinds -> 0 .. MaxJobs]] /\ MaxJobs \in Nat
  BY AccessAssumption DEF BoundInv, Within
<1>2. open[s][k] \in 0 .. MaxJobs
  BY <1>1
<1>3. open[s][k] + 1 \in 0 .. MaxJobs
  BY <1>1, <1>2
<1>4. open' = [open EXCEPT ![s] = [open[s] EXCEPT ![k] = open[s][k] + 1]]
  BY DEF Queue
<1>5. [open[s] EXCEPT ![k] = open[s][k] + 1] \in [Kinds -> 0 .. MaxJobs]
  BY <1>1, <1>3
<1> QED
  BY <1>1, <1>2, <1>4, <1>5

\* One job less of a kind that was open.
LEMMA DoneBound ==
  ASSUME BoundInv, NEW s \in Subs, NEW k \in Kinds, Done(s, k), open[s][k] > 0
  PROVE  open' \in [Subs -> [Kinds -> 0 .. MaxJobs]]
<1>1. open \in [Subs -> [Kinds -> 0 .. MaxJobs]] /\ MaxJobs \in Nat
  BY AccessAssumption DEF BoundInv, Within
<1>2. open[s][k] - 1 \in 0 .. MaxJobs
  BY <1>1
<1>3. open' = [open EXCEPT ![s] = [open[s] EXCEPT ![k] = open[s][k] - 1]]
  BY DEF Done
<1> QED
  BY <1>1, <1>2, <1>3

\* The admin's steps.
LEMMA AdminBound ==
  ASSUME BoundInv, Admin
  PROVE  Within' /\ RunIsOpen'
<1> USE AccessAssumption
<1>0. Types /\ Within /\ RunIsOpen /\ \A s \in Subs : Life(s)
  BY DEF BoundInv, LifeInv
<1>1. ASSUME \A s \in Subs, k \in Kinds : open'[s][k] >= open[s][k],
             open' \in [Subs -> [Kinds -> 0 .. MaxJobs]],
             run'.phase = run.phase, run'.sub = run.sub, run'.kind = run.kind
      PROVE  RunIsOpen'
  <2> SUFFICES ASSUME run.phase # "idle" PROVE open'[run.sub][run.kind] > 0
    BY <1>1 DEF RunIsOpen
  <2>1. run.sub \in Subs /\ run.kind \in Kinds /\ open[run.sub][run.kind] > 0
    BY <1>0 DEF Types, Calls, RunIsOpen
  <2>2. open'[run.sub][run.kind] >= open[run.sub][run.kind]
    BY <1>1, <2>1
  <2>3. open[run.sub][run.kind] \in Int /\ open'[run.sub][run.kind] \in Int
    BY <1>0, <1>1, <2>1 DEF Within
  <2> QED
    BY <2>1, <2>2, <2>3
<1>2. UNCHANGED open => /\ open' \in [Subs -> [Kinds -> 0 .. MaxJobs]]
                        /\ \A s \in Subs, k \in Kinds : open'[s][k] >= open[s][k]
  BY <1>0 DEF Within
<1>3. ASSUME NEW s \in Subs, ApproveNew(s) PROVE Within' /\ RunIsOpen'
  <2>1. open[s]["create"] = 0 /\ Queue(s, "create") /\ UNCHANGED <<disabledFor, failed, run, edit>>
    BY <1>0, <1>3 DEF ApproveNew, Life, Created
  <2>2. /\ open' \in [Subs -> [Kinds -> 0 .. MaxJobs]]
        /\ \A r \in Subs, k \in Kinds : open'[r][k] >= open[r][k]
    BY <2>1, QueueBound DEF Kinds
  <2>3. left' \in [Subs -> 0 .. (MaxLeft + Period)]
    BY <1>0, <1>3 DEF ApproveNew, Within
  <2> QED
    BY <1>0, <1>1, <2>1, <2>2, <2>3 DEF Within
<1>4. ASSUME NEW s \in Subs, ReadToRenew(s) \/ ReadToExtend(s) \/ ReadToCut(s) PROVE Within' /\ RunIsOpen'
  <2>1. edit'.left \in 0 .. MaxLeft /\ UNCHANGED <<left, disabledFor, open, failed, run>>
    BY <1>0, <1>4, EditRead DEF rowVars, jobVars
  <2> QED
    BY <1>0, <2>1 DEF Within, RunIsOpen
<1>5. CASE Flush
  <2>1. edit.sub \in Subs /\ Outdate(edit.sub) /\ UNCHANGED failed /\ edit'.left = 0 /\ NoEdit.left = 0
    BY <1>0, <1>5, EditFlush DEF NoEdit
  <2>2. /\ open' \in [Subs -> [Kinds -> 0 .. MaxJobs]]
        /\ \A r \in Subs, k \in Kinds : open'[r][k] >= open[r][k]
    BY <1>0, <1>2, <1>5, EditFlush, QueueBound DEF Kinds
  <2>3. left' \in [Subs -> 0 .. (MaxLeft + Period)]
    BY <1>0, <1>5, EditFlush DEF Within
  <2>4. disabledFor' \in [Subs -> {Never} \union 0 .. Grace]
    BY <1>0, <1>5, <2>1 DEF Within, Flush
  <2>5. 0 \in 0 .. MaxLeft
    OBVIOUS
  <2> QED
    BY <1>0, <1>1, <2>1, <2>2, <2>3, <2>4, <2>5, OutdateRun DEF Within
<1>7. CASE Drop
  BY <1>0, <1>7 DEF Drop, NoEdit, Within, RunIsOpen, rowVars, jobVars
<1>6. ASSUME NEW s \in Subs, NEW k \in Kinds, Retry(s, k) PROVE Within' /\ RunIsOpen'
  <2>1. /\ ~(open[s][k] > 0) /\ failed[s][k] > 0 /\ Queue(s, k) /\ UNCHANGED <<left, disabledFor, run, edit>>
        /\ failed' = [failed EXCEPT ![s] = [failed[s] EXCEPT ![k] = failed[s][k] - 1]]
    BY <1>6 DEF Retry, HasOpenJob, rowVars
  <2>2. open[s][k] < MaxJobs
    BY <1>0, <2>1 DEF Within
  <2>3. /\ open' \in [Subs -> [Kinds -> 0 .. MaxJobs]]
        /\ \A r \in Subs, j \in Kinds : open'[r][j] >= open[r][j]
    BY <2>1, <2>2, QueueBound
  <2>4. failed' \in [Subs -> [Kinds -> 0 .. MaxJobs]]
    <3>1. failed[s][k] - 1 \in 0 .. MaxJobs
      BY <1>0, <2>1 DEF Within
    <3> QED
      BY <1>0, <2>1, <3>1 DEF Within
  <2> QED
    BY <1>0, <1>1, <2>1, <2>3, <2>4 DEF Within
<1> QED
  BY <1>3, <1>4, <1>5, <1>6, <1>7 DEF Admin

\* The scheduler's steps.
LEMMA SchedulerBound ==
  ASSUME BoundInv, Scheduler
  PROVE  Within' /\ RunIsOpen'
<1>0. Types /\ Within /\ RunIsOpen /\ MaxJobs \in Nat \ {0}
  BY AccessAssumption DEF BoundInv, LifeInv
<1>1. UNCHANGED <<rowVars, failed, run, edit>>
  BY DEF Scheduler, ScanExpired, CommitScan, Cleanup, jobVars
<1>2. ASSUME NEW s \in Subs, NEW k \in Kinds
      PROVE  open'[s][k] \in 0 .. MaxJobs /\ (open[s][k] > 0 => open'[s][k] > 0)
  <2>1. open[s][k] \in 0 .. MaxJobs /\ open[s] \in [Kinds -> 0 .. MaxJobs] /\ "disable" \in Kinds /\ "remove" \in Kinds
    BY <1>0 DEF Within, Kinds
  <2>2. CASE UNCHANGED open
    BY <2>1, <2>2
  <2>3. CASE CommitScan
    <3>1. open'[s] = IF s \in scan THEN [open[s] EXCEPT !["disable"] = @ + 1] ELSE open[s]
      BY <2>3 DEF CommitScan
    <3>2. s \in scan => open[s]["disable"] < MaxJobs
      BY <2>3 DEF CommitScan
    <3> QED
      BY <1>0, <2>1, <3>1, <3>2
  <2>4. CASE Cleanup
    <3>1. open'[s] \in {open[s], [open[s] EXCEPT !["remove"] = 1]}
      BY <2>4 DEF Cleanup
    <3> QED
      BY <1>0, <2>1, <3>1
  <2> QED
    BY <2>2, <2>3, <2>4 DEF Scheduler, ScanExpired, jobVars
<1>3. open' \in [Subs -> [Kinds -> Int]]
  BY NextTypes DEF BoundInv, LifeInv, Types, Next
<1>4. open' \in [Subs -> [Kinds -> 0 .. MaxJobs]]
  BY <1>2, <1>3
<1> QED
  BY <1>0, <1>1, <1>2, <1>4 DEF Within, RunIsOpen, rowVars, Types, Calls

\* The worker's steps.
LEMMA WorkerBound ==
  ASSUME BoundInv, Worker
  PROVE  Within' /\ RunIsOpen'
<1>0. Types /\ Within /\ RunIsOpen /\ MaxJobs \in Nat \ {0} /\ Grace \in Nat /\ Idle.phase = "idle"
  BY AccessAssumption DEF BoundInv, LifeInv, Idle
<1>1. ASSUME NEW s \in Subs, NEW k \in Kinds, Begin(s, k) PROVE Within' /\ RunIsOpen'
  <2>1. UNCHANGED <<left, disabledFor, open, failed, edit>> /\ open[s][k] > 0 /\ run'.sub = s /\ run'.kind = k
    BY <1>1 DEF Begin, rowVars, jobVars
  <2> QED
    BY <1>0, <2>1 DEF Within, RunIsOpen
<1>2. ASSUME NEW s \in Subs, NEW k \in Kinds, Skip(s, k) PROVE Within' /\ RunIsOpen'
  <2>1. UNCHANGED <<left, disabledFor, failed, run, edit>> /\ run = Idle /\ Done(s, k) /\ open[s][k] > 0
    BY <1>2 DEF Skip, rowVars
  <2> QED
    BY <1>0, <2>1, DoneBound DEF Within, RunIsOpen
<1>3. CASE ServerActs \/ SwitchOff
  <2>1. UNCHANGED <<left, disabledFor, open, failed, edit>>
    BY <1>3 DEF ServerActs, SwitchOff, rowVars, jobVars
  <2>2. run'.sub = run.sub /\ run'.kind = run.kind /\ run.phase # "idle"
    BY <1>0, <1>3 DEF ServerActs, SwitchOff, Types, Calls
  <2> QED
    BY <1>0, <2>1, <2>2 DEF Within, RunIsOpen
<1>4. CASE Commit
  <2>1. /\ run.sub \in Subs /\ run.kind \in Kinds /\ open[run.sub][run.kind] > 0
        /\ Done(run.sub, run.kind) /\ run' = Idle /\ UNCHANGED <<left, failed>> /\ edit'.left = edit.left
    BY <1>0, <1>4, EditOvertaken DEF Commit, Types, Calls, RunIsOpen
  <2>2. disabledFor' = disabledFor \/ disabledFor' = [disabledFor EXCEPT ![run.sub] = 0]
    BY <1>4 DEF Commit, MarkActive, MarkDisabled, MarkRemoved
  <2>3. disabledFor' \in [Subs -> {Never} \union 0 .. Grace]
    BY <1>0, <2>2 DEF Within
  <2> QED
    BY <1>0, <2>1, <2>3, DoneBound DEF Within, RunIsOpen
<1>5. CASE Fail \/ Crash
  <2>1. run' = Idle /\ UNCHANGED <<left, disabledFor, edit>>
    BY <1>5 DEF Fail, Crash, rowVars
  <2>2. CASE UNCHANGED jobVars
    BY <1>0, <2>1, <2>2 DEF Within, RunIsOpen, jobVars
  <2>3. CASE Fail /\ ~UNCHANGED jobVars
    <3>1. run.sub \in Subs /\ run.kind \in Kinds /\ open[run.sub][run.kind] > 0
      BY <1>0, <2>3 DEF Fail, Types, Calls, RunIsOpen
    <3>2. /\ Done(run.sub, run.kind)
          /\ failed' = [failed EXCEPT ![run.sub][run.kind] = IF @ < MaxJobs THEN @ + 1 ELSE @]
      BY <2>3 DEF Fail
    <3>3. failed' \in [Subs -> [Kinds -> 0 .. MaxJobs]]
      <4> DEFINE m == IF failed[run.sub][run.kind] < MaxJobs
                        THEN failed[run.sub][run.kind] + 1 ELSE failed[run.sub][run.kind]
      <4>1. failed[run.sub][run.kind] \in 0 .. MaxJobs
        BY <1>0, <3>1 DEF Within
      <4>2. m \in 0 .. MaxJobs
        BY <1>0, <4>1
      <4>3. failed' = [failed EXCEPT ![run.sub] = [failed[run.sub] EXCEPT ![run.kind] = m]]
        BY <3>2
      <4> HIDE DEF m
      <4> QED
        BY <1>0, <3>1, <4>2, <4>3 DEF Within
    <3> QED
      BY <1>0, <2>1, <3>1, <3>2, <3>3, DoneBound DEF Within, RunIsOpen
  <2> QED
    BY <1>5, <2>2, <2>3 DEF Crash
<1> QED
  BY <1>1, <1>2, <1>3, <1>4, <1>5 DEF Worker, Take

\* Every step keeps BoundInv.
LEMMA NextBound == BoundInv /\ [Next]_vars => BoundInv'
<1> SUFFICES ASSUME BoundInv, [Next]_vars PROVE Within' /\ RunIsOpen'
  BY NextLife DEF BoundInv
<1>0. Within /\ RunIsOpen /\ MaxLeft \in Nat /\ Period \in Nat /\ Grace \in Nat
  BY AccessAssumption DEF BoundInv
<1>1. CASE Tick
  <2>1. UNCHANGED <<open, failed, run>>
    BY <1>1 DEF Tick, jobVars
  <2>2. left' \in [Subs -> 0 .. (MaxLeft + Period)]
    BY <1>0, <1>1 DEF Tick, Within
  <2>3. disabledFor' \in [Subs -> {Never} \union 0 .. Grace]
    BY <1>0, <1>1 DEF Tick, Within
  <2>4. edit'.left \in 0 .. MaxLeft
    <3>1. Types /\ 0 \in 0 .. MaxLeft
      BY <1>0 DEF BoundInv, LifeInv
    <3> QED
      BY <1>0, <1>1, <3>1, EditTick DEF NoEdit, Within
  <2> QED
    BY <1>0, <2>1, <2>2, <2>3, <2>4 DEF Within, RunIsOpen
<1>2. CASE LateActs \/ UNCHANGED vars
  BY <1>0, <1>2 DEF LateActs, Within, RunIsOpen, vars, rowVars, jobVars
<1> QED
  BY <1>1, <1>2, AdminBound, SchedulerBound, WorkerBound DEF Next

\* Every variable keeps its type and its bounds: no subscription is paid further ahead than
\* the renewals' limit and a plan, none waits longer than its grace period, and no job is
\* closed twice or queued past the bound.
THEOREM TypesAndBounds == Spec => []TypeOK
<1>1. BoundInv => TypeOK
  <2> SUFFICES ASSUME BoundInv PROVE TypeOK
    OBVIOUS
  <2>1. edit \in Edits
    BY DEF BoundInv, LifeInv, Types, Copies, Within, Edits
  <2> QED
    BY <2>1 DEF BoundInv, LifeInv, Types, Within, TypeOK
<1> QED
  BY <1>1, InitBound, NextBound, PTL DEF Spec

-----------------------------------------------------------------------------
(* With every answer written down and no late call, who has paid has a peer. *)

\* An enable job is waiting, or has failed where an admin can see it.
Wants(s) == open[s]["enable"] > 0 \/ failed[s]["enable"] > 0

\* What a call for a subscription will leave: the one that makes or enables a peer has made
\* it when it is answered; the one that disables or removes it leaves a row active only if it
\* was not when it was read and has been renewed since, which queued an enable job.
CallFits(s) ==
  run.sub = s =>
    /\ run.kind \in {"disable", "remove"} /\ run.snap # "active" /\ status[s] = "active" => Wants(s)
    /\ run.phase = "answered" /\ run.kind \in {"create", "enable"} => peer[s] = "on"

\* An active row has its peer, but for a call that was answered and is not written down, and
\* for enable jobs.
Served(s) ==
  /\ ~hasPeer[s] => peer[s] # "off"
  /\ status[s] = "active" /\ ~(run.sub = s /\ run.phase = "answered") => peer[s] = "on" \/ Wants(s)

Sync(s) == CallFits(s) /\ Served(s)

SyncInv == BoundInv /\ late = Idle /\ \A s \in Subs : Sync(s)

\* Nothing is served at first.
LEMMA InitSync == Init => SyncInv
<1> SUFFICES ASSUME Init PROVE SyncInv
  OBVIOUS
<1>1. \A s \in Subs : Sync(s)
  BY AccessAssumption DEF Init, Sync, CallFits, Served, Idle
<1> QED
  BY <1>1, InitBound DEF Init, SyncInv

\* What the steps find.
LEMMA SyncFinds ==
  ASSUME SyncInv, NEW s \in Subs
  PROVE  /\ Types /\ Life(s) /\ Sync(s) /\ BoundInv
         /\ open[s] \in [Kinds -> 0 .. MaxJobs] /\ failed[s] \in [Kinds -> 0 .. MaxJobs]
         /\ open[s]["enable"] \in Nat /\ failed[s]["enable"] \in Nat
         /\ MaxJobs \in Nat \ {0} /\ late = Idle /\ NoSub # s
<1>1. open[s] \in [Kinds -> 0 .. MaxJobs] /\ failed[s] \in [Kinds -> 0 .. MaxJobs] /\ MaxJobs \in Nat \ {0}
  BY AccessAssumption DEF SyncInv, BoundInv, Within
<1>2. open[s]["enable"] \in Nat /\ failed[s]["enable"] \in Nat
  BY <1>1 DEF Kinds
<1> QED
  BY <1>1, <1>2, AccessAssumption DEF SyncInv, BoundInv, LifeInv

\* A step that leaves a subscription's row and peer alone, drops none of its enable jobs and
\* begins or answers no call for it.
LEMMA SyncUntouched ==
  ASSUME NEW s \in Subs, Sync(s), Wants(s) => Wants(s)',
         status'[s] = status[s], hasPeer'[s] = hasPeer[s], removed'[s] = removed[s], peer'[s] = peer[s],
         \/ run'.sub # s /\ ~(run.sub = s /\ run.phase = "answered")
         \/ /\ run'.sub = run.sub /\ run'.kind = run.kind
            /\ run'.snap = run.snap /\ run'.phase = run.phase
  PROVE  Sync(s)'
BY DEF Sync, CallFits, Served

\* An admin's change makes a row active only with an enable job, or where it was active.
LEMMA AdminSync ==
  ASSUME SyncInv, Admin, NEW s \in Subs
  PROVE  Sync(s)'
<1>1. Types /\ Life(s) /\ Sync(s) /\ open[s]["enable"] \in Nat /\ failed[s]["enable"] \in Nat
      /\ "enable" \in Kinds /\ NoSub # s
  BY SyncFinds DEF Kinds
<1>2. ASSUME NEW r \in Subs, ApproveNew(r) PROVE Sync(s)'
  <2>1. /\ UNCHANGED <<hasPeer, removed, peer, failed, run>> /\ open'[s]["enable"] = open[s]["enable"]
        /\ status'[s] = status[s] \/ (status[s] = "none" /\ status'[s] = "provisioning")
    BY <1>1, <1>2 DEF ApproveNew, Queue, Types
  <2> QED
    BY <1>1, <2>1 DEF Sync, CallFits, Served, Wants
<1>3. ASSUME NEW r \in Subs, ReadToRenew(r) \/ ReadToExtend(r) \/ ReadToCut(r) PROVE Sync(s)'
  <2>1. UNCHANGED <<rowVars, peer, jobVars, run>>
    BY <1>1, <1>3, EditRead
  <2> QED
    BY <1>1, <2>1, SyncUntouched DEF Wants, rowVars, jobVars
<1>4. CASE Flush
  <2>1. /\ run'.sub = run.sub /\ run'.kind = run.kind /\ run'.phase = run.phase /\ run'.snap = run.snap
        /\ UNCHANGED <<hasPeer, removed, peer, failed>> /\ edit.sub \in Subs
    BY <1>1, <1>4, EditFlush, OutdateRun
  <2>2. CASE s = edit.sub /\ "status" \in edit.sets
    <3>1. open'[s]["enable"] = open[s]["enable"] + 1
      BY <1>1, <1>4, <2>2, EditFlush DEF Queue, Types
    <3>2. Wants(s)'
      BY <1>1, <3>1 DEF Wants
    <3> QED
      BY <1>1, <2>1, <3>2 DEF Sync, CallFits, Served
  <2>3. CASE ~(s = edit.sub /\ "status" \in edit.sets)
    <3>1. status'[s] = status[s] /\ open'[s] = open[s]
      BY <1>1, <1>4, <2>1, <2>3, EditFlush DEF Queue, Types
    <3> QED
      BY <1>1, <2>1, <3>1, SyncUntouched DEF Wants
  <2> QED
    BY <2>2, <2>3
<1>6. CASE Drop
  <2>1. UNCHANGED <<rowVars, peer, jobVars, run>>
    BY <1>6 DEF Drop
  <2> QED
    BY <1>1, <2>1, SyncUntouched DEF Wants, rowVars, jobVars
<1>5. ASSUME NEW r \in Subs, NEW k \in Kinds, Retry(r, k) PROVE Sync(s)'
  <2>1. UNCHANGED <<rowVars, peer, run>>
    BY <1>5 DEF Retry
  <2>2. \/ open'[s]["enable"] = open[s]["enable"] /\ failed'[s]["enable"] = failed[s]["enable"]
        \/ open'[s]["enable"] = open[s]["enable"] + 1
    BY <1>1, <1>5 DEF Retry, Queue, Types
  <2>3. Wants(s) => Wants(s)'
    BY <1>1, <2>2 DEF Wants
  <2> QED
    BY <1>1, <2>1, <2>3, SyncUntouched DEF rowVars
<1> QED
  BY <1>2, <1>3, <1>4, <1>5, <1>6 DEF Admin

\* The scheduler touches no row, no peer and no enable job.
LEMMA SchedulerSync ==
  ASSUME SyncInv, Scheduler, NEW s \in Subs
  PROVE  Sync(s)'
<1>1. Types /\ Sync(s)
  BY SyncFinds
<1>2. UNCHANGED <<rowVars, peer, failed, run>>
  BY DEF Scheduler, ScanExpired, CommitScan, Cleanup, jobVars
<1>3. open'[s]["enable"] = open[s]["enable"]
  <2>1. \A k \in Kinds \ {"enable"} : [open[s] EXCEPT ![k] = @ + 1]["enable"] = open[s]["enable"]
                                       /\ [open[s] EXCEPT ![k] = 1]["enable"] = open[s]["enable"]
    BY <1>1 DEF Types, Kinds
  <2>2. CASE ScanExpired
    BY <2>2 DEF ScanExpired, jobVars
  <2>3. CASE CommitScan
    <3>1. open'[s] = open[s] \/ open'[s] = [open[s] EXCEPT !["disable"] = @ + 1]
      BY <2>3 DEF CommitScan
    <3> QED
      BY <2>1, <3>1 DEF Kinds
  <2>4. CASE Cleanup
    <3>1. open'[s] = open[s] \/ open'[s] = [open[s] EXCEPT !["remove"] = 1]
      BY <2>4 DEF Cleanup
    <3> QED
      BY <2>1, <3>1 DEF Kinds
  <2> QED
    BY <2>2, <2>3, <2>4 DEF Scheduler
<1> QED
  BY <1>1, <1>2, <1>3, SyncUntouched DEF Wants, rowVars

\* The worker takes a job: a disabled row that it reads is not active.
LEMMA TakeSync ==
  ASSUME SyncInv, Take, NEW s \in Subs
  PROVE  Sync(s)'
<1>1. Types /\ Life(s) /\ Sync(s) /\ open[s]["enable"] \in Nat /\ failed[s]["enable"] \in Nat
      /\ "enable" \in Kinds /\ NoSub # s
  BY SyncFinds DEF Kinds
<1>2. ASSUME NEW r \in Subs, NEW k \in Kinds, Begin(r, k) PROVE Sync(s)'
  <2>1. /\ run'.sub = r /\ run'.kind = k /\ run'.phase = "calling" /\ run'.snap = status[r]
        /\ run.sub = NoSub /\ UNCHANGED <<rowVars, peer, jobVars>>
    BY <1>2 DEF Begin, Idle
  <2> QED
    BY <1>1, <2>1 DEF Sync, CallFits, Served, Wants, rowVars, jobVars
<1>3. ASSUME NEW r \in Subs, NEW k \in Kinds, Skip(r, k) PROVE Sync(s)'
  <2>1. UNCHANGED <<rowVars, peer, failed, run>> /\ run.sub = NoSub
    BY <1>3 DEF Skip, Idle
  <2>2. CASE s = r /\ k = "enable"
    <3>1. ~hasPeer[s]
      BY <1>3, <2>2 DEF Skip, NeedsCall, Renewed
    <3>2. status[s] # "active"
      BY <1>1, <3>1 DEF Life, NotMade
    <3> QED
      BY <1>1, <2>1, <3>2 DEF Sync, CallFits, Served, rowVars
  <2>3. CASE ~(s = r /\ k = "enable")
    <3>1. open'[s]["enable"] = open[s]["enable"]
      BY <1>1, <1>3, <2>3 DEF Skip, Done, Types
    <3> QED
      BY <1>1, <2>1, <3>1, SyncUntouched DEF Wants, rowVars
  <2> QED
    BY <2>2, <2>3
<1> QED
  BY <1>2, <1>3 DEF Take

\* The server acts.
LEMMA CallSync ==
  ASSUME SyncInv, ServerActs, NEW s \in Subs
  PROVE  Sync(s)'
<1>1. Types /\ Life(s) /\ Sync(s)
  BY SyncFinds
<1>2. /\ run.phase = "calling" /\ (run.kind = "enable" => peer[run.sub] # "none")
      /\ peer' = [peer EXCEPT ![run.sub] = PeerAfter(run.kind, @)]
      /\ UNCHANGED <<rowVars, jobVars>>
      /\ run'.sub = run.sub /\ run'.kind = run.kind /\ run'.snap = run.snap /\ run'.phase = "answered"
  BY <1>1 DEF ServerActs, Types, Calls
<1>3. CASE run.sub # s
  <2>1. peer'[s] = peer[s]
    BY <1>1, <1>2, <1>3 DEF Types
  <2> QED
    BY <1>1, <1>2, <1>3, <2>1, SyncUntouched DEF Wants, rowVars, jobVars
<1>4. CASE run.sub = s
  <2>1. peer'[s] = PeerAfter(run.kind, peer[s]) /\ peer[s] \in {"none", "on", "off"} /\ run.kind \in Kinds
    BY <1>1, <1>2, <1>4 DEF Types, Calls
  <2>2. run.kind = "create" => ~hasPeer[s] /\ peer[s] # "off"
    BY <1>1, <1>4 DEF Life, Made, Sync, Served
  <2>3. ~hasPeer[s] => run.kind = "create"
    BY <1>1, <1>4 DEF Life, NotMade
  <2>4. run.kind \in {"create", "enable"} => peer'[s] = "on"
    BY <1>2, <1>4, <2>1, <2>2 DEF PeerAfter
  <2> QED
    BY <1>1, <1>2, <1>4, <2>3, <2>4 DEF Sync, CallFits, Served, Wants, rowVars, jobVars
<1> QED
  BY <1>3, <1>4

\* The worker's commit: the row is as the call left the peer, or an enable job is there.
LEMMA CommitSync ==
  ASSUME SyncInv, Commit, NEW s \in Subs
  PROVE  Sync(s)'
<1>1. Types /\ Life(s) /\ Sync(s) /\ open[s]["enable"] \in Nat /\ failed[s]["enable"] \in Nat /\ "enable" \in Kinds
  BY SyncFinds DEF Kinds
<1>2. /\ run.phase = "answered" /\ run.sub \in Subs /\ run.kind \in Kinds /\ Done(run.sub, run.kind)
      /\ UNCHANGED <<peer, failed>> /\ run'.sub = NoSub /\ run'.sub # s
  BY <1>1, AccessAssumption DEF Commit, Types, Calls, Idle
<1>3. CASE run.sub # s
  <2>1. status'[s] = status[s] /\ hasPeer'[s] = hasPeer[s] /\ removed'[s] = removed[s]
    BY <1>1, <1>2, <1>3 DEF Commit, MarkActive, MarkDisabled, MarkRemoved, Write, Types
  <2>2. open'[s] = open[s]
    BY <1>1, <1>2, <1>3 DEF Done, Types
  <2> QED
    BY <1>1, <1>2, <1>3, <2>1, <2>2, SyncUntouched DEF Wants
<1>4. CASE run.sub = s
  <2>1. run.kind # "enable" => open'[s]["enable"] = open[s]["enable"]
    BY <1>1, <1>2, <1>4 DEF Done, Types
  <2>2. CASE run.kind = "create" /\ MarkActive(s)
    <3>1. status'[s] = "active" /\ hasPeer'[s] /\ removed'[s] = removed[s]
      BY <1>1, <1>4, <2>2 DEF MarkActive, Write, Types, Life, Created
    <3>2. peer[s] = "on"
      BY <1>1, <1>2, <1>4, <2>2 DEF Sync, CallFits
    <3> QED
      BY <1>2, <3>1, <3>2 DEF Sync, CallFits, Served
  <2>3. CASE run.kind = "disable" /\ MarkDisabled(s)
    <3>1. hasPeer'[s] = hasPeer[s] /\ removed'[s] = removed[s]
      BY <2>3 DEF MarkDisabled
    <3>2. status'[s] = IF run.snap = "disabled" THEN status[s] ELSE "disabled"
      BY <1>1, <2>3 DEF MarkDisabled, Write, Types
    <3> QED
      BY <1>1, <1>2, <1>4, <2>1, <2>3, <3>1, <3>2 DEF Sync, CallFits, Served, Wants
  <2>4. CASE run.kind = "remove" /\ MarkRemoved(s)
    <3>1. hasPeer'[s] = hasPeer[s] /\ removed'[s]
      BY <1>1, <2>4 DEF MarkRemoved, Types
    <3>2. status'[s] = IF run.snap = "expired" THEN status[s] ELSE "expired"
      BY <1>1, <2>4 DEF MarkRemoved, Write, Types
    <3>3. status'[s] = "active" => Wants(s)
      BY <1>1, <1>4, <2>4, <3>2 DEF Sync, CallFits
    <3> QED
      BY <1>1, <1>2, <2>1, <2>4, <3>1, <3>3 DEF Sync, CallFits, Served, Wants
  <2>5. CASE run.kind = "enable" /\ UNCHANGED <<status, hasPeer, disabledFor, removed>>
    <3>1. peer[s] = "on"
      BY <1>1, <1>2, <1>4, <2>5 DEF Sync, CallFits
    <3> QED
      BY <1>1, <1>2, <2>5, <3>1 DEF Sync, CallFits, Served
  <2> QED
    BY <1>4, <2>2, <2>3, <2>4, <2>5 DEF Commit
<1> QED
  BY <1>3, <1>4

\* A call that fails has not acted, and an enable job that fails for good stays to be seen.
LEMMA EndSync ==
  ASSUME SyncInv, ~LostAnswers, Fail \/ Crash, NEW s \in Subs
  PROVE  Sync(s)'
<1>1. Types /\ Sync(s) /\ open[s]["enable"] \in Nat /\ failed[s]["enable"] \in Nat /\ "enable" \in Kinds
      /\ MaxJobs \in Nat \ {0} /\ NoSub # s
  BY SyncFinds DEF Kinds
<1>2. run.phase # "answered" /\ run'.sub = NoSub /\ UNCHANGED <<rowVars, peer>>
  BY DEF Fail, Crash, Idle
<1>3. Wants(s) => Wants(s)'
  <2>1. CASE UNCHANGED jobVars
    BY <2>1 DEF jobVars, Wants
  <2>2. CASE Fail /\ ~UNCHANGED jobVars
    <3>1. /\ run.sub \in Subs /\ run.kind \in Kinds
          /\ open' = [open EXCEPT ![run.sub][run.kind] = @ - 1]
          /\ failed' = [failed EXCEPT ![run.sub][run.kind] = IF @ < MaxJobs THEN @ + 1 ELSE @]
      BY <1>1, <2>2 DEF Fail, Done, Types, Calls
    <3>2. CASE run.sub = s /\ run.kind = "enable"
      <4>1. failed'[s]["enable"] = IF failed[s]["enable"] < MaxJobs THEN failed[s]["enable"] + 1
                                                                   ELSE failed[s]["enable"]
        BY <1>1, <3>1, <3>2 DEF Types
      <4> QED
        BY <1>1, <4>1 DEF Wants
    <3>3. CASE ~(run.sub = s /\ run.kind = "enable")
      <4>1. open'[s]["enable"] = open[s]["enable"] /\ failed'[s]["enable"] = failed[s]["enable"]
        BY <1>1, <3>1, <3>3 DEF Types
      <4> QED
        BY <4>1 DEF Wants
    <3> QED
      BY <3>2, <3>3
  <2> QED
    BY <2>1, <2>2 DEF Crash
<1> QED
  BY <1>1, <1>2, <1>3, SyncUntouched DEF rowVars

\* No call is ever late.
LEMMA NoneLate ==
  ASSUME Types, late = Idle, ~LateCalls, [Next]_vars
  PROVE  late' = Idle
<1>1. ASSUME NEW s \in Subs, Outdate(s) PROVE late' = Idle
  <2>1. late' = [late EXCEPT !.changed = late.changed \/ late.sub = s] /\ late \in Calls /\ NoSub # s
    BY <1>1, AccessAssumption DEF Outdate, Types
  <2>2. late.changed = FALSE /\ late.sub = NoSub
    BY DEF Idle
  <2>3. (late.changed \/ late.sub = s) = late.changed
    BY <2>1, <2>2
  <2>4. [late EXCEPT !.changed = late.changed] = late
    BY <2>1 DEF Calls
  <2> QED
    BY <2>1, <2>3, <2>4
<1>2. ASSUME Abandon PROVE late' = Idle
  BY <1>2 DEF Abandon
<1>3. ASSUME Flush PROVE late' = Idle
  BY <1>1, <1>3, EditFlush
<1> QED
  BY <1>2, <1>3 DEF Next, Admin, ApproveNew, ReadToRenew, ReadToExtend, ReadToCut, Read, Drop, Retry, Scheduler, ScanExpired,
     CommitScan, Cleanup, Worker, Take, Begin, Skip, ServerActs, SwitchOff, Commit, Fail, Crash, LateActs, Tick, vars

\* Every step keeps SyncInv.
LEMMA NextSync ==
  ASSUME ~LostAnswers, ~LateCalls
  PROVE  SyncInv /\ [Next]_vars => SyncInv'
<1> SUFFICES ASSUME SyncInv, [Next]_vars PROVE SyncInv'
  OBVIOUS
<1>1. late' = Idle
  BY NoneLate DEF SyncInv, BoundInv, LifeInv
<1>2. ASSUME NEW s \in Subs PROVE Sync(s)'
  <2>1. CASE Tick
    <3>1. UNCHANGED <<status, hasPeer, removed, peer, open, failed, run>>
      BY <2>1 DEF Tick, jobVars
    <3> QED
      BY <3>1, SyncFinds, SyncUntouched DEF Wants
  <2>2. CASE UNCHANGED vars
    <3>1. UNCHANGED <<status, hasPeer, removed, peer, open, failed, run>>
      BY <2>2 DEF vars, rowVars, jobVars
    <3> QED
      BY <3>1, SyncFinds, SyncUntouched DEF Wants
  <2>3. ~LateActs /\ ~SwitchOff
    BY DEF SyncInv, LateActs, SwitchOff
  <2> QED
    BY <2>1, <2>2, <2>3, AdminSync, SchedulerSync, TakeSync, CallSync, CommitSync, EndSync DEF Next, Worker
<1> QED
  BY <1>1, <1>2, NextBound DEF SyncInv

\* "Paid and off" needs a lost answer: if every call that acted is written down and none is
\* late, a paid subscription has its peer once its enable jobs are through, whatever is
\* renewed while a call is in progress, fails for good or is retried.
THEOREM PaidIsServed ==
  ASSUME ~LostAnswers, ~LateCalls
  PROVE  Spec => []PaidHasPeer
<1>1. SyncInv => PaidHasPeer
  BY DEF SyncInv, Sync, Served, PaidHasPeer, Paid, Wants
<1>2. SyncInv /\ [Next]_vars => SyncInv'
  BY NextSync
<1> QED
  BY <1>1, <1>2, InitSync, PTL DEF Spec

-----------------------------------------------------------------------------
(* What the docs say of renewals and of jobs, and when it is so. *)

\* No call is late and none was outdated.
Undisturbed == CutInv /\ Apart /\ late = Idle /\ run.changed = FALSE

\* Every step keeps it, when nobody changes a subscription during a call.
LEMMA NextUndisturbed ==
  ASSUME ~ChangeInCall, ~LateCalls
  PROVE  Undisturbed /\ [Next]_vars => Undisturbed'
<1> SUFFICES ASSUME Undisturbed, [Next]_vars PROVE Undisturbed'
  OBVIOUS
<1>0. Types /\ Idle.changed = FALSE
  BY DEF Undisturbed, CutInv, LifeInv, Idle
<1>1. late' = Idle /\ CutInv' /\ Apart'
  BY <1>0, NoneLate, NextCutInv, NextApart DEF Undisturbed
<1> SUFFICES run'.changed = FALSE
  BY <1>1 DEF Undisturbed
<1>2. CASE Flush
  <2>1. edit.sub \in Subs /\ run.sub # edit.sub /\ run'.changed = (run.changed \/ run.sub = edit.sub)
    BY <1>0, <1>2, EditFlush, OutdateRun DEF Undisturbed, Apart
  <2> QED
    BY <2>1 DEF Undisturbed
<1>3. CASE ServerActs
  BY <1>0, <1>3 DEF ServerActs, Undisturbed, Types, Calls
<1>4. CASE Take
  BY <1>4 DEF Take, Begin, Skip, Undisturbed
<1>5. CASE Commit \/ Fail \/ Crash
  BY <1>0, <1>5 DEF Commit, Fail, Crash
<1>6. CASE UNCHANGED run
  BY <1>6 DEF Undisturbed
<1>7. CASE Admin
  BY <1>2, <1>6, <1>7 DEF Admin, ApproveNew, ReadToRenew, ReadToExtend, ReadToCut, Read, Drop, Retry
<1> QED
  BY <1>3, <1>4, <1>5, <1>6, <1>7
  DEF Undisturbed, Next, Worker, Scheduler, ScanExpired, CommitScan, Cleanup, SwitchOff, LateActs, Tick, vars

\* "A disable or remove job the scheduler queued at expiry must not undo a renewal that came
\* after it": so it is, as long as no renewal comes during a call and no call is late.
THEOREM RenewalsStand ==
  ASSUME ~ChangeInCall, ~LateCalls
  PROVE  Spec => RenewalStands
<1> DEFINE Stands == \A s \in Subs : Paid(s) => status'[s] = "active"
<1>1. Undisturbed /\ [Next]_vars => [Stands]_vars
  <2> SUFFICES ASSUME Undisturbed, Next, NEW s \in Subs, Paid(s) PROVE status'[s] = "active"
    OBVIOUS
  <2>1. ~run.changed /\ ~late.changed
    BY DEF Undisturbed, Idle
  <2>2. LossInCall
    BY NextLossInCall DEF Undisturbed
  <2> QED
    BY <2>1, <2>2 DEF LossInCall
<1>2. Init => Undisturbed
  BY InitCutInv, AccessAssumption DEF Init, Undisturbed, Apart, Idle, NoEdit
<1>3. Undisturbed /\ [Next]_vars => Undisturbed'
  BY NextUndisturbed
<1>4. Spec => [][Stands]_vars
  BY <1>1, <1>2, <1>3, PTL DEF Spec
<1> QED
  BY <1>4 DEF RenewalStands

\* NoDuplicateJobs is inductive when one adds that what a pass has listed has no open
\* disable job: the pass is the only one to queue any.
OnceInv == Types /\ NoDuplicateJobs /\ \A s \in scan : ~HasOpenJob("disable", s)

\* Every step keeps it, when nobody presses Retry.
LEMMA NextOnce ==
  ASSUME ~RetryAllowed
  PROVE  OnceInv /\ [Next]_vars => OnceInv'
<1> SUFFICES ASSUME OnceInv, [Next]_vars PROVE NoDuplicateJobs' /\ (\A s \in scan : ~HasOpenJob("disable", s))'
  BY NextTypes DEF OnceInv
<1>0. Types /\ "disable" \in Kinds /\ "remove" \in Kinds /\ "create" \in Kinds /\ "enable" \in Kinds
  BY DEF OnceInv, Kinds
<1>1. ASSUME NEW s \in Subs
      PROVE  /\ open[s]["disable"] \in Int /\ open[s]["disable"] <= 1
             /\ open[s]["remove"] \in Int /\ open[s]["remove"] <= 1
             /\ s \in scan => ~(open[s]["disable"] > 0)
  BY <1>0 DEF OnceInv, NoDuplicateJobs, Types, HasOpenJob
<1>2. ASSUME scan' \subseteq scan,
             \A s \in Subs : open'[s]["disable"] \in {open[s]["disable"], open[s]["disable"] - 1}
                             /\ open'[s]["remove"] \in {open[s]["remove"], open[s]["remove"] - 1}
      PROVE  NoDuplicateJobs' /\ (\A s \in scan : ~HasOpenJob("disable", s))'
  <2>1. ASSUME NEW s \in Subs
        PROVE  /\ open'[s]["disable"] <= 1 /\ open'[s]["remove"] <= 1
               /\ s \in scan => ~(open'[s]["disable"] > 0)
    BY <1>1, <1>2
  <2>2. scan \subseteq Subs
    BY <1>0 DEF Types
  <2> QED
    BY <1>2, <2>1, <2>2 DEF NoDuplicateJobs, HasOpenJob
<1>3. ASSUME NEW r \in Subs, NEW k \in Kinds, Done(r, k), scan' = scan
      PROVE  NoDuplicateJobs' /\ (\A s \in scan : ~HasOpenJob("disable", s))'
  <2>1. \A s \in Subs, j \in Kinds : open'[s][j] \in {open[s][j], open[s][j] - 1}
    BY <1>0, <1>3 DEF Done, Types
  <2> QED
    BY <1>0, <1>2, <1>3, <2>1
<1>4. ASSUME UNCHANGED <<open, scan>>
      PROVE  NoDuplicateJobs' /\ (\A s \in scan : ~HasOpenJob("disable", s))'
  BY <1>2, <1>4
<1>5. CASE Admin
  <2>1. scan' = scan
    BY <1>5 DEF Admin, ApproveNew, ReadToRenew, ReadToExtend, ReadToCut, Read, Flush, Drop, Retry
  <2>2. open' = open \/ \E r \in Subs, k \in {"create", "enable"} : Queue(r, k)
    <3>1. Flush => open' = open \/ (Queue(edit.sub, "enable") /\ edit.sub \in Subs)
      BY <1>0, EditFlush
    <3> QED
      BY <1>5, <3>1 DEF Admin, ApproveNew, ReadToRenew, ReadToExtend, ReadToCut, Read, Drop, Retry, jobVars
  <2>3. \A s \in Subs : open'[s]["disable"] = open[s]["disable"] /\ open'[s]["remove"] = open[s]["remove"]
    <3>1. ASSUME NEW r \in Subs, NEW k \in {"create", "enable"}, Queue(r, k), NEW s \in Subs
          PROVE  open'[s]["disable"] = open[s]["disable"] /\ open'[s]["remove"] = open[s]["remove"]
      <4>1. open'[s] \in {open[s], [open[s] EXCEPT ![k] = open[s][k] + 1]} /\ open[s] \in [Kinds -> Int]
        BY <1>0, <3>1 DEF Queue, Types
      <4>2. k \in Kinds /\ k # "disable" /\ k # "remove"
        BY <1>0, <3>1
      <4> QED
        BY <1>0, <4>1, <4>2
    <3> QED
      BY <2>2, <3>1
  <2> QED
    BY <1>2, <2>1, <2>3
<1>6. CASE ScanExpired
  <2>1. UNCHANGED open /\ scan' = {s \in Subs : status[s] = "active" /\ Expired(s) /\ ~HasOpenJob("disable", s)}
    BY <1>6 DEF ScanExpired, jobVars
  <2>2. \A s \in Subs : open'[s]["disable"] <= 1 /\ open'[s]["remove"] <= 1
    BY <1>1, <2>1
  <2>3. \A s \in scan' : ~(open'[s]["disable"] > 0)
    BY <2>1 DEF HasOpenJob
  <2> QED
    BY <2>2, <2>3 DEF NoDuplicateJobs, HasOpenJob
<1>7. CASE CommitScan
  <2>1. scan' = {} /\ open' = [s \in Subs |-> IF s \in scan THEN [open[s] EXCEPT !["disable"] = @ + 1] ELSE open[s]]
    BY <1>7 DEF CommitScan
  <2>2. ASSUME NEW s \in Subs PROVE open'[s]["disable"] <= 1 /\ open'[s]["remove"] <= 1
    <3>1. CASE s \in scan
      <4>1. open'[s] = [open[s] EXCEPT !["disable"] = open[s]["disable"] + 1] /\ open[s] \in [Kinds -> Int]
        BY <1>0, <2>1, <3>1 DEF Types
      <4>2. open'[s]["disable"] = open[s]["disable"] + 1 /\ open'[s]["remove"] = open[s]["remove"]
        BY <1>0, <4>1
      <4> QED
        BY <1>1, <3>1, <4>2
    <3>2. CASE s \notin scan
      BY <1>1, <2>1, <3>2
    <3> QED
      BY <3>1, <3>2
  <2> QED
    BY <2>1, <2>2 DEF NoDuplicateJobs
<1>8. CASE Cleanup
  <2>1. UNCHANGED scan
    BY <1>8 DEF Cleanup
  <2>2. ASSUME NEW s \in Subs
        PROVE  open'[s]["disable"] = open[s]["disable"] /\ open'[s]["remove"] <= 1
    <3>1. open'[s] \in {open[s], [open[s] EXCEPT !["remove"] = 1]} /\ open[s] \in [Kinds -> Int]
      BY <1>0, <1>8 DEF Cleanup, Types
    <3> QED
      BY <1>0, <1>1, <3>1
  <2> QED
    BY <1>0, <1>1, <2>1, <2>2 DEF NoDuplicateJobs, HasOpenJob, Types
<1>9. CASE Take
  BY <1>3, <1>4, <1>9 DEF Take, Begin, Skip, jobVars
<1>10. CASE Commit \/ Fail
  <2>1. run.sub \in Subs /\ run.kind \in Kinds /\ scan' = scan
    BY <1>0, <1>10 DEF Commit, Fail, Types, Calls
  <2> QED
    BY <1>3, <1>4, <1>10, <2>1 DEF Commit, Fail, jobVars
<1>11. CASE ServerActs \/ SwitchOff \/ Crash \/ LateActs \/ Tick \/ UNCHANGED vars
  BY <1>4, <1>11 DEF ServerActs, SwitchOff, Crash, LateActs, Tick, vars, jobVars
<1> QED
  BY <1>5, <1>6, <1>7, <1>8, <1>9, <1>10, <1>11 DEF Next, Scheduler, Worker

\* "The scheduler doesn't queue a job if the same one is already pending", although it looks
\* in one transaction and queues in another: only Retry can come in between.
THEOREM JobsAreQueuedOnce ==
  ASSUME ~RetryAllowed
  PROVE  Spec => []NoDuplicateJobs
<1>1. Init => OnceInv
  BY InitTypes DEF Init, OnceInv, NoDuplicateJobs, Kinds
<1>2. OnceInv /\ [Next]_vars => OnceInv'
  BY NextOnce
<1>3. OnceInv => NoDuplicateJobs
  BY DEF OnceInv
<1> QED
  BY <1>1, <1>2, <1>3, PTL DEF Spec
=============================================================================
