------------------------------- MODULE Access -------------------------------
(***************************************************************************)
(* A subscription's access: its row, its peer on the VPN server, the jobs  *)
(* that bring the second in line with the first, and everybody who changes *)
(* either: an admin's approvals and /extend (db/repositories/order_repo,   *)
(* subscription_repo), the scheduler's expiry and clean-up passes          *)
(* (scheduler/service), the worker (worker/engine) and Retry               *)
(* (bot/handlers/admin_jobs).                                              *)
(*                                                                         *)
(* A job is its kind and its subscription; that jobs have one runner, are  *)
(* retried and give up is JobQueue's business, so here a run may fail for  *)
(* now or for good at any time. The worker reads the subscription, calls   *)
(* the server, and only then writes the row from the copy it read. So do   *)
(* an approval and /extend, which call nobody, but whose flush may wait    *)
(* for another process's write lock. An attribute that the copy has        *)
(* already is not written (SQLAlchemy's unit of work). A call              *)
(* that the worker gives up, or does not live to see answered, goes on: on *)
(* the server it is a process of its own, which systemd ends after a       *)
(* minute.                                                                 *)
(*                                                                         *)
(* A definition whose name ends in an underscore and a word is the one     *)
(* before the underscore with a mistake in it, which a property excludes.  *)
(***************************************************************************)
EXTENDS Integers

CONSTANTS
  Subs,            \* subscriptions
  Period,          \* ticks a plan adds
  Grace,           \* ticks between disabling and removing a peer
  MaxLeft,         \* bound: no renewal takes a subscription further ahead
  MaxJobs,         \* bound: jobs of a kind, queued or failed, per subscription
  LostAnswers,     \* may a call take effect, or half of it, and its answer not reach
                   \* the row: by a failure, or by the worker's death?
  LateCalls,       \* may a call outlive the worker's wait for it? (bound: one at once)
  ChangeInCall,    \* may an admin change a subscription while the worker's call
                   \* for it is in progress, and the other way round?
  RetryAllowed,    \* does an admin use Retry?
  NoSub

ASSUME AccessAssumption ==
  /\ Period \in Nat \ {0}
  /\ Grace \in Nat \ {0}
  /\ MaxLeft \in Nat
  /\ MaxJobs \in Nat \ {0}
  /\ LostAnswers \in BOOLEAN
  /\ LateCalls \in BOOLEAN
  /\ ChangeInCall \in BOOLEAN
  /\ RetryAllowed \in BOOLEAN
  /\ NoSub \notin Subs

VARIABLES
  status,       \* subscriptions.status; "none" before the row exists
  left,         \* expires_at - now, 0 once it has passed
  hasPeer,      \* peer_external_id is set
  disabledFor,  \* now - disabled_at up to Grace, Never when it is null
  removed,      \* removed_at is set
  peer,         \* on the server: "none", "on", or "off" (its .peer file only)
  open, failed, \* jobs queued, running or retrying; jobs that failed for good
  run,          \* what the worker is doing
  late,         \* a call nobody waits for any more, and that has not acted yet
  scan,         \* subscriptions the expiry pass has queued and not committed
  edit          \* an approval or /extend that has read a row and not written it
                \* (bound: one at once; two admins at once are in Orders)

rowVars == <<status, left, hasPeer, disabledFor, removed>>
jobVars == <<open, failed>>
vars    == <<rowVars, peer, jobVars, run, late, scan, edit>>

-----------------------------------------------------------------------------
Never == -1
Kinds == {"create", "disable", "remove", "enable"}

Idle == [sub |-> NoSub, kind |-> "create", phase |-> "idle", snap |-> "none", changed |-> FALSE]

NoEdit == [sub |-> NoSub, left |-> 0, sets |-> {}, changed |-> FALSE]

Expired(s) == left[s] = 0
Paid(s)    == status[s] = "active" /\ ~Expired(s)

Init ==
  /\ status      = [s \in Subs |-> "none"]
  /\ left        = [s \in Subs |-> 0]
  /\ hasPeer     = [s \in Subs |-> FALSE]
  /\ disabledFor = [s \in Subs |-> Never]
  /\ removed     = [s \in Subs |-> FALSE]
  /\ peer        = [s \in Subs |-> "none"]
  /\ open        = [s \in Subs |-> [k \in Kinds |-> 0]]
  /\ failed      = [s \in Subs |-> [k \in Kinds |-> 0]]
  /\ run         = Idle
  /\ late        = Idle
  /\ scan        = {}
  /\ edit        = NoEdit

Queue(s, k) == open' = [open EXCEPT ![s][k] = @ + 1]

HasOpenJob_Failed(k, s) == open[s][k] + failed[s][k] > 0

HasOpenJob(k, s) == open[s][k] > 0

-----------------------------------------------------------------------------
(* The admin. *)

\* approve_order_atomic, for an order that extends nothing.
ApproveNew(s) ==
  /\ status[s] = "none"
  /\ status' = [status EXCEPT ![s] = "provisioning"]
  /\ left'   = [left EXCEPT ![s] = Period]
  /\ Queue(s, "create")
  /\ UNCHANGED <<hasPeer, disabledFor, removed, peer, failed, run, late, scan, edit>>

\* Only a subscription whose peer was made and not removed can be extended. The handler
\* reads the row, and decides what the new expiry and the attributes are that differ from
\* its copy: expires_at always does.
Read(s, new, sets) ==
  /\ edit = NoEdit
  /\ hasPeer[s] /\ ~removed[s]
  /\ ChangeInCall \/ run.sub # s
  /\ new <= MaxLeft
  /\ edit' = [sub |-> s, left |-> new, sets |-> sets, changed |-> FALSE]
  /\ UNCHANGED <<rowVars, peer, jobVars, run, late, scan>>

\* What differs when a row is set to active without a disabled_at.
ToActive(s) ==
  {a \in {"status", "disabled_at"} : IF a = "status" THEN status[s] # "active"
                                                     ELSE disabledFor[s] # Never}

\* _approve_renewal. The time added counts from now if it has run out.
ReadToRenew(s) == Read(s, left[s] + Period, ToActive(s))

\* /extend with positive days: what a renewal does, but a row that is active
\* keeps its disabled_at ...
ReadToExtend(s) ==
  Read(s, left[s] + Period, IF status[s] \in {"disabled", "expired"} THEN ToActive(s) ELSE {})

\* ... and with negative days, here so many that the subscription runs out.
ReadToCut(s) ==
  /\ left[s] > 0
  /\ Read(s, 0, {})

\* The copy of the row that a call was decided on is out of date from here on.
Outdate(s) ==
  /\ run'  = [run EXCEPT !.changed = @ \/ run.sub = s]
  /\ late' = [late EXCEPT !.changed = @ \/ late.sub = s]

\* The handler's commit: what differed from the copy is written to the row as it is now,
\* and an enable job queued if the row was not active when it was read.
Flush ==
  LET s == edit.sub IN
  /\ edit # NoEdit
  /\ left' = [left EXCEPT ![s] = edit.left]
  /\ status' = [status EXCEPT ![s] = IF "status" \in edit.sets THEN "active" ELSE @]
  /\ disabledFor' = [disabledFor EXCEPT ![s] = IF "disabled_at" \in edit.sets THEN Never ELSE @]
  /\ IF "status" \in edit.sets THEN open[s]["enable"] < MaxJobs /\ Queue(s, "enable")
                               ELSE UNCHANGED open
  /\ Outdate(s)
  /\ edit' = NoEdit
  /\ UNCHANGED <<hasPeer, removed, peer, failed, scan>>

\* The handler fails, by a lock that is held too long or a restart.
Drop ==
  /\ edit # NoEdit
  /\ edit' = NoEdit
  /\ UNCHANGED <<rowVars, peer, jobVars, run, late, scan>>

\* Retry, with retry_blocker's conditions.
Retry(s, k) ==
  /\ RetryAllowed
  /\ failed[s][k] > 0
  /\ ~HasOpenJob(k, s)
  /\ k = "create" => status[s] = "provisioning"
  /\ k = "enable" => Paid(s)
  /\ failed' = [failed EXCEPT ![s][k] = @ - 1]
  /\ Queue(s, k)
  /\ UNCHANGED <<rowVars, peer, run, late, scan, edit>>

-----------------------------------------------------------------------------
(* The scheduler. *)

\* check_expired_subscriptions reads what has expired and has no disable job
\* queued, and tells the customers ...
ScanExpired ==
  /\ scan = {}
  /\ scan' = {s \in Subs : status[s] = "active" /\ Expired(s) /\ ~HasOpenJob("disable", s)}
  /\ scan' # {}
  /\ UNCHANGED <<rowVars, peer, jobVars, run, late, edit>>

\* ... before it commits the disable jobs of all of them.
CommitScan ==
  /\ scan # {}
  /\ \A s \in scan : open[s]["disable"] < MaxJobs
  /\ open' = [s \in Subs |-> IF s \in scan THEN [open[s] EXCEPT !["disable"] = @ + 1] ELSE open[s]]
  /\ scan' = {}
  /\ UNCHANGED <<rowVars, peer, failed, run, late, edit>>

\* cleanup_removed_peers, for the subscriptions past their grace period.
Cleanup ==
  LET due == {s \in Subs : /\ status[s] = "disabled" /\ disabledFor[s] = Grace
                           /\ ~HasOpenJob("remove", s)} IN
  /\ due # {}
  /\ open' = [s \in Subs |-> IF s \in due THEN [open[s] EXCEPT !["remove"] = 1] ELSE open[s]]
  /\ UNCHANGED <<rowVars, peer, failed, run, late, scan, edit>>

-----------------------------------------------------------------------------
(* The worker. *)

Renewed_RemoveAnyway(s, k) == k = "disable" /\ Paid(s)

\* _renewed: a job of the scheduler's does nothing to a subscription paid since.
Renewed(s, k) == k \in {"disable", "remove"} /\ Paid(s)

\* Whether _process_job calls the server for the row as it is now.
NeedsCall(s, k) == k = "create" \/ (hasPeer[s] /\ ~Renewed(s, k))

\* The job ends well.
Done(s, k) == open' = [open EXCEPT ![s][k] = @ - 1]

\* The worker reads the row and either calls the server ...
Begin(s, k) ==
  /\ run = Idle
  /\ open[s][k] > 0
  /\ NeedsCall(s, k)
  /\ ChangeInCall \/ edit.sub # s
  /\ run' = [sub |-> s, kind |-> k, phase |-> "calling", snap |-> status[s], changed |-> FALSE]
  /\ UNCHANGED <<rowVars, peer, jobVars, late, scan, edit>>

\* ... or finds nothing to do.
Skip(s, k) ==
  /\ run = Idle
  /\ open[s][k] > 0
  /\ ~NeedsCall(s, k)
  /\ Done(s, k)
  /\ UNCHANGED <<rowVars, peer, failed, run, late, scan, edit>>

\* The peer after a call of vpnctl: a peer is made once, a disabled one can be
\* enabled for as long as it has not been removed.
PeerAfter(k, p) ==
  CASE k = "create"  -> IF p = "none" THEN "on" ELSE p
    [] k = "disable" -> IF p = "on" THEN "off" ELSE p
    [] k = "remove"  -> "none"
    [] k = "enable"  -> "on"

ServerActs_EnableRemoved ==
  /\ run.phase = "calling"
  /\ peer' = [peer EXCEPT ![run.sub] = PeerAfter(run.kind, @)]
  /\ run'  = [run EXCEPT !.phase = "answered"]
  /\ UNCHANGED <<rowVars, jobVars, late, scan, edit>>

\* The server does what it was asked to. Enabling a removed peer it refuses.
ServerActs ==
  /\ run.phase = "calling"
  /\ run.kind = "enable" => peer[run.sub] # "none"
  /\ peer' = [peer EXCEPT ![run.sub] = PeerAfter(run.kind, @)]
  /\ run'  = [run EXCEPT !.phase = "answered"]
  /\ UNCHANGED <<rowVars, jobVars, late, scan, edit>>

\* Removing a peer that is on takes it off the interface before its files are
\* deleted, and may stop there (PeerServer's SwitchOff).
SwitchOff ==
  /\ LostAnswers
  /\ run.phase = "calling" /\ run.kind = "remove"
  /\ peer[run.sub] = "on"
  /\ peer' = [peer EXCEPT ![run.sub] = "off"]
  /\ UNCHANGED <<rowVars, jobVars, run, late, scan, edit>>

\* The row is written from the worker's copy of it.
Write(s, new) == status' = IF run.snap = new THEN status ELSE [status EXCEPT ![s] = new]

MarkActive(s) ==
  /\ Write(s, "active")
  /\ hasPeer' = [hasPeer EXCEPT ![s] = TRUE]
  /\ UNCHANGED <<disabledFor, removed>>

MarkDisabled_Undated(s) ==
  /\ Write(s, "disabled")
  /\ UNCHANGED <<hasPeer, disabledFor, removed>>

MarkDisabled(s) ==
  /\ Write(s, "disabled")
  /\ disabledFor' = [disabledFor EXCEPT ![s] = 0]
  /\ UNCHANGED <<hasPeer, removed>>

MarkRemoved(s) ==
  /\ Write(s, "expired")
  /\ removed' = [removed EXCEPT ![s] = TRUE]
  /\ UNCHANGED <<hasPeer, disabledFor>>

\* What the job leaves in the row, and mark_completed: one commit.
Commit ==
  /\ run.phase = "answered"
  /\ \/ run.kind = "create" /\ MarkActive(run.sub)
     \/ run.kind = "disable" /\ MarkDisabled(run.sub)
     \/ run.kind = "remove" /\ MarkRemoved(run.sub)
     \/ run.kind = "enable" /\ UNCHANGED <<status, hasPeer, disabledFor, removed>>
  /\ Done(run.sub, run.kind)
  /\ edit' = [edit EXCEPT !.changed = @ \/ edit.sub = run.sub]
  /\ run' = Idle
  /\ UNCHANGED <<left, peer, failed, late, scan>>

\* A call that has not acted is left to itself: it goes on, or has come to nothing.
Abandon ==
  \/ UNCHANGED late
  \/ LateCalls /\ run.phase = "calling" /\ late = Idle /\ late' = [run EXCEPT !.snap = "none"]

\* The call fails or times out, with or without effect, and the row is left as it
\* was. The job is tried again, or has failed for good.
Fail ==
  LET s == run.sub
      k == run.kind
  IN
  /\ run.phase = "calling" \/ (run.phase = "answered" /\ LostAnswers)
  /\ \/ UNCHANGED jobVars
     \/ /\ Done(s, k)
        /\ failed' = [failed EXCEPT ![s][k] = IF @ < MaxJobs THEN @ + 1 ELSE @]
  /\ Abandon
  /\ run' = Idle
  /\ UNCHANGED <<rowVars, peer, scan, edit>>

\* The worker dies. Its job is claimed again once its lease has ended.
Crash ==
  /\ run # Idle
  /\ run.phase = "answered" => LostAnswers
  /\ Abandon
  /\ run' = Idle
  /\ UNCHANGED <<rowVars, peer, jobVars, scan, edit>>

\* The late call does what it was asked, or is ended halfway through a removal;
\* whatever the worker has asked for since.
LateActs ==
  LET s == late.sub IN
  /\ late # Idle
  /\ \/ /\ late.kind = "enable" => peer[s] # "none"
        /\ peer' = [peer EXCEPT ![s] = PeerAfter(late.kind, @)]
     \/ late.kind = "remove" /\ peer[s] = "on" /\ peer' = [peer EXCEPT ![s] = "off"]
  /\ late' = Idle
  /\ UNCHANGED <<rowVars, jobVars, run, scan, edit>>

-----------------------------------------------------------------------------
Tick_PastZero ==
  /\ left' = [s \in Subs |-> left[s] - 1]
  /\ late' = Idle
  /\ disabledFor' = [s \in Subs |-> IF disabledFor[s] \in 0..(Grace - 1)
                                      THEN disabledFor[s] + 1 ELSE disabledFor[s]]
  /\ UNCHANGED <<status, hasPeer, removed, peer, jobVars, run, scan, edit>>

\* Time passes; a tick is longer than a late call may live. A handler may see one pass,
\* but does not outlive the time it adds.
Tick ==
  /\ edit' = IF edit.left > 1 THEN [edit EXCEPT !.left = @ - 1] ELSE NoEdit
  /\ left' = [s \in Subs |-> IF left[s] > 0 THEN left[s] - 1 ELSE 0]
  /\ late' = Idle
  /\ disabledFor' = [s \in Subs |-> IF disabledFor[s] \in 0..(Grace - 1)
                                      THEN disabledFor[s] + 1 ELSE disabledFor[s]]
  /\ UNCHANGED <<status, hasPeer, removed, peer, jobVars, run, scan>>

Admin     == \/ \E s \in Subs : \/ ApproveNew(s) \/ ReadToRenew(s) \/ ReadToExtend(s) \/ ReadToCut(s)
                                \/ \E k \in Kinds : Retry(s, k)
             \/ Flush \/ Drop
Scheduler == ScanExpired \/ CommitScan \/ Cleanup
Take      == \E s \in Subs, k \in Kinds : Begin(s, k) \/ Skip(s, k)
Worker    == Take \/ ServerActs \/ SwitchOff \/ Commit \/ Fail \/ Crash

Next == Admin \/ Scheduler \/ Worker \/ LateActs \/ Tick

Spec == Init /\ [][Next]_vars

\* The scheduler's passes and the worker's loop are timers that never stop, time
\* passes, and every call ends, if only by its timeout. The worker takes jobs in
\* the order they were queued, so it comes to each; and a server that is asked
\* again and again to switch a peer off or to remove it does so at last, and its
\* answer arrives. Enabling and creating peers may fail for ever.
Fairness ==
  /\ WF_vars(ScanExpired) /\ WF_vars(CommitScan) /\ WF_vars(Cleanup)
  /\ WF_vars(Commit \/ Fail)
  /\ WF_vars(Tick)
  /\ \A s \in Subs :
       LET cuts == {"disable", "remove"} IN
       /\ SF_vars(\E k \in cuts : Begin(s, k) \/ Skip(s, k))
       /\ SF_vars(ServerActs /\ run.sub = s /\ run.kind \in cuts)
       /\ SF_vars(Commit /\ run.sub = s /\ run.kind \in cuts)

FairSpec == Spec /\ Fairness
-----------------------------------------------------------------------------
(* Properties. *)

Calls == [sub : Subs \union {NoSub}, kind : Kinds,
          phase : {"idle", "calling", "answered"},
          snap : {"none", "provisioning", "active", "disabled", "expired"},
          changed : BOOLEAN]

Edits == [sub : Subs \union {NoSub}, left : 0..MaxLeft,
          sets : SUBSET {"status", "disabled_at"}, changed : BOOLEAN]

TypeOK ==
  /\ status \in [Subs -> {"none", "provisioning", "active", "disabled", "expired"}]
  /\ left \in [Subs -> 0..(MaxLeft + Period)]
  /\ hasPeer \in [Subs -> BOOLEAN]
  /\ disabledFor \in [Subs -> {Never} \union 0..Grace]
  /\ removed \in [Subs -> BOOLEAN]
  /\ peer \in [Subs -> {"none", "on", "off"}]
  /\ open \in [Subs -> [Kinds -> 0..MaxJobs]]
  /\ failed \in [Subs -> [Kinds -> 0..MaxJobs]]
  /\ run \in Calls /\ late \in Calls
  /\ scan \subseteq Subs
  /\ edit \in Edits

\* Nothing takes a paid subscription out of service: "A disable or remove job
\* the scheduler queued at expiry must not undo a renewal that came after it."
RenewalStands ==
  [][\A s \in Subs : Paid(s) => status'[s] = "active"]_vars

\* The one way it can happen all the same to a row that shows it: the renewal came after
\* the worker had read the row and before the call it then made acted, or was answered.
LossInCall ==
  \A s \in Subs :
    Paid(s) /\ (status'[s] # "active" \/ (peer[s] = "on" /\ peer'[s] # "on"))
      => \E c \in {run, late} : c.sub = s /\ c.changed

LossOnlyInCall == [][LossInCall]_vars

\* Why: the worker calls the server to disable or remove a peer only after it
\* read a row that was not paid, and the row stays so unless it is changed.
CallsUnpaid ==
  \A c \in {run, late} : c.kind \in {"disable", "remove"} /\ ~c.changed => ~Paid(c.sub)

\* A paid subscription has its peer, once its enable jobs are through.
PaidHasPeer ==
  \A s \in Subs :
    Paid(s) /\ run.sub # s /\ open[s]["enable"] = 0 /\ failed[s]["enable"] = 0
      => peer[s] = "on"

\* A peer that was removed stays removed, whatever job runs after.
RemovedHasNoPeer ==
  \A s \in Subs : removed[s] => peer[s] = "none"

\* "disabled_at <= cutoff_date": cleanup_removed_peers finds every disabled row.
DisabledIsDated ==
  \A s \in Subs : status[s] = "disabled" => disabledFor[s] # Never

\* A row that is given time is active: the peer of a disabled one is turned back on.
RenewalShows ==
  [][\A s \in Subs : left'[s] > left[s] => status'[s] \in {"provisioning", "active"}]_vars

\* Neither is lost but where the worker wrote the row between the handler's read and its
\* flush: then the row, which is disabled by now, was active in the handler's copy.
LossInEdit ==
  \A s \in Subs :
    \/ left'[s] > left[s] /\ status'[s] \notin {"provisioning", "active"}
    \/ /\ status'[s] = "disabled" /\ disabledFor'[s] = Never
       /\ status[s] # "disabled" \/ disabledFor[s] # Never
    => edit.sub = s /\ edit.changed

LossOnlyInEdit == [][LossInEdit]_vars

\* "The scheduler doesn't queue a job if the same one is already pending."
NoDuplicateJobs ==
  \A s \in Subs : open[s]["disable"] <= 1 /\ open[s]["remove"] <= 1

\* Retry gives no peer to a subscription that has run out: "Create and enable jobs
\* don't [check for a renewal], so an old one must not give a peer to a customer
\* whose subscription has since been cancelled or has run out."
RetryChecksExpiry ==
  [][\A s \in Subs, k \in {"create", "enable"} :
       failed'[s][k] < failed[s][k] => ~Expired(s)]_vars

\* A client that was switched off is not switched on again: "the bot never
\* re-enables expired clients".
StaysOff ==
  [][\A s \in Subs : peer[s] = "off" => peer'[s] # "on"]_vars

\* A client is deleted only after its grace period.
GraceRespected ==
  [][\A s \in Subs : peer[s] # "none" /\ peer'[s] = "none" => disabledFor[s] = Grace]_vars

\* The scheduler's passes look for rows that are active, or disabled with a date.
Findable(s) == status[s] = "active" \/ (status[s] = "disabled" /\ disabledFor[s] # Never)

\* A peer whose subscription has run out is switched off in the end, or renewed, if the
\* scheduler can find it.
ExpiredIsCut ==
  \A s \in Subs : (Expired(s) /\ Findable(s) /\ peer[s] = "on") ~> (peer[s] # "on" \/ ~Expired(s))

\* A disabled subscription that has run out and is dated is removed in the end, or renewed.
DisabledIsRemoved ==
  \A s \in Subs : (Expired(s) /\ Findable(s) /\ status[s] = "disabled") ~> (removed[s] \/ ~Expired(s))
=============================================================================
