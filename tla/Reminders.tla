------------------------------ MODULE Reminders ------------------------------
(***************************************************************************)
(* What customers are told about the end of their subscriptions: the       *)
(* scheduler's two passes that send messages (scheduler/service), the      *)
(* notification rows that keep them from being sent twice                  *)
(* (db/repositories/audit_repo), and what moves the expiry or switches off *)
(* under them: renewals, the admin's /extend and Retry, the worker's jobs. *)
(*                                                                         *)
(* Each pass is one transaction: it records a message, sends it, goes on   *)
(* to the next subscription, and commits at the end. From its first insert *)
(* to its commit it holds SQLite's write lock, so nobody else writes.      *)
(*                                                                         *)
(* A definition whose name ends in an underscore and a word is the one     *)
(* before the underscore with a mistake in it, which a property excludes.  *)
(***************************************************************************)
EXTENDS Integers

CONSTANTS
  Subs,         \* subscriptions
  Thresholds,   \* REMINDER_DAYS_BEFORE_EXPIRY
  Day,          \* ticks in a day
  Period,       \* ticks a plan adds
  Horizon,      \* bound: no expiry lies beyond this time
  CrashBudget,  \* bound: crashes of the scheduler
  CutBudget,    \* bound: uses of /extend with negative days
  MaxFailed,    \* bound: disable jobs of a subscription that have failed for good
  Punctual      \* do the scheduler and the worker get round to everything in a tick?

ASSUME RemindersAssumption ==
  /\ Thresholds \subseteq Nat \ {0}
  /\ \E d \in Thresholds : \A e \in Thresholds : e <= d   \* it is a finite list
  /\ Day \in Nat \ {0}
  /\ Period \in Nat /\ Period > Day
  /\ Horizon \in Nat /\ Horizon >= Period
  /\ CrashBudget \in Nat /\ CutBudget \in Nat /\ MaxFailed \in Nat
  /\ Punctual \in BOOLEAN

Passes  == {"expiring", "expired"}
Expired == 0                          \* the kind of message that is no reminder
Dates   == 0 .. Horizon \div Day
Keys    == Subs \X (Thresholds \union {Expired}) \X Dates

VARIABLES
  now,
  expires,  \* subscriptions.expires_at
  active,   \* is subscriptions.status "active"? Otherwise it is "disabled".
  jobs,     \* subscriptions with an open disable job
  failed,   \* how many disable jobs of each have failed for good
  reopened, \* subscriptions whose open job comes from Retry
  rows,     \* keys of the notification rows that are committed
  begun,    \* when the pass that is going on began, or Never
  todo,     \* the subscriptions it has listed and not dealt with, as it read them
  wrote,    \* the keys it has inserted and not committed
  queued,   \* the subscriptions it has inserted disable jobs for
  checked,  \* since the last tick a pass over what expires soon, and one over what
            \* has expired, have begun and ended
  shortened,  \* subscriptions that an admin took time from since the last tick
  told,     \* how often the customer got each message
  cuts,     \* uses of /extend with negative days
  crashes

subVars  == <<expires, active, shortened, cuts>>
jobVars  == <<jobs, failed, reopened>>
passVars == <<begun, todo, wrote, queued>>
vars == <<now, subVars, jobVars, rows, passVars, checked, told, crashes>>

-----------------------------------------------------------------------------
Never == -1

Init ==
  /\ now     = 0
  /\ expires = [s \in Subs |-> Period]
  /\ active  = [s \in Subs |-> TRUE]
  /\ jobs    = {}
  /\ failed  = [s \in Subs |-> 0]
  /\ reopened = {}
  /\ shortened = {}
  /\ cuts    = 0
  /\ rows    = {}
  /\ begun   = [p \in Passes |-> Never]
  /\ todo    = [p \in Passes |-> {}]
  /\ wrote   = [p \in Passes |-> {}]
  /\ queued  = [p \in Passes |-> {}]
  /\ checked = {}
  /\ told    = [k \in Keys |-> 0]
  /\ crashes = 0

MaxThreshold == CHOOSE d \in Thresholds : \A e \in Thresholds : e <= d

\* The write lock is held by a pass that has inserted something.
Holds(p)  == wrote[p] \union queued[p] # {}
Free(p)   == \A q \in Passes \ {p} : ~Holds(q)
Writable  == \A p \in Passes : ~Holds(p)

Entry(s) == [sub |-> s, expires |-> expires[s]]

-----------------------------------------------------------------------------
(* The passes. *)

Begin(p, subs) ==
  /\ begun[p] = Never
  /\ begun'   = [begun EXCEPT ![p] = now]
  /\ todo'    = [todo EXCEPT ![p] = {Entry(s) : s \in subs}]
  /\ checked' = checked \ {p}
  /\ UNCHANGED <<now, subVars, jobVars, rows, wrote, queued, told, crashes>>

\* list_expiring_soon.
BeginExpiring ==
  Begin("expiring", {s \in Subs : active[s] /\ now < expires[s] /\ expires[s] <= now + MaxThreshold * Day})

BeginExpired ==
  Begin("expired", {s \in Subs : active[s] /\ expires[s] <= now})

\* The pass is over, with whatever is left of its transaction rolled back.
End(p) ==
  /\ begun'  = [begun EXCEPT ![p] = Never]
  /\ todo'   = [todo EXCEPT ![p] = {}]
  /\ wrote'  = [wrote EXCEPT ![p] = {}]
  /\ queued' = [queued EXCEPT ![p] = {}]

\* The idempotency key has the date of the expiry in it.
Key(kind, e) == <<e.sub, kind, e.expires \div Day>>

Matched_AnyOver(e) ==
  LET days == (e.expires - begun["expiring"]) \div Day
      fits == {d \in Thresholds : days <= d + 1}
  IN  CHOOSE d \in fits : \A x \in fits : d <= x

\* The smallest threshold that the whole days left do not exceed.
Matched(e) ==
  LET days == (e.expires - begun["expiring"]) \div Day
      fits == {d \in Thresholds : days <= d}
  IN  CHOOSE d \in fits : \A x \in fits : d <= x

Known_OwnOnly(p, k) == k \in wrote[p]

Known_AnyDate(p, k) == \E r \in rows \union wrote[p] : r[1] = k[1] /\ r[2] = k[2]

Known(p, k) == k \in rows \union wrote[p]

Send(k) == \/ told' = [told EXCEPT ![k] = @ + 1]
           \/ UNCHANGED told     \* Telegram fails; that is logged and no more

\* create_notification_if_not_exists and, if it is created, the message.
Notify(p, k) ==
  \/ /\ Known(p, k)
     /\ UNCHANGED <<wrote, told>>
  \/ /\ ~Known(p, k)
     /\ Free(p)
     /\ wrote' = [wrote EXCEPT ![p] = @ \union {k}]
     /\ Send(k)

Takes(p, e) ==
  /\ e \in todo[p]
  /\ todo' = [todo EXCEPT ![p] = @ \ {e}]

Remind(e) ==
  /\ Takes("expiring", e)
  /\ Notify("expiring", Key(Matched(e), e))
  /\ UNCHANGED <<now, subVars, jobVars, rows, begun, queued, checked, crashes>>

\* With an open disable job nothing is done, and nobody told.
SkipOpen(e) ==
  /\ Takes("expired", e)
  /\ e.sub \in jobs
  /\ UNCHANGED <<now, subVars, jobVars, rows, begun, wrote, queued, checked, told, crashes>>

QueueAndTell(e) ==
  /\ Takes("expired", e)
  /\ e.sub \notin jobs
  /\ Free("expired")
  /\ queued' = [queued EXCEPT !["expired"] = @ \union {e.sub}]
  /\ Notify("expired", Key(Expired, e))
  /\ UNCHANGED <<now, subVars, jobVars, rows, begun, checked, crashes>>

CommitPass(p) ==
  /\ begun[p] # Never /\ todo[p] = {}
  /\ rows'    = rows \union wrote[p]
  /\ jobs'    = jobs \union queued[p]
  /\ checked' = IF begun[p] = now THEN checked \union {p} ELSE checked
  /\ End(p)
  /\ UNCHANGED <<now, subVars, failed, reopened, told, crashes>>

\* Its first insert waits for another process's lock for too long: it ends there.
LockedOut(p) ==
  /\ todo[p] # {} /\ ~Holds(p)
  /\ End(p)
  /\ UNCHANGED <<now, subVars, jobVars, rows, checked, told, crashes>>

Crash ==
  /\ crashes < CrashBudget
  /\ begun'   = [p \in Passes |-> Never]
  /\ todo'    = [p \in Passes |-> {}]
  /\ wrote'   = [p \in Passes |-> {}]
  /\ queued'  = [p \in Passes |-> {}]
  /\ crashes' = crashes + 1
  /\ UNCHANGED <<now, subVars, jobVars, rows, checked, told>>

-----------------------------------------------------------------------------
(* The others. *)

\* An approved renewal adds to the expiry, or to now if that is later, and makes the
\* row active. (What its copy of the row may be is Access's subject.)
Renew(s) ==
  /\ Writable
  /\ LET new == (IF expires[s] > now THEN expires[s] ELSE now) + Period IN
       /\ new <= Horizon
       /\ expires' = [expires EXCEPT ![s] = new]
  /\ active' = [active EXCEPT ![s] = TRUE]
  /\ UNCHANGED <<now, shortened, cuts, jobVars, rows, passVars, checked, told, crashes>>

\* /extend with negative days takes whole days away, and changes nothing else.
CutShort(s) ==
  /\ Writable
  /\ cuts < CutBudget
  /\ cuts' = cuts + 1
  /\ \E days \in 1 .. expires[s] \div Day :
       expires' = [expires EXCEPT ![s] = @ - days * Day]
  /\ shortened' = shortened \union {s}
  /\ UNCHANGED <<now, active, jobVars, rows, passVars, checked, told, crashes>>

\* The worker's disable job, which is skipped after a renewal. (A renewal during its
\* call to the server is Access's subject.)
SwitchOff(s) ==
  /\ Writable
  /\ s \in jobs
  /\ jobs'     = jobs \ {s}
  /\ reopened' = reopened \ {s}
  /\ active'   = [active EXCEPT ![s] = @ /\ expires[s] > now]
  /\ UNCHANGED <<now, expires, shortened, cuts, failed, rows, passVars, checked, told, crashes>>

\* A disable job that fails for good leaves the row as it is ...
GiveUp(s) ==
  /\ Writable
  /\ s \in jobs
  /\ failed[s] < MaxFailed
  /\ jobs'     = jobs \ {s}
  /\ failed'   = [failed EXCEPT ![s] = @ + 1]
  /\ reopened' = reopened \ {s}
  /\ UNCHANGED <<now, subVars, rows, passVars, checked, told, crashes>>

\* ... and can be opened again by the admin's Retry at any later time: retry_blocker
\* asks of a disable job only that no other is open.
Retry(s) ==
  /\ Writable
  /\ failed[s] > 0 /\ s \notin jobs
  /\ jobs'     = jobs \union {s}
  /\ failed'   = [failed EXCEPT ![s] = @ - 1]
  /\ reopened' = reopened \union {s}
  /\ UNCHANGED <<now, subVars, rows, passVars, checked, told, crashes>>

Tick ==
  /\ now < Horizon
  /\ Punctual => checked = Passes /\ jobs = {}
  /\ now'       = now + 1
  /\ checked'   = {}
  /\ shortened' = {}
  /\ UNCHANGED <<expires, active, cuts, jobVars, rows, passVars, told, crashes>>

Next ==
  \/ BeginExpiring \/ BeginExpired \/ Crash \/ Tick
  \/ \E e \in todo["expiring"] : Remind(e)
  \/ \E e \in todo["expired"] : SkipOpen(e) \/ QueueAndTell(e)
  \/ \E p \in Passes : CommitPass(p) \/ LockedOut(p)
  \/ \E s \in Subs : Renew(s) \/ CutShort(s) \/ SwitchOff(s) \/ GiveUp(s) \/ Retry(s)

Spec == Init /\ [][Next]_vars

-----------------------------------------------------------------------------
(* Properties. *)

TypeOK ==
  /\ now \in 0 .. Horizon
  /\ expires \in [Subs -> 0 .. Horizon]
  /\ active \in [Subs -> BOOLEAN]
  /\ jobs \subseteq Subs
  /\ failed \in [Subs -> 0 .. MaxFailed]
  /\ reopened \subseteq jobs
  /\ shortened \subseteq Subs /\ cuts \in 0 .. CutBudget
  /\ rows \subseteq Keys
  /\ begun \in [Passes -> {Never} \union 0 .. Horizon]
  /\ todo \in [Passes -> SUBSET [sub : Subs, expires : 0 .. Horizon]]
  /\ wrote \in [Passes -> SUBSET Keys]
  /\ queued \in [Passes -> SUBSET Subs]
  /\ checked \subseteq Passes
  /\ told \in [Keys -> 0 .. 1 + CrashBudget]
  /\ crashes \in 0 .. CrashBudget

\* "Second run is idempotent (no duplicate message)", says the test of the pass.
NoRepeats == \A k \in Keys : told[k] <= 1

\* Whatever passes overlap, are locked out or die, a message is repeated only by a
\* crash that came between sending it and the commit: once for each crash.
RepeatsNeedCrash == \A k \in Keys : told[k] <= 1 + crashes

\* Every expiry that comes has been announced, that of a renewed subscription too, and
\* that of one cut short unless that was since the last passes.
WarnedInTime ==
  [][\A s \in Subs : active[s] /\ s \notin shortened /\ expires[s] > now /\ expires[s] = now' =>
       \E d \in Thresholds : <<s, d, expires[s] \div Day>> \in rows
    ]_vars

\* A peer is not switched off at expiry without a notice for that very expiry, unless
\* an admin has just moved the expiry or has opened an old disable job again.
OffIsAnnounced ==
  [][\A s \in Subs : active[s] /\ ~active'[s] /\ s \notin shortened \union reopened =>
       <<s, Expired, expires[s] \div Day>> \in rows
    ]_vars

\* Without those exceptions: Retry of an old job, pressed after the next expiry and
\* before its pass, switches the customer off with no notice, for has_open_job is true.
NotCutInSilence ==
  [][\A s \in Subs : active[s] /\ ~active'[s] => <<s, Expired, expires[s] \div Day>> \in rows]_vars

\* The whole days left are rounded down, so a reminder may come before its day, but by
\* less than a day, however old the list of the pass is.
NotADayEarly ==
  [][\A k \in Keys : told'[k] > told[k] /\ k[2] # Expired => (k[3] - k[2] - 1) * Day < now]_vars

\* "Reminders go out REMINDER_DAYS_BEFORE_EXPIRY days before expiry", not earlier.
NotEarly ==
  [][\A k \in Keys : told'[k] > told[k] /\ k[2] # Expired => expires[k[1]] - now <= k[2] * Day]_vars
=============================================================================
