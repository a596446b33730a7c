# amnezia_vpn_bot in TLA+

Models, checks and proofs of the bot in this repository: a Telegram bot that
sells VPN subscriptions, a worker that makes them true on a VPN server, a
scheduler that ends them, and `vpnctl`, the script on the server that changes
its files and its interface. Line numbers are those of the sources under `src/`
at the commit that is modelled; PROJECT.json maps every definition to its lines.

## The system

Three programs share one SQLite database, and one script runs on the server.

    customer, admins                 scheduler (hourly)            worker (every few seconds)
          |                                |                              |
    bot handlers --- orders, tickets --- reminders, expiry --- job table --- claims, runs
          |              (rows)            |                              |
          +-------------- SQLite (one writer at a time) ------------------+
                                                                          | vpnctl calls
                                                              awg1.conf, clients/*, interface

- The bot handles updates concurrently, each with a database session of its own.
  A session keeps the rows that it read; a handler decides on that copy and
  writes later, and an attribute that the copy has already is not written.
- A job is leased, run and marked in three transactions. What it does in between
  is outside the database: calls to the server, messages to the customer.
- A call to `vpnctl` can fail, be repeated, take effect and lose its answer, or
  stop half way.

### Components

| component | state | operations | modules |
|---|---|---|---|
| job queue | `provisioning_jobs` rows: status, attempts, available_at, locked_by, locked_at | enqueue, claim_pending_jobs, mark_completed, mark_failed, Retry | JobContract, JobQueue, JobQueueProofs |
| access lifecycle | `subscriptions` rows, the peers, the jobs that bring them in line | approve, renew, /extend, expiry pass, clean-up pass, create/enable/disable/remove jobs, Retry | Access, AccessProofs |
| peer registry | awg1.conf, clients/NAME.conf and .peer, the live interface, the lock | create-peer, disable-peer, enable-peer, remove-peer; reboot; the operator's own script | PeerServer, Vpnctl, VpnctlProofs |
| orders | `orders` rows, the chat that waits for a receipt | start, receipt, approve (new, renewal), reject, fulfil | Orders, OrdersProofs |
| sales | room and pause of a server, the menus | choose a plan, choose a renewal, approve, pause button, config sync | Sales, SalesProofs |
| support | `support_tickets` rows, two chat states | ask, write, reply, close | Tickets, RequestsProofs |
| reminders | `notifications` rows, the writer lock | the reminder pass, the expiry pass | Reminders, RemindersProofs |
| redelivery | config_redelivery_count, redeliver jobs | the button, the worker's run, Retry | Delivery, RequestsProofs |
| chat | the FSM state and data of a chat, a `users` row: language, is_blocked | first contact, every handler that sets or clears the state, language, block and unblock | Chat, ChatProofs |

How they meet: an approval (Orders) makes a subscription and its create job in
one transaction (Access); a job is a row that JobQueue hands to one runner; what
the runner asks of the server is a call of Vpnctl; expiry (Access) is announced
by Reminders; a place that Sales offers is filled by an approval; Delivery's jobs
are jobs of JobQueue. Chat is where a person's orders, support messages and, of an
admin, answers to tickets meet: they share one state. Each model keeps of its neighbours what it needs, as steps
that may happen at any time. PeerServer is what Access assumes of Vpnctl, and
Vpnctl is proved to implement it until the first fault; JobContract is what Access and
Delivery assume of JobQueue (one runner for a job, bounded tries), and JobQueue is
proved to implement it.

### What is hard here, and what makes each part correct

PROJECT.json lists each hazard at its line. In short:

- **job queue**: leases that run out under a live worker, workers that die with a
  batch, overlapping Retry. Correct: one runner at a time, bounded attempts,
  settled jobs stay settled, every job settles.
- **access**: the row is read before the call and written after, and an approval reads
  and writes it in two steps as well; answers are lost; a
  call that timed out is still carried out, after the next one; jobs wait while the
  subscription is renewed and expires again. Correct: who has paid has a peer, who has
  not has none in the end, and no late job undoes a renewal.
- **vpnctl**: four writes, each of which can be the last. Correct: files and
  interface agree, addresses are distinct, a repeated call finishes the first one.
- **orders**: overlapping reviews and receipts on old copies; restarts. Correct: an
  approval stands, one subscription per order, each renewal counted once.
- **sales**: check at the menu, use at the approval. Correct: what is sold was offered.
- **support**: find-or-create without a unique key. Correct: one open ticket.
- **reminders**: messages first, commit last, and two passes on one writer lock.
  Correct: told once, told in time, never cut off unannounced.
- **redelivery**: checked at the press, counted after the send. Correct: the
  count is what was sent.
- **chat**: routed by the state when an update arrives, taken by the data when its
  handler gets to it. Correct: what a person writes goes to what the last screen
  asked for, a choice of language is kept, a block holds.

## The modules

Every module's header names the sources it models, and every bound is a constant
with the comment "bound". A definition whose name ends in an underscore and a word
(`Won_Stale`, `Known_AnyDate`) is the definition before the underscore with a
mistake in it: a property that the code has fails of a model with the mistake, and
PROJECT.json's "mutants" says which. They are used by nothing else.

**JobContract** says what a job table is for: a job that is submitted is taken by
one worker at a time, tried a bounded number of times, and ends succeeded or
failed for good; only a reopening brings it back.

**JobQueue** models job_repo.py, the loop of engine.py and Retry. A row is
`status`, `attempts`, `owner` (locked_by), `age` (ticks since locked_at) and
`avail` (ticks until available_at); time is relative, so the state space is finite
although behaviours go on for ever. `Poll` selects candidates as
claim_pending_jobs does, `ClaimBatch` is its claim_one updates and their commit,
`MarkCompleted` and `MarkFailed` end the first job of the batch, `Abandon` is a
worker that dies, `RetryCheck`/`Requeue` the two halves of the Retry button.
`Contract` is the refinement mapping to JobContract: `JobState` is what a row shows,
`Runner` who has the job in a batch.

**Access** models a subscription through approve_order_atomic, /extend, the
scheduler's two passes, the worker's four kinds of job and Retry. `left` is the
time to expires_at, `disabledFor` the time since disabled_at, `peer` what the
server has. `Begin` reads the row and starts the call, `ServerActs` is the moment
the server obeys, `Commit` the write of the row from the copy that was read
(`run.snap`), `Fail` a call that is reported as failed, whether or not the server
acted, `SwitchOff` a removal that stops half way. `Abandon` is a worker that gives a
call up, by its timeout or its death, and `LateActs` the moment the server obeys such
a call all the same, whatever was asked since. An approval of a renewal and /extend read
the row (`ReadToRenew`, and `ReadToExtend` and `ReadToCut` for a number of days above and
below zero) and write it at their flush, which may wait for the writer lock: `edit` holds
the new time and the attributes that differ from the copy, and `Flush` writes just these
to the row as it is by then, with an enable job if the copy was not active; `Drop` is a
handler that fails. `run.changed` and `late.changed` record that an admin changed the row
during a call, `edit.changed` that the worker did between an admin's read and flush.

**Vpnctl** models the script: every write of a file and every awg call is a step
of a process that holds the lock, with failures of awg, failures of writes, kills,
reboots and the operator's own awg-add-client.sh; `faults` counts them up to
`MaxFaults`. **PeerServer** is the atomic
registry; the mapping reads "on" off awg1.conf and "off" off clients/NAME.conf. awg1.conf is a sequence of blocks: `Named`
are the places of a client's blocks, `FindPeer` is the first of them, and `Cut` keeps
the others in their order.

**Orders**, **Tickets** and **Sales** model handlers that read a row in one step
and write it in another. A handler's copy is the `seen` (or `time`, `to`, `fits`)
of its record. `Restart` ends all handlers and empties MemoryStorage. In Orders
`BeginExtend` and `Extend` are the two halves of /extend, and `OpenSupport` and
`Forget` what support does to a chat that waits for a receipt. The definitions of Tickets
that every module has are called `TicketInit`, `TicketNext` and so on, because
RequestsProofs reads the module together with Delivery.

**Reminders** has one transaction per pass: `Remind` inserts a row and sends,
`CommitPass` commits, `LockedOut` fails a pass that meets the other's writer lock,
`Crash` rolls back what was inserted though messages are out. A reminder's key
holds the day of the expiry, as in service.py:84. Around them a subscription is renewed
(`Renew`) or cut short by /extend (`CutShort`), and its disable job ends (`SwitchOff`),
fails for good (`GiveUp`) and is opened again at any later time (`Retry`).

**Delivery** has the button in two steps (check, queue), and the worker in three
(read, send, count from its copy). `FailSend` is a failure before the config is out,
`FailCount` one that is reported after: an answer of Telegram's that comes too late, or a
count that a locked database refuses. Both leave the job to be tried again.

**Chat** takes one person's updates through routing (`Arrives`, by the state of that
moment), UserMiddleware (`Read`, or `Miss` and `Insert` at the first contact), the
handler (`Take` reads the data, `Finish` clears the state) and the screen (`Show`).
`waits`, `order` and `ticket` are the FSM's, `row` is the user's; `prompt`, `shown` and
`told` are what the person and the admins last saw. `talk` says whether that can be
relied upon: it is `"clear"` from a screen that nothing overlapped until updates
overlap, a handler fails after it changed the state, or the bot restarts.

## The runs

| run | instance | checks | distinct states |
|---|---|---|---|
| MCJobQueue | 2 workers, 2 jobs of one key, batches of 2, lease of 2 calls, 2 attempts, 1 crash, 1 Retry, fair | QueueInv, NoDoubleRun, AttemptsBounded, SettledStays, RefinesContract, OpenJobsSettle | 44,783 |
| MCAccess | 1 subscription, period 1, at most 2 ticks ahead, grace 2, jobs of a kind 1, lost answers, late calls, crashes, changes during calls, Retry, fair | TypeOK, RemovedHasNoPeer, CallsUnpaid, LossOnlyInCall, LossOnlyInEdit, ExpiredIsCut, DisabledIsRemoved | 532,591 |
| MCVpnctl | 2 clients (1 of the script), 3 addresses, 2 processes, every fault, at most 2 | TypeOK, AddressesApart, ConfigWorks, OnePeerEach, LiveIsConf, OnIsOn, OffWithoutFault, RefinesPeerServer | 5,671,168 |
| MCOrders | 3 orders (1 new, 2 renewals of one subscription), 1 receipt and 1 review or /extend at a time, 1 /extend | ApprovedStays, CountedOnce, NoneLost | 73,356 |
| MCTickets | 3 tickets, 1 message and 1 admin handler at a time | OneActive, NothingLost, ClosedStays | 3,300 |
| MCReminders | 1 subscription, thresholds of 1 and 2 days of 2 ticks, periods of a day and a half, 3 days, 1 crash, 1 cut by /extend, 1 failed job, punctual | RepeatsNeedCrash, NotADayEarly, WarnedInTime, OffIsAnnounced | 2,399,465 |
| MCSales | 4 orders, room for 1, 2 customers, 2 admins, symmetric | SoldFromOffer, PauseStays | 296,338 |
| MCDelivery | 4 jobs, limit 2, 2 presses, 1 worker, 1 crash, 1 failure after a send, 1 Retry | CountedWereSent, SentAreCounted, SentWithinLimit | 9,951 |
| MCChat | 2 updates at once, 3 orders, 2 tickets, 2 languages, 1 other admin, symmetric | WaitsForWhatItAsked, AnswersGoWhereAsked, LanguageKept, BlockHolds | 1,958,444 |
| MCAccessLost | lost answers | PaidHasPeer (violated) | |
| MCVpnctlAwgFails | 1 client, awg may fail once | OffIsOff (violated) | |
| MCOrdersTwoAdmins | 1 renewal, 2 reviews at once | CountedOnce (violated) | |

Types are proved (see below) of every module. MCAccess and MCVpnctl check TypeOK as
well: it is what the invariants of these two modules begin with.

Why these bounds are enough to be of use: two workers and two jobs are the least
with which a claim can be lost, a lease overrun and a batch be longer than one job;
one crash leaves one batch behind, and the same lock is then taken a second time.
A subscription of Access goes through expiry, clean-up and renewal more than once
(time is relative and the behaviours are infinite), and a failed job stays for
Retry through all of it; one late call at a time is enough for it to act after any
later one. An admin's read can be two ticks from its flush at most, in which the row
expires, is disabled and is removed. Three addresses for two clients let an address be reused
while a disabled client still names it, and the second of two faults can hit the
repetition that should mend the first. Two renewals and a new order let every
order be taken up, rejected, sent again and restarted between any two steps, and
/extend change the expiry in between. Two
thresholds with a day of two ticks let a reminder fall between them, a plan that is no
whole number of days ends in the middle of one, and the three days are two plans, the
second of which can be cut short and can meet the failed job of the first. Four orders with room for one let a place be given up, sold
again, and renewed meanwhile. Two updates can overlap at every step, three orders
give one to the screen, one to the data and one to each of them in turn, and two
tickets let an answer miss its own. MAX bounds (MaxJobs, MaxLeft, MaxExtended,
MaxFaults, Horizon, CrashBudget, CutBudget, MaxFailed, MissBudget,
RetryBudget, MaxSends, MaxLate) cut behaviours off and appear in guards only; the
proofs do not depend on their values.

CHECK_DEADLOCK is off where the system may stop: in JobQueue when all jobs have
settled and time no longer matters, in Access and Delivery when nobody acts any
more and the bounds are reached.

Symmetry is used in MCSales (orders, customers, admins) and MCChat (updates, orders,
tickets), whose properties treat the members of these sets alike; no liveness is
checked there.

### Conditions of the runs

Some properties hold only if an environment keeps to something. Each condition is
a constant or a named assumption, so that it can be seen, and dropping it is how
TLC shows what the code does without it (see below).

- JobQueue: a batch fits the lease (`BatchFitsLease`, 10 jobs in 5 minutes), or one
  worker runs, which is what docs/ARCHITECTURE.md advises; Retry presses do not
  overlap (`OneRetryAtATime`).
- Access: none in the run. `~ChangeInCall` (no admin's read and flush of a row overlap a
  call for it), `~LateCalls`, `~LostAnswers` and `~RetryAllowed` are conditions of theorems.
- Orders: `OneReceiptAtATime`, `OneReviewAtATime`.
- Tickets: `OneMessageAtATime`, `OneAdmin`, `~AnswersClosed`.
- Sales: `~LateRemoval`: no peer is removed while an order that renews it is open.
- Reminders: `Punctual`, for WarnedInTime and OffIsAnnounced: the passes and the
  worker get round to what is due in every tick. Both leave out an expiry that an admin
  has moved since the last passes (`shortened`), and OffIsAnnounced a disable job that
  Retry has opened (`reopened`). `RepeatsNeedCrash` and `NotADayEarly` need none.
- Chat: the three invariants speak of a clear talk (`talk`, above), and BlockHolds of
  one other admin (`OneBoss`).
- Delivery: one worker and a `Patient` customer for the two bounds on what is
  sent; `CountedWereSent` needs neither (proved).

### Fairness

OpenJobsSettle assumes that a worker's poll, claim and end of a job are weakly
fair (WorkerEngine.start polls for ever and every call it makes has a timeout),
that a Retry callback that has begun ends, and that time passes (strongly fair,
because the guards of Tick wait for calls to end). Nothing makes a customer order, an
admin press Retry, or a process die. One thing is a bound and not a fact: avail is followed MaxLate ticks into the
past, and the oldest job first needs MaxLate as large as a job can be kept waiting,
which 2 is for two jobs.

ExpiredIsCut and DisabledIsRemoved assume weakly fair passes, calls and time, and
strong fairness for the disable and remove jobs of a subscription, taken together: the
worker takes jobs in the order they were queued and so comes to them, and a server that is
asked again and again obeys in the end and its answer arrives. An admin's handler need not
end. Both speak of rows that a pass can find (`Findable`): active, or disabled with a date;
what becomes of the others is below. Without the last, a server
that is down for ever keeps its peers, which no bot can help.

## What the code does not keep

Three of these are runs with expected violations and findings in PROJECT.json. The
others are stated in the modules, in the words of a doc, a comment or a test; TLC
refutes each with the instance named, which is a passing run with one condition
dropped. Where the condition that would keep it can be said, a theorem says so.

| property | instance | what happens |
|---|---|---|
| Access!PaidHasPeer | MCAccessLost | The server disables the peer, its answer is lost, the row stays active; the renewal sees an active row and queues no enable job (order_repo.py:203), the disable job is skipped as renewed: paid and off. Without lost answers and late calls it holds (PaidIsServed). |
| Access!RenewalShows | MCAccess, Spec | An approval (or /extend) reads an active row, the worker disables it, and the approval flushes the new expiry alone, since its copy was active (order_repo.py:187, :232): paid, disabled, and no enable job (order_repo.py:203). LossOnlyInEdit says that this is the only way, and RenewalsShow that it does not happen where an admin's read and flush do not overlap a call. |
| Access!DisabledIsDated | MCAccess, Spec | The same, where the copy was active with a disabled_at, which a disable job that a renewal crossed can leave: the flush clears the date of a row that the worker has just disabled again. cleanup_removed_peers never finds it (subscription_repo.py:92), and if an enable job was still being retried its peer is on for good, since the expiry pass looks for active rows only. Kept on the same condition (DisabledRowsAreDated). |
| Vpnctl!NoSecondPeer | MCVpnctl | A create that fails or dies between the [Peer] block and the config leaves the block; the retried one looks for the config (vpnctl:314) and makes a second, against "must not create a second peer" (vpnctl:316). OnePeerEach: one for each fault, and no more. |
| Vpnctl!OffIsOff | MCVpnctlAwgFails | disable-peer rewrites awg1.conf, then awg fails (or it is killed); the retried call finds no block and reports success (vpnctl:390). |
| Orders!CountedOnce | MCOrdersTwoAdmins | Two admins approve one renewal at once; both add the days (order_repo.py:121). |
| Orders!NoneLost | two renewals of one subscription, 2 reviews | Both compute the expiry from the same copy; one plan is lost (order_repo.py:204). |
| Orders!ApprovedStays | 1 order, 2 reviews | A rejection checked on an old copy overwrites an approval (order_repo.py:242). |
| Orders!RenewsLivePeers | MCOrders | The peer is removed between the check and the commit of an approval (order_repo.py:190). |
| JobQueue!NoDoubleRun | MCJobQueue with CallTime 2, SPECIFICATION Spec | The lease of a batch runs out while its worker is busy; a second one runs its jobs too (job_repo.py:63). |
| JobQueue!RetryOnlyFailed | 2 Retry handlers | The second of two overlapping presses resets a job that is pending or running again (admin_jobs.py:126). |
| Access!RenewalStands | MCAccess, Spec | A renewal approved during the worker's call is undone by the write that follows it (engine.py:163). LossOnlyInCall says that this is the only way, and RenewalsStand that without changes during a call, and late calls, it holds. |
| Access!RetryChecksExpiry | MCAccess, Spec | Retry of a create job whose subscription ran out while provisioning (admin_jobs.py:52). |
| Access!StaysOff | MCAccess, Spec | docs/VPNCTL.md:58 says the bot never re-enables expired clients; a renewal does (order_repo.py:210). |
| Access!GraceRespected | MCAccess, Spec | A remove job left over from before a renewal deletes the peer at the next expiry at once (engine.py:179). |
| Access!NoDuplicateJobs | MCAccess with MaxJobs 2, Spec | Retry and the scheduler, both having checked, queue a job each (service.py:147). Without Retry it holds (JobsAreQueuedOnce). |
| Tickets!OneActive | 2 messages at once | Both find no ticket and open one (support.py:52). |
| Tickets!NothingLost | AnswersClosed | An answer reopens a closed ticket beside a newer one; the next message raises (ticket_repo.py:114). |
| Reminders!NoRepeats | MCReminders | A crash after the sends and before the commit repeats them (service.py:118). |
| Reminders!NotEarly | MCReminders, no crash | time_left.days is floored: a reminder goes out up to a day early (service.py:66). |
| Reminders!OffIsAnnounced | Punctual FALSE | A disable job left over from before a renewal cuts the peer at the next expiry without a notice (service.py:145). |
| Reminders!NotCutInSilence | MCReminders | Punctual or not: a disable job fails for good, the customer renews, and after the next expiry and before its pass an admin presses Retry, which asks of a disable job only that none is open (admin_jobs.py:47). The pass finds the job open and tells nobody (service.py:145); the worker cuts the peer. So does a cut by /extend under a job that is open. |
| Sales!PlacedWhileRoom | LateRemoval TRUE | A renewal is ordered without a look at the room; its peer goes, and the approval makes a new subscription on a full server (order_repo.py:190). |
| Delivery!AskedWithinLimit | Patient FALSE | A press before the last one was delivered is checked with the old count (customer.py:393). |
| `sent <= Limit` (Delivery) | MCDelivery | A config that went out is sent again if the failure is reported afterwards: Telegram's answer is late (engine.py:222, :244), or the count cannot be flushed or committed (engine.py:80-90, subscription_repo.py:131). It is not counted either. SentWithinLimit and SentAreCounted allow one for each such failure, crash and Retry. |

NotEarly is refuted, but NotADayEarly bounds how early a reminder can be, and is
proved. Two more things came up in Chat. An admin's command other than /admin that is
typed while the bot waits for a reply is sent to the customer as the reply, because
that state's handler is registered for every message (admin.py:324); `HandlerOf` shows
it. And updates that overlap, or two admins' /block and /unblock that do, can cross:
the last handler to clear or commit decides, whatever came last on the screen; that is
why Chat's properties have the conditions they have.

## What is proved

Proofs are in the `...Proofs` modules and checked by TLAPS for every value of the
constants that satisfies the module's ASSUME. A theorem's own conditions are in its
ASSUME ... PROVE.

- **JobQueueProofs**: QueueCorrect, from which JobsRunOnce, WorkersHoldTheirLocks,
  AttemptsAreBounded, SettledJobsStay and QueueImplementsContract. NoDoubleRun is not
  inductive: that a
  second worker cannot claim a job depends on the age of its lock, and that on how
  long the holder of a batch can have been at it. QueueInv adds: a worker's batch is
  held by locks as old as its claim (HoldsLocks); the jobs still to do fit into what
  is left of the time of a whole batch (BatchInTime), which with BatchFitsLease keeps
  every such lock younger than the lease; candidates are selected only with the batch
  done (PollsWhenDone); a Retry that has checked its job still finds it failed
  (RetryStillDue). The longest step is ClaimBatch, where lemma WonIsFree shows that
  no job that is won is in another worker's batch. TLC checks QueueInv in MCJobQueue.
  QueueImplementsContract is the refinement: since no job is in two batches, `Runner`
  is the one worker that has it (RunnerHasIt), a claim that wins something is a Take
  (ClaimTakes), the end of a job lets go of that job only (RunnerLetsGo), and polls,
  lost claims, Retry's check and time show nothing.
- **AccessProofs**: TypesAndBounds, CallsAreUnpaid, RemovedForGood, and two action
  properties, of any number of subscriptions and with any faults: RenewalsAreSafe, that a
  paid one leaves service only when it was changed while a call for it was in progress or
  given up, and EditsAreSafe, that a renewal leaves a row that is not active, or a
  disabled row loses its date, only where the worker wrote between an admin's read and
  flush. EditInv is behind the second: a handler that means to leave the status alone has
  read an active row, and only the worker's commit makes it another (EditFits). If handlers
  and calls are kept apart (`~ChangeInCall`, lemma NextApart) RenewalsShow and
  DisabledRowsAreDated follow.
  LifeInv, behind RemovedForGood, says of each state of a row which jobs can be open,
  which calls in progress or late, and which peers on the server. CutInv, LifeInv and
  CallsUnpaid, is inductive because an admin's change sets the calls' changed, and no
  other step makes a row paid. TypesAndBounds needs to know that the job of a call in
  progress is open (RunIsOpen), so that none is closed twice. PaidIsServed has two
  assumptions, that a call which acted is written down (`~LostAnswers`; a crash after
  the answer is a lost one too) and that none is late; it says that these are the only
  ways to be paid and off. Sync, for each subscription, is why: an active row has its
  peer or an enable job, but for a call that was answered and is not written down
  (Served); such a call has made the peer, or has switched off or removed one that a
  renewal meanwhile has queued an enable job for (CallFits). RenewalsStand and JobsAreQueuedOnce
  say under what conditions two sentences of the docs are true.
- **VpnctlProofs**: for any clients, addresses and processes. Whatever fails, and however
  often: VpnctlTypes, AddressesStayApart, ConfigsWork, EnabledIsOn, and OnePeer, that every
  peer of a client but the first took a fault: PeersInv says that a client whose config is
  neither there nor being written (Allowed) has peers for faults only. One process is
  at work (Locked); KeysAgree says that a client's blocks, its saved one and its config
  have the same keys, and HalfWay what a command has in hand between two writes: an
  address that is free, a block that is still that of the file. Until the first fault:
  RebootChangesNothing and OffIsOffAtFirst, from CalmInv, which adds one block
  for a client (OneBlock), nothing left of a client without a config (Whole), and for
  each command how far the interface is from awg1.conf (LiveFits). IsPeerServer is the
  refinement: until the first fault a command acts with one of its writes, that of awg1.conf
  for create, disable and enable and the deletion of the config for remove, and its other
  steps are stutters, refusals or answers. OffIsOff shows that the condition on
  faults is needed.
- **OrdersProofs**: TypeIsKept and OneSubscriptionEach without any condition (the
  unique order_id), and ApprovalsStand and TimeIsCounted with one receipt and one review
  at a time. Settled says why: an order that admins can see has no receipt in progress
  (ReceiptsFirst, ChatWaits), and a review's copy is up to date (ReviewsFresh).
  TimeIsCounted, and NoRenewalIsLost from it, add that the time that was read is up to
  date as well (TimesFresh) and that a subscription's time is that of its approved
  renewals and of /extend (Counted).
- **RequestsProofs**, of Tickets: TicketTypes; ClosedTicketsStay, for any number of messages and
  admins, since a message is added only to a ticket that was active when it was looked
  for (SawActive); OneTicketAtATime and MessagesAreTaken from
  TicketInv, which adds that who is about to open a ticket found none (OpensFirst),
  who adds to one found it the only one (AddsToActive), and an answer is for a ticket
  that is open (AnswersActive).
- **RemindersProofs**: ReminderTypes; RepeatsAreBounded and NoneADayEarly also for
  passes that are late, OffIsTold and WarnedBeforeExpiry for punctual ones, but for an
  expiry that an admin has just moved and, OffIsTold, an old job opened again by Retry. RepeatInv
  adds that a message nobody has a record of was sent at most as often as there were
  crashes. NoneADayEarly needs the arithmetic of days (MatchedOK, KeyInTime), for any
  length of a day and any thresholds. PunctualInv says that what expires with the next
  tick is listed or announced (Covered), and what has a disable job was told (ToldOff).
- **SalesProofs**: SaleTypes, PausesStay, SalesAreOffered. SalesInv adds that an order
  or a choice without an
  offer renews something with a peer, up to its approval.
- **RequestsProofs**, of Delivery: DeliveryTypes; CountsAreSent, for any number of workers;
  UncountedNeedFault and LimitIsKept for one. CountInv adds that no
  worker's copy of the count is ahead of what was sent; CopyIsFresh that one worker's
  copy is the count; Budget that the jobs still open fit into what is left of the limit.
- **ChatProofs**: TypesHold, ClearTalk, AnswersAreTheirs, ChoiceIsKept, BlocksHold.
  ClearInv says how far the one update of a clear talk has got, and that the state is
  what its screen will ask for. BlockInv says that with one other admin the row is
  blocked exactly as that admin was last told.

Only model-checked: everything under fairness (OpenJobsSettle, ExpiredIsCut,
DisabledIsRemoved); the prover has no liveness rules for ENABLED. Every other property
of the passing runs is a theorem's.

## What is not modelled

- Throttling. The throttle keeps updates of one user half a second apart but does not
  wait for a handler, so the models let handlers overlap; an update that it drops has
  no effect, and is one that was never sent.
- Products and the audit log: rows that no decision modelled here depends on.
- vpnctl's reading commands and its transport: get-config, list, status, serve, SSH.
  Of a call to the server Access keeps what can come of it.
- The mock provisioner, the installer, the sandbox, migrations, settings, logging,
  health, keyboards, strings, the config codec and the reconciliation report.
- Failures of Telegram, except where they end a job or a handler (Delivery, JobQueue,
  and `Fail` of Chat): a message
  that fails is logged and counts as sent, in the code and in the models.

## What is left

The modules came in the order of what a customer would miss most: JobQueue and
Access, then Vpnctl beneath them, Orders before them, then Sales, Reminders,
Tickets and Delivery, and Chat in front of them. Worth doing next:

1. What a fault of Vpnctl may leave and what a repeated call then mends: which of the
   guarantees before the first fault come back, and after which commands.
2. JobQueue with workers that die without end (engine.py:75): a job that kills its
   worker each time is claimed after every lease and never counted. CrashBudget ends
   it here, and OpenJobsSettle is true only because of that.
3. A bound on how long a pass may hold SQLite's writer lock (service.py:108), with the
   commits of the others that time out behind it.
4. Access with two subscriptions of one customer, and the reconciliation report over
   Access and Vpnctl, as a check of what the report would say in each state.
