--------------------------- MODULE RemindersProofs ---------------------------
(***************************************************************************)
(* Proofs about Reminders, for any subscriptions, thresholds and times.    *)
(*                                                                         *)
(* A message is repeated at most once per crash: what is told and not yet  *)
(* committed is in the transaction of the pass that told it, and nothing   *)
(* but a crash takes it away from there. No reminder comes a day early or  *)
(* more. And if the scheduler and the worker keep up with the time, every  *)
(* expiry is announced before it comes and when a peer is switched off for *)
(* it, although renewals go on under the passes, up to what an admin has   *)
(* just cut short or reopened.                                             *)
(***************************************************************************)
EXTENDS Reminders, WellFoundedInduction, TLAPS

Counts ==
  /\ DOMAIN wrote = Passes
  /\ told \in [Keys -> Nat]
  /\ crashes \in Nat

\* Known to somebody: committed, or inserted by a pass that is still going on.
Recorded(k) == k \in rows \/ \E p \in Passes : k \in wrote[p]

\* What nobody knows of was lost by crashes, as often as it was told.
Unrecorded == \A k \in Keys : ~Recorded(k) => told[k] <= crashes

RepeatInv == Counts /\ Unrecorded /\ RepeatsNeedCrash

-----------------------------------------------------------------------------
\* Nothing was told at first.
LEMMA RepeatInit == Init => RepeatInv
<1> SUFFICES ASSUME Init PROVE RepeatInv
  OBVIOUS
<1>1. Counts
  BY DEF Init, Counts
<1>2. Unrecorded /\ RepeatsNeedCrash
  BY DEF Init, Unrecorded, RepeatsNeedCrash
<1> QED
  BY <1>1, <1>2 DEF RepeatInv

\* Steps that tell nothing and lose nothing.
LEMMA QuietKeeps ==
  ASSUME RepeatInv, UNCHANGED <<told, crashes>>, DOMAIN wrote' = Passes,
         \A k : Recorded(k) => Recorded(k)'
  PROVE  RepeatInv'
BY DEF RepeatInv, Counts, Unrecorded, RepeatsNeedCrash

\* A message is sent only when no row of it is committed, in its own transaction or,
\* because of the write lock, in that of the other pass.
LEMMA NotifyKeeps ==
  ASSUME RepeatInv, NEW p \in Passes, NEW k, Notify(p, k), UNCHANGED <<rows, crashes>>
  PROVE  RepeatInv'
<1>1. CASE Known(p, k) /\ UNCHANGED <<wrote, told>>
  <2>1. \A j : Recorded(j) => Recorded(j)'
    BY <1>1 DEF Recorded
  <2> QED
    BY <1>1, <2>1, QuietKeeps DEF RepeatInv, Counts
<1>2. CASE ~Known(p, k) /\ Free(p) /\ wrote' = [wrote EXCEPT ![p] = @ \union {k}] /\ Send(k)
  <2>1. ~Recorded(k)
    BY <1>2 DEF Known, Free, Holds, Recorded
  <2>2. \A j : Recorded(j) \/ j = k => Recorded(j)'
    BY <1>2 DEF RepeatInv, Counts, Recorded
  <2>3. \A j \in Keys : told'[j] = told[j] \/ (j = k /\ told'[j] = told[j] + 1)
    <3>1. CASE UNCHANGED told
      BY <3>1
    <3>2. CASE told' = [told EXCEPT ![k] = @ + 1]
      BY <3>2 DEF RepeatInv, Counts
    <3> QED
      BY <1>2, <3>1, <3>2 DEF Send
  <2>4. Counts'
    BY <1>2 DEF Send, RepeatInv, Counts
  <2>5. Unrecorded'
    BY <2>2, <2>3 DEF RepeatInv, Unrecorded
  <2>6. RepeatsNeedCrash'
    BY <2>1, <2>3 DEF RepeatInv, Counts, Unrecorded, RepeatsNeedCrash
  <2> QED
    BY <2>4, <2>5, <2>6 DEF RepeatInv
<1> QED
  BY <1>1, <1>2 DEF Notify

\* A commit records what was told.
LEMMA CommitKeeps ==
  ASSUME RepeatInv, NEW p \in Passes, CommitPass(p)
  PROVE  RepeatInv'
<1>1. \A k : Recorded(k) => Recorded(k)'
  BY DEF RepeatInv, Counts, CommitPass, End, Recorded
<1> QED
  BY <1>1, QuietKeeps DEF CommitPass, End, RepeatInv, Counts

\* A pass that is locked out has told nothing.
LEMMA LockedOutKeeps ==
  ASSUME RepeatInv, NEW p \in Passes, LockedOut(p)
  PROVE  RepeatInv'
<1>1. wrote[p] = {}
  BY DEF LockedOut, Holds
<1>2. \A k : Recorded(k) => Recorded(k)'
  BY <1>1 DEF RepeatInv, Counts, LockedOut, End, Recorded
<1> QED
  BY <1>2, QuietKeeps DEF LockedOut, End, RepeatInv, Counts

\* What a crash makes unknown was told once more than there had been crashes.
LEMMA CrashKeeps ==
  ASSUME RepeatInv, Crash
  PROVE  RepeatInv'
BY DEF Crash, RepeatInv, Counts, Unrecorded, RepeatsNeedCrash

\* A message is told again only when its record was rolled back.
LEMMA RepeatNext == RepeatInv /\ [Next]_vars => RepeatInv'
<1> SUFFICES ASSUME RepeatInv, [Next]_vars PROVE RepeatInv'
  OBVIOUS
<1>1. "expiring" \in Passes /\ "expired" \in Passes
  BY DEF Passes
<1>2. ASSUME UNCHANGED <<rows, wrote, told, crashes>> PROVE RepeatInv'
  BY <1>2 DEF RepeatInv, Counts, Recorded, Unrecorded, RepeatsNeedCrash
<1>3. CASE BeginExpiring \/ BeginExpired
  BY <1>2, <1>3 DEF BeginExpiring, BeginExpired, Begin
<1>4. CASE Crash
  BY <1>4, CrashKeeps
<1>5. CASE Tick
  BY <1>2, <1>5 DEF Tick, passVars
<1>6. ASSUME NEW e \in todo["expiring"], Remind(e) PROVE RepeatInv'
  BY <1>1, <1>6, NotifyKeeps DEF Remind
<1>7. ASSUME NEW e \in todo["expired"], QueueAndTell(e) PROVE RepeatInv'
  BY <1>1, <1>7, NotifyKeeps DEF QueueAndTell
<1>8. ASSUME NEW e \in todo["expired"], SkipOpen(e) PROVE RepeatInv'
  BY <1>2, <1>8 DEF SkipOpen
<1>9. ASSUME NEW p \in Passes, CommitPass(p) \/ LockedOut(p) PROVE RepeatInv'
  BY <1>9, CommitKeeps, LockedOutKeeps
<1>10. ASSUME NEW s \in Subs, Renew(s) \/ CutShort(s) \/ SwitchOff(s) \/ GiveUp(s) \/ Retry(s) PROVE RepeatInv'
  BY <1>2, <1>10 DEF Renew, CutShort, SwitchOff, GiveUp, Retry, passVars
<1>11. CASE UNCHANGED vars
  BY <1>2, <1>11 DEF vars, passVars
<1> QED
  BY <1>3, <1>4, <1>5, <1>6, <1>7, <1>8, <1>9, <1>10, <1>11 DEF Next

\* Whatever passes overlap, are locked out or die, a customer gets a message at most
\* once more than there were crashes.
THEOREM RepeatsAreBounded == Spec => []RepeatsNeedCrash
<1>1. RepeatInv => RepeatsNeedCrash
  BY DEF RepeatInv
<1> QED
  BY <1>1, RepeatInit, RepeatNext, PTL DEF Spec

-----------------------------------------------------------------------------
(* Days. *)

\* What whole days are.
LEMMA WholeDays ==
  ASSUME NEW a \in Nat
  PROVE  a \div Day \in Nat /\ Day * (a \div Day) <= a /\ a < Day * (a \div Day) + Day
BY RemindersAssumption

\* A day later is one day more.
LEMMA OneDayMore ==
  ASSUME NEW x \in Int, NEW y \in Int, x < y
  PROVE  Day * x + Day <= Day * y
<1>1. Day * (x + 1) <= Day * y
  <2>1. x + 1 <= y
    OBVIOUS
  <2> QED
    BY <2>1, RemindersAssumption, SMTT(30)
<1> QED
  BY <1>1, RemindersAssumption

\* Every date is one of those that keys may have.
LEMMA DateOK ==
  ASSUME NEW a \in 0 .. Horizon
  PROVE  a \div Day \in Dates
<1> DEFINE x == a \div Day
<1> DEFINE h == Horizon \div Day
<1>1. a \in Nat /\ Horizon \in Nat /\ Day \in Nat /\ a <= Horizon
  BY RemindersAssumption
<1>2. x \in Nat /\ Day * x <= a
  BY <1>1, WholeDays
<1>3. h \in Nat /\ Horizon < Day * h + Day
  BY <1>1, WholeDays
<1> HIDE DEF x, h
<1>4. h < x => Day * h + Day <= Day * x
  BY <1>2, <1>3, OneDayMore
<1>5. x \in 0 .. h
  BY <1>1, <1>2, <1>3, <1>4
<1> QED
  BY <1>5 DEF Dates, x, h

\* Every nonempty set of numbers of days has a smallest.
LEMMA Smallest ==
  ASSUME NEW T, T \subseteq Nat, T # {}
  PROVE  \E x \in T : \A y \in T : x <= y
<1> DEFINE Less == OpToRel(<, Nat)
<1>1. IsWellFoundedOn(Less, Nat)
  BY NatLessThanWellFounded
<1>2. \A x, y \in Nat : y < x => <<y, x>> \in Less
  BY DEF OpToRel
<1> HIDE DEF Less
<1>3. PICK x \in T : \A y \in T : ~ (<<y, x>> \in Less)
  BY <1>1, WFMin
<1>4. \A y \in T : ~(y < x)
  BY <1>2, <1>3
<1>5. \A y \in T : y \in Nat /\ x \in Nat
  OBVIOUS
<1>6. \A y \in T : x <= y
  BY ONLY <1>4, <1>5
<1> QED
  BY <1>6

\* The largest threshold is one of them.
LEMMA MaxOK == MaxThreshold \in Thresholds /\ \A e \in Thresholds : e <= MaxThreshold
BY RemindersAssumption DEF MaxThreshold
-----------------------------------------------------------------------------
(* The types, and what the list of the pass over the expiring holds. *)

Records == [sub : Subs, expires : 0 .. Horizon]

Types ==
  /\ now \in 0 .. Horizon
  /\ expires \in [Subs -> 0 .. Horizon]
  /\ active \in [Subs -> BOOLEAN]
  /\ jobs \subseteq Subs
  /\ failed \in [Subs -> 0 .. MaxFailed]
  /\ reopened \subseteq jobs
  /\ shortened \subseteq Subs /\ cuts \in 0 .. CutBudget
  /\ rows \subseteq Keys
  /\ begun \in [Passes -> {Never} \union 0 .. now]
  /\ todo \in [Passes -> SUBSET Records]
  /\ wrote \in [Passes -> SUBSET Keys]
  /\ queued \in [Passes -> SUBSET Subs]
  /\ checked \subseteq Passes
  /\ crashes \in 0 .. CrashBudget

Listed ==
  \A e \in todo["expiring"] :
    /\ begun["expiring"] # Never
    /\ begun["expiring"] < e.expires
    /\ e.expires <= begun["expiring"] + MaxThreshold * Day

TimeInv == Types /\ Listed

\* The scheduler has these two passes.
LEMMA BothPasses == "expiring" \in Passes /\ "expired" \in Passes
BY DEF Passes

\* No list is made at first.
LEMMA TimeInit == Init => TimeInv
<1> SUFFICES ASSUME Init PROVE TimeInv
  OBVIOUS
<1>1. Types
  BY RemindersAssumption DEF Init, Types, Never
<1>2. Listed
  BY BothPasses DEF Init, Listed
<1> QED
  BY <1>1, <1>2 DEF TimeInv

\* The threshold of a listed subscription is one of the setting's, and not less than
\* the whole days that are left.
LEMMA MatchedOK ==
  ASSUME TimeInv, NEW e \in todo["expiring"]
  PROVE  /\ Matched(e) \in Thresholds
         /\ (e.expires - begun["expiring"]) \div Day <= Matched(e)
<1> DEFINE left == e.expires - begun["expiring"]
<1> DEFINE days == left \div Day
<1> DEFINE fits == {d \in Thresholds : days <= d}
<1>1. begun["expiring"] \in 0 .. now /\ now \in Nat /\ e.expires \in Nat
  BY BothPasses, RemindersAssumption DEF TimeInv, Types, Listed, Records
<1>2. left \in Nat /\ left <= MaxThreshold * Day
  <2>1. MaxThreshold * Day \in Nat
    BY MaxOK, RemindersAssumption
  <2> QED
    BY <1>1, <2>1 DEF TimeInv, Listed
<1>3. days \in Nat /\ Day * days <= left
  BY <1>2, WholeDays
<1> HIDE DEF left, days
<1>4. days <= MaxThreshold
  <2>1. MaxThreshold \in Nat /\ Day \in Nat \ {0}
    BY MaxOK, RemindersAssumption
  <2>2. MaxThreshold < days => Day * MaxThreshold + Day <= Day * days
    BY <1>3, <2>1, OneDayMore
  <2>3. MaxThreshold * Day = Day * MaxThreshold /\ Day * MaxThreshold \in Nat /\ Day * days \in Nat
    BY <1>3, <2>1
  <2> QED
    BY <1>2, <1>3, <2>1, <2>2, <2>3
<1>5. fits \subseteq Nat /\ fits # {}
  BY <1>4, MaxOK, RemindersAssumption
<1>6. \E x \in fits : \A y \in fits : x <= y
  BY <1>5, Smallest
<1>7. Matched(e) = CHOOSE d \in fits : \A x \in fits : d <= x
  BY DEF Matched, days, left
<1>8. Matched(e) \in fits
  <2> HIDE DEF fits
  <2> QED
    BY <1>6, <1>7
<1> QED
  BY <1>8 DEF days, left
\* The key of a message about a subscription as a pass listed it.
LEMMA KeyOK ==
  ASSUME NEW e \in Records, NEW kind \in Thresholds \union {Expired}
  PROVE  Key(kind, e) \in Keys
BY DateOK DEF Records, Key, Keys

\* A step within a pass that deals with one entry of its list.
LEMMA EntryKeeps ==
  ASSUME TimeInv, NEW p \in Passes, NEW e, Takes(p, e), NEW kind \in Thresholds \union {Expired},
         Notify(p, Key(kind, e)) \/ UNCHANGED <<wrote, told>>,
         UNCHANGED <<now, subVars, jobVars, rows, begun, checked, crashes>>,
         queued' \in [Passes -> SUBSET Subs]
  PROVE  TimeInv'
<1>1. e \in Records /\ todo' = [todo EXCEPT ![p] = @ \ {e}]
  BY DEF TimeInv, Types, Takes
<1>2. Key(kind, e) \in Keys
  BY <1>1, KeyOK
<1>3. wrote' \in [Passes -> SUBSET Keys]
  BY <1>2 DEF TimeInv, Types, Notify
<1>4. Types'
  BY <1>1, <1>3 DEF TimeInv, Types, subVars, jobVars
<1>5. Listed'
  BY <1>1, BothPasses DEF TimeInv, Types, Listed
<1> QED
  BY <1>4, <1>5 DEF TimeInv

\* A step that leaves the passes alone.
LEMMA OthersKeep ==
  ASSUME TimeInv, UNCHANGED <<rows, passVars, crashes>>,
         now' \in now .. Horizon, expires' \in [Subs -> 0 .. Horizon],
         active' \in [Subs -> BOOLEAN], jobs' \subseteq Subs, checked' \subseteq Passes,
         failed' \in [Subs -> 0 .. MaxFailed], reopened' \subseteq jobs',
         shortened' \subseteq Subs, cuts' \in 0 .. CutBudget
  PROVE  TimeInv'
<1>1. now \in Nat /\ Horizon \in Nat
  BY RemindersAssumption DEF TimeInv, Types
<1>2. now' \in 0 .. Horizon /\ 0 .. now \subseteq 0 .. now'
  BY <1>1
<1>3. Types'
  BY <1>2 DEF TimeInv, Types, passVars
<1>4. Listed'
  BY DEF TimeInv, Listed, passVars
<1> QED
  BY <1>3, <1>4 DEF TimeInv

\* The list of a pass that begins.
LEMMA BeginLists ==
  ASSUME TimeInv, NEW p \in Passes, NEW subs, subs \subseteq Subs, Begin(p, subs)
  PROVE  todo' \in [Passes -> SUBSET Records]
<1> DEFINE entries == {Entry(s) : s \in subs}
<1>1. \A s \in Subs : Entry(s) \in Records
  BY DEF TimeInv, Types, Entry, Records
<1>2. entries \subseteq Records
  BY <1>1
<1>3. todo' = [todo EXCEPT ![p] = entries]
  BY DEF Begin
<1> HIDE DEF entries
<1> QED
  BY <1>2, <1>3 DEF TimeInv, Types

\* What a pass has listed was due within the largest threshold when it began.
LEMMA TimeNext == TimeInv /\ [Next]_vars => TimeInv'
<1> SUFFICES ASSUME TimeInv, [Next]_vars PROVE TimeInv'
  OBVIOUS
<1>0. /\ now \in Nat /\ Horizon \in Nat /\ now \in now .. Horizon /\ CrashBudget \in Nat
      /\ Expired \in Thresholds \union {Expired}
  BY RemindersAssumption DEF TimeInv, Types
<1>1. CASE BeginExpiring
  <2>1. \A e \in todo'["expiring"] : now < e.expires /\ e.expires <= now + MaxThreshold * Day
    BY <1>1, BothPasses DEF BeginExpiring, Begin, Entry, TimeInv, Types
  <2>2. begun'["expiring"] = now /\ begun' \in [Passes -> {Never} \union 0 .. now]
    BY <1>0, <1>1, BothPasses DEF BeginExpiring, Begin, TimeInv, Types
  <2>3. todo' \in [Passes -> SUBSET Records]
    BY <1>1, BothPasses, BeginLists DEF BeginExpiring
  <2>4. Types'
    BY <1>1, <2>2, <2>3 DEF BeginExpiring, Begin, TimeInv, Types, subVars, jobVars
  <2>5. Listed'
    BY <1>0, <2>1, <2>2 DEF Listed, Never
  <2> QED
    BY <2>4, <2>5 DEF TimeInv
<1>2. CASE BeginExpired
  <2>1. begun'["expiring"] = begun["expiring"] /\ todo'["expiring"] = todo["expiring"]
    BY <1>2, BothPasses DEF BeginExpired, Begin, TimeInv, Types
  <2>2. begun' \in [Passes -> {Never} \union 0 .. now]
    BY <1>0, <1>2, BothPasses DEF BeginExpired, Begin, TimeInv, Types
  <2>3. todo' \in [Passes -> SUBSET Records]
    BY <1>2, BothPasses, BeginLists DEF BeginExpired
  <2>4. Types'
    BY <1>2, <2>2, <2>3 DEF BeginExpired, Begin, TimeInv, Types, subVars, jobVars
  <2>5. Listed'
    BY <2>1 DEF TimeInv, Listed
  <2> QED
    BY <2>4, <2>5 DEF TimeInv
<1>3. CASE Crash
  <2>1. Types'
    BY <1>0, <1>3 DEF Crash, TimeInv, Types, subVars, jobVars
  <2>2. Listed'
    BY <1>3, BothPasses DEF Crash, Listed
  <2> QED
    BY <2>1, <2>2 DEF TimeInv
<1>4. CASE Tick
  BY <1>0, <1>4, OthersKeep DEF Tick, TimeInv, Types, jobVars
<1>5. ASSUME NEW e \in todo["expiring"], Remind(e) PROVE TimeInv'
  <2>1. Matched(e) \in Thresholds \union {Expired}
    BY MatchedOK
  <2> QED
    BY <1>5, <2>1, BothPasses, EntryKeeps DEF Remind, TimeInv, Types
<1>6. ASSUME NEW e \in todo["expired"], SkipOpen(e) PROVE TimeInv'
  BY <1>0, <1>6, BothPasses, EntryKeeps DEF SkipOpen, TimeInv, Types
<1>7. ASSUME NEW e \in todo["expired"], QueueAndTell(e) PROVE TimeInv'
  <2>1. queued' \in [Passes -> SUBSET Subs]
    BY <1>7, BothPasses DEF QueueAndTell, TimeInv, Types, Records
  <2> QED
    BY <1>0, <1>7, <2>1, BothPasses, EntryKeeps DEF QueueAndTell
<1>8. ASSUME NEW p \in Passes, CommitPass(p) \/ LockedOut(p) PROVE TimeInv'
  <2>1. Types'
    BY <1>8 DEF CommitPass, LockedOut, End, TimeInv, Types, subVars, jobVars
  <2>2. Listed'
    BY <1>8, BothPasses DEF CommitPass, LockedOut, End, TimeInv, Types, Listed
  <2> QED
    BY <2>1, <2>2 DEF TimeInv
<1>9. ASSUME NEW s \in Subs, Renew(s) PROVE TimeInv'
  <2>1. expires' \in [Subs -> 0 .. Horizon]
    <3> DEFINE new == (IF expires[s] > now THEN expires[s] ELSE now) + Period
    <3>1. new \in 0 .. Horizon /\ expires' = [expires EXCEPT ![s] = new]
      BY <1>0, <1>9, RemindersAssumption DEF Renew, TimeInv, Types
    <3> HIDE DEF new
    <3> QED
      BY <3>1 DEF TimeInv, Types
  <2> QED
    BY <1>0, <1>9, <2>1, OthersKeep DEF Renew, jobVars, TimeInv, Types
<1>10. ASSUME NEW s \in Subs, CutShort(s) PROVE TimeInv'
  <2>1. PICK days \in 1 .. expires[s] \div Day : expires' = [expires EXCEPT ![s] = @ - days * Day]
    BY <1>10 DEF CutShort
  <2>2. expires[s] \in 0 .. Horizon /\ Day \in Nat
    BY RemindersAssumption DEF TimeInv, Types
  <2>3. days \in Nat /\ days <= expires[s] \div Day /\ Day * (expires[s] \div Day) <= expires[s]
        /\ expires[s] \div Day \in Nat
    BY <1>0, <2>2, WholeDays
  <2>4. Day * days <= Day * (expires[s] \div Day) /\ Day * days \in Nat /\ days * Day = Day * days
    <3>1. CASE days = expires[s] \div Day
      BY <2>2, <2>3, <3>1
    <3>2. CASE days < expires[s] \div Day
      <4>1. Day * days + Day <= Day * (expires[s] \div Day)
        BY <2>3, <3>2, OneDayMore
      <4>2. Day * days \in Nat /\ Day * (expires[s] \div Day) \in Nat /\ days * Day = Day * days
        BY <2>2, <2>3
      <4> QED
        BY <2>2, <4>1, <4>2
    <3> QED
      BY <2>3, <3>1, <3>2
  <2>5. expires[s] - days * Day \in 0 .. Horizon
    <3>1. Day * (expires[s] \div Day) \in Nat
      BY <2>2, <2>3
    <3> QED
      BY <1>0, <2>2, <2>3, <2>4, <3>1
  <2>6. expires' \in [Subs -> 0 .. Horizon]
    BY <2>1, <2>5 DEF TimeInv, Types
  <2>7. cuts' \in 0 .. CutBudget
    BY <1>10, RemindersAssumption DEF CutShort, TimeInv, Types
  <2> QED
    BY <1>0, <1>10, <2>6, <2>7, OthersKeep DEF CutShort, jobVars, TimeInv, Types
<1>11. ASSUME NEW s \in Subs, SwitchOff(s) \/ GiveUp(s) \/ Retry(s) PROVE TimeInv'
  <2>1. failed' \in [Subs -> 0 .. MaxFailed]
    BY <1>11, RemindersAssumption DEF SwitchOff, GiveUp, Retry, TimeInv, Types
  <2> QED
    BY <1>0, <1>11, <2>1, OthersKeep DEF SwitchOff, GiveUp, Retry, subVars, TimeInv, Types
<1>12. CASE UNCHANGED vars
  BY <1>0, <1>12, OthersKeep DEF vars, subVars, jobVars, passVars, TimeInv, Types
<1> QED
  BY <1>1, <1>2, <1>3, <1>4, <1>5, <1>6, <1>7, <1>8, <1>9, <1>10, <1>11, <1>12 DEF Next

\* Every variable keeps its type: keys name a threshold of the setting, and a message
\* comes once and once more for each crash.
THEOREM ReminderTypes == Spec => []TypeOK
<1>1. RepeatInv /\ TimeInv => TypeOK
  <2> SUFFICES ASSUME RepeatInv, TimeInv PROVE TypeOK
    OBVIOUS
  <2>1. told \in [Keys -> 0 .. 1 + CrashBudget]
    BY RemindersAssumption DEF RepeatInv, Counts, RepeatsNeedCrash, TimeInv, Types
  <2>2. now \in Nat /\ 0 .. now \subseteq 0 .. Horizon
    BY RemindersAssumption DEF TimeInv, Types
  <2> QED
    BY <2>1, <2>2 DEF TimeInv, Types, TypeOK, Records
<1> QED
  BY <1>1, RepeatInit, RepeatNext, TimeInit, TimeNext, PTL DEF Spec
-----------------------------------------------------------------------------
(* No reminder comes a day early. *)

\* What a listed subscription's key says of the time.
LEMMA KeyInTime ==
  ASSUME TimeInv, NEW e \in todo["expiring"]
  PROVE  (e.expires \div Day - Matched(e) - 1) * Day < now
<1> DEFINE b    == begun["expiring"]
<1> DEFINE left == e.expires - b
<1> DEFINE days == left \div Day
<1> DEFINE date == e.expires \div Day
<1> DEFINE m    == Matched(e)
<1>1. b \in Nat /\ b <= now /\ now \in Nat /\ e.expires \in Nat /\ b < e.expires /\ Day \in Nat
  BY BothPasses, RemindersAssumption DEF TimeInv, Types, Listed, Records
<1>2. m \in Nat /\ days <= m
  BY MatchedOK, RemindersAssumption
<1>3. left \in Nat
  BY <1>1
<1> HIDE DEF b, m
<1>4. days \in Nat /\ left < Day * days + Day
  BY <1>3, WholeDays
<1>5. date \in Nat /\ Day * date <= e.expires
  BY <1>1, WholeDays
<1>6. e.expires = b + left
  BY <1>1
<1> HIDE DEF left, days, date
<1>7. Day * days <= Day * m /\ Day * days \in Nat /\ Day * m \in Nat /\ Day * date \in Nat
  BY <1>1, <1>2, <1>4, <1>5, OneDayMore
<1>8. Day * date < now + Day * m + Day
  BY <1>1, <1>3, <1>4, <1>5, <1>6, <1>7
<1>9. (date - m - 1) * Day = Day * date - Day * m - Day
  BY <1>1, <1>2, <1>5
<1>10. (date - m - 1) * Day < now
  BY <1>1, <1>7, <1>8, <1>9
<1> QED
  BY <1>10 DEF date, m

\* A message that is sent is the one of an entry of a list.
LEMMA ToldByList ==
  ASSUME [Next]_vars, told \in [Keys -> Nat], NEW k \in Keys, told'[k] > told[k]
  PROVE  \/ \E e \in todo["expiring"] : k = Key(Matched(e), e)
         \/ k[2] = Expired
<1>1. ASSUME NEW j, Send(j) PROVE k = j
  BY <1>1 DEF Send
<1>2. CASE UNCHANGED told
  BY <1>2
<1>3. ASSUME NEW e \in todo["expiring"], Remind(e) PROVE k = Key(Matched(e), e)
  BY <1>1, <1>2, <1>3 DEF Remind, Notify
<1>4. ASSUME NEW e \in todo["expired"], QueueAndTell(e) PROVE k[2] = Expired
  <2>1. k = Key(Expired, e)
    BY <1>1, <1>2, <1>4 DEF QueueAndTell, Notify
  <2> QED
    BY <2>1 DEF Key
<1> QED
  BY <1>2, <1>3, <1>4
  DEF Next, BeginExpiring, BeginExpired, Begin, Crash, Tick, SkipOpen, CommitPass, LockedOut,
      Renew, CutShort, SwitchOff, GiveUp, Retry, vars

\* However old the list of a pass is, a reminder is less than a day early.
THEOREM NoneADayEarly == Spec => NotADayEarly
<1>1. RepeatInv /\ TimeInv /\ [Next]_vars =>
        [\A k \in Keys : told'[k] > told[k] /\ k[2] # Expired => (k[3] - k[2] - 1) * Day < now]_vars
  <2> SUFFICES ASSUME RepeatInv, TimeInv, [Next]_vars,
                      NEW k \in Keys, told'[k] > told[k], k[2] # Expired
               PROVE  (k[3] - k[2] - 1) * Day < now
    OBVIOUS
  <2>1. PICK e \in todo["expiring"] : k = Key(Matched(e), e)
    BY ToldByList DEF RepeatInv, Counts
  <2>2. k[2] = Matched(e) /\ k[3] = e.expires \div Day
    BY <2>1 DEF Key
  <2> QED
    BY <2>2, KeyInTime
<1> QED
  BY <1>1, RepeatInit, RepeatNext, TimeInit, TimeNext, PTL DEF Spec, NotADayEarly
-----------------------------------------------------------------------------
(* What holds if the scheduler and the worker keep up with the time. *)

\* A pass begins and ends without a tick, and its transaction is its own.
AtOnce ==
  /\ \A p \in Passes :
       /\ begun[p] # Never => p \notin checked
       /\ begun[p] = Never => todo[p] = {} /\ wrote[p] = {} /\ queued[p] = {}
  /\ queued["expiring"] = {}

Announced(s, keys) == \E d \in Thresholds : <<s, d, expires[s] \div Day>> \in keys

\* What expires with the next tick is on the pass's list until it is announced.
Covered ==
  \A s \in Subs : active[s] /\ s \notin shortened /\ expires[s] = now + 1 =>
    /\ begun["expiring"] # Never => \/ Entry(s) \in todo["expiring"]
                                    \/ Announced(s, rows \union wrote["expiring"])
    /\ "expiring" \in checked => Announced(s, rows)

Told(s, keys) ==
  \/ expires[s] > now
  \/ s \in shortened
  \/ <<s, Expired, expires[s] \div Day>> \in keys

\* What has a disable job was told, or renewed, or an admin has had a hand in it.
ToldOff ==
  /\ \A e \in todo["expired"] :
       expires[e.sub] > now \/ e.sub \in shortened \/ e.expires = expires[e.sub]
  /\ \A s \in queued["expired"] : Told(s, rows \union wrote["expired"])
  /\ \A s \in jobs : s \in reopened \/ Told(s, rows)

PunctualInv == AtOnce /\ Covered /\ ToldOff

\* Nothing expires at first.
LEMMA PunctualInit == Init => PunctualInv
BY BothPasses DEF Init, PunctualInv, AtOnce, Covered, ToldOff

\* A renewal during a pass takes the subscription out of all that.
LEMMA RenewKeeps ==
  ASSUME TimeInv, PunctualInv, NEW s \in Subs, Renew(s)
  PROVE  PunctualInv'
<1>1. now \in Nat /\ \A t \in Subs : expires[t] \in Nat
  BY RemindersAssumption DEF TimeInv, Types
<1>2. expires'[s] > now + 1
  <2> DEFINE new == (IF expires[s] > now THEN expires[s] ELSE now) + Period
  <2>1. new > now + 1
    BY <1>1, RemindersAssumption
  <2>2. expires' = [expires EXCEPT ![s] = new]
    BY DEF Renew
  <2> HIDE DEF new
  <2> QED
    BY <2>1, <2>2 DEF TimeInv, Types
<1>3. expires'[s] > now /\ expires'[s] # now + 1
  <2>1. expires'[s] \in Int
    BY RemindersAssumption, TimeNext DEF TimeInv, Types, Next
  <2> QED
    BY <1>1, <1>2, <2>1
<1>4. /\ \A t \in Subs \ {s} : expires'[t] = expires[t] /\ active'[t] = active[t]
      /\ UNCHANGED <<now, shortened, jobVars, rows, passVars, checked>>
  BY DEF Renew, TimeInv, Types
<1>5. AtOnce'
  BY <1>4 DEF PunctualInv, AtOnce, passVars
<1>6. Covered'
  BY <1>3, <1>4 DEF PunctualInv, Covered, Announced, Entry, passVars
<1>7. ToldOff'
  <2>1. \A e \in todo["expired"] : e.sub \in Subs
    BY BothPasses DEF TimeInv, Types, Records
  <2>2. queued["expired"] \subseteq Subs /\ jobs \subseteq Subs
    BY BothPasses DEF TimeInv, Types
  <2> QED
    BY <1>3, <1>4, <2>1, <2>2 DEF PunctualInv, ToldOff, Told, jobVars, passVars
<1> QED
  BY <1>5, <1>6, <1>7 DEF PunctualInv

\* So does a cut, until the next tick.
LEMMA CutKeeps ==
  ASSUME TimeInv, PunctualInv, NEW s \in Subs, CutShort(s)
  PROVE  PunctualInv'
<1>1. /\ \A t \in Subs \ {s} : expires'[t] = expires[t]
      /\ shortened' = shortened \union {s}
      /\ UNCHANGED <<now, active, jobVars, rows, passVars, checked>>
  BY DEF CutShort, TimeInv, Types
<1>2. AtOnce'
  BY <1>1 DEF PunctualInv, AtOnce, passVars
<1>3. Covered'
  BY <1>1 DEF PunctualInv, Covered, Announced, Entry, passVars
<1>4. ToldOff'
  <2>1. \A e \in todo["expired"] : e.sub \in Subs
    BY BothPasses DEF TimeInv, Types, Records
  <2>2. queued["expired"] \subseteq Subs /\ jobs \subseteq Subs
    BY BothPasses DEF TimeInv, Types
  <2> QED
    BY <1>1, <2>1, <2>2 DEF PunctualInv, ToldOff, Told, jobVars, passVars
<1> QED
  BY <1>2, <1>3, <1>4 DEF PunctualInv

\* A pass begins.
LEMMA BeginKeeps ==
  ASSUME TimeInv, PunctualInv, BeginExpiring \/ BeginExpired
  PROVE  PunctualInv'
<1>0. /\ now \in Nat /\ \A t \in Subs : expires[t] \in Nat
      /\ UNCHANGED <<now, subVars, jobVars, rows, wrote, queued>>
  BY RemindersAssumption DEF TimeInv, Types, BeginExpiring, BeginExpired, Begin
<1>1. CASE BeginExpiring
  <2>1. /\ todo' = [todo EXCEPT !["expiring"] = todo'["expiring"]]
        /\ begun' = [begun EXCEPT !["expiring"] = now] /\ checked' = checked \ {"expiring"}
    BY <1>1, BothPasses DEF BeginExpiring, Begin, TimeInv, Types
  <2>2. ASSUME NEW s \in Subs, active[s], expires[s] = now + 1 PROVE Entry(s) \in todo'["expiring"]
    <3>1. now < expires[s] /\ expires[s] <= now + MaxThreshold * Day
      <4>1. MaxThreshold * Day >= 1
        BY MaxOK, RemindersAssumption
      <4>2. MaxThreshold * Day \in Nat
        BY MaxOK, RemindersAssumption
      <4> QED
        BY <1>0, <2>2, <4>1, <4>2
    <3> QED
      BY <1>1, <2>2, <3>1, BothPasses DEF BeginExpiring, Begin, TimeInv, Types
  <2>3. todo'["expired"] = todo["expired"] /\ begun'["expired"] = begun["expired"]
        /\ begun'["expiring"] = now /\ now # Never
    BY <1>0, <2>1, BothPasses DEF TimeInv, Types, Never
  <2>4. AtOnce'
    BY <1>0, <2>1, <2>3 DEF PunctualInv, AtOnce, Passes
  <2>5. Covered'
    BY <1>0, <2>1, <2>2 DEF Covered, Entry, subVars
  <2>6. ToldOff'
    BY <1>0, <2>3 DEF PunctualInv, ToldOff, Told, subVars, jobVars
  <2> QED
    BY <2>4, <2>5, <2>6 DEF PunctualInv
<1>2. CASE BeginExpired
  <2>1. /\ todo'["expiring"] = todo["expiring"] /\ begun'["expiring"] = begun["expiring"]
        /\ begun'["expired"] = now /\ now # Never /\ checked' = checked \ {"expired"}
    BY <1>0, <1>2, BothPasses DEF BeginExpired, Begin, TimeInv, Types, Never
  <2>2. \A e \in todo'["expired"] : e.expires = expires[e.sub]
    BY <1>2, BothPasses DEF BeginExpired, Begin, Entry, TimeInv, Types
  <2>3. AtOnce'
    BY <1>0, <2>1 DEF PunctualInv, AtOnce, Passes
  <2>4. Covered'
    BY <1>0, <2>1 DEF PunctualInv, Covered, Announced, Entry, subVars
  <2>5. ToldOff'
    BY <1>0, <2>2 DEF PunctualInv, ToldOff, Told, subVars, jobVars
  <2> QED
    BY <2>3, <2>4, <2>5 DEF PunctualInv
<1> QED
  BY <1>1, <1>2
\* Only the time, a list, a transaction or the jobs change, and keys are never lost.
LEMMA NowKeeps ==
  ASSUME PunctualInv, NEW p \in Passes, UNCHANGED <<now, expires, shortened, jobVars, checked>>,
         TimeInv, \A s \in Subs : active'[s] => active[s],
         begun' = begun, todo' = [todo EXCEPT ![p] = todo'[p]], todo'[p] \subseteq todo[p],
         \A e \in todo["expiring"] \ todo'["expiring"] :
           e = Entry(e.sub) => Announced(e.sub, rows' \union wrote'["expiring"]),
         rows \subseteq rows', \A q \in Passes : wrote[q] \subseteq wrote'[q] /\ queued[q] \subseteq queued'[q],
         begun[p] # Never \/ UNCHANGED <<wrote, queued>>,
         \A q \in Passes \ {p} : wrote'[q] = wrote[q] /\ queued'[q] = queued[q],
         queued'["expiring"] = queued["expiring"],
         \A s \in queued'["expired"] \ queued["expired"] : Told(s, rows' \union wrote'["expired"])
  PROVE  PunctualInv'
<1>1. AtOnce'
  BY DEF PunctualInv, AtOnce, TimeInv, Types
<1>2. Covered'
  <2>1. \A s : Entry(s).sub = s /\ Entry(s)' = Entry(s)
    BY DEF Entry
  <2>2. \A s, K, L : Announced(s, K) /\ K \subseteq L => Announced(s, L) /\ Announced(s, L)'
    BY DEF Announced
  <2>3. rows \union wrote["expiring"] \subseteq rows' \union wrote'["expiring"]
    BY BothPasses
  <2>4. \A s, L : Announced(s, L) => Announced(s, L)'
    BY DEF Announced
  <2> QED
    BY <2>1, <2>2, <2>3, <2>4 DEF PunctualInv, Covered
<1>3. ToldOff'
  <2>1. \A s, K, L : Told(s, K) /\ K \subseteq L => Told(s, L)'
    BY DEF Told
  <2>0. jobs' = jobs /\ reopened' = reopened /\ shortened' = shortened
    BY DEF jobVars
  <2>2. rows \union wrote["expired"] \subseteq rows' \union wrote'["expired"]
    BY BothPasses
  <2>3. todo'["expired"] \subseteq todo["expired"]
    BY BothPasses DEF TimeInv, Types
  <2> QED
    BY <2>0, <2>1, <2>2, <2>3 DEF PunctualInv, ToldOff
<1> QED
  BY <1>1, <1>2, <1>3 DEF PunctualInv
\* What a pass has written becomes known to all at its commit.
LEMMA CommitIsPunctual ==
  ASSUME TimeInv, PunctualInv, NEW p \in Passes, CommitPass(p)
  PROVE  PunctualInv'
<1>1. /\ begun[p] # Never /\ todo[p] = {} /\ begun'[p] = Never
      /\ todo'[p] = {} /\ wrote'[p] = {} /\ queued'[p] = {}
      /\ \A q \in Passes \ {p} : /\ begun'[q] = begun[q] /\ todo'[q] = todo[q]
                                 /\ wrote'[q] = wrote[q] /\ queued'[q] = queued[q]
      /\ UNCHANGED <<now, expires, active, shortened, reopened>>
      /\ rows' = rows \union wrote[p] /\ jobs' = jobs \union queued[p]
      /\ checked \subseteq checked' /\ checked' \subseteq checked \union {p}
  BY DEF CommitPass, End, TimeInv, Types, subVars
<1>2. AtOnce'
  BY <1>1, BothPasses DEF PunctualInv, AtOnce
<1>3. Covered'
  <2>1. \A s : Announced(s, rows) => Announced(s, rows)'
    BY <1>1 DEF Announced
  <2>2. \A s : Announced(s, rows \union wrote["expiring"]) =>
                 Announced(s, rows \union wrote["expiring"])'
    BY <1>1, BothPasses DEF Announced
  <2>3. ASSUME NEW s \in Subs, active'[s], s \notin shortened', expires'[s] = now' + 1
        PROVE  begun'["expiring"] # Never => \/ Entry(s)' \in todo'["expiring"]
                                             \/ Announced(s, rows \union wrote["expiring"])'
    BY <1>1, <2>2, <2>3, BothPasses DEF PunctualInv, Covered, Entry
  <2>4. ASSUME NEW s \in Subs, active'[s], s \notin shortened', expires'[s] = now' + 1, "expiring" \in checked'
        PROVE  Announced(s, rows)'
    <3>1. CASE p = "expiring"
      <4>1. Announced(s, rows \union wrote["expiring"])
        BY <1>1, <2>4, <3>1 DEF PunctualInv, Covered
      <4> QED
        BY <1>1, <3>1, <4>1 DEF Announced
    <3>2. CASE p # "expiring"
      BY <1>1, <2>1, <2>4, <3>2 DEF PunctualInv, Covered
    <3> QED
      BY <3>1, <3>2
  <2> QED
    BY <2>3, <2>4 DEF Covered
<1>4. ToldOff'
  <2>1. \A s, K, L : Told(s, K) /\ K \subseteq L => Told(s, L)'
    BY <1>1 DEF Told
  <2>2. rows \union wrote["expired"] \subseteq rows' \union wrote'["expired"]
    BY <1>1, BothPasses
  <2>3. rows \subseteq rows'
    BY <1>1
  <2>4. \A e \in todo'["expired"] : expires'[e.sub] > now' \/ e.sub \in shortened' \/ e.expires = expires'[e.sub]
    BY <1>1, BothPasses DEF PunctualInv, ToldOff
  <2>5. \A s \in queued'["expired"] : Told(s, rows \union wrote["expired"])'
    BY <1>1, <2>1, <2>2, BothPasses DEF PunctualInv, ToldOff
  <2>6. \A s \in jobs' : s \in reopened' \/ Told(s, rows)'
    <3>1. \A s \in jobs : s \in reopened' \/ Told(s, rows)'
      BY <1>1, <2>1, <2>3 DEF PunctualInv, ToldOff
    <3>2. CASE p = "expired"
      BY <1>1, <2>1, <3>1, <3>2 DEF PunctualInv, ToldOff
    <3>3. CASE p = "expiring"
      BY <1>1, <3>1, <3>3 DEF PunctualInv, AtOnce
    <3> QED
      BY <3>2, <3>3 DEF Passes
  <2> QED
    BY <2>4, <2>5, <2>6 DEF ToldOff
<1> QED
  BY <1>2, <1>3, <1>4 DEF PunctualInv

\* Passes that end with nothing written leave the rest as it was.
LEMMA EmptyEnds ==
  ASSUME PunctualInv, UNCHANGED <<now, subVars, jobVars, rows, checked>>,
         \A p \in Passes :
           \/ begun'[p] = begun[p] /\ todo'[p] = todo[p] /\ wrote'[p] = wrote[p] /\ queued'[p] = queued[p]
           \/ begun'[p] = Never /\ todo'[p] = {} /\ wrote'[p] = {} /\ queued'[p] = {}
  PROVE  PunctualInv'
<1>1. AtOnce'
  BY BothPasses DEF PunctualInv, AtOnce
<1>2. Covered'
  BY BothPasses DEF PunctualInv, Covered, Announced, Entry, subVars
<1>3. ToldOff'
  BY BothPasses DEF PunctualInv, ToldOff, Told, subVars, jobVars
<1> QED
  BY <1>1, <1>2, <1>3 DEF PunctualInv

\* Passes that are punctual keep what PunctualInv says.
LEMMA PunctualNext ==
  ASSUME Punctual
  PROVE  TimeInv /\ PunctualInv /\ [Next]_vars => PunctualInv'
<1> SUFFICES ASSUME TimeInv, PunctualInv, [Next]_vars PROVE PunctualInv'
  OBVIOUS
<1>1. CASE BeginExpiring \/ BeginExpired
  BY <1>1, BeginKeeps
<1>2. CASE Crash
  BY <1>2, EmptyEnds DEF Crash
<1>3. CASE Tick
  <2>1. /\ \A p \in Passes : begun[p] = Never /\ todo[p] = {} /\ wrote[p] = {} /\ queued[p] = {}
        /\ jobs = {} /\ checked' = {} /\ UNCHANGED <<jobs, rows, passVars>>
    BY <1>3 DEF Tick, jobVars, PunctualInv, AtOnce
  <2> QED
    BY <2>1, BothPasses DEF PunctualInv, AtOnce, Covered, ToldOff, passVars
<1>4. ASSUME NEW e \in todo["expiring"], Remind(e) PROVE PunctualInv'
  <2>1. /\ UNCHANGED <<now, subVars, jobVars, rows, begun, queued, checked>>
        /\ todo' = [todo EXCEPT !["expiring"] = @ \ {e}]
    BY <1>4 DEF Remind, Takes
  <2>2. todo'["expiring"] = todo["expiring"] \ {e} /\ wrote'["expired"] = wrote["expired"]
        /\ wrote["expiring"] \subseteq wrote'["expiring"]
        /\ Key(Matched(e), e) \in rows' \union wrote'["expiring"]
    BY <1>4, <2>1, BothPasses DEF Remind, Notify, Known, TimeInv, Types
  <2>3. e = Entry(e.sub) => Announced(e.sub, rows' \union wrote'["expiring"])
    BY <2>2, MatchedOK DEF Entry, Key, Announced
  <2>4. \A q \in Passes : q = "expiring" \/ q = "expired"
    BY DEF Passes
  <2>5. begun["expiring"] # Never
    BY DEF TimeInv, Listed
  <2>6. todo' = [todo EXCEPT !["expiring"] = todo'["expiring"]]
    BY <2>1, <2>2, BothPasses DEF TimeInv, Types
  <2> QED
    BY <2>1, <2>2, <2>3, <2>4, <2>5, <2>6, BothPasses, NowKeeps DEF subVars
<1>5. ASSUME NEW e \in todo["expired"], SkipOpen(e) \/ QueueAndTell(e) PROVE PunctualInv'
  <2>1. /\ UNCHANGED <<now, subVars, jobVars, rows, begun, checked>>
        /\ todo' = [todo EXCEPT !["expired"] = @ \ {e}]
    BY <1>5 DEF SkipOpen, QueueAndTell, Takes
  <2>2. todo'["expired"] = todo["expired"] \ {e} /\ todo'["expiring"] = todo["expiring"]
        /\ wrote'["expiring"] = wrote["expiring"] /\ queued'["expiring"] = queued["expiring"]
        /\ wrote["expired"] \subseteq wrote'["expired"] /\ queued["expired"] \subseteq queued'["expired"]
    BY <1>5, <2>1, BothPasses DEF SkipOpen, QueueAndTell, Notify, TimeInv, Types
  <2>3. \A s \in queued'["expired"] \ queued["expired"] : Told(s, rows' \union wrote'["expired"])
    <3>1. CASE UNCHANGED queued
      BY <3>1
    <3>2. CASE QueueAndTell(e)
      <4>1. Key(Expired, e) \in rows' \union wrote'["expired"]
        BY <2>1, <3>2, BothPasses DEF QueueAndTell, Notify, Known, TimeInv, Types
      <4>2. queued'["expired"] = queued["expired"] \union {e.sub}
        BY <3>2, BothPasses DEF QueueAndTell, TimeInv, Types
      <4> QED
        BY <4>1, <4>2 DEF PunctualInv, ToldOff, Told, Key
    <3> QED
      BY <1>5, <3>1, <3>2 DEF SkipOpen
  <2>4. \A q \in Passes : q = "expiring" \/ q = "expired"
    BY DEF Passes
  <2>5. begun["expired"] # Never
    BY BothPasses DEF PunctualInv, AtOnce
  <2>6. todo' = [todo EXCEPT !["expired"] = todo'["expired"]]
    BY <2>1, <2>2, BothPasses DEF TimeInv, Types
  <2> QED
    BY <2>1, <2>2, <2>3, <2>4, <2>5, <2>6, BothPasses, NowKeeps DEF subVars
<1>6. ASSUME NEW p \in Passes, CommitPass(p) PROVE PunctualInv'
  BY <1>6, CommitIsPunctual
<1>7. ASSUME NEW p \in Passes, LockedOut(p) PROVE PunctualInv'
  <2>1. UNCHANGED <<now, subVars, jobVars, rows, checked>>
    BY <1>7 DEF LockedOut
  <2>2. \A q \in Passes :
           \/ begun'[q] = begun[q] /\ todo'[q] = todo[q] /\ wrote'[q] = wrote[q] /\ queued'[q] = queued[q]
           \/ begun'[q] = Never /\ todo'[q] = {} /\ wrote'[q] = {} /\ queued'[q] = {}
    BY <1>7 DEF LockedOut, End, TimeInv, Types
  <2> QED
    BY <2>1, <2>2, EmptyEnds
<1>8. ASSUME NEW s \in Subs, Renew(s) PROVE PunctualInv'
  BY <1>8, RenewKeeps
<1>9. ASSUME NEW s \in Subs, CutShort(s) PROVE PunctualInv'
  BY <1>9, CutKeeps
<1>10. ASSUME NEW s \in Subs, SwitchOff(s) \/ GiveUp(s) \/ Retry(s) PROVE PunctualInv'
  <2>1. /\ UNCHANGED <<now, expires, shortened, rows, passVars, checked>>
        /\ jobs' \subseteq jobs \union {s} /\ \A t \in Subs : active'[t] => active[t]
    BY <1>10 DEF SwitchOff, GiveUp, Retry, subVars, TimeInv, Types
  <2>2. \A t \in jobs' : t \in reopened' \/ (t \in jobs /\ t \notin reopened)
    BY <1>10 DEF SwitchOff, GiveUp, Retry, TimeInv, Types
  <2>3. \A t \in jobs' : t \in reopened' \/ Told(t, rows)
    BY <2>2 DEF PunctualInv, ToldOff
  <2> QED
    BY <2>1, <2>3, BothPasses DEF PunctualInv, AtOnce, Covered, Announced, Entry, ToldOff, Told, passVars
<1>11. CASE UNCHANGED vars
  BY <1>11, EmptyEnds DEF vars, passVars
<1> QED
  BY <1>1, <1>2, <1>3, <1>4, <1>5, <1>6, <1>7, <1>8, <1>9, <1>10, <1>11 DEF Next

\* A peer is switched off for an expiry only when that expiry, as it is then, was
\* announced to the customer, or an admin has just moved it or reopened an old job: a
\* renewal under the pass does not get in between.
THEOREM OffIsTold ==
  ASSUME Punctual
  PROVE  Spec => OffIsAnnounced
<1>1. TimeInv /\ PunctualInv /\ [Next]_vars =>
        [\A s \in Subs : active[s] /\ ~active'[s] /\ s \notin shortened \union reopened =>
           <<s, Expired, expires[s] \div Day>> \in rows]_vars
  <2> SUFFICES ASSUME TimeInv, PunctualInv, [Next]_vars, NEW s \in Subs, active[s], ~active'[s],
                      s \notin shortened \union reopened
               PROVE  <<s, Expired, expires[s] \div Day>> \in rows
    OBVIOUS
  <2>1. SwitchOff(s)
    <3>1. \A t \in Subs : Renew(t) => active'[s]
      BY DEF Renew, TimeInv, Types
    <3>2. \A t \in Subs : SwitchOff(t) => t = s
      BY DEF SwitchOff, TimeInv, Types
    <3> QED
      BY <3>1, <3>2
      DEF Next, BeginExpiring, BeginExpired, Begin, Crash, Tick, Remind, SkipOpen, QueueAndTell,
          CommitPass, LockedOut, CutShort, GiveUp, Retry, vars, subVars
  <2> QED
    BY <2>1 DEF SwitchOff, PunctualInv, ToldOff, Told, TimeInv, Types
<1> QED
  BY <1>1, TimeInit, TimeNext, PunctualInit, PunctualNext, PTL DEF Spec, OffIsAnnounced

\* Every expiry that comes has been announced by a reminder, that of a subscription
\* renewed while a pass went on too.
THEOREM WarnedBeforeExpiry ==
  ASSUME Punctual
  PROVE  Spec => WarnedInTime
<1>1. TimeInv /\ PunctualInv /\ [Next]_vars =>
        [\A s \in Subs : active[s] /\ s \notin shortened /\ expires[s] > now /\ expires[s] = now' =>
           \E d \in Thresholds : <<s, d, expires[s] \div Day>> \in rows]_vars
  <2> SUFFICES ASSUME TimeInv, PunctualInv, [Next]_vars,
                      NEW s \in Subs, active[s], s \notin shortened,
                      expires[s] > now, expires[s] = now'
               PROVE  Announced(s, rows)
    BY DEF Announced
  <2>1. now' # now
    BY RemindersAssumption DEF TimeInv, Types
  <2>2. Tick
    BY <2>1 DEF Next, BeginExpiring, BeginExpired, Begin, Crash, Remind, SkipOpen, QueueAndTell,
                CommitPass, LockedOut, Renew, CutShort, SwitchOff, GiveUp, Retry, vars
  <2>3. "expiring" \in checked /\ expires[s] = now + 1
    BY <2>2, BothPasses DEF Tick
  <2> QED
    BY <2>3 DEF PunctualInv, Covered
<1> QED
  BY <1>1, TimeInit, TimeNext, PunctualInit, PunctualNext, PTL DEF Spec, WarnedInTime
=============================================================================
