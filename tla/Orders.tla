------------------------------- MODULE Orders -------------------------------
(***************************************************************************)
(* Orders: a customer's chat starts one and sends its receipt              *)
(* (bot/handlers/customer), admins approve and reject it                   *)
(* (bot/handlers/admin, db/repositories/order_repo), and the worker makes  *)
(* it fulfilled (worker/engine).                                           *)
(*                                                                         *)
(* The bot handles updates concurrently, each with a database session of   *)
(* its own. A handler reads rows, and later writes, in one transaction,    *)
(* what it computed from them; an attribute that the copy it read has      *)
(* already is not written. So a handler is at least two steps, and other   *)
(* handlers come between them.                                             *)
(*                                                                         *)
(* An order either makes a subscription of its own or, if Target names     *)
(* one, adds its plan's time to it. One plan is one unit of time, and so   *)
(* are the days of one /extend.                                            *)
(*                                                                         *)
(* A definition whose name ends in an underscore and a word is the one     *)
(* before the underscore with a mistake in it, which a property excludes.  *)
(***************************************************************************)
EXTENDS Integers, FiniteSets

CONSTANTS
  Orders,         \* ids of orders that a chat may place
  Subscriptions,  \* subscriptions there are already
  Target,         \* [Orders -> Subscriptions \union {NoSub}]: renews_subscription_id
  Receipts,       \* receipt handlers that may run at once
  Reviews,        \* approve, reject and /extend handlers that may run at once
  MaxExtended,    \* bound: what /extend has added to or taken from a subscription
  NoOrder, NoSub

ASSUME OrdersAssumption ==
  /\ IsFiniteSet(Orders)
  /\ MaxExtended \in Nat
  /\ NoOrder \notin Orders
  /\ NoSub \notin Subscriptions
  /\ Target \in [Orders -> Subscriptions \union {NoSub}]

VARIABLES
  status,     \* orders.status, "none" before the order is placed
  rows,       \* how many subscriptions an order has made
  created,    \* orders whose create job is through
  approvals,  \* order.approved events that added an order's time to its target
  extended,   \* what the subscription.extended events say was added by hand
  added,      \* the time added to a subscription's expires_at
  removed,    \* subscriptions whose removed_at is set
  waiting,    \* whether the chat's state is awaiting_receipt (MemoryStorage)
  chat,       \* the order_id in the chat's data
  shown,      \* orders the admins have Approve and Reject buttons for, in the
              \* alert for the receipt or in /admin's list of those submitted
  receipt,    \* the receipt handlers
  review      \* the admins' handlers

orderVars == <<status, rows, created, approvals>>
subVars   == <<extended, added, removed>>
chatVars  == <<waiting, chat>>
vars      == <<orderVars, subVars, chatVars, shown, receipt, review>>

-----------------------------------------------------------------------------
Statuses == {"none", "awaiting", "submitted", "provisioning", "fulfilled", "rejected"}
Granted  == {"provisioning", "fulfilled"}   \* paid and approved

Idle == [step |-> "idle"]

Init ==
  /\ status    = [o \in Orders |-> "none"]
  /\ rows      = [o \in Orders |-> 0]
  /\ created   = {}
  /\ approvals = [o \in Orders |-> 0]
  /\ extended  = [s \in Subscriptions |-> 0]
  /\ added     = [s \in Subscriptions |-> 0]
  /\ removed   = {}
  /\ waiting   = FALSE
  /\ chat      = NoOrder
  /\ shown     = {}
  /\ receipt   = [r \in Receipts |-> Idle]
  /\ review    = [a \in Reviews |-> Idle]

\* The status column is written unless the handler's copy has the value already.
SetStatus(o, seen, new) ==
  status' = IF seen = new THEN status ELSE [status EXCEPT ![o] = new]

-----------------------------------------------------------------------------
(* The customer. *)

\* _start_order: the chat now waits for this order's receipt, whatever it was
\* waiting for before.
StartOrder(o) ==
  /\ status[o] = "none"
  /\ status' = [status EXCEPT ![o] = "awaiting"]
  /\ waiting' = TRUE
  /\ chat' = o
  /\ UNCHANGED <<rows, created, approvals, subVars, shown, receipt, review>>

\* state.clear: the state and its data are gone. The order stays as it is.
Forget ==
  /\ waiting' = FALSE
  /\ chat' = NoOrder

\* Cancel, or a message to support that has been sent.
CancelOrder ==
  /\ chat # NoOrder
  /\ Forget
  /\ UNCHANGED <<orderVars, subVars, shown, receipt, review>>

\* Support takes the state; the order_id stays in the data.
OpenSupport ==
  /\ waiting
  /\ waiting' = FALSE
  /\ UNCHANGED <<orderVars, subVars, chat, shown, receipt, review>>

\* A photo or document arrives while the chat is waiting for one. The next, which
\* the throttle lets in half a second later, may find the first handler waiting for
\* the database still ...
ReceiveReceipt(r) ==
  /\ receipt[r] = Idle
  /\ waiting
  /\ receipt' = [receipt EXCEPT ![r] = [step |-> "upsert", order |-> NoOrder, seen |-> "none"]]
  /\ UNCHANGED <<orderVars, subVars, chatVars, shown, review>>

\* ... the handler starts when UserMiddleware has saved the user, and takes the
\* order that the chat's data names by then, if any ...
TakeOrder(r) ==
  /\ receipt[r].step = "upsert"
  /\ \/ /\ chat = NoOrder
        /\ receipt' = [receipt EXCEPT ![r] = Idle]
        /\ Forget
     \/ /\ chat # NoOrder
        /\ receipt' = [receipt EXCEPT ![r].step = "load", ![r].order = chat]
        /\ UNCHANGED chatVars
  /\ UNCHANGED <<orderVars, subVars, shown, review>>

\* ... it reads the order ...
LoadOrder(r) ==
  /\ receipt[r].step = "load"
  /\ receipt' = [receipt EXCEPT ![r].step = "submit", ![r].seen = status[receipt[r].order]]
  /\ UNCHANGED <<orderVars, subVars, chatVars, shown, review>>

\* ... submit_receipt writes it, whatever has become of the order since ...
SubmitReceipt(r) ==
  LET o == receipt[r].order IN
  /\ receipt[r].step = "submit"
  /\ SetStatus(o, receipt[r].seen, "submitted")
  /\ shown' = shown \union {o}
  /\ receipt' = [receipt EXCEPT ![r].step = "clear"]
  /\ UNCHANGED <<rows, created, approvals, subVars, chatVars, review>>

\* ... and the chat waits for nothing any more.
ClearChat(r) ==
  /\ receipt[r].step = "clear"
  /\ Forget
  /\ receipt' = [receipt EXCEPT ![r] = Idle]
  /\ UNCHANGED <<orderVars, subVars, shown, review>>

-----------------------------------------------------------------------------
(* The admins. *)

Open_NotRejected(o) == status[o] # "rejected"

\* The orders that the approve handler takes.
Open(o) == status[o] \in {"submitted", "awaiting"}

\* Approve: the handler reads the order. Its copy stays in the session, and the
\* second reading in approve_order_atomic does not refresh it ...
BeginApprove(a, o) ==
  /\ review[a] = Idle
  /\ o \in shown
  /\ Open(o)
  /\ review' = [review EXCEPT ![a] = [step |-> "read", order |-> o, seen |-> status[o],
                                      renews |-> FALSE, time |-> 0]]
  /\ UNCHANGED <<orderVars, subVars, chatVars, shown, receipt>>

\* _renewable_subscription: one whose peer has been removed is not extended.
Renewable(o) == Target[o] # NoSub /\ Target[o] \notin removed

\* ... then the subscription the order has made, if any, and the one it renews ...
ReadSubscriptions(a) ==
  LET o == review[a].order IN
  /\ review[a].step = "read"
  /\ \/ /\ rows[o] > 0
        /\ review' = [review EXCEPT ![a] = Idle]
     \/ /\ rows[o] = 0
        /\ \/ /\ Renewable(o)
              /\ review' = [review EXCEPT ![a].step = "grant", ![a].renews = TRUE,
                                          ![a].time = added[Target[o]]]
           \/ /\ ~Renewable(o)
              /\ review' = [review EXCEPT ![a].step = "grant"]
  /\ UNCHANGED <<orderVars, subVars, chatVars, shown, receipt>>

\* subscriptions.order_id is unique: a second insert fails.
Inserted(o) == rows[o] = 0

\* ... and gives the order a subscription and a create job ...
GrantNew(a) ==
  LET o == review[a].order IN
  /\ review[a].step = "grant" /\ ~review[a].renews
  /\ \/ /\ Inserted(o)
        /\ SetStatus(o, review[a].seen, "provisioning")
        /\ rows' = [rows EXCEPT ![o] = @ + 1]
     \/ /\ ~Inserted(o)
        /\ UNCHANGED <<status, rows>>
  /\ review' = [review EXCEPT ![a] = Idle]
  /\ UNCHANGED <<created, approvals, subVars, chatVars, shown, receipt>>

GrantRenewal_StatusUnset(a) ==
  LET o == review[a].order IN
  /\ review[a].step = "grant" /\ review[a].renews
  /\ added' = [added EXCEPT ![Target[o]] = review[a].time + 1]
  /\ approvals' = [approvals EXCEPT ![o] = @ + 1]
  /\ review' = [review EXCEPT ![a] = Idle]
  /\ UNCHANGED <<status, rows, created, extended, removed, chatVars, shown, receipt>>

GrantRenewal_FromNow(a) ==
  LET o == review[a].order IN
  /\ review[a].step = "grant" /\ review[a].renews
  /\ SetStatus(o, review[a].seen, "fulfilled")
  /\ added' = [added EXCEPT ![Target[o]] = 1]
  /\ approvals' = [approvals EXCEPT ![o] = @ + 1]
  /\ review' = [review EXCEPT ![a] = Idle]
  /\ UNCHANGED <<rows, created, extended, removed, chatVars, shown, receipt>>

\* ... or its target the time it had when it was read and one plan more.
GrantRenewal(a) ==
  LET o == review[a].order IN
  /\ review[a].step = "grant" /\ review[a].renews
  /\ SetStatus(o, review[a].seen, "fulfilled")
  /\ added' = [added EXCEPT ![Target[o]] = review[a].time + 1]
  /\ approvals' = [approvals EXCEPT ![o] = @ + 1]
  /\ review' = [review EXCEPT ![a] = Idle]
  /\ UNCHANGED <<rows, created, extended, removed, chatVars, shown, receipt>>

\* Reject: reject_order reads the order ...
BeginReject(a, o) ==
  /\ review[a] = Idle
  /\ o \in shown
  /\ status[o] \notin Granted
  /\ review' = [review EXCEPT ![a] = [step |-> "reject", order |-> o, seen |-> status[o],
                                      renews |-> FALSE, time |-> 0]]
  /\ UNCHANGED <<orderVars, subVars, chatVars, shown, receipt>>

\* ... and writes it.
Reject(a) ==
  /\ review[a].step = "reject"
  /\ SetStatus(review[a].order, review[a].seen, "rejected")
  /\ review' = [review EXCEPT ![a] = Idle]
  /\ UNCHANGED <<rows, created, approvals, subVars, chatVars, shown, receipt>>

\* /extend: the handler finds the subscription by its label ...
BeginExtend(a, s, days) ==
  /\ review[a] = Idle
  /\ s \notin removed
  /\ extended[s] + days \in -MaxExtended .. MaxExtended
  /\ review' = [review EXCEPT ![a] = [step |-> "extend", sub |-> s, time |-> added[s], days |-> days]]
  /\ UNCHANGED <<orderVars, subVars, chatVars, shown, receipt>>

\* ... and adds days to the expiry it read, or takes them away.
Extend(a) ==
  LET s == review[a].sub IN
  /\ review[a].step = "extend"
  /\ added' = [added EXCEPT ![s] = review[a].time + review[a].days]
  /\ extended' = [extended EXCEPT ![s] = @ + review[a].days]
  /\ review' = [review EXCEPT ![a] = Idle]
  /\ UNCHANGED <<orderVars, removed, chatVars, shown, receipt>>

-----------------------------------------------------------------------------
(* What happens besides. *)

\* The worker has run the order's create job.
Fulfil(o) ==
  /\ rows[o] > 0
  /\ o \notin created
  /\ created' = created \union {o}
  /\ status' = [status EXCEPT ![o] = "fulfilled"]
  /\ UNCHANGED <<rows, approvals, subVars, chatVars, shown, receipt, review>>

\* A subscription's grace period is over and its peer is removed.
RemovePeer(s) ==
  /\ s \notin removed
  /\ removed' = removed \union {s}
  /\ UNCHANGED <<orderVars, extended, added, chatVars, shown, receipt, review>>

\* The bot restarts: its handlers end where they are, and it forgets its chats.
Restart ==
  /\ Forget
  /\ receipt' = [r \in Receipts |-> Idle]
  /\ review' = [a \in Reviews |-> Idle]
  /\ UNCHANGED <<orderVars, subVars, shown>>

Customer == \/ \E o \in Orders : StartOrder(o)
            \/ CancelOrder \/ OpenSupport
            \/ \E r \in Receipts : \/ ReceiveReceipt(r) \/ TakeOrder(r) \/ LoadOrder(r)
                                   \/ SubmitReceipt(r) \/ ClearChat(r)
Admin    == \E a \in Reviews : \/ \E o \in Orders : BeginApprove(a, o) \/ BeginReject(a, o)
                               \/ ReadSubscriptions(a) \/ GrantNew(a) \/ GrantRenewal(a) \/ Reject(a)
                               \/ \E s \in Subscriptions, days \in {1, -1} : BeginExtend(a, s, days)
                               \/ Extend(a)

Next ==
  \/ Customer \/ Admin
  \/ \E o \in Orders : Fulfil(o)
  \/ \E s \in Subscriptions : RemovePeer(s)
  \/ Restart

Spec == Init /\ [][Next]_vars

-----------------------------------------------------------------------------
(* Properties. *)

ReceiptTasks == [step : {"upsert"}, order : {NoOrder}, seen : {"none"}]
                  \union [step : {"load", "submit", "clear"}, order : Orders, seen : Statuses]
ReviewTasks  == [step : {"read", "grant", "reject"}, order : Orders, seen : Statuses,
                 renews : BOOLEAN, time : Int]
ExtendTasks  == [step : {"extend"}, sub : Subscriptions, time : Int, days : Int]

TypeOK ==
  /\ status \in [Orders -> Statuses]
  /\ rows \in [Orders -> Nat]
  /\ created \subseteq Orders
  /\ approvals \in [Orders -> Nat]
  /\ extended \in [Subscriptions -> Int]
  /\ added \in [Subscriptions -> Int]
  /\ removed \subseteq Subscriptions
  /\ waiting \in BOOLEAN
  /\ chat \in Orders \union {NoOrder}
  /\ shown \subseteq Orders
  /\ receipt \in [Receipts -> {Idle} \union ReceiptTasks]
  /\ review \in [Reviews -> {Idle} \union ReviewTasks \union ExtendTasks]
  /\ \A a \in Reviews : review[a] \in ReviewTasks /\ review[a].renews =>
       review[a].step = "grant" /\ Target[review[a].order] \in Subscriptions

\* The conditions under which an order is handled as if nothing were concurrent.
OneReviewAtATime  == \A a, b \in Reviews : a = b
OneReceiptAtATime == \A r, q \in Receipts : r = q

\* An order makes one subscription at most, however many admins approve it and
\* however late its receipts arrive.
OneSubscription == \A o \in Orders : rows[o] <= 1

\* An order that was approved stays so: it is provisioning or fulfilled, is not
\* open to another approval, and nobody is told that it was rejected.
ApprovedStays ==
  \A o \in Orders : rows[o] > 0 \/ approvals[o] > 0 => status[o] \in Granted

\* The orders that have renewed a subscription.
Renewals(s) == {o \in Orders : Target[o] = s /\ approvals[o] > 0}

\* A subscription has the time of the orders that renewed it and of /extend: none
\* is counted twice ("strictly idempotent", approve_order_atomic) ...
CountedOnce ==
  \A s \in Subscriptions : added[s] <= Cardinality(Renewals(s)) + extended[s]

\* ... and none is lost ("renewing adds time to the same config", OPERATIONS.md).
NoneLost ==
  \A s \in Subscriptions : added[s] >= Cardinality(Renewals(s)) + extended[s]

\* Time is added only to a subscription that has its peer still: "once a peer has
\* been removed (after the grace period) there is nothing left to extend".
RenewsLivePeers ==
  [][\A o \in Orders : approvals'[o] > approvals[o] => Target[o] \notin removed]_vars
=============================================================================
