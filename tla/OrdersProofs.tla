---------------------------- MODULE OrdersProofs ----------------------------
(***************************************************************************)
(* Proofs about Orders, for any finite set of orders, any subscriptions    *)
(* and any Target: what holds however many handlers run at once, and what  *)
(* holds if reviews do not overlap and neither do receipts.                *)
(***************************************************************************)
EXTENDS Orders, FiniteSetTheorems, TLAPS

\* A receipt handler that is not idle is a task.
LEMMA ReceiptTask ==
  ASSUME TypeOK, NEW r \in Receipts, receipt[r].step # "idle"
  PROVE  receipt[r] \in ReceiptTasks /\ receipt[r] # Idle
BY DEF TypeOK, Idle

\* One that has taken its order is at one of the later steps.
LEMMA TakenTask ==
  ASSUME TypeOK, NEW r \in Receipts, receipt[r].step \in {"load", "submit", "clear"}
  PROVE  receipt[r] \in [step : {"load", "submit", "clear"}, order : Orders, seen : Statuses]
BY ReceiptTask DEF ReceiptTasks

\* A review handler that is neither idle nor an /extend is a task.
LEMMA ReviewTask ==
  ASSUME TypeOK, NEW a \in Reviews, review[a].step \notin {"idle", "extend"}
  PROVE  review[a] \in ReviewTasks /\ review[a] # Idle
BY DEF TypeOK, Idle, ExtendTasks

\* A handler of /extend knows its subscription.
LEMMA ExtendTask ==
  ASSUME TypeOK, NEW a \in Reviews, review[a].step = "extend"
  PROVE  review[a] \in ExtendTasks /\ review[a] # Idle
BY DEF TypeOK, Idle, ReviewTasks

\* SetStatus keeps the column's type.
LEMMA SetStatusType ==
  ASSUME status \in [Orders -> Statuses], NEW o \in Orders, NEW seen,
         NEW new \in Statuses, SetStatus(o, seen, new)
  PROVE  status' \in [Orders -> Statuses]
BY DEF SetStatus

\* What ReadSubscriptions leaves in the handler.
LEMMA ReadResult ==
  ASSUME TypeOK, NEW a \in Reviews, ReadSubscriptions(a)
  PROVE  /\ review' \in [Reviews -> {Idle} \union ReviewTasks \union ExtendTasks]
         /\ \A b \in Reviews \ {a} : review'[b] = review[b]
         /\ \/ review'[a] = Idle
            \/ /\ review'[a] \in ReviewTasks
               /\ review'[a].step = "grant" /\ review'[a].order = review[a].order
               /\ review'[a].seen = review[a].seen
               /\ review'[a].renews => /\ Target[review[a].order] \in Subscriptions
                                       /\ review'[a].time = added[Target[review[a].order]]
<1>1. review[a] \in ReviewTasks /\ ~review[a].renews
  BY ReviewTask DEF ReadSubscriptions, TypeOK
<1> DEFINE o == review[a].order
<1>2. CASE review' = [review EXCEPT ![a] = Idle]
  BY <1>1, <1>2 DEF TypeOK
<1>3. CASE /\ Renewable(o)
           /\ review' = [review EXCEPT ![a].step = "grant", ![a].renews = TRUE,
                                       ![a].time = added[Target[o]]]
  <2>1. o \in Orders /\ Target[o] \in Subscriptions
    BY <1>1, <1>3, OrdersAssumption DEF Renewable, ReviewTasks
  <2>2. added[Target[o]] \in Int
    BY <2>1 DEF TypeOK
  <2>3. review'[a] = [review[a] EXCEPT !.step = "grant", !.renews = TRUE, !.time = added[Target[o]]]
    BY <1>3 DEF TypeOK
  <2>4. review'[a] \in ReviewTasks
    BY <1>1, <2>2, <2>3 DEF ReviewTasks
  <2>5. review'[a].order = o /\ review'[a].seen = review[a].seen /\ review'[a].time = added[Target[o]]
    BY <1>1, <2>3 DEF ReviewTasks
  <2>6. \A b \in Reviews \ {a} : review'[b] = review[b]
    BY <1>3 DEF TypeOK
  <2>7. review' \in [Reviews -> {Idle} \union ReviewTasks \union ExtendTasks]
    BY <1>3, <2>3, <2>4 DEF TypeOK
  <2> QED
    BY <1>1, <2>1, <2>3, <2>4, <2>5, <2>6, <2>7 DEF ReviewTasks
<1>4. CASE review' = [review EXCEPT ![a].step = "grant"]
  <2>1. review'[a] = [review[a] EXCEPT !.step = "grant"]
    BY <1>4 DEF TypeOK
  <2>2. review'[a] \in ReviewTasks
    BY <1>1, <2>1 DEF ReviewTasks
  <2>3. review' \in [Reviews -> {Idle} \union ReviewTasks \union ExtendTasks]
    BY <1>4, <2>1, <2>2 DEF TypeOK
  <2> QED
    BY <1>1, <1>4, <2>1, <2>2, <2>3 DEF TypeOK, ReviewTasks
<1> QED
  BY <1>2, <1>3, <1>4 DEF ReadSubscriptions

\* Init gives every variable a value of its type.
LEMMA InitTyped == Init => TypeOK
<1> SUFFICES ASSUME Init PROVE TypeOK
  OBVIOUS
<1>1. \A a \in Reviews : review[a] = Idle /\ review[a] \notin ReviewTasks
  BY DEF Init, Idle, ReviewTasks
<1>2. /\ receipt \in [Receipts -> {Idle} \union ReceiptTasks]
      /\ review \in [Reviews -> {Idle} \union ReviewTasks \union ExtendTasks]
  BY DEF Init
<1>3. /\ status \in [Orders -> Statuses] /\ rows \in [Orders -> Nat] /\ approvals \in [Orders -> Nat]
      /\ extended \in [Subscriptions -> Int] /\ added \in [Subscriptions -> Int]
  BY DEF Init, Statuses
<1> QED
  BY <1>1, <1>2, <1>3 DEF Init, TypeOK

\* The customer's steps keep the types.
LEMMA CustomerTyped == TypeOK /\ Customer => TypeOK'
<1> SUFFICES ASSUME TypeOK, Customer PROVE TypeOK'
  OBVIOUS
<1>1. ASSUME NEW o \in Orders, StartOrder(o) PROVE TypeOK'
  BY <1>1 DEF StartOrder, TypeOK, subVars, Statuses
<1>2. CASE CancelOrder \/ OpenSupport
  BY <1>2 DEF CancelOrder, OpenSupport, Forget, TypeOK, orderVars, subVars
<1>3. ASSUME NEW r \in Receipts, ReceiveReceipt(r) PROVE TypeOK'
  <2>1. [step |-> "upsert", order |-> NoOrder, seen |-> "none"] \in ReceiptTasks
    BY DEF ReceiptTasks
  <2>2. receipt' \in [Receipts -> {Idle} \union ReceiptTasks]
    BY <1>3, <2>1 DEF ReceiveReceipt, TypeOK
  <2> QED
    BY <1>3, <2>2 DEF ReceiveReceipt, TypeOK, orderVars, subVars, chatVars
<1>4. ASSUME NEW r \in Receipts, TakeOrder(r) PROVE TypeOK'
  <2>1. receipt[r] \in ReceiptTasks
    BY <1>4, ReceiptTask DEF TakeOrder
  <2>2. CASE receipt' = [receipt EXCEPT ![r] = Idle] /\ Forget
    BY <1>4, <2>2 DEF TakeOrder, Forget, TypeOK, orderVars, subVars
  <2>3. CASE /\ chat # NoOrder
             /\ receipt' = [receipt EXCEPT ![r].step = "load", ![r].order = chat]
             /\ UNCHANGED chatVars
    <3>1. chat \in Orders /\ receipt[r].seen \in Statuses
      BY <2>1, <2>3 DEF TypeOK, ReceiptTasks, Statuses
    <3>2. receipt'[r] = [receipt[r] EXCEPT !.step = "load", !.order = chat]
      BY <2>3 DEF TypeOK
    <3>3. receipt'[r] \in ReceiptTasks
      BY <2>1, <3>1, <3>2 DEF ReceiptTasks, Statuses
    <3>4. receipt' \in [Receipts -> {Idle} \union ReceiptTasks]
      BY <2>3, <3>3, <3>2 DEF TypeOK
    <3> QED
      BY <1>4, <2>3, <3>4 DEF TakeOrder, TypeOK, orderVars, subVars, chatVars
  <2> QED
    BY <1>4, <2>2, <2>3 DEF TakeOrder
<1>5. ASSUME NEW r \in Receipts, LoadOrder(r) PROVE TypeOK'
  <2>1. receipt[r] \in [step : {"load", "submit", "clear"}, order : Orders, seen : Statuses]
    BY <1>5, TakenTask DEF LoadOrder
  <2>2. status[receipt[r].order] \in Statuses
    BY <2>1 DEF TypeOK
  <2>3. receipt' \in [Receipts -> {Idle} \union ReceiptTasks]
    BY <1>5, <2>1, <2>2 DEF LoadOrder, TypeOK, ReceiptTasks
  <2> QED
    BY <1>5, <2>3 DEF LoadOrder, TypeOK, orderVars, subVars, chatVars
<1>6. ASSUME NEW r \in Receipts, SubmitReceipt(r) PROVE TypeOK'
  <2>1. receipt[r] \in [step : {"load", "submit", "clear"}, order : Orders, seen : Statuses]
    BY <1>6, TakenTask DEF SubmitReceipt
  <2>2. receipt' \in [Receipts -> {Idle} \union ReceiptTasks]
    BY <1>6, <2>1 DEF SubmitReceipt, TypeOK, ReceiptTasks
  <2>3. status' \in [Orders -> Statuses] /\ receipt[r].order \in Orders
    BY <1>6, <2>1, SetStatusType DEF SubmitReceipt, TypeOK, Statuses
  <2> QED
    BY <1>6, <2>2, <2>3 DEF SubmitReceipt, TypeOK, subVars, chatVars
<1>7. ASSUME NEW r \in Receipts, ClearChat(r) PROVE TypeOK'
  BY <1>7 DEF ClearChat, Forget, TypeOK, orderVars, subVars
<1> QED
  BY <1>1, <1>2, <1>3, <1>4, <1>5, <1>6, <1>7 DEF Customer

\* The admins' steps keep the types.
LEMMA AdminTyped == TypeOK /\ Admin => TypeOK'
<1> SUFFICES ASSUME TypeOK, Admin PROVE TypeOK'
  OBVIOUS
<1>1. ASSUME NEW a \in Reviews, NEW o \in Orders, NEW k \in {"read", "reject"},
             review' = [review EXCEPT ![a] = [step |-> k, order |-> o, seen |-> status[o],
                                              renews |-> FALSE, time |-> 0]],
             UNCHANGED <<orderVars, subVars, chatVars, shown, receipt>>
      PROVE  TypeOK'
  <2>1. [step |-> k, order |-> o, seen |-> status[o], renews |-> FALSE, time |-> 0] \in ReviewTasks
    BY DEF TypeOK, ReviewTasks
  <2>2. /\ review' \in [Reviews -> {Idle} \union ReviewTasks \union ExtendTasks]
        /\ ~review'[a].renews /\ \A b \in Reviews \ {a} : review'[b] = review[b]
    BY <1>1, <2>1 DEF TypeOK
  <2> QED
    BY <1>1, <2>2 DEF TypeOK, orderVars, subVars, chatVars
<1>2. ASSUME NEW a \in Reviews, ReadSubscriptions(a) PROVE TypeOK'
  <2>1. UNCHANGED <<orderVars, subVars, chatVars, shown, receipt>>
    BY <1>2 DEF ReadSubscriptions
  <2>2. review' \in [Reviews -> {Idle} \union ReviewTasks \union ExtendTasks]
    BY <1>2, ReadResult
  <2>3. \A b \in Reviews : review'[b] \in ReviewTasks /\ review'[b].renews =>
          review'[b].step = "grant" /\ Target[review'[b].order] \in Subscriptions
    BY <1>2, ReadResult DEF TypeOK, Idle, ReviewTasks
  <2> QED
    BY <2>1, <2>2, <2>3 DEF TypeOK, orderVars, subVars, chatVars
<1>3. ASSUME NEW a \in Reviews, review' = [review EXCEPT ![a] = Idle],
             UNCHANGED <<created, removed, chatVars, shown, receipt>>,
             status' \in [Orders -> Statuses], rows' \in [Orders -> Nat],
             approvals' \in [Orders -> Nat], added' \in [Subscriptions -> Int],
             extended' \in [Subscriptions -> Int]
      PROVE  TypeOK'
  BY <1>3 DEF TypeOK, chatVars, Idle, ReviewTasks
<1>4. ASSUME NEW a \in Reviews, GrantNew(a) \/ GrantRenewal(a) \/ Reject(a) PROVE TypeOK'
  <2>1. review[a] \in ReviewTasks /\ review[a] # Idle
    BY <1>4, ReviewTask DEF GrantNew, GrantRenewal, Reject
  <2>2. status' \in [Orders -> Statuses]
    BY <1>4, <2>1, SetStatusType DEF GrantNew, GrantRenewal, Reject, TypeOK, ReviewTasks, Statuses
  <2>3. rows' \in [Orders -> Nat] /\ approvals' \in [Orders -> Nat]
    BY <1>4, <2>1 DEF GrantNew, GrantRenewal, Reject, TypeOK, ReviewTasks
  <2>4. added' \in [Subscriptions -> Int] /\ extended' \in [Subscriptions -> Int]
    BY <1>4, <2>1 DEF GrantNew, GrantRenewal, Reject, TypeOK, ReviewTasks, subVars
  <2>5. review' = [review EXCEPT ![a] = Idle] /\ UNCHANGED <<created, removed, chatVars, shown, receipt>>
    BY <1>4 DEF GrantNew, GrantRenewal, Reject, subVars
  <2> QED
    BY <1>3, <2>2, <2>3, <2>4, <2>5
<1>5. ASSUME NEW a \in Reviews, NEW s \in Subscriptions, NEW days \in {1, -1}, BeginExtend(a, s, days)
      PROVE  TypeOK'
  <2>1. [step |-> "extend", sub |-> s, time |-> added[s], days |-> days] \in ExtendTasks
    BY DEF TypeOK, ExtendTasks
  <2>2. review'[a] \notin ReviewTasks
    BY <1>5 DEF BeginExtend, TypeOK, ReviewTasks
  <2>3. review' \in [Reviews -> {Idle} \union ReviewTasks \union ExtendTasks]
    BY <1>5, <2>1 DEF BeginExtend, TypeOK
  <2>4. \A b \in Reviews \ {a} : review'[b] = review[b]
    BY <1>5 DEF BeginExtend, TypeOK
  <2> QED
    BY <1>5, <2>2, <2>3, <2>4 DEF BeginExtend, TypeOK, orderVars, subVars, chatVars
<1>6. ASSUME NEW a \in Reviews, Extend(a) PROVE TypeOK'
  <2>1. review[a] \in ExtendTasks
    BY <1>6, ExtendTask DEF Extend
  <2>2. added' \in [Subscriptions -> Int] /\ extended' \in [Subscriptions -> Int]
    BY <1>6, <2>1 DEF Extend, TypeOK, ExtendTasks
  <2>3. status' \in [Orders -> Statuses] /\ rows' \in [Orders -> Nat] /\ approvals' \in [Orders -> Nat]
    BY <1>6 DEF Extend, TypeOK, orderVars
  <2>4. review' = [review EXCEPT ![a] = Idle] /\ UNCHANGED <<created, removed, chatVars, shown, receipt>>
    BY <1>6 DEF Extend, orderVars
  <2> QED
    BY <1>3, <2>2, <2>3, <2>4
<1> QED
  BY <1>1, <1>2, <1>4, <1>5, <1>6 DEF Admin, BeginApprove, BeginReject

\* Every step keeps the types.
LEMMA NextTyped == TypeOK /\ [Next]_vars => TypeOK'
<1> SUFFICES ASSUME TypeOK, [Next]_vars PROVE TypeOK'
  OBVIOUS
<1>1. ASSUME NEW o \in Orders, Fulfil(o) PROVE TypeOK'
  BY <1>1 DEF Fulfil, TypeOK, subVars, chatVars, Statuses
<1>2. ASSUME NEW s \in Subscriptions, RemovePeer(s) PROVE TypeOK'
  BY <1>2 DEF RemovePeer, TypeOK, orderVars, chatVars
<1>3. CASE Restart
  BY <1>3 DEF Restart, Forget, TypeOK, orderVars, subVars, Idle, ReviewTasks
<1>4. CASE UNCHANGED vars
  BY <1>4 DEF vars, TypeOK, orderVars, subVars, chatVars
<1> QED
  BY <1>1, <1>2, <1>3, <1>4, CustomerTyped, AdminTyped DEF Next

\* Every reachable state has the types of TypeOK.
THEOREM TypeIsKept == Spec => []TypeOK
BY InitTyped, NextTyped, PTL DEF Spec

-----------------------------------------------------------------------------
(* One subscription: only GrantNew makes one, and order_id is unique.       *)

\* Every step keeps an order at one subscription.
LEMMA NextOne == TypeOK /\ OneSubscription /\ [Next]_vars => OneSubscription'
<1> SUFFICES ASSUME TypeOK, OneSubscription, [Next]_vars PROVE OneSubscription'
  OBVIOUS
<1>1. ASSUME NEW a \in Reviews, GrantNew(a) PROVE OneSubscription'
  BY <1>1 DEF GrantNew, Inserted, OneSubscription, TypeOK
<1>2. ASSUME UNCHANGED rows PROVE OneSubscription'
  BY <1>2 DEF OneSubscription
<1>3. CASE UNCHANGED rows
  BY <1>2, <1>3
<1> QED
  BY <1>1, <1>3 DEF Next, Customer, Admin, StartOrder, CancelOrder, ReceiveReceipt, LoadOrder,
     SubmitReceipt, ClearChat, BeginApprove, ReadSubscriptions, GrantRenewal, BeginReject, Reject,
     BeginExtend, Extend, OpenSupport, TakeOrder, Fulfil, RemovePeer, Restart, vars, orderVars

\* However many handlers run at once, an order makes one subscription at most.
THEOREM OneSubscriptionEach == Spec => []OneSubscription
<1>1. Init => OneSubscription
  BY DEF Init, OneSubscription
<1> QED
  BY <1>1, NextOne, TypeIsKept, PTL DEF Spec

-----------------------------------------------------------------------------
(* An approved order stays approved, and a renewed subscription has exactly *)
(* the time that was added to it, if reviews do not overlap and receipts do *)
(* not: no receipt is in progress for an order the admins can see, and what *)
(* a review has read is still so when it writes.                            *)

\* An order that has its receipt is not waited for, except by the handler
\* that is about to clear the chat.
ChatWaits ==
  chat \in shown => \E r \in Receipts : receipt[r].step = "clear" /\ receipt[r].order = chat

\* A receipt that is still to be written is for an order nobody reviews yet.
ReceiptsFirst ==
  \A r \in Receipts : receipt[r].step \in {"load", "submit"} => receipt[r].order \notin shown

\* An order nobody could review has been given nothing.
ShownFirst ==
  \A o \in Orders : /\ status[o] = "none" => o \notin shown
                    /\ o \notin shown => rows[o] = 0 /\ approvals[o] = 0 /\ status[o] \notin Granted

\* A review's copy of the order is up to date, and the order not approved.
ReviewsFresh ==
  \A a \in Reviews : review[a].step \in {"read", "grant", "reject"} =>
    LET o == review[a].order IN
    /\ o \in shown
    /\ review[a].seen = status[o]
    /\ status[o] \notin Granted /\ rows[o] = 0 /\ approvals[o] = 0

\* Only an order that was placed is waited for, or has a receipt in progress.
Placed ==
  /\ chat \in Orders => status[chat] # "none"
  /\ \A r \in Receipts : receipt[r].step \in {"load", "submit", "clear"} =>
                            status[receipt[r].order] # "none"

\* A handler's copy of the expiry is up to date.
TimesFresh ==
  \A a \in Reviews :
    /\ review[a].step = "grant" /\ review[a].renews => review[a].time = added[Target[review[a].order]]
    /\ review[a].step = "extend" => review[a].time = added[review[a].sub]

\* CountedOnce and NoneLost together.
Counted ==
  \A s \in Subscriptions : added[s] = Cardinality(Renewals(s)) + extended[s]

\* The inductive invariant: the handlers and orders, and the time.
Settled == Placed /\ ChatWaits /\ ReceiptsFirst /\ ShownFirst /\ ReviewsFresh /\ ApprovedStays

\* Nothing has happened at first.
LEMMA InitSettled == Init => Settled
BY OrdersAssumption DEF Init, Settled, Placed, ChatWaits, ReceiptsFirst, ShownFirst, ReviewsFresh,
   ApprovedStays, Idle, Granted

\* The customer's steps keep Settled: a receipt is written before anybody
\* reviews its order.
LEMMA CustomerSettled ==
  ASSUME TypeOK, OneReceiptAtATime, Settled, Customer
  PROVE  Settled'
<1> USE DEF Settled
<1>1. ASSUME NEW o \in Orders, StartOrder(o) PROVE Settled'
  <2>1. o \notin shown /\ status'[o] = "awaiting" /\ chat' = o
    BY <1>1 DEF StartOrder, TypeOK, ShownFirst
  <2>2. \A q \in Orders : q # o => status'[q] = status[q]
    BY <1>1 DEF StartOrder, TypeOK
  <2>3. UNCHANGED <<rows, approvals, shown, receipt, review>>
    BY <1>1 DEF StartOrder
  <2>4. ReviewsFresh'
    BY <2>1, <2>2, <2>3, ReviewTask DEF ReviewsFresh, ReviewTasks
  <2>5. Placed'
    BY <2>1, <2>2, <2>3, TakenTask DEF Placed
  <2> QED
    BY <2>1, <2>2, <2>3, <2>4, <2>5 DEF ChatWaits, ReceiptsFirst, ShownFirst, ApprovedStays, Granted
<1>2. ASSUME Forget \/ UNCHANGED chat, UNCHANGED <<orderVars, shown, receipt, review>> PROVE Settled'
  BY <1>2, OrdersAssumption DEF Forget, TypeOK, orderVars, Placed, ChatWaits,
     ReceiptsFirst, ShownFirst, ReviewsFresh, ApprovedStays
<1>3. CASE CancelOrder \/ OpenSupport
  BY <1>2, <1>3 DEF CancelOrder, OpenSupport
<1>4. ASSUME NEW r \in Receipts, ReceiveReceipt(r) PROVE Settled'
  <2>1. chat \notin shown
    BY <1>4 DEF ReceiveReceipt, ChatWaits, OneReceiptAtATime, Idle
  <2>2. receipt'[r].step = "upsert"
    BY <1>4 DEF ReceiveReceipt, TypeOK
  <2>3. UNCHANGED <<orderVars, chat, shown, review>>
    BY <1>4 DEF ReceiveReceipt, chatVars
  <2> QED
    BY <2>1, <2>2, <2>3 DEF OneReceiptAtATime, orderVars, Placed, ChatWaits,
       ReceiptsFirst, ShownFirst, ReviewsFresh, ApprovedStays
<1>5. ASSUME NEW r \in Receipts, TakeOrder(r) PROVE Settled'
  <2>1. receipt[r] \in ReceiptTasks /\ receipt[r].step = "upsert"
    BY <1>5, ReceiptTask DEF TakeOrder
  <2>2. chat \notin shown
    BY <2>1 DEF ChatWaits, OneReceiptAtATime
  <2>3. UNCHANGED <<orderVars, shown, review>>
    BY <1>5 DEF TakeOrder
  <2>4. CASE receipt' = [receipt EXCEPT ![r] = Idle] /\ Forget
    <3>1. receipt'[r].step = "idle" /\ chat' = NoOrder
      BY <2>4 DEF TypeOK, Idle, Forget
    <3> QED
      BY <2>3, <3>1, OrdersAssumption DEF TypeOK, OneReceiptAtATime, orderVars, Placed, ChatWaits,
         ReceiptsFirst, ShownFirst, ReviewsFresh, ApprovedStays
  <2>5. CASE /\ chat # NoOrder
             /\ receipt' = [receipt EXCEPT ![r].step = "load", ![r].order = chat]
             /\ UNCHANGED chatVars
    <3>1. chat \in Orders /\ chat' = chat
      BY <2>5 DEF TypeOK, chatVars
    <3>2. receipt'[r].step = "load" /\ receipt'[r].order = chat
      BY <2>1, <2>5 DEF TypeOK, ReceiptTasks
    <3> QED
      BY <2>2, <2>3, <3>1, <3>2 DEF OneReceiptAtATime, orderVars, Placed, ChatWaits,
         ReceiptsFirst, ShownFirst, ReviewsFresh, ApprovedStays
  <2> QED
    BY <1>5, <2>4, <2>5 DEF TakeOrder
<1>6. ASSUME NEW r \in Receipts, LoadOrder(r) PROVE Settled'
  <2>1. receipt[r] \in [step : {"load", "submit", "clear"}, order : Orders, seen : Statuses]
    BY <1>6, TakenTask DEF LoadOrder
  <2>2. receipt'[r].step = "submit" /\ receipt'[r].order = receipt[r].order
    BY <1>6, <2>1 DEF LoadOrder, TypeOK
  <2>3. receipt[r].step = "load" /\ UNCHANGED <<orderVars, chat, shown, review>>
    BY <1>6 DEF LoadOrder, chatVars
  <2> QED
    BY <2>2, <2>3 DEF OneReceiptAtATime, orderVars, Placed, ChatWaits,
       ReceiptsFirst, ShownFirst, ReviewsFresh, ApprovedStays
<1>7. ASSUME NEW r \in Receipts, SubmitReceipt(r) PROVE Settled'
  <2> DEFINE o == receipt[r].order
  <2>1. receipt[r] \in [step : {"load", "submit", "clear"}, order : Orders, seen : Statuses]
        /\ o \in Orders
    BY <1>7, TakenTask DEF SubmitReceipt
  <2>2. receipt'[r].step = "clear" /\ receipt'[r].order = o
    BY <1>7, <2>1 DEF SubmitReceipt, TypeOK
  <2>3. o \notin shown /\ chat \notin shown
    BY <1>7 DEF SubmitReceipt, ReceiptsFirst, ChatWaits, OneReceiptAtATime
  <2>4. \A q \in Orders : q # o => status'[q] = status[q]
    BY <1>7 DEF SubmitReceipt, SetStatus, TypeOK
  <2>5. status'[o] \in {status[o], "submitted"}
    BY <1>7, <2>1 DEF SubmitReceipt, SetStatus, TypeOK
  <2>6. UNCHANGED <<rows, approvals, chat, review>> /\ shown' = shown \union {o}
    BY <1>7 DEF SubmitReceipt, chatVars
  <2>7. ChatWaits' /\ ReceiptsFirst'
    BY <2>2, <2>3, <2>6 DEF OneReceiptAtATime, ChatWaits, ReceiptsFirst
  <2>8. status'[o] # "none"
    BY <1>7, <2>1, <2>5 DEF SubmitReceipt, Placed
  <2>9. Placed'
    BY <2>2, <2>4, <2>6, <2>8 DEF Placed, OneReceiptAtATime
  <2>10. ShownFirst' /\ ApprovedStays'
    BY <2>1, <2>3, <2>4, <2>5, <2>6, <2>8 DEF ShownFirst, ApprovedStays, Granted
  <2>11. ReviewsFresh'
    BY <2>3, <2>4, <2>6, ReviewTask DEF ReviewsFresh, ReviewTasks
  <2> QED
    BY <2>7, <2>9, <2>10, <2>11
<1>8. ASSUME NEW r \in Receipts, ClearChat(r) PROVE Settled'
  <2>1. receipt'[r].step = "idle" /\ chat' = NoOrder
    BY <1>8 DEF ClearChat, Forget, TypeOK, Idle
  <2>2. UNCHANGED <<orderVars, shown, review>>
    BY <1>8 DEF ClearChat
  <2> QED
    BY <2>1, <2>2, OrdersAssumption DEF TypeOK, OneReceiptAtATime, orderVars,
       Placed, ChatWaits, ReceiptsFirst, ShownFirst, ReviewsFresh, ApprovedStays
<1> QED
  BY <1>1, <1>3, <1>4, <1>5, <1>6, <1>7, <1>8 DEF Customer

\* The admins' steps keep Settled: a review writes what it read.
LEMMA AdminSettled ==
  ASSUME TypeOK, OneReviewAtATime, Settled, Admin
  PROVE  Settled'
<1> USE DEF Settled
<1>1. UNCHANGED <<chat, shown, receipt>>
  BY DEF Admin, BeginApprove, BeginReject, ReadSubscriptions, GrantNew, GrantRenewal, Reject,
     BeginExtend, Extend, chatVars
<1>2. ChatWaits' /\ ReceiptsFirst'
  BY <1>1 DEF ChatWaits, ReceiptsFirst
<1>3. ASSUME NEW a \in Reviews, NEW o \in Orders, BeginApprove(a, o) \/ BeginReject(a, o)
      PROVE  Settled'
  <2>1. review'[a].order = o /\ review'[a].seen = status[o]
    BY <1>3 DEF BeginApprove, BeginReject, TypeOK
  <2>2. o \in shown /\ status[o] \notin Granted
    BY <1>3 DEF BeginApprove, BeginReject, Open, Granted
  <2>3. rows[o] = 0 /\ approvals[o] = 0
    BY <2>2 DEF ApprovedStays, TypeOK
  <2>4. UNCHANGED orderVars
    BY <1>3 DEF BeginApprove, BeginReject
  <2> QED
    BY <1>1, <1>2, <2>1, <2>2, <2>3, <2>4 DEF orderVars, Placed, ShownFirst, ReviewsFresh, ApprovedStays,
       OneReviewAtATime
<1>4. ASSUME NEW a \in Reviews, ReadSubscriptions(a) PROVE Settled'
  <2>1. UNCHANGED orderVars
    BY <1>4 DEF ReadSubscriptions
  <2>2. review[a].step = "read"
    BY <1>4 DEF ReadSubscriptions
  <2>3. \/ review'[a].step = "idle"
        \/ review'[a].order = review[a].order /\ review'[a].seen = review[a].seen
    BY <1>4, ReadResult DEF Idle
  <2>4. ReviewsFresh'
    BY <1>1, <2>1, <2>2, <2>3 DEF ReviewsFresh, OneReviewAtATime, orderVars
  <2> QED
    BY <1>1, <1>2, <2>1, <2>4 DEF orderVars, Placed, ShownFirst, ApprovedStays
<1>5. ASSUME NEW a \in Reviews, GrantNew(a) \/ GrantRenewal(a) \/ Reject(a) PROVE Settled'
  <2> DEFINE o == review[a].order
  <2>1. review[a] \in ReviewTasks /\ o \in Orders
    BY <1>5, ReviewTask DEF GrantNew, GrantRenewal, Reject, TypeOK, ReviewTasks
  <2>2. o \in shown /\ review[a].seen = status[o] /\ status[o] \notin Granted
        /\ rows[o] = 0 /\ approvals[o] = 0
    BY <1>5 DEF GrantNew, GrantRenewal, Reject, ReviewsFresh
  <2>3. review'[a].step = "idle"
    BY <1>5 DEF GrantNew, GrantRenewal, Reject, TypeOK, Idle
  <2>4. ReviewsFresh'
    BY <2>3 DEF ReviewsFresh, OneReviewAtATime
  <2>5. /\ \A q \in Orders : q # o => status'[q] = status[q] /\ rows'[q] = rows[q]
                                      /\ approvals'[q] = approvals[q]
        /\ status'[o] # "none"
    BY <1>5, <2>1, <2>2 DEF GrantNew, GrantRenewal, Reject, Inserted, SetStatus, TypeOK, Granted
  <2>6. Placed'
    BY <1>1, <2>5, TakenTask DEF Placed
  <2>7. CASE Reject(a)
    BY <1>1, <1>2, <2>1, <2>2, <2>4, <2>5, <2>6, <2>7 DEF Reject, ShownFirst, ApprovedStays
  <2>8. CASE GrantNew(a) \/ GrantRenewal(a)
    <3>1. status'[o] \in Granted
      BY <2>1, <2>2, <2>8 DEF GrantNew, GrantRenewal, Inserted, SetStatus, TypeOK, Granted
    <3> QED
      BY <1>1, <1>2, <2>1, <2>2, <2>4, <2>5, <2>6, <3>1 DEF ShownFirst, ApprovedStays
  <2> QED
    BY <1>5, <2>7, <2>8
<1>6. ASSUME NEW a \in Reviews, NEW s \in Subscriptions, NEW days \in {1, -1}, BeginExtend(a, s, days)
      PROVE  Settled'
  <2>1. review'[a].step = "extend" /\ UNCHANGED orderVars
    BY <1>6 DEF BeginExtend, TypeOK
  <2> QED
    BY <1>1, <1>2, <2>1 DEF orderVars, Placed, ShownFirst, ApprovedStays, ReviewsFresh, OneReviewAtATime
<1>7. ASSUME NEW a \in Reviews, Extend(a) PROVE Settled'
  <2>1. review'[a].step = "idle" /\ UNCHANGED orderVars
    BY <1>7 DEF Extend, TypeOK, Idle
  <2> QED
    BY <1>1, <1>2, <2>1 DEF orderVars, Placed, ShownFirst, ApprovedStays, ReviewsFresh, OneReviewAtATime
<1> QED
  BY <1>3, <1>4, <1>5, <1>6, <1>7 DEF Admin

\* Every step keeps Settled.
LEMMA NextSettled ==
  ASSUME TypeOK, OneReceiptAtATime, OneReviewAtATime, Settled, [Next]_vars
  PROVE  Settled'
<1> USE DEF Settled
<1>1. ASSUME NEW o \in Orders, Fulfil(o) PROVE Settled'
  <2>1. \A a \in Reviews : review[a].step \in {"read", "grant", "reject"} => review[a].order # o
    BY <1>1 DEF Fulfil, ReviewsFresh, TypeOK
  <2>2. o \in shown
    BY <1>1 DEF Fulfil, ShownFirst, TypeOK
  <2>3. ReviewsFresh'
    BY <1>1, <2>1 DEF Fulfil, ReviewsFresh, TypeOK
  <2>4. Placed'
    BY <1>1, TakenTask DEF Fulfil, Placed, TypeOK, chatVars
  <2> QED
    BY <1>1, <2>2, <2>3, <2>4 DEF Fulfil, TypeOK, ChatWaits, ReceiptsFirst,
       ShownFirst, ApprovedStays, Granted, chatVars
<1>2. ASSUME NEW s \in Subscriptions, RemovePeer(s) PROVE Settled'
  BY <1>2 DEF RemovePeer, orderVars, chatVars, Placed, ChatWaits, ReceiptsFirst, ShownFirst,
     ReviewsFresh, ApprovedStays
<1>3. CASE Restart
  BY <1>3, OrdersAssumption DEF Restart, Forget, TypeOK, orderVars, Idle, Placed, ChatWaits,
     ReceiptsFirst, ShownFirst, ReviewsFresh, ApprovedStays
<1>4. CASE UNCHANGED vars
  BY <1>4 DEF vars, orderVars, chatVars, Placed, ChatWaits, ReceiptsFirst, ShownFirst,
     ReviewsFresh, ApprovedStays
<1> QED
  BY <1>1, <1>2, <1>3, <1>4, CustomerSettled, AdminSettled DEF Next

\* If reviews do not overlap and receipts do not, an approved order stays
\* provisioning or fulfilled.
THEOREM ApprovalsStand ==
  ASSUME OneReceiptAtATime, OneReviewAtATime
  PROVE  Spec => []ApprovedStays
<1>1. Settled => ApprovedStays
  BY DEF Settled
<1>2. Settled /\ TypeOK /\ [Next]_vars => Settled'
  BY NextSettled
<1> QED
  BY <1>1, <1>2, InitSettled, InitTyped, NextTyped, PTL DEF Spec

-----------------------------------------------------------------------------
(* The time of a subscription.                                              *)

\* No renewal is in progress or approved at first, and no time is added.
LEMMA InitCounted == Init => Counted /\ TimesFresh
<1> SUFFICES ASSUME Init PROVE Counted /\ TimesFresh
  OBVIOUS
<1>1. \A s \in Subscriptions : Renewals(s) = {}
  BY DEF Init, Renewals
<1> QED
  BY <1>1, FS_EmptySet DEF Init, Counted, TimesFresh, Idle

\* An approval that was not counted yet makes one more.
LEMMA OneMore ==
  ASSUME TypeOK, NEW o \in Orders, approvals[o] = 0,
         approvals' = [approvals EXCEPT ![o] = @ + 1]
  PROVE  /\ \A s : s = Target[o] => Cardinality(Renewals(s)') = Cardinality(Renewals(s)) + 1
         /\ \A s : s # Target[o] => Renewals(s)' = Renewals(s)
<1>1. IsFiniteSet(Renewals(Target[o]))
  BY OrdersAssumption, FS_Subset DEF Renewals
<1>2. o \notin Renewals(Target[o])
  BY DEF Renewals
<1>3. \A s : s = Target[o] => Renewals(s)' = Renewals(Target[o]) \union {o}
  BY DEF Renewals, TypeOK
<1>4. \A s : s # Target[o] => Renewals(s)' = Renewals(s)
  BY DEF Renewals, TypeOK
<1> QED
  BY <1>1, <1>2, <1>3, <1>4, FS_AddElement, FS_CardinalityType

\* The admins' steps keep the count: what a handler writes is the expiry as it
\* still is, and the time of an order that was not counted before.
LEMMA AdminCounted ==
  ASSUME TypeOK, OneReviewAtATime, Settled, Counted, TimesFresh, Admin
  PROVE  Counted' /\ TimesFresh'
<1>1. ASSUME UNCHANGED <<approvals, added, extended>> PROVE Counted'
  <2>1. \A s : Renewals(s)' = Renewals(s)
    BY <1>1 DEF Renewals
  <2> QED
    BY <1>1, <2>1 DEF Counted
<1>2. ASSUME NEW a \in Reviews, review'[a].step \notin {"grant", "extend"} PROVE TimesFresh'
  BY <1>2 DEF TimesFresh, OneReviewAtATime
<1>3. ASSUME NEW a \in Reviews, NEW o \in Orders, BeginApprove(a, o) \/ BeginReject(a, o)
      PROVE  Counted' /\ TimesFresh'
  <2>1. review'[a].step \in {"read", "reject"} /\ UNCHANGED <<approvals, added, extended>>
    BY <1>3 DEF BeginApprove, BeginReject, TypeOK, orderVars, subVars
  <2> QED
    BY <1>1, <1>2, <2>1
<1>4. ASSUME NEW a \in Reviews, ReadSubscriptions(a) PROVE Counted' /\ TimesFresh'
  <2>1. UNCHANGED <<approvals, added, extended>>
    BY <1>4 DEF ReadSubscriptions, orderVars, subVars
  <2>2. TimesFresh'
    BY <1>4, <2>1, ReadResult DEF TimesFresh, OneReviewAtATime, Idle
  <2> QED
    BY <1>1, <2>1, <2>2
<1>5. ASSUME NEW a \in Reviews, GrantNew(a) \/ Reject(a) PROVE Counted' /\ TimesFresh'
  <2>1. review'[a].step = "idle" /\ UNCHANGED <<approvals, added, extended>>
    BY <1>5 DEF GrantNew, Reject, TypeOK, Idle, subVars
  <2> QED
    BY <1>1, <1>2, <2>1
<1>6. ASSUME NEW a \in Reviews, GrantRenewal(a), NEW o \in Orders, o = review[a].order
      PROVE  Counted' /\ TimesFresh'
  <2>1. review[a] \in ReviewTasks /\ Target[o] \in Subscriptions
    BY <1>6, ReviewTask DEF GrantRenewal, ReviewTasks, TypeOK
  <2>2. approvals[o] = 0 /\ review[a].time = added[Target[o]]
    BY <1>6 DEF GrantRenewal, Settled, ReviewsFresh, TimesFresh
  <2>3. review'[a].step = "idle" /\ extended' = extended
        /\ approvals' = [approvals EXCEPT ![o] = @ + 1]
        /\ added' = [added EXCEPT ![Target[o]] = added[Target[o]] + 1]
    BY <1>6, <2>2 DEF GrantRenewal, TypeOK, Idle
  <2>4. /\ \A s : s = Target[o] => Cardinality(Renewals(s)') = Cardinality(Renewals(s)) + 1
        /\ \A s : s # Target[o] => Renewals(s)' = Renewals(s)
    BY <2>2, <2>3, OneMore
  <2>5. ASSUME NEW s \in Subscriptions PROVE added'[s] = Cardinality(Renewals(s)') + extended'[s]
    <3>1. /\ added[s] = Cardinality(Renewals(s)) + extended[s] /\ extended[s] \in Int
          /\ Cardinality(Renewals(s)) \in Nat
      BY OrdersAssumption, FS_Subset, FS_CardinalityType DEF Counted, TypeOK, Renewals
    <3>2. CASE s = Target[o]
      BY <2>1, <2>3, <2>4, <3>1, <3>2 DEF TypeOK
    <3>3. CASE s # Target[o]
      BY <2>1, <2>3, <2>4, <3>1, <3>3 DEF TypeOK
    <3> QED
      BY <3>2, <3>3
  <2> QED
    BY <1>2, <2>3, <2>5 DEF Counted
<1>7. ASSUME NEW a \in Reviews, NEW s \in Subscriptions, NEW days \in {1, -1}, BeginExtend(a, s, days)
      PROVE  Counted' /\ TimesFresh'
  <2>1. UNCHANGED <<approvals, added, extended>>
    BY <1>7 DEF BeginExtend, orderVars, subVars
  <2>2. review'[a].step = "extend" /\ review'[a].sub = s /\ review'[a].time = added[s]
    BY <1>7 DEF BeginExtend, TypeOK
  <2> QED
    BY <1>1, <2>1, <2>2 DEF TimesFresh, OneReviewAtATime
<1>8. ASSUME NEW a \in Reviews, Extend(a) PROVE Counted' /\ TimesFresh'
  <2> DEFINE s == review[a].sub
  <2>1. s \in Subscriptions /\ review[a].days \in Int /\ review[a].time = added[s]
    BY <1>8, ExtendTask DEF Extend, ExtendTasks, TimesFresh
  <2>2. review'[a].step = "idle" /\ approvals' = approvals
        /\ added' = [added EXCEPT ![s] = added[s] + review[a].days]
        /\ extended' = [extended EXCEPT ![s] = extended[s] + review[a].days]
    BY <1>8, <2>1 DEF Extend, TypeOK, Idle, orderVars
  <2>3. ASSUME NEW q \in Subscriptions PROVE added'[q] = Cardinality(Renewals(q)') + extended'[q]
    <3>1. Renewals(q)' = Renewals(q)
      BY <2>2 DEF Renewals
    <3>2. Cardinality(Renewals(q)) \in Nat
      BY OrdersAssumption, FS_Subset, FS_CardinalityType DEF Renewals
    <3>3. added[q] = Cardinality(Renewals(q)) + extended[q] /\ extended[q] \in Int /\ added[q] \in Int
      BY DEF Counted, TypeOK
    <3> QED
      BY <2>1, <2>2, <3>1, <3>2, <3>3 DEF TypeOK
  <2> QED
    BY <1>2, <2>2, <2>3 DEF Counted
<1>9. ASSUME NEW a \in Reviews, GrantRenewal(a) PROVE Counted' /\ TimesFresh'
  <2>1. review[a].order \in Orders
    BY <1>9, ReviewTask DEF GrantRenewal, ReviewTasks
  <2> QED
    BY <1>6, <1>9, <2>1
<1> QED
  BY <1>3, <1>4, <1>5, <1>7, <1>8, <1>9 DEF Admin

\* Every step keeps the count.
LEMMA NextCounted ==
  ASSUME TypeOK, OneReviewAtATime, Settled, Counted, TimesFresh, [Next]_vars
  PROVE  Counted' /\ TimesFresh'
<1>1. CASE Admin
  BY <1>1, AdminCounted
<1>2. ASSUME UNCHANGED <<approvals, added, extended>>, UNCHANGED review \/ Restart
      PROVE  Counted' /\ TimesFresh'
  <2>1. \A s : Renewals(s)' = Renewals(s)
    BY <1>2 DEF Renewals
  <2>2. TimesFresh'
    BY <1>2 DEF TimesFresh, Restart, Idle
  <2> QED
    BY <1>2, <2>1, <2>2 DEF Counted
<1>3. CASE Customer
  BY <1>2, <1>3 DEF Customer, StartOrder, CancelOrder, OpenSupport, ReceiveReceipt, TakeOrder,
     LoadOrder, SubmitReceipt, ClearChat, orderVars, subVars
<1>4. CASE (\E o \in Orders : Fulfil(o)) \/ (\E s \in Subscriptions : RemovePeer(s)) \/ Restart
           \/ UNCHANGED vars
  BY <1>2, <1>4 DEF Fulfil, RemovePeer, Restart, vars, orderVars, subVars
<1> QED
  BY <1>1, <1>3, <1>4 DEF Next

\* If reviews do not overlap and receipts do not, a subscription's time is that of
\* the orders that renewed it and of /extend: none is counted twice, none is lost.
THEOREM TimeIsCounted ==
  ASSUME OneReceiptAtATime, OneReviewAtATime
  PROVE  Spec => [](CountedOnce /\ NoneLost)
<1>1. TypeOK /\ Counted => CountedOnce /\ NoneLost
  <2> SUFFICES ASSUME TypeOK, Counted, NEW s \in Subscriptions
               PROVE  /\ added[s] <= Cardinality(Renewals(s)) + extended[s]
                      /\ added[s] >= Cardinality(Renewals(s)) + extended[s]
    BY DEF CountedOnce, NoneLost
  <2>1. added[s] \in Int
    BY DEF TypeOK
  <2> QED
    BY <2>1 DEF Counted
<1>2. TypeOK /\ Settled /\ [Next]_vars => Settled'
  BY NextSettled
<1>3. TypeOK /\ Settled /\ Counted /\ TimesFresh /\ [Next]_vars => Counted' /\ TimesFresh'
  BY NextCounted
<1> QED
  BY <1>1, <1>2, <1>3, InitCounted, InitSettled, InitTyped, NextTyped, PTL DEF Spec

\* No renewal that was approved is without its days.
THEOREM NoRenewalIsLost ==
  ASSUME OneReceiptAtATime, OneReviewAtATime
  PROVE  Spec => []NoneLost
BY TimeIsCounted, PTL
=============================================================================
