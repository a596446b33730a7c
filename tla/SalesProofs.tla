----------------------------- MODULE SalesProofs -----------------------------
(***************************************************************************)
(* Proofs about Sales, for any orders, handlers, admins and limit: as long *)
(* as no peer is removed while an order that renews it is open, every new  *)
(* subscription comes from an order that was placed on a server on sale    *)
(* and with room. An order without such an offer renews what has a peer,   *)
(* from the handler's check to the approval.                               *)
(***************************************************************************)
EXTENDS Sales, TLAPS

\* Orders that were not offered a place, and choices that will become such orders,
\* have a peer to renew.
OrdersRenew ==
  \A o \in Orders : order[o] = "open" /\ o \notin offered => renews[o] # NoOrder /\ HasPeer(renews[o])

ChoicesRenew ==
  \A b \in Buyers : buyer[b].step = "order" /\ ~buyer[b].fits
                      => buyer[b].renews # NoOrder /\ HasPeer(buyer[b].renews)

\* So do choices of a renewal, whatever becomes of them.
ChoicesExist ==
  \A b \in Buyers : buyer[b].step = "order" /\ buyer[b].renews # NoOrder => sub[buyer[b].renews] # "none"

\* An order makes a subscription when it is approved.
MadeByApproval == \A o \in Orders : sub[o] # "none" => order[o] = "approved"

SalesInv == MadeByApproval /\ TypeOK /\ ChoicesExist /\ OrdersRenew /\ ChoicesRenew /\ SoldFromOffer

-----------------------------------------------------------------------------
\* Nothing is chosen or sold at first.
LEMMA SalesInit == Init => SalesInv
<1> SUFFICES ASSUME Init PROVE SalesInv
  OBVIOUS
<1>1. TypeOK
  BY DEF Init, TypeOK
<1>2. \A b \in Buyers : buyer[b].step # "order"
  BY DEF Init, Idle
<1>3. ChoicesExist /\ ChoicesRenew
  BY <1>2 DEF ChoicesExist, ChoicesRenew
<1>4. OrdersRenew /\ SoldFromOffer /\ MadeByApproval
  BY DEF Init, OrdersRenew, SoldFromOffer, MadeByApproval
<1> QED
  BY <1>1, <1>3, <1>4 DEF SalesInv

\* A choice is offered, or renews something.
LEMMA ChoosesKeeps ==
  ASSUME SalesInv, NEW b \in Buyers, NEW s \in Orders \union {NoOrder}, Chooses(b, s),
         s # NoOrder => sub[s] # "none",
         (s # NoOrder /\ HasPeer(s)) \/ (OnSale /\ HasRoom),
         UNCHANGED <<enabled, paused, order, renews, offered, sub, toggle>>
  PROVE  SalesInv'
<1> DEFINE choice == [step |-> "order", renews |-> s, fits |-> OnSale /\ HasRoom]
<1>1. buyer' = [buyer EXCEPT ![b] = choice]
  BY DEF Chooses
<1>2. choice \in [step : {"order"}, renews : Orders \union {NoOrder}, fits : BOOLEAN]
  BY DEF OnSale, HasRoom, SalesInv, TypeOK
<1>3. choice.step = "order" /\ choice.renews = s /\ (~choice.fits => s # NoOrder /\ HasPeer(s))
  OBVIOUS
<1> HIDE DEF choice
<1>4. TypeOK'
  BY <1>1, <1>2 DEF SalesInv, TypeOK
<1>5. \A c \in Buyers : buyer'[c] = IF c = b THEN choice ELSE buyer[c]
  BY <1>1 DEF SalesInv, TypeOK
<1>6. ChoicesExist' /\ ChoicesRenew'
  BY <1>3, <1>5 DEF SalesInv, ChoicesExist, ChoicesRenew, HasPeer
<1>7. OrdersRenew' /\ SoldFromOffer' /\ MadeByApproval'
  BY DEF SalesInv, OrdersRenew, SoldFromOffer, MadeByApproval, HasPeer
<1> QED
  BY <1>4, <1>6, <1>7 DEF SalesInv

\* An order is made of a choice.
LEMMA StartKeeps ==
  ASSUME SalesInv, NEW b \in Buyers, StartOrder(b)
  PROVE  SalesInv'
<1>1. PICK o \in Orders :
        /\ order[o] = "none"
        /\ order'   = [order EXCEPT ![o] = "open"]
        /\ renews'  = [renews EXCEPT ![o] = buyer[b].renews]
        /\ offered' = IF buyer[b].fits THEN offered \union {o} ELSE offered
  BY DEF StartOrder
<1>2. /\ buyer[b].step = "order"
      /\ buyer' = [buyer EXCEPT ![b] = Idle]
      /\ UNCHANGED <<enabled, paused, sub, toggle>>
  BY DEF StartOrder
<1>3. buyer[b] \in [step : {"order"}, renews : Orders \union {NoOrder}, fits : BOOLEAN]
  BY <1>2 DEF SalesInv, TypeOK, Idle
<1>4. TypeOK'
  BY <1>1, <1>2, <1>3 DEF SalesInv, TypeOK, ChoicesExist, Idle
<1>5. \A c \in Buyers : buyer'[c] = IF c = b THEN Idle ELSE buyer[c]
  BY <1>2 DEF SalesInv, TypeOK
<1>6. ChoicesExist' /\ ChoicesRenew'
  BY <1>2, <1>5 DEF SalesInv, ChoicesExist, ChoicesRenew, HasPeer, Idle
<1>7. OrdersRenew'
  BY <1>1, <1>2, <1>3 DEF SalesInv, TypeOK, OrdersRenew, ChoicesRenew, HasPeer
<1>8. SoldFromOffer' /\ MadeByApproval'
  BY <1>1, <1>2 DEF SalesInv, TypeOK, SoldFromOffer, MadeByApproval
<1> QED
  BY <1>4, <1>6, <1>7, <1>8 DEF SalesInv

\* An approval sells what was offered, or renews what has a peer.
LEMMA ApproveKeeps ==
  ASSUME SalesInv, NEW o \in Orders, Approve(o)
  PROVE  SalesInv'
<1>1. UNCHANGED <<renews, offered, buyer>> /\ order' = [order EXCEPT ![o] = "approved"] /\ order[o] = "open"
  BY DEF Approve
<1>2. CASE Renewable(o)
  <2>1. renews[o] \in Orders /\ HasPeer(renews[o]) /\ sub' = [sub EXCEPT ![renews[o]] = "active"]
    BY <1>2 DEF Approve, Renewable, SalesInv, TypeOK
  <2>2. \A s \in Orders : (sub[s] # "none" <=> sub'[s] # "none") /\ (HasPeer(s) => HasPeer(s)')
    BY <2>1 DEF SalesInv, TypeOK, HasPeer
  <2>3. TypeOK'
    BY <1>1, <2>1, <2>2 DEF Approve, SalesInv, TypeOK
  <2>4. ChoicesExist' /\ OrdersRenew' /\ ChoicesRenew'
    BY <1>1, <2>2 DEF SalesInv, TypeOK, ChoicesExist, OrdersRenew, ChoicesRenew, Idle
  <2>5. SoldFromOffer' /\ MadeByApproval'
    BY <1>1, <2>2 DEF SalesInv, TypeOK, SoldFromOffer, MadeByApproval
  <2> QED
    BY <2>3, <2>4, <2>5 DEF SalesInv
<1>3. CASE ~Renewable(o)
  <2>1. sub' = [sub EXCEPT ![o] = "provisioning"] /\ sub[o] = "none" /\ o \in offered
    BY <1>1, <1>3 DEF Approve, Renewable, SalesInv, MadeByApproval, OrdersRenew
  <2>2. \A s \in Orders : (sub[s] # "none" => sub'[s] # "none") /\ (HasPeer(s) => HasPeer(s)')
    BY <2>1 DEF SalesInv, TypeOK, HasPeer
  <2>3. TypeOK'
    BY <1>1, <2>1, <2>2 DEF Approve, SalesInv, TypeOK
  <2>4. ChoicesExist' /\ OrdersRenew' /\ ChoicesRenew'
    BY <1>1, <2>2 DEF SalesInv, TypeOK, ChoicesExist, OrdersRenew, ChoicesRenew, Idle
  <2>5. SoldFromOffer' /\ MadeByApproval'
    BY <1>1, <2>1 DEF SalesInv, TypeOK, SoldFromOffer, MadeByApproval
  <2> QED
    BY <2>3, <2>4, <2>5 DEF SalesInv
<1> QED
  BY <1>2, <1>3

\* A rejection sells nothing.
LEMMA RejectKeeps ==
  ASSUME SalesInv, NEW o \in Orders, Reject(o)
  PROVE  SalesInv'
<1>1. TypeOK'
  BY DEF Reject, SalesInv, TypeOK
<1>2. ChoicesExist' /\ OrdersRenew' /\ ChoicesRenew'
  BY DEF Reject, SalesInv, TypeOK, ChoicesExist, OrdersRenew, ChoicesRenew, HasPeer
<1>3. SoldFromOffer' /\ MadeByApproval'
  BY DEF Reject, SalesInv, TypeOK, SoldFromOffer, MadeByApproval
<1> QED
  BY <1>1, <1>2, <1>3 DEF SalesInv

\* The worker's jobs leave every peer in place that an order renews.
LEMMA GoesKeeps ==
  ASSUME SalesInv, NEW o \in Orders, NEW from \in {"provisioning", "active", "disabled"},
         NEW to \in {"active", "disabled", "removed"}, Goes(o, from, to),
         to = "removed" => /\ ~\E p \in Orders : order[p] = "open" /\ renews[p] = o
                           /\ ~\E b \in Buyers : buyer[b].step = "order" /\ buyer[b].renews = o
  PROVE  SalesInv'
<1>1. \A s \in Orders : sub'[s] = IF s = o THEN to ELSE sub[s]
  BY DEF Goes, SalesInv, TypeOK
<1>2. \A s \in Orders : (sub[s] # "none" <=> sub'[s] # "none")
                        /\ (HasPeer(s) /\ ~(s = o /\ to = "removed") => HasPeer(s)')
  BY <1>1 DEF Goes, HasPeer
<1>3. TypeOK'
  BY <1>2 DEF Goes, SalesInv, TypeOK
<1>4. OrdersRenew'
  BY <1>2 DEF Goes, SalesInv, TypeOK, OrdersRenew
<1>5. ChoicesExist' /\ ChoicesRenew'
  BY <1>2 DEF Goes, SalesInv, TypeOK, ChoicesExist, ChoicesRenew, Idle
<1>6. SoldFromOffer' /\ MadeByApproval'
  BY <1>2 DEF Goes, SalesInv, SoldFromOffer, MadeByApproval
<1> QED
  BY <1>3, <1>4, <1>5, <1>6 DEF SalesInv

\* Buttons of admins and starts of the bot.
LEMMA ServerKeeps ==
  ASSUME SalesInv, UNCHANGED <<order, renews, offered, sub>>,
         enabled' \in BOOLEAN, paused' \in BOOLEAN,
         toggle' \in [Admins -> {Idle} \union [step : {"write"}, to : BOOLEAN]],
         UNCHANGED buyer \/ buyer' = [b \in Buyers |-> Idle]
  PROVE  SalesInv'
<1>1. \A b \in Buyers : buyer'[b] = buyer[b] \/ buyer'[b] = Idle
  OBVIOUS
<1>2. TypeOK'
  <2>1. buyer' \in [Buyers -> {Idle} \union [step : {"order"}, renews : Orders \union {NoOrder}, fits : BOOLEAN]]
    BY DEF SalesInv, TypeOK
  <2> QED
    BY <2>1 DEF SalesInv, TypeOK
<1>3. ChoicesExist' /\ ChoicesRenew'
  BY <1>1 DEF SalesInv, ChoicesExist, ChoicesRenew, HasPeer, Idle
<1>4. OrdersRenew' /\ SoldFromOffer' /\ MadeByApproval'
  BY DEF SalesInv, OrdersRenew, SoldFromOffer, MadeByApproval, HasPeer
<1> QED
  BY <1>2, <1>3, <1>4 DEF SalesInv

\* Every step keeps SalesInv, as long as no peer of an open order is removed.
LEMMA SalesNext == ~LateRemoval /\ SalesInv /\ [Next]_vars => SalesInv'
<1> SUFFICES ASSUME ~LateRemoval, SalesInv, [Next]_vars PROVE SalesInv'
  OBVIOUS
<1>1. ASSUME NEW b \in Buyers, SelectPlan(b) PROVE SalesInv'
  BY <1>1, ChoosesKeeps DEF SelectPlan
<1>2. ASSUME NEW b \in Buyers, NEW s \in Orders, SelectRenewalPlan(b, s) PROVE SalesInv'
  BY <1>2, SalesAssumption, ChoosesKeeps DEF SelectRenewalPlan
<1>3. ASSUME NEW b \in Buyers, StartOrder(b) PROVE SalesInv'
  BY <1>3, StartKeeps
<1>4. ASSUME NEW o \in Orders, Approve(o) \/ Reject(o) PROVE SalesInv'
  BY <1>4, ApproveKeeps, RejectKeeps
<1>5. ASSUME NEW o \in Orders, MarkActive(o) PROVE SalesInv'
  BY <1>5, GoesKeeps DEF MarkActive
<1>6. ASSUME NEW o \in Orders, MarkDisabled(o) PROVE SalesInv'
  BY <1>6, GoesKeeps DEF MarkDisabled
<1>7. ASSUME NEW o \in Orders, MarkRemoved(o) PROVE SalesInv'
  BY <1>7, GoesKeeps DEF MarkRemoved
<1>8. ASSUME NEW a \in Admins, PressToggle(a) PROVE SalesInv'
  BY <1>8, ServerKeeps DEF PressToggle, SalesInv, TypeOK
<1>9. ASSUME NEW a \in Admins, Toggle(a) PROVE SalesInv'
  BY <1>9, ServerKeeps DEF Toggle, SalesInv, TypeOK, Idle
<1>10. CASE SyncServers
  BY <1>10, ServerKeeps DEF SyncServers, SalesInv, TypeOK
<1>11. CASE UNCHANGED vars
  BY <1>11, ServerKeeps DEF vars, SalesInv, TypeOK
<1> QED
  BY <1>1, <1>2, <1>3, <1>4, <1>5, <1>6, <1>7, <1>8, <1>9, <1>10, <1>11 DEF Next

\* If no peer is removed while an order that renews it is open, each new subscription
\* was offered: its order was placed while the server was on sale and had room.
THEOREM SalesAreOffered ==
  ASSUME ~LateRemoval
  PROVE  Spec => []SoldFromOffer
<1>1. SalesInv => SoldFromOffer
  BY DEF SalesInv
<1>2. SalesInv /\ [Next]_vars => SalesInv'
  BY SalesNext
<1> QED
  BY <1>1, <1>2, SalesInit, PTL DEF Spec
\* On the same condition every variable keeps its type: what an order renews exists, and
\* what was offered was ordered.
THEOREM SaleTypes ==
  ASSUME ~LateRemoval
  PROVE  Spec => []TypeOK
<1>1. SalesInv => TypeOK
  BY DEF SalesInv
<1>2. SalesInv /\ [Next]_vars => SalesInv'
  BY SalesNext
<1> QED
  BY <1>1, <1>2, SalesInit, PTL DEF Spec

\* A pause is ended by an admin whose handler saw the server paused, whatever admins and
\* restarts come in between.
THEOREM PausesStay == Spec => PauseStays
<1> DEFINE Toggles == toggle \in [Admins -> {Idle} \union [step : {"write"}, to : BOOLEAN]]
<1>1. Init => Toggles
  BY DEF Init
<1>2. Toggles /\ [Next]_vars => Toggles'
  <2> SUFFICES ASSUME Toggles, [Next]_vars PROVE Toggles'
    OBVIOUS
  <2>1. CASE UNCHANGED toggle
    BY <2>1
  <2>2. ASSUME NEW a \in Admins, PressToggle(a) PROVE Toggles'
    <3> DEFINE press == [step |-> "write", to |-> ~paused]
    <3>1. press \in [step : {"write"}, to : BOOLEAN]
      OBVIOUS
    <3>2. toggle' = [toggle EXCEPT ![a] = press]
      BY <2>2 DEF PressToggle
    <3> HIDE DEF press
    <3> QED
      BY <3>1, <3>2
  <2>3. ASSUME NEW a \in Admins, Toggle(a) PROVE Toggles'
    BY <2>3 DEF Toggle
  <2>4. CASE SyncServers
    BY <2>4 DEF SyncServers
  <2> QED
    BY <2>1, <2>2, <2>3, <2>4
    DEF Next, SelectPlan, SelectRenewalPlan, Chooses, StartOrder, Approve, Reject, MarkActive,
        MarkDisabled, MarkRemoved, Goes, vars
<1>3. Toggles /\ [Next]_vars =>
        [paused /\ ~paused' => \E a \in Admins : toggle[a].step = "write" /\ ~toggle[a].to /\ toggle'[a] = Idle]_vars
  <2> SUFFICES ASSUME Toggles, [Next]_vars, paused, ~paused'
               PROVE  \E a \in Admins : toggle[a].step = "write" /\ ~toggle[a].to /\ toggle'[a] = Idle
    OBVIOUS
  <2>1. PICK a \in Admins : Toggle(a)
    BY DEF Next, SelectPlan, SelectRenewalPlan, Chooses, StartOrder, Approve, Reject, MarkActive,
           MarkDisabled, MarkRemoved, Goes, PressToggle, SyncServers, vars
  <2>2. toggle[a].step = "write" /\ ~toggle[a].to
    BY <2>1 DEF Toggle
  <2>3. toggle'[a] = Idle
    BY <2>1 DEF Toggle
  <2> QED
    BY <2>2, <2>3
<1> QED
  BY <1>1, <1>2, <1>3, PTL DEF Spec, PauseStays
=============================================================================
