-------------------------------- MODULE Sales --------------------------------
(***************************************************************************)
(* The sale of places on one server: the buy menu and the renewal menu     *)
(* (bot/handlers/customer), the limit on a server's subscriptions          *)
(* (db/repositories/server_repo), the pause button and the approvals       *)
(* (bot/handlers/admin), and the settings that every start of the bot      *)
(* copies to the server's row (bot/main).                                  *)
(*                                                                         *)
(* A subscription has the id of the order that made it. Other handlers     *)
(* come between a handler's checks and the order it writes; payment,       *)
(* review and the jobs of the worker are single steps here, because Orders *)
(* and Access are about them.                                              *)
(*                                                                         *)
(* A definition whose name ends in an underscore and a word is the one     *)
(* before the underscore with a mistake in it, which a property excludes.  *)
(***************************************************************************)
EXTENDS Naturals, FiniteSets

CONSTANTS
  Orders,       \* ids of orders that customers may place
  Buyers,       \* handlers of menu buttons that may run at once
  Admins,
  Limit,        \* MAX_ACTIVE_SUBSCRIPTIONS
  LateRemoval,  \* may a peer be removed while an order that renews it is open?
  NoOrder

ASSUME SalesAssumption ==
  /\ NoOrder \notin Orders
  /\ Limit \in Nat \ {0}
  /\ LateRemoval \in BOOLEAN

VARIABLES
  enabled,  \* vpn_servers.enabled, from .env
  paused,   \* vpn_servers.paused, from the button in /servers
  order,    \* "none", "open" until an admin decides, then "approved" or "rejected"
  renews,   \* orders.renews_subscription_id
  offered,  \* orders whose handler found the server on sale and with room
  sub,      \* subscriptions.status; "removed" once its peer is deleted
  buyer,    \* the handler of a customer's choice of a plan
  toggle    \* the handler of an admin's pause button

vars == <<enabled, paused, order, renews, offered, sub, buyer, toggle>>

-----------------------------------------------------------------------------
Idle == [step |-> "idle"]

Init ==
  /\ enabled = TRUE
  /\ paused  = FALSE
  /\ order   = [o \in Orders |-> "none"]
  /\ renews  = [o \in Orders |-> NoOrder]
  /\ offered = {}
  /\ sub     = [o \in Orders |-> "none"]
  /\ buyer   = [b \in Buyers |-> Idle]
  /\ toggle  = [a \in Admins |-> Idle]

OnSale == enabled /\ ~paused

\* count_active_subscriptions.
Holders == {o \in Orders : sub[o] \in {"active", "provisioning"}}

HasRoom == Cardinality(Holders) < Limit

-----------------------------------------------------------------------------
(* The customers. *)

\* The order that the handler goes on to write, if it finds nothing against it.
Chooses(b, s) == buyer' = [buyer EXCEPT ![b] = [step |-> "order", renews |-> s, fits |-> OnSale /\ HasRoom]]

\* callback_select_plan checks again what the menu showed.
SelectPlan(b) ==
  /\ buyer[b] = Idle
  /\ OnSale /\ HasRoom
  /\ Chooses(b, NoOrder)
  /\ UNCHANGED <<enabled, paused, order, renews, offered, sub, toggle>>

\* Its peer was made and has not been removed.
HasPeer(s) == sub[s] \in {"active", "disabled"}

SelectRenewalPlan_Trusting(b, s) ==
  /\ buyer[b] = Idle
  /\ Chooses(b, s)
  /\ UNCHANGED <<enabled, paused, order, renews, offered, sub, toggle>>

\* A renewal is a sale only if there is no peer to renew.
SelectRenewalPlan(b, s) ==
  /\ buyer[b] = Idle
  /\ sub[s] # "none"
  /\ HasPeer(s) \/ (OnSale /\ HasRoom)
  /\ Chooses(b, s)
  /\ UNCHANGED <<enabled, paused, order, renews, offered, sub, toggle>>

\* _start_order.
StartOrder(b) ==
  /\ buyer[b].step = "order"
  /\ \E o \in Orders :
       /\ order[o] = "none"
       /\ order'   = [order EXCEPT ![o] = "open"]
       /\ renews'  = [renews EXCEPT ![o] = buyer[b].renews]
       /\ offered' = IF buyer[b].fits THEN offered \union {o} ELSE offered
  /\ buyer' = [buyer EXCEPT ![b] = Idle]
  /\ UNCHANGED <<enabled, paused, sub, toggle>>

-----------------------------------------------------------------------------
(* The admins. *)

Renewable(o) == renews[o] # NoOrder /\ HasPeer(renews[o])

\* approve_order_atomic: a paid order is not refused. It renews what still has a peer,
\* whether that was on or off, and makes a subscription otherwise.
Approve(o) ==
  /\ order[o] = "open"
  /\ order' = [order EXCEPT ![o] = "approved"]
  /\ sub'   = IF Renewable(o) THEN [sub EXCEPT ![renews[o]] = "active"]
                              ELSE [sub EXCEPT ![o] = "provisioning"]
  /\ UNCHANGED <<enabled, paused, renews, offered, buyer, toggle>>

Reject(o) ==
  /\ order[o] = "open"
  /\ order' = [order EXCEPT ![o] = "rejected"]
  /\ UNCHANGED <<enabled, paused, renews, offered, sub, buyer, toggle>>

\* The pause button: the server is read ...
PressToggle(a) ==
  /\ toggle[a] = Idle
  /\ enabled
  /\ toggle' = [toggle EXCEPT ![a] = [step |-> "write", to |-> ~paused]]
  /\ UNCHANGED <<enabled, paused, order, renews, offered, sub, buyer>>

Toggle_Flips(a) ==
  /\ toggle[a].step = "write"
  /\ paused' = ~paused
  /\ toggle' = [toggle EXCEPT ![a] = Idle]
  /\ UNCHANGED <<enabled, order, renews, offered, sub, buyer>>

\* ... and written.
Toggle(a) ==
  /\ toggle[a].step = "write"
  /\ paused' = toggle[a].to
  /\ toggle' = [toggle EXCEPT ![a] = Idle]
  /\ UNCHANGED <<enabled, order, renews, offered, sub, buyer>>

-----------------------------------------------------------------------------
(* The worker's jobs and the start of the bot. *)

Goes(o, from, to) ==
  /\ sub[o] = from
  /\ sub' = [sub EXCEPT ![o] = to]
  /\ UNCHANGED <<enabled, paused, order, renews, offered, buyer, toggle>>

MarkActive(o)   == Goes(o, "provisioning", "active")
MarkDisabled(o) == Goes(o, "active", "disabled")

MarkRemoved(o) ==
  /\ LateRemoval \/ ~\E p \in Orders : order[p] = "open" /\ renews[p] = o
  /\ LateRemoval \/ ~\E b \in Buyers : buyer[b].step = "order" /\ buyer[b].renews = o
  /\ Goes(o, "disabled", "removed")

\* create_or_update: the settings win, but the pause is not theirs. Handlers that were
\* running are gone.
SyncServers ==
  /\ enabled' \in BOOLEAN
  /\ buyer'  = [b \in Buyers |-> Idle]
  /\ toggle' = [a \in Admins |-> Idle]
  /\ UNCHANGED <<paused, order, renews, offered, sub>>

Next ==
  \/ \E b \in Buyers : \/ SelectPlan(b) \/ StartOrder(b)
                       \/ \E s \in Orders : SelectRenewalPlan(b, s)
  \/ \E o \in Orders : Approve(o) \/ Reject(o) \/ MarkActive(o) \/ MarkDisabled(o) \/ MarkRemoved(o)
  \/ \E a \in Admins : PressToggle(a) \/ Toggle(a)
  \/ SyncServers

Spec == Init /\ [][Next]_vars

-----------------------------------------------------------------------------
(* Properties. *)

TypeOK ==
  /\ enabled \in BOOLEAN /\ paused \in BOOLEAN
  /\ order \in [Orders -> {"none", "open", "approved", "rejected"}]
  /\ renews \in [Orders -> {o \in Orders : sub[o] # "none"} \union {NoOrder}]
  /\ offered \subseteq {o \in Orders : order[o] # "none"}
  /\ sub \in [Orders -> {"none", "provisioning", "active", "disabled", "removed"}]
  /\ buyer \in [Buyers -> {Idle} \union [step : {"order"}, renews : Orders \union {NoOrder}, fits : BOOLEAN]]
  /\ toggle \in [Admins -> {Idle} \union [step : {"write"}, to : BOOLEAN]]

\* A server goes over its limit by a new subscription only if "the order was placed
\* while there was room", as the admin who approves it is told.
PlacedWhileRoom ==
  [][\A o \in Orders : sub[o] = "none" /\ sub'[o] = "provisioning" /\ Cardinality(Holders') > Limit
                         => o \in offered]_vars

\* Nobody gets a new subscription on a server that was not on sale, or full, when they
\* chose it, although renewals of what still has a peer are always let through.
SoldFromOffer == \A o \in Orders : sub[o] # "none" => o \in offered

\* "A pause stays after a restart": it ends only by the button of an admin who saw the
\* server paused, not when two press it at once to pause it.
PauseStays ==
  [][paused /\ ~paused' => \E a \in Admins : toggle[a].step = "write" /\ ~toggle[a].to /\ toggle'[a] = Idle]_vars
=============================================================================
