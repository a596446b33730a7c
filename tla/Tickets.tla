------------------------------- MODULE Tickets -------------------------------
(***************************************************************************)
(* The support tickets of one customer: the customer's messages            *)
(* (bot/handlers/support), the admins' answers and closings                *)
(* (bot/handlers/admin) and the rows (db/repositories/ticket_repo).        *)
(*                                                                         *)
(* As in Orders, a handler reads a row and writes it later, other handlers *)
(* come between, and a status that the copy it read has already is not     *)
(* written. An admin's handlers run one after the other.                   *)
(*                                                                         *)
(* A definition whose name ends in an underscore and a word is the one     *)
(* before the underscore with a mistake in it, which a property excludes.  *)
(***************************************************************************)
EXTENDS Naturals

CONSTANTS
  Tickets,        \* ids of tickets that the customer may open
  Messages,       \* handlers of the customer's messages that may run at once
  Admins,
  AnswersClosed,  \* do admins answer a ticket that is closed? Its Reply button stays.
  NoTicket

ASSUME TicketsAssumption ==
  /\ NoTicket \notin Tickets
  /\ AnswersClosed \in BOOLEAN

VARIABLES
  status,     \* support_tickets.status, "none" before the ticket is opened
  writing,    \* the customer's chat waits for a message (MemoryStorage)
  answering,  \* the ticket an admin's chat waits for an answer to
  message,    \* the handlers of the customer's messages
  admin,      \* the handler of an admin's answer or closing
  lost        \* a message was refused because the customer has two active tickets

ticketVars == <<status, writing, answering, message, admin, lost>>

-----------------------------------------------------------------------------
Statuses == {"none", "waiting_for_admin", "waiting_for_customer", "closed"}
Active   == {"waiting_for_admin", "waiting_for_customer"}

NoHandler == [step |-> "idle"]

TicketInit ==
  /\ status    = [t \in Tickets |-> "none"]
  /\ writing   = FALSE
  /\ answering = [a \in Admins |-> NoTicket]
  /\ message   = [m \in Messages |-> NoHandler]
  /\ admin     = [a \in Admins |-> NoHandler]
  /\ lost      = FALSE

\* The column is written unless the handler's copy has the value already.
SetStatus(t, seen, new) ==
  status' = IF seen = new THEN status ELSE [status EXCEPT ![t] = new]

-----------------------------------------------------------------------------
(* The customer. *)

\* /support, or its button.
AskForSupport ==
  /\ ~writing
  /\ writing' = TRUE
  /\ UNCHANGED <<status, answering, message, admin, lost>>

\* The main menu, the cancel button or a change of language.
LeaveChat ==
  /\ writing
  /\ writing' = FALSE
  /\ UNCHANGED <<status, answering, message, admin, lost>>

\* A message arrives while the chat waits for one. Another may find the first
\* waiting for the database still.
WriteMessage(m) ==
  /\ writing
  /\ message[m] = NoHandler
  /\ message' = [message EXCEPT ![m] = [step |-> "find"]]
  /\ UNCHANGED <<status, writing, answering, admin, lost>>

ActiveTickets_Unanswered == {t \in Tickets : status[t] = "waiting_for_admin"}

ActiveTickets_Closed == {t \in Tickets : status[t] # "none"}

ActiveTickets == {t \in Tickets : status[t] \in Active}

\* get_active_ticket_for_user, which raises if there are two: the handler ends and
\* the chat goes on waiting.
FindTicket(m) ==
  /\ message[m].step = "find"
  /\ \/ /\ ActiveTickets = {}
        /\ message' = [message EXCEPT ![m] = [step |-> "open"]]
        /\ UNCHANGED lost
     \/ \E t \in ActiveTickets :
          /\ ActiveTickets = {t}
          /\ message' = [message EXCEPT ![m] = [step |-> "add", ticket |-> t, seen |-> status[t]]]
          /\ UNCHANGED lost
     \/ /\ \E t, u \in ActiveTickets : t # u
        /\ message' = [message EXCEPT ![m] = NoHandler]
        /\ lost' = TRUE
  /\ UNCHANGED <<status, writing, answering, admin>>

OpenTicket_Default(m) ==
  /\ message[m].step = "open"
  /\ \E t \in Tickets :
       /\ status[t] = "none"
       /\ status' = [status EXCEPT ![t] = "open"]
  /\ writing' = FALSE
  /\ message' = [message EXCEPT ![m] = NoHandler]
  /\ UNCHANGED <<answering, admin, lost>>

\* create_ticket ...
OpenTicket(m) ==
  /\ message[m].step = "open"
  /\ \E t \in Tickets :
       /\ status[t] = "none"
       /\ status' = [status EXCEPT ![t] = "waiting_for_admin"]
  /\ writing' = FALSE
  /\ message' = [message EXCEPT ![m] = NoHandler]
  /\ UNCHANGED <<answering, admin, lost>>

\* ... or add_message; and the chat waits for nothing any more.
AddMessage(m) ==
  /\ message[m].step = "add"
  /\ SetStatus(message[m].ticket, message[m].seen, "waiting_for_admin")
  /\ writing' = FALSE
  /\ message' = [message EXCEPT ![m] = NoHandler]
  /\ UNCHANGED <<answering, admin, lost>>

-----------------------------------------------------------------------------
(* The admins. The buttons of a ticket's messages stay for ever. *)

PressReply(a, t) ==
  /\ status[t] # "none"
  /\ answering' = [answering EXCEPT ![a] = t]
  /\ UNCHANGED <<status, writing, message, admin, lost>>

Handles(a, t, step) == admin' = [admin EXCEPT ![a] = [step |-> step, ticket |-> t, seen |-> status[t]]]

\* The admin's next message is the answer. The ticket is read ...
BeginAnswer(a) ==
  LET t == answering[a] IN
  /\ t # NoTicket
  /\ admin[a] = NoHandler
  /\ AnswersClosed \/ status[t] # "closed"
  /\ Handles(a, t, "answer")
  /\ UNCHANGED <<status, writing, answering, message, lost>>

\* ... and written, whatever its status: a closed one is open again.
Answer(a) ==
  /\ admin[a].step = "answer"
  /\ SetStatus(admin[a].ticket, admin[a].seen, "waiting_for_customer")
  /\ answering' = [answering EXCEPT ![a] = NoTicket]
  /\ admin' = [admin EXCEPT ![a] = NoHandler]
  /\ UNCHANGED <<writing, message, lost>>

BeginClose(a, t) ==
  /\ status[t] # "none"
  /\ admin[a] = NoHandler
  /\ Handles(a, t, "close")
  /\ UNCHANGED <<status, writing, answering, message, lost>>

Close(a) ==
  /\ admin[a].step = "close"
  /\ SetStatus(admin[a].ticket, admin[a].seen, "closed")
  /\ admin' = [admin EXCEPT ![a] = NoHandler]
  /\ UNCHANGED <<writing, answering, message, lost>>

\* The bot restarts: its handlers end where they are, and it forgets its chats.
Restart ==
  /\ writing'   = FALSE
  /\ answering' = [a \in Admins |-> NoTicket]
  /\ message'   = [m \in Messages |-> NoHandler]
  /\ admin'     = [a \in Admins |-> NoHandler]
  /\ UNCHANGED <<status, lost>>

TicketNext ==
  \/ AskForSupport \/ LeaveChat
  \/ \E m \in Messages : WriteMessage(m) \/ FindTicket(m) \/ OpenTicket(m) \/ AddMessage(m)
  \/ \E a \in Admins : \/ \E t \in Tickets : PressReply(a, t) \/ BeginClose(a, t)
                       \/ BeginAnswer(a) \/ Answer(a) \/ Close(a)
  \/ Restart

TicketSpec == TicketInit /\ [][TicketNext]_ticketVars

-----------------------------------------------------------------------------
(* Properties. *)

TicketTypeOK ==
  /\ status \in [Tickets -> Statuses]
  /\ writing \in BOOLEAN
  /\ answering \in [Admins -> Tickets \union {NoTicket}]
  /\ message \in [Messages -> {NoHandler} \union [step : {"find", "open"}] \union
                    [step : {"add"}, ticket : Tickets, seen : Statuses]]
  /\ admin \in [Admins -> {NoHandler} \union
                  [step : {"answer", "close"}, ticket : Tickets, seen : Statuses]]
  /\ lost \in BOOLEAN

\* The conditions under which messages, answers and closings do not get in each
\* other's way.
OneMessageAtATime == \A m, n \in Messages : m = n
OneAdmin          == \A a, b \in Admins : a = b

\* A customer has one active ticket at most, and so further messages go to it: the
\* test of handle_support_message calls it "second message to same open ticket".
OneActive == \A t, u \in Tickets : status[t] \in Active /\ status[u] \in Active => t = u

\* Nothing a customer writes to support is refused: get_active_ticket_for_user's
\* scalar_one_or_none asserts that there is one active ticket or none.
NothingLost == ~lost

\* However handlers overlap, a closed ticket is taken up again only by somebody who
\* knew it open or by an admin who answers it: a customer's message that arrives
\* after the closing goes to a ticket of its own.
ClosedStays ==
  [][\A t \in Tickets : status[t] = "closed" /\ status'[t] # "closed" =>
       \/ \E a \in Admins : admin[a].step = "answer" /\ admin[a].ticket = t /\ admin'[a] = NoHandler
       \/ \E m \in Messages : message[m].step = "add" /\ message[m].ticket = t
                              /\ message[m].seen = "waiting_for_customer" /\ message'[m] = NoHandler
    ]_ticketVars
=============================================================================
