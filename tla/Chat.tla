--------------------------------- MODULE Chat ---------------------------------
(***************************************************************************)
(* One person's chat with the bot: what the bot waits for (aiogram's       *)
(* state and data of the chat), what it has told the person, and the       *)
(* person's row in users. Orders, support and the answers to tickets share *)
(* the one state (bot/handlers/customer, support, admin, main); this is    *)
(* where they meet, each with its own detail in Orders and Tickets.        *)
(*                                                                         *)
(* An update is routed when it arrives, by the state of that moment, and   *)
(* handled in a task of its own: UserMiddleware reads the row, the handler *)
(* reads the data, works, changes the state and only then shows something. *)
(* Tasks overlap wherever they wait for the database or for Telegram. An   *)
(* update that ThrottlingMiddleware drops leaves no trace, so here it was  *)
(* never sent. The person is an admin; a customer does less of the same.   *)
(*                                                                         *)
(* A definition whose name ends in an underscore and a word is the one     *)
(* before the underscore with a mistake in it, which a property excludes.  *)
(***************************************************************************)
CONSTANTS
  Tasks,     \* bound: updates handled at once
  Orders,    \* bound: orders, of which a new one is used each time
  Tickets,   \* tickets whose Reply button the person may press
  Langs,
  TelegramLang,   \* the language of the person's Telegram
  Bosses,    \* other admins, who may block the person
  Nothing

ASSUME ChatAssumption ==
  /\ TelegramLang \in Langs
  /\ Nothing \notin Orders \union Tickets \union Langs

VARIABLES
  row,       \* the person's row: known, is_blocked, language_code
  waits,     \* the chat's state
  order,     \* data["order_id"]
  ticket,    \* data["ticket_id"]
  task,      \* the updates being handled
  boss,      \* the handlers of /block and /unblock
  told,      \* what the last of them was told the person is: blocked?
  prompt,    \* what the last screen asks the person for
  shown,     \* the language of the last screen, Nothing when that is not known
  talk       \* whether that screen can be relied upon: see Overlap

chat == <<waits, order, ticket>>
seen == <<prompt, shown>>
vars == <<row, chat, task, boss, told, seen, talk>>

-----------------------------------------------------------------------------
\* The states "none" (no state), "receipt" (OrderFlowStates.awaiting_receipt),
\* "writing" (SupportStates.writing_message), "reply"
\* (AdminTicketStates.waiting_for_reply); and the screens that ask for the same.
Ask(kind, of) == [kind |-> kind, of |-> of]
Menu     == Ask("none", Nothing)

\* What the bot would take the person's next message for.
Expects == Ask(waits, CASE waits = "receipt" -> order [] waits = "reply" -> ticket [] OTHER -> Nothing)

Idle == [step |-> "idle", do |-> "look", of |-> Nothing, lang |-> Nothing]

Busy(u) == task[u].step # "idle"

Init ==
  /\ row    = [known |-> FALSE, blocked |-> FALSE, lang |-> TelegramLang]
  /\ waits  = "none"
  /\ order  = Nothing
  /\ ticket = Nothing
  /\ task   = [u \in Tasks |-> Idle]
  /\ boss   = [b \in Bosses |-> Nothing]
  /\ told   = FALSE
  /\ prompt = Menu
  /\ shown  = TelegramLang
  /\ talk   = "clear"

\* state.clear()
Clear == waits' = "none" /\ order' = Nothing /\ ticket' = Nothing

\* talk is "crossed" while updates are handled that overlapped, and "unclear" from
\* there on, or from a failure or a restart, to the next screen that says what the
\* bot waits for.
Overlap(u) == talk' = IF \E v \in Tasks \ {u} : Busy(v) THEN "crossed" ELSE talk

Uncross(u) == IF talk = "crossed" /\ \A v \in Tasks \ {u} : ~Busy(v) THEN "unclear" ELSE talk

Ends(u) == task' = [task EXCEPT ![u] = Idle]
Goes(u, step) == task' = [task EXCEPT ![u].step = step]
EndsSilently(u) == Ends(u) /\ talk' = Uncross(u)

-----------------------------------------------------------------------------
(* An update arrives. *)

\* The button presses and the commands that any state leaves to their handlers,
\* except for the admin's: "menu" stands for /start, /menu and the menu and cancel
\* buttons, "look" for all that changes nothing here.
Presses == ({"menu", "support", "plan", "look"} \X {Nothing})
             \union ({"reply"} \X Tickets) \union ({"lang"} \X Langs)

Messages == {"text", "photo", "/admin", "/command"}

\* The routers in their order: customer, support, admin, admin_jobs. In its own
\* state the support router takes every message; the admin's takes every one but
\* /admin, which is registered before.
HandlerOf(m) ==
  CASE waits = "writing" -> "write"
    [] waits = "receipt" /\ m = "photo" -> "receipt"
    [] waits = "reply" /\ m # "/admin" -> "answer"
    [] m \in {"/admin", "/command"} -> "look"
    [] OTHER -> "none"

Arrives(u, do, of) ==
  /\ ~Busy(u)
  /\ task' = [task EXCEPT ![u] = [step |-> "arrived", do |-> do, of |-> of, lang |-> Nothing]]
  /\ Overlap(u)
  /\ UNCHANGED <<row, chat, boss, told, seen>>

Press(u, p) == Arrives(u, p[1], p[2])

Write(u, m) == HandlerOf(m) # "none" /\ Arrives(u, HandlerOf(m), Nothing)

-----------------------------------------------------------------------------
(* UserMiddleware. *)

Upsert_Overwrites == row' = [row EXCEPT !.lang = TelegramLang]

Upsert_Unblocks == row' = [row EXCEPT !.blocked = FALSE]

\* upsert_user writes nothing of a known row that matters here: "language_code is
\* only set on first contact", is_blocked by the admins alone.
Upsert == UNCHANGED row

\* The update of a blocked person goes no further.
Read(u) ==
  /\ task[u].step = "arrived"
  /\ row.known
  /\ Upsert
  /\ \/ row.blocked /\ EndsSilently(u)
     \/ /\ ~row.blocked
        /\ task' = [task EXCEPT ![u].step = "ready", ![u].lang = row.lang]
        /\ UNCHANGED talk
  /\ UNCHANGED <<chat, boss, told, seen>>

\* The first contact: no row is found ...
Miss(u) ==
  /\ task[u].step = "arrived"
  /\ ~row.known
  /\ Goes(u, "insert")
  /\ UNCHANGED <<row, chat, boss, told, seen, talk>>

\* ... and one is made, unless another update made it meanwhile: its
\* telegram_user_id is unique, and the handler ends with an error.
Insert(u) ==
  /\ task[u].step = "insert"
  /\ \/ /\ ~row.known
        /\ row' = [known |-> TRUE, blocked |-> FALSE, lang |-> TelegramLang]
        /\ task' = [task EXCEPT ![u].step = "ready", ![u].lang = TelegramLang]
        /\ UNCHANGED talk
     \/ row.known /\ EndsSilently(u) /\ UNCHANGED row
  /\ UNCHANGED <<chat, boss, told, seen>>

-----------------------------------------------------------------------------
(* The handlers. Each sets the state before it shows its screen. *)

Handles(u, do) == task[u].step = "ready" /\ task[u].do = do

\* cmd_start, callback_main_menu, callback_cancel_order
OpenMenu(u) ==
  /\ Handles(u, "menu")
  /\ Clear
  /\ Goes(u, "show")
  /\ UNCHANGED <<row, boss, told, seen, talk>>

\* cmd_support, callback_menu_support: the data stays.
OpenSupport(u) ==
  /\ Handles(u, "support")
  /\ waits' = "writing"
  /\ Goes(u, "show")
  /\ UNCHANGED <<row, order, ticket, boss, told, seen, talk>>

\* _start_order, once the order is committed.
StartOrder(u) ==
  /\ Handles(u, "plan")
  /\ \E o \in Orders :
       /\ o \notin {order, prompt.of} \union {task[v].of : v \in Tasks}
       /\ waits' = "receipt"
       /\ order' = o
       /\ task' = [task EXCEPT ![u].step = "show", ![u].of = o]
  /\ UNCHANGED <<row, ticket, boss, told, seen, talk>>

AskForReply_OldTicket(u) ==
  /\ Handles(u, "reply")
  /\ waits' = "reply"
  /\ ticket' = IF ticket = Nothing THEN task[u].of ELSE ticket
  /\ Goes(u, "show")
  /\ UNCHANGED <<row, order, boss, told, seen, talk>>

\* callback_admin_reply_ticket
AskForReply(u) ==
  /\ Handles(u, "reply")
  /\ waits' = "reply"
  /\ ticket' = task[u].of
  /\ Goes(u, "show")
  /\ UNCHANGED <<row, order, boss, told, seen, talk>>

\* callback_set_language clears the state ...
PickLanguage(u) ==
  /\ Handles(u, "lang")
  /\ Clear
  /\ Goes(u, "save")
  /\ UNCHANGED <<row, boss, told, seen, talk>>

\* ... and commits the choice, which is not written if the copy of the row that
\* the middleware read has it already (SQLAlchemy's unit of work).
SaveLanguage(u) ==
  /\ task[u].step = "save"
  /\ row' = IF task[u].lang = task[u].of THEN row ELSE [row EXCEPT !.lang = task[u].of]
  /\ task' = [task EXCEPT ![u].step = "show", ![u].lang = task[u].of]
  /\ UNCHANGED <<chat, boss, told, seen, talk>>

\* The handlers that show something and change nothing.
Look(u) ==
  /\ Handles(u, "look")
  /\ Goes(u, "show")
  /\ UNCHANGED <<row, chat, boss, told, seen, talk>>

\* handle_receipt_upload, handle_admin_ticket_reply and handle_support_message take
\* what was written for the order or the ticket that the data names by now ...
Target(do) == CASE do = "receipt" -> order [] do = "answer" -> ticket [] OTHER -> Nothing

Take(u) ==
  /\ task[u].step = "ready"
  /\ task[u].do \in {"receipt", "answer", "write"}
  /\ task[u].do = "write" \/ Target(task[u].do) # Nothing
  /\ task' = [task EXCEPT ![u].step = "taken", ![u].of = Target(task[u].do)]
  /\ UNCHANGED <<row, chat, boss, told, seen, talk>>

\* ... or clear the state and say nothing if it names none any more ...
Forget(u) ==
  /\ task[u].step = "ready"
  /\ task[u].do \in {"receipt", "answer"}
  /\ Target(task[u].do) = Nothing
  /\ Clear
  /\ EndsSilently(u)
  /\ UNCHANGED <<row, boss, told, seen>>

Finish_Waits(u) ==
  /\ task[u].step = "taken"
  /\ Goes(u, "show")
  /\ UNCHANGED <<row, chat, boss, told, seen, talk>>

\* ... commit it, and clear the state, whatever it is by then.
Finish(u) ==
  /\ task[u].step = "taken"
  /\ Clear
  /\ Goes(u, "show")
  /\ UNCHANGED <<row, boss, told, seen, talk>>

\* What the screen at a handler's end asks for.
Screen(u) ==
  CASE task[u].do = "support" -> Ask("writing", Nothing)
    [] task[u].do = "plan"    -> Ask("receipt", task[u].of)
    [] task[u].do = "reply"   -> Ask("reply", task[u].of)
    [] task[u].do = "look"    -> prompt
    [] OTHER                  -> Menu

\* The screen arrives, in the language of the handler's copy of the row; one for
\* admins is in English, and tells nothing of it. A screen that nothing overlapped
\* and that says what the bot waits for makes the talk clear.
Show(u) ==
  /\ task[u].step = "show"
  /\ prompt' = Screen(u)
  /\ shown' = CASE task[u].do = "look" -> shown
                [] task[u].do \in {"reply", "answer"} -> IF talk = "clear" THEN shown ELSE Nothing
                [] OTHER -> task[u].lang
  /\ talk' = IF talk = "crossed" \/ task[u].do = "look" THEN Uncross(u) ELSE "clear"
  /\ Ends(u)
  /\ UNCHANGED <<row, chat, boss, told>>

\* A handler fails. Its screen does not arrive, though the state may have changed.
Fail(u) ==
  /\ Busy(u)
  /\ Ends(u)
  /\ talk' = IF talk # "crossed" /\ task[u].step \in {"save", "show"} THEN "unclear" ELSE Uncross(u)
  /\ UNCHANGED <<row, chat, boss, told, seen>>

-----------------------------------------------------------------------------
\* The bot restarts: its tasks end, and MemoryStorage forgets.
Restart ==
  /\ Clear
  /\ task' = [u \in Tasks |-> Idle]
  /\ boss' = [b \in Bosses |-> Nothing]
  /\ talk' = IF prompt = Menu /\ \A u \in Tasks : ~Busy(u) THEN talk ELSE "unclear"
  /\ UNCHANGED <<row, told, seen>>

\* /block and /unblock read the row ...
BeginBlock(b, blocked) ==
  /\ row.known
  /\ boss[b] = Nothing
  /\ boss' = [boss EXCEPT ![b] = [seen |-> row.blocked, new |-> blocked]]
  /\ UNCHANGED <<row, chat, task, told, seen, talk>>

\* ... and commit the change, if it is one to the copy that they read.
Block(b) ==
  /\ boss[b] # Nothing
  /\ row'  = IF boss[b].seen = boss[b].new THEN row ELSE [row EXCEPT !.blocked = boss[b].new]
  /\ told' = boss[b].new
  /\ boss' = [boss EXCEPT ![b] = Nothing]
  /\ UNCHANGED <<chat, task, seen, talk>>

Middleware(u) == Read(u) \/ Miss(u) \/ Insert(u)
Handler(u) ==
  \/ OpenMenu(u) \/ OpenSupport(u) \/ StartOrder(u) \/ AskForReply(u)
  \/ PickLanguage(u) \/ SaveLanguage(u) \/ Look(u)
  \/ Take(u) \/ Forget(u) \/ Finish(u) \/ Show(u)

Next ==
  \/ \E u \in Tasks :
       \/ \E p \in Presses : Press(u, p)
       \/ \E m \in Messages : Write(u, m)
       \/ Middleware(u) \/ Handler(u) \/ Fail(u)
  \/ Restart
  \/ \E b \in Bosses : (\E blocked \in BOOLEAN : BeginBlock(b, blocked)) \/ Block(b)

Spec == Init /\ [][Next]_vars

-----------------------------------------------------------------------------
(* Properties. *)

Kinds == {"none", "receipt", "writing", "reply"}
Items == Orders \union Tickets \union Langs \union {Nothing}

TypeOK ==
  /\ row \in [known : BOOLEAN, blocked : BOOLEAN, lang : Langs]
  /\ waits \in Kinds
  /\ order \in Orders \union {Nothing}
  /\ ticket \in Tickets \union {Nothing}
  /\ task \in [Tasks -> [step : {"idle", "arrived", "insert", "ready", "save", "taken", "show"},
                         do : {"menu", "support", "plan", "look", "reply", "lang",
                               "write", "receipt", "answer"},
                         of : Items, lang : Langs \union {Nothing}]]
  /\ \A u \in Tasks : task[u].step = "taken" =>
       \/ task[u].do = "write"
       \/ task[u].do = "receipt" /\ task[u].of \in Orders
       \/ task[u].do = "answer" /\ task[u].of \in Tickets
  /\ boss \in [Bosses -> [seen : BOOLEAN, new : BOOLEAN] \union {Nothing}]
  /\ told \in BOOLEAN
  /\ prompt \in [kind : Kinds, of : Items]
  /\ shown \in Langs \union {Nothing}
  /\ talk \in {"clear", "crossed", "unclear"}

\* The bot waits for what its last screen asked for, whatever the person did
\* before: one screen that nothing interfered with is enough.
WaitsForWhatItAsked ==
  talk = "clear" /\ (\A u \in Tasks : ~Busy(u)) => Expects = prompt

\* What the person writes goes to the order or the ticket that the last screen
\* names, and to no other customer's.
AnswersGoWhereAsked ==
  \A u \in Tasks :
    talk = "clear" /\ task[u].step = "taken" /\ task[u].do # "write" => task[u].of = prompt.of

\* The customer keeps the language of the last screen: "the choice is kept".
LanguageKept ==
  talk = "clear" /\ row.known /\ shown # Nothing /\ (\A u \in Tasks : ~Busy(u)) => row.lang = shown

\* Once a boss was told that the person is blocked, and until one begins to unblock, no
\* update whose row is read by then is handled; with two bosses at once the last word
\* may not be in the row.
OneBoss == \A b, c \in Bosses : b = c

BlockHolds ==
  [][OneBoss /\ told /\ (\A b \in Bosses : boss[b] = Nothing)
       => \A u \in Tasks : task[u].step \in {"arrived", "insert"} => task'[u].step # "ready"]_vars
=============================================================================
