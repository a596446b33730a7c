------------------------------ MODULE ChatProofs ------------------------------
(***************************************************************************)
(* Proofs about Chat, for any number of updates handled at once, of orders,*)
(* of tickets and of other admins.                                         *)
(***************************************************************************)
EXTENDS Chat, TLAPS

\* The types, with what the step of a task says of its kind.
TaskOK(t) ==
  /\ t \in [step : {"idle", "arrived", "insert", "ready", "save", "taken", "show"},
           do : {"menu", "support", "plan", "look", "reply", "lang", "write", "receipt", "answer"},
           of : Items, lang : Langs \union {Nothing}]
  /\ t.step = "save" => t.do = "lang"
  /\ t.step = "taken" => \/ t.do = "write"
                         \/ t.do = "receipt" /\ t.of \in Orders
                         \/ t.do = "answer" /\ t.of \in Tickets
  /\ t.step # "idle" => /\ t.do = "reply" => t.of \in Tickets
                        /\ t.do = "lang" => t.of \in Langs
  /\ t.step \in {"ready", "save", "taken", "show"} => t.lang \in Langs

RestOK ==
  /\ row \in [known : BOOLEAN, blocked : BOOLEAN, lang : Langs]
  /\ waits \in Kinds
  /\ order \in Orders \union {Nothing}
  /\ ticket \in Tickets \union {Nothing}
  /\ boss \in [Bosses -> [seen : BOOLEAN, new : BOOLEAN] \union {Nothing}]
  /\ told \in BOOLEAN
  /\ prompt \in [kind : Kinds, of : Items]
  /\ shown \in Langs \union {Nothing}
  /\ talk \in {"clear", "crossed", "unclear"}

TypeInv ==
  /\ DOMAIN task = Tasks
  /\ task = [u \in Tasks |-> task[u]]
  /\ \A u \in Tasks : TaskOK(task[u])
  /\ RestOK

\* An update that is not there is of the type of one.
LEMMA IdleOK == TaskOK(Idle)
BY DEF TaskOK, Idle, Items

\* They hold at first.
LEMMA InitTypeInv == Init => TypeInv
<1> SUFFICES ASSUME Init PROVE TypeInv
  OBVIOUS
<1>1. task = [u \in Tasks |-> Idle]
  BY DEF Init
<1>2. prompt \in [kind : Kinds, of : Items]
  BY DEF Init, Menu, Ask, Kinds, Items
<1>3. row \in [known : BOOLEAN, blocked : BOOLEAN, lang : Langs]
  BY ChatAssumption DEF Init
<1>4. RestOK
  BY <1>2, <1>3, ChatAssumption DEF Init, RestOK, Kinds
<1> QED
  BY <1>1, <1>4, IdleOK DEF TypeInv

\* A step of one task.
LEMMA OneTask ==
  ASSUME TypeInv, NEW u \in Tasks, NEW t, TaskOK(t), task' = [task EXCEPT ![u] = t], RestOK'
  PROVE  TypeInv'
BY DEF TypeInv

\* TypeInv is TypeOK and a little more.
LEMMA TypesAreOK == TypeInv => TypeOK
BY DEF TypeInv, TaskOK, RestOK, TypeOK

\* A step keeps them.
LEMMA NextTypeInv == TypeInv /\ [Next]_vars => TypeInv'
<1> SUFFICES ASSUME TypeInv, [Next]_vars PROVE TypeInv'
  OBVIOUS
<1>0. ASSUME NEW u \in Tasks, NEW do, NEW of, Arrives(u, do, of),
             do \in {"menu", "support", "plan", "look", "reply", "lang", "write", "receipt", "answer"},
             of \in Items, do = "reply" => of \in Tickets, do = "lang" => of \in Langs
      PROVE  TypeInv'
  <2> DEFINE t == [step |-> "arrived", do |-> do, of |-> of, lang |-> Nothing]
  <2>1. TaskOK(t)
    BY <1>0 DEF TaskOK
  <2>2. RestOK'
    BY <1>0 DEF Arrives, Overlap, chat, seen, TypeInv, RestOK
  <2>3. task' = [task EXCEPT ![u] = t]
    BY <1>0 DEF Arrives
  <2> HIDE DEF t
  <2> QED
    BY <2>1, <2>2, <2>3, OneTask
<1>1. ASSUME NEW u \in Tasks, NEW p \in Presses, Press(u, p) PROVE TypeInv'
  <2>1. p[1] \in {"menu", "support", "plan", "look", "reply", "lang"} /\ p[2] \in Items
        /\ (p[1] = "reply" => p[2] \in Tickets) /\ (p[1] = "lang" => p[2] \in Langs)
    BY DEF Presses, Items
  <2> QED
    BY <1>0, <1>1, <2>1 DEF Press
<1>2. ASSUME NEW u \in Tasks, NEW m \in Messages, Write(u, m) PROVE TypeInv'
  <2>1. HandlerOf(m) \in {"write", "receipt", "answer", "look"}
    BY <1>2 DEF Write, HandlerOf
  <2> QED
    BY <1>0, <1>2, <2>1 DEF Write, Items
<1>3. ASSUME NEW u \in Tasks, Middleware(u) PROVE TypeInv'
  <2>0. TaskOK(task[u]) /\ RestOK
    BY DEF TypeInv
  <2>1. CASE Read(u)
    <3>1. RestOK'
      BY <2>0, <2>1 DEF Read, Upsert, EndsSilently, Uncross, chat, seen, RestOK
    <3>2. TaskOK([task[u] EXCEPT !.step = "ready", !.lang = row.lang])
      BY <2>0, <2>1 DEF Read, TaskOK, RestOK
    <3>3. \/ task' = [task EXCEPT ![u] = Idle]
          \/ task' = [task EXCEPT ![u] = [task[u] EXCEPT !.step = "ready", !.lang = row.lang]]
      BY <2>1 DEF Read, EndsSilently, Ends
    <3> QED
      BY <3>1, <3>2, <3>3, IdleOK, OneTask
  <2>2. CASE Miss(u)
    <3>1. RestOK'
      BY <2>0, <2>2 DEF Miss, chat, seen, RestOK
    <3>2. TaskOK([task[u] EXCEPT !.step = "insert"])
      BY <2>0, <2>2 DEF Miss, TaskOK
    <3>3. task' = [task EXCEPT ![u] = [task[u] EXCEPT !.step = "insert"]]
      BY <2>2 DEF Miss, Goes
    <3> QED
      BY <3>1, <3>2, <3>3, OneTask
  <2>3. CASE Insert(u)
    <3>1. row' \in [known : BOOLEAN, blocked : BOOLEAN, lang : Langs]
      <4>1. row' = row \/ row' = [known |-> TRUE, blocked |-> FALSE, lang |-> TelegramLang]
        BY <2>3 DEF Insert
      <4>2. [known |-> TRUE, blocked |-> FALSE, lang |-> TelegramLang]
              \in [known : BOOLEAN, blocked : BOOLEAN, lang : Langs]
        BY ChatAssumption
      <4> QED
        BY <2>0, <4>1, <4>2 DEF RestOK
    <3>2. RestOK'
      <4>1. talk' \in {"clear", "crossed", "unclear"}
        BY <2>0, <2>3 DEF Insert, EndsSilently, Uncross, RestOK
      <4> QED
        BY <2>0, <2>3, <3>1, <4>1 DEF Insert, chat, seen, RestOK
    <3>3. TaskOK([task[u] EXCEPT !.step = "ready", !.lang = TelegramLang])
      BY <2>0, <2>3, ChatAssumption DEF Insert, TaskOK
    <3>4. \/ task' = [task EXCEPT ![u] = Idle]
          \/ task' = [task EXCEPT ![u] = [task[u] EXCEPT !.step = "ready", !.lang = TelegramLang]]
      BY <2>3 DEF Insert, EndsSilently, Ends
    <3> QED
      BY <3>2, <3>3, <3>4, IdleOK, OneTask
  <2> QED
    BY <1>3, <2>1, <2>2, <2>3 DEF Middleware
<1>4. ASSUME NEW u \in Tasks, Handler(u) PROVE TypeInv'
  <2>1. RestOK'
    <3>1. CASE Show(u)
      <4>1. TaskOK(task[u]) /\ RestOK
        BY DEF TypeInv
      <4>2. prompt' \in [kind : Kinds, of : Items]
        BY <3>1, <4>1 DEF Show, Screen, Ask, Menu, TaskOK, RestOK, Kinds, Items
      <4>3. shown' \in Langs \union {Nothing} /\ talk' \in {"clear", "crossed", "unclear"}
        BY <3>1, <4>1 DEF Show, Uncross, TaskOK, RestOK
      <4> QED
        BY <3>1, <4>1, <4>2, <4>3 DEF Show, chat, RestOK
    <3>2. CASE Take(u) \/ Forget(u) \/ Finish(u) \/ Look(u) \/ OpenMenu(u) \/ OpenSupport(u)
      BY <3>2 DEF Take, Forget, Finish, Look, OpenMenu, OpenSupport, Clear, EndsSilently, Uncross,
                  chat, seen, TypeInv, RestOK, Kinds
    <3>3. CASE StartOrder(u)
      BY <3>3 DEF StartOrder, seen, TypeInv, RestOK, Kinds
    <3>4. CASE AskForReply(u)
      BY <3>4 DEF AskForReply, Handles, seen, TypeInv, TaskOK, RestOK, Kinds
    <3>5. CASE PickLanguage(u) \/ SaveLanguage(u)
      BY <3>5 DEF PickLanguage, SaveLanguage, Clear, chat, seen, TypeInv, TaskOK, RestOK, Kinds
    <3> QED
      BY <1>4, <3>1, <3>2, <3>3, <3>4, <3>5 DEF Handler
  <2>2. PICK t : TaskOK(t) /\ task' = [task EXCEPT ![u] = t]
    <3>1. TaskOK(task[u]) /\ RestOK
      BY DEF TypeInv
    <3>2. CASE OpenMenu(u) \/ OpenSupport(u) \/ AskForReply(u) \/ Look(u) \/ Finish(u)
      <4>1. task[u].step \in {"ready", "taken"} /\ task' = [task EXCEPT ![u] = [task[u] EXCEPT !.step = "show"]]
        BY <3>2 DEF OpenMenu, OpenSupport, AskForReply, Look, Finish, Handles, Goes
      <4>2. TaskOK([task[u] EXCEPT !.step = "show"])
        BY <3>1, <4>1 DEF TaskOK
      <4> QED
        BY <4>1, <4>2
    <3>3. CASE StartOrder(u)
      <4>0. PICK o \in Orders : task' = [task EXCEPT ![u].step = "show", ![u].of = o]
        BY <3>3, Zenon DEF StartOrder
      <4>1. task' = [task EXCEPT ![u] = [task[u] EXCEPT !.step = "show", !.of = o]]
        BY <4>0
      <4>2. TaskOK([task[u] EXCEPT !.step = "show", !.of = o])
        <5>1. task[u].step = "ready" /\ task[u].do = "plan" /\ o \in Items
          BY <3>3 DEF StartOrder, Handles, Items
        <5> QED
          BY <3>1, <5>1 DEF TaskOK
      <4> QED
        BY <4>1, <4>2
    <3>4. CASE PickLanguage(u)
      <4>1. task' = [task EXCEPT ![u] = [task[u] EXCEPT !.step = "save"]]
        BY <3>4 DEF PickLanguage, Goes
      <4>2. TaskOK([task[u] EXCEPT !.step = "save"])
        BY <3>1, <3>4 DEF PickLanguage, Handles, TaskOK
      <4> QED
        BY <4>1, <4>2
    <3>5. CASE SaveLanguage(u)
      <4>1. task' = [task EXCEPT ![u] = [task[u] EXCEPT !.step = "show", !.lang = task[u].of]]
        BY <3>5 DEF SaveLanguage
      <4>2. TaskOK([task[u] EXCEPT !.step = "show", !.lang = task[u].of])
        BY <3>1, <3>5 DEF SaveLanguage, TaskOK
      <4> QED
        BY <4>1, <4>2
    <3>6. CASE Take(u)
      <4> DEFINE x == Target(task[u].do)
      <4>1. task' = [task EXCEPT ![u] = [task[u] EXCEPT !.step = "taken", !.of = x]]
        BY <3>6 DEF Take
      <4>2. \/ task[u].do = "receipt" /\ x \in Orders
            \/ task[u].do = "answer" /\ x \in Tickets
            \/ task[u].do = "write" /\ x = Nothing
        <5>1. order \in Orders \union {Nothing} /\ ticket \in Tickets \union {Nothing}
          BY <3>1 DEF RestOK
        <5>2. task[u].do \in {"receipt", "answer", "write"}
              /\ (task[u].do = "write" \/ x # Nothing)
          BY <3>6 DEF Take
        <5> QED
          BY <5>1, <5>2 DEF Target
      <4>3. TaskOK([task[u] EXCEPT !.step = "taken", !.of = x])
        <5>1. x \in Items
          BY <4>2 DEF Items
        <5>2. task[u].step = "ready"
          BY <3>6 DEF Take
        <5> HIDE DEF x
        <5> QED
          BY <3>1, <4>2, <5>1, <5>2 DEF TaskOK
      <4> QED
        BY <4>1, <4>3
    <3>7. CASE Forget(u) \/ Show(u)
      BY <3>7, IdleOK DEF Forget, Show, EndsSilently, Ends
    <3> QED
      BY <1>4, <3>2, <3>3, <3>4, <3>5, <3>6, <3>7 DEF Handler
  <2> QED
    BY <2>1, <2>2, OneTask
<1>5. ASSUME NEW u \in Tasks, Fail(u) PROVE TypeInv'
  <2>1. RestOK' /\ task' = [task EXCEPT ![u] = Idle]
    BY <1>5 DEF Fail, Ends, Uncross, chat, seen, TypeInv, RestOK
  <2> QED
    BY <2>1, IdleOK, OneTask
<1>6. CASE Restart
  <2>1. RestOK'
    BY <1>6 DEF Restart, Clear, seen, TypeInv, RestOK, Kinds
  <2> QED
    BY <1>6, <2>1, IdleOK DEF Restart, TypeInv
<1>7. ASSUME NEW b \in Bosses, (\E blocked \in BOOLEAN : BeginBlock(b, blocked)) \/ Block(b)
      PROVE  TypeInv'
  <2>1. RestOK' /\ task' = task
    BY <1>7 DEF BeginBlock, Block, chat, seen, TypeInv, RestOK
  <2> QED
    BY <2>1 DEF TypeInv
<1>8. CASE UNCHANGED vars
  BY <1>8 DEF vars, chat, seen, TypeInv, RestOK
<1> QED
  BY <1>1, <1>2, <1>3, <1>4, <1>5, <1>6, <1>7, <1>8 DEF Next
-----------------------------------------------------------------------------
(* The row says what the other admin was told. *)

BlockInv ==
  /\ told => row.known
  /\ \A b \in Bosses : boss[b] # Nothing => row.known
  /\ OneBoss => row.blocked = told
  /\ OneBoss => \A b \in Bosses : boss[b] # Nothing => boss[b].seen = row.blocked

\* Nobody is blocked at first.
LEMMA InitBlockInv == Init => BlockInv
<1> SUFFICES ASSUME Init PROVE BlockInv
  OBVIOUS
<1>1. row.blocked = FALSE /\ told = FALSE
  BY DEF Init
<1>2. \A b \in Bosses : boss[b] = Nothing
  BY DEF Init
<1> QED
  BY <1>1, <1>2 DEF BlockInv

\* The updates leave the blocking alone, but for the first, which makes the row.
LEMMA UpdatesBlock ==
  ASSUME NEW u \in Tasks,
         \/ \E p \in Presses : Press(u, p)
         \/ \E m \in Messages : Write(u, m)
         \/ Middleware(u) \/ Handler(u) \/ Fail(u),
         TypeInv
  PROVE  /\ boss' = boss /\ told' = told
         /\ \/ row'.known = row.known /\ row'.blocked = row.blocked
            \/ ~row.known /\ row'.known /\ ~row'.blocked
<1>1. CASE \E p \in Presses : Press(u, p)
  BY <1>1 DEF Press, Arrives
<1>2. CASE \E m \in Messages : Write(u, m)
  BY <1>2 DEF Write, Arrives
<1>3. CASE Middleware(u)
  BY <1>3 DEF Middleware, Read, Upsert, Miss, Insert
<1>4. CASE SaveLanguage(u)
  BY <1>4 DEF SaveLanguage, TypeInv, RestOK
<1>5. CASE Handler(u) /\ ~SaveLanguage(u)
  BY <1>5 DEF Handler, OpenMenu, OpenSupport, StartOrder, AskForReply, PickLanguage, Look,
              Take, Forget, Finish, Show
<1>6. CASE Fail(u)
  BY <1>6 DEF Fail
<1> QED
  BY <1>1, <1>2, <1>3, <1>4, <1>5, <1>6

\* Every step keeps it.
LEMMA NextBlockInv == TypeInv /\ BlockInv /\ [Next]_vars => BlockInv'
<1> SUFFICES ASSUME TypeInv, BlockInv, [Next]_vars PROVE BlockInv'
  OBVIOUS
<1>1. ASSUME NEW u \in Tasks,
             \/ \E p \in Presses : Press(u, p)
             \/ \E m \in Messages : Write(u, m)
             \/ Middleware(u) \/ Handler(u) \/ Fail(u)
      PROVE  BlockInv'
  <2>1. /\ boss' = boss /\ told' = told
        /\ \/ row'.known = row.known /\ row'.blocked = row.blocked
           \/ ~row.known /\ row'.known /\ ~row'.blocked
    BY <1>1, UpdatesBlock
  <2>2. told \in BOOLEAN /\ row.blocked \in BOOLEAN /\ row'.blocked \in BOOLEAN
    BY <1>1, NextTypeInv DEF TypeInv, RestOK
  <2> QED
    BY <2>1, <2>2 DEF BlockInv, OneBoss
<1>2. CASE Restart
  BY <1>2 DEF Restart, BlockInv, OneBoss
<1>3. ASSUME NEW b \in Bosses, NEW blocked \in BOOLEAN, BeginBlock(b, blocked)
      PROVE  BlockInv'
  <2>1. /\ row' = row /\ told' = told /\ row.known
        /\ boss' = [boss EXCEPT ![b] = [seen |-> row.blocked, new |-> blocked]]
        /\ DOMAIN boss = Bosses
    BY <1>3 DEF BeginBlock, TypeInv, RestOK
  <2> QED
    BY <2>1 DEF BlockInv, OneBoss
<1>4. ASSUME NEW b \in Bosses, Block(b) PROVE BlockInv'
  <2>1. /\ boss[b] # Nothing /\ told' = boss[b].new
        /\ row' = (IF boss[b].seen = boss[b].new THEN row ELSE [row EXCEPT !.blocked = boss[b].new])
        /\ boss' = [boss EXCEPT ![b] = Nothing]
        /\ row \in [known : BOOLEAN, blocked : BOOLEAN, lang : Langs]
        /\ boss \in [Bosses -> [seen : BOOLEAN, new : BOOLEAN] \union {Nothing}]
    BY <1>4 DEF Block, TypeInv, RestOK
  <2>2. row.known /\ row'.known
    BY <2>1 DEF BlockInv
  <2>3. OneBoss => row'.blocked = told'
    BY <2>1 DEF BlockInv
  <2>4. OneBoss => \A c \in Bosses : boss'[c] = Nothing
    BY <2>1 DEF OneBoss
  <2>5. OneBoss = OneBoss'
    BY DEF OneBoss
  <2> QED
    BY <2>2, <2>3, <2>4, <2>5 DEF BlockInv
<1>5. CASE UNCHANGED vars
  BY <1>5 DEF vars, BlockInv, OneBoss
<1> QED
  BY <1>1, <1>2, <1>3, <1>4, <1>5 DEF Next
-----------------------------------------------------------------------------
(* What the bot waits for is what the last clear screen asked for. *)

\* The handler has changed the state, or the language, and not shown it yet.
Changed(u) == task[u].step \in {"save", "show"} /\ task[u].do # "look"

ChangesLang(u) == task[u].step \in {"save", "show"} /\ task[u].do = "lang"

Alone == \A u, v \in Tasks : Busy(u) /\ Busy(v) => u = v

\* What holds of a task that nothing overlaps: it will show what it has set, it
\* serves what it was routed for, and its copy of the row is up to date.
Local(u) ==
  /\ Changed(u) => Expects = Screen(u)
  /\ task[u].step \in {"arrived", "insert", "ready", "taken"} =>
       /\ task[u].do = "receipt" => waits = "receipt"
       /\ task[u].do = "answer" => waits = "reply"
  /\ task[u].step = "taken" => task[u].of = Target(task[u].do)
  /\ task[u].step \in {"ready", "save", "taken", "show"} => task[u].lang = row.lang

\* A state that needs data has it.
HasData == (waits = "receipt" => order # Nothing) /\ (waits = "reply" => ticket # Nothing)

\* Nobody is handled without a row.
FirstContact ==
  ~row.known => /\ row.lang = TelegramLang /\ shown = TelegramLang
                /\ \A u \in Tasks : task[u].step \in {"idle", "arrived", "insert"}

ClearInv ==
  /\ talk # "crossed" => Alone /\ \A u \in Tasks : Local(u)
  /\ talk = "clear" /\ (\A u \in Tasks : ~Changed(u)) => Expects = prompt
  /\ talk = "clear" /\ shown # Nothing /\ (\A u \in Tasks : ~ChangesLang(u)) => row.lang = shown
  /\ HasData
  /\ FirstContact

\* Nobody has been told anything at first.
LEMMA InitClearInv == Init => ClearInv
<1> SUFFICES ASSUME Init PROVE ClearInv
  OBVIOUS
<1>1. \A u \in Tasks : task[u] = Idle
  BY DEF Init
<1>2. Idle.step = "idle" /\ row.lang = TelegramLang /\ shown = TelegramLang
      /\ waits = "none" /\ prompt = Menu
  BY DEF Init, Idle
<1> QED
  BY <1>1, <1>2 DEF ClearInv, Alone, Local, Changed, ChangesLang, Busy, HasData, FirstContact,
                    Expects, Ask, Menu

\* A task that nothing overlaps goes on.
LEMMA GoesOn ==
  ASSUME TypeInv, ClearInv, NEW u \in Tasks, Busy(u),
         NEW t, task' = [task EXCEPT ![u] = t], talk' = talk, prompt' = prompt, shown' = shown,
         talk # "crossed" => Local(u)',
         talk = "clear" /\ ~Changed(u)' => ~Changed(u) /\ Expects' = Expects,
         talk = "clear" /\ ~ChangesLang(u)' => ~ChangesLang(u) /\ row'.lang = row.lang,
         ~row'.known => row' = row /\ t.step = "insert",
         HasData'
  PROVE  ClearInv'
<1>1. task'[u] = t /\ \A v \in Tasks \ {u} : task'[v] = task[v]
  BY DEF TypeInv
<1>2. ASSUME talk # "crossed" PROVE \A v \in Tasks \ {u} : task[v].step = "idle"
  BY <1>2 DEF ClearInv, Alone, Busy
<1>3. talk' # "crossed" => Alone' /\ \A v \in Tasks : Local(v)'
  <2> SUFFICES ASSUME talk # "crossed" PROVE Alone' /\ \A v \in Tasks : Local(v)'
    OBVIOUS
  <2>1. \A v \in Tasks \ {u} : task'[v].step = "idle"
    BY <1>1, <1>2
  <2> QED
    BY <2>1 DEF Alone, Busy, Local, Changed
<1>4. talk' = "clear" /\ (\A v \in Tasks : ~Changed(v)') => Expects' = prompt'
  <2> SUFFICES ASSUME talk = "clear", ~Changed(u)' PROVE Expects' = prompt
    OBVIOUS
  <2>1. \A v \in Tasks : ~Changed(v)
    BY <1>2 DEF Changed
  <2> QED
    BY <2>1 DEF ClearInv
<1>5. talk' = "clear" /\ shown' # Nothing /\ (\A v \in Tasks : ~ChangesLang(v)') => row'.lang = shown'
  <2> SUFFICES ASSUME talk = "clear", shown # Nothing, ~ChangesLang(u)' PROVE row'.lang = shown
    OBVIOUS
  <2>1. \A v \in Tasks : ~ChangesLang(v)
    BY <1>2 DEF ChangesLang
  <2> QED
    BY <2>1 DEF ClearInv
<1>6. FirstContact'
  BY <1>1 DEF ClearInv, FirstContact
<1> QED
  BY <1>3, <1>4, <1>5, <1>6 DEF ClearInv

\* When all are at rest, what is left of the invariant.
LEMMA AtRest ==
  ASSUME NEW u \in Tasks, \A v \in Tasks : task'[v].step = "idle",
         talk' = "clear" => Expects' = prompt',
         talk' = "clear" /\ shown' # Nothing => row'.lang = shown',
         HasData', FirstContact'
  PROVE  ClearInv'
BY DEF ClearInv, Alone, Busy, Local, Changed, ChangesLang

\* A task ends.
LEMMA TaskEnds ==
  ASSUME TypeInv, ClearInv, NEW u \in Tasks, Busy(u), Ends(u), row' = row, shown' = shown,
         talk' # "crossed" => talk # "crossed" \/ \A v \in Tasks \ {u} : ~Busy(v),
         talk' = "clear" => /\ talk = "clear" /\ ~Changed(u) /\ ~ChangesLang(u)
                            /\ chat' = chat /\ prompt' = prompt,
         HasData'
  PROVE  ClearInv'
<1>1. task'[u].step = "idle" /\ \A v \in Tasks \ {u} : task'[v] = task[v]
  BY DEF Ends, Idle, TypeInv
<1>2. FirstContact'
  BY <1>1 DEF ClearInv, FirstContact
<1>3. CASE talk' = "crossed"
  BY <1>2, <1>3 DEF ClearInv
<1>4. CASE talk' # "crossed"
  <2>1. \A v \in Tasks \ {u} : task[v].step = "idle"
    BY <1>4 DEF ClearInv, Alone, Busy
  <2>2. \A v \in Tasks : task'[v].step = "idle"
    BY <1>1, <2>1
  <2>3. ASSUME talk' = "clear" PROVE Expects' = prompt' /\ (shown' # Nothing => row'.lang = shown')
    <3>1. \A v \in Tasks : ~Changed(v) /\ ~ChangesLang(v)
      BY <2>1, <2>3 DEF Changed, ChangesLang
    <3>2. Expects' = Expects
      BY <2>3 DEF Expects, chat
    <3> QED
      BY <2>3, <3>1, <3>2 DEF ClearInv
  <2> QED
    BY <1>2, <2>2, <2>3, AtRest
<1> QED
  BY <1>3, <1>4

\* Arrivals.
LEMMA ArrivesClear ==
  ASSUME TypeInv, ClearInv, NEW u \in Tasks, NEW do, NEW of, Arrives(u, do, of),
         do = "receipt" => waits = "receipt", do = "answer" => waits = "reply"
  PROVE  ClearInv'
<1>1. /\ task'[u].step = "arrived" /\ task'[u].do = do
      /\ \A v \in Tasks \ {u} : task'[v] = task[v]
      /\ UNCHANGED <<row, waits, order, ticket, prompt, shown>>
  BY DEF Arrives, TypeInv, chat, seen
<1>2. task[u].step = "idle"
  BY DEF Arrives, Busy
<1>3. HasData' /\ FirstContact' /\ Expects' = Expects
  BY <1>1 DEF ClearInv, HasData, FirstContact, Expects
<1>4. CASE talk' = "crossed"
  BY <1>3, <1>4 DEF ClearInv
<1>5. CASE talk' # "crossed"
  <2>1. talk' = talk /\ \A v \in Tasks \ {u} : task[v].step = "idle"
    BY <1>5 DEF Arrives, Overlap, Busy
  <2>2. \A v \in Tasks \ {u} : task'[v].step = "idle"
    BY <1>1, <2>1
  <2>3. Alone'
    BY <2>2 DEF Alone, Busy
  <2>4. \A v \in Tasks : Local(v)'
    BY <1>1, <2>2 DEF Local, Changed
  <2>5. \A v \in Tasks : ~Changed(v) /\ ~ChangesLang(v)
    BY <1>2, <2>1 DEF Changed, ChangesLang
  <2> QED
    BY <1>1, <1>3, <2>1, <2>3, <2>4, <2>5 DEF ClearInv
<1> QED
  BY <1>4, <1>5

\* UserMiddleware.
LEMMA MiddlewareClear ==
  ASSUME TypeInv, ClearInv, NEW u \in Tasks, Middleware(u)
  PROVE  ClearInv'
<1>0. Busy(u) /\ chat' = chat /\ prompt' = prompt /\ shown' = shown
  BY DEF Middleware, Read, Miss, Insert, Busy, seen
<1>1. HasData' /\ Expects' = Expects
  BY <1>0 DEF ClearInv, HasData, Expects, chat
<1>2. ~Changed(u) /\ ~ChangesLang(u) /\ task[u].step \in {"arrived", "insert"}
  BY DEF Middleware, Read, Miss, Insert, Changed, ChangesLang
<1>3. CASE EndsSilently(u) /\ row' = row
  BY <1>0, <1>1, <1>2, <1>3, TaskEnds DEF EndsSilently, Uncross
<1>4. ASSUME NEW t, task' = [task EXCEPT ![u] = t], talk' = talk, row'.lang = row.lang,
             t.step \in {"insert", "ready"}, t.do = task[u].do,
             t.step = "ready" => t.lang = row.lang,
             ~row'.known => row' = row /\ t.step = "insert"
      PROVE  ClearInv'
  <2>1. task'[u] = t
    BY <1>4 DEF TypeInv
  <2>2. talk # "crossed" => Local(u)'
    <3>1. talk # "crossed" => Local(u)
      BY DEF ClearInv
    <3> QED
      BY <1>0, <1>2, <1>4, <2>1, <3>1 DEF Local, Changed, chat
  <2> QED
    BY <1>0, <1>1, <1>2, <1>4, <2>2, GoesOn
<1>5. CASE Read(u) /\ ~row.blocked
  <2> DEFINE t == [task[u] EXCEPT !.step = "ready", !.lang = row.lang]
  <2>1. t.step = "ready" /\ t.do = task[u].do /\ t.lang = row.lang
    BY DEF TypeInv, TaskOK
  <2>2. task' = [task EXCEPT ![u] = t] /\ talk' = talk /\ row' = row /\ row.known
    BY <1>5 DEF Read, Upsert
  <2> HIDE DEF t
  <2> QED
    BY <1>4, <2>1, <2>2
<1>6. CASE Miss(u)
  <2> DEFINE t == [task[u] EXCEPT !.step = "insert"]
  <2>1. t.step = "insert" /\ t.do = task[u].do
    BY DEF TypeInv, TaskOK
  <2>2. task' = [task EXCEPT ![u] = t] /\ talk' = talk /\ row' = row
    BY <1>6 DEF Miss, Goes
  <2> HIDE DEF t
  <2> QED
    BY <1>4, <2>1, <2>2
<1>7. CASE Insert(u) /\ ~row.known
  <2> DEFINE t == [task[u] EXCEPT !.step = "ready", !.lang = TelegramLang]
  <2>1. t.step = "ready" /\ t.do = task[u].do /\ t.lang = TelegramLang
    BY DEF TypeInv, TaskOK
  <2>2. task' = [task EXCEPT ![u] = t] /\ talk' = talk
        /\ row' = [known |-> TRUE, blocked |-> FALSE, lang |-> TelegramLang]
    BY <1>7 DEF Insert
  <2>3. row.lang = TelegramLang
    BY <1>7 DEF ClearInv, FirstContact
  <2>4. row'.known = TRUE /\ row'.lang = TelegramLang
    BY <2>2
  <2> HIDE DEF t
  <2> QED
    BY <1>4, <2>1, <2>2, <2>3, <2>4
<1> QED
  BY <1>3, <1>5, <1>6, <1>7 DEF Middleware, Read, Insert, Upsert

\* The handlers.
LEMMA HandlerClear ==
  ASSUME TypeInv, ClearInv, NEW u \in Tasks, Handler(u)
  PROVE  ClearInv'
<1>0. task[u].step \in {"ready", "save", "taken", "show"} /\ Busy(u) /\ row.known
  BY DEF Handler, OpenMenu, OpenSupport, StartOrder, AskForReply, PickLanguage, SaveLanguage, Look,
         Handles, Take, Forget, Finish, Show, Busy, ClearInv, FirstContact
<1>1. talk # "crossed" => Local(u)
  BY DEF ClearInv
<1>2. HasData /\ TaskOK(task[u]) /\ RestOK
  BY DEF ClearInv, TypeInv
\* A handler that sets the state and will show it.
<1>3. ASSUME NEW t, task' = [task EXCEPT ![u] = t], talk' = talk, seen' = seen, row' = row,
             t.step \in {"save", "show"}, t.do = task[u].do, t.do # "look", t.lang = task[u].lang,
             ~ChangesLang(u), t.step = "save" => t.do = "lang",
             Expects' = Screen(u)', HasData'
      PROVE  ClearInv'
  <2>1. task'[u] = t
    BY <1>3 DEF TypeInv
  <2>2. talk # "crossed" => Local(u)'
    BY <1>0, <1>1, <1>3, <2>1 DEF Local
  <2>3. Changed(u)'
    BY <1>3, <2>1 DEF Changed
  <2> QED
    BY <1>0, <1>3, <2>2, <2>3, GoesOn DEF seen
<1>4. CASE OpenMenu(u) \/ Finish(u) \/ PickLanguage(u)
  <2> DEFINE t == [task[u] EXCEPT !.step = IF task[u].do = "lang" THEN "save" ELSE "show"]
  <2>1. /\ task' = [task EXCEPT ![u] = t]
        /\ task[u].do \in {"menu", "lang", "write", "receipt", "answer"}
        /\ Clear /\ talk' = talk /\ seen' = seen /\ row' = row /\ ~ChangesLang(u)
    BY <1>2, <1>4 DEF OpenMenu, Finish, PickLanguage, Handles, Goes, ChangesLang, TaskOK
  <2>2. t.step \in {"save", "show"} /\ t.do = task[u].do /\ t.lang = task[u].lang
        /\ (t.step = "save" => t.do = "lang")
    BY <1>2 DEF TaskOK
  <2> HIDE DEF t
  <2>3. task'[u] = t
    BY <2>1 DEF TypeInv
  <2>4. Expects' = Screen(u)' /\ HasData'
    BY <2>1, <2>2, <2>3 DEF Clear, Expects, Screen, Menu, Ask, HasData
  <2> QED
    BY <1>3, <2>1, <2>2, <2>4
<1>5. CASE OpenSupport(u) \/ AskForReply(u)
  <2> DEFINE t == [task[u] EXCEPT !.step = "show"]
  <2>1. /\ task' = [task EXCEPT ![u] = t]
        /\ talk' = talk /\ seen' = seen /\ row' = row /\ ~ChangesLang(u)
        /\ \/ task[u].do = "support" /\ waits' = "writing"
           \/ task[u].do = "reply" /\ waits' = "reply" /\ ticket' = task[u].of
    BY <1>5 DEF OpenSupport, AskForReply, Handles, Goes, ChangesLang
  <2>2. t.step = "show" /\ t.do = task[u].do /\ t.lang = task[u].lang /\ t.of = task[u].of
    BY <1>2 DEF TaskOK
  <2> HIDE DEF t
  <2>3. task'[u] = t
    BY <2>1 DEF TypeInv
  <2>4. task[u].do = "reply" => task[u].of # Nothing
    BY <1>0, <1>2, ChatAssumption DEF TaskOK
  <2>5. Expects' = Screen(u)' /\ HasData'
    BY <2>1, <2>2, <2>3, <2>4 DEF Expects, Screen, Ask, HasData
  <2> QED
    BY <1>3, <2>1, <2>2, <2>5
<1>6. CASE StartOrder(u)
  <2>1. PICK o \in Orders : waits' = "receipt" /\ order' = o
                            /\ task' = [task EXCEPT ![u].step = "show", ![u].of = o]
    BY <1>6, Zenon DEF StartOrder
  <2> DEFINE t == [task[u] EXCEPT !.step = "show", !.of = o]
  <2>2. /\ task' = [task EXCEPT ![u] = t] /\ task[u].do = "plan"
        /\ talk' = talk /\ seen' = seen /\ row' = row /\ ~ChangesLang(u)
    <3>1. task[u].do = "plan" /\ task[u].step = "ready" /\ talk' = talk /\ seen' = seen /\ row' = row
      BY <1>6 DEF StartOrder, Handles
    <3> QED
      BY <2>1, <3>1 DEF ChangesLang
  <2>3. t.step = "show" /\ t.do = task[u].do /\ t.lang = task[u].lang /\ t.of = o
    BY <1>2 DEF TaskOK
  <2> HIDE DEF t
  <2>4. task'[u] = t
    BY <2>2 DEF TypeInv
  <2>5. Expects' = Screen(u)' /\ HasData'
    BY <2>1, <2>2, <2>3, <2>4, ChatAssumption DEF Expects, Screen, Ask, HasData
  <2> QED
    BY <1>3, <2>2, <2>3, <2>5
<1>7. CASE SaveLanguage(u)
  <2> DEFINE t == [task[u] EXCEPT !.step = "show", !.lang = task[u].of]
  <2>1. /\ task' = [task EXCEPT ![u] = t] /\ task[u].step = "save" /\ task[u].do = "lang"
        /\ row' = (IF task[u].lang = task[u].of THEN row ELSE [row EXCEPT !.lang = task[u].of])
        /\ talk' = talk /\ seen' = seen /\ chat' = chat
    BY <1>2, <1>7 DEF SaveLanguage, TaskOK
  <2>2. t.step = "show" /\ t.do = "lang" /\ t.lang = task[u].of
    BY <1>2, <2>1 DEF TaskOK
  <2> HIDE DEF t
  <2>3. task'[u] = t
    BY <2>1 DEF TypeInv
  <2>4. row'.known /\ (task[u].lang = row.lang => row'.lang = task[u].of)
    BY <1>0, <1>2, <2>1 DEF RestOK
  <2>5. talk # "crossed" => Local(u)'
    <3> SUFFICES ASSUME talk # "crossed" PROVE Local(u)'
      OBVIOUS
    <3>1. Expects = Menu /\ task[u].lang = row.lang
      BY <1>1, <2>1 DEF Local, Changed, Screen
    <3>2. Expects' = Menu /\ Screen(u)' = Menu
      BY <2>1, <2>2, <2>3, <3>1 DEF Expects, Screen, Menu, Ask, chat
    <3> QED
      BY <2>2, <2>3, <2>4, <3>1, <3>2 DEF Local
  <2>6. Changed(u)' /\ ChangesLang(u)' /\ HasData'
    BY <1>2, <2>1, <2>2, <2>3 DEF Changed, ChangesLang, HasData, chat
  <2> QED
    BY <1>0, <2>1, <2>4, <2>5, <2>6, GoesOn DEF seen
<1>8. CASE Look(u) \/ Take(u)
  <2>1. PICK t : /\ task' = [task EXCEPT ![u] = t] /\ t.do = task[u].do /\ t.lang = task[u].lang
                 /\ \/ t.step = "show" /\ t.do = "look"
                    \/ t.step = "taken" /\ t.of = Target(t.do) /\ t.do # "lang"
    <3>1. CASE Look(u)
      <4>1. task' = [task EXCEPT ![u] = [task[u] EXCEPT !.step = "show"]] /\ task[u].do = "look"
        BY <3>1 DEF Look, Handles, Goes
      <4>2. LET t == [task[u] EXCEPT !.step = "show"]
            IN  t.do = task[u].do /\ t.lang = task[u].lang /\ t.step = "show"
        BY <1>2 DEF TaskOK
      <4> QED
        BY <4>1, <4>2
    <3>2. CASE Take(u)
      <4> DEFINE x == Target(task[u].do)
      <4>1. /\ task' = [task EXCEPT ![u] = [task[u] EXCEPT !.step = "taken", !.of = x]]
            /\ task[u].do # "lang"
        BY <3>2 DEF Take
      <4>2. LET t == [task[u] EXCEPT !.step = "taken", !.of = x]
            IN  t.do = task[u].do /\ t.lang = task[u].lang /\ t.step = "taken" /\ t.of = x
        <5> HIDE DEF x
        <5> QED
          BY <1>2 DEF TaskOK
      <4> QED
        BY <4>1, <4>2
    <3> QED
      BY <1>8, <3>1, <3>2
  <2>2. chat' = chat /\ seen' = seen /\ talk' = talk /\ row' = row /\ task[u].step = "ready"
    BY <1>8 DEF Look, Take, Handles
  <2>3. task'[u] = t
    BY <2>1 DEF TypeInv
  <2>4. talk # "crossed" => Local(u)'
    <3>1. Target(t.do)' = Target(t.do)
      BY <2>2 DEF Target, chat
    <3>2. t.step = "show" => ~Changed(u)'
      BY <2>1, <2>3 DEF Changed
    <3>3. t.step = "taken" => ~Changed(u)'
      BY <2>3 DEF Changed
    <3> QED
      BY <1>1, <2>1, <2>2, <2>3, <3>1, <3>2, <3>3 DEF Local, chat
  <2>5. ~Changed(u) /\ ~ChangesLang(u) /\ Expects' = Expects /\ HasData'
    BY <1>2, <2>2 DEF Changed, ChangesLang, Expects, HasData, chat
  <2> QED
    BY <1>0, <2>1, <2>2, <2>4, <2>5, GoesOn DEF seen
<1>9. CASE Forget(u)
  <2>1. talk = "crossed"
    BY <1>1, <1>2, <1>9 DEF Forget, Local, Target, HasData
  <2>2. HasData'
    BY <1>9 DEF Forget, Clear, HasData
  <2> QED
    BY <1>0, <1>9, <2>1, <2>2, TaskEnds DEF Forget, EndsSilently, Uncross, seen
<1>10. CASE Show(u)
  <2>1. /\ task'[u].step = "idle" /\ \A v \in Tasks \ {u} : task'[v] = task[v]
        /\ chat' = chat /\ row' = row /\ prompt' = Screen(u) /\ task[u].step = "show"
    BY <1>10 DEF Show, Ends, Idle, TypeInv
  <2>2. HasData' /\ FirstContact' /\ Expects' = Expects
    BY <1>0, <1>2, <2>1 DEF HasData, FirstContact, Expects, chat
  <2>3. CASE talk' = "crossed"
    BY <2>2, <2>3 DEF ClearInv
  <2>4. CASE talk' # "crossed"
    <3>1. \A v \in Tasks \ {u} : task[v].step = "idle"
      BY <1>0, <1>10, <2>4 DEF Show, Uncross, ClearInv, Alone, Busy
    <3>2. \A v \in Tasks : task'[v].step = "idle"
      BY <2>1, <3>1
    <3>3. talk' = "clear" => talk # "crossed"
      BY <1>10 DEF Show, Uncross
    <3>4. CASE task[u].do = "look"
      <4>1. talk' = "clear" => talk = "clear"
        BY <1>10, <3>4 DEF Show, Uncross
      <4>2. prompt' = prompt /\ shown' = shown
        BY <1>10, <3>4 DEF Show, Screen
      <4>3. \A v \in Tasks : ~Changed(v) /\ ~ChangesLang(v)
        BY <3>1, <3>4 DEF Changed, ChangesLang
      <4> QED
        BY <2>1, <2>2, <3>2, <4>1, <4>2, <4>3, AtRest DEF ClearInv
    <3>5. CASE task[u].do # "look"
      <4>1. talk' = "clear" => Expects' = prompt'
        BY <1>1, <2>1, <2>2, <3>3, <3>5 DEF Local, Changed
      <4>2. ASSUME talk' = "clear", shown' # Nothing PROVE row'.lang = shown'
        <5>1. CASE task[u].do \in {"reply", "answer"}
          <6>1. talk = "clear" /\ shown' = shown
            BY <1>10, <4>2, <5>1 DEF Show
          <6>2. \A v \in Tasks : ~ChangesLang(v)
            BY <3>1, <5>1 DEF ChangesLang
          <6> QED
            BY <2>1, <4>2, <6>1, <6>2 DEF ClearInv
        <5>2. CASE task[u].do \notin {"reply", "answer"}
          BY <1>1, <1>10, <2>1, <3>3, <3>5, <4>2, <5>2 DEF Show, Local
        <5> QED
          BY <5>1, <5>2
      <4> QED
        BY <2>2, <3>2, <4>1, <4>2, AtRest
    <3> QED
      BY <3>4, <3>5
  <2> QED
    BY <2>3, <2>4
<1> QED
  BY <1>4, <1>5, <1>6, <1>7, <1>8, <1>9, <1>10 DEF Handler

\* Every step keeps it.
LEMMA NextClearInv == TypeInv /\ BlockInv /\ ClearInv /\ [Next]_vars => ClearInv'
<1> SUFFICES ASSUME TypeInv, BlockInv, ClearInv, [Next]_vars PROVE ClearInv'
  OBVIOUS
<1>1. ASSUME NEW u \in Tasks, NEW p \in Presses, Press(u, p) PROVE ClearInv'
  <2>1. p[1] \notin {"receipt", "answer"}
    BY DEF Presses
  <2> QED
    BY <1>1, <2>1, ArrivesClear DEF Press
<1>2. ASSUME NEW u \in Tasks, NEW m \in Messages, Write(u, m) PROVE ClearInv'
  <2>1. (HandlerOf(m) = "receipt" => waits = "receipt") /\ (HandlerOf(m) = "answer" => waits = "reply")
    BY DEF HandlerOf
  <2> QED
    BY <1>2, <2>1, ArrivesClear DEF Write
<1>3. ASSUME NEW u \in Tasks, Middleware(u) PROVE ClearInv'
  BY <1>3, MiddlewareClear
<1>4. ASSUME NEW u \in Tasks, Handler(u) PROVE ClearInv'
  BY <1>4, HandlerClear
<1>5. ASSUME NEW u \in Tasks, Fail(u) PROVE ClearInv'
  <2>1. /\ Busy(u) /\ Ends(u) /\ row' = row /\ shown' = shown /\ chat' = chat /\ prompt' = prompt
        /\ talk' = IF talk # "crossed" /\ task[u].step \in {"save", "show"} THEN "unclear" ELSE Uncross(u)
    BY <1>5 DEF Fail, seen
  <2>2. talk' # "crossed" => talk # "crossed" \/ \A v \in Tasks \ {u} : ~Busy(v)
    BY <2>1 DEF Uncross
  <2>3. talk' = "clear" => talk = "clear" /\ ~Changed(u) /\ ~ChangesLang(u)
    BY <2>1 DEF Uncross, Changed, ChangesLang
  <2>4. HasData'
    BY <2>1 DEF ClearInv, HasData, chat
  <2> QED
    BY <2>1, <2>2, <2>3, <2>4, TaskEnds
<1>6. CASE Restart
  <2>1. /\ \A v \in Tasks : task'[v].step = "idle"
        /\ Expects' = Menu /\ HasData' /\ FirstContact'
        /\ row' = row /\ shown' = shown /\ prompt' = prompt
    BY <1>6 DEF Restart, Clear, Idle, Expects, Menu, Ask, HasData, FirstContact, ClearInv, seen
  <2>2. ASSUME talk' = "clear" PROVE talk = "clear" /\ prompt = Menu /\ \A v \in Tasks : ~ChangesLang(v)
    BY <1>6, <2>2 DEF Restart, Busy, ChangesLang
  <2> QED
    BY <2>1, <2>2 DEF ClearInv, Alone, Busy, Local, Changed, ChangesLang
<1>7. ASSUME NEW b \in Bosses, (\E blocked \in BOOLEAN : BeginBlock(b, blocked)) \/ Block(b)
      PROVE  ClearInv'
  <2>1. row.known
    BY <1>7 DEF BeginBlock, Block, BlockInv
  <2>2. row \in [known : BOOLEAN, blocked : BOOLEAN, lang : Langs]
    BY DEF TypeInv, RestOK
  <2>3. row'.known = row.known /\ row'.lang = row.lang
    BY <1>7, <2>2 DEF BeginBlock, Block
  <2>4. UNCHANGED <<chat, task, seen, talk>>
    BY <1>7 DEF BeginBlock, Block
  <2> QED
    BY <2>1, <2>3, <2>4 DEF chat, seen, ClearInv, Alone, Busy, Local, Changed, ChangesLang, HasData,
                            FirstContact, Expects, Screen, Target
<1>8. CASE UNCHANGED vars
  BY <1>8 DEF vars, chat, seen, ClearInv, Alone, Busy, Local, Changed, ChangesLang, HasData,
              FirstContact, Expects, Screen, Target
<1> QED
  BY <1>1, <1>2, <1>3, <1>4, <1>5, <1>6, <1>7, <1>8 DEF Next

-----------------------------------------------------------------------------
(* The theorems. *)

Inv == TypeInv /\ BlockInv /\ ClearInv

\* All together are inductive.
LEMMA Invariant == Spec => []Inv
<1>1. Init => Inv
  BY InitTypeInv, InitBlockInv, InitClearInv DEF Inv
<1>2. Inv /\ [Next]_vars => Inv'
  BY NextTypeInv, NextBlockInv, NextClearInv DEF Inv
<1> QED
  BY <1>1, <1>2, PTL DEF Spec

\* The state of the chat has its type: nothing is taken for an order or a ticket
\* that the chat's data does not name.
THEOREM TypesHold == Spec => []TypeOK
<1>1. Inv => TypeOK
  BY TypesAreOK DEF Inv
<1> QED
  BY <1>1, Invariant, PTL

\* However many updates, failures and restarts went before, after one screen that
\* nothing interfered with the bot waits for what it asks for.
THEOREM ClearTalk == Spec => []WaitsForWhatItAsked
<1>1. Inv => WaitsForWhatItAsked
  BY DEF Inv, ClearInv, WaitsForWhatItAsked, Busy, Changed
<1> QED
  BY <1>1, Invariant, PTL

\* A receipt or an answer goes to the order or the ticket of the screen before it.
THEOREM AnswersAreTheirs == Spec => []AnswersGoWhereAsked
<1>1. Inv => AnswersGoWhereAsked
  <2> SUFFICES ASSUME Inv, NEW u \in Tasks, talk = "clear", task[u].step = "taken",
                      task[u].do # "write"
               PROVE  task[u].of = prompt.of
    BY DEF AnswersGoWhereAsked
  <2>1. \A v \in Tasks : ~Changed(v)
    BY DEF Inv, ClearInv, Alone, Busy, Changed
  <2>2. Expects = prompt /\ Local(u) /\ ~Changed(u)
    BY <2>1 DEF Inv, ClearInv
  <2>3. task[u].do \in {"receipt", "answer"}
    BY DEF Inv, TypeInv, TaskOK
  <2>4. task[u].of = Target(task[u].do)
        /\ (task[u].do = "receipt" => waits = "receipt") /\ (task[u].do = "answer" => waits = "reply")
    BY <2>2 DEF Local
  <2>5. task[u].of = Expects.of
    BY <2>3, <2>4 DEF Target, Expects, Ask
  <2> QED
    BY <2>2, <2>5
<1> QED
  BY <1>1, Invariant, PTL

\* The language of the last clear screen is the one that is kept.
THEOREM ChoiceIsKept == Spec => []LanguageKept
<1>1. Inv => LanguageKept
  BY DEF Inv, ClearInv, LanguageKept, Busy, ChangesLang
<1> QED
  BY <1>1, Invariant, PTL

\* With one admin at a time who blocks, no update of a blocked person is handled.
THEOREM BlocksHold == Spec => BlockHolds
<1>1. Inv /\ [Next]_vars =>
        [OneBoss /\ told /\ (\A b \in Bosses : boss[b] = Nothing)
           => \A u \in Tasks : task[u].step \in {"arrived", "insert"} => task'[u].step # "ready"]_vars
  <2> SUFFICES ASSUME Inv, Next, OneBoss, told,
                      NEW u \in Tasks, task[u].step \in {"arrived", "insert"}, task'[u].step = "ready"
               PROVE  FALSE
    OBVIOUS
  <2>1. row.known /\ row.blocked /\ DOMAIN task = Tasks
    BY DEF Inv, BlockInv, TypeInv
  <2>2. ASSUME NEW v \in Tasks, v # u,
               \/ \E p \in Presses : Press(v, p)
               \/ \E m \in Messages : Write(v, m)
               \/ Middleware(v) \/ Handler(v) \/ Fail(v)
        PROVE  task'[u] = task[u]
    BY <2>1, <2>2 DEF Press, Write, Arrives, Middleware, Read, Miss, Insert, Handler, OpenMenu, OpenSupport,
                StartOrder, AskForReply, PickLanguage, SaveLanguage, Look, Take, Forget, Finish, Show,
                Fail, Goes, Ends, EndsSilently
  <2>3. Middleware(u) => task'[u] = Idle
    BY <2>1 DEF Middleware, Read, Miss, Insert, EndsSilently, Ends
  <2>4. ~Handler(u)
    BY DEF Handler, OpenMenu, OpenSupport, StartOrder, AskForReply, PickLanguage, SaveLanguage, Look,
           Handles, Take, Forget, Finish, Show
  <2>5. ~(\E p \in Presses : Press(u, p)) /\ ~(\E m \in Messages : Write(u, m))
    BY DEF Press, Write, Arrives, Busy
  <2>6. Fail(u) \/ Restart => task'[u] = Idle
    BY <2>1 DEF Fail, Ends, Restart
  <2>7. (\E b \in Bosses : (\E blocked \in BOOLEAN : BeginBlock(b, blocked)) \/ Block(b)) => task' = task
    BY DEF BeginBlock, Block
  <2>8. Idle.step = "idle"
    BY DEF Idle
  <2> QED
    BY <2>2, <2>3, <2>4, <2>5, <2>6, <2>7, <2>8 DEF Next
<1> QED
  BY <1>1, Invariant, PTL DEF Spec, BlockHolds
=============================================================================
