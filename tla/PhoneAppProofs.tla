--------------------------- MODULE PhoneAppProofs ----------------------------
(***************************************************************************)
(* What holds of the phone apps for any rooms, page size and number of     *)
(* messages and logins: the pane holds the open room's messages only, no   *)
(* room falls silent, and on Android a good session is not given up.  The  *)
(* argument is one on what is out: a page that is back is of the room it   *)
(* was asked for, and on Android whatever is out carries the token that is *)
(* held, or none is held.                                                  *)
(***************************************************************************)
EXTENDS PhoneApp, MessageLogProofs

\* What each slot may call.
SlotCalls(s) ==
  CASE s = "ask"   -> {"login", "listing", "send", "create"}
    [] s = "watch" -> {"messages"}
    [] s = "list"  -> {"rooms"}
    [] OTHER       -> {"messages", "rooms"}

AnyRoom  == Rooms \cup {None}
AnyToken == Nat \cup {None}
Steps    == {"due", "out", "back"}
Pages    == SUBSET Nat
Lists    == {<< >>} \cup [Rooms -> Nat]

TasksOf(s) ==
  [call : SlotCalls(s), room : AnyRoom, from : Nat, step : Steps, token : AnyToken,
   seqs : Pages, list : Lists]

\* A task as the slot s may run it: it asks from a seq there is on, it posts to
\* a room, and what is back is what the server has of that room, or of all.
Good(s, t) ==
  /\ t \in TasksOf(s)
  /\ t.from \in 0..Len(log)
  /\ t.call = "send" => t.room \in Rooms
  /\ t.step = "back" /\ t.call = "messages" => t.seqs \subseteq Seqs(t.room)
  /\ t.step = "back" /\ t.call \in {"rooms", "listing"} => t.list \in [Rooms -> 0..Len(log)]

TasksOK(tasks) ==
  /\ tasks = [s \in Slots |-> tasks[s]]
  /\ \A s \in Slots : tasks[s] # None => Good(s, tasks[s])

State ==
  /\ TypeOK /\ TasksOK(task)
  /\ system \in {"android", "ios"} /\ log \in Seq(Rooms)
  /\ screen \in {"signIn", "chat"}

\* On Android nothing of a feed outlives the screen it is of, a login is made
\* from no other screen than the sign-in one, and what is out carries the token
\* that is held.
CarriesTheToken(s) ==
  task[s].step = "out" /\ task[s].token # None => token \in {None, task[s].token}

Session ==
  system = "android" =>
    /\ ~Running("late")
    /\ screen = "signIn" => ~Running("watch") /\ ~Running("list")
    /\ Running("ask") /\ task["ask"].call \in {"login", "listing"} => screen = "signIn"
    /\ \A s \in Slots : Running(s) => CarriesTheToken(s)

\* On the chat screen the view model's own account of what was read is what the
\* reader was shown, up to everything that is in the pane.
SeenIsShown ==
  screen = "chat" => seen = shown /\ \A n \in held : n <= shown[open]

Inv == State /\ Session /\ PaneIsOfOpenRoom /\ UnreadIsTrue /\ SeenIsShown

-----------------------------------------------------------------------------
(* The operators. *)

\* A set of seqs that is not empty has a highest.
LEMMA HighestIsOne ==
  ASSUME NEW n \in Nat, NEW seqs \in SUBSET (0..n), seqs # {}
  PROVE  Highest(seqs) \in seqs /\ \A m \in seqs : m <= Highest(seqs)
<1> DEFINE Above == {k \in Nat : \A m \in seqs : m <= k}
<1>1. Above \in SUBSET Nat /\ n \in Above
  OBVIOUS
<1>2. PICK k \in Above : \A j \in Above : k <= j
  BY <1>1, SmallestNat, Zenon
<1>3. k \in seqs
  <2> SUFFICES ASSUME k \notin seqs PROVE FALSE
    OBVIOUS
  <2>1. \A m \in seqs : m \in Nat /\ m <= k /\ m # k
    <3>1. k \in Nat /\ \A m \in seqs : m <= k
      BY <1>2
    <3>2. \A m \in seqs : m \in 0..n
      OBVIOUS
    <3> QED
      BY <3>1, <3>2
  <2>2. k # 0
    <3>1. PICK m \in seqs : TRUE
      OBVIOUS
    <3> QED
      BY <2>1, <3>1
  <2>3. k - 1 \in Above
    BY <1>2, <2>1, <2>2
  <2> QED
    BY <1>2, <2>3
<1>4. \E k_1 \in seqs : \A m \in seqs : m <= k_1
  BY <1>2, <1>3
<1> QED
  BY <1>4 DEF Highest

LEMMA HighestInRange ==
  ASSUME NEW n \in Nat, NEW seqs \in SUBSET (0..n)
  PROVE  Highest(seqs) \in 0..n
<1>1. CASE seqs = {}
  BY <1>1 DEF Highest
<1>2. CASE seqs # {}
  BY <1>2, HighestIsOne
<1> QED
  BY <1>1, <1>2

\* The highest of a set is that of a larger one, if what is added is no higher.
LEMMA HighestStays ==
  ASSUME NEW n \in Nat, NEW seqs \in SUBSET (0..n), seqs # {}, NEW more \in SUBSET (0..n),
         \A m \in more : \E k \in seqs : m <= k
  PROVE  Highest(seqs \cup more) = Highest(seqs)
<1>1. seqs \cup more \in SUBSET (0..n) /\ seqs \cup more # {}
  OBVIOUS
<1> DEFINE high == Highest(seqs)
           all  == Highest(seqs \cup more)
<1>2. high \in seqs /\ \A m \in seqs : m <= high
  BY HighestIsOne
<1>3. all \in seqs \cup more /\ \A m \in seqs \cup more : m <= all
  BY <1>1, HighestIsOne
<1> HIDE DEF high, all
<1>4. PICK k \in seqs : all <= k
  <2>1. CASE all \in seqs
    BY <2>1
  <2>2. CASE all \in more
    BY <2>2
  <2> QED
    BY <1>3, <2>1, <2>2
<1>5. k \in Nat /\ all \in Nat /\ high \in Nat
  BY <1>1, <1>2, <1>3
<1>6. all <= high /\ high <= all
  BY <1>2, <1>3, <1>4, <1>5
<1> QED
  BY <1>5, <1>6 DEF high, all

LEMMA LatestInRange ==
  ASSUME log \in Seq(Rooms)
  PROVE  Latest \in [Rooms -> 0..Len(log)]
<1>1. Len(log) \in Nat
  OBVIOUS
<1>2. ASSUME NEW room \in Rooms PROVE Highest(Seqs(room)) \in 0..Len(log)
  <2>1. Seqs(room) \in SUBSET (0..Len(log))
    BY <1>1 DEF Seqs
  <2> QED
    BY <1>1, <2>1, HighestInRange
<1> QED
  BY <1>2 DEF Latest

LEMMA PageOfTheRoom ==
  ASSUME NEW room, NEW from
  PROVE  PageOf(room, from) \subseteq Seqs(room)
BY DEF PageOf

\* Rooms are drawn as unread only if they are there.
LEMMA UnreadAreRooms ==
  ASSUME NEW list, NEW room, NEW read
  PROVE  UnreadOf(list, room, read) \subseteq Rooms
BY DEF UnreadOf

LEMMA SlotsAre == Slots = {"ask", "watch", "list", "late"}
BY DEF Slots

LEMMA FeedsFacts ==
  ASSUME TasksOK(task), NEW watch, NEW list, NEW late
  PROVE  /\ Feeds(watch, list, late) = [s \in Slots |-> Feeds(watch, list, late)[s]]
         /\ Feeds(watch, list, late)["ask"] = task["ask"]
         /\ Feeds(watch, list, late)["watch"] = watch
         /\ Feeds(watch, list, late)["list"] = list
         /\ Feeds(watch, list, late)["late"] = late
BY DEF TasksOK, Feeds, Slots

\* Feeds that are as they may be leave the tasks as they may be.
LEMMA FeedsAreGood ==
  ASSUME TasksOK(task), NEW watch, NEW list, NEW late,
         watch # None => Good("watch", watch),
         list # None => Good("list", list),
         late # None => Good("late", late)
  PROVE  TasksOK(Feeds(watch, list, late))
<1>1. /\ Feeds(watch, list, late) = [s \in Slots |-> Feeds(watch, list, late)[s]]
      /\ Feeds(watch, list, late)["ask"] = task["ask"]
      /\ Feeds(watch, list, late)["watch"] = watch
      /\ Feeds(watch, list, late)["list"] = list
      /\ Feeds(watch, list, late)["late"] = late
  BY FeedsFacts
<1>2. task["ask"] # None => Good("ask", task["ask"])
  BY SlotsAre DEF TasksOK
<1> DEFINE feeds == Feeds(watch, list, late)
<1> HIDE DEF feeds
<1>3. ASSUME NEW s \in Slots, feeds[s] # None PROVE Good(s, feeds[s])
  BY <1>1, <1>2, <1>3, SlotsAre DEF feeds
<1> QED
  BY <1>1, <1>3 DEF TasksOK, feeds

LEMMA DueIsGood ==
  ASSUME NEW s \in {"watch", "late"}, NEW room \in Rooms \cup {None}, log \in Seq(Rooms)
  PROVE  /\ Good(s, Due("messages", room)) /\ Due("messages", room).step = "due"
         /\ Due("messages", room).token = None
BY DEF Good, Due, TasksOf, SlotCalls, AnyRoom, AnyToken, Steps, Pages, Lists

LEMMA SentIsGood ==
  ASSUME NEW s \in Slots, NEW call \in SlotCalls(s), NEW room \in Rooms \cup {None},
         call = "send" => room \in Rooms, log \in Seq(Rooms), token \in Nat \cup {None}
  PROVE  /\ Good(s, Sent(call, room)) /\ Sent(call, room).step = "out"
         /\ Sent(call, room).token \in {None, token} /\ Sent(call, room).call = call
<1> DEFINE sent == IF call = "login" THEN None ELSE token
<1>1. Sent(call, room) =
        [call |-> call, room |-> room, from |-> 0, step |-> "out", token |-> sent,
         seqs |-> {}, list |-> << >>]
  <2> DEFINE d == [call |-> call, room |-> room, from |-> 0, step |-> "due", token |-> None,
                   seqs |-> {}, list |-> << >>]
  <2>1. Sent(call, room) = [d EXCEPT !.step = "out", !.token = sent]
    BY DEF Sent, Due
  <2> QED
    BY <2>1
<1>5. sent \in {None, token}
  OBVIOUS
<1> HIDE DEF sent
<1>2. 0 \in 0..Len(log) /\ {} \in Pages /\ << >> \in Lists
  BY DEF Pages, Lists
<1> DEFINE t == Sent(call, room)
<1> HIDE DEF t
<1>3. /\ t.call = call /\ t.room = room /\ t.from = 0 /\ t.step = "out" /\ t.token = sent
      /\ t.seqs = {} /\ t.list = << >>
  BY <1>1 DEF t
<1>4. t \in TasksOf(s)
  BY <1>1, <1>2, <1>5 DEF t, TasksOf, AnyRoom, AnyToken, Steps
<1> QED
  BY <1>2, <1>3, <1>4, <1>5 DEF Good, t

\* What is left of a feed that is cancelled.
LEMMA LeftIsGood ==
  ASSUME TasksOK(task), NEW feeds \in SUBSET {"watch", "list"}, NEW late \in Left(feeds)
  PROVE  /\ late # None => Good("late", late)
         /\ system = "android" => late = None
<1>1. late = None \/ late = task["late"] \/ late = task["watch"] \/ late = task["list"]
  BY DEF Left, Leavings
<1>2. \A s \in {"watch", "list", "late"} : task[s] # None => Good(s, task[s])
  BY SlotsAre DEF TasksOK
<1>3. \A s \in {"watch", "list", "late"} : \A t : Good(s, t) => Good("late", t)
  BY DEF Good, TasksOf, SlotCalls, AnyRoom, AnyToken, Steps, Pages, Lists
<1>4. late # None => Good("late", late)
  BY <1>1, <1>2, <1>3
<1> QED
  BY <1>4 DEF Left

\* One slot is set, the others keep what they run.
LEMMA SlotIsSet ==
  ASSUME TasksOK(task), NEW s \in Slots, NEW t, t # None => Good(s, t)
  PROVE  /\ TasksOK([task EXCEPT ![s] = t])
         /\ [task EXCEPT ![s] = t][s] = t
         /\ \A r \in Slots \ {s} : [task EXCEPT ![s] = t][r] = task[r]
<1> DEFINE tasks == [task EXCEPT ![s] = t]
<1>1. /\ tasks = [r \in Slots |-> tasks[r]] /\ tasks[s] = t
      /\ \A r \in Slots \ {s} : tasks[r] = task[r]
  BY DEF TasksOK
<1> HIDE DEF tasks
<1>2. ASSUME NEW r \in Slots, tasks[r] # None PROVE Good(r, tasks[r])
  BY <1>1, <1>2 DEF TasksOK
<1> QED
  BY <1>1, <1>2 DEF TasksOK, tasks

\* A slot whose task is over, as createRoom's and logIn's is when they end.
LEMMA TasksWithout ==
  ASSUME NEW tasks, TasksOK(tasks), NEW s \in Slots
  PROVE  /\ TasksOK([tasks EXCEPT ![s] = None])
         /\ [tasks EXCEPT ![s] = None][s] = None
         /\ \A r \in Slots \ {s} : [tasks EXCEPT ![s] = None][r] = tasks[r]
<1> DEFINE without == [tasks EXCEPT ![s] = None]
<1>1. /\ without = [r \in Slots |-> without[r]] /\ without[s] = None
      /\ \A r \in Slots \ {s} : without[r] = tasks[r]
  BY DEF TasksOK
<1> HIDE DEF without
<1>2. ASSUME NEW r \in Slots, without[r] # None PROVE Good(r, without[r])
  BY <1>1, <1>2 DEF TasksOK
<1> QED
  BY <1>1, <1>2 DEF TasksOK, without

\* Stopping and starting the feeds leaves the reader's call alone.  On Android
\* nothing is left of a feed that is stopped, and what is started is kept, due,
\* or out with the token that is held.
LEMMA StoppedTasks ==
  ASSUME TasksOK(task), NEW tasks \in Stopped
  PROVE  /\ TasksOK(tasks) /\ tasks["ask"] = task["ask"]
         /\ tasks["watch"] = None /\ tasks["list"] = None
         /\ system = "android" => tasks["late"] = None
<1>1. PICK late \in Left({"watch", "list"}) : tasks = Feeds(None, None, late)
  BY DEF Stopped
<1>2. (late # None => Good("late", late)) /\ (system = "android" => late = None)
  BY <1>1, LeftIsGood
<1> QED
  BY <1>1, <1>2, FeedsAreGood, FeedsFacts

LEMMA StartedTasks ==
  ASSUME TasksOK(task), log \in Seq(Rooms), token \in Nat \cup {None},
         NEW room \in Rooms \cup {None}, NEW tasks \in Started(room)
  PROVE  /\ TasksOK(tasks) /\ tasks["ask"] = task["ask"]
         /\ system = "android" => tasks["late"] = None
         /\ tasks["watch"] \in {task["watch"], Due("messages", room)}
         /\ tasks["list"] \in {task["list"], Sent("rooms", None)}
<1> DEFINE kept(s, due) == IF system = "android" /\ Running(s) THEN task[s] ELSE due
           watch == kept("watch", Due("messages", room))
           list  == kept("list", Sent("rooms", None))
<1>1. PICK late \in Left({"watch", "list"}) : tasks = Feeds(watch, list, late)
  BY DEF Started
<1>2. (late # None => Good("late", late)) /\ (system = "android" => late = None)
  BY <1>1, LeftIsGood
<1>3. Good("watch", Due("messages", room)) /\ Good("list", Sent("rooms", None))
  <2>1. "rooms" \in SlotCalls("list") /\ "list" \in Slots
    BY DEF SlotCalls, Slots
  <2> QED
    BY <2>1, DueIsGood, SentIsGood
<1>4. /\ watch \in {task["watch"], Due("messages", room)}
      /\ list \in {task["list"], Sent("rooms", None)}
  OBVIOUS
<1>5. /\ watch # None => Good("watch", watch)
      /\ list # None => Good("list", list)
  BY <1>3, <1>4, SlotsAre DEF TasksOK
<1> HIDE DEF watch, list
<1> QED
  BY <1>1, <1>2, <1>4, <1>5, FeedsAreGood, FeedsFacts

LEMMA WatchedTasks ==
  ASSUME TasksOK(task), log \in Seq(Rooms), NEW room \in Rooms, NEW tasks \in Watched(room)
  PROVE  /\ TasksOK(tasks) /\ tasks["ask"] = task["ask"]
         /\ system = "android" => tasks["late"] = None
         /\ tasks["watch"] = Due("messages", room) /\ tasks["list"] = task["list"]
<1>1. PICK late \in Left({"watch"}) : tasks = Feeds(Due("messages", room), task["list"], late)
  BY DEF Watched
<1>2. (late # None => Good("late", late)) /\ (system = "android" => late = None)
  BY <1>1, LeftIsGood
<1>3. Good("watch", Due("messages", room))
  BY DueIsGood
<1>4. task["list"] # None => Good("list", task["list"])
  BY SlotsAre DEF TasksOK
<1> QED
  BY <1>1, <1>2, <1>3, <1>4, FeedsAreGood, FeedsFacts

\* What a feed goes on to.
LEMMA GoesOn ==
  ASSUME TasksOK(task), log \in Seq(Rooms), token \in Nat \cup {None},
         NEW s \in Slots, Running(s), NEW from \in 0..Len(log), Again(s, from)
  PROVE  /\ TasksOK(task')
         /\ \A r \in Slots \ {s} : task'[r] = task[r]
         /\ s \notin {"watch", "list"} => task'[s] = None
         /\ s = "watch" => task'[s].step = "due"
         /\ s = "list" => task'[s].token \in {None, token}
<1> DEFINE t == CASE s = "watch" -> [Due("messages", task[s].room) EXCEPT !.from = from]
                  [] s = "list"  -> Sent("rooms", None)
                  [] OTHER       -> None
<1>1. task' = [task EXCEPT ![s] = t]
  BY DEF Again, TasksOK
<1>2. CASE s = "watch"
  <2>1. task[s].room \in Rooms \cup {None}
    BY <1>2 DEF Running, TasksOK, Good, TasksOf, AnyRoom
  <2>2. t = [call |-> "messages", room |-> task[s].room, from |-> from, step |-> "due",
             token |-> None, seqs |-> {}, list |-> << >>]
    BY <1>2 DEF Due
  <2>3. Good(s, t) /\ t.step = "due"
    <3>1. {} \in Pages /\ << >> \in Lists /\ from \in Nat
      BY DEF Pages, Lists
    <3>2. t.step = "due" /\ t.from = from /\ t.call = "messages"
      BY <2>2
    <3>3. t \in TasksOf(s)
      BY <1>2, <2>1, <2>2, <3>1 DEF TasksOf, SlotCalls, AnyRoom, AnyToken, Steps
    <3> HIDE DEF t
    <3> QED
      BY <3>2, <3>3 DEF Good
  <2> HIDE DEF t
  <2>4. /\ TasksOK([task EXCEPT ![s] = t]) /\ [task EXCEPT ![s] = t][s] = t
        /\ \A r \in Slots \ {s} : [task EXCEPT ![s] = t][r] = task[r]
    BY <2>3, SlotIsSet
  <2> QED
    BY <1>1, <1>2, <2>3, <2>4, Zenon
<1>3. CASE s = "list"
  <2>1. t = Sent("rooms", None)
    BY <1>3
  <2>2. "rooms" \in SlotCalls(s)
    BY <1>3 DEF SlotCalls
  <2> HIDE DEF t
  <2>3. Good(s, t) /\ t.token \in {None, token}
    BY <2>1, <2>2, SentIsGood
  <2>4. /\ TasksOK([task EXCEPT ![s] = t]) /\ [task EXCEPT ![s] = t][s] = t
        /\ \A r \in Slots \ {s} : [task EXCEPT ![s] = t][r] = task[r]
    BY <2>3, SlotIsSet
  <2> QED
    BY <1>1, <1>3, <2>3, <2>4, Zenon
<1>4. CASE s \notin {"watch", "list"}
  <2>1. t = None
    BY <1>4
  <2> HIDE DEF t
  <2>2. /\ TasksOK([task EXCEPT ![s] = None]) /\ [task EXCEPT ![s] = None][s] = None
        /\ \A r \in Slots \ {s} : [task EXCEPT ![s] = None][r] = task[r]
    BY TasksWithout
  <2> QED
    BY <1>1, <1>4, <2>1, <2>2, Zenon
<1> QED
  BY <1>2, <1>3, <1>4

-----------------------------------------------------------------------------
(* Steps that leave the log and what is drawn alone. *)

LEMMA TasksStay ==
  ASSUME log' = log, TasksOK(task')
  PROVE  TasksOK(task)'
BY DEF TasksOK, Good, Seqs

LEMMA DrawnStays ==
  ASSUME Inv, system' = system, log' = log, UNCHANGED <<drawn, shown>>, TasksOK(task'),
         token' \in Nat \cup {None}, issued' \in 0..MaxTokens, dead' \subseteq 1..issued'
  PROVE  State' /\ PaneIsOfOpenRoom' /\ UnreadIsTrue' /\ SeenIsShown'
<1>1. /\ screen' = screen /\ rooms' = rooms /\ open' = open /\ held' = held
      /\ seen' = seen /\ unread' = unread /\ shown' = shown
  BY DEF drawn
<1>2. TasksOK(task)'
  BY TasksStay
<1>3. TypeOK'
  BY <1>1 DEF Inv, State, TypeOK
<1>4. State'
  BY <1>1, <1>2, <1>3 DEF Inv, State
<1>5. PaneIsOfOpenRoom'
  BY <1>1 DEF Inv, PaneIsOfOpenRoom
<1>6. UnreadIsTrue' /\ SeenIsShown'
  BY <1>1 DEF Inv, UnreadIsTrue, UnreadOf, SeenIsShown
<1> QED
  BY <1>4, <1>5, <1>6

\* What each action here leaves alone.
LEMMA ServerStays ==
  ASSUME Inv, UNCHANGED <<system, server, drawn, shown>>, token' = token, TasksOK(task')
  PROVE  State' /\ PaneIsOfOpenRoom' /\ UnreadIsTrue' /\ SeenIsShown'
<1>1. log' = log /\ issued' = issued /\ dead' = dead
  BY DEF server
<1>2. token \in Nat \cup {None} /\ issued \in 0..MaxTokens /\ dead \subseteq 1..issued
  BY DEF Inv, State, TypeOK
<1> QED
  BY <1>1, <1>2, DrawnStays

LEMMA LeaveStep ==
  ASSUME Inv, Leave
  PROVE  Inv'
<1>1. UNCHANGED <<system, server, token, drawn, shown>> /\ screen' = screen
  BY DEF Leave, drawn
<1>2. task' = task \/ (screen = "chat" /\ task' \in Stopped)
  BY DEF Leave
<1>3. TasksOK(task)
  BY DEF Inv, State
<1>4. TasksOK(task') /\ task'["ask"] = task["ask"]
  BY <1>2, <1>3, StoppedTasks
<1>5. ASSUME system = "android" PROVE task'["late"] = None
  BY <1>2, <1>3, <1>5, StoppedTasks DEF Inv, Session, Running
<1>6. task' = task \/ (screen = "chat" /\ task'["watch"] = None /\ task'["list"] = None)
  BY <1>2, <1>3, StoppedTasks
<1>7. Session'
  BY <1>1, <1>4, <1>5, <1>6, SlotsAre DEF Inv, Session, Running, CarriesTheToken
<1> QED
  BY <1>1, <1>4, <1>7, ServerStays DEF Inv

LEMMA ReturnStep ==
  ASSUME Inv, Return
  PROVE  Inv'
<1>1. UNCHANGED <<system, server, token, drawn, shown>> /\ screen' = screen
  BY DEF Return, drawn
<1>2. task' = task \/ (screen = "chat" /\ task' \in Started(open))
  BY DEF Return
<1>3. /\ TasksOK(task) /\ log \in Seq(Rooms) /\ token \in Nat \cup {None}
      /\ open \in Rooms \cup {None}
  BY DEF Inv, State, TypeOK
<1>4. ASSUME screen = "chat", task' \in Started(open)
      PROVE  /\ TasksOK(task') /\ task'["ask"] = task["ask"]
             /\ system = "android" => task'["late"] = None
             /\ task'["watch"] \in {task["watch"], Due("messages", open)}
             /\ task'["list"] \in {task["list"], Sent("rooms", None)}
  BY <1>3, <1>4, StartedTasks
<1>5. TasksOK(task') /\ task'["ask"] = task["ask"]
  BY <1>2, <1>3, <1>4
<1>6. Due("messages", open).step = "due" /\ Sent("rooms", None).token \in {None, token}
  BY <1>3, DueIsGood, SentIsGood, SlotsAre DEF SlotCalls
<1>7. Session'
  BY <1>1, <1>2, <1>4, <1>6, SlotsAre DEF Inv, Session, Running, CarriesTheToken
<1> QED
  BY <1>1, <1>5, <1>7, ServerStays DEF Inv

LEMMA AskStep ==
  ASSUME Inv, NEW call \in {"login", "send", "create"}, Ask(call)
  PROVE  Inv'
<1>1. UNCHANGED <<system, server, token, drawn, shown>> /\ screen' = screen
  BY DEF Ask, drawn
<1>2. /\ TasksOK(task) /\ log \in Seq(Rooms) /\ token \in Nat \cup {None}
      /\ open \in Rooms \cup {None} /\ (call = "send" => open \in Rooms)
  BY DEF Inv, State, TypeOK, Ask
<1> DEFINE t == Sent(call, IF call = "send" THEN open ELSE None)
<1>3. task' = [task EXCEPT !["ask"] = t]
  BY DEF Ask
<1>4. "ask" \in Slots /\ call \in SlotCalls("ask")
  BY DEF Slots, SlotCalls
<1>5. Good("ask", t) /\ t.token \in {None, token} /\ t.call = call
  BY <1>2, <1>4, SentIsGood
<1> HIDE DEF t
<1>6. /\ TasksOK([task EXCEPT !["ask"] = t]) /\ [task EXCEPT !["ask"] = t]["ask"] = t
      /\ \A r \in Slots \ {"ask"} : [task EXCEPT !["ask"] = t][r] = task[r]
  BY <1>2, <1>4, <1>5, SlotIsSet
<1>7. TasksOK(task') /\ task'["ask"] = t /\ \A r \in Slots \ {"ask"} : task'[r] = task[r]
  BY <1>3, <1>6
<1>8. call = "login" => screen = "signIn"
  BY DEF Ask
<1>9. call # "listing"
  OBVIOUS
<1>10. Session'
  BY <1>1, <1>5, <1>7, <1>8, <1>9, SlotsAre DEF Inv, Session, Running, CarriesTheToken
<1> QED
  BY <1>1, <1>7, <1>10, ServerStays DEF Inv

LEMMA ReadStep ==
  ASSUME Inv, Read
  PROVE  Inv'
<1>1. UNCHANGED <<system, server, token, drawn, shown>> /\ screen' = screen
  BY DEF Read, drawn
<1>2. /\ TasksOK(task) /\ log \in Seq(Rooms) /\ token \in Nat \cup {None}
      /\ open \in Rooms \cup {None} /\ held \subseteq 1..Len(log)
  BY DEF Inv, State, TypeOK
<1>3. "watch" \in Slots /\ Running("watch") /\ Good("watch", task["watch"])
  BY <1>2, SlotsAre DEF Read, Running, TasksOK
<1> DEFINE r == task["watch"]
           t == [r EXCEPT !.step = "out", !.token = token,
                          !.room = IF system = "ios" THEN open ELSE @,
                          !.from = IF system = "ios" THEN Highest(held) ELSE @]
<1>4. task' = [task EXCEPT !["watch"] = t]
  BY <1>2, <1>3 DEF Read, TasksOK
<1>5. Highest(held) \in 0..Len(log)
  <2>1. Len(log) \in Nat /\ held \in SUBSET (0..Len(log))
    BY <1>2
  <2> QED
    BY <2>1, HighestInRange
<1>6. Good("watch", t) /\ t.token = token
  <2> DEFINE room == IF system = "ios" THEN open ELSE r.room
             from == IF system = "ios" THEN Highest(held) ELSE r.from
  <2>1. r \in TasksOf("watch") /\ r.from \in 0..Len(log)
    BY <1>3 DEF Good
  <2>2. room \in Rooms \cup {None} /\ from \in 0..Len(log) /\ from \in Nat
    BY <1>2, <1>5, <2>1 DEF TasksOf, AnyRoom
  <2>3. t = [r EXCEPT !.step = "out", !.token = token, !.room = room, !.from = from]
    OBVIOUS
  <2>4. "out" \in Steps /\ token \in AnyToken /\ room \in AnyRoom
    BY <1>2, <2>2 DEF Steps, AnyToken, AnyRoom
  <2> HIDE DEF room, from, t, r
  <2>5. t \in TasksOf("watch")
    BY <2>1, <2>2, <2>3, <2>4 DEF TasksOf
  <2>6. t.from = from /\ t.step = "out" /\ t.token = token /\ t.call = r.call
    BY <2>1, <2>3 DEF TasksOf
  <2>7. r.call = "messages"
    BY <2>1 DEF TasksOf, SlotCalls
  <2> QED
    BY <2>2, <2>5, <2>6, <2>7 DEF Good
<1> HIDE DEF t
<1>7. /\ TasksOK([task EXCEPT !["watch"] = t]) /\ [task EXCEPT !["watch"] = t]["watch"] = t
      /\ \A s \in Slots \ {"watch"} : [task EXCEPT !["watch"] = t][s] = task[s]
  BY <1>2, <1>3, <1>6, SlotIsSet
<1>8. TasksOK(task') /\ task'["watch"] = t /\ \A s \in Slots \ {"watch"} : task'[s] = task[s]
  BY <1>4, <1>7
<1>9. Session'
  BY <1>1, <1>3, <1>6, <1>8, SlotsAre DEF Inv, Session, Running, CarriesTheToken
<1> QED
  BY <1>1, <1>8, <1>9, ServerStays DEF Inv

\* A call that was carried out leaves its slot as it may be.
LEMMA RepliedTasks ==
  ASSUME TasksOK(task), log \in Seq(Rooms), NEW s \in Slots, Running(s),
         NEW seqs \in SUBSET Nat, NEW list \in Lists,
         task[s].call = "messages" => seqs \subseteq Seqs(task[s].room),
         task[s].call \in {"rooms", "listing"} => list \in [Rooms -> 0..Len(log)],
         task' = Replied(s, seqs, list)
  PROVE  /\ TasksOK(task')
         /\ task'[s].step = "back" /\ task'[s].call = task[s].call
         /\ \A k \in Slots \ {s} : task'[k] = task[k]
<1>1. Good(s, task[s]) /\ task[s] # None
  BY DEF Running, TasksOK
<1> DEFINE r == task[s]
           t == [r EXCEPT !.step = "back", !.token = None, !.seqs = seqs, !.list = list]
<1>2. task' = [task EXCEPT ![s] = t]
  BY DEF Replied, TasksOK
<1>3. Good(s, t) /\ t.step = "back" /\ t.call = r.call
  <2>1. r \in TasksOf(s) /\ r.from \in 0..Len(log) /\ (r.call = "send" => r.room \in Rooms)
    BY <1>1 DEF Good
  <2>2. t = [r EXCEPT !.step = "back", !.token = None, !.seqs = seqs, !.list = list]
    OBVIOUS
  <2>3. "back" \in Steps /\ None \in AnyToken /\ seqs \in Pages
    BY DEF Steps, AnyToken, Pages
  <2>4. /\ r.call = "messages" => seqs \subseteq Seqs(r.room)
        /\ r.call \in {"rooms", "listing"} => list \in [Rooms -> 0..Len(log)]
    OBVIOUS
  <2> HIDE DEF t, r
  <2>5. t \in TasksOf(s)
    BY <2>1, <2>2, <2>3 DEF TasksOf
  <2>6. /\ t.call = r.call /\ t.room = r.room /\ t.from = r.from
        /\ t.step = "back" /\ t.seqs = seqs /\ t.list = list
    BY <2>1, <2>2 DEF TasksOf
  <2> QED
    BY <2>1, <2>4, <2>5, <2>6 DEF Good
<1> HIDE DEF t
<1>4. /\ TasksOK([task EXCEPT ![s] = t]) /\ [task EXCEPT ![s] = t][s] = t
      /\ \A k \in Slots \ {s} : [task EXCEPT ![s] = t][k] = task[k]
  BY <1>3, SlotIsSet
<1> QED
  BY <1>2, <1>3, <1>4

LEMMA ServeStep ==
  ASSUME Inv, NEW s \in Slots, Serve(s)
  PROVE  Inv'
<1>1. UNCHANGED <<system, server, token, drawn, shown>> /\ screen' = screen
  BY DEF Serve, drawn
<1>2. TasksOK(task) /\ log \in Seq(Rooms)
  BY DEF Inv, State, TypeOK
<1>3. Running(s) /\ task[s].call \in {"messages", "rooms", "listing", "create"}
  BY DEF Serve, Out
<1> DEFINE call == task[s].call
           page == IF call = "messages" THEN PageOf(task[s].room, task[s].from) ELSE {}
           list == IF call \in {"rooms", "listing"} THEN Latest ELSE << >>
<1>4. task' = Replied(s, page, list)
  BY DEF Serve
<1>5. (call = "messages" => page \subseteq Seqs(task[s].room)) /\ page \in SUBSET Nat
  <2>1. Seqs(task[s].room) \subseteq Nat
    BY DEF Seqs
  <2> QED
    BY <2>1, PageOfTheRoom
<1>6. (call \in {"rooms", "listing"} => list \in [Rooms -> 0..Len(log)]) /\ list \in Lists
  <2>1. 0..Len(log) \subseteq Nat
    OBVIOUS
  <2>2. CASE call \in {"rooms", "listing"}
    <3>1. list \in [Rooms -> 0..Len(log)]
      BY <1>2, <2>2, LatestInRange
    <3> HIDE DEF list
    <3> QED
      BY <2>1, <3>1 DEF Lists
  <2>3. CASE call \notin {"rooms", "listing"}
    BY <2>3 DEF Lists
  <2> QED
    BY <2>2, <2>3
<1> HIDE DEF page, list
<1>7. /\ TasksOK(task')
      /\ task'[s].step = "back" /\ task'[s].call = task[s].call
      /\ \A k \in Slots \ {s} : task'[k] = task[k]
  BY <1>2, <1>3, <1>4, <1>5, <1>6, RepliedTasks
<1>8. Session'
  BY <1>1, <1>3, <1>7, SlotsAre DEF Inv, Session, Running, CarriesTheToken
<1> QED
  BY <1>1, <1>7, <1>8, ServerStays DEF Inv

LEMMA FailStep ==
  ASSUME Inv, NEW s \in Slots, Fail(s)
  PROVE  Inv'
<1>1. UNCHANGED <<system, server, token, drawn, shown>> /\ screen' = screen
  BY DEF Fail, drawn
<1>2. TasksOK(task) /\ log \in Seq(Rooms) /\ token \in Nat \cup {None} /\ 0 \in 0..Len(log)
  BY DEF Inv, State, TypeOK
<1>3. Running(s) /\ Again(s, 0)
  BY DEF Fail
<1>4. /\ TasksOK(task')
      /\ \A r \in Slots \ {s} : task'[r] = task[r]
      /\ s \notin {"watch", "list"} => task'[s] = None
      /\ s = "watch" => task'[s].step = "due"
      /\ s = "list" => task'[s].token \in {None, token}
  BY <1>2, <1>3, GoesOn
<1>5. Session'
  BY <1>1, <1>3, <1>4, SlotsAre DEF Inv, Session, Running, CarriesTheToken
<1> QED
  BY <1>1, <1>4, <1>5, ServerStays DEF Inv

\* On Android nothing else is out when a login is granted.
LEMMA LoggedInStep ==
  ASSUME Inv, LoggedIn
  PROVE  Inv'
<1>1. /\ UNCHANGED <<system, log, dead, drawn, shown>> /\ screen' = screen
      /\ issued' = issued + 1 /\ issued < MaxTokens /\ token' = issued'
  BY DEF LoggedIn, drawn
<1>2. /\ TasksOK(task) /\ log \in Seq(Rooms) /\ token \in Nat \cup {None}
      /\ issued \in 0..MaxTokens /\ dead \subseteq 1..issued /\ MaxTokens \in Nat
  BY PhoneAssumption DEF Inv, State, TypeOK
<1>3. token' \in Nat \cup {None} /\ issued' \in 0..MaxTokens /\ dead' \subseteq 1..issued'
  BY <1>1, <1>2
<1> DEFINE r == Sent("listing", None)
           t == [r EXCEPT !.token = token']
<1>4. task' = [task EXCEPT !["ask"] = t]
  BY DEF LoggedIn
<1>5. Good("ask", t) /\ t.token = token' /\ t.call = "listing"
  <2>1. "ask" \in Slots /\ "listing" \in SlotCalls("ask")
    BY DEF Slots, SlotCalls
  <2>2. Good("ask", r) /\ r.step = "out" /\ r.call = "listing"
    BY <1>2, <2>1, SentIsGood
  <2> HIDE DEF r
  <2>3. t = [call |-> r.call, room |-> r.room, from |-> r.from, step |-> r.step,
             token |-> token', seqs |-> r.seqs, list |-> r.list]
    BY <2>2 DEF Good, TasksOf
  <2> HIDE DEF t
  <2>4. t \in TasksOf("ask")
    BY <1>3, <2>2, <2>3 DEF Good, TasksOf, AnyToken
  <2>5. t.call = r.call /\ t.from = r.from /\ t.step = r.step /\ t.token = token'
    BY <2>3
  <2> QED
    BY <2>2, <2>4, <2>5 DEF Good
<1> HIDE DEF t
<1>6. /\ TasksOK([task EXCEPT !["ask"] = t]) /\ [task EXCEPT !["ask"] = t]["ask"] = t
      /\ \A k \in Slots \ {"ask"} : [task EXCEPT !["ask"] = t][k] = task[k]
  BY <1>2, <1>5, SlotIsSet, SlotsAre
<1>7. TasksOK(task') /\ task'["ask"] = t /\ \A k \in Slots \ {"ask"} : task'[k] = task[k]
  BY <1>4, <1>6
<1>8. Running("ask") /\ task["ask"].call = "login"
  BY DEF LoggedIn, Out
<1>9. ASSUME system = "android"
      PROVE  screen = "signIn" /\ \A k \in Slots \ {"ask"} : ~Running(k)
  BY <1>8, <1>9, SlotsAre DEF Inv, Session
<1>10. Session'
  BY <1>1, <1>5, <1>7, <1>9, SlotsAre DEF Session, Running, CarriesTheToken
<1> QED
  BY <1>1, <1>3, <1>7, <1>10, DrawnStays DEF Inv

LEMMA ExpireStep ==
  ASSUME Inv, Expire
  PROVE  Inv'
<1>1. UNCHANGED <<system, log, issued, token, drawn, shown, task>> /\ screen' = screen
  BY DEF Expire, drawn
<1>2. /\ TasksOK(task) /\ token \in Nat \cup {None}
      /\ issued \in 0..MaxTokens /\ dead \subseteq 1..issued
  BY DEF Inv, State, TypeOK
<1>3. dead' \subseteq 1..issued
  BY <1>2 DEF Expire
<1>4. TasksOK(task')
  BY <1>1, <1>2
<1>5. Session'
  BY <1>1 DEF Inv, Session, Running, CarriesTheToken
<1> QED
  BY <1>1, <1>2, <1>3, <1>4, <1>5, DrawnStays DEF Inv

-----------------------------------------------------------------------------
(* Steps that post a message. *)

\* A log that is longer still has what was read of it.
LEMMA TasksOutlast ==
  ASSUME log \in Seq(Rooms), NEW room \in Rooms, log' = Append(log, room), TasksOK(task'),
         log' \in Seq(Rooms)
  PROVE  TasksOK(task)'
<1>1. Len(log) \in Nat /\ Len(log') = Len(log) + 1 /\ \A n \in 1..Len(log) : log'[n] = log[n]
  OBVIOUS
<1>2. 0..Len(log) \subseteq 0..Len(log')
  BY <1>1
<1> DEFINE Now(r) == {n \in 1..Len(log') : log'[n] = r}
<1>3. ASSUME NEW r PROVE Seqs(r) \subseteq Now(r)
  BY <1>1 DEF Seqs
<1>4. ASSUME NEW f \in [Rooms -> 0..Len(log)] PROVE f \in [Rooms -> 0..Len(log')]
  BY <1>2
<1>5. ASSUME NEW s \in Slots, task'[s] # None PROVE Good(s, task[s])'
  <2>1. Good(s, task'[s])
    BY <1>5 DEF TasksOK
  <2> DEFINE t == task'[s]
  <2>2. /\ t \in TasksOf(s) /\ t.from \in 0..Len(log)
        /\ t.call = "send" => t.room \in Rooms
        /\ t.step = "back" /\ t.call = "messages" => t.seqs \subseteq Seqs(t.room)
        /\ t.step = "back" /\ t.call \in {"rooms", "listing"} => t.list \in [Rooms -> 0..Len(log)]
    BY <2>1 DEF Good
  <2>3. t.from \in 0..Len(log')
    BY <1>2, <2>2
  <2>4. t.step = "back" /\ t.call = "messages" => t.seqs \subseteq Now(t.room)
    <3>1. Seqs(t.room) \subseteq Now(t.room)
      BY <1>3
    <3> HIDE DEF Now
    <3> QED
      BY <2>2, <3>1
  <2>5. t.step = "back" /\ t.call \in {"rooms", "listing"} =>
          t.list \in [Rooms -> 0..Len(log')]
    BY <1>4, <2>2
  <2> QED
    BY <2>2, <2>3, <2>4, <2>5 DEF Good, Seqs
<1>6. task' = [s \in Slots |-> task'[s]]
  BY DEF TasksOK
<1> QED
  BY <1>5, <1>6 DEF TasksOK

LEMMA LogGrows ==
  ASSUME Inv, UNCHANGED <<system, issued, dead, token, front, drawn, shown>>, TasksOK(task'),
         NEW room \in Rooms, log' = Append(log, room)
  PROVE  State' /\ PaneIsOfOpenRoom' /\ UnreadIsTrue' /\ SeenIsShown'
<1>1. /\ screen' = screen /\ rooms' = rooms /\ open' = open /\ held' = held
      /\ seen' = seen /\ unread' = unread /\ shown' = shown
  BY DEF drawn
<1>2. log \in Seq(Rooms) /\ TypeOK
  BY DEF Inv, State
<1>3. /\ Len(log) \in Nat /\ Len(log') = Len(log) + 1 /\ log' \in Seq(Rooms)
      /\ \A n \in 1..Len(log) : log'[n] = log[n]
  BY <1>2
<1>4. TasksOK(task)'
  BY <1>2, <1>3, TasksOutlast
<1>5. TypeOK'
  <2>1. 0..Len(log) \subseteq 0..Len(log') /\ 1..Len(log) \subseteq 1..Len(log')
    BY <1>3
  <2>2. /\ rooms \in [Rooms -> 0..Len(log')] /\ seen \in [Rooms -> 0..Len(log')]
        /\ shown \in [Rooms -> 0..Len(log')]
    BY <1>2, <2>1 DEF TypeOK
  <2>3. held \subseteq 1..Len(log')
    BY <1>2, <2>1 DEF TypeOK
  <2> QED
    BY <1>1, <1>2, <2>2, <2>3 DEF TypeOK
<1>6. State'
  BY <1>1, <1>3, <1>4, <1>5 DEF Inv, State
<1>7. PaneIsOfOpenRoom'
  BY <1>1, <1>2, <1>3 DEF Inv, PaneIsOfOpenRoom, TypeOK
<1>8. UnreadIsTrue' /\ SeenIsShown'
  BY <1>1 DEF Inv, UnreadIsTrue, UnreadOf, SeenIsShown
<1> QED
  BY <1>6, <1>7, <1>8

LEMMA PostStep ==
  ASSUME Inv, NEW room \in Rooms, Post(room)
  PROVE  Inv'
<1>1. /\ UNCHANGED <<system, issued, dead, token, front, drawn, shown, task>> /\ screen' = screen
      /\ log' = Append(log, room)
  BY DEF Post, drawn
<1>2. TasksOK(task')
  BY <1>1 DEF Inv, State
<1>3. Session'
  BY <1>1 DEF Inv, Session, Running, CarriesTheToken
<1> QED
  BY <1>1, <1>2, <1>3, LogGrows DEF Inv

LEMMA SendStep ==
  ASSUME Inv, Send
  PROVE  Inv'
<1>1. /\ UNCHANGED <<system, issued, dead, token, front, drawn, shown>> /\ screen' = screen
      /\ log' = Append(log, task["ask"].room) /\ task' = Replied("ask", {}, << >>)
      /\ Running("ask") /\ task["ask"].call = "send"
  BY DEF Send, Out, drawn
<1>2. TasksOK(task) /\ log \in Seq(Rooms) /\ "ask" \in Slots
  BY SlotsAre DEF Inv, State
<1>3. task["ask"].room \in Rooms
  BY <1>1, <1>2 DEF Running, TasksOK, Good
<1>4. /\ TasksOK(task')
      /\ task'["ask"].step = "back" /\ task'["ask"].call = "send"
      /\ \A s \in Slots \ {"ask"} : task'[s] = task[s]
  <2>1. {} \in SUBSET Nat /\ << >> \in Lists
    BY DEF Lists
  <2> QED
    BY <1>1, <1>2, <2>1, RepliedTasks
<1>5. Session'
  BY <1>1, <1>4, SlotsAre DEF Inv, Session, Running, CarriesTheToken
<1> QED
  BY <1>1, <1>3, <1>4, <1>5, LogGrows DEF Inv

LEMMA SendLandsStep ==
  ASSUME Inv, SendLands
  PROVE  Inv'
<1>1. UNCHANGED <<system, server, token, drawn, shown>> /\ screen' = screen
  BY DEF SendLands, drawn
<1>2. /\ TasksOK(task') /\ task'["ask"] = None
      /\ \A s \in Slots \ {"ask"} : task'[s] = task[s]
  <2>1. TasksOK(task) /\ "ask" \in Slots /\ task' = [task EXCEPT !["ask"] = None]
    BY SlotsAre DEF SendLands, Over, Inv, State
  <2>2. /\ TasksOK([task EXCEPT !["ask"] = None]) /\ [task EXCEPT !["ask"] = None]["ask"] = None
        /\ \A s \in Slots \ {"ask"} : [task EXCEPT !["ask"] = None][s] = task[s]
    BY <2>1, TasksWithout
  <2> QED
    BY <2>1, <2>2, Zenon
<1>3. Session'
  BY <1>1, <1>2, SlotsAre DEF Inv, Session, Running, CarriesTheToken
<1> QED
  BY <1>1, <1>2, <1>3, ServerStays DEF Inv

-----------------------------------------------------------------------------
(* Steps that draw something new. *)

\* openRoom empties the pane and marks the others anew.
LEMMA RoomOpens ==
  ASSUME Inv, UNCHANGED <<system, server, token, screen>>, NEW room \in Rooms, Opened(room),
         TasksOK(task')
  PROVE  State' /\ PaneIsOfOpenRoom' /\ UnreadIsTrue' /\ SeenIsShown'
<1>1. /\ open' = room /\ held' = {} /\ rooms' = rooms /\ seen' = seen /\ shown' = shown
      /\ unread' = UnreadOf(rooms, room, seen)
      /\ log' = log /\ issued' = issued /\ dead' = dead
  BY DEF Opened, server
<1>2. TasksOK(task)'
  BY <1>1, TasksStay
<1>3. unread' \subseteq Rooms
  BY <1>1, UnreadAreRooms
<1>4. room # None
  BY PhoneAssumption
<1>5. TypeOK'
  BY <1>1, <1>3, <1>4 DEF Inv, State, TypeOK
<1>6. State'
  BY <1>1, <1>2, <1>5 DEF Inv, State
<1>7. PaneIsOfOpenRoom'
  BY <1>1 DEF PaneIsOfOpenRoom
<1>8. UnreadIsTrue' /\ SeenIsShown'
  BY <1>1 DEF Inv, UnreadIsTrue, UnreadOf, SeenIsShown
<1> QED
  BY <1>6, <1>7, <1>8

LEMMA OpenRoomStep ==
  ASSUME Inv, NEW room \in Rooms, OpenRoom(room)
  PROVE  Inv'
<1>1. /\ UNCHANGED <<system, server, token, screen>> /\ Opened(room) /\ screen = "chat"
      /\ task' \in Watched(room)
  BY DEF OpenRoom
<1>2. TasksOK(task) /\ log \in Seq(Rooms)
  BY DEF Inv, State
<1>3. /\ TasksOK(task') /\ task'["ask"] = task["ask"]
      /\ system = "android" => task'["late"] = None
      /\ task'["watch"] = Due("messages", room) /\ task'["list"] = task["list"]
  BY <1>1, <1>2, WatchedTasks
<1>4. Due("messages", room).step = "due"
  BY <1>2, DueIsGood
<1>5. Session'
  BY <1>1, <1>3, <1>4, SlotsAre DEF Inv, Session, Running, CarriesTheToken
<1> QED
  BY <1>1, <1>3, <1>5, RoomOpens DEF Inv

LEMMA CreatedStep ==
  ASSUME Inv, Created
  PROVE  Inv'
<1>1. /\ UNCHANGED <<system, server, token, screen>>
      /\ Running("ask") /\ task["ask"].call = "create"
  BY DEF Created, Back
<1>2. TasksOK(task) /\ log \in Seq(Rooms) /\ "ask" \in Slots
  BY SlotsAre DEF Inv, State
<1>3. CASE /\ UNCHANGED <<rooms, open, held, seen, unread, shown>>
           /\ task' = [task EXCEPT !["ask"] = None]
  <2>1. UNCHANGED <<drawn, shown>>
    BY <1>1, <1>3 DEF drawn
  <2>2. /\ TasksOK([task EXCEPT !["ask"] = None]) /\ [task EXCEPT !["ask"] = None]["ask"] = None
        /\ \A s \in Slots \ {"ask"} : [task EXCEPT !["ask"] = None][s] = task[s]
    BY <1>2, TasksWithout
  <2>3. /\ TasksOK(task') /\ task'["ask"] = None
        /\ \A s \in Slots \ {"ask"} : task'[s] = task[s]
    BY <1>3, <2>2, Zenon
  <2>4. Session'
    BY <1>1, <2>3, SlotsAre DEF Inv, Session, Running, CarriesTheToken
  <2> QED
    BY <1>1, <2>1, <2>3, <2>4, ServerStays DEF Inv
<1>4. ASSUME NEW room \in Rooms, NEW feeds \in Watched(room), system = "ios", Opened(room),
             task' = [feeds EXCEPT !["ask"] = None]
      PROVE  Inv'
  <2>1. TasksOK(feeds)
    BY <1>2, WatchedTasks
  <2>2. TasksOK([feeds EXCEPT !["ask"] = None])
    BY <1>2, <2>1, TasksWithout
  <2>3. TasksOK(task')
    BY <1>4, <2>2, Zenon
  <2>4. Session'
    BY <1>1, <1>4 DEF Session
  <2> QED
    BY <1>1, <1>4, <2>3, <2>4, RoomOpens DEF Inv
<1>5. \/ UNCHANGED <<rooms, open, held, seen, unread, shown>> /\ task' = [task EXCEPT !["ask"] = None]
      \/ \E room \in Rooms : \E feeds \in Watched(room) :
           system = "ios" /\ Opened(room) /\ task' = [feeds EXCEPT !["ask"] = None]
  BY DEF Created, Over
<1> QED
  BY <1>3, <1>4, <1>5

\* A page that is back is of the room that was asked for, so what of it is drawn
\* is of the room that is open.
LEMMA BatchLandsStep ==
  ASSUME Inv, NEW s \in Slots, BatchLands(s)
  PROVE  Inv'
<1> DEFINE batch == task[s].seqs
           room  == task[s].room
<1>1. /\ UNCHANGED <<system, server, token, front, screen, rooms, open>>
      /\ log' = log /\ issued' = issued /\ dead' = dead
      /\ Running(s) /\ task[s].step = "back" /\ task[s].call = "messages"
      /\ Again(s, Highest({task[s].from} \cup batch))
  BY DEF BatchLands, Back, server
<1>2. TasksOK(task) /\ log \in Seq(Rooms) /\ token \in Nat \cup {None} /\ TypeOK /\ Len(log) \in Nat
  <2>1. TasksOK(task) /\ log \in Seq(Rooms) /\ TypeOK
    BY DEF Inv, State
  <2>2. token \in Nat \cup {None}
    BY <2>1 DEF TypeOK
  <2> QED
    BY <2>1, <2>2
<1>3. task[s].from \in 0..Len(log) /\ batch \subseteq Seqs(room)
  <2>1. Good(s, task[s])
    BY <1>1, <1>2 DEF Running, TasksOK
  <2> QED
    BY <1>1, <2>1 DEF Good
<1>4. batch \subseteq 1..Len(log) /\ \A n \in batch : log[n] = room
  BY <1>3 DEF Seqs
<1>5. Highest({task[s].from} \cup batch) \in 0..Len(log)
  <2>1. {task[s].from} \cup batch \in SUBSET (0..Len(log))
    BY <1>2, <1>3, <1>4
  <2> HIDE DEF batch
  <2> QED
    BY <1>2, <2>1, HighestInRange
<1>6. /\ TasksOK(task')
      /\ \A r \in Slots \ {s} : task'[r] = task[r]
      /\ s \notin {"watch", "list"} => task'[s] = None
      /\ s = "watch" => task'[s].step = "due"
      /\ s = "list" => task'[s].token \in {None, token}
  <2> HIDE DEF batch
  <2> QED
    BY <1>1, <1>2, <1>5, GoesOn
<1>7. TasksOK(task)'
  BY <1>1, <1>6, TasksStay
<1>8. Session'
  BY <1>1, <1>6, SlotsAre DEF Inv, Session, Running, CarriesTheToken
<1>9. CASE batch # {} /\ room = open
  <2>1. /\ held' = held \cup batch /\ seen' = [seen EXCEPT ![room] = Highest({@} \cup batch)]
        /\ unread' = UnreadOf(rooms, room, seen')
        /\ PaneIsShown
    BY <1>9 DEF BatchLands
  <2>2. room \in Rooms
    <3>1. PICK n \in batch : TRUE
      BY <1>9
    <3> QED
      BY <1>2, <1>4, <3>1
  <2>3. Highest({seen[room]} \cup batch) \in 0..Len(log)
    <3>1. {seen[room]} \cup batch \in SUBSET (0..Len(log))
      BY <1>2, <1>4, <2>2 DEF TypeOK
    <3> HIDE DEF batch, room
    <3> QED
      BY <1>2, <3>1, HighestInRange
  <2>4. seen' \in [Rooms -> 0..Len(log)]
    <3> HIDE DEF batch, room
    <3> QED
      BY <1>2, <2>1, <2>2, <2>3 DEF TypeOK
  <2>5. unread' \subseteq Rooms
    BY <2>1, UnreadAreRooms
  <2>9. /\ shown \in [Rooms -> 0..Len(log)] /\ held \in SUBSET (0..Len(log))
        /\ batch \in SUBSET (0..Len(log))
    BY <1>2, <1>4 DEF TypeOK
  <2>10. shown' \in [Rooms -> 0..Len(log)]
    <3>1. {shown[room]} \cup (held \cup batch) \in SUBSET (0..Len(log))
      BY <2>2, <2>9
    <3> HIDE DEF batch, room
    <3>2. Highest({shown[room]} \cup (held \cup batch)) \in 0..Len(log)
      BY <1>2, <3>1, HighestInRange
    <3> QED
      BY <1>9, <2>1, <2>2, <2>9, <3>2 DEF PaneIsShown
  <2>6. TypeOK'
    <3> HIDE DEF batch, room
    <3> QED
      BY <1>1, <1>2, <1>4, <2>1, <2>4, <2>5, <2>10 DEF TypeOK
  <2>7. PaneIsOfOpenRoom'
    <3> HIDE DEF batch, room
    <3> QED
      BY <1>1, <1>4, <1>9, <2>1 DEF Inv, PaneIsOfOpenRoom
  <2>11. ASSUME screen = "chat"
         PROVE  /\ seen' = shown' /\ \A n \in held' : n <= shown'[room]
    <3>1. seen = shown /\ \A n \in held : n <= shown[room]
      BY <1>9, <2>11 DEF Inv, SeenIsShown
    <3> DEFINE read == {seen[room]} \cup batch
    <3>2. read \in SUBSET (0..Len(log)) /\ read # {}
      BY <2>2, <2>9, <3>1
    <3>3. \A n \in held : \E k \in read : n <= k
      BY <3>1
    <3> HIDE DEF batch, room
    <3>4. Highest(read \cup held) = Highest(read)
      <4> HIDE DEF read
      <4> QED
        BY <1>2, <2>9, <3>2, <3>3, HighestStays
    <3>5. {shown[room]} \cup held' = read \cup held
      BY <2>1, <3>1
    <3>6. shown' = [shown EXCEPT ![room] = Highest({shown[room]} \cup held')]
      BY <1>9, <2>1, <2>11 DEF PaneIsShown
    <3>7. seen' = [seen EXCEPT ![room] = Highest(read)]
      BY <2>1
    <3>8. seen' = shown'
      BY <3>1, <3>4, <3>5, <3>6, <3>7
    <3>9. \A n \in read \cup held : n <= Highest(read \cup held)
      <4>1. read \cup held \in SUBSET (0..Len(log)) /\ read \cup held # {}
        BY <2>9, <3>2
      <4> HIDE DEF read
      <4> QED
        BY <1>2, <4>1, HighestIsOne
    <3>10. shown'[room] = Highest(read \cup held)
      BY <2>2, <2>9, <3>5, <3>6
    <3> HIDE DEF read
    <3> QED
      BY <3>5, <3>8, <3>9, <3>10
  <2>8. UnreadIsTrue' /\ SeenIsShown'
    <3>1. open' = room /\ screen' = screen /\ rooms' = rooms
      BY <1>1, <1>9
    <3> HIDE DEF batch, room
    <3> QED
      BY <2>1, <2>11, <3>1 DEF UnreadIsTrue, UnreadOf, SeenIsShown
  <2> QED
    BY <1>1, <1>7, <1>8, <2>6, <2>7, <2>8 DEF Inv, State
<1>10. CASE ~(batch # {} /\ room = open)
  <2>1. held' = held /\ seen' = seen /\ unread' = unread /\ shown' = shown
    BY <1>10 DEF BatchLands
  <2>2. TypeOK' /\ PaneIsOfOpenRoom' /\ UnreadIsTrue' /\ SeenIsShown'
    BY <1>1, <2>1 DEF Inv, State, TypeOK, PaneIsOfOpenRoom, UnreadIsTrue, UnreadOf, SeenIsShown
  <2> QED
    BY <1>1, <1>7, <1>8, <2>2 DEF Inv, State
<1> QED
  BY <1>9, <1>10

LEMMA ListLandsStep ==
  ASSUME Inv, NEW s \in Slots, ListLands(s)
  PROVE  Inv'
<1>1. /\ UNCHANGED <<system, server, token, front, screen, open, held, seen, shown>>
      /\ log' = log /\ issued' = issued /\ dead' = dead
      /\ Running(s) /\ task[s].step = "back" /\ task[s].call = "rooms"
      /\ rooms' = task[s].list /\ unread' = UnreadOf(rooms', open, seen)
      /\ Again(s, 0)
  BY DEF ListLands, Back, server
<1>2. /\ TasksOK(task) /\ log \in Seq(Rooms) /\ token \in Nat \cup {None} /\ TypeOK
      /\ 0 \in 0..Len(log)
  <2>1. TasksOK(task) /\ log \in Seq(Rooms) /\ TypeOK
    BY DEF Inv, State
  <2>2. token \in Nat \cup {None}
    BY <2>1 DEF TypeOK
  <2> QED
    BY <2>1, <2>2
<1>3. rooms' \in [Rooms -> 0..Len(log)]
  <2>1. Good(s, task[s])
    BY <1>1, <1>2 DEF Running, TasksOK
  <2> QED
    BY <1>1, <2>1 DEF Good
<1>4. unread' \subseteq Rooms
  BY <1>1, UnreadAreRooms
<1>5. /\ TasksOK(task')
      /\ \A r \in Slots \ {s} : task'[r] = task[r]
      /\ s \notin {"watch", "list"} => task'[s] = None
      /\ s = "watch" => task'[s].step = "due"
      /\ s = "list" => task'[s].token \in {None, token}
  BY <1>1, <1>2, GoesOn
<1>6. TasksOK(task)'
  BY <1>1, <1>5, TasksStay
<1>7. Session'
  BY <1>1, <1>5, SlotsAre DEF Inv, Session, Running, CarriesTheToken
<1>8. TypeOK'
  BY <1>1, <1>2, <1>3, <1>4 DEF TypeOK
<1>9. PaneIsOfOpenRoom' /\ SeenIsShown'
  BY <1>1 DEF Inv, PaneIsOfOpenRoom, SeenIsShown
<1>10. UnreadIsTrue'
  BY <1>1 DEF Inv, SeenIsShown, UnreadIsTrue, UnreadOf
<1> QED
  BY <1>1, <1>6, <1>7, <1>8, <1>9, <1>10 DEF Inv, State

LEMMA LogInLandsStep ==
  ASSUME Inv, LogInLands
  PROVE  Inv'
<1>1. /\ UNCHANGED <<system, server, token, front>>
      /\ log' = log /\ issued' = issued /\ dead' = dead
      /\ Running("ask") /\ task["ask"].step = "back" /\ task["ask"].call = "listing"
      /\ rooms' = task["ask"].list /\ seen' = rooms' /\ shown' = rooms'
      /\ open' = 1 /\ held' = {} /\ screen' = "chat"
      /\ unread' = IF system = "android" THEN UnreadOf(rooms', 1, seen') ELSE unread
  BY DEF LogInLands, Back, server
<1>2. /\ TasksOK(task) /\ log \in Seq(Rooms) /\ token \in Nat \cup {None} /\ TypeOK
      /\ 1 \in Rooms /\ 1 # None /\ "ask" \in Slots
  BY PhoneAssumption, SlotsAre DEF Inv, State, TypeOK
<1>3. PICK feeds : /\ feeds = task \/ feeds \in Started(1)
                   /\ task' = [feeds EXCEPT !["ask"] = None]
  BY DEF LogInLands
<1>4. ASSUME feeds \in Started(1)
      PROVE  /\ TasksOK(feeds)
             /\ system = "android" => feeds["late"] = None
             /\ feeds["watch"] \in {task["watch"], Due("messages", 1)}
             /\ feeds["list"] \in {task["list"], Sent("rooms", None)}
  BY <1>2, <1>4, StartedTasks
<1>5. TasksOK(feeds)
  BY <1>2, <1>3, <1>4
<1>6. /\ TasksOK([feeds EXCEPT !["ask"] = None])
      /\ [feeds EXCEPT !["ask"] = None]["ask"] = None
      /\ \A s \in Slots \ {"ask"} : [feeds EXCEPT !["ask"] = None][s] = feeds[s]
  BY <1>2, <1>5, TasksWithout
<1>7. /\ TasksOK(task') /\ task'["ask"] = None
      /\ \A s \in Slots \ {"ask"} : task'[s] = feeds[s]
  BY <1>3, <1>6, Zenon
<1>8. TasksOK(task)'
  BY <1>1, <1>7, TasksStay
<1>9. Due("messages", 1).step = "due" /\ Sent("rooms", None).token \in {None, token}
  BY <1>2, DueIsGood, SentIsGood, SlotsAre DEF SlotCalls
<1>10. ASSUME system = "android"
       PROVE  /\ task'["late"] = None
              /\ task'["watch"] \in {task["watch"], Due("messages", 1)}
              /\ task'["list"] \in {task["list"], Sent("rooms", None)}
  BY <1>3, <1>4, <1>7, <1>10, SlotsAre DEF Inv, Session, Running
<1>11. Session'
  BY <1>1, <1>7, <1>9, <1>10, SlotsAre DEF Inv, Session, Running, CarriesTheToken
<1>12. rooms' \in [Rooms -> 0..Len(log)]
  <2>1. Good("ask", task["ask"])
    BY <1>1, <1>2 DEF Running, TasksOK
  <2> QED
    BY <1>1, <2>1 DEF Good
<1>13. unread' \subseteq Rooms
  BY <1>1, <1>2, UnreadAreRooms DEF TypeOK
<1>14. TypeOK'
  BY <1>1, <1>2, <1>12, <1>13 DEF TypeOK
<1>15. PaneIsOfOpenRoom' /\ SeenIsShown'
  BY <1>1 DEF PaneIsOfOpenRoom, SeenIsShown
<1>16. UnreadIsTrue'
  <2>1. UnreadOf(rooms', open', shown') = {}
    <3>1. \A r \in Rooms : ~(rooms'[r] > rooms'[r])
      BY <1>12
    <3> QED
      BY <1>1, <3>1 DEF UnreadOf
  <2>2. UnreadIsTrue' = (screen' = "chat" =>
          /\ UnreadOf(rooms', open', shown') \subseteq unread'
          /\ system' = "android" => unread' = UnreadOf(rooms', open', shown'))
    BY DEF UnreadIsTrue, UnreadOf
  <2> QED
    BY <1>1, <2>1, <2>2
<1> QED
  BY <1>1, <1>8, <1>11, <1>14, <1>15, <1>16 DEF Inv, State

LEMMA SignOutStep ==
  ASSUME Inv, NEW s \in Slots, SignOut(s)
  PROVE  Inv'
<1>1. /\ UNCHANGED <<system, server, front, rooms, open, seen, shown>>
      /\ log' = log /\ issued' = issued /\ dead' = dead
      /\ token' = None /\ screen' = "signIn" /\ held' = {} /\ unread' = {}
  BY DEF SignOut, server
<1>2. TasksOK(task) /\ TypeOK /\ "ask" \in Slots
  BY SlotsAre DEF Inv, State
<1>3. PICK late \in Left({"watch", "list"} \ {s}) :
        task' = [Feeds(None, None, IF s = "late" THEN None ELSE late) EXCEPT
                   !["ask"] = IF s = "ask" THEN None ELSE @]
  BY DEF SignOut
<1> DEFINE left  == IF s = "late" THEN None ELSE late
           feeds == Feeds(None, None, left)
<1>4. (left # None => Good("late", left)) /\ (system = "android" => left = None)
  <2>1. {"watch", "list"} \ {s} \in SUBSET {"watch", "list"}
    OBVIOUS
  <2> QED
    BY <1>2, <2>1, LeftIsGood
<1> HIDE DEF left
<1>5. /\ TasksOK(feeds) /\ feeds["ask"] = task["ask"]
      /\ feeds["watch"] = None /\ feeds["list"] = None /\ feeds["late"] = left
  BY <1>2, <1>4, FeedsAreGood, FeedsFacts
<1>6. task' = IF s = "ask" THEN [feeds EXCEPT !["ask"] = None] ELSE feeds
  <2>1. task' = [feeds EXCEPT !["ask"] = IF s = "ask" THEN None ELSE @]
    BY <1>3 DEF left
  <2>2. feeds = [r \in Slots |-> feeds[r]]
    BY <1>5 DEF TasksOK
  <2> HIDE DEF feeds
  <2> QED
    BY <2>1, <2>2
<1> HIDE DEF feeds
<1>7. /\ TasksOK([feeds EXCEPT !["ask"] = None])
      /\ [feeds EXCEPT !["ask"] = None]["ask"] = None
      /\ \A r \in Slots \ {"ask"} : [feeds EXCEPT !["ask"] = None][r] = feeds[r]
  BY <1>2, <1>5, TasksWithout
<1>8. /\ TasksOK(task') /\ task'["ask"] \in {None, task["ask"]}
      /\ task'["watch"] = None /\ task'["list"] = None /\ task'["late"] = left
  BY <1>5, <1>6, <1>7, SlotsAre
<1>9. TasksOK(task)'
  BY <1>1, <1>8, TasksStay
<1>10. Session'
  BY <1>1, <1>4, <1>8, SlotsAre DEF Inv, Session, Running, CarriesTheToken
<1>11. TypeOK'
  BY <1>1, <1>2 DEF TypeOK
<1>12. PaneIsOfOpenRoom' /\ UnreadIsTrue' /\ SeenIsShown'
  BY <1>1 DEF PaneIsOfOpenRoom, UnreadIsTrue, SeenIsShown
<1> QED
  BY <1>1, <1>9, <1>10, <1>11, <1>12 DEF Inv, State

\* An app that starts, the first time or again.
LEMMA NothingRuns ==
  ASSUME log \in Seq(Rooms)
  PROVE  /\ TasksOK([s \in Slots |-> None])
         /\ Nothing \in [Rooms -> 0..Len(log)]
<1>1. 0 \in 0..Len(log)
  OBVIOUS
<1> QED
  BY <1>1 DEF TasksOK, Nothing

LEMMA RestartStep ==
  ASSUME Inv, Restart
  PROVE  Inv'
<1>1. /\ system' = system /\ log' = log /\ issued' = issued /\ dead' = dead
      /\ token' = None /\ screen' = "signIn"
      /\ rooms' = Nothing /\ open' = None /\ held' = {} /\ seen' = Nothing /\ unread' = {}
      /\ shown' = Nothing /\ task' = [s \in Slots |-> None]
  BY DEF Restart, server
<1>2. log \in Seq(Rooms) /\ TypeOK
  BY DEF Inv, State
<1>3. TasksOK(task') /\ Nothing \in [Rooms -> 0..Len(log)]
  <2>1. TasksOK([s \in Slots |-> None]) /\ Nothing \in [Rooms -> 0..Len(log)]
    BY <1>2, NothingRuns
  <2> QED
    BY <1>1, <2>1, Zenon
<1>4. TasksOK(task)'
  BY <1>1, <1>3, TasksStay
<1>5. TypeOK'
  BY <1>1, <1>2, <1>3 DEF TypeOK
<1>6. Session' /\ PaneIsOfOpenRoom' /\ UnreadIsTrue' /\ SeenIsShown'
  BY <1>1, SlotsAre DEF Session, Running, PaneIsOfOpenRoom, UnreadIsTrue, SeenIsShown
<1> QED
  BY <1>1, <1>4, <1>5, <1>6 DEF Inv, State

-----------------------------------------------------------------------------
(* The invariant, and what follows. *)

LEMMA InvStarts == Init => Inv
<1> SUFFICES ASSUME Init PROVE Inv
  OBVIOUS
<1>1. /\ system \in {"android", "ios"} /\ log = << >> /\ issued = 0 /\ dead = {}
      /\ token = None /\ screen = "signIn"
      /\ rooms = Nothing /\ open = None /\ held = {} /\ seen = Nothing /\ unread = {}
      /\ shown = Nothing /\ task = [s \in Slots |-> None]
  BY PhoneAssumption DEF Init
<1>2. log \in Seq(Rooms)
  BY <1>1
<1>3. TasksOK(task) /\ Nothing \in [Rooms -> 0..Len(log)]
  <2>1. TasksOK([s \in Slots |-> None]) /\ Nothing \in [Rooms -> 0..Len(log)]
    BY <1>2, NothingRuns
  <2> QED
    BY <1>1, <2>1, Zenon
<1>4. TypeOK
  BY <1>1, <1>3, PhoneAssumption DEF TypeOK
<1>5. Session /\ PaneIsOfOpenRoom /\ UnreadIsTrue /\ SeenIsShown
  BY <1>1, SlotsAre DEF Session, Running, PaneIsOfOpenRoom, UnreadIsTrue, SeenIsShown
<1> QED
  BY <1>1, <1>2, <1>3, <1>4, <1>5 DEF Inv, State

LEMMA InvStutters ==
  ASSUME Inv, UNCHANGED vars
  PROVE  Inv'
<1>1. /\ UNCHANGED <<system, server, token, front, drawn, shown, task>> /\ screen' = screen
  BY DEF vars, drawn
<1>2. TasksOK(task')
  BY <1>1 DEF Inv, State
<1>3. Session'
  BY <1>1 DEF Inv, Session, Running, CarriesTheToken
<1> QED
  BY <1>1, <1>2, <1>3, ServerStays DEF Inv

LEMMA InvSteps == Inv /\ [Next]_vars => Inv'
<1> SUFFICES ASSUME Inv, [Next]_vars PROVE Inv'
  OBVIOUS
<1>1. CASE Leave
  BY <1>1, LeaveStep
<1>2. CASE Return
  BY <1>2, ReturnStep
<1>3. CASE \E call \in {"login", "send", "create"} : Ask(call)
  BY <1>3, AskStep
<1>4. CASE \E room \in Rooms : OpenRoom(room) \/ Post(room)
  BY <1>4, OpenRoomStep, PostStep
<1>5. CASE \E s \in Slots :
             Serve(s) \/ Fail(s) \/ SignOut(s) \/ BatchLands(s) \/ ListLands(s)
  BY <1>5, ServeStep, FailStep, SignOutStep, BatchLandsStep, ListLandsStep
<1>6. CASE Read \/ LoggedIn \/ LogInLands \/ Send \/ SendLands \/ Created
  BY <1>6, ReadStep, LoggedInStep, LogInLandsStep, SendStep, SendLandsStep, CreatedStep
<1>7. CASE Expire \/ Restart
  BY <1>7, ExpireStep, RestartStep
<1>8. CASE UNCHANGED vars
  BY <1>8, InvStutters
<1> QED
  BY <1>1, <1>2, <1>3, <1>4, <1>5, <1>6, <1>7, <1>8 DEF Next

LEMMA InvHolds == Spec => []Inv
BY InvStarts, InvSteps, PTL DEF Spec

\* The state keeps its shape: what is held and what is drawn is of seqs and
\* rooms there are, and a chat screen has a room open.
THEOREM TypeCorrect == Spec => []TypeOK
<1>1. Inv => TypeOK
  BY DEF Inv, State
<1> QED
  BY InvHolds, <1>1, PTL

\* ChatViewModel.kt applyBatch, ChatViewModel.swift readMessages: whatever
\* replies land after the reader moved on, the pane holds messages of the open
\* room only.
THEOREM PaneShowsOpenRoom == Spec => []PaneIsOfOpenRoom
<1>1. Inv => PaneIsOfOpenRoom
  BY DEF Inv
<1> QED
  BY InvHolds, <1>1, PTL

\* Unread.of, unreadRooms: no room that is not open has something newer than the
\* reader was shown of it and is not drawn as unread; on Android no other is drawn so.
THEOREM UnreadMarksTrue == Spec => []UnreadIsTrue
<1>1. Inv => UnreadIsTrue
  BY DEF Inv
<1> QED
  BY InvHolds, <1>1, PTL

\* stopPolling, ask and signedOut: on Android the app gives up a token only when
\* the server refuses that very token, or when the process ends.
THEOREM GoodSessionIsKept == Spec => GoodSessionStands
<1>1. ASSUME Inv, [Next]_vars PROVE [system = "android" => ~Forgets]_vars
  <2> SUFFICES ASSUME Next, system = "android", Forgets PROVE FALSE
    BY <1>1
  <2>1. token # None /\ token' = None /\ token \notin dead /\ ~Restart
    BY DEF Forgets
  <2>2. \E s \in Slots : SignOut(s)
    <3>1. ASSUME LoggedIn PROVE FALSE
      BY <1>1, <2>1, <3>1, PhoneAssumption DEF LoggedIn, Inv, State, TypeOK
    <3> QED
      BY <2>1, <3>1 DEF Next, Leave, Return, Ask, OpenRoom, Post, Serve, Fail, BatchLands,
         ListLands, Read, LogInLands, Send, SendLands, Created, Expire
  <2>3. PICK s \in Slots : Running(s) /\ task[s].step = "out" /\ task[s].token \in dead
    BY <2>2 DEF SignOut
  <2>4. task[s].token # None
    <3>1. dead \subseteq 1..issued /\ issued \in 0..MaxTokens
      BY <1>1 DEF Inv, State, TypeOK
    <3>2. None \notin Nat /\ MaxTokens \in Nat
      BY PhoneAssumption
    <3>3. ASSUME NEW t \in dead PROVE t \in Nat
      BY <3>1, <3>2
    <3>4. \A t \in dead : t # None
      BY <3>2, <3>3
    <3> QED
      BY <2>3, <3>4, Zenon
  <2>5. token \in {None, task[s].token}
    BY <1>1, <2>3, <2>4 DEF Inv, Session, CarriesTheToken
  <2> QED
    BY <2>1, <2>3, <2>5
<1> QED
  BY InvHolds, <1>1, PTL DEF Spec, GoodSessionStands
=============================================================================
