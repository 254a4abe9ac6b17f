------------------------------- MODULE PhoneApp -------------------------------
(***************************************************************************)
(* The view model of the two phone apps: ChatViewModel.kt with Feeds.kt    *)
(* and RoomName.kt on Android, ChatViewModel.swift on iOS, over the Kotlin *)
(* and Swift ChatClient.  One model for both: they differ in where a feed  *)
(* resumes from (Read, Fail), in what a cancelled read may still do (Left),*)
(* in who starts the feeds (Started, LogInLands) and in what creating a    *)
(* room is followed by (Created).                                          *)
(*                                                                         *)
(* Everything runs on the main thread, between awaits: a request out is a  *)
(* task, and its reply is applied when it lands, to whatever the state is  *)
(* by then.                                                                *)
(***************************************************************************)
EXTENDS Naturals, Sequences, FiniteSets

CONSTANTS
  Systems,    \* which phones: "android", "ios"
  Rooms,      \* the rooms there are: 1, the lobby, comes first in any list
  Page,       \* ChatClient.PAGE
  MaxSeq,     \* bound: messages posted
  MaxTokens,  \* bound: logins
  None

ASSUME PhoneAssumption ==
  /\ Systems \subseteq {"android", "ios"}
  /\ Rooms \subseteq Nat /\ 1 \in Rooms
  /\ Page \in Nat \ {0} /\ MaxSeq \in Nat /\ MaxTokens \in Nat
  /\ None \notin Nat

VARIABLES
  system,   \* "android" or "ios", for good
  log,      \* the server: the room of each message, in the order of seqs
  issued,   \* the server: how many tokens it has given out
  dead,     \* the server: the tokens it no longer takes
  token,    \* the ChatClient's, or None
  screen,   \* "signIn" or "chat"
  front,    \* the app is in the foreground
  rooms,    \* the room list: the newest seq of each room
  open,     \* openRoomId
  held,     \* messages: the seqs in the pane
  seen,     \* Unread.lastSeen, `seen` on iOS
  unread,   \* rooms drawn as unread
  shown,    \* history: the newest seq of each room that the reader was shown,
            \*   or that was there when they signed in
  task      \* what runs in each slot

server == <<log, issued, dead>>
drawn  == <<screen, rooms, open, held, seen, unread>>
vars   == <<system, server, token, front, drawn, shown, task>>

\* The call the reader asked for (`pending`), the two feeds, and on iOS one
\* read of a feed that was cancelled; bound: no more than one such read.
Slots == {"ask", "watch", "list", "late"}

\* A task: what it calls, for which room, from which seq on; whether it is due,
\* out with its token, or back with a page or a list.  The room list is read
\* without a pause: what it asks for is the same at any time.
Due(call, room) ==
  [call |-> call, room |-> room, from |-> 0, step |-> "due", token |-> None,
   seqs |-> {}, list |-> << >>]

\* A login is the one call without a token.
Sent(call, room) ==
  [Due(call, room) EXCEPT !.step = "out", !.token = IF call = "login" THEN None ELSE token]

Highest(seqs) == IF seqs = {} THEN 0 ELSE CHOOSE n \in seqs : \A m \in seqs : m <= n

Seqs(room) == {n \in 1..Len(log) : log[n] = room}

Latest == [room \in Rooms |-> Highest(Seqs(room))]

\* A page of the room: the oldest after `from`, or the newest.
PageOf(room, from) ==
  LET found == {n \in Seqs(room) : n > from}
      rank(n) == Cardinality({m \in found : IF from = 0 THEN m >= n ELSE m <= n})
  IN  {n \in found : rank(n) <= Page}

\* Unread.of, unreadRooms.
UnreadOf(list, room, read) == {r \in Rooms \ {room} : list[r] > read[r]}

Nothing == [r \in Rooms |-> 0]

Init ==
  /\ system \in Systems
  /\ log = << >> /\ issued = 0 /\ dead = {}
  /\ token = None
  /\ screen = "signIn" /\ front = TRUE
  /\ rooms = Nothing /\ open = None /\ held = {} /\ seen = Nothing /\ unread = {}
  /\ shown = Nothing
  /\ task = [s \in Slots |-> None]

-----------------------------------------------------------------------------
(* Starting and stopping the feeds. *)

Running(s) == task[s] # None

Leavings(feeds) ==
  {task["late"]} \cup
    {task[s] : s \in {f \in feeds : ~Running("late") /\ Running(f) /\ task[f].step # "due"}}

\* Mutant of Left: a cancelled coroutine goes on when its call returns.
LeftByAll(feeds) == Leavings(feeds)

\* What may be left in `late` of the feeds that are cancelled: a coroutine does
\* not go on when its call returns; a Task does, if the call heeds no cancel.
Left(feeds) == IF system = "android" THEN {None} ELSE Leavings(feeds)

Feeds(watch, list, late) ==
  [task EXCEPT !["watch"] = watch, !["list"] = list, !["late"] = late]

Stopped == {Feeds(None, None, late) : late \in Left({"watch", "list"})}

\* Android starts the feeds that are not active, iOS both anew.
Started(room) ==
  LET kept(s, due) == IF system = "android" /\ Running(s) THEN task[s] ELSE due
  IN  {Feeds(kept("watch", Due("messages", room)), kept("list", Sent("rooms", None)), late) :
         late \in Left({"watch", "list"})}

Watched(room) ==
  {Feeds(Due("messages", room), task["list"], late) : late \in Left({"watch"})}

\* A backgrounded app stops reading (MainActivity.kt, ChatApp.swift).
Leave ==
  /\ front
  /\ front' = FALSE
  /\ task' \in IF screen = "chat" THEN Stopped ELSE {task}
  /\ UNCHANGED <<system, server, token, drawn, shown>>

Return ==
  /\ ~front
  /\ front' = TRUE
  /\ task' \in IF screen = "chat" THEN Started(open) ELSE {task}
  /\ UNCHANGED <<system, server, token, drawn, shown>>

-----------------------------------------------------------------------------
(* What the reader does. *)

\* ask: one call at a time; a second one is refused, and changes nothing here.
Ask(call) ==
  /\ front
  /\ screen = IF call = "login" THEN "signIn" ELSE "chat"
  /\ ~Running("ask")
  /\ task' = [task EXCEPT !["ask"] = Sent(call, IF call = "send" THEN open ELSE None)]
  /\ UNCHANGED <<system, server, token, front, drawn, shown>>

\* Mutant of Opened: the room counts as read once it is opened.
OpenedMarksRead(room) ==
  /\ open' = room
  /\ held' = {}
  /\ seen' = [seen EXCEPT ![room] = rooms[room]]
  /\ unread' = UnreadOf(rooms, room, seen')
  /\ UNCHANGED <<rooms, shown>>

\* openRoom: the pane is emptied and the room watched; its messages are not
\* read yet.
Opened(room) ==
  /\ open' = room
  /\ held' = {}
  /\ unread' = UnreadOf(rooms, room, seen)
  /\ UNCHANGED <<rooms, seen, shown>>

OpenRoom(room) ==
  /\ front /\ screen = "chat"
  /\ system = "ios" => room # open
  /\ Opened(room)
  /\ task' \in Watched(room)
  /\ UNCHANGED <<system, server, token, front, screen>>

-----------------------------------------------------------------------------
(* A call, from the client to the server and back. *)

\* A feed's next read: Android's flow goes on from where this flow is, iOS
\* from the newest message it holds, in the room that is open now.
Read ==
  /\ Running("watch") /\ task["watch"].step = "due"
  /\ task' = [task EXCEPT
       !["watch"].step = "out", !["watch"].token = token,
       !["watch"].room = IF system = "ios" THEN open ELSE @,
       !["watch"].from = IF system = "ios" THEN Highest(held) ELSE @]
  /\ UNCHANGED <<system, server, token, front, drawn, shown>>

Out(s, call) == Running(s) /\ task[s].step = "out" /\ task[s].call = call

\* The server takes the token.
Taken(s) == task[s].token \notin dead \cup {None}

\* The server did what it was asked for, and its reply is on its way.
Replied(s, seqs, list) ==
  [task EXCEPT ![s].step = "back", ![s].token = None, ![s].seqs = seqs, ![s].list = list]

\* A page or a list is read at the server, or a room created there; the reply
\* lands later.
Serve(s) ==
  /\ \E call \in {"messages", "rooms", "listing", "create"} : Out(s, call)
  /\ Taken(s)
  /\ LET call == task[s].call
     IN  task' = Replied(s, IF call = "messages" THEN PageOf(task[s].room, task[s].from) ELSE {},
                            IF call \in {"rooms", "listing"} THEN Latest ELSE << >>)
  /\ UNCHANGED <<system, server, token, front, drawn, shown>>

\* A message is posted.
Send ==
  /\ Out("ask", "send") /\ Taken("ask")
  /\ Len(log) < MaxSeq
  /\ log' = Append(log, task["ask"].room)
  /\ task' = Replied("ask", {}, << >>)
  /\ UNCHANGED <<system, issued, dead, token, front, drawn, shown>>

Back(s, call) == Running(s) /\ task[s].step = "back" /\ task[s].call = call

Over(s) == task' = [task EXCEPT ![s] = None]

\* A feed goes on to its next read; what is read for nobody is over.
Again(s, from) ==
  task' = [task EXCEPT
    ![s] = CASE s = "watch" -> [Due("messages", @.room) EXCEPT !.from = from]
             [] s = "list"  -> Sent("rooms", None)
             [] OTHER       -> None]

\* The call fails: there is no token, the transport or the server fails, or the
\* reply is lost.  A feed is read again, Android's from the newest page on.
Fail(s) ==
  /\ Running(s) /\ task[s].step # "due"
  /\ Again(s, 0)
  /\ UNCHANGED <<system, server, token, front, drawn, shown>>

\* The token is refused: the ChatClient drops the one it holds, and signedOut
\* stops the feeds and shows the sign-in screen.
SignOut(s) ==
  /\ Running(s) /\ task[s].step = "out" /\ task[s].token \in dead
  /\ token' = None
  /\ screen' = "signIn"
  /\ held' = {} /\ unread' = {}
  /\ \E late \in Left({"watch", "list"} \ {s}) :
       task' = [Feeds(None, None, IF s = "late" THEN None ELSE late) EXCEPT
                  !["ask"] = IF s = "ask" THEN None ELSE @]
  /\ UNCHANGED <<system, server, front, rooms, open, seen, shown>>

-----------------------------------------------------------------------------
(* What lands. *)

\* The login is granted, and with its token logIn asks for the rooms.  Until the
\* reply is there nobody has the token: the two are one step.
LoggedIn ==
  /\ Out("ask", "login")
  /\ issued < MaxTokens /\ issued' = issued + 1
  /\ token' = issued'
  /\ task' = [task EXCEPT !["ask"] = [Sent("listing", None) EXCEPT !.token = token']]
  /\ UNCHANGED <<system, log, dead, front, drawn, shown>>

\* logIn ends: every room counts as read, and the first is open.  Android's
\* screen starts the feeds when it is in front, iOS's logIn in any case.
LogInLands ==
  /\ Back("ask", "listing")
  /\ rooms' = task["ask"].list /\ seen' = rooms' /\ shown' = rooms'
  /\ open' = 1 /\ held' = {}
  /\ screen' = "chat"
  /\ unread' = IF system = "android" THEN UnreadOf(rooms', 1, seen') ELSE unread
  /\ \E feeds \in (IF system = "ios" \/ front THEN Started(1) ELSE {task}) :
       task' = [feeds EXCEPT !["ask"] = None]
  /\ UNCHANGED <<system, server, token, front>>

\* send ends: the feed will bring the message.
SendLands ==
  /\ Back("ask", "send")
  /\ Over("ask")
  /\ UNCHANGED <<system, server, token, front, drawn, shown>>

\* createRoom ends; the name may be of a room there is.  iOS opens the room and
\* watches it, on whatever screen the reader is by then: after a sign-out the
\* feed runs on, behind the sign-in screen and without a token.
Created ==
  /\ Back("ask", "create")
  /\ \E room \in Rooms :
       IF system = "ios" /\ room # open
         THEN /\ Opened(room)
              /\ \E feeds \in Watched(room) : task' = [feeds EXCEPT !["ask"] = None]
         ELSE /\ Over("ask")
              /\ UNCHANGED <<rooms, open, held, seen, unread, shown>>
  /\ UNCHANGED <<system, server, token, front, screen>>

\* History: what is in the pane of the chat screen was shown.
PaneIsShown ==
  shown' = IF screen = "chat" THEN [shown EXCEPT ![open] = Highest({@} \cup held')] ELSE shown

\* Mutant of BatchLands: the room is assumed, not checked.
BatchLandsAnywhere(s) ==
  /\ Back(s, "messages")
  /\ LET batch == task[s].seqs
     IN  /\ held' = held \cup batch
         /\ seen' = IF open = None THEN seen
                    ELSE [seen EXCEPT ![open] = Highest({@} \cup batch)]
         /\ unread' = IF batch = {} THEN unread ELSE UnreadOf(rooms, open, seen')
         /\ PaneIsShown
         /\ Again(s, Highest({task[s].from} \cup batch))
  /\ UNCHANGED <<system, server, token, front, screen, rooms, open>>

\* applyBatch; readMessages from the await on.
BatchLands(s) ==
  /\ Back(s, "messages")
  /\ LET batch == task[s].seqs
         room  == task[s].room
     IN  /\ IF batch # {} /\ room = open
              THEN /\ held' = held \cup batch
                   /\ seen' = [seen EXCEPT ![room] = Highest({@} \cup batch)]
                   /\ unread' = UnreadOf(rooms, room, seen')
                   /\ PaneIsShown
              ELSE UNCHANGED <<held, seen, unread, shown>>
         /\ Again(s, Highest({task[s].from} \cup batch))
  /\ UNCHANGED <<system, server, token, front, screen, rooms, open>>

\* watchRooms' collector; readRooms from the await on.
ListLands(s) ==
  /\ Back(s, "rooms")
  /\ rooms' = task[s].list
  /\ unread' = UnreadOf(rooms', open, seen)
  /\ Again(s, 0)
  /\ UNCHANGED <<system, server, token, front, screen, open, held, seen, shown>>

-----------------------------------------------------------------------------
(* The server, and the phone. *)

Post(room) ==
  /\ Len(log) < MaxSeq
  /\ log' = Append(log, room)
  /\ UNCHANGED <<system, issued, dead, token, front, drawn, shown, task>>

Expire ==
  /\ \E t \in 1..issued : t \notin dead /\ dead' = dead \cup {t}
  /\ UNCHANGED <<system, log, issued, token, front, drawn, shown, task>>

\* The process ends, whoever ended it, and the app is started again.
Restart ==
  /\ token' = None
  /\ screen' = "signIn" /\ front' = TRUE
  /\ rooms' = Nothing /\ open' = None /\ held' = {} /\ seen' = Nothing /\ unread' = {}
  /\ shown' = Nothing
  /\ task' = [s \in Slots |-> None]
  /\ UNCHANGED <<system, server>>

Next ==
  \/ Leave \/ Return
  \/ \E call \in {"login", "send", "create"} : Ask(call)
  \/ \E room \in Rooms : OpenRoom(room) \/ Post(room)
  \/ \E s \in Slots :
       Serve(s) \/ Fail(s) \/ SignOut(s) \/ BatchLands(s) \/ ListLands(s)
  \/ Read \/ LoggedIn \/ LogInLands \/ Send \/ SendLands \/ Created
  \/ Expire \/ Restart

Spec == Init /\ [][Next]_vars

-----------------------------------------------------------------------------
(* Properties. *)

TypeOK ==
  /\ token \in Nat \cup {None} /\ issued \in 0..MaxTokens /\ dead \subseteq 1..issued
  /\ open \in Rooms \cup {None}
  /\ held \subseteq 1..Len(log) /\ unread \subseteq Rooms
  /\ rooms \in [Rooms -> 0..Len(log)] /\ seen \in [Rooms -> 0..Len(log)]
  /\ shown \in [Rooms -> 0..Len(log)]
  /\ screen = "chat" => open # None

\* The pane never holds a message of another room, whatever replies land after
\* the reader moved on ("The room is checked, not assumed", ChatViewModel.swift:299).
PaneIsOfOpenRoom == \A n \in held : log[n] = open

\* No room falls silent: of the rooms that are not open, each with something
\* newer than the reader was shown of it is drawn as unread; on Android no other
\* is.  To open a room is not to be shown it ("only a delivered batch does",
\* ChatViewModel.kt and ChatViewModel.swift openRoom).
UnreadIsTrue ==
  screen = "chat" =>
    LET news == UnreadOf(rooms, open, shown)
    IN  news \subseteq unread /\ (system = "android" => unread = news)

\* The phone gives up a token the server would still take.
Forgets == token # None /\ token' = None /\ token \notin dead /\ ~Restart

\* A session is given up only when the server refuses it: what is still out
\* with an older token does not end it, because stopping the feeds ends them
\* for good and the reader's own call keeps the next login waiting
\* (ChatViewModel.kt ask and stopPolling).
GoodSessionStands == [][system = "android" => ~Forgets]_vars

\* A late 401 "is about a token nobody holds any more, so it must leave the new
\* session alone" (chat-client-core/src/client/tests.rs:440), in a client that
\* is "structurally identical" (README.md:24).  On iOS a read that was
\* cancelled is not over, and its refusal ends whatever session there is.
NewSessionLeftAlone == [][~Forgets]_vars
=============================================================================
