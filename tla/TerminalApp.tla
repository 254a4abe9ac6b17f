---------------------------- MODULE TerminalApp -----------------------------
(***************************************************************************)
(* The terminal client: chat-ui-ratatui/src/app.rs, with the chat screen   *)
(* (screens/chat.rs, screens/chat/commands.rs) and the sign-in screen.     *)
(*                                                                         *)
(* One loop owns every screen and wakes on a key, a batch of the open      *)
(* room's stream, a list of the sidebar's stream, or the answer of the one *)
(* call that runs away from it.  What comes back is applied to whatever is *)
(* on screen by then.  Behind it is the server, which others use as well: a*)
(* call is served at one moment and answered at a later one, and may fail  *)
(* whether or not it was served.  A request whose caller has given up and  *)
(* that is carried out all the same is a post like anyone else's.          *)
(*                                                                         *)
(* The open room's stream is what MessagesFeed.tla shows it to be: the     *)
(* room's messages in order from the page it was opened with.  Errors that *)
(* are only shown, scrolling and the credentials typed are left out.       *)
(***************************************************************************)
EXTENDS MessageLog

CONSTANTS
  MaxRooms,     \* bound: how many rooms are created; room 1 is the lobby
  MaxSeq,       \* bound: the last seq handed out
  PageLimit,    \* PollConfig.page_limit
  Lines,        \* what the user types: of "text", "create", "help", "malformed"
  MaxRebuilds,  \* bound: how often the server rebuilds its database
  None

ASSUME TerminalAssumption ==
  /\ MaxRooms \in Nat \ {0}
  /\ MaxSeq \in Nat
  /\ PageLimit \in Nat \ {0}
  /\ Lines \subseteq {"text", "create", "help", "malformed"}
  /\ MaxRebuilds \in Nat
  /\ None \notin Nat /\ None # [list |-> None] /\ None \notin [list : Seq(Nat)]

VARIABLES
  log, handedOut,             \* server: the seqs of each room's messages; the last one given
  roomCount, rebuilds,        \* server: the rooms; rebuilds so far
  screen,                     \* which screen is showing
  chat,                       \* the chat screen, blank on any other
  messages,                   \* the open room's stream: its room, what it has handed over up
                              \* to, and what it has read since
  sidebar,                    \* the sidebar's stream, or None; a list it has read, or waiting
  reopen,                     \* whether opening the room failed
  pending, out,               \* Background: is a call out; the calls that will be answered
  seen,                       \* history: the newest seq of each room the user was shown, or
                              \* that was there at sign-in
  acked                       \* history: the seq of the latest send that was answered

server == <<log, handedOut, roomCount, rebuilds>>
vars == <<log, handedOut, roomCount, rebuilds, screen, chat, messages, sidebar, reopen,
          pending, out, seen, acked>>

Rooms == 1..MaxRooms

\* The server lists rooms by id, so the place of a room in the list is its id.
Blank == [listed |-> << >>, selected |-> 1, pane |-> << >>, watched |-> None,
          last_read |-> [r \in Rooms |-> 0], input |-> "blank", notices |-> "none"]

NoStream == [room |-> None, cursor |-> 0, batch |-> << >>]

Waiting == [list |-> None]

\* A call: what is asked, of which room, and what the server made of it.
CallOf(kind, room) == [kind |-> kind, room |-> room, served |-> FALSE, result |-> << >>]

\* A database without messages.
NoMessages == [r \in Rooms |-> << >>]

Init ==
  /\ log = NoMessages /\ handedOut = 0 /\ roomCount = 1 /\ rebuilds = 0
  /\ screen = "connection"
  /\ chat = Blank
  /\ messages = NoStream /\ sidebar = None
  /\ reopen = FALSE
  /\ pending = FALSE /\ out = {}
  /\ seen = [r \in Rooms |-> 0] /\ acked = 0

-----------------------------------------------------------------------------
(* The server. *)

Latest(room) == IF log[room] = << >> THEN 0 ELSE log[room][Len(log[room])]

\* list_rooms: the newest seq of every room.
List == [r \in 1..roomCount |-> Latest(r)]

client == <<screen, chat, messages, sidebar, reopen, pending, out, seen, acked>>

\* A message takes the next seq of all.
Post(room) ==
  /\ handedOut < MaxSeq
  /\ handedOut' = handedOut + 1
  /\ log' = [log EXCEPT ![room] = Append(@, handedOut + 1)]

\* Someone posts: another user, or a request this client gave up on.
OthersPost(room) ==
  /\ room <= roomCount
  /\ Post(room)
  /\ UNCHANGED <<roomCount, rebuilds, client>>

OthersCreate ==
  /\ roomCount < MaxRooms
  /\ roomCount' = roomCount + 1
  /\ UNCHANGED <<log, handedOut, rebuilds, client>>

\* The server restarts with another schema version; tokens stay good.
Rebuild ==
  /\ rebuilds < MaxRebuilds
  /\ rebuilds' = rebuilds + 1
  /\ log' = NoMessages /\ handedOut' = 0
  /\ roomCount' = 1
  /\ UNCHANGED client

\* What a call is answered with once it is served, and what it changes.
Outcome(c) ==
  CASE c.kind = "login" -> List
    [] c.kind = "open"  -> Newest(log[c.room], PageLimit)
    [] c.kind = "send"  -> <<handedOut + 1>>
    [] OTHER            -> << >>

Serve(c) ==
  /\ ~c.served
  /\ c.kind \in {"open", "send"} => c.room <= roomCount
  /\ out' = (out \ {c}) \cup {[kind |-> c.kind, room |-> c.room, served |-> TRUE,
                                 result |-> Outcome(c)]}
  /\ IF c.kind = "send" THEN Post(c.room) ELSE UNCHANGED <<log, handedOut>>
  /\ roomCount' = IF c.kind = "create" /\ roomCount < MaxRooms
                    THEN roomCount + 1 ELSE roomCount
  /\ UNCHANGED <<rebuilds, screen, chat, messages, sidebar, reopen, pending, seen, acked>>

-----------------------------------------------------------------------------
(* The chat screen: what its methods make of it. *)

\* clear
Cleared(c) == [c EXCEPT !.pane = << >>, !.notices = "none", !.watched = None]

\* show_rooms
Shown(c, list) ==
  [c EXCEPT !.listed = list,
            !.selected = IF c.selected <= Len(list) THEN c.selected ELSE 1]

\* Mutant of Appended: the room is marked read up to the start of the batch.
AppendedMarksFirst(c, batch) ==
  [c EXCEPT !.pane = @ \o batch, !.last_read[c.selected] = batch[1]]

\* append
Appended(c, batch) ==
  [c EXCEPT !.pane = @ \o batch, !.last_read[c.selected] = batch[Len(batch)]]

\* warn
Warned(c) == [c EXCEPT !.notices = "warning"]

\* Chat::new: the lobby is selected, and every room is read as it stands.
Fresh(list) ==
  [Blank EXCEPT !.listed = list,
                !.last_read = [r \in Rooms |-> IF r <= Len(list) THEN list[r] ELSE 0]]

\* unread
Unread(room) ==
  /\ chat.watched # room
  /\ chat.listed[room] > chat.last_read[room]

-----------------------------------------------------------------------------
(* The calls: ask, and what becomes of the app when a session has ended. *)

\* `ask`, by a key: the screens refuse those keys while a call is out.
Ask(kind, room) ==
  /\ pending' = TRUE
  /\ out' = out \cup {CallOf(kind, room)}

\* The answer of c is read, which makes room for another call.
Answered(c) ==
  /\ c \in out
  /\ pending' = FALSE
  /\ out' = out \ {c}

\* The answer of c leads to another call.
AskNext(c, kind, room) ==
  /\ c \in out
  /\ pending' = TRUE
  /\ out' = (out \ {c}) \cup {CallOf(kind, room)}

\* Mutant of SignedOut: the calls still out are answered to the next session.
SignedOutKeepsCalls ==
  /\ screen' = "signin"
  /\ chat' = Blank
  /\ messages' = NoStream /\ sidebar' = None
  /\ reopen' = FALSE
  /\ pending' = FALSE
  /\ UNCHANGED out

\* signed_out: a fresh screen, no streams, and a new Background, so the answers
\* of the old one are never read.
SignedOut ==
  /\ screen' = "signin"
  /\ chat' = Blank
  /\ messages' = NoStream /\ sidebar' = None
  /\ reopen' = FALSE
  /\ pending' = FALSE /\ out' = {}

-----------------------------------------------------------------------------
(* The connection and the sign-in screen. *)

Connect ==
  /\ screen = "connection" /\ ~pending
  /\ Ask("connect", 1)
  /\ UNCHANGED <<server, screen, chat, messages, sidebar, reopen, seen, acked>>

Connected(c) ==
  /\ c.kind = "connect" /\ c.served
  /\ Answered(c)
  /\ screen' = "signin"
  /\ UNCHANGED <<server, chat, messages, sidebar, reopen, seen, acked>>

Register ==
  /\ screen = "signin" /\ ~pending
  /\ Ask("register", 1)
  /\ UNCHANGED <<server, screen, chat, messages, sidebar, reopen, seen, acked>>

\* The account is there: signing in follows.
Registered(c) ==
  /\ c.kind = "register" /\ c.served
  /\ AskNext(c, "login", 1)
  /\ UNCHANGED <<server, screen, chat, messages, sidebar, reopen, seen, acked>>

LogIn ==
  /\ screen = "signin" /\ ~pending
  /\ Ask("login", 1)
  /\ UNCHANGED <<server, screen, chat, messages, sidebar, reopen, seen, acked>>

\* The chat opens on the lobby, and its messages are asked for.
LoggedIn(c) ==
  /\ c.kind = "login" /\ c.served
  /\ screen' = "chat"
  /\ chat' = Cleared(Fresh(c.result))
  /\ sidebar' = Waiting
  /\ messages' = NoStream
  /\ AskNext(c, "open", 1)
  /\ seen' = [r \in Rooms |-> IF r <= Len(c.result) THEN c.result[r] ELSE 0]
  /\ UNCHANGED <<server, reopen, acked>>

\* A call of these screens fails, served or not: its error is shown.
EntryFailed(c) ==
  /\ c.kind \in {"connect", "register", "login"}
  /\ Answered(c)
  /\ UNCHANGED <<server, screen, chat, messages, sidebar, reopen, seen, acked>>

-----------------------------------------------------------------------------
(* Keys of the chat screen. *)

Type(line) ==
  /\ screen = "chat"
  /\ chat.input # line
  /\ chat' = [chat EXCEPT !.input = line]
  /\ UNCHANGED <<server, screen, messages, sidebar, reopen, pending, out, seen, acked>>

\* Enter on a line that needs no server: /help, or a name that is none.
Note ==
  /\ screen = "chat"
  /\ chat.input \in {"help", "malformed"}
  /\ chat' = [chat EXCEPT !.input = "blank",
                          !.notices = IF chat.input = "help" THEN "help" ELSE "warning"]
  /\ UNCHANGED <<server, screen, messages, sidebar, reopen, pending, out, seen, acked>>

\* Enter on a message, or on /room with a name; refused while a call is out.
Submit ==
  /\ screen = "chat" /\ ~pending
  /\ chat.input \in {"text", "create"}
  /\ chat' = [chat EXCEPT !.input = "blank", !.notices = "none"]
  /\ Ask(IF chat.input = "text" THEN "send" ELSE "create", chat.selected)
  /\ UNCHANGED <<server, screen, messages, sidebar, reopen, seen, acked>>

\* Mutant of Tab: the selection moves before a call already out is looked at.
TabUnchecked(room) ==
  /\ screen = "chat"
  /\ room \in 1..Len(chat.listed) \cap {chat.selected - 1, chat.selected + 1}
  /\ IF pending
       THEN /\ chat' = [chat EXCEPT !.selected = room, !.pane = << >>]
            /\ UNCHANGED <<messages, pending, out>>
       ELSE /\ chat' = Cleared([chat EXCEPT !.selected = room])
            /\ messages' = NoStream
            /\ Ask("open", room)
  /\ UNCHANGED <<server, screen, sidebar, reopen, seen, acked>>

\* Mutant of Tab: the room left behind stays in the pane until the next one comes.
TabKeepsPane(room) ==
  /\ screen = "chat" /\ ~pending
  /\ room \in 1..Len(chat.listed) \cap {chat.selected - 1, chat.selected + 1}
  /\ chat' = [chat EXCEPT !.selected = room, !.watched = None]
  /\ messages' = NoStream
  /\ Ask("open", room)
  /\ UNCHANGED <<server, screen, sidebar, reopen, seen, acked>>

\* Tab and Shift+Tab: the next room or the one before is selected and opened.
Tab(room) ==
  /\ screen = "chat" /\ ~pending
  /\ room \in 1..Len(chat.listed) \cap {chat.selected - 1, chat.selected + 1}
  /\ chat' = Cleared([chat EXCEPT !.selected = room])
  /\ messages' = NoStream
  /\ Ask("open", room)
  /\ UNCHANGED <<server, screen, sidebar, reopen, seen, acked>>

\* Esc or Ctrl+C, and the next launch: nothing is kept.
Quit ==
  /\ screen # "connection"
  /\ screen' = "connection"
  /\ chat' = Blank
  /\ messages' = NoStream /\ sidebar' = None
  /\ reopen' = FALSE
  /\ pending' = FALSE /\ out' = {}
  /\ seen' = [r \in Rooms |-> 0] /\ acked' = 0
  /\ UNCHANGED server

-----------------------------------------------------------------------------
(* Answers to the chat screen's calls. *)

\* The feed is open, its first page in hand.
RoomOpened(c) ==
  /\ c.kind = "open" /\ c.served
  /\ Answered(c)
  /\ reopen' = FALSE
  /\ chat' = [chat EXCEPT !.watched = c.room]
  /\ messages' = [room |-> c.room, batch |-> c.result,
                  cursor |-> IF c.result = << >> THEN 0 ELSE c.result[Len(c.result)]]
  /\ UNCHANGED <<server, screen, sidebar, seen, acked>>

\* Mutant of RoomNotOpened: nothing asks for the room again.
RoomNotOpenedGivesUp(c) ==
  /\ c.kind = "open"
  /\ Answered(c)
  /\ chat' = Warned(chat)
  /\ UNCHANGED <<server, screen, messages, sidebar, reopen, seen, acked>>

\* The room was not opened: the next list asks for it again.
RoomNotOpened(c) ==
  /\ c.kind = "open"
  /\ Answered(c)
  /\ reopen' = TRUE
  /\ chat' = Warned(chat)
  /\ UNCHANGED <<server, screen, messages, sidebar, seen, acked>>

\* Nothing to show: the message arrives on the stream.
MessageSent(c) ==
  /\ c.kind = "send" /\ c.served
  /\ Answered(c)
  /\ acked' = c.result[1]
  /\ UNCHANGED <<server, screen, chat, messages, sidebar, reopen, seen>>

\* The send failed as far as the client can tell: the text is put back.
MessageNotSent(c) ==
  /\ c.kind = "send"
  /\ Answered(c)
  /\ chat' = Warned([chat EXCEPT !.input = "text"])
  /\ UNCHANGED <<server, screen, messages, sidebar, reopen, seen, acked>>

\* The sidebar picks a new room up on its own; a failure is shown.
RoomCreated(c) ==
  /\ c.kind = "create"
  /\ Answered(c)
  /\ \/ c.served /\ UNCHANGED chat
     \/ chat' = Warned(chat)
  /\ UNCHANGED <<server, screen, messages, sidebar, reopen, seen, acked>>

\* The session is over, says the answer of a call that carried its token.
AnsweredGone(c) ==
  /\ c.kind \in {"login", "open", "send", "create"} /\ ~c.served
  /\ c \in out
  /\ SignedOut
  /\ UNCHANGED <<server, seen, acked>>

-----------------------------------------------------------------------------
(* The streams. *)

\* The open room's stream reads what came after its cursor.
Fetch ==
  /\ messages.room # None
  /\ messages.batch = << >>
  /\ messages.room <= roomCount
  /\ After(log[messages.room], messages.cursor, PageLimit) # << >>
  /\ messages' = [room |-> messages.room, cursor |-> messages.cursor,
                  batch |-> After(log[messages.room], messages.cursor, PageLimit)]
  /\ UNCHANGED <<server, screen, chat, sidebar, reopen, pending, out, seen, acked>>

\* The reply to a fetch is lost, and its error shown; a page in hand is not.
FetchLost ==
  /\ messages.room # None
  /\ messages.batch # << >> /\ messages.batch[1] > messages.cursor
  /\ messages' = [room |-> messages.room, cursor |-> messages.cursor, batch |-> << >>]
  /\ UNCHANGED <<server, screen, chat, sidebar, reopen, pending, out, seen, acked>>

\* apply_messages, a batch.
ApplyMessages ==
  /\ messages.room # None
  /\ messages.batch # << >>
  /\ chat' = Appended(chat, messages.batch)
  /\ messages' = [room |-> messages.room, cursor |-> messages.batch[Len(messages.batch)],
                  batch |-> << >>]
  /\ seen' = [seen EXCEPT ![messages.room] = messages.batch[Len(messages.batch)]]
  /\ UNCHANGED <<server, screen, sidebar, reopen, pending, out, acked>>

\* The sidebar's stream reads the list.
ReadRooms ==
  /\ sidebar = Waiting
  /\ sidebar' = [list |-> List]
  /\ UNCHANGED <<server, screen, chat, messages, reopen, pending, out, seen, acked>>

ListLost ==
  /\ sidebar \notin {None, Waiting}
  /\ sidebar' = Waiting
  /\ UNCHANGED <<server, screen, chat, messages, reopen, pending, out, seen, acked>>

\* Mutant of ApplyRooms: only a key opens a room.
ApplyRoomsNeverReopens ==
  /\ sidebar \notin {None, Waiting}
  /\ chat' = Shown(chat, sidebar.list)
  /\ sidebar' = Waiting
  /\ UNCHANGED <<server, screen, messages, reopen, pending, out, seen, acked>>

\* apply_rooms, a list: the sidebar is replaced, and a room that failed to open
\* is asked for again unless a call is out.
ApplyRooms ==
  /\ sidebar \notin {None, Waiting}
  /\ sidebar' = Waiting
  /\ LET shown == Shown(chat, sidebar.list)
     IN  IF reopen /\ ~pending
           THEN /\ chat' = Cleared(shown)
                /\ messages' = NoStream
                /\ Ask("open", shown.selected)
           ELSE /\ chat' = shown
                /\ UNCHANGED <<messages, pending, out>>
  /\ UNCHANGED <<server, screen, reopen, seen, acked>>

\* A stream is told that the session is over.
StreamGone ==
  /\ sidebar # None
  /\ SignedOut
  /\ UNCHANGED <<server, seen, acked>>

-----------------------------------------------------------------------------

Keys ==
  \/ Connect \/ Register \/ LogIn
  \/ \E line \in Lines : Type(line)
  \/ Note \/ Submit
  \/ \E room \in Rooms : Tab(room)
  \/ Quit

Answers ==
  \E c \in out :
    \/ Connected(c) \/ Registered(c) \/ LoggedIn(c) \/ EntryFailed(c)
    \/ RoomOpened(c) \/ RoomNotOpened(c)
    \/ MessageSent(c) \/ MessageNotSent(c) \/ RoomCreated(c)
    \/ AnsweredGone(c)

Streams ==
  Fetch \/ FetchLost \/ ApplyMessages \/ ReadRooms \/ ListLost \/ ApplyRooms \/ StreamGone

Server ==
  \/ \E room \in Rooms : OthersPost(room)
  \/ OthersCreate \/ Rebuild
  \/ \E c \in out : Serve(c)

Next == Keys \/ Answers \/ Streams \/ Server

Spec == Init /\ [][Next]_vars

\* Calls are answered and the sidebar's stream goes on.  Nothing of the network
\* is reliable, only not for ever unreliable: of calls made again and again some
\* are served and answered with it, and of the lists read and shown again and
\* again some are while the user has no call out.
Fairness ==
  /\ SF_vars(\E c \in out : c.kind = "open" /\ Serve(c))
  /\ SF_vars(\E c \in out : RoomOpened(c))
  /\ WF_vars(\E c \in out : RoomNotOpened(c) \/ MessageSent(c) \/ MessageNotSent(c)
                             \/ RoomCreated(c))
  /\ SF_vars(~pending /\ ReadRooms)
  /\ SF_vars(~pending /\ ApplyRooms)

FairSpec == Spec /\ Fairness

-----------------------------------------------------------------------------
(* Properties. *)

\* Every variable has its type; streams and reopen are the chat screen's.
TypeOK ==
  /\ log \in [Rooms -> Seq(1..MaxSeq)] /\ handedOut \in 0..MaxSeq /\ roomCount \in Rooms
  /\ screen \in {"connection", "signin", "chat"}
  /\ chat.listed \in Seq(0..MaxSeq) /\ chat.pane \in Seq(1..MaxSeq)
  /\ chat.selected \in Rooms /\ chat.watched \in Rooms \cup {None}
  /\ chat.last_read \in [Rooms -> 0..MaxSeq]
  /\ chat.input \in {"blank", "text", "create", "help", "malformed"}
  /\ chat.notices \in {"none", "help", "warning"}
  /\ screen = "chat" <=> sidebar # None
  /\ screen # "chat" => messages = NoStream /\ ~reopen /\ chat = Blank
  /\ messages.room \in Rooms \cup {None} /\ messages.cursor \in 0..MaxSeq
  /\ messages.batch \in Seq(1..MaxSeq)
  /\ pending <=> out # {}
  /\ seen \in [Rooms -> 0..MaxSeq] /\ acked \in 0..MaxSeq

\* The stream, a call to open a room and the mark of being watched are all about
\* the room that is selected, which is the one a typed message goes to:
\* "The open room's messages" (app.rs:127).
StreamIsOfOpenRoom ==
  screen = "chat" =>
    /\ messages.room \in {chat.selected, None}
    /\ \A c \in out : c.kind = "open" => c.room = chat.selected
    /\ chat.watched = messages.room

\* The pane shows the selected room's messages as the server holds them, next to
\* one another, and the stream continues right behind them, whatever keys, lists
\* and answers came in between.
PaneIsOfOpenRoom ==
  screen = "chat" =>
    LET own == log[chat.selected]
    IN  \E p \in 0..Len(own) :
          Window(own, p, chat.pane \o messages.batch)

\* A chat that watches nothing has asked for its room, or will with the next
\* list: no order of keys, failures and lists leaves the pane dead.
NeverUnwatched ==
  screen = "chat" /\ messages.room = None =>
    reopen \/ \E c \in out : c.kind = "open"

\* A room that is not being watched is marked unread exactly if the list shows
\* a message newer than the user was shown.
UnreadIsTrue ==
  screen = "chat" => \A room \in 1..Len(chat.listed) :
    chat.watched # room => (Unread(room) <=> chat.listed[room] > seen[room])

\* "One at a time, so sends keep their order" (app.rs:81): what was answered
\* later is later in the room.
SendsKeepOrder == [][acked' # acked /\ acked' # 0 => acked' > acked]_vars

\* A room that failed to open is watched again in the end.
WatchedAgain ==
  (screen = "chat" /\ messages.room = None) ~> (screen # "chat" \/ messages.room # None)
=============================================================================
