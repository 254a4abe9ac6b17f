------------------------- MODULE TerminalAppProofs --------------------------
(***************************************************************************)
(* What holds of the terminal client for any number of rooms and messages  *)
(* and any page limit: it never leaves the open room without a stream and  *)
(* without a way to one; and, as long as the server keeps its database,    *)
(* the stream is that of the selected room, its marks of unread messages   *)
(* are true, and what the user sends arrives in the order it was sent.     *)
(***************************************************************************)
EXTENDS TerminalApp, MessageLogProofs

ChatFields == {"listed", "selected", "pane", "watched", "last_read", "input", "notices"}

Shape ==
  /\ roomCount \in Nat \ {0} /\ rebuilds \in Nat
  /\ DOMAIN chat = ChatFields
  /\ chat.selected \in Nat

\* One call at a time, of a kind its screen makes.
Calls ==
  /\ ~pending => out = {}
  /\ \A c, d \in out : c = d
  /\ \A c \in out : /\ c.room \in Nat
                    /\ c.kind \in {"open", "send", "create"} <=> screen = "chat"

Sidebar == sidebar # None => screen = "chat"

Basic == Shape /\ Calls /\ Sidebar /\ NeverUnwatched

\* Rooms are only ever added, and the lists still to be shown are no older than
\* the one that is: the selected room is on each.
ListsGrow ==
  /\ screen = "chat" => /\ Len(chat.listed) \in Nat
                        /\ chat.selected \in 1..Len(chat.listed)
                        /\ Len(chat.listed) <= roomCount
  /\ sidebar \notin {None, Waiting} => /\ Len(sidebar.list) \in Nat
                                       /\ Len(chat.listed) <= Len(sidebar.list)
                                       /\ Len(sidebar.list) <= roomCount
  /\ \A c \in out : c.kind = "login" /\ c.served => Len(c.result) \in 1..roomCount

Follows == ListsGrow /\ StreamIsOfOpenRoom

-----------------------------------------------------------------------------
(* The chat screen's methods. *)

LEMMA ClearedFacts ==
  ASSUME NEW c, DOMAIN c = ChatFields
  PROVE  /\ DOMAIN Cleared(c) = ChatFields
         /\ Cleared(c).listed = c.listed /\ Cleared(c).selected = c.selected
         /\ Cleared(c).watched = None
BY DEF Cleared, ChatFields

LEMMA ShownFacts ==
  ASSUME NEW c, NEW list, DOMAIN c = ChatFields
  PROVE  /\ DOMAIN Shown(c, list) = ChatFields
         /\ Shown(c, list).listed = list
         /\ Shown(c, list).selected = IF c.selected <= Len(list) THEN c.selected ELSE 1
         /\ Shown(c, list).watched = c.watched
BY DEF Shown, ChatFields

LEMMA AppendedFacts ==
  ASSUME NEW c, NEW batch, DOMAIN c = ChatFields
  PROVE  /\ DOMAIN Appended(c, batch) = ChatFields
         /\ Appended(c, batch).listed = c.listed
         /\ Appended(c, batch).selected = c.selected
         /\ Appended(c, batch).watched = c.watched
BY DEF Appended, ChatFields

LEMMA WarnedFacts ==
  ASSUME NEW c, DOMAIN c = ChatFields
  PROVE  /\ DOMAIN Warned(c) = ChatFields
         /\ Warned(c).listed = c.listed /\ Warned(c).selected = c.selected
         /\ Warned(c).watched = c.watched
BY DEF Warned, ChatFields

LEMMA FreshFacts ==
  ASSUME NEW list
  PROVE  /\ DOMAIN Fresh(list) = ChatFields
         /\ Fresh(list).listed = list /\ Fresh(list).selected = 1
BY DEF Fresh, Blank, ChatFields

LEMMA BlankFacts ==
  DOMAIN Blank = ChatFields /\ Blank.selected = 1
BY DEF Blank, ChatFields

LEMMA SameInterval ==
  ASSUME NEW m \in Nat, NEW n \in Nat, 1..m = 1..n
  PROVE  m = n
<1>1. CASE m < n
  <2>1. n \in 1..n /\ n \notin 1..m
    BY <1>1
  <2> QED
    BY <2>1
<1>2. CASE n < m
  <2>1. m \in 1..m /\ m \notin 1..n
    BY <1>2
  <2> QED
    BY <2>1
<1> QED
  BY <1>1, <1>2

\* The list the server answers with has every room.
LEMMA ListLen ==
  ASSUME roomCount \in Nat
  PROVE  Len(List) = roomCount
<1> DEFINE Seqs == {Latest(r) : r \in 1..roomCount}
<1>1. List \in [1..roomCount -> Seqs]
  BY DEF List
<1> HIDE DEF Seqs
<1>2. List \in Seq(Seqs)
  BY <1>1
<1>3. DOMAIN List = 1..Len(List) /\ Len(List) \in Nat
  BY <1>2, LenProperties
<1>4. DOMAIN List = 1..roomCount
  BY <1>1
<1> QED
  BY <1>3, <1>4, SameInterval

\* NoStream watches nothing.
LEMMA NoStreamFacts == NoStream.room = None
BY DEF NoStream

-----------------------------------------------------------------------------
(* No order of keys, failures and lists leaves the pane dead. *)

LEMMA BasicInit == Init => Basic
BY BlankFacts DEF Init, Basic, Shape, Calls, Sidebar, NeverUnwatched

LEMMA BasicStep == Basic /\ [Next]_vars => Basic'
<1> SUFFICES ASSUME Basic, [Next]_vars PROVE Basic'
  OBVIOUS
<1> USE DEF Basic, Shape, Calls, Sidebar, NeverUnwatched
<1>1. CASE UNCHANGED vars
  BY <1>1 DEF vars
<1>2. CASE Keys
  <2>1. CASE Connect
    <3> DEFINE d == CallOf("connect", 1)
    <3>1. pending' = TRUE /\ out' = {d}
      BY <2>1 DEF Connect, Ask
    <3>1a. d.kind = "connect" /\ d.room = 1
      BY DEF CallOf
    <3> HIDE DEF d
    <3> QED
      BY <2>1, <3>1, <3>1a DEF Connect, server
  <2>2. CASE Register
    <3> DEFINE d == CallOf("register", 1)
    <3>1. pending' = TRUE /\ out' = {d}
      BY <2>2 DEF Register, Ask
    <3>1a. d.kind = "register" /\ d.room = 1
      BY DEF CallOf
    <3> HIDE DEF d
    <3> QED
      BY <2>2, <3>1, <3>1a DEF Register, server
  <2>3. CASE LogIn
    <3> DEFINE d == CallOf("login", 1)
    <3>1. pending' = TRUE /\ out' = {d}
      BY <2>3 DEF LogIn, Ask
    <3>1a. d.kind = "login" /\ d.room = 1
      BY DEF CallOf
    <3> HIDE DEF d
    <3> QED
      BY <2>3, <3>1, <3>1a DEF LogIn, server
  <2>4. ASSUME NEW line \in Lines, Type(line) PROVE Basic'
    BY <2>4 DEF Type, server, ChatFields
  <2>5. CASE Note
    BY <2>5 DEF Note, server, ChatFields
  <2>6. CASE Submit
    <3> DEFINE kind == IF chat.input = "text" THEN "send" ELSE "create"
    <3> DEFINE d == CallOf(kind, chat.selected)
    <3>1. pending' = TRUE /\ out' = {d}
      BY <2>6 DEF Submit, Ask
    <3>1a. d.kind = kind /\ d.room = chat.selected
      BY DEF CallOf
    <3> HIDE DEF d
    <3>2. kind \in {"send", "create"}
      OBVIOUS
    <3> HIDE DEF kind
    <3>3. DOMAIN chat' = ChatFields /\ chat'.selected = chat.selected
      BY <2>6 DEF Submit, ChatFields
    <3> QED
      BY <2>6, <3>1, <3>2, <3>3, <3>1a DEF Submit, server
  <2>7. ASSUME NEW room \in Rooms, Tab(room) PROVE Basic'
    <3> DEFINE moved == [chat EXCEPT !.selected = room]
    <3>1. DOMAIN moved = ChatFields /\ moved.selected = room /\ room \in Nat
      BY TerminalAssumption DEF ChatFields, Rooms
    <3> HIDE DEF moved
    <3>2. DOMAIN Cleared(moved) = ChatFields /\ Cleared(moved).selected = room
      BY <3>1, ClearedFacts
    <3>3. chat' = Cleared(moved)
      BY <2>7 DEF Tab, moved
    <3> DEFINE d == CallOf("open", room)
    <3>4. pending' = TRUE /\ out' = {d}
      BY <2>7 DEF Tab, Ask
    <3>4a. d.kind = "open" /\ d.room = room
      BY DEF CallOf
    <3> HIDE DEF d
    <3> QED
      BY <2>7, <3>1, <3>2, <3>3, <3>4, <3>4a DEF Tab, server
  <2>8. CASE Quit
    BY <2>8, BlankFacts DEF Quit, server
  <2> QED
    BY <1>2, <2>1, <2>2, <2>3, <2>4, <2>5, <2>6, <2>7, <2>8 DEF Keys
<1>3. CASE Answers
  <2> SUFFICES ASSUME NEW c \in out,
                      \/ Connected(c) \/ Registered(c) \/ LoggedIn(c) \/ EntryFailed(c)
                      \/ RoomOpened(c) \/ RoomNotOpened(c)
                      \/ MessageSent(c) \/ MessageNotSent(c) \/ RoomCreated(c)
                      \/ AnsweredGone(c)
               PROVE  Basic'
    BY <1>3 DEF Answers
  <2>1. CASE Connected(c)
    BY <2>1 DEF Connected, Answered, server
  <2>2. CASE Registered(c)
    <3> DEFINE d == CallOf("login", 1)
    <3>1. pending' = TRUE /\ out' = {d}
      BY <2>2 DEF Registered, AskNext
    <3>1a. d.kind = "login" /\ d.room = 1
      BY DEF CallOf
    <3> HIDE DEF d
    <3> QED
      BY <2>2, <3>1, <3>1a DEF Registered, server
  <2>3. CASE LoggedIn(c)
    <3>1. DOMAIN chat' = ChatFields /\ chat'.selected = 1
      BY <2>3, ClearedFacts, FreshFacts DEF LoggedIn
    <3> DEFINE d == CallOf("open", 1)
    <3>2. pending' = TRUE /\ out' = {d}
      BY <2>3 DEF LoggedIn, AskNext
    <3>2a. d.kind = "open" /\ d.room = 1
      BY DEF CallOf
    <3> HIDE DEF d
    <3> QED
      BY <2>3, <3>1, <3>2, <3>2a DEF LoggedIn, server
  <2>4. CASE EntryFailed(c)
    BY <2>4 DEF EntryFailed, Answered, server
  <2>5. CASE RoomOpened(c)
    BY <2>5, TerminalAssumption DEF RoomOpened, Answered, server, ChatFields
  <2>6. CASE RoomNotOpened(c)
    BY <2>6, WarnedFacts DEF RoomNotOpened, Answered, server
  <2>7. CASE MessageSent(c)
    BY <2>7 DEF MessageSent, Answered, server
  <2>8. CASE MessageNotSent(c)
    <3>1. DOMAIN chat' = ChatFields /\ chat'.selected = chat.selected
      BY <2>8, WarnedFacts DEF MessageNotSent, ChatFields
    <3> QED
      BY <2>8, <3>1 DEF MessageNotSent, Answered, server
  <2>9. CASE RoomCreated(c)
    BY <2>9, WarnedFacts DEF RoomCreated, Answered, server
  <2>10. CASE AnsweredGone(c)
    BY <2>10, BlankFacts DEF AnsweredGone, SignedOut, server
  <2> QED
    BY <2>1, <2>2, <2>3, <2>4, <2>5, <2>6, <2>7, <2>8, <2>9, <2>10
<1>4. CASE Streams
  <2>1. CASE Fetch
    BY <2>1 DEF Fetch, server
  <2>2. CASE FetchLost
    BY <2>2 DEF FetchLost, server
  <2>3. CASE ApplyMessages
    BY <2>3, AppendedFacts DEF ApplyMessages, server
  <2>4. CASE ReadRooms
    BY <2>4, TerminalAssumption DEF ReadRooms, Waiting, server
  <2>5. CASE ListLost
    BY <2>5, TerminalAssumption DEF ListLost, Waiting, server
  <2>6. CASE ApplyRooms
    <3> DEFINE shown == Shown(chat, sidebar.list)
    <3>1. DOMAIN shown = ChatFields /\ shown.selected \in Nat
      BY ShownFacts
    <3> HIDE DEF shown
    <3>2. DOMAIN Cleared(shown) = ChatFields /\ Cleared(shown).selected = shown.selected
      BY <3>1, ClearedFacts
    <3>3. CASE reopen /\ ~pending
      <4>1. chat' = Cleared(shown) /\ Ask("open", shown.selected)
        BY <2>6, <3>3 DEF ApplyRooms, shown
      <4> DEFINE d == CallOf("open", shown.selected)
      <4>2. pending' = TRUE /\ out' = {d}
        BY <3>3, <4>1 DEF Ask
      <4>2a. d.kind = "open" /\ d.room = shown.selected
        BY DEF CallOf
      <4> HIDE DEF d
      <4> QED
        BY <2>6, <3>1, <3>2, <4>1, <4>2, <4>2a DEF ApplyRooms, server
    <3>4. CASE ~(reopen /\ ~pending)
      <4>1. chat' = shown /\ UNCHANGED <<messages, pending, out>>
        BY <2>6, <3>4 DEF ApplyRooms, shown
      <4> QED
        BY <2>6, <3>1, <4>1 DEF ApplyRooms, server
    <3> QED
      BY <3>3, <3>4
  <2>7. CASE StreamGone
    BY <2>7, BlankFacts DEF StreamGone, SignedOut, server
  <2> QED
    BY <1>4, <2>1, <2>2, <2>3, <2>4, <2>5, <2>6, <2>7 DEF Streams
<1>5. CASE Server
  <2>1. ASSUME NEW room \in Rooms, OthersPost(room) PROVE Basic'
    BY <2>1 DEF OthersPost, client
  <2>2. CASE OthersCreate
    BY <2>2 DEF OthersCreate, client
  <2>3. CASE Rebuild
    BY <2>3 DEF Rebuild, client
  <2>4. ASSUME NEW c \in out, Serve(c) PROVE Basic'
    <3> DEFINE served == [kind |-> c.kind, room |-> c.room, served |-> TRUE,
                          result |-> Outcome(c)]
    <3>1. served.kind = c.kind /\ served.room = c.room
      OBVIOUS
    <3>2. out' = (out \ {c}) \cup {served}
      BY <2>4 DEF Serve
    <3> HIDE DEF served
    <3>3. out' = {served}
      BY <3>2
    <3>4. roomCount' \in Nat \ {0}
      BY <2>4 DEF Serve
    <3> QED
      BY <2>4, <3>1, <3>3, <3>4 DEF Serve
  <2> QED
    BY <1>5, <2>1, <2>2, <2>3, <2>4 DEF Server
<1> QED
  BY <1>1, <1>2, <1>3, <1>4, <1>5 DEF Next

LEMMA BasicInvariant == Spec => []Basic
BY BasicInit, BasicStep, PTL DEF Spec

\* app.rs, RoomOpened(Err) and apply_rooms: whatever fails and whatever comes
\* in between, a chat without a stream has asked for its room or will.
THEOREM NeverLeftUnwatched == Spec => []NeverUnwatched
BY BasicInvariant, PTL DEF Basic

-----------------------------------------------------------------------------
(* The stream is the selected room's, as long as no list ever gets shorter. *)

LEMMA FollowsInit == Init => Follows
BY TerminalAssumption DEF Init, Follows, ListsGrow, StreamIsOfOpenRoom

LEMMA FollowsKeys ==
  ASSUME Basic, Follows, Keys
  PROVE  Follows'
<1> USE DEF Basic, Shape, Calls, Sidebar
<1>1. CASE Connect
  <2> DEFINE d == CallOf("connect", 1)
  <2>1. out' = {d} /\ d.kind = "connect"
    BY <1>1 DEF Connect, Ask, CallOf
  <2> HIDE DEF d
  <2> QED
    BY <1>1, <2>1 DEF Connect, server, Follows, ListsGrow, StreamIsOfOpenRoom
<1>2. CASE Register
  <2> DEFINE d == CallOf("register", 1)
  <2>1. out' = {d} /\ d.kind = "register"
    BY <1>2 DEF Register, Ask, CallOf
  <2> HIDE DEF d
  <2> QED
    BY <1>2, <2>1 DEF Register, server, Follows, ListsGrow, StreamIsOfOpenRoom
<1>3. CASE LogIn
  <2> DEFINE d == CallOf("login", 1)
  <2>1. out' = {d} /\ d.kind = "login" /\ d.served = FALSE
    BY <1>3 DEF LogIn, Ask, CallOf
  <2> HIDE DEF d
  <2> QED
    BY <1>3, <2>1 DEF LogIn, server, Follows, ListsGrow, StreamIsOfOpenRoom
<1>4. ASSUME NEW line \in Lines, Type(line) PROVE Follows'
  <2>1. /\ chat'.listed = chat.listed /\ chat'.selected = chat.selected
        /\ chat'.watched = chat.watched
    BY <1>4 DEF Type, ChatFields
  <2> QED
    BY <1>4, <2>1 DEF Type, server,
           Follows, ListsGrow, StreamIsOfOpenRoom
<1>5. CASE Note
  <2>1. /\ chat'.listed = chat.listed /\ chat'.selected = chat.selected
        /\ chat'.watched = chat.watched
    BY <1>5 DEF Note, ChatFields
  <2> QED
    BY <1>5, <2>1 DEF Note, server,
           Follows, ListsGrow, StreamIsOfOpenRoom
<1>6. CASE Submit
  <2> DEFINE kind == IF chat.input = "text" THEN "send" ELSE "create"
             d == CallOf(kind, chat.selected)
  <2>1. out' = {d}
    BY <1>6 DEF Submit, Ask
  <2>2. d.kind \in {"send", "create"}
    BY DEF CallOf
  <2> HIDE DEF d
  <2>3. /\ chat'.listed = chat.listed /\ chat'.selected = chat.selected
        /\ chat'.watched = chat.watched
    BY <1>6 DEF Submit, ChatFields
  <2> QED
    BY <1>6, <2>1, <2>2, <2>3 DEF Submit, server, Follows, ListsGrow, StreamIsOfOpenRoom
<1>7. ASSUME NEW room \in Rooms, Tab(room) PROVE Follows'
  <2> DEFINE moved == [chat EXCEPT !.selected = room]
             d == CallOf("open", room)
  <2>1. DOMAIN moved = ChatFields /\ moved.selected = room /\ moved.listed = chat.listed
    BY DEF ChatFields
  <2> HIDE DEF moved
  <2>2. /\ chat'.listed = chat.listed /\ chat'.selected = room
        /\ chat'.watched = None
    BY <1>7, <2>1, ClearedFacts DEF Tab, moved
  <2>3. d.kind = "open" /\ d.room = room
    BY DEF CallOf
  <2>4. out' = {d}
    BY <1>7 DEF Tab, Ask
  <2> HIDE DEF d
  <2>5. room \in 1..Len(chat.listed)
    BY <1>7 DEF Tab
  <2>6. messages'.room = None /\ UNCHANGED <<roomCount, screen, sidebar>>
    BY <1>7, NoStreamFacts DEF Tab, server
  <2> QED
    BY <2>2, <2>3, <2>4, <2>5, <2>6 DEF Follows, ListsGrow, StreamIsOfOpenRoom
<1>8. CASE Quit
  BY <1>8 DEF Quit, Follows, ListsGrow, StreamIsOfOpenRoom
<1> QED
  BY <1>1, <1>2, <1>3, <1>4, <1>5, <1>6, <1>7, <1>8 DEF Keys

LEMMA FollowsAnswers ==
  ASSUME Basic, Follows, Answers
  PROVE  Follows'
<1> USE DEF Basic, Shape, Calls, Sidebar
<1> SUFFICES ASSUME NEW c \in out,
                    \/ Connected(c) \/ Registered(c) \/ LoggedIn(c) \/ EntryFailed(c)
                    \/ RoomOpened(c) \/ RoomNotOpened(c)
                    \/ MessageSent(c) \/ MessageNotSent(c) \/ RoomCreated(c)
                    \/ AnsweredGone(c)
             PROVE  Follows'
  BY DEF Answers
<1>1. CASE Connected(c)
  BY <1>1 DEF Connected, Answered, server, Follows, ListsGrow, StreamIsOfOpenRoom
<1>2. CASE Registered(c)
  <2> DEFINE d == CallOf("login", 1)
  <2>1. out' = {d} /\ d.kind = "login" /\ d.served = FALSE
    BY <1>2 DEF Registered, AskNext, CallOf
  <2> HIDE DEF d
  <2> QED
    BY <1>2, <2>1 DEF Registered, server,
           Follows, ListsGrow, StreamIsOfOpenRoom
<1>3. CASE LoggedIn(c)
  <2> DEFINE d == CallOf("open", 1)
  <2>1. d.kind = "open" /\ d.room = 1
    BY DEF CallOf
  <2>2. out' = {d}
    BY <1>3 DEF LoggedIn, AskNext
  <2> HIDE DEF d
  <2>3. chat'.listed = c.result /\ chat'.selected = 1 /\ chat'.watched = None
    BY <1>3, FreshFacts, ClearedFacts DEF LoggedIn
  <2>4. Len(c.result) \in 1..roomCount
    BY <1>3 DEF LoggedIn, Follows, ListsGrow
  <2>5. messages'.room = None /\ sidebar' = Waiting /\ roomCount' = roomCount
    BY <1>3, NoStreamFacts DEF LoggedIn, server
  <2> QED
    BY <2>1, <2>2, <2>3, <2>4, <2>5 DEF Follows, ListsGrow, StreamIsOfOpenRoom
<1>4. CASE EntryFailed(c)
  BY <1>4 DEF EntryFailed, Answered, server,
           Follows, ListsGrow, StreamIsOfOpenRoom
<1>5. CASE RoomOpened(c)
  <2>1. /\ chat'.listed = chat.listed /\ chat'.selected = chat.selected
        /\ chat'.watched = c.room
    BY <1>5 DEF RoomOpened, ChatFields
  <2>2. messages'.room = c.room
    BY <1>5 DEF RoomOpened
  <2>3. out' = {} /\ UNCHANGED <<roomCount, screen, sidebar>> /\ screen = "chat"
    BY <1>5 DEF RoomOpened, Answered, server
  <2>4. c.room = chat.selected
    BY <1>5, <2>3 DEF RoomOpened, Follows, StreamIsOfOpenRoom
  <2> QED
    BY <2>1, <2>2, <2>3, <2>4 DEF Follows, ListsGrow, StreamIsOfOpenRoom
<1>6. CASE RoomNotOpened(c)
  BY <1>6, WarnedFacts DEF RoomNotOpened, Answered, server,
           Follows, ListsGrow, StreamIsOfOpenRoom
<1>7. CASE MessageSent(c)
  BY <1>7 DEF MessageSent, Answered, server,
           Follows, ListsGrow, StreamIsOfOpenRoom
<1>8. CASE MessageNotSent(c)
  <2>1. /\ chat'.listed = chat.listed /\ chat'.selected = chat.selected
        /\ chat'.watched = chat.watched
    BY <1>8, WarnedFacts DEF MessageNotSent, ChatFields
  <2> QED
    BY <1>8, <2>1 DEF MessageNotSent, Answered, server,
           Follows, ListsGrow, StreamIsOfOpenRoom
<1>9. CASE RoomCreated(c)
  BY <1>9, WarnedFacts DEF RoomCreated, Answered, server,
           Follows, ListsGrow, StreamIsOfOpenRoom
<1>10. CASE AnsweredGone(c)
  BY <1>10 DEF AnsweredGone, SignedOut, Follows, ListsGrow, StreamIsOfOpenRoom
<1> QED
  BY <1>1, <1>2, <1>3, <1>4, <1>5, <1>6, <1>7, <1>8, <1>9, <1>10

LEMMA FollowsStreams ==
  ASSUME Basic, Follows, Streams
  PROVE  Follows'
<1> USE DEF Basic, Shape, Calls, Sidebar
<1>1. CASE Fetch
  BY <1>1 DEF Fetch, server, Follows, ListsGrow, StreamIsOfOpenRoom
<1>2. CASE FetchLost
  BY <1>2 DEF FetchLost, server, Follows, ListsGrow, StreamIsOfOpenRoom
<1>3. CASE ApplyMessages
  <2>1. /\ chat'.listed = chat.listed /\ chat'.selected = chat.selected
        /\ chat'.watched = chat.watched
    BY <1>3, AppendedFacts DEF ApplyMessages
  <2>2. messages'.room = messages.room
    BY <1>3 DEF ApplyMessages
  <2> QED
    BY <1>3, <2>1, <2>2 DEF ApplyMessages, server, Follows, ListsGrow, StreamIsOfOpenRoom
<1>4. CASE ReadRooms
  <2>1. sidebar' = [list |-> List] /\ screen = "chat"
    BY <1>4, TerminalAssumption DEF ReadRooms, Waiting
  <2>2. sidebar'.list = List
    BY <2>1
  <2>3. Len(sidebar'.list) = roomCount
    BY <2>2, ListLen
  <2> QED
    BY <1>4, <2>1, <2>3 DEF ReadRooms, server, Follows, ListsGrow, StreamIsOfOpenRoom
<1>5. CASE ListLost
  BY <1>5, TerminalAssumption DEF ListLost, server, Follows, ListsGrow, StreamIsOfOpenRoom
<1>6. CASE ApplyRooms
  <2> DEFINE shown == Shown(chat, sidebar.list)
  <2>1. /\ screen = "chat" /\ Len(sidebar.list) \in Nat
        /\ Len(chat.listed) <= Len(sidebar.list) /\ Len(sidebar.list) <= roomCount
    BY <1>6 DEF ApplyRooms, Follows, ListsGrow
  <2>2. /\ DOMAIN shown = ChatFields /\ shown.listed = sidebar.list
        /\ shown.selected = chat.selected /\ shown.watched = chat.watched
    BY <2>1, ShownFacts DEF Follows, ListsGrow
  <2> HIDE DEF shown
  <2>3. sidebar' = Waiting /\ UNCHANGED <<roomCount, screen>>
    BY <1>6 DEF ApplyRooms, server
  <2>4. chat.selected \in 1..Len(sidebar.list)
    BY <2>1 DEF Follows, ListsGrow
  <2>5. CASE reopen /\ ~pending
    <3> DEFINE d == CallOf("open", shown.selected)
    <3>1. d.kind = "open" /\ d.room = shown.selected
      BY DEF CallOf
    <3>2. chat' = Cleared(shown) /\ out' = {d} /\ messages'.room = None
      BY <1>6, <2>5, NoStreamFacts DEF ApplyRooms, Ask, shown
    <3> HIDE DEF d
    <3>3. /\ chat'.listed = sidebar.list /\ chat'.selected = chat.selected
          /\ chat'.watched = None
      BY <2>2, <3>2, ClearedFacts
    <3> QED
      BY <2>1, <2>2, <2>3, <2>4, <3>1, <3>2, <3>3 DEF Follows, ListsGrow, StreamIsOfOpenRoom
  <2>6. CASE ~(reopen /\ ~pending)
    <3>1. chat' = shown /\ UNCHANGED <<messages, out>>
      BY <1>6, <2>6 DEF ApplyRooms, shown
    <3> QED
      BY <2>1, <2>2, <2>3, <2>4, <3>1 DEF Follows, ListsGrow, StreamIsOfOpenRoom
  <2> QED
    BY <2>5, <2>6
<1>7. CASE StreamGone
  BY <1>7 DEF StreamGone, SignedOut, Follows, ListsGrow, StreamIsOfOpenRoom
<1> QED
  BY <1>1, <1>2, <1>3, <1>4, <1>5, <1>6, <1>7 DEF Streams

LEMMA FollowsServer ==
  ASSUME Basic, Follows, MaxRebuilds = 0, Server
  PROVE  Follows'
<1> USE DEF Basic, Shape, Calls, Sidebar
<1>1. ASSUME NEW room \in Rooms, OthersPost(room) PROVE Follows'
  BY <1>1 DEF OthersPost, client, Follows, ListsGrow, StreamIsOfOpenRoom
<1>2. CASE OthersCreate
  BY <1>2 DEF OthersCreate, client, Follows, ListsGrow, StreamIsOfOpenRoom
<1>3. CASE Rebuild
  BY <1>3 DEF Rebuild
<1>4. ASSUME NEW c \in out, Serve(c) PROVE Follows'
  <2> DEFINE served == [kind |-> c.kind, room |-> c.room, served |-> TRUE,
                        result |-> Outcome(c)]
  <2>1. served.kind = c.kind /\ served.room = c.room /\ served.result = Outcome(c)
    OBVIOUS
  <2>2. out' = (out \ {c}) \cup {served}
    BY <1>4 DEF Serve
  <2> HIDE DEF served
  <2>3. out' = {served}
    BY <2>2
  <2>4. roomCount' \in Nat /\ roomCount <= roomCount'
    BY <1>4 DEF Serve
  <2>5. c.kind = "login" => Len(served.result) = roomCount
    BY <2>1, ListLen DEF Outcome
  <2>6. UNCHANGED <<screen, chat, messages, sidebar>>
    BY <1>4 DEF Serve
  <2> QED
    BY <2>1, <2>3, <2>4, <2>5, <2>6 DEF Follows, ListsGrow, StreamIsOfOpenRoom
<1> QED
  BY <1>1, <1>2, <1>3, <1>4 DEF Server

LEMMA FollowsInvariant ==
  MaxRebuilds = 0 => (Spec => []Follows)
<1> SUFFICES ASSUME MaxRebuilds = 0 PROVE Spec => []Follows
  OBVIOUS
<1>1. Basic /\ Follows /\ [Next]_vars => Follows'
  <2>1. ASSUME Follows, UNCHANGED vars PROVE Follows'
    BY <2>1 DEF vars, Follows, ListsGrow, StreamIsOfOpenRoom
  <2> QED
    BY <2>1, FollowsKeys, FollowsAnswers, FollowsStreams, FollowsServer DEF Next
<1> QED
  BY <1>1, FollowsInit, BasicInvariant, PTL DEF Spec

\* apply_messages and open_room: while the server keeps its database, what the
\* stream brings, what a call opens and what is marked watched are the selected
\* room's, however keys, answers and lists come.
THEOREM StreamFollowsSelection ==
  MaxRebuilds = 0 => (Spec => []StreamIsOfOpenRoom)
<1> SUFFICES ASSUME MaxRebuilds = 0 PROVE Spec => []StreamIsOfOpenRoom
  OBVIOUS
<1> QED
  BY FollowsInvariant, PTL DEF Follows

-----------------------------------------------------------------------------
(* The unread marks are true: what the screen takes for read is what the    *)
(* user was shown.                                                          *)

ReadIsSeen == screen = "chat" => chat.last_read = seen

LEMMA LastReadKept ==
  ASSUME NEW c, DOMAIN c = ChatFields
  PROVE  /\ Cleared(c).last_read = c.last_read
         /\ Warned(c).last_read = c.last_read
         /\ \A list : Shown(c, list).last_read = c.last_read
BY DEF Cleared, Warned, Shown, ChatFields

LEMMA ReadIsSeenStep == Basic /\ Follows /\ ReadIsSeen /\ [Next]_vars => ReadIsSeen'
<1> SUFFICES ASSUME Basic, Follows, ReadIsSeen, [Next]_vars PROVE ReadIsSeen'
  OBVIOUS
<1> DEFINE Kept == /\ UNCHANGED seen
                   /\ screen' = "chat" => screen = "chat" /\ chat'.last_read = chat.last_read
<1>1. Kept => ReadIsSeen'
  BY DEF ReadIsSeen
<1>2. DOMAIN chat = ChatFields
  BY DEF Basic, Shape
<1>3. CASE UNCHANGED vars
  BY <1>1, <1>3 DEF vars
<1>4. CASE Keys
  <2>1. CASE Connect \/ Register \/ LogIn
    BY <1>1, <2>1 DEF Connect, Register, LogIn
  <2>2. ASSUME NEW line \in Lines, Type(line) PROVE ReadIsSeen'
    BY <1>1, <1>2, <2>2 DEF Type, ChatFields
  <2>3. CASE Note
    BY <1>1, <1>2, <2>3 DEF Note, ChatFields
  <2>4. CASE Submit
    BY <1>1, <1>2, <2>4 DEF Submit, ChatFields
  <2>5. ASSUME NEW room \in Rooms, Tab(room) PROVE ReadIsSeen'
    <3> DEFINE moved == [chat EXCEPT !.selected = room]
    <3>1. DOMAIN moved = ChatFields /\ moved.last_read = chat.last_read
      BY <1>2 DEF ChatFields
    <3> HIDE DEF moved
    <3>2. Cleared(moved).last_read = chat.last_read
      BY <3>1, LastReadKept
    <3> QED
      BY <1>1, <2>5, <3>2 DEF Tab, moved
  <2>6. CASE Quit
    BY <2>6 DEF Quit, ReadIsSeen
  <2> QED
    BY <1>4, <2>1, <2>2, <2>3, <2>4, <2>5, <2>6 DEF Keys
<1>5. CASE Answers
  <2> SUFFICES ASSUME NEW c \in out,
                      \/ Connected(c) \/ Registered(c) \/ LoggedIn(c) \/ EntryFailed(c)
                      \/ RoomOpened(c) \/ RoomNotOpened(c)
                      \/ MessageSent(c) \/ MessageNotSent(c) \/ RoomCreated(c)
                      \/ AnsweredGone(c)
               PROVE  ReadIsSeen'
    BY <1>5 DEF Answers
  <2>1. CASE Connected(c) \/ AnsweredGone(c)
    BY <2>1 DEF Connected, AnsweredGone, SignedOut, ReadIsSeen
  <2>2. CASE Registered(c) \/ EntryFailed(c) \/ MessageSent(c)
    BY <1>1, <2>2 DEF Registered, EntryFailed, MessageSent
  <2>3. CASE LoggedIn(c)
    <3>1. DOMAIN Fresh(c.result) = ChatFields
      BY FreshFacts
    <3>2. Fresh(c.result).last_read
            = [r \in Rooms |-> IF r <= Len(c.result) THEN c.result[r] ELSE 0]
      BY DEF Fresh, Blank
    <3>3. Cleared(Fresh(c.result)).last_read = Fresh(c.result).last_read
      BY <3>1, LastReadKept
    <3> QED
      BY <2>3, <3>2, <3>3 DEF LoggedIn, ReadIsSeen
  <2>4. CASE RoomOpened(c)
    BY <1>1, <1>2, <2>4 DEF RoomOpened, ChatFields
  <2>5. CASE RoomNotOpened(c) \/ RoomCreated(c)
    BY <1>1, <1>2, <2>5, LastReadKept DEF RoomNotOpened, RoomCreated
  <2>6. CASE MessageNotSent(c)
    <3> DEFINE restored == [chat EXCEPT !.input = "text"]
    <3>1. DOMAIN restored = ChatFields /\ restored.last_read = chat.last_read
      BY <1>2 DEF ChatFields
    <3> HIDE DEF restored
    <3>2. Warned(restored).last_read = chat.last_read
      BY <3>1, LastReadKept
    <3> QED
      BY <1>1, <2>6, <3>2 DEF MessageNotSent, restored
  <2> QED
    BY <2>1, <2>2, <2>3, <2>4, <2>5, <2>6
<1>6. CASE Streams
  <2>1. CASE Fetch \/ FetchLost \/ ReadRooms \/ ListLost
    BY <1>1, <2>1 DEF Fetch, FetchLost, ReadRooms, ListLost
  <2>2. CASE ApplyMessages
    <3> DEFINE last == messages.batch[Len(messages.batch)]
    <3>1. chat'.last_read = [chat.last_read EXCEPT ![chat.selected] = last]
      BY <1>2, <2>2 DEF ApplyMessages, Appended, ChatFields
    <3>2. seen' = [seen EXCEPT ![messages.room] = last] /\ messages.room # None
      BY <2>2 DEF ApplyMessages
    <3>3. screen' = screen
      BY <2>2 DEF ApplyMessages
    <3>4. screen = "chat" => messages.room = chat.selected
      BY <3>2 DEF Follows, StreamIsOfOpenRoom
    <3> QED
      BY <3>1, <3>2, <3>3, <3>4 DEF ReadIsSeen
  <2>3. CASE ApplyRooms
    <3> DEFINE shown == Shown(chat, sidebar.list)
    <3>1. DOMAIN shown = ChatFields /\ shown.last_read = chat.last_read
      BY <1>2, ShownFacts, LastReadKept
    <3> HIDE DEF shown
    <3>2. Cleared(shown).last_read = chat.last_read
      BY <3>1, LastReadKept
    <3> QED
      BY <1>1, <2>3, <3>1, <3>2 DEF ApplyRooms, shown
  <2>4. CASE StreamGone
    BY <2>4 DEF StreamGone, SignedOut, ReadIsSeen
  <2> QED
    BY <1>6, <2>1, <2>2, <2>3, <2>4 DEF Streams
<1>7. CASE Server
  BY <1>1, <1>7 DEF Server, OthersPost, OthersCreate, Rebuild, Serve, client
<1> QED
  BY <1>3, <1>4, <1>5, <1>6, <1>7 DEF Next

\* chat.rs mark_read and unread: a room that is not being watched is drawn as
\* unread exactly if the list has something newer than the user was shown,
\* whatever room was selected when a batch, a list or an answer came.
THEOREM UnreadMarksAreTrue ==
  MaxRebuilds = 0 => (Spec => []UnreadIsTrue)
<1> SUFFICES ASSUME MaxRebuilds = 0 PROVE Spec => []UnreadIsTrue
  OBVIOUS
<1>1. Init => ReadIsSeen
  BY DEF Init, ReadIsSeen
<1>2. ReadIsSeen => UnreadIsTrue
  BY DEF ReadIsSeen, UnreadIsTrue, Unread
<1> QED
  BY <1>1, <1>2, ReadIsSeenStep, BasicInvariant, FollowsInvariant, PTL DEF Spec
-----------------------------------------------------------------------------
(* Sends keep their order.                                                  *)

SendInv(c) ==
  c.kind = "send" /\ c.served =>
    c.result[1] \in Nat /\ acked < c.result[1] /\ c.result[1] <= handedOut

OrderInv ==
  /\ handedOut \in Nat
  /\ acked \in Nat /\ acked <= handedOut
  /\ \A c \in out : SendInv(c)

\* A call that was just made has not been served.
LEMMA AskedNotServed ==
  ASSUME NEW kind, NEW room,
         Ask(kind, room) \/ \E c \in out : AskNext(c, kind, room)
  PROVE  \A d \in out' : d \in out \/ d.served = FALSE
<1> DEFINE made == CallOf(kind, room)
<1>1. made.served = FALSE
  BY DEF CallOf
<1>2. out' \subseteq out \cup {made}
  BY DEF Ask, AskNext
<1> HIDE DEF made
<1> QED
  BY <1>1, <1>2

LEMMA OrderStep == Basic /\ MaxRebuilds = 0 /\ OrderInv /\ [Next]_vars => OrderInv'
<1> SUFFICES ASSUME Basic, MaxRebuilds = 0, OrderInv, [Next]_vars PROVE OrderInv'
  OBVIOUS
<1> DEFINE Kept == /\ UNCHANGED <<handedOut, acked>>
                   /\ \A c \in out' : c \in out \/ c.served = FALSE
<1>1. Kept => OrderInv'
  BY DEF OrderInv, SendInv
<1>2. CASE UNCHANGED vars
  BY <1>1, <1>2 DEF vars
<1>3. CASE Keys
  <2>1. CASE Connect \/ Register \/ LogIn \/ Submit
    <3>1. UNCHANGED <<handedOut, acked>> /\ \E kind, room : Ask(kind, room)
      BY <2>1 DEF Connect, Register, LogIn, Submit, server
    <3> QED
      BY <1>1, <3>1, AskedNotServed
  <2>2. ASSUME NEW line \in Lines, Type(line) PROVE OrderInv'
    BY <1>1, <2>2 DEF Type, server
  <2>3. CASE Note
    BY <1>1, <2>3 DEF Note, server
  <2>4. ASSUME NEW room \in Rooms, Tab(room) PROVE OrderInv'
    BY <1>1, <2>4, AskedNotServed DEF Tab, server
  <2>5. CASE Quit
    BY <2>5 DEF Quit, server, OrderInv, SendInv
  <2> QED
    BY <1>3, <2>1, <2>2, <2>3, <2>4, <2>5 DEF Keys
<1>4. CASE Answers
  <2> SUFFICES ASSUME NEW c \in out,
                      \/ Connected(c) \/ Registered(c) \/ LoggedIn(c) \/ EntryFailed(c)
                      \/ RoomOpened(c) \/ RoomNotOpened(c)
                      \/ MessageSent(c) \/ MessageNotSent(c) \/ RoomCreated(c)
                      \/ AnsweredGone(c)
               PROVE  OrderInv'
    BY <1>4 DEF Answers
  <2>1. CASE Connected(c) \/ EntryFailed(c) \/ RoomOpened(c) \/ RoomNotOpened(c)
             \/ MessageNotSent(c) \/ RoomCreated(c)
    BY <1>1, <2>1 DEF Connected, EntryFailed, RoomOpened, RoomNotOpened, MessageNotSent,
       RoomCreated, Answered, server
  <2>2. CASE Registered(c) \/ LoggedIn(c)
    <3>1. UNCHANGED <<handedOut, acked>> /\ \E kind, room : AskNext(c, kind, room)
      BY <2>2 DEF Registered, LoggedIn, server
    <3> QED
      BY <1>1, <3>1, AskedNotServed
  <2>3. CASE MessageSent(c)
    <3>1. acked' = c.result[1] /\ handedOut' = handedOut /\ out' = {}
      BY <2>3 DEF MessageSent, Answered, server, Basic, Calls
    <3>2. SendInv(c) /\ c.kind = "send" /\ c.served
      BY <2>3 DEF MessageSent, OrderInv
    <3> QED
      BY <3>1, <3>2 DEF OrderInv, SendInv
  <2>4. CASE AnsweredGone(c)
    BY <1>1, <2>4 DEF AnsweredGone, SignedOut, server
  <2> QED
    BY <2>1, <2>2, <2>3, <2>4
<1>5. CASE Streams
  <2>1. CASE Fetch \/ FetchLost \/ ApplyMessages \/ ReadRooms \/ ListLost
    BY <1>1, <2>1 DEF Fetch, FetchLost, ApplyMessages, ReadRooms, ListLost, server
  <2>2. CASE ApplyRooms
    <3>1. /\ UNCHANGED <<handedOut, acked>>
          /\ out' = out \/ \E room : Ask("open", room)
      BY <2>2 DEF ApplyRooms, server
    <3> QED
      BY <1>1, <3>1, AskedNotServed
  <2>3. CASE StreamGone
    BY <1>1, <2>3 DEF StreamGone, SignedOut, server
  <2> QED
    BY <1>5, <2>1, <2>2, <2>3 DEF Streams
<1>6. CASE Server
  <2>1. ASSUME NEW room \in Rooms, OthersPost(room) PROVE OrderInv'
    BY <2>1 DEF OthersPost, Post, client, OrderInv, SendInv
  <2>2. CASE OthersCreate
    BY <1>1, <2>2 DEF OthersCreate, client
  <2>3. CASE Rebuild
    BY <2>3 DEF Rebuild, Basic, Shape
  <2>4. ASSUME NEW c \in out, Serve(c) PROVE OrderInv'
    <3> DEFINE served == [kind |-> c.kind, room |-> c.room, served |-> TRUE,
                          result |-> Outcome(c)]
    <3>1. served.kind = c.kind /\ served.result = Outcome(c)
      OBVIOUS
    <3>2. out' = (out \ {c}) \cup {served} /\ acked' = acked
      BY <2>4 DEF Serve
    <3> HIDE DEF served
    <3>3. out' = {served}
      BY <3>2 DEF Basic, Calls
    <3>5. CASE c.kind = "send"
      <4>1. handedOut' = handedOut + 1
        BY <2>4, <3>5 DEF Serve, Post
      <4>2. served.result[1] = handedOut + 1
        BY <3>1, <3>5 DEF Outcome
      <4> QED
        BY <3>2, <3>3, <4>1, <4>2 DEF OrderInv, SendInv
    <3>6. CASE c.kind # "send"
      BY <2>4, <3>1, <3>2, <3>3, <3>6 DEF Serve, OrderInv, SendInv
    <3> QED
      BY <3>5, <3>6
  <2> QED
    BY <1>6, <2>1, <2>2, <2>3, <2>4 DEF Server
<1> QED
  BY <1>2, <1>3, <1>4, <1>5, <1>6 DEF Next

\* app.rs Background, one call at a time: while the server keeps its database, of
\* two sends the one that was answered later is later in the log, whatever
\* failed, was signed out or was posted by others in between.
THEOREM SendsStayInOrder ==
  MaxRebuilds = 0 => (Spec => SendsKeepOrder)
<1> SUFFICES ASSUME MaxRebuilds = 0 PROVE Spec => SendsKeepOrder
  OBVIOUS
<1>1. Init => OrderInv
  BY DEF Init, OrderInv
<1>2. OrderInv /\ [Next]_vars => [acked' # acked /\ acked' # 0 => acked' > acked]_vars
  <2> SUFFICES ASSUME OrderInv, Next, acked' # acked, acked' # 0 PROVE acked' > acked
    OBVIOUS
  <2>1. PICK c \in out : MessageSent(c)
    BY DEF Next, Keys, Answers, Streams, Server, server, client, Connect, Register, LogIn, Type, Note,
       Submit, Tab, Quit, Connected, Registered, LoggedIn, EntryFailed, RoomOpened,
       RoomNotOpened, MessageNotSent, RoomCreated, AnsweredGone, Fetch, FetchLost,
       ApplyMessages, ReadRooms, ListLost, ApplyRooms, StreamGone, OthersPost, OthersCreate,
       Rebuild, Serve
  <2> QED
    BY <2>1 DEF MessageSent, OrderInv, SendInv
<1> QED
  BY <1>1, <1>2, OrderStep, BasicInvariant, PTL DEF Spec, SendsKeepOrder
-----------------------------------------------------------------------------
(* The pane is a piece of the selected room's log, and the stream goes on   *)
(* right behind it.                                                         *)

\* Each room's log is sorted, and its seqs were handed out.
LogsOK ==
  /\ roomCount \in Rooms /\ handedOut \in Nat
  /\ log \in [Rooms -> Seq(Nat)]
  /\ \A room \in Rooms :
       /\ Increasing(log[room])
       /\ \A i \in 1..Len(log[room]) : log[room][i] \in 1..handedOut

\* A room is opened while nothing is watched, with a page of it.
OpensOn(c) ==
  c.kind = "open" =>
    /\ messages.room = None
    /\ c.served => /\ c.room \in Rooms /\ c.result \in Seq(Nat)
                   /\ \E p \in 0..Len(log[c.room]) : Window(log[c.room], p, c.result)

\* The stream is about to hand over the page it was opened with.
InFirstPage == messages.batch # << >> /\ messages.batch[1] <= messages.cursor

\* What was shown and what is about to be are one piece of the room's log, from
\* behind its first p messages on, and the cursor is at the end of it; once the
\* first page was handed over, at the end of what was shown.
PaneFrom(p) ==
  LET own == log[messages.room]
  IN  /\ Window(own, p, chat.pane \o messages.batch)
      /\ IF InFirstPage
           THEN chat.pane = << >> /\ messages.cursor = messages.batch[Len(messages.batch)]
           ELSE Splits(own, messages.cursor, p + Len(chat.pane))

Watching ==
  IF messages.room = None
  THEN messages.batch = << >> /\ (screen = "chat" => chat.pane = << >>)
  ELSE /\ screen = "chat" /\ messages.room \in Rooms
       /\ chat.pane \in Seq(Nat) /\ messages.batch \in Seq(Nat)
       /\ messages.cursor \in 0..handedOut
       /\ \E p \in 0..Len(log[messages.room]) : PaneFrom(p)

PaneInv == LogsOK /\ Watching /\ \A c \in out : OpensOn(c)

\* A message more: a room's log grows at its end, the others not at all.
LEMMA LogsGrow ==
  ASSUME LogsOK, NEW posted, Post(posted), roomCount' = roomCount
  PROVE  /\ LogsOK'
         /\ \A room \in Rooms :
              log'[room] = log[room] \/ log'[room] = Append(log[room], handedOut + 1)
<1>1. handedOut \in Nat /\ handedOut' = handedOut + 1
  BY DEF LogsOK, Post
<1>2. ASSUME NEW room \in Rooms
      PROVE  log'[room] = log[room] \/ log'[room] = Append(log[room], handedOut + 1)
  BY DEF LogsOK, Post
<1>3. log' \in [Rooms -> Seq(Nat)]
  <2>1. log \in [Rooms -> Seq(Nat)] /\ handedOut + 1 \in Nat
    BY <1>1 DEF LogsOK
  <2>2. \A room \in Rooms : Append(log[room], handedOut + 1) \in Seq(Nat)
    BY <2>1
  <2>3. log' = [log EXCEPT ![posted] = Append(log[posted], handedOut + 1)]
    BY DEF Post
  <2> QED
    BY <2>1, <2>2, <2>3
<1>4. ASSUME NEW room \in Rooms
      PROVE  /\ Increasing(log'[room])
             /\ \A i \in 1..Len(log'[room]) : log'[room][i] \in 1..handedOut'
  <2> DEFINE own == log[room]
  <2>1. /\ own \in Seq(Nat) /\ Increasing(own)
        /\ \A i \in 1..Len(own) : own[i] \in 1..handedOut
    BY DEF LogsOK
  <2>2. log'[room] = own \/ log'[room] = Append(own, handedOut + 1)
    BY <1>2
  <2> HIDE DEF own
  <2>3. CASE log'[room] = own
    BY <1>1, <2>1, <2>3
  <2>4. CASE log'[room] = Append(own, handedOut + 1)
    <3>1. Increasing(Append(own, handedOut + 1))
      BY <1>1, <2>1, StillIncreasing
    <3>2. \A i \in 1..Len(Append(own, handedOut + 1)) :
            Append(own, handedOut + 1)[i] \in 1..(handedOut + 1)
      BY <1>1, <2>1
    <3> QED
      BY <1>1, <2>4, <3>1, <3>2
  <2> QED
    BY <2>2, <2>3, <2>4
<1>5. LogsOK'
  BY <1>1, <1>3, <1>4 DEF LogsOK
<1> QED
  BY <1>2, <1>5

LEMMA PaneInit == Init => PaneInv
<1> SUFFICES ASSUME Init PROVE PaneInv
  OBVIOUS
<1>1. log \in [Rooms -> Seq(Nat)] /\ \A room \in Rooms : log[room] = << >>
  BY DEF Init, NoMessages
<1>2. LogsOK
  BY <1>1, TerminalAssumption DEF Init, LogsOK, Rooms, Increasing
<1>3. Watching
  BY DEF Init, Watching, NoStream
<1> QED
  BY <1>2, <1>3 DEF Init, PaneInv

\* The pane's methods keep what it shows, or empty it.
LEMMA PaneFacts ==
  ASSUME NEW c, DOMAIN c = ChatFields
  PROVE  /\ Cleared(c).pane = << >>
         /\ Warned(c).pane = c.pane
         /\ \A list : Shown(c, list).pane = c.pane
         /\ \A batch : Appended(c, batch).pane = c.pane \o batch
BY DEF Cleared, Warned, Shown, Appended, ChatFields

\* A step that leaves the logs, the stream and the pane alone, and asks for no
\* room while one is watched.
LEMMA PaneKept ==
  ASSUME PaneInv, UNCHANGED <<log, handedOut, messages>>, roomCount' \in Rooms,
         screen' = "chat" => screen = "chat" /\ chat'.pane = chat.pane,
         messages.room # None => screen' = "chat",
         \A c \in out' : \/ c \in out
                         \/ c.kind = "open" => c.served = FALSE /\ messages.room = None
  PROVE  PaneInv'
<1>1. LogsOK'
  BY DEF PaneInv, LogsOK
<1>2. Watching'
  BY DEF PaneInv, Watching, PaneFrom, InFirstPage
<1>3. ASSUME NEW c \in out' PROVE OpensOn(c)'
  BY DEF PaneInv, OpensOn
<1> QED
  BY <1>1, <1>2, <1>3 DEF PaneInv

\* A step that ends the stream and empties the pane.
LEMMA PaneEmptied ==
  ASSUME PaneInv, UNCHANGED <<log, handedOut, roomCount>>, messages' = NoStream,
         screen' = "chat" => chat'.pane = << >>,
         \A c \in out' : c.kind = "open" => c.served = FALSE
  PROVE  PaneInv'
<1>1. LogsOK'
  BY DEF PaneInv, LogsOK
<1>2. messages'.room = None /\ messages'.batch = << >>
  BY DEF NoStream
<1>3. Watching' /\ \A c \in out' : OpensOn(c)'
  BY <1>2 DEF Watching, OpensOn
<1> QED
  BY <1>1, <1>3 DEF PaneInv

\* A message more: every log grows at its end or not at all, behind the cursor.
LEMMA PaneGrows ==
  ASSUME PaneInv, NEW posted, Post(posted),
         UNCHANGED <<roomCount, screen, chat, messages>>,
         \A c \in out' : c \in out \/ c.kind # "open"
  PROVE  PaneInv'
<1> USE DEF PaneInv
<1>1. handedOut \in Nat /\ handedOut' = handedOut + 1
  BY DEF LogsOK, Post
<1>2. LogsOK' /\ \A room \in Rooms :
        log'[room] = log[room] \/ log'[room] = Append(log[room], handedOut + 1)
  BY LogsGrow
<1>6. ASSUME NEW room \in Rooms, NEW p \in 0..Len(log[room]), NEW page \in Seq(Nat),
             Window(log[room], p, page)
      PROVE  p \in 0..Len(log'[room]) /\ Window(log'[room], p, page)
  <2> DEFINE own == log[room]
  <2>1. own \in Seq(Nat)
    BY DEF LogsOK
  <2>2. log'[room] = own \/ log'[room] = Append(own, handedOut + 1)
    BY <1>2
  <2>3. Window(Append(own, handedOut + 1), p, page)
    BY <1>1, <1>6, <2>1, WindowGrows
  <2>4. p \in 0..Len(Append(own, handedOut + 1))
    BY <1>1, <2>1
  <2> QED
    BY <1>6, <2>2, <2>3, <2>4
<1>7. ASSUME messages.room = None PROVE Watching'
  BY <1>7 DEF Watching
<1>8. ASSUME messages.room # None PROVE Watching'
  <2> DEFINE own == log[messages.room]
  <2>1. /\ messages.room \in Rooms /\ chat.pane \in Seq(Nat) /\ messages.batch \in Seq(Nat)
        /\ messages.cursor \in 0..handedOut
    BY <1>8 DEF Watching
  <2>2. PICK p \in 0..Len(own) : PaneFrom(p)
    BY <1>8 DEF Watching
  <2>3. chat.pane \o messages.batch \in Seq(Nat)
    BY <2>1
  <2>4. p \in 0..Len(log'[messages.room])
        /\ Window(log'[messages.room], p, chat.pane \o messages.batch)
    BY <1>6, <2>1, <2>2, <2>3 DEF PaneFrom
  <2>5. ASSUME ~InFirstPage
        PROVE  Splits(log'[messages.room], messages.cursor, p + Len(chat.pane))
    <3>1. Splits(own, messages.cursor, p + Len(chat.pane))
      BY <2>2, <2>5 DEF PaneFrom
    <3>2. own \in Seq(Nat)
      BY <2>1 DEF LogsOK
    <3>3. messages.cursor \in Nat /\ messages.cursor < handedOut + 1
      BY <1>1, <2>1
    <3>4. Splits(Append(own, handedOut + 1), messages.cursor, p + Len(chat.pane))
      BY <1>1, <3>1, <3>2, <3>3, SplitGrows
    <3> QED
      BY <1>2, <2>1, <3>1, <3>4
  <2>6. PaneFrom(p)'
    BY <2>2, <2>4, <2>5 DEF PaneFrom, InFirstPage
  <2>7. messages.cursor \in 0..handedOut'
    BY <1>1, <2>1
  <2> QED
    BY <1>8, <2>1, <2>4, <2>6, <2>7 DEF Watching
<1>9. Watching'
  BY <1>7, <1>8
<1>10. ASSUME NEW c \in out' PROVE OpensOn(c)'
  <2> SUFFICES ASSUME c \in out, c.kind = "open" PROVE OpensOn(c)'
    BY DEF OpensOn
  <2>1. OpensOn(c)
    OBVIOUS
  <2> QED
    BY <1>6, <2>1 DEF OpensOn
<1> QED
  BY <1>2, <1>9, <1>10

LEMMA PaneKeys ==
  ASSUME Basic, Follows, PaneInv, Keys
  PROVE  PaneInv'
<1>1. DOMAIN chat = ChatFields
  BY DEF Basic, Shape
<1>2. roomCount \in Rooms
  BY DEF PaneInv, LogsOK
<1>3. CASE Connect \/ Register \/ LogIn \/ Submit
  <2>1. PICK kind, room : Ask(kind, room) /\ kind # "open"
    BY <1>3 DEF Connect, Register, LogIn, Submit
  <2> DEFINE made == CallOf(kind, room)
  <2>2. made.kind # "open"
    BY <2>1 DEF CallOf
  <2>3. out' = out \cup {made}
    BY <2>1 DEF Ask
  <2> HIDE DEF made
  <2>4. UNCHANGED <<log, handedOut, messages, screen, roomCount>> /\ chat'.pane = chat.pane
    BY <1>1, <1>3 DEF Connect, Register, LogIn, Submit, server, ChatFields
  <2>5. messages.room # None => screen = "chat"
    BY DEF PaneInv, Watching
  <2> QED
    BY <1>2, <2>2, <2>3, <2>4, <2>5, PaneKept
<1>4. ASSUME NEW line \in Lines, Type(line) PROVE PaneInv'
  <2>1. UNCHANGED <<log, handedOut, messages, screen, roomCount, out>> /\ chat'.pane = chat.pane
    BY <1>1, <1>4 DEF Type, server, ChatFields
  <2> QED
    BY <1>2, <2>1, PaneKept DEF PaneInv, Watching
<1>5. CASE Note
  <2>1. UNCHANGED <<log, handedOut, messages, screen, roomCount, out>> /\ chat'.pane = chat.pane
    BY <1>1, <1>5 DEF Note, server, ChatFields
  <2> QED
    BY <1>2, <2>1, PaneKept DEF PaneInv, Watching
<1>6. ASSUME NEW room \in Rooms, Tab(room) PROVE PaneInv'
  <2> DEFINE moved == [chat EXCEPT !.selected = room]
             made == CallOf("open", room)
  <2>1. chat'.pane = << >>
    BY <1>1, <1>6, PaneFacts DEF Tab, ChatFields
  <2>2. made.served = FALSE
    BY DEF CallOf
  <2>3. out = {} /\ out' = out \cup {made}
    BY <1>6 DEF Tab, Ask, Basic, Calls
  <2> HIDE DEF made
  <2>4. UNCHANGED <<log, handedOut, roomCount>> /\ messages' = NoStream
    BY <1>6 DEF Tab, server
  <2> QED
    BY <2>1, <2>2, <2>3, <2>4, PaneEmptied
<1>7. CASE Quit
  BY <1>7, PaneEmptied DEF Quit, server
<1> QED
  BY <1>3, <1>4, <1>5, <1>6, <1>7 DEF Keys

\* signed_out leaves nothing.
LEMMA PaneSignedOut ==
  ASSUME PaneInv, SignedOut, UNCHANGED server
  PROVE  PaneInv'
BY PaneEmptied DEF SignedOut, server

\* The room is opened: its first page is a piece of its log, and is handed over
\* before anything else is read.
LEMMA PaneOpened ==
  ASSUME Basic, Follows, PaneInv, NEW c \in out, RoomOpened(c)
  PROVE  PaneInv'
<1> DEFINE own == log[c.room]
           last == Len(c.result)
<1>1. /\ messages.room = None
      /\ c.room \in Rooms /\ c.result \in Seq(Nat)
      /\ \E p \in 0..Len(own) : Window(own, p, c.result)
  BY DEF RoomOpened, PaneInv, OpensOn
<1>2. PICK p \in 0..Len(own) : Window(own, p, c.result)
  BY <1>1
<1>3. screen = "chat" /\ chat.pane = << >> /\ c.room # None
  BY <1>1, TerminalAssumption DEF RoomOpened, Basic, Calls, PaneInv, Watching, Rooms
<1>4. /\ own \in Seq(Nat) /\ Increasing(own)
      /\ \A i \in 1..Len(own) : own[i] \in 1..handedOut
  BY <1>1 DEF PaneInv, LogsOK
<1>5. UNCHANGED <<log, handedOut, roomCount, screen>> /\ out' = {}
  BY DEF RoomOpened, Answered, server, Basic, Calls
<1>6. chat'.pane = << >>
  BY <1>3 DEF RoomOpened, Basic, Shape, ChatFields
<1>7. /\ messages'.room = c.room /\ messages'.batch = c.result
      /\ messages'.cursor = IF c.result = << >> THEN 0 ELSE c.result[last]
  BY DEF RoomOpened
<1>8. LogsOK'
  BY <1>5 DEF PaneInv, LogsOK
<1>9. CASE c.result = << >>
  <2>1. Window(own, 0, << >>) /\ Splits(own, 0, 0)
    BY <1>4 DEF Window, Splits
  <2>2. PaneFrom(0)'
    BY <1>5, <1>6, <1>7, <1>9, <2>1 DEF PaneFrom, InFirstPage
  <2>3. 0 \in 0..Len(own) /\ 0 \in 0..handedOut
    BY <1>4 DEF PaneInv, LogsOK
  <2>4. Watching'
    BY <1>1, <1>3, <1>5, <1>6, <1>7, <1>9, <2>2, <2>3 DEF Watching
  <2> QED
    BY <1>5, <1>8, <2>4 DEF PaneInv
<1>10. CASE c.result # << >>
  <2>1. p \in Nat
    BY <1>4
  <2>2. /\ last \in Nat \ {0}
        /\ p + 1 \in 1..Len(own) /\ c.result[1] = own[p + 1]
        /\ p + last \in 1..Len(own) /\ c.result[last] = own[p + last]
    <3> DEFINE page == c.result
    <3>1. own \in Seq(Nat) /\ page \in Seq(Nat) /\ page # << >> /\ Window(own, p, page)
      BY <1>1, <1>2, <1>4, <1>10
    <3> HIDE DEF own, page
    <3>2. /\ Len(page) \in Nat \ {0}
          /\ p + 1 \in 1..Len(own) /\ page[1] = own[p + 1]
          /\ p + Len(page) \in 1..Len(own) /\ page[Len(page)] = own[p + Len(page)]
      BY <2>1, <3>1, WindowEnds
    <3> QED
      BY <3>2 DEF page
  <2>3. p + 1 = p + last \/ p + 1 < p + last
    BY <2>1, <2>2
  <2>4. own[p + 1] <= own[p + last] /\ own[p + last] \in 0..handedOut
    <3>1. own[p + 1] \in 1..handedOut /\ own[p + last] \in 1..handedOut
      BY <1>4, <2>2
    <3>2. p + 1 < p + last => own[p + 1] < own[p + last]
      BY <1>4, <2>2 DEF Increasing
    <3> HIDE DEF own, last
    <3> QED
      BY <2>3, <3>1, <3>2 DEF PaneInv, LogsOK
  <2>5. << >> \o c.result = c.result
    BY <1>1
  <2>6. PaneFrom(p)'
    BY <1>2, <1>5, <1>6, <1>7, <1>10, <2>2, <2>4, <2>5 DEF PaneFrom, InFirstPage
  <2>7. Watching'
    BY <1>1, <1>2, <1>3, <1>5, <1>6, <1>7, <1>10, <2>2, <2>4, <2>6 DEF Watching
  <2> QED
    BY <1>5, <1>8, <2>7 DEF PaneInv
<1> QED
  BY <1>9, <1>10

LEMMA PaneAnswers ==
  ASSUME Basic, Follows, PaneInv, Answers
  PROVE  PaneInv'
<1>1. DOMAIN chat = ChatFields /\ (\A c, d \in out : c = d)
  BY DEF Basic, Shape, Calls
<1>2. roomCount \in Rooms
  BY DEF PaneInv, LogsOK
<1>3. messages.room # None => screen = "chat"
  BY DEF PaneInv, Watching
<1> SUFFICES ASSUME NEW c \in out,
                    \/ Connected(c) \/ Registered(c) \/ LoggedIn(c) \/ EntryFailed(c)
                    \/ RoomOpened(c) \/ RoomNotOpened(c)
                    \/ MessageSent(c) \/ MessageNotSent(c) \/ RoomCreated(c)
                    \/ AnsweredGone(c)
             PROVE  PaneInv'
  BY DEF Answers
<1>4. CASE Connected(c)
  <2>1. screen # "chat" /\ screen' = "signin"
    BY <1>4 DEF Connected, Basic, Calls
  <2> QED
    BY <1>2, <1>3, <1>4, <2>1, PaneKept DEF Connected, Answered, server
<1>5. CASE Registered(c)
  <2> DEFINE made == CallOf("login", 1)
  <2>1. made.kind # "open"
    BY DEF CallOf
  <2>2. out' = (out \ {c}) \cup {made}
    BY <1>5 DEF Registered, AskNext
  <2> HIDE DEF made
  <2> QED
    BY <1>2, <1>3, <1>5, <2>1, <2>2, PaneKept DEF Registered, server
<1>6. CASE LoggedIn(c)
  <2> DEFINE made == CallOf("open", 1)
  <2>1. made.served = FALSE
    BY DEF CallOf
  <2>2. out' = {made}
    BY <1>1, <1>6 DEF LoggedIn, AskNext
  <2> HIDE DEF made
  <2>3. chat'.pane = << >>
    BY <1>6, FreshFacts, PaneFacts DEF LoggedIn
  <2> QED
    BY <1>6, <2>1, <2>2, <2>3, PaneEmptied DEF LoggedIn, server
<1>7. CASE EntryFailed(c) \/ MessageSent(c)
  BY <1>2, <1>3, <1>7, PaneKept DEF EntryFailed, MessageSent, Answered, server
<1>8. CASE RoomOpened(c)
  BY <1>8, PaneOpened
<1>9. CASE RoomNotOpened(c) \/ RoomCreated(c)
  <2>1. chat'.pane = chat.pane
    BY <1>1, <1>9, PaneFacts DEF RoomNotOpened, RoomCreated
  <2> QED
    BY <1>2, <1>3, <1>9, <2>1, PaneKept DEF RoomNotOpened, RoomCreated, Answered, server
<1>10. CASE MessageNotSent(c)
  <2>1. chat'.pane = chat.pane
    BY <1>1, <1>10, PaneFacts DEF MessageNotSent, ChatFields
  <2> QED
    BY <1>2, <1>3, <1>10, <2>1, PaneKept DEF MessageNotSent, Answered, server
<1>11. CASE AnsweredGone(c)
  BY <1>11, PaneSignedOut DEF AnsweredGone
<1> QED
  BY <1>4, <1>5, <1>6, <1>7, <1>8, <1>9, <1>10, <1>11

\* Reading on and handing over, while a room is watched: where the stream is.
LEMMA PaneStream ==
  ASSUME PaneInv, messages.room # None,
         UNCHANGED <<server, screen, out>>, messages'.room = messages.room,
         chat'.pane \in Seq(Nat), messages'.batch \in Seq(Nat),
         messages'.cursor \in 0..handedOut,
         NEW p \in 0..Len(log[messages.room]), PaneFrom(p)'
  PROVE  PaneInv'
<1>1. UNCHANGED <<log, handedOut, roomCount>>
  BY DEF server
<1>2. LogsOK'
  BY <1>1 DEF PaneInv, LogsOK
<1>3. Watching'
  BY <1>1 DEF PaneInv, Watching
<1>4. \A c \in out' : OpensOn(c)'
  BY <1>1 DEF PaneInv, OpensOn
<1> QED
  BY <1>2, <1>3, <1>4 DEF PaneInv

LEMMA EmptyEnd ==
  ASSUME NEW page \in Seq(Nat)
  PROVE  page \o << >> = page
OBVIOUS

LEMMA PaneStreams ==
  ASSUME Basic, Follows, PaneInv, Streams
  PROVE  PaneInv'
<1> DEFINE own == log[messages.room]
<1>1. DOMAIN chat = ChatFields
  BY DEF Basic, Shape
<1>2. roomCount \in Rooms
  BY DEF PaneInv, LogsOK
<1>3. messages.room # None => screen = "chat"
  BY DEF PaneInv, Watching
<1>4. ASSUME messages.room # None
      PROVE  /\ messages.room \in Rooms
             /\ chat.pane \in Seq(Nat) /\ messages.batch \in Seq(Nat)
             /\ messages.cursor \in 0..handedOut
             /\ own \in Seq(Nat) /\ Increasing(own)
             /\ \A i \in 1..Len(own) : own[i] \in 1..handedOut
             /\ \E p \in 0..Len(own) : PaneFrom(p)
  BY <1>4 DEF PaneInv, Watching, LogsOK
<1>5. CASE Fetch
  <2> DEFINE page == After(own, messages.cursor, PageLimit)
  <2>1. messages.room # None /\ messages.batch = << >> /\ page # << >>
    BY <1>5 DEF Fetch
  <2>2. PICK p \in 0..Len(own) : PaneFrom(p)
    BY <1>4, <2>1
  <2> DEFINE q == p + Len(chat.pane)
  <2>3. Window(own, p, chat.pane) /\ Splits(own, messages.cursor, q)
    BY <1>4, <2>1, <2>2, EmptyEnd DEF PaneFrom, InFirstPage
  <2>4. messages.cursor \in Nat /\ PageLimit \in Nat /\ q \in Nat /\ p \in Nat
    <3>1. messages.cursor \in Nat /\ PageLimit \in Nat
      BY <1>4, <2>1, TerminalAssumption DEF PaneInv, LogsOK
    <3>2. q \in 0..Len(own) /\ Len(own) \in Nat
      BY <1>4, <2>3 DEF Splits
    <3> QED BY <3>1, <3>2
  <2>5. page \in Seq(Nat) /\ Window(own, q, page)
    BY <1>4, <2>1, <2>3, <2>4, AfterIsWindow
  <2> HIDE DEF page, q
  <2>6. Window(own, p, chat.pane \o page)
    BY <1>4, <2>1, <2>3, <2>4, <2>5, WindowConcat DEF q
  <2>7. page[1] > messages.cursor
    <3>1. own \in Seq(Nat) /\ page # << >>
      BY <1>4, <2>1 DEF page
    <3> HIDE DEF own
    <3>2. q + 1 \in 1..Len(own) /\ page[1] = own[q + 1]
      BY <2>4, <2>5, <3>1, WindowEnds
    <3> QED
      BY <1>4, <2>1, <2>3, <2>4, <3>1, <3>2 DEF Splits
  <2>8. /\ messages'.room = messages.room /\ messages'.cursor = messages.cursor
        /\ messages'.batch = page /\ UNCHANGED <<server, screen, chat, out>>
    BY <1>5 DEF Fetch, page
  <2>9. ~InFirstPage'
    BY <2>4, <2>5, <2>7, <2>8, <2>1 DEF InFirstPage
  <2>10. PaneFrom(p)'
    BY <2>3, <2>6, <2>8, <2>9 DEF PaneFrom, server, q
  <2> QED
    BY <1>4, <2>1, <2>5, <2>8, <2>10, PaneStream
<1>6. CASE FetchLost
  <2>1. /\ messages.room # None /\ messages.batch # << >>
        /\ messages.batch[1] > messages.cursor
    BY <1>6 DEF FetchLost
  <2>2. PICK p \in 0..Len(own) : PaneFrom(p)
    BY <1>4, <2>1
  <2>3. ~InFirstPage
    BY <1>4, <2>1 DEF InFirstPage, PaneInv, LogsOK
  <2>4. Splits(own, messages.cursor, p + Len(chat.pane))
    BY <2>2, <2>3 DEF PaneFrom
  <2>5. Window(own, p, chat.pane)
    <3>1. Window(own, p, chat.pane \o messages.batch)
      BY <2>2 DEF PaneFrom
    <3>2. p \in Nat
      BY <1>4, <2>1
    <3> QED
      BY <1>4, <2>1, <3>1, <3>2, WindowSplits
  <2>6. /\ messages'.room = messages.room /\ messages'.cursor = messages.cursor
        /\ messages'.batch = << >> /\ UNCHANGED <<server, screen, chat, out>>
    BY <1>6 DEF FetchLost
  <2>7. PaneFrom(p)'
    BY <1>4, <2>1, <2>4, <2>5, <2>6, EmptyEnd DEF PaneFrom, InFirstPage, server
  <2> QED
    BY <1>4, <2>1, <2>6, <2>7, PaneStream
<1>7. CASE ApplyMessages
  <2> DEFINE last == messages.batch[Len(messages.batch)]
             whole == chat.pane \o messages.batch
  <2>1. messages.room # None /\ messages.batch # << >>
    BY <1>7 DEF ApplyMessages
  <2>2. PICK p \in 0..Len(own) : PaneFrom(p)
    BY <1>4, <2>1
  <2>3. p \in Nat /\ Len(chat.pane) \in Nat
    BY <1>4, <2>1
  <2>4. /\ whole \in Seq(Nat) /\ Len(whole) = Len(chat.pane) + Len(messages.batch)
        /\ Window(own, p, whole)
    BY <1>4, <2>1, <2>2 DEF PaneFrom
  <2>5. /\ Len(messages.batch) \in Nat
        /\ (p + Len(chat.pane)) + Len(messages.batch) \in 1..Len(own)
        /\ last = own[(p + Len(chat.pane)) + Len(messages.batch)]
    <3> DEFINE shown == chat.pane
               batch == messages.batch
    <3>1. /\ own \in Seq(Nat) /\ shown \in Seq(Nat) /\ batch \in Seq(Nat)
          /\ batch # << >> /\ Window(own, p, shown \o batch)
      BY <1>4, <2>1, <2>4
    <3> HIDE DEF own, shown, batch
    <3>2. Window(own, p + Len(shown), batch) /\ p + Len(shown) \in Nat
      BY <2>3, <3>1, WindowSplits
    <3>3. /\ Len(batch) \in Nat
          /\ (p + Len(shown)) + Len(batch) \in 1..Len(own)
          /\ batch[Len(batch)] = own[(p + Len(shown)) + Len(batch)]
      BY <3>1, <3>2, WindowEnds
    <3> QED
      BY <3>3 DEF shown, batch
  <2> HIDE DEF whole
  <2>6. Splits(own, last, p + Len(whole)) /\ last \in 0..handedOut
    <3>1. p + Len(whole) = (p + Len(chat.pane)) + Len(messages.batch)
      <4>1. Len(whole) = Len(chat.pane) + Len(messages.batch) /\ Len(messages.batch) \in Nat
        BY <2>4, <2>5
      <4>2. \A m, n \in Nat : p + (m + n) = (p + m) + n
        BY <2>3
      <4> QED
        BY <2>3, <4>1, <4>2
    <3>2. p + Len(whole) \in 1..Len(own) /\ last = own[p + Len(whole)]
      BY <2>5, <3>1
    <3>3. last \in 1..handedOut
      BY <1>4, <2>1, <3>2
    <3>4. own \in Seq(Nat) /\ Increasing(own)
      BY <1>4, <2>1
    <3> HIDE DEF last
    <3> QED
      BY <3>2, <3>3, <3>4, SplitAtMessage
  <2>7. /\ messages'.room = messages.room /\ messages'.cursor = last
        /\ messages'.batch = << >> /\ UNCHANGED <<server, screen, out>>
    BY <1>7 DEF ApplyMessages
  <2>8. chat'.pane = whole
    BY <1>1, <1>7, PaneFacts DEF ApplyMessages, whole
  <2>9. PaneFrom(p)'
    BY <2>4, <2>6, <2>7, <2>8, EmptyEnd DEF PaneFrom, InFirstPage, server
  <2> QED
    BY <2>1, <2>4, <2>6, <2>7, <2>8, <2>9, PaneStream
<1>8. CASE ReadRooms \/ ListLost
  BY <1>2, <1>3, <1>8, PaneKept DEF ReadRooms, ListLost, server
<1>9. CASE ApplyRooms
  <2> DEFINE shown == Shown(chat, sidebar.list)
  <2>1. DOMAIN shown = ChatFields /\ shown.pane = chat.pane
    BY <1>1, ShownFacts, PaneFacts
  <2> HIDE DEF shown
  <2>2. CASE reopen /\ ~pending
    <3> DEFINE made == CallOf("open", shown.selected)
    <3>1. made.served = FALSE
      BY DEF CallOf
    <3>2. chat' = Cleared(shown) /\ messages' = NoStream /\ out' = out \cup {made}
      BY <1>9, <2>2 DEF ApplyRooms, Ask, shown
    <3> HIDE DEF made
    <3>3. out = {} /\ chat'.pane = << >>
      BY <2>1, <2>2, <3>2, PaneFacts DEF Basic, Calls
    <3> QED
      BY <1>9, <3>1, <3>2, <3>3, PaneEmptied DEF ApplyRooms, server
  <2>3. CASE ~(reopen /\ ~pending)
    <3>1. chat' = shown /\ UNCHANGED <<messages, out>>
      BY <1>9, <2>3 DEF ApplyRooms, shown
    <3> QED
      BY <1>2, <1>3, <1>9, <2>1, <3>1, PaneKept DEF ApplyRooms, server
  <2> QED
    BY <2>2, <2>3
<1>10. CASE StreamGone
  BY <1>10, PaneSignedOut DEF StreamGone
<1> QED
  BY <1>5, <1>6, <1>7, <1>8, <1>9, <1>10 DEF Streams

LEMMA PaneServer ==
  ASSUME Basic, Follows, PaneInv, MaxRebuilds = 0, Server
  PROVE  PaneInv'
<1>1. roomCount \in Rooms /\ rebuilds \in Nat
  BY DEF PaneInv, LogsOK, Basic, Shape
<1>2. messages.room # None => screen = "chat"
  BY DEF PaneInv, Watching
<1>3. ASSUME NEW room \in Rooms, OthersPost(room) PROVE PaneInv'
  BY <1>3, PaneGrows DEF OthersPost, client
<1>4. CASE OthersCreate
  <2>1. roomCount' \in Rooms
    BY <1>1, <1>4, TerminalAssumption DEF OthersCreate, Rooms
  <2> QED
    BY <1>2, <1>4, <2>1, PaneKept DEF OthersCreate, client
<1>5. CASE Rebuild
  BY <1>1, <1>5 DEF Rebuild
<1>6. ASSUME NEW c \in out, Serve(c) PROVE PaneInv'
  <2> DEFINE served == [kind |-> c.kind, room |-> c.room, served |-> TRUE,
                        result |-> Outcome(c)]
  <2>1. /\ served.kind = c.kind /\ served.room = c.room /\ served.served
        /\ served.result = Outcome(c)
    OBVIOUS
  <2>2. out' = (out \ {c}) \cup {served}
    BY <1>6 DEF Serve
  <2> HIDE DEF served
  <2>3. out' = {served}
    BY <2>2 DEF Basic, Calls
  <2>4. UNCHANGED <<screen, chat, messages>>
    BY <1>6 DEF Serve
  <2>5. CASE c.kind = "send"
    <3>1. Post(c.room) /\ roomCount' = roomCount
      BY <1>6, <2>5 DEF Serve
    <3> QED
      BY <2>1, <2>3, <2>4, <2>5, <3>1, PaneGrows
  <2>6. CASE c.kind = "open"
    <3> DEFINE own == log[c.room]
               page == Newest(own, PageLimit)
    <3>1. UNCHANGED <<log, handedOut, roomCount>> /\ served.result = page
      BY <1>6, <2>1, <2>6 DEF Serve, Outcome
    <3>2. screen = "chat" /\ messages.room = None
      BY <2>6 DEF Basic, Calls, PaneInv, OpensOn
    <3>3. c.room \in Rooms
      <4>1. c.room = chat.selected /\ chat.selected \in 1..Len(chat.listed)
            /\ Len(chat.listed) \in Nat /\ Len(chat.listed) <= roomCount
        BY <2>6, <3>2 DEF Follows, ListsGrow, StreamIsOfOpenRoom
      <4> QED
        BY <1>1, <4>1, TerminalAssumption DEF Rooms
    <3>4. own \in Seq(Nat)
      BY <3>3 DEF PaneInv, LogsOK
    <3>5. /\ page \in Seq(Nat) /\ Window(own, Len(own) - Len(page), page)
          /\ Len(page) = AtMost(PageLimit, Len(own))
      BY <3>4, TerminalAssumption, NewestIsWindow
    <3>6. Len(own) - Len(page) \in 0..Len(own)
      BY <3>4, <3>5, TerminalAssumption DEF AtMost
    <3>7. LogsOK' /\ Watching'
      BY <2>4, <3>1, <3>2 DEF PaneInv, LogsOK, Watching
    <3>8. ASSUME NEW d \in out' PROVE OpensOn(d)'
      <4>1. d.room = c.room /\ d.result = page
        BY <2>1, <2>3, <3>1
      <4>2. \E p \in 0..Len(own) : Window(own, p, page)
        BY <3>5, <3>6
      <4> HIDE DEF page
      <4> QED
        BY <2>4, <3>1, <3>2, <3>3, <3>5, <4>1, <4>2 DEF OpensOn
    <3> QED
      BY <2>3, <3>7, <3>8 DEF PaneInv
  <2>7. CASE c.kind \notin {"send", "open"}
    <3>1. UNCHANGED <<log, handedOut>>
      BY <1>6, <2>7 DEF Serve
    <3>2. roomCount' \in Rooms
      BY <1>1, <1>6, TerminalAssumption DEF Serve, Rooms
    <3> QED
      BY <1>2, <2>1, <2>3, <2>4, <2>7, <3>1, <3>2, PaneKept
  <2> QED
    BY <2>5, <2>6, <2>7
<1> QED
  BY <1>3, <1>4, <1>5, <1>6 DEF Server

LEMMA PaneInvariant ==
  MaxRebuilds = 0 => (Spec => []PaneInv)
<1> SUFFICES ASSUME MaxRebuilds = 0 PROVE Spec => []PaneInv
  OBVIOUS
<1>1. Basic /\ Follows /\ PaneInv /\ [Next]_vars => PaneInv'
  <2>1. ASSUME PaneInv, UNCHANGED vars PROVE PaneInv'
    BY <2>1, PaneKept DEF vars, PaneInv, LogsOK, Watching
  <2> QED
    BY <2>1, PaneKeys, PaneAnswers, PaneStreams, PaneServer DEF Next
<1> QED
  BY <1>1, PaneInit, BasicInvariant, FollowsInvariant, PTL DEF Spec

\* apply_messages, open_room and clear: while the server keeps its database, the
\* pane with what the stream has in hand is an unbroken piece of the selected
\* room's messages, for any page limit and whatever keys, lists, failures and
\* posts of others came in between.
THEOREM PaneShowsTheRoom ==
  MaxRebuilds = 0 => (Spec => []PaneIsOfOpenRoom)
<1> SUFFICES ASSUME MaxRebuilds = 0 PROVE Spec => []PaneIsOfOpenRoom
  OBVIOUS
<1>1. Follows /\ PaneInv => PaneIsOfOpenRoom
  <2> SUFFICES ASSUME Follows, PaneInv, screen = "chat"
               PROVE  \E p \in 0..Len(log[chat.selected]) :
                        Window(log[chat.selected], p, chat.pane \o messages.batch)
    BY DEF PaneIsOfOpenRoom
  <2>1. CASE messages.room = None
    <3>1. chat.pane = << >> /\ messages.batch = << >>
      BY <2>1 DEF PaneInv, Watching
    <3>2. chat.selected \in Rooms
      BY TerminalAssumption DEF Follows, ListsGrow, PaneInv, LogsOK, Rooms
    <3>3. Len(log[chat.selected]) \in Nat
      BY <3>2 DEF PaneInv, LogsOK
    <3>4. Window(log[chat.selected], 0, << >> \o << >>)
      BY <3>3 DEF Window
    <3> QED
      BY <3>1, <3>3, <3>4
  <2>2. CASE messages.room # None
    <3>1. messages.room = chat.selected
      BY <2>2 DEF Follows, StreamIsOfOpenRoom
    <3> QED
      BY <2>2, <3>1 DEF PaneInv, Watching, PaneFrom
  <2> QED
    BY <2>1, <2>2
<1> QED
  BY <1>1, PaneInvariant, FollowsInvariant, PTL

-----------------------------------------------------------------------------
(* The state keeps its shape, whatever the server does to its database.     *)

Inputs  == {"blank", "text", "create", "help", "malformed"}
Notices == {"none", "help", "warning"}

ChatTyped(c) ==
  /\ DOMAIN c = ChatFields
  /\ c.listed \in Seq(0..MaxSeq) /\ c.pane \in Seq(1..MaxSeq)
  /\ c.selected \in Rooms /\ c.watched \in Rooms \cup {None}
  /\ c.last_read \in [Rooms -> 0..MaxSeq]
  /\ c.input \in Inputs /\ c.notices \in Notices

StreamTyped(m) ==
  /\ m.room \in Rooms \cup {None} /\ m.cursor \in 0..MaxSeq
  /\ m.batch \in Seq(1..MaxSeq)

\* What a call that was served is answered with.
CallTyped(c) ==
  /\ c.room \in Rooms
  /\ c.served => /\ c.kind = "login" => c.result \in Seq(0..MaxSeq)
                 /\ c.kind = "open"  => c.result \in Seq(1..MaxSeq)
                 /\ c.kind = "send"  => c.result[1] \in 1..MaxSeq

ScreenTyped ==
  /\ screen \in {"connection", "signin", "chat"}
  /\ screen = "chat" <=> sidebar # None
  /\ screen # "chat" => messages = NoStream /\ ~reopen /\ chat = Blank
  /\ pending <=> out # {}

Typed ==
  /\ LogsOK /\ handedOut <= MaxSeq
  /\ ChatTyped(chat) /\ StreamTyped(messages) /\ ScreenTyped
  /\ sidebar \notin {None, Waiting} => sidebar.list \in Seq(0..MaxSeq)
  /\ \A c \in out : CallTyped(c)
  /\ seen \in [Rooms -> 0..MaxSeq] /\ acked \in 0..MaxSeq

LEMMA SeqOfElements ==
  ASSUME NEW S, NEW s \in Seq(Nat), \A i \in 1..Len(s) : s[i] \in S
  PROVE  s \in Seq(S)
OBVIOUS

LEMMA LastElement ==
  ASSUME NEW S, NEW s \in Seq(S), s # << >>
  PROVE  s[Len(s)] \in S
<1>1. Len(s) \in 1..Len(s)
  OBVIOUS
<1> QED
  BY <1>1

\* A window of a log holds seqs that were handed out.
LEMMA WindowTyped ==
  ASSUME LogsOK, handedOut <= MaxSeq, NEW room \in Rooms, NEW p \in Nat, NEW page \in Seq(Nat),
         Window(log[room], p, page)
  PROVE  page \in Seq(1..MaxSeq)
<1> DEFINE own == log[room]
<1>1. /\ own \in Seq(Nat) /\ handedOut \in Nat /\ MaxSeq \in Nat
      /\ \A i \in 1..Len(own) : own[i] \in 1..handedOut
  BY TerminalAssumption DEF LogsOK
<1> HIDE DEF own
<1>2. /\ p + Len(page) <= Len(own)
      /\ \A i \in 1..Len(page) : page[i] = own[p + i]
  BY DEF Window, own
<1>3. ASSUME NEW i \in 1..Len(page) PROVE page[i] \in 1..MaxSeq
  <2>1. p + i \in 1..Len(own)
    BY <1>1, <1>2
  <2>2. page[i] = own[p + i] /\ own[p + i] \in 1..handedOut
    BY <1>1, <1>2, <2>1
  <2> QED
    BY <1>1, <2>2
<1> QED
  BY <1>3, SeqOfElements

LEMMA AfterTyped ==
  ASSUME LogsOK, handedOut <= MaxSeq, NEW room \in Rooms, NEW cursor \in Nat
  PROVE  After(log[room], cursor, PageLimit) \in Seq(1..MaxSeq)
<1> DEFINE own == log[room]
           page == After(own, cursor, PageLimit)
<1>1. own \in Seq(Nat) /\ Increasing(own) /\ PageLimit \in Nat
  BY TerminalAssumption DEF LogsOK
<1> HIDE DEF own
<1>2. PICK p \in 0..Len(own) : Splits(own, cursor, p)
  BY <1>1, SplitExists
<1>3. page \in Seq(Nat) /\ Window(own, p, page)
  BY <1>1, <1>2, AfterIsWindow
<1>4. p \in Nat
  BY <1>1
<1> HIDE DEF page
<1>5. page \in Seq(1..MaxSeq)
  BY <1>3, <1>4, WindowTyped DEF own
<1> QED
  BY <1>5 DEF page, own

LEMMA NewestTyped ==
  ASSUME LogsOK, handedOut <= MaxSeq, NEW room \in Rooms
  PROVE  Newest(log[room], PageLimit) \in Seq(1..MaxSeq)
<1> DEFINE own == log[room]
           page == Newest(own, PageLimit)
<1>1. own \in Seq(Nat) /\ PageLimit \in Nat
  BY TerminalAssumption DEF LogsOK
<1> HIDE DEF own
<1>2. /\ page \in Seq(Nat) /\ Window(own, Len(own) - Len(page), page)
      /\ Len(page) = AtMost(PageLimit, Len(own))
  BY <1>1, NewestIsWindow
<1>3. Len(own) - Len(page) \in Nat
  BY <1>1, <1>2 DEF AtMost
<1> HIDE DEF page
<1>4. page \in Seq(1..MaxSeq)
  BY <1>2, <1>3, WindowTyped DEF own
<1> QED
  BY <1>4 DEF page, own

LEMMA ListTyped ==
  ASSUME LogsOK, handedOut <= MaxSeq
  PROVE  List \in Seq(0..MaxSeq) /\ List \in Seq(Nat)
<1>1. MaxSeq \in Nat /\ handedOut \in Nat /\ roomCount \in Nat /\ 1..roomCount \subseteq Rooms
  BY TerminalAssumption DEF LogsOK, Rooms
<1>2. ASSUME NEW r \in Rooms PROVE Latest(r) \in 0..MaxSeq
  <2> DEFINE own == log[r]
  <2>1. /\ own \in Seq(Nat)
        /\ \A i \in 1..Len(own) : own[i] \in 1..handedOut
    BY DEF LogsOK
  <2> HIDE DEF own
  <2>2. own # << >> => own[Len(own)] \in 0..MaxSeq
    <3>1. own # << >> => Len(own) \in 1..Len(own)
      BY <2>1
    <3> QED
      BY <1>1, <2>1, <3>1
  <2>3. Latest(r) = IF own = << >> THEN 0 ELSE own[Len(own)]
    BY DEF Latest, own
  <2> QED
    BY <1>1, <2>2, <2>3
<1>3. List \in [1..roomCount -> 0..MaxSeq]
  BY <1>1, <1>2 DEF List
<1>4. List \in Seq(0..MaxSeq)
  BY <1>1, <1>3
<1>5. List \in Seq(Nat)
  <2>1. List \in [1..roomCount -> Nat]
    BY <1>1, <1>3
  <2> QED
    BY <1>1, <2>1
<1> QED
  BY <1>4, <1>5

-----------------------------------------------------------------------------
(* The chat screen's methods. *)

LEMMA BlankTyped == ChatTyped(Blank) /\ StreamTyped(NoStream)
<1>1. 1 \in Rooms /\ 0 \in 0..MaxSeq
  BY TerminalAssumption DEF Rooms
<1> QED
  BY <1>1 DEF ChatTyped, StreamTyped, Blank, NoStream, ChatFields, Inputs, Notices

LEMMA ClearedTyped ==
  ASSUME NEW c, ChatTyped(c)
  PROVE  ChatTyped(Cleared(c))
<1>1. << >> \in Seq(1..MaxSeq) /\ "none" \in Notices
  BY DEF Notices
<1> QED
  BY <1>1 DEF ChatTyped, Cleared, ChatFields

LEMMA ShownTyped ==
  ASSUME NEW c, ChatTyped(c), NEW list \in Seq(0..MaxSeq)
  PROVE  ChatTyped(Shown(c, list))
<1>1. (IF c.selected <= Len(list) THEN c.selected ELSE 1) \in Rooms
  BY TerminalAssumption DEF ChatTyped, Rooms
<1> QED
  BY <1>1 DEF ChatTyped, Shown, ChatFields

LEMMA AppendedTyped ==
  ASSUME NEW c, ChatTyped(c), NEW batch \in Seq(1..MaxSeq), batch # << >>
  PROVE  ChatTyped(Appended(c, batch))
<1>1. batch[Len(batch)] \in 0..MaxSeq
  <2>1. batch[Len(batch)] \in 1..MaxSeq
    BY LastElement
  <2> QED
    BY <2>1, TerminalAssumption
<1>2. c.pane \o batch \in Seq(1..MaxSeq)
  BY DEF ChatTyped
<1>3. [c.last_read EXCEPT ![c.selected] = batch[Len(batch)]] \in [Rooms -> 0..MaxSeq]
  BY <1>1 DEF ChatTyped
<1> QED
  BY <1>2, <1>3 DEF ChatTyped, Appended, ChatFields

LEMMA WarnedTyped ==
  ASSUME NEW c, ChatTyped(c)
  PROVE  ChatTyped(Warned(c))
BY DEF ChatTyped, Warned, ChatFields, Notices

LEMMA ReadTyped ==
  ASSUME NEW list \in Seq(0..MaxSeq)
  PROVE  [r \in Rooms |-> IF r <= Len(list) THEN list[r] ELSE 0] \in [Rooms -> 0..MaxSeq]
BY TerminalAssumption DEF Rooms

LEMMA FreshTyped ==
  ASSUME NEW list \in Seq(0..MaxSeq)
  PROVE  ChatTyped(Fresh(list))
<1>1. [r \in Rooms |-> IF r <= Len(list) THEN list[r] ELSE 0] \in [Rooms -> 0..MaxSeq]
  BY ReadTyped
<1> DEFINE read == [r \in Rooms |-> IF r <= Len(list) THEN list[r] ELSE 0]
<1> HIDE DEF read
<1>2. Fresh(list) = [Blank EXCEPT !.listed = list, !.last_read = read]
  BY DEF Fresh, read
<1>3. ChatTyped(Blank)
  BY BlankTyped
<1> QED
  BY <1>1, <1>2, <1>3 DEF ChatTyped, ChatFields, read

-----------------------------------------------------------------------------
(* The steps. *)

LEMMA TypedInit == Init => Typed
<1> SUFFICES ASSUME Init PROVE Typed
  OBVIOUS
<1>1. LogsOK
  BY PaneInit DEF PaneInv
<1>2. ScreenTyped
  BY DEF Init, ScreenTyped
<1> QED
  BY <1>1, <1>2, BlankTyped, TerminalAssumption DEF Init, Typed

LEMMA CallMade ==
  ASSUME NEW kind, NEW room \in Rooms
  PROVE  CallTyped(CallOf(kind, room))
BY DEF CallTyped, CallOf

\* A step of the chat screen's or the entry screens', which stay where they are.
LEMMA TypedStays ==
  ASSUME Typed, UNCHANGED <<server, screen>>,
         sidebar' = sidebar \/ (sidebar # None /\ sidebar' # None
                                 /\ (sidebar' # Waiting => sidebar'.list \in Seq(0..MaxSeq))),
         screen # "chat" => chat' = chat /\ messages' = messages /\ reopen' = reopen,
         ChatTyped(chat'), StreamTyped(messages'),
         pending' <=> out' # {}, \A c \in out' : c \in out \/ CallTyped(c),
         seen' \in [Rooms -> 0..MaxSeq], acked' \in 0..MaxSeq
  PROVE  Typed'
<1>1. LogsOK' /\ handedOut' <= MaxSeq
  BY DEF Typed, LogsOK, server
<1>2. ScreenTyped'
  BY DEF Typed, ScreenTyped
<1>3. \A c \in out' : CallTyped(c)
  BY DEF Typed
<1>4. sidebar' \notin {None, Waiting} => sidebar'.list \in Seq(0..MaxSeq)
  BY DEF Typed
<1>5. ChatTyped(chat)' /\ StreamTyped(messages)' /\ \A c \in out' : CallTyped(c)'
  BY <1>3 DEF ChatTyped, StreamTyped, CallTyped
<1> QED
  BY <1>1, <1>2, <1>4, <1>5 DEF Typed

LEMMA TypedSignedOut ==
  ASSUME Typed, SignedOut, UNCHANGED <<server, seen, acked>>
  PROVE  Typed'
<1>1. LogsOK' /\ handedOut' <= MaxSeq
  BY DEF Typed, LogsOK, server
<1>2. /\ screen' = "signin" /\ chat' = Blank /\ messages' = NoStream /\ sidebar' = None
      /\ reopen' = FALSE /\ pending' = FALSE /\ out' = {}
  BY DEF SignedOut
<1>3. ChatTyped(chat)' /\ StreamTyped(messages)'
  BY <1>2, BlankTyped DEF ChatTyped, StreamTyped
<1>4. ScreenTyped'
  BY <1>2 DEF ScreenTyped
<1> QED
  BY <1>1, <1>2, <1>3, <1>4 DEF Typed

LEMMA TypedKeys ==
  ASSUME Basic, Typed, Keys
  PROVE  Typed'
<1>1. /\ ChatTyped(chat) /\ StreamTyped(messages) /\ ScreenTyped
      /\ seen \in [Rooms -> 0..MaxSeq] /\ acked \in 0..MaxSeq
  BY DEF Typed
<1>2. 1 \in Rooms /\ chat.selected \in Rooms
  BY <1>1, TerminalAssumption DEF Rooms, ChatTyped
<1>3. CASE Connect \/ Register \/ LogIn
  <2>1. PICK kind : Ask(kind, 1) /\ UNCHANGED <<server, screen, chat, messages, sidebar, reopen, seen, acked>>
    BY <1>3 DEF Connect, Register, LogIn
  <2>2. pending' = TRUE /\ out' # {} /\ \A c \in out' : c \in out \/ CallTyped(c)
    BY <1>2, <2>1, CallMade DEF Ask
  <2> QED
    BY <1>1, <2>1, <2>2, TypedStays
<1>4. ASSUME NEW line \in Lines, Type(line) PROVE Typed'
  <2>1. line \in Inputs
    BY TerminalAssumption DEF Inputs
  <2>2. ChatTyped(chat')
    BY <1>1, <1>4, <2>1 DEF Type, ChatTyped, ChatFields
  <2> QED
    BY <1>1, <1>4, <2>2, TypedStays DEF Type, ScreenTyped
<1>5. CASE Note
  <2>1. ChatTyped(chat')
    BY <1>1, <1>5 DEF Note, ChatTyped, ChatFields, Inputs, Notices
  <2> QED
    BY <1>1, <1>5, <2>1, TypedStays DEF Note, ScreenTyped
<1>6. CASE Submit
  <2>1. ChatTyped(chat')
    BY <1>1, <1>6 DEF Submit, ChatTyped, ChatFields, Inputs, Notices
  <2>2. PICK kind : Ask(kind, chat.selected)
    BY <1>6 DEF Submit
  <2>3. pending' = TRUE /\ out' # {} /\ \A c \in out' : c \in out \/ CallTyped(c)
    BY <1>2, <2>2, CallMade DEF Ask
  <2> QED
    BY <1>1, <1>6, <2>1, <2>3, TypedStays DEF Submit
<1>7. ASSUME NEW room \in Rooms, Tab(room) PROVE Typed'
  <2> DEFINE moved == [chat EXCEPT !.selected = room]
  <2>1. ChatTyped(moved)
    BY <1>1 DEF ChatTyped, ChatFields
  <2>2. chat' = Cleared(moved)
    BY <1>7 DEF Tab
  <2> HIDE DEF moved
  <2>3. ChatTyped(chat') /\ StreamTyped(messages')
    BY <1>7, <2>1, <2>2, ClearedTyped, BlankTyped DEF Tab
  <2>4. pending' = TRUE /\ out' # {} /\ \A c \in out' : c \in out \/ CallTyped(c)
    BY <1>7, CallMade DEF Tab, Ask
  <2> QED
    BY <1>1, <1>7, <2>3, <2>4, TypedStays DEF Tab
<1>8. CASE Quit
  <2>1. LogsOK' /\ handedOut' <= MaxSeq
    BY <1>8 DEF Typed, LogsOK, Quit, server
  <2>2. /\ screen' = "connection" /\ chat' = Blank /\ messages' = NoStream /\ sidebar' = None
        /\ reopen' = FALSE /\ pending' = FALSE /\ out' = {}
        /\ seen' = [r \in Rooms |-> 0] /\ acked' = 0
    BY <1>8 DEF Quit
  <2>3. ChatTyped(chat)' /\ StreamTyped(messages)'
    BY <2>2, BlankTyped DEF ChatTyped, StreamTyped
  <2>4. ScreenTyped'
    BY <2>2 DEF ScreenTyped
  <2> QED
    BY <2>1, <2>2, <2>3, <2>4, TerminalAssumption DEF Typed
<1> QED
  BY <1>3, <1>4, <1>5, <1>6, <1>7, <1>8 DEF Keys

LEMMA TypedAnswers ==
  ASSUME Basic, Typed, Answers
  PROVE  Typed'
<1> SUFFICES ASSUME NEW c \in out,
                    \/ Connected(c) \/ Registered(c) \/ LoggedIn(c) \/ EntryFailed(c)
                    \/ RoomOpened(c) \/ RoomNotOpened(c)
                    \/ MessageSent(c) \/ MessageNotSent(c) \/ RoomCreated(c)
                    \/ AnsweredGone(c)
             PROVE  Typed'
  BY DEF Answers
<1>1. /\ ChatTyped(chat) /\ StreamTyped(messages) /\ ScreenTyped /\ CallTyped(c)
      /\ seen \in [Rooms -> 0..MaxSeq] /\ acked \in 0..MaxSeq
  BY DEF Typed
<1>2. 1 \in Rooms /\ 0 \in 0..MaxSeq /\ Waiting # None
  BY TerminalAssumption DEF Rooms, Waiting
<1>3. /\ out = {c}
      /\ c.kind \in {"open", "send", "create"} <=> screen = "chat"
  BY DEF Basic, Calls
<1>4. Answered(c) => pending' = FALSE /\ out' = {}
  BY <1>3 DEF Answered
<1>5. ASSUME NEW kind, AskNext(c, kind, 1)
      PROVE  pending' = TRUE /\ out' # {} /\ \A d \in out' : CallTyped(d)
  <2>1. pending' = TRUE /\ out' = {CallOf(kind, 1)}
    BY <1>3, <1>5 DEF AskNext
  <2> QED
    BY <1>2, <2>1, CallMade
<1>6. CASE Connected(c)
  <2>1. LogsOK' /\ handedOut' <= MaxSeq
    BY <1>6 DEF Typed, LogsOK, Connected, server
  <2>2. /\ screen' = "signin" /\ screen # "chat" /\ pending' = FALSE /\ out' = {}
        /\ UNCHANGED <<chat, messages, sidebar, reopen, seen, acked>>
    BY <1>3, <1>4, <1>6 DEF Connected
  <2>3. ScreenTyped'
    BY <1>1, <2>2 DEF ScreenTyped
  <2>4. ChatTyped(chat)' /\ StreamTyped(messages)'
    BY <1>1, <2>2 DEF ChatTyped, StreamTyped
  <2> QED
    BY <2>1, <2>2, <2>3, <2>4 DEF Typed
<1>7. CASE Registered(c)
  <2>1. pending' = TRUE /\ out' # {} /\ \A d \in out' : CallTyped(d)
    BY <1>5, <1>7 DEF Registered
  <2> QED
    BY <1>1, <1>7, <2>1, TypedStays DEF Registered
<1>8. CASE LoggedIn(c)
  <2> DEFINE list == c.result
             read == [r \in Rooms |-> IF r <= Len(list) THEN list[r] ELSE 0]
  <2>1. list \in Seq(0..MaxSeq)
    BY <1>1, <1>8 DEF LoggedIn, CallTyped
  <2>2. LogsOK' /\ handedOut' <= MaxSeq
    BY <1>8 DEF Typed, LogsOK, LoggedIn, server
  <2>3. pending' = TRUE /\ out' # {} /\ \A d \in out' : CallTyped(d)
    BY <1>5, <1>8 DEF LoggedIn
  <2>4. /\ screen' = "chat" /\ sidebar' = Waiting /\ messages' = NoStream
        /\ chat' = Cleared(Fresh(list)) /\ seen' = read /\ acked' = acked
    BY <1>8 DEF LoggedIn
  <2>5. read \in [Rooms -> 0..MaxSeq]
    BY <2>1, ReadTyped
  <2> HIDE DEF list, read
  <2>6. ChatTyped(chat') /\ StreamTyped(messages')
    BY <2>1, <2>4, FreshTyped, ClearedTyped, BlankTyped
  <2>7. ChatTyped(chat)' /\ StreamTyped(messages)' /\ \A d \in out' : CallTyped(d)'
    BY <2>3, <2>6 DEF ChatTyped, StreamTyped, CallTyped
  <2>8. ScreenTyped'
    BY <1>2, <2>3, <2>4 DEF ScreenTyped
  <2> QED
    BY <1>1, <2>2, <2>4, <2>5, <2>7, <2>8 DEF Typed
<1>9. CASE EntryFailed(c)
  BY <1>1, <1>4, <1>9, TypedStays DEF EntryFailed
<1>10. CASE RoomOpened(c)
  <2>1. c.room \in Rooms /\ c.result \in Seq(1..MaxSeq) /\ screen = "chat"
    BY <1>1, <1>3, <1>10 DEF RoomOpened, CallTyped
  <2>2. ChatTyped(chat')
    BY <1>1, <1>10, <2>1 DEF RoomOpened, ChatTyped, ChatFields
  <2> DEFINE cursor == IF c.result = << >> THEN 0 ELSE c.result[Len(c.result)]
  <2>3. cursor \in 0..MaxSeq
    <3>1. c.result # << >> => c.result[Len(c.result)] \in 1..MaxSeq
      BY <2>1, LastElement
    <3> QED
      BY <1>2, <3>1, TerminalAssumption
  <2>4. messages' = [room |-> c.room, batch |-> c.result, cursor |-> cursor]
    BY <1>10 DEF RoomOpened
  <2> HIDE DEF cursor
  <2>5. StreamTyped(messages')
    BY <2>1, <2>3, <2>4 DEF StreamTyped
  <2>6. pending' = FALSE /\ out' = {} /\ UNCHANGED <<server, screen, sidebar, seen, acked>>
    BY <1>4, <1>10 DEF RoomOpened
  <2> QED
    BY <1>1, <2>1, <2>2, <2>5, <2>6, TypedStays
<1>11. CASE RoomNotOpened(c)
  <2>1. screen = "chat"
    BY <1>3, <1>11 DEF RoomNotOpened
  <2>2. ChatTyped(chat')
    BY <1>1, <1>11, WarnedTyped DEF RoomNotOpened
  <2>3. /\ pending' = FALSE /\ out' = {}
        /\ UNCHANGED <<server, screen, messages, sidebar, seen, acked>>
    BY <1>4, <1>11 DEF RoomNotOpened
  <2> QED
    BY <1>1, <2>1, <2>2, <2>3, TypedStays
<1>12. CASE MessageSent(c)
  <2>1. acked' \in 0..MaxSeq
    <3>1. acked' = c.result[1] /\ c.result[1] \in 1..MaxSeq
      BY <1>1, <1>12 DEF MessageSent, CallTyped
    <3> QED
      BY <3>1, TerminalAssumption
  <2>2. /\ pending' = FALSE /\ out' = {}
        /\ UNCHANGED <<server, screen, chat, messages, sidebar, reopen, seen>>
    BY <1>4, <1>12 DEF MessageSent
  <2> QED
    BY <1>1, <2>1, <2>2, TypedStays
<1>13. CASE MessageNotSent(c)
  <2> DEFINE putBack == [chat EXCEPT !.input = "text"]
  <2>1. ChatTyped(putBack)
    BY <1>1 DEF ChatTyped, ChatFields, Inputs
  <2>2. chat' = Warned(putBack)
    BY <1>13 DEF MessageNotSent
  <2> HIDE DEF putBack
  <2>3. ChatTyped(chat') /\ screen = "chat"
    BY <1>3, <1>13, <2>1, <2>2, WarnedTyped DEF MessageNotSent
  <2>4. /\ pending' = FALSE /\ out' = {}
        /\ UNCHANGED <<server, screen, messages, sidebar, reopen, seen, acked>>
    BY <1>4, <1>13 DEF MessageNotSent
  <2> QED
    BY <1>1, <2>3, <2>4, TypedStays
<1>14. CASE RoomCreated(c)
  <2>1. ChatTyped(chat') /\ screen = "chat"
    BY <1>1, <1>3, <1>14, WarnedTyped DEF RoomCreated
  <2>2. /\ pending' = FALSE /\ out' = {}
        /\ UNCHANGED <<server, screen, messages, sidebar, reopen, seen, acked>>
    BY <1>4, <1>14 DEF RoomCreated
  <2> QED
    BY <1>1, <2>1, <2>2, TypedStays
<1>15. CASE AnsweredGone(c)
  BY <1>15, TypedSignedOut DEF AnsweredGone
<1> QED
  BY <1>6, <1>7, <1>8, <1>9, <1>10, <1>11, <1>12, <1>13, <1>14, <1>15

LEMMA TypedStreams ==
  ASSUME Basic, Typed, Streams
  PROVE  Typed'
<1>1. /\ ChatTyped(chat) /\ StreamTyped(messages) /\ ScreenTyped
      /\ LogsOK /\ handedOut <= MaxSeq
      /\ seen \in [Rooms -> 0..MaxSeq] /\ acked \in 0..MaxSeq
      /\ sidebar \notin {None, Waiting} => sidebar.list \in Seq(0..MaxSeq)
  BY DEF Typed
<1>2. /\ Waiting # None
      /\ messages.room # None => messages.room \in Rooms /\ screen = "chat"
      /\ sidebar # None => screen = "chat"
      /\ pending <=> out # {}
  BY <1>1, NoStreamFacts, TerminalAssumption DEF Waiting, ScreenTyped, StreamTyped
<1>3. \A c \in out : CallTyped(c)
  BY DEF Typed
<1>4. CASE Fetch
  <2> DEFINE page == After(log[messages.room], messages.cursor, PageLimit)
  <2>1. page \in Seq(1..MaxSeq)
    <3>1. messages.room \in Rooms /\ messages.cursor \in Nat
      BY <1>1, <1>2, <1>4, TerminalAssumption DEF Fetch, StreamTyped
    <3> QED
      BY <1>1, <3>1, AfterTyped
  <2>2. messages' = [room |-> messages.room, cursor |-> messages.cursor, batch |-> page]
    BY <1>4 DEF Fetch
  <2> HIDE DEF page
  <2>3. StreamTyped(messages')
    BY <1>1, <2>1, <2>2 DEF StreamTyped
  <2>4. UNCHANGED <<server, screen, chat, sidebar, reopen, pending, out, seen, acked>>
        /\ screen = "chat"
    BY <1>2, <1>4 DEF Fetch
  <2> QED
    BY <1>1, <1>2, <2>3, <2>4, TypedStays
<1>5. CASE FetchLost
  <2>1. StreamTyped(messages')
    BY <1>1, <1>5 DEF FetchLost, StreamTyped
  <2>2. UNCHANGED <<server, screen, chat, sidebar, reopen, pending, out, seen, acked>>
        /\ screen = "chat"
    BY <1>2, <1>5 DEF FetchLost
  <2> QED
    BY <1>1, <1>2, <2>1, <2>2, TypedStays
<1>6. CASE ApplyMessages
  <2> DEFINE batch == messages.batch
             last  == batch[Len(batch)]
  <2>1. batch \in Seq(1..MaxSeq) /\ batch # << >>
    BY <1>1, <1>6 DEF ApplyMessages, StreamTyped
  <2>2. /\ chat' = Appended(chat, batch)
        /\ messages' = [room |-> messages.room, cursor |-> last, batch |-> << >>]
        /\ seen' = [seen EXCEPT ![messages.room] = last]
        /\ UNCHANGED <<server, screen, sidebar, reopen, pending, out, acked>>
        /\ messages.room # None
    BY <1>6 DEF ApplyMessages
  <2> HIDE DEF batch
  <2>3. last \in 0..MaxSeq
    <3>1. last \in 1..MaxSeq
      BY <2>1, LastElement
    <3> QED
      BY <3>1, TerminalAssumption
  <2>4. ChatTyped(chat')
    BY <1>1, <2>1, <2>2, AppendedTyped
  <2> HIDE DEF last
  <2>5. StreamTyped(messages')
    BY <1>1, <2>2, <2>3 DEF StreamTyped
  <2>6. seen' \in [Rooms -> 0..MaxSeq]
    BY <1>1, <2>2, <2>3
  <2> QED
    BY <1>1, <1>2, <2>2, <2>4, <2>5, <2>6, TypedStays
<1>7. CASE ReadRooms
  <2>1. List \in Seq(0..MaxSeq) /\ List \in Seq(Nat)
    BY <1>1, ListTyped
  <2>2. sidebar' = [list |-> List] /\ sidebar # None
    BY <1>2, <1>7 DEF ReadRooms
  <2>3. sidebar'.list = List
    BY <2>2
  <2>4. sidebar' # None
    <3>1. [list |-> List] \in [list : Seq(Nat)]
      BY <2>1
    <3> QED
      BY <2>2, <3>1, TerminalAssumption
  <2>5. UNCHANGED <<server, screen, chat, messages, reopen, pending, out, seen, acked>>
    BY <1>7 DEF ReadRooms
  <2> QED
    BY <1>1, <1>2, <2>1, <2>2, <2>3, <2>4, <2>5, TypedStays
<1>8. CASE ListLost
  <2>1. /\ sidebar' = Waiting /\ sidebar # None
        /\ UNCHANGED <<server, screen, chat, messages, reopen, pending, out, seen, acked>>
    BY <1>8 DEF ListLost
  <2> QED
    BY <1>1, <1>2, <2>1, TypedStays
<1>9. CASE ApplyRooms
  <2> DEFINE shown == Shown(chat, sidebar.list)
  <2>1. sidebar' = Waiting /\ sidebar # None /\ UNCHANGED <<server, screen, reopen, seen, acked>>
    BY <1>9 DEF ApplyRooms
  <2>2. ChatTyped(shown)
    BY <1>1, <1>9, ShownTyped DEF ApplyRooms
  <2>3. \/ /\ chat' = Cleared(shown) /\ messages' = NoStream
           /\ Ask("open", shown.selected)
        \/ chat' = shown /\ UNCHANGED <<messages, pending, out>>
    BY <1>9 DEF ApplyRooms
  <2> HIDE DEF shown
  <2>4. ChatTyped(chat') /\ StreamTyped(messages')
    BY <1>1, <2>2, <2>3, ClearedTyped, BlankTyped
  <2>5. (pending' <=> out' # {}) /\ \A c \in out' : c \in out \/ CallTyped(c)
    <3>1. shown.selected \in Rooms
      BY <2>2 DEF ChatTyped
    <3>2. CASE Ask("open", shown.selected)
      BY <3>1, <3>2, CallMade DEF Ask
    <3>3. CASE UNCHANGED <<pending, out>>
      BY <1>2, <3>3
    <3> QED
      BY <2>3, <3>2, <3>3
  <2> QED
    BY <1>1, <1>2, <2>1, <2>4, <2>5, TypedStays
<1>10. CASE StreamGone
  BY <1>10, TypedSignedOut DEF StreamGone
<1> QED
  BY <1>4, <1>5, <1>6, <1>7, <1>8, <1>9, <1>10 DEF Streams

\* Of a step of the server's, only the logs and the calls are left to look at.
LEMMA TypedServed ==
  ASSUME Typed, LogsOK', handedOut' <= MaxSeq,
         UNCHANGED <<screen, chat, messages, sidebar, reopen, pending, seen, acked>>,
         out' # {} <=> out # {}, \A c \in out' : CallTyped(c)
  PROVE  Typed'
<1>1. ChatTyped(chat)' /\ StreamTyped(messages)' /\ \A c \in out' : CallTyped(c)'
  BY DEF Typed, ChatTyped, StreamTyped, CallTyped
<1>2. ScreenTyped'
  BY DEF Typed, ScreenTyped
<1> QED
  BY <1>1, <1>2 DEF Typed

LEMMA TypedServer ==
  ASSUME Basic, Typed, Server
  PROVE  Typed'
<1>1. /\ LogsOK /\ handedOut <= MaxSeq /\ \A c \in out : CallTyped(c)
      /\ roomCount \in Rooms /\ handedOut \in Nat
      /\ MaxRooms \in Nat \ {0} /\ MaxSeq \in Nat
  BY TerminalAssumption DEF Typed, LogsOK
<1>2. ASSUME NEW room, Post(room)
      PROVE  handedOut' <= MaxSeq /\ handedOut + 1 \in 1..MaxSeq
  BY <1>1, <1>2 DEF Post
<1>3. ASSUME NEW room \in Rooms, OthersPost(room) PROVE Typed'
  <2>1. Post(room) /\ roomCount' = roomCount /\ UNCHANGED client
    BY <1>3 DEF OthersPost
  <2> QED
    BY <1>1, <1>2, <2>1, LogsGrow, TypedServed DEF client
<1>4. CASE OthersCreate
  <2>1. LogsOK' /\ handedOut' <= MaxSeq
    BY <1>1, <1>4 DEF OthersCreate, LogsOK, Rooms
  <2> QED
    BY <1>1, <1>4, <2>1, TypedServed DEF OthersCreate, client
<1>5. CASE Rebuild
  <2>1. LogsOK' /\ handedOut' <= MaxSeq
    <3>1. NoMessages \in [Rooms -> Seq(Nat)] /\ \A r \in Rooms : NoMessages[r] = << >>
      BY DEF NoMessages
    <3>2. log' = NoMessages /\ handedOut' = 0 /\ roomCount' = 1
      BY <1>5 DEF Rebuild
    <3>3. 1 \in Rooms
      BY <1>1 DEF Rooms
    <3> QED
      BY <1>1, <3>1, <3>2, <3>3 DEF LogsOK, Increasing
  <2> QED
    BY <1>1, <1>5, <2>1, TypedServed DEF Rebuild, client
<1>6. ASSUME NEW c \in out, Serve(c) PROVE Typed'
  <2> DEFINE served == [kind |-> c.kind, room |-> c.room, served |-> TRUE,
                        result |-> Outcome(c)]
  <2>1. /\ served.kind = c.kind /\ served.room = c.room /\ served.served
        /\ served.result = Outcome(c)
    OBVIOUS
  <2>2. out' = (out \ {c}) \cup {served}
    BY <1>6 DEF Serve
  <2> HIDE DEF served
  <2>3. UNCHANGED <<screen, chat, messages, sidebar, reopen, pending, seen, acked>>
    BY <1>6 DEF Serve
  <2>4. c.room \in Rooms
    BY <1>1 DEF CallTyped
  <2>5. CallTyped(served)
    <3>1. CASE c.kind = "login"
      BY <1>1, <2>1, <2>4, <3>1, ListTyped DEF Outcome, CallTyped
    <3>2. CASE c.kind = "open"
      <4>1. Outcome(c) = Newest(log[c.room], PageLimit)
        BY <3>2 DEF Outcome
      <4> QED
        BY <1>1, <2>1, <2>4, <3>2, <4>1, NewestTyped DEF CallTyped
    <3>3. CASE c.kind = "send"
      <4>1. Outcome(c) = <<handedOut + 1>>
        BY <3>3 DEF Outcome
      <4>2. handedOut + 1 \in 1..MaxSeq
        BY <1>2, <1>6, <3>3 DEF Serve
      <4> QED
        BY <2>1, <2>4, <3>3, <4>1, <4>2 DEF CallTyped
    <3>4. CASE c.kind \notin {"login", "open", "send"}
      BY <2>1, <2>4, <3>4 DEF CallTyped
    <3> QED
      BY <3>1, <3>2, <3>3, <3>4
  <2>6. \A d \in out' : CallTyped(d)
    BY <1>1, <2>2, <2>5
  <2>7. LogsOK' /\ handedOut' <= MaxSeq
    <3>1. CASE c.kind = "send"
      <4>1. Post(c.room) /\ roomCount' = roomCount
        BY <1>6, <3>1 DEF Serve
      <4> QED
        BY <1>1, <1>2, <4>1, LogsGrow
    <3>2. CASE c.kind # "send"
      <4>1. UNCHANGED <<log, handedOut>>
        BY <1>6, <3>2 DEF Serve
      <4>2. roomCount' \in Rooms
        BY <1>1, <1>6 DEF Serve, Rooms
      <4> QED
        BY <1>1, <4>1, <4>2 DEF LogsOK
    <3> QED
      BY <3>1, <3>2
  <2> QED
    BY <2>2, <2>3, <2>6, <2>7, TypedServed
<1> QED
  BY <1>3, <1>4, <1>5, <1>6 DEF Server

LEMMA TypedStep == Basic /\ Typed /\ [Next]_vars => Typed'
<1> SUFFICES ASSUME Basic, Typed, [Next]_vars PROVE Typed'
  OBVIOUS
<1>1. CASE UNCHANGED vars
  BY <1>1 DEF vars, server, Typed, LogsOK, ChatTyped, StreamTyped, CallTyped, ScreenTyped
<1> QED
  BY <1>1, TypedKeys, TypedAnswers, TypedStreams, TypedServer DEF Next

LEMMA TypedFits == Typed => TypeOK
<1> SUFFICES ASSUME Typed PROVE TypeOK
  OBVIOUS
<1>1. LogsOK /\ handedOut <= MaxSeq /\ MaxSeq \in Nat
  BY TerminalAssumption DEF Typed
<1>2. ASSUME NEW room \in Rooms PROVE log[room] \in Seq(1..MaxSeq)
  <2> DEFINE own == log[room]
  <2>1. /\ own \in Seq(Nat) /\ handedOut \in Nat
        /\ \A i \in 1..Len(own) : own[i] \in 1..handedOut
    BY <1>1 DEF LogsOK
  <2> HIDE DEF own
  <2>2. \A i \in 1..Len(own) : own[i] \in 1..MaxSeq
    BY <1>1, <2>1
  <2>3. own \in Seq(1..MaxSeq)
    BY <2>1, <2>2, SeqOfElements
  <2> QED
    BY <2>3 DEF own
<1>3. log \in [Rooms -> Seq(1..MaxSeq)] /\ handedOut \in 0..MaxSeq /\ roomCount \in Rooms
  BY <1>1, <1>2 DEF LogsOK
<1> QED
  BY <1>3 DEF TypeOK, Typed, ChatTyped, StreamTyped, ScreenTyped, Inputs, Notices

\* app.rs: every variable has its type, also across a rebuild of the server's
\* database, and streams and the wish to open a room again are the chat
\* screen's only.
THEOREM TypeCorrect == Spec => []TypeOK
BY TypedInit, TypedStep, TypedFits, BasicInvariant, PTL DEF Spec
=============================================================================
