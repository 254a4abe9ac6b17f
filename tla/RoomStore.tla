----------------------------- MODULE RoomStore ------------------------------
(***************************************************************************)
(* Rooms and their messages: the rooms and messages tables and the handlers*)
(* over them (chat-server: store/sqlite/rooms.rs, messages.rs and sqlite.rs,*)
(* api/rooms.rs, api/messages.rs).                                         *)
(*                                                                         *)
(* Handlers run at once; a statement is atomic, the statements of one      *)
(* handler are not, and a handler may be cut off between any two steps. A  *)
(* restart keeps the database, unless its schema version is another one:   *)
(* then it is deleted and built anew.  Refusals that are settled before the*)
(* store is reached change nothing and are left out.  A message is its seq *)
(* and its room: the table is kept by room, as its index keeps it.         *)
(***************************************************************************)
EXTENDS MessageLog, SequencesExt

CONSTANTS
  Handlers,      \* requests served at once
  Names,         \* spellings of room names
  Fold,          \* COLLATE NOCASE: what a spelling is compared by
  Lobby,         \* LOBBY, the room that always exists
  MaxRooms,      \* Caps.rooms
  MaxLimit,      \* MAX_LIMIT of a page
  Limits,        \* the limits that are asked for
  MaxSeq,        \* bound: the last seq handed out
  MaxRebuilds,   \* bound: how often the schema version changes
  None

ASSUME RoomStoreAssumption ==
  /\ Fold \in [Names -> Names]
  /\ Lobby \in Names
  /\ MaxRooms \in Nat
  /\ MaxLimit \in Nat \ {0}
  /\ Limits \subseteq Nat
  /\ MaxSeq \in Nat
  /\ MaxRebuilds \in Nat
  /\ None \notin Names

VARIABLES
  rooms,      \* the table by row id: the rooms' names
  messages,   \* the table by idx_messages_room_seq: the seqs of each room's messages
  handlers,   \* where each handler is, and the answer it holds
  known,      \* history: the highest seq a reply has told anyone
  rebuilds    \* how often the database was deleted

vars == <<rooms, messages, handlers, known, rebuilds>>

Steps == {"idle", "insert", "read", "exists", "select", "told"}

Cursors == {"newest", "after", "before"}

\* What a handler holds between steps and answers in the end.  `kind` is, in
\* turn, whether a row was written and what the answer is.
Nothing == [kind |-> "nothing", room |-> 0, seq |-> 0, page |-> << >>]

Idle == [step |-> "idle", name |-> None, cursor |-> "newest", room |-> 0, from |-> 0,
         limit |-> 0, found |-> Nothing]

At(h, step) == handlers[h].step = step

\* h takes its next step, holding `found`.
GoTo(h, step, found) ==
  handlers' = [handlers EXCEPT ![h] = [@ EXCEPT !.step = step, !.found = found]]

NoMessages == << >>

Init ==
  /\ rooms = <<Lobby>>
  /\ messages = NoMessages
  /\ handlers = [h \in Handlers |-> Idle]
  /\ known = 0
  /\ rebuilds = 0

-----------------------------------------------------------------------------
(* Queries. *)

SameName(a, b) == Fold[a] = Fold[b]

Taken(name) == \E id \in 1..Len(rooms) : SameName(rooms[id], name)

\* Mutant of IdOf: last_insert_rowid instead of the row of that name.
IdOfNewest(name) == Len(rooms)

IdOf(name) == CHOOSE id \in 1..Len(rooms) : SameName(rooms[id], name)

\* The messages of a room, in the order of idx_messages_room_seq.
Log(room) == IF room \in DOMAIN messages THEN messages[room] ELSE << >>

\* COALESCE(MAX(seq), 0).
LatestSeq(room) == LET log == Log(room) IN IF log = << >> THEN 0 ELSE log[Len(log)]

LatestSeqs == {LatestSeq(room) : room \in DOMAIN messages} \cup {0}

LastRow == Max(LatestSeqs)

\* Mutant of NextSeq: rooms count for themselves.
NextSeqPerRoom(room) == LatestSeq(room) + 1

\* The key of a new row: INTEGER PRIMARY KEY hands out the largest plus one.
NextSeq(room) == LastRow + 1

\* The table with a new row for the room.
WithMessage(room) ==
  [other \in DOMAIN messages \cup {room} |->
     IF other = room THEN Append(Log(room), NextSeq(room)) ELSE messages[other]]

Page(who) ==
  LET limit == Clamped(who.limit, MaxLimit)
      log   == Log(who.room)
  IN  CASE who.cursor = "after"  -> After(log, who.from, limit)
        [] who.cursor = "before" -> Before(log, who.from, limit)
        [] who.cursor = "newest" -> Newest(log, limit)

-----------------------------------------------------------------------------
(* Creating a room: two statements. *)

Create(h, name) ==
  /\ At(h, "idle")
  /\ handlers' = [handlers EXCEPT ![h] = [Idle EXCEPT !.step = "insert", !.name = name]]
  /\ UNCHANGED <<rooms, messages, known, rebuilds>>

\* Mutant of BelowCap: the seeded lobby is not counted.
BelowCapWithoutLobby == Len(rooms) - 1 < MaxRooms

BelowCap == Len(rooms) < MaxRooms

\* INSERT ... SELECT ... WHERE count < max ON CONFLICT DO NOTHING.
Insert(h) ==
  /\ At(h, "insert")
  /\ BelowCap
  /\ ~Taken(handlers[h].name)
  /\ rooms' = Append(rooms, handlers[h].name)
  /\ GoTo(h, "read", [Nothing EXCEPT !.kind = "written"])
  /\ UNCHANGED <<messages, known, rebuilds>>

InsertNothing(h) ==
  /\ At(h, "insert")
  /\ ~BelowCap \/ Taken(handlers[h].name)
  /\ GoTo(h, "read", Nothing)
  /\ UNCHANGED <<rooms, messages, known, rebuilds>>

\* Mutant of Outcome: whoever finds the room has created it.
OutcomeAlwaysCreated(found) == "created"

Outcome(found) == IF found.kind = "written" THEN "created" ELSE "taken"

\* The room by its name, with its newest seq; nothing there, nothing written:
\* the cap.
Read(h) ==
  LET name == handlers[h].name
  IN  /\ At(h, "read")
      /\ GoTo(h, "told",
              IF Taken(name)
              THEN [Nothing EXCEPT !.kind = Outcome(handlers[h].found), !.room = IdOf(name),
                                   !.seq = LatestSeq(IdOf(name))]
              ELSE [Nothing EXCEPT !.kind = "full"])
      /\ UNCHANGED <<rooms, messages, known, rebuilds>>

-----------------------------------------------------------------------------
(* Listing, posting and paging. *)

\* list_rooms: one statement; of its rows, the newest seq of one room.
ListRooms(h) ==
  /\ At(h, "idle")
  /\ \E room \in 1..Len(rooms) :
       handlers' = [handlers EXCEPT ![h] =
         [Idle EXCEPT !.step = "told",
                      !.found = [kind |-> "listed", room |-> room,
                                 seq |-> LatestSeq(room), page |-> << >>]]]
  /\ UNCHANGED <<rooms, messages, known, rebuilds>>

\* Mutant of Post: foreign keys are not enforced.
PostUnchecked(h, room) ==
  /\ At(h, "idle")
  /\ LastRow < MaxSeq
  /\ messages' = WithMessage(room)
  /\ handlers' = [handlers EXCEPT ![h] =
       [Idle EXCEPT !.step = "told",
                    !.found = [kind |-> "posted", room |-> room, seq |-> NextSeq(room),
                               page |-> << >>]]]
  /\ UNCHANGED <<rooms, known, rebuilds>>

\* post_message: one statement, refused by the foreign key if there is no room.
Post(h, room) ==
  /\ At(h, "idle")
  /\ LastRow < MaxSeq
  /\ IF room \in 1..Len(rooms)
       THEN /\ messages' = WithMessage(room)
            /\ handlers' = [handlers EXCEPT ![h] =
                 [Idle EXCEPT !.step = "told",
                              !.found = [kind |-> "posted", room |-> room,
                                         seq |-> NextSeq(room), page |-> << >>]]]
       ELSE /\ handlers' = [handlers EXCEPT ![h] =
                 [Idle EXCEPT !.step = "told", !.found = [Nothing EXCEPT !.kind = "missing"]]]
            /\ UNCHANGED messages
  /\ UNCHANGED <<rooms, known, rebuilds>>

\* A page is asked for, around a seq that someone was told.
AskPage(h, room, cursor, from, limit) ==
  /\ At(h, "idle")
  /\ cursor = "newest" => from = 0
  /\ handlers' = [handlers EXCEPT ![h] =
       [step |-> "exists", name |-> None, cursor |-> cursor, room |-> room, from |-> from,
        limit |-> limit, found |-> Nothing]]
  /\ UNCHANGED <<rooms, messages, known, rebuilds>>

\* room_exists.
Exists(h) ==
  /\ At(h, "exists")
  /\ IF handlers[h].room \in 1..Len(rooms)
       THEN GoTo(h, "select", Nothing)
       ELSE GoTo(h, "told", [Nothing EXCEPT !.kind = "missing"])
  /\ UNCHANGED <<rooms, messages, known, rebuilds>>

\* messages_newest, messages_after or messages_before.
Select(h) ==
  /\ At(h, "select")
  /\ GoTo(h, "told", [Nothing EXCEPT !.kind = "page", !.room = handlers[h].room,
                                     !.page = Page(handlers[h])])
  /\ UNCHANGED <<rooms, messages, known, rebuilds>>

-----------------------------------------------------------------------------

HighestIn(found) ==
  IF found.page = << >> THEN found.seq ELSE found.page[Len(found.page)]

\* The answer arrives.
Reply(h) ==
  /\ At(h, "told")
  /\ known' = IF HighestIn(handlers[h].found) > known
                THEN HighestIn(handlers[h].found) ELSE known
  /\ handlers' = [handlers EXCEPT ![h] = Idle]
  /\ UNCHANGED <<rooms, messages, rebuilds>>

\* A statement fails, or the connection closes and the handler is dropped.
CutOff(h) ==
  /\ ~At(h, "idle")
  /\ handlers' = [handlers EXCEPT ![h] = Idle]
  /\ UNCHANGED <<rooms, messages, known, rebuilds>>

\* SqliteStore::new over a database of this version: the schema is there
\* already and the lobby, being taken, is not seeded again.
Restart ==
  /\ handlers' = [h \in Handlers |-> Idle]
  /\ UNCHANGED <<rooms, messages, known, rebuilds>>

\* SqliteStore::new over a database of another version.
Rebuild ==
  /\ rebuilds < MaxRebuilds
  /\ rebuilds' = rebuilds + 1
  /\ rooms' = <<Lobby>>
  /\ messages' = NoMessages
  /\ handlers' = [h \in Handlers |-> Idle]
  /\ UNCHANGED known

Next ==
  \/ \E h \in Handlers :
       \/ \E name \in Names : Create(h, name)
       \/ Insert(h) \/ InsertNothing(h) \/ Read(h)
       \/ ListRooms(h)
       \/ \E room \in 1..(Len(rooms) + 1) :
            \/ Post(h, room)
            \/ \E cursor \in Cursors, from \in 0..known, limit \in Limits :
                 AskPage(h, room, cursor, from, limit)
       \/ Exists(h) \/ Select(h)
       \/ Reply(h) \/ CutOff(h)
  \/ Restart
  \/ Rebuild

Spec == Init /\ [][Next]_vars

-----------------------------------------------------------------------------
(* Properties. *)

Answer ==
  [kind : {"nothing", "written", "created", "taken", "full", "listed", "posted",
           "missing", "page"},
   room : Nat, seq : Nat, page : Seq(Nat)]

TypeOK ==
  /\ rooms \in Seq(Names)
  /\ DOMAIN messages \subseteq 1..Len(rooms)
  /\ \A room \in DOMAIN messages : messages[room] \in Seq(Nat)
  /\ handlers \in [Handlers ->
       [step : Steps, name : Names \cup {None}, cursor : Cursors, room : Nat, from : Nat,
        limit : Limits \cup {0}, found : Answer]]
  /\ \A h \in Handlers : handlers[h].step \in {"insert", "read"} => handlers[h].name \in Names
  /\ known \in Nat
  /\ rebuilds \in 0..MaxRebuilds

\* A room is not created twice under two spellings, the lobby is always there,
\* and it alone may exceed the cap, however many creations run at once
\* (rooms.rs:37, sqlite.rs:91).
OneRoomPerName ==
  /\ \A i, j \in 1..Len(rooms) : SameName(rooms[i], rooms[j]) => i = j
  /\ rooms[1] = Lobby
  /\ Len(rooms) <= MaxRooms \/ rooms = <<Lobby>>

\* What a handler is about to answer is so at any moment until it is read: a
\* room it names exists and has the name that was asked for, the newest seq it
\* tells is of a message of that room, and a full server has no such room.
AnswersTrue ==
  \A h \in Handlers : At(h, "told") =>
    LET found == handlers[h].found
    IN  /\ found.kind \in {"created", "taken"} =>
             found.room \in 1..Len(rooms) /\ SameName(rooms[found.room], handlers[h].name)
        /\ found.kind = "full" => Len(rooms) >= MaxRooms /\ ~Taken(handlers[h].name)
        /\ found.seq # 0 => \E i \in 1..Len(Log(found.room)) :
                              Log(found.room)[i] = found.seq

\* As long as the database is kept, a page stays what it was when it was read:
\* no message ever lands between those it holds, nor between them and the seq it
\* was asked from.  That is what lets a client poll from the last seq it saw and
\* miss nothing (chat-core/src/api/v1.rs:66).
PagesStand ==
  \A h \in Handlers : rebuilds = 0 /\ At(h, "told") /\ handlers[h].found.kind = "page" =>
    LET who   == handlers[h]
        page  == who.found.page
        log   == Log(who.room)
        short == Len(page) < Clamped(who.limit, MaxLimit)
    IN  CASE who.cursor = "after" ->
               \E p \in 0..Len(log) : Splits(log, who.from, p) /\ Window(log, p, page)
          [] who.cursor = "before" ->
               \E p \in 0..Len(log) :
                 /\ \A i \in 1..Len(log) : log[i] < who.from <=> i <= p + Len(page)
                 /\ Window(log, p, page)
                 /\ short => p = 0
          [] who.cursor = "newest" ->
               \E p \in 0..Len(log) : Window(log, p, page) /\ (short => p = 0)

\* "seq increases strictly and never regresses" (chat-core/src/api/v1.rs:66):
\* as long as the database is kept, a new message comes after every seq that
\* anyone was ever told.
SeqNeverRegresses ==
  [][rebuilds' = 0 =>
       \A room \in 1..Len(rooms) :
         Len(Log(room)') > Len(Log(room)) => LatestSeq(room)' > known]_vars

\* Creating a room is one step of the abstract directory, although the code
\* takes two statements for it; a rebuild alone drops names, and starts the
\* directory over.
Creation ==
  INSTANCE NameDirectory WITH
    Clients <- Handlers, Cap <- MaxRooms, Seeded <- <<Lobby>>, held <- rooms,
    requests <- [h \in Handlers |->
      LET who == handlers[h]
      IN  CASE who.name # None /\ (At(h, "insert") \/ who.found.kind = "nothing") ->
                 [step |-> "asked", name |-> who.name, answer |-> None]
            [] who.name # None /\ At(h, "read") /\ who.found.kind = "written" ->
                 [step |-> "told", name |-> who.name, answer |-> "created"]
            [] who.name # None /\ At(h, "told") ->
                 [step |-> "told", name |-> who.name, answer |-> who.found.kind]
            [] OTHER -> [step |-> "quiet", name |-> None, answer |-> None]]

CreatesAtomically == Creation!Init /\ [][Creation!Next \/ Rebuild]_(Creation!vars)
=============================================================================
