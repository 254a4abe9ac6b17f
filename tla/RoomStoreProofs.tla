--------------------------- MODULE RoomStoreProofs ---------------------------
(***************************************************************************)
(* Rooms are created once and in one step, answers are true until they are *)
(* read and pages stand, for any number of handlers, any names, cap and    *)
(* limits.  The argument: between two deletions of the database the rooms  *)
(* only grow, by rooms that were not there, while they are below the cap,  *)
(* and the messages only grow, each room's at its end and by a seq above   *)
(* every other; so what a statement found out is still so when the handler *)
(* that holds it carries out its next step, or is heard.                   *)
(***************************************************************************)
EXTENDS RoomStore, MessageLogProofs

Fields == {"step", "name", "cursor", "room", "from", "limit", "found"}

\* A handler's record: only a creation has a name.
Shape(h) ==
  /\ DOMAIN handlers[h] = Fields
  /\ handlers[h].step \in Steps
  /\ At(h, "insert") => handlers[h].name \in Names /\ handlers[h].found.kind = "nothing"
  /\ At(h, "read") =>
       handlers[h].name \in Names /\ handlers[h].found.kind \in {"nothing", "written"}
  /\ At(h, "told") =>
       \/ handlers[h].name = None
       \/ /\ handlers[h].name \in Names
          /\ handlers[h].found.kind \in {"created", "taken", "full"}
  /\ handlers[h].step \in {"idle", "exists", "select"} => handlers[h].name = None

\* What a creation knows between its two statements.
StillSo(h) ==
  At(h, "read") =>
    \/ Taken(handlers[h].name)
    \/ handlers[h].found.kind = "nothing" /\ ~BelowCap

Inv ==
  /\ rooms \in Seq(Names) /\ Len(rooms) >= 1
  /\ OneRoomPerName
  /\ rebuilds \in Nat
  /\ handlers = [h \in Handlers |-> handlers[h]]
  /\ \A h \in Handlers : Shape(h) /\ StillSo(h)

\* How any step but a rebuild changes the table.
Grows ==
  \/ rooms' = rooms
  \/ /\ BelowCap
     /\ \E name \in Names : ~Taken(name) /\ rooms' = Append(rooms, name)

-----------------------------------------------------------------------------
(* The table. *)

LEMMA RowsStay ==
  ASSUME rooms \in Seq(Names), Len(rooms) >= 1, Grows
  PROVE  /\ rooms' \in Seq(Names)
         /\ Len(rooms) <= Len(rooms')
         /\ \A i \in 1..Len(rooms) : rooms'[i] = rooms[i]
<1>1. CASE rooms' = rooms
  BY <1>1
<1>2. ASSUME NEW name \in Names, rooms' = Append(rooms, name)
      PROVE  /\ rooms' \in Seq(Names)
             /\ Len(rooms) <= Len(rooms')
             /\ \A i \in 1..Len(rooms) : rooms'[i] = rooms[i]
  BY <1>2
<1> QED
  BY <1>1, <1>2 DEF Grows

LEMMA TakenStays ==
  ASSUME rooms \in Seq(Names), Len(rooms) >= 1, Grows, NEW name, Taken(name)
  PROVE  Taken(name)'
BY RowsStay DEF Taken, SameName

LEMMA FullStays ==
  ASSUME Grows, ~BelowCap
  PROVE  rooms' = rooms /\ ~BelowCap'
BY DEF Grows, BelowCap

LEMMA NamesStayUnique ==
  ASSUME rooms \in Seq(Names), Len(rooms) >= 1, Grows, OneRoomPerName
  PROVE  OneRoomPerName'
<1>1. CASE rooms' = rooms
  BY <1>1 DEF OneRoomPerName, SameName
<1>2. ASSUME NEW name \in Names, ~Taken(name), BelowCap, rooms' = Append(rooms, name)
      PROVE  OneRoomPerName'
  <2>1. /\ Len(rooms') = Len(rooms) + 1 /\ Len(rooms) \in Nat
        /\ rooms'[Len(rooms) + 1] = name
        /\ \A i \in 1..Len(rooms) : rooms'[i] = rooms[i]
    BY <1>2
  <2>2. \A i \in 1..Len(rooms) : Fold[rooms'[i]] # Fold[name]
    BY <1>2, <2>1 DEF Taken, SameName
  <2>3. ASSUME NEW i \in 1..Len(rooms'), NEW j \in 1..Len(rooms'),
               Fold[rooms'[i]] = Fold[rooms'[j]]
        PROVE  i = j
    <3>1. CASE i \in 1..Len(rooms) /\ j \in 1..Len(rooms)
      BY <2>1, <2>3, <3>1 DEF OneRoomPerName, SameName
    <3>2. CASE i = Len(rooms) + 1 \/ j = Len(rooms) + 1
      BY <2>1, <2>2, <2>3, <3>2
    <3> QED
      BY <2>1, <3>1, <3>2
  <2>4. rooms'[1] = Lobby
    BY <2>1 DEF OneRoomPerName
  <2>5. Len(rooms') <= MaxRooms
    BY <1>2, <2>1, RoomStoreAssumption DEF BelowCap
  <2> QED
    BY <2>3, <2>4, <2>5 DEF OneRoomPerName, SameName
<1> QED
  BY <1>1, <1>2 DEF Grows

-----------------------------------------------------------------------------
(* The handlers. *)

\* A handler that does not move keeps what it knows.
LEMMA OthersKeep ==
  ASSUME Inv, Grows, NEW h \in Handlers, handlers'[h] = handlers[h]
  PROVE  Shape(h)' /\ StillSo(h)'
<1>1. Shape(h) /\ StillSo(h) /\ rooms \in Seq(Names) /\ Len(rooms) >= 1
  BY DEF Inv
<1>2. Taken(handlers[h].name) => Taken(handlers[h].name)'
  BY <1>1, TakenStays
<1>3. ~BelowCap => ~BelowCap'
  BY FullStays
<1>4. StillSo(h)'
  BY <1>1, <1>2, <1>3 DEF StillSo, At
<1>5. Shape(h)'
  BY <1>1 DEF Shape, At
<1> QED
  BY <1>4, <1>5

\* A step of one handler.
LEMMA OneMoves ==
  ASSUME Inv, Grows, NEW h \in Handlers, NEW next,
         handlers' = [handlers EXCEPT ![h] = next], rebuilds' = rebuilds,
         handlers'[h] = next => Shape(h)' /\ StillSo(h)'
  PROVE  Inv'
<1>1. /\ handlers' = [k \in Handlers |-> handlers'[k]] /\ handlers'[h] = next
      /\ \A k \in Handlers \ {h} : handlers'[k] = handlers[k]
  BY DEF Inv
<1>2. \A k \in Handlers : Shape(k)' /\ StillSo(k)'
  BY <1>1, OthersKeep
<1>3. rooms' \in Seq(Names) /\ Len(rooms') >= 1
  BY RowsStay DEF Inv
<1>4. OneRoomPerName'
  BY NamesStayUnique DEF Inv
<1> QED
  BY <1>1, <1>2, <1>3, <1>4 DEF Inv

\* What GoTo makes of a handler's record.
LEMMA Goes ==
  ASSUME Inv, NEW h \in Handlers, NEW step, NEW found, GoTo(h, step, found)
  PROVE  /\ DOMAIN handlers'[h] = Fields
         /\ handlers'[h].step = step /\ handlers'[h].found = found
         /\ handlers'[h].name = handlers[h].name
         /\ \A k \in Handlers \ {h} : handlers'[k] = handlers[k]
         /\ \E next : handlers' = [handlers EXCEPT ![h] = next]
<1> DEFINE next == [handlers[h] EXCEPT !.step = step, !.found = found]
<1>1. DOMAIN handlers[h] = Fields
  BY DEF Inv, Shape
<1>2. /\ DOMAIN next = Fields /\ next.step = step /\ next.found = found
      /\ next.name = handlers[h].name
  BY <1>1 DEF Fields
<1>3. handlers' = [handlers EXCEPT ![h] = next]
  BY DEF GoTo
<1> HIDE DEF next
<1>4. handlers = [k \in Handlers |-> handlers[k]]
  BY DEF Inv
<1>5. handlers'[h] = next /\ \A k \in Handlers \ {h} : handlers'[k] = handlers[k]
  BY <1>3, <1>4
<1> QED
  BY <1>2, <1>3, <1>5

\* A handler that creates no room, or no longer.
LEMMA Nameless ==
  ASSUME NEW h \in Handlers, DOMAIN handlers'[h] = Fields, handlers'[h].name = None,
         handlers'[h].step \in {"idle", "exists", "select", "told"}
  PROVE  Shape(h)' /\ StillSo(h)'
BY DEF Shape, StillSo, At, Steps

LEMMA IdleFacts ==
  /\ DOMAIN Idle = Fields /\ Idle.name = None /\ Idle.step = "idle"
  /\ Nothing.kind = "nothing"
BY DEF Idle, Fields, Nothing

LEMMA InitInv == Init => Inv
<1> SUFFICES ASSUME Init PROVE Inv
  OBVIOUS
<1>1. rooms \in Seq(Names) /\ Len(rooms) = 1 /\ rooms[1] = Lobby
  BY RoomStoreAssumption DEF Init
<1>2. OneRoomPerName
  BY <1>1 DEF OneRoomPerName, Init
<1>3. \A h \in Handlers : Shape(h) /\ StillSo(h)
  BY IdleFacts DEF Init, Shape, StillSo, At, Steps
<1> QED
  BY <1>1, <1>2, <1>3 DEF Init, Inv

LEMMA CreateInv ==
  ASSUME Inv, NEW h \in Handlers, NEW name \in Names, Create(h, name)
  PROVE  Inv'
<1> DEFINE next == [Idle EXCEPT !.step = "insert", !.name = name]
<1>1. /\ DOMAIN next = Fields /\ next.step = "insert" /\ next.name = name
      /\ next.found.kind = "nothing"
  BY DEF Idle, Fields, Nothing
<1>2. handlers' = [handlers EXCEPT ![h] = next] /\ rebuilds' = rebuilds /\ Grows
  BY DEF Create, Grows
<1> HIDE DEF next
<1>3. handlers'[h] = next => Shape(h)' /\ StillSo(h)'
  BY <1>1 DEF Shape, StillSo, At, Steps
<1> QED
  BY <1>2, <1>3, OneMoves

LEMMA InsertInv ==
  ASSUME Inv, NEW h \in Handlers, Insert(h)
  PROVE  Inv'
<1> DEFINE found == [Nothing EXCEPT !.kind = "written"]
<1>1. found.kind = "written"
  BY DEF Nothing
<1>2. GoTo(h, "read", found)
  BY DEF Insert
<1> HIDE DEF found
<1>3. handlers[h].name \in Names
  BY DEF Insert, Inv, Shape
<1>4. Grows /\ rooms' = Append(rooms, handlers[h].name) /\ rebuilds' = rebuilds
  BY <1>3 DEF Insert, Grows
<1>5. Taken(handlers[h].name)'
  <2>1. rooms'[Len(rooms) + 1] = handlers[h].name /\ Len(rooms) + 1 \in 1..Len(rooms')
    BY <1>3, <1>4 DEF Inv
  <2>2. handlers'[h].name = handlers[h].name
    BY <1>2, Goes
  <2> QED
    BY <2>1, <2>2 DEF Taken, SameName
<1>6. Shape(h)' /\ StillSo(h)'
  BY <1>1, <1>2, <1>3, <1>5, Goes DEF Shape, StillSo, At, Steps, Taken
<1>7. PICK next : handlers' = [handlers EXCEPT ![h] = next]
  BY <1>2, Goes
<1> QED
  BY <1>4, <1>6, <1>7, OneMoves

LEMMA InsertNothingInv ==
  ASSUME Inv, NEW h \in Handlers, InsertNothing(h)
  PROVE  Inv'
<1>1. GoTo(h, "read", Nothing) /\ Grows /\ rooms' = rooms /\ rebuilds' = rebuilds
  BY DEF InsertNothing, Grows
<1>2. handlers[h].name \in Names
  BY DEF InsertNothing, Inv, Shape
<1>3. ~BelowCap \/ Taken(handlers[h].name)
  BY DEF InsertNothing
<1>4. /\ DOMAIN handlers'[h] = Fields /\ handlers'[h].step = "read"
      /\ handlers'[h].found = Nothing /\ handlers'[h].name = handlers[h].name
  BY <1>1, Goes
<1>5. Shape(h)' /\ StillSo(h)'
  BY <1>1, <1>2, <1>3, <1>4, IdleFacts DEF Shape, StillSo, At, Steps, Taken, BelowCap
<1>6. PICK next : handlers' = [handlers EXCEPT ![h] = next]
  BY <1>1, Goes
<1> QED
  BY <1>1, <1>5, <1>6, OneMoves

\* The answer of a creation.
LEMMA ReadAnswers ==
  ASSUME Inv, NEW h \in Handlers, Read(h)
  PROVE  /\ DOMAIN handlers'[h] = Fields /\ handlers'[h].step = "told"
         /\ handlers'[h].name = handlers[h].name
         /\ handlers'[h].found.kind = IF ~Taken(handlers[h].name) THEN "full"
                                      ELSE Outcome(handlers[h].found)
         /\ \A k \in Handlers \ {h} : handlers'[k] = handlers[k]
         /\ \E next : handlers' = [handlers EXCEPT ![h] = next]
<1> DEFINE name  == handlers[h].name
           told  == [Nothing EXCEPT !.kind = Outcome(handlers[h].found), !.room = IdOf(name),
                                    !.seq = LatestSeq(IdOf(name))]
           full  == [Nothing EXCEPT !.kind = "full"]
           found == IF Taken(name) THEN told ELSE full
<1>1. told.kind = Outcome(handlers[h].found) /\ full.kind = "full"
  BY DEF Nothing
<1>2. GoTo(h, "told", found)
  BY DEF Read
<1> HIDE DEF told, full
<1>3. found.kind = IF ~Taken(name) THEN "full" ELSE Outcome(handlers[h].found)
  BY <1>1
<1> HIDE DEF found
<1> QED
  BY <1>2, <1>3, Goes

LEMMA ReadInv ==
  ASSUME Inv, NEW h \in Handlers, Read(h)
  PROVE  Inv'
<1>1. Grows /\ rebuilds' = rebuilds
  BY DEF Read, Grows
<1>2. handlers[h].name \in Names
  BY DEF Read, Inv, Shape
<1>3. Shape(h)' /\ StillSo(h)'
  BY <1>2, ReadAnswers DEF Shape, StillSo, At, Steps, Outcome
<1> QED
  BY <1>1, <1>3, ReadAnswers, OneMoves

-----------------------------------------------------------------------------
(* Everything but creations. *)

\* h takes a step of another request, or its request ends.
Elsewhere(h) ==
  /\ rooms' = rooms /\ rebuilds' = rebuilds
  /\ \E next : /\ handlers' = [handlers EXCEPT ![h] = next]
               /\ DOMAIN next = Fields
               /\ next.name = None
               /\ next.step \in {"idle", "exists", "select", "told"}

LEMMA ListsElsewhere ==
  ASSUME NEW h \in Handlers, ListRooms(h)
  PROVE  Elsewhere(h)
<1>1. PICK room \in 1..Len(rooms) :
        handlers' = [handlers EXCEPT ![h] =
          [Idle EXCEPT !.step = "told",
                       !.found = [kind |-> "listed", room |-> room,
                                  seq |-> LatestSeq(room), page |-> << >>]]]
  BY DEF ListRooms
<1> DEFINE found == [kind |-> "listed", room |-> room, seq |-> LatestSeq(room), page |-> << >>]
           next  == [Idle EXCEPT !.step = "told", !.found = found]
<1>2. handlers' = [handlers EXCEPT ![h] = next]
  BY <1>1
<1> HIDE DEF found
<1>3. DOMAIN next = Fields /\ next.name = None /\ next.step = "told"
  BY DEF Idle, Fields
<1> HIDE DEF next
<1> QED
  BY <1>2, <1>3 DEF ListRooms, Elsewhere

LEMMA PostsElsewhere ==
  ASSUME NEW h \in Handlers, NEW room, Post(h, room)
  PROVE  Elsewhere(h)
<1>1. PICK found : handlers' = [handlers EXCEPT ![h] =
                     [Idle EXCEPT !.step = "told", !.found = found]]
  BY DEF Post
<1> DEFINE next == [Idle EXCEPT !.step = "told", !.found = found]
<1>2. DOMAIN next = Fields /\ next.name = None /\ next.step = "told"
  BY DEF Idle, Fields
<1>3. handlers' = [handlers EXCEPT ![h] = next]
  BY <1>1
<1> HIDE DEF next
<1> QED
  BY <1>2, <1>3 DEF Post, Elsewhere

LEMMA AsksElsewhere ==
  ASSUME NEW h \in Handlers, NEW room, NEW cursor, NEW from, NEW limit,
         AskPage(h, room, cursor, from, limit)
  PROVE  Elsewhere(h)
<1> DEFINE next == [step |-> "exists", name |-> None, cursor |-> cursor, room |-> room,
                    from |-> from, limit |-> limit, found |-> Nothing]
<1>1. DOMAIN next = Fields /\ next.name = None /\ next.step = "exists"
  BY DEF Fields
<1>2. handlers' = [handlers EXCEPT ![h] = next]
  BY DEF AskPage
<1> HIDE DEF next
<1> QED
  BY <1>1, <1>2 DEF AskPage, Elsewhere

LEMMA PagesElsewhere ==
  ASSUME Inv, NEW h \in Handlers, Exists(h) \/ Select(h)
  PROVE  Elsewhere(h)
<1>1. PICK step, found : step \in {"select", "told"} /\ GoTo(h, step, found)
  BY DEF Exists, Select
<1>2. handlers[h].name = None
  BY DEF Exists, Select, Inv, Shape, At
<1>3. PICK next : handlers' = [handlers EXCEPT ![h] = next]
  BY <1>1, Goes
<1>4. next = handlers'[h]
  BY <1>3 DEF Inv
<1>5. rooms' = rooms /\ rebuilds' = rebuilds
  BY DEF Exists, Select
<1>6. /\ DOMAIN handlers'[h] = Fields /\ handlers'[h].step = step
      /\ handlers'[h].name = handlers[h].name
  BY <1>1, Goes
<1> QED
  BY <1>1, <1>2, <1>3, <1>4, <1>5, <1>6 DEF Elsewhere

LEMMA EndsElsewhere ==
  ASSUME NEW h \in Handlers, Reply(h) \/ CutOff(h)
  PROVE  Elsewhere(h)
BY IdleFacts DEF Reply, CutOff, Elsewhere

LEMMA ElsewhereInv ==
  ASSUME Inv, NEW h \in Handlers, Elsewhere(h)
  PROVE  Inv'
<1>1. PICK next : /\ handlers' = [handlers EXCEPT ![h] = next]
                  /\ DOMAIN next = Fields
                  /\ next.name = None
                  /\ next.step \in {"idle", "exists", "select", "told"}
  BY DEF Elsewhere
<1>2. Grows /\ rebuilds' = rebuilds
  BY DEF Elsewhere, Grows
<1>3. handlers'[h] = next => Shape(h)' /\ StillSo(h)'
  BY <1>1, Nameless
<1> QED
  BY <1>1, <1>2, <1>3, OneMoves

LEMMA RestartInv == ASSUME Inv, Restart PROVE Inv'
<1>1. UNCHANGED <<rooms, rebuilds>> /\ handlers' = [h \in Handlers |-> Idle]
  BY DEF Restart
<1>2. \A h \in Handlers : Shape(h)' /\ StillSo(h)'
  BY <1>1, IdleFacts, Nameless
<1> QED
  BY <1>1, <1>2 DEF Inv, OneRoomPerName, SameName

LEMMA RebuildInv == ASSUME Inv, Rebuild PROVE Inv'
<1>1. rooms' = <<Lobby>> /\ handlers' = [h \in Handlers |-> Idle] /\ rebuilds' \in Nat
  BY DEF Rebuild, Inv
<1>2. \A h \in Handlers : Shape(h)' /\ StillSo(h)'
  BY <1>1, IdleFacts, Nameless
<1>3. rooms' \in Seq(Names) /\ Len(rooms') = 1 /\ rooms'[1] = Lobby
  BY <1>1, RoomStoreAssumption
<1> QED
  BY <1>1, <1>2, <1>3 DEF Inv, OneRoomPerName, SameName

\* Next, by what its steps do to a creation.
LEMMA NextCases ==
  ASSUME Inv, Next
  PROVE  \/ \E h \in Handlers :
              \/ \E name \in Names : Create(h, name)
              \/ Insert(h) \/ InsertNothing(h) \/ Read(h)
              \/ Elsewhere(h)
         \/ Restart \/ Rebuild
BY ListsElsewhere, PostsElsewhere, AsksElsewhere, PagesElsewhere, EndsElsewhere DEF Next

LEMMA NextInv == Inv /\ [Next]_vars => Inv'
<1> SUFFICES ASSUME Inv, [Next]_vars PROVE Inv'
  OBVIOUS
<1>1. CASE UNCHANGED vars
  BY <1>1 DEF vars, Inv, OneRoomPerName, Shape, StillSo, At, Taken, BelowCap, SameName
<1>2. CASE Next
  BY <1>2, NextCases, CreateInv, InsertInv, InsertNothingInv, ReadInv, ElsewhereInv,
     RestartInv, RebuildInv
<1> QED
  BY <1>1, <1>2

LEMMA Invariance == Spec => []Inv
BY InitInv, NextInv, PTL DEF Spec

\* However many handlers create rooms at once, however a name is spelled and
\* whenever the database is deleted, no name has two rooms, the lobby is there
\* and the cap is not overrun (rooms.rs:33, sqlite.rs:91).
THEOREM NoDoublesNoOverrun == Spec => []OneRoomPerName
BY Invariance, PTL DEF Inv

-----------------------------------------------------------------------------
(* The two statements of a creation are one step of the directory. *)

Quiet == [step |-> "quiet", name |-> None, answer |-> None]

Asked(name) == [step |-> "asked", name |-> name, answer |-> None]

Told(name, answer) == [step |-> "told", name |-> name, answer |-> answer]

RequestOf(h) ==
  LET who == handlers[h]
  IN  CASE who.name # None /\ (At(h, "insert") \/ who.found.kind = "nothing") ->
             [step |-> "asked", name |-> who.name, answer |-> None]
        [] who.name # None /\ At(h, "read") /\ who.found.kind = "written" ->
             [step |-> "told", name |-> who.name, answer |-> "created"]
        [] who.name # None /\ At(h, "told") ->
             [step |-> "told", name |-> who.name, answer |-> who.found.kind]
        [] OTHER -> [step |-> "quiet", name |-> None, answer |-> None]

requests == [h \in Handlers |-> RequestOf(h)]

\* What a handler's record stands for.
LEMMA RequestFacts ==
  ASSUME NEW h \in Handlers, Shape(h)
  PROVE  /\ handlers[h].name = None => RequestOf(h) = Quiet
         /\ At(h, "insert") => RequestOf(h) = Asked(handlers[h].name)
         /\ At(h, "read") /\ handlers[h].found.kind = "nothing" =>
              RequestOf(h) = Asked(handlers[h].name)
         /\ At(h, "read") /\ handlers[h].found.kind = "written" =>
              RequestOf(h) = Told(handlers[h].name, "created")
         /\ At(h, "told") /\ handlers[h].name # None =>
              RequestOf(h) = Told(handlers[h].name, handlers[h].found.kind)
BY RoomStoreAssumption DEF RequestOf, Shape, At, Quiet, Asked, Told

LEMMA RequestFactsAfter ==
  ASSUME NEW h \in Handlers, Shape(h)'
  PROVE  /\ handlers'[h].name = None => RequestOf(h)' = Quiet
         /\ handlers'[h].step = "insert" => RequestOf(h)' = Asked(handlers'[h].name)
         /\ handlers'[h].step = "read" /\ handlers'[h].found.kind = "nothing" =>
              RequestOf(h)' = Asked(handlers'[h].name)
         /\ handlers'[h].step = "read" /\ handlers'[h].found.kind = "written" =>
              RequestOf(h)' = Told(handlers'[h].name, "created")
         /\ handlers'[h].step = "told" /\ handlers'[h].name # None =>
              RequestOf(h)' = Told(handlers'[h].name, handlers'[h].found.kind)
BY RoomStoreAssumption DEF RequestOf, Shape, At, Quiet, Asked, Told

\* A handler that did not move stands for the same request.
LEMMA RequestMoves ==
  ASSUME NEW h \in Handlers, \A k \in Handlers \ {h} : handlers'[k] = handlers[k]
  PROVE  requests' = [requests EXCEPT ![h] = RequestOf(h)']
<1>1. \A k \in Handlers \ {h} : RequestOf(k)' = RequestOf(k)
  BY DEF RequestOf, At
<1> QED
  BY <1>1 DEF requests

LEMMA CreationInit == Init => Creation!Init
<1> SUFFICES ASSUME Init PROVE Creation!Init
  OBVIOUS
<1>1. \A h \in Handlers : Shape(h) /\ handlers[h].name = None
  BY InitInv, IdleFacts DEF Inv, Init
<1>2. requests = [h \in Handlers |-> Quiet]
  BY <1>1, RequestFacts DEF requests
<1> QED
  BY <1>2 DEF Init, Creation!Init, Creation!Quiet, Quiet, requests, RequestOf

\* The directory's operators, in the handlers' words.
LEMMA Words ==
  /\ \A name : Creation!Holds(name) <=> Taken(name)
  /\ Creation!Quiet = Quiet
BY DEF Creation!Holds, Taken, SameName, Creation!Quiet, Quiet, requests, RequestOf

\* A request that was asked for a name, and is answered now.
LEMMA Answers ==
  ASSUME NEW h \in Handlers, NEW name, NEW answer, requests[h] = Asked(name),
         requests' = [requests EXCEPT ![h] = Told(name, answer)]
  PROVE  /\ requests[h].step = "asked" /\ requests[h].name = name
         /\ Creation!Tell(h, answer)
<1>1. requests[h].step = "asked" /\ requests[h].name = name
  BY DEF Asked
<1>2. requests' = [requests EXCEPT ![h] = [step |-> "told", name |-> requests[h].name,
                                           answer |-> answer]]
  BY <1>1 DEF Told
<1>3. Creation!Tell(h, answer)
  BY <1>2 DEF Creation!Tell, requests, RequestOf
<1> QED
  BY <1>1, <1>3

LEMMA CreationStep ==
  ASSUME Inv, Inv', Next
  PROVE  Creation!Next \/ Rebuild \/ UNCHANGED <<rooms, requests>>
<1> USE DEF Inv
<1>1. ASSUME NEW h \in Handlers, NEW name \in Names, Create(h, name)
      PROVE  Creation!Ask(h, name)
  <2> DEFINE next == [Idle EXCEPT !.step = "insert", !.name = name]
  <2>1. next.step = "insert" /\ next.name = name
    BY DEF Idle
  <2>2. handlers' = [handlers EXCEPT ![h] = next] /\ rooms' = rooms
    BY <1>1 DEF Create
  <2> HIDE DEF next
  <2>3. handlers'[h] = next /\ \A k \in Handlers \ {h} : handlers'[k] = handlers[k]
    BY <2>2
  <2>4. RequestOf(h)' = Asked(name)
    BY <2>1, <2>3, RequestFactsAfter
  <2>5. requests[h] = Quiet
    BY <1>1, RequestFacts DEF Create, Shape, At, requests
  <2>6. requests' = [requests EXCEPT ![h] = Asked(name)]
    BY <2>3, <2>4, RequestMoves
  <2> QED
    BY <2>2, <2>5, <2>6 DEF Creation!Ask, Creation!Quiet, Quiet, Asked, requests, RequestOf
<1>2. ASSUME NEW h \in Handlers, Insert(h)
      PROVE  Creation!Add(h)
  <2> DEFINE name  == handlers[h].name
             found == [Nothing EXCEPT !.kind = "written"]
  <2>1. found.kind = "written"
    BY DEF Nothing
  <2>2. GoTo(h, "read", found)
    BY <1>2 DEF Insert
  <2> HIDE DEF found
  <2>3. requests[h] = Asked(name)
    BY <1>2, RequestFacts DEF Insert, requests
  <2>4. RequestOf(h)' = Told(name, "created")
    BY <2>1, <2>2, Goes, RequestFactsAfter
  <2>5. requests' = [requests EXCEPT ![h] = Told(name, "created")]
    BY <2>2, <2>4, Goes, RequestMoves
  <2>6. /\ ~Taken(name) /\ Len(rooms) < MaxRooms
        /\ rooms' = Append(rooms, name)
    BY <1>2 DEF Insert, BelowCap
  <2> HIDE DEF name
  <2>7. /\ requests[h].step = "asked" /\ requests[h].name = name
        /\ Creation!Tell(h, "created")
    BY <2>3, <2>5, Answers
  <2>8. ~Creation!Holds(requests[h].name) /\ rooms' = Append(rooms, requests[h].name)
    BY <2>6, <2>7, Words
  <2> QED
    BY <2>6, <2>7, <2>8 DEF Creation!Add, requests, RequestOf
<1>3. ASSUME NEW h \in Handlers, InsertNothing(h)
      PROVE  UNCHANGED <<rooms, requests>>
  <2>1. GoTo(h, "read", Nothing) /\ rooms' = rooms
    BY <1>3 DEF InsertNothing
  <2>2. RequestOf(h) = Asked(handlers[h].name)
    BY <1>3, RequestFacts DEF InsertNothing
  <2>3. RequestOf(h)' = Asked(handlers[h].name)
    BY <2>1, Goes, IdleFacts, RequestFactsAfter
  <2>4. requests' = requests
    <3>1. RequestOf(h)' = RequestOf(h)
      BY <2>1, <2>2, <2>3, Goes
    <3>2. requests' = [requests EXCEPT ![h] = RequestOf(h)']
      BY <2>1, Goes, RequestMoves
    <3> QED BY <3>1, <3>2 DEF requests
  <2> QED
    BY <2>1, <2>4
<1>4. ASSUME NEW h \in Handlers, Read(h)
      PROVE  Creation!Next \/ UNCHANGED <<rooms, requests>>
  <2> DEFINE name == handlers[h].name
             kind == IF ~Taken(name) THEN "full" ELSE Outcome(handlers[h].found)
  <2>1. /\ rooms' = rooms /\ name \in Names /\ name # None /\ At(h, "read")
        /\ handlers[h].found.kind \in {"nothing", "written"}
    BY <1>4, RoomStoreAssumption DEF Read, Shape
  <2>2. RequestOf(h)' = Told(name, kind)
    BY <1>4, <2>1, ReadAnswers, RequestFactsAfter
  <2>3. requests' = [requests EXCEPT ![h] = Told(name, kind)]
    BY <1>4, <2>2, ReadAnswers, RequestMoves
  <2>4. CASE handlers[h].found.kind = "written"
    <3>1. kind = "created"
      BY <2>1, <2>4 DEF StillSo, Outcome
    <3>2. RequestOf(h) = Told(name, "created")
      BY <2>1, <2>4, RequestFacts
    <3>3. requests' = requests
      BY <2>3, <3>1, <3>2 DEF requests
    <3> QED
      BY <2>1, <3>3
  <2>5. CASE handlers[h].found.kind = "nothing"
    <3>1. requests[h] = Asked(name)
      BY <2>1, <2>5, RequestFacts DEF requests
    <3>2. CASE Taken(name)
      <4>1. kind = "taken"
        BY <2>5, <3>2 DEF Outcome
      <4> HIDE DEF name, kind
      <4>2. /\ requests[h].step = "asked" /\ requests[h].name = name
            /\ Creation!Tell(h, "taken")
        BY <2>3, <3>1, <4>1, Answers
      <4>3. Creation!Holds(requests[h].name)
        BY <3>2, <4>2, Words
      <4>4. Creation!FindTaken(h)
        BY <2>1, <4>2, <4>3 DEF Creation!FindTaken, requests, RequestOf
      <4> QED
        BY <4>4 DEF Creation!Next
    <3>3. CASE ~Taken(name)
      <4>1. kind = "full" /\ Len(rooms) >= MaxRooms
        BY <2>1, <3>3, RoomStoreAssumption DEF StillSo, BelowCap
      <4> HIDE DEF name, kind
      <4>2. /\ requests[h].step = "asked" /\ requests[h].name = name
            /\ Creation!Tell(h, "full")
        BY <2>3, <3>1, <4>1, Answers
      <4>3. ~Creation!Holds(requests[h].name)
        BY <3>3, <4>2, Words
      <4>4. Creation!RefuseFull(h)
        BY <2>1, <4>1, <4>2, <4>3 DEF Creation!RefuseFull, requests, RequestOf
      <4> QED
        BY <4>4 DEF Creation!Next
    <3> QED
      BY <3>2, <3>3
  <2> QED
    BY <2>1, <2>4, <2>5
<1>5. ASSUME NEW h \in Handlers, Elsewhere(h)
      PROVE  Creation!End(h)
  <2>1. PICK next : handlers' = [handlers EXCEPT ![h] = next] /\ next.name = None
    BY <1>5 DEF Elsewhere
  <2>2. handlers'[h] = next /\ \A k \in Handlers \ {h} : handlers'[k] = handlers[k]
    BY <2>1
  <2>3. RequestOf(h)' = Quiet
    BY <2>1, <2>2, RequestFactsAfter
  <2>4. requests' = [requests EXCEPT ![h] = Quiet] /\ rooms' = rooms
    BY <1>5, <2>2, <2>3, RequestMoves DEF Elsewhere
  <2> QED
    BY <2>4, Words DEF Creation!End, requests, RequestOf
<1>6. CASE Restart
  <2>1. \A h \in Handlers : Shape(h)' /\ handlers'[h].name = None
    BY <1>6, IdleFacts DEF Restart
  <2>2. requests' = [h \in Handlers |-> Quiet] /\ rooms' = rooms
    BY <1>6, <2>1, RequestFactsAfter DEF Restart, requests
  <2>3. Creation!Restart
    BY <2>2, Words DEF Creation!Restart, requests, RequestOf
  <2> QED
    BY <2>3 DEF Creation!Next
<1>7. ASSUME NEW h \in Handlers,
             \/ \E name \in Names : Create(h, name)
             \/ Insert(h) \/ Elsewhere(h)
      PROVE  Creation!Next
  BY <1>1, <1>2, <1>5, <1>7 DEF Creation!Next
<1> QED
  BY <1>3, <1>4, <1>6, <1>7, NextCases

\* Creating a room is linearizable: the two statements of create_room, and
\* whatever other handlers do between them, look like one atomic step of the
\* directory, and the answer says who created it (rooms.rs:28-74); a database
\* that is deleted starts the directory over, and nothing else drops a name.
THEOREM CreationIsAtomic == Spec => CreatesAtomically
<1>1. Inv /\ Inv' /\ [Next]_vars => [Creation!Next \/ Rebuild]_(Creation!vars)
  <2> SUFFICES ASSUME Inv, Inv', [Next]_vars
               PROVE  [Creation!Next \/ Rebuild]_(Creation!vars)
    OBVIOUS
  <2>1. CASE Next
    BY <2>1, CreationStep DEF Creation!vars, requests, RequestOf
  <2>2. CASE UNCHANGED vars
    BY <2>2 DEF vars, Creation!vars, At
  <2> QED
    BY <2>1, <2>2
<1> QED
  BY <1>1, CreationInit, Invariance, PTL DEF Spec, CreatesAtomically

-----------------------------------------------------------------------------
(* The messages. *)

\* Every room's log is sorted, and some seq is the highest.
LogsOK ==
  /\ DOMAIN messages \subseteq 1..Len(rooms)
  /\ \A room \in DOMAIN messages :
       messages[room] \in Seq(Nat) /\ Increasing(messages[room])
  /\ \E highest \in LatestSeqs : \A seq \in LatestSeqs : seq <= highest

\* How any step but a rebuild changes the messages.
LogsGrow ==
  /\ LogsOK'
  /\ LastRow' \in Nat /\ LastRow' >= LastRow
  /\ \A room \in Nat : \/ Log(room)' = Log(room)
                       \/ Log(room)' = Append(Log(room), LastRow + 1)

LEMMA LogFacts ==
  ASSUME LogsOK
  PROVE  /\ \A room : Log(room) \in Seq(Nat) /\ Increasing(Log(room))
         /\ \A room : LatestSeq(room) \in Nat
         /\ LatestSeqs \subseteq Nat
         /\ LastRow \in LatestSeqs /\ LastRow \in Nat
         /\ \A seq \in LatestSeqs : seq <= LastRow
         /\ \A room : LatestSeq(room) <= LastRow
         /\ \A room : \A i \in 1..Len(Log(room)) : Log(room)[i] <= LastRow
<1>1. << >> \in Seq(Nat) /\ Len(<< >>) = 0
  OBVIOUS
<1>2. \A room : Log(room) \in Seq(Nat) /\ Increasing(Log(room))
  BY <1>1 DEF LogsOK, Log, Increasing
<1>3. ASSUME NEW room
      PROVE  /\ LatestSeq(room) \in Nat
             /\ \A i \in 1..Len(Log(room)) : Log(room)[i] <= LatestSeq(room)
  <2>1. Log(room) \in Seq(Nat) /\ Increasing(Log(room))
    BY <1>2
  <2>2. CASE Log(room) = << >>
    BY <1>1, <2>2 DEF LatestSeq
  <2>3. CASE Log(room) # << >>
    <3>1. LatestSeq(room) = Log(room)[Len(Log(room))]
      BY <2>3 DEF LatestSeq
    <3> QED BY <2>1, <2>3, <3>1, LastIsHighest
  <2> QED BY <2>2, <2>3
<1>4. LatestSeqs \subseteq Nat
  BY <1>3 DEF LatestSeqs
<1>5. LastRow \in LatestSeqs /\ \A seq \in LatestSeqs : LastRow >= seq
  <2>1. \E highest \in LatestSeqs : \A seq \in LatestSeqs : highest >= seq
    BY <1>4 DEF LogsOK
  <2>2. LastRow = CHOOSE highest \in LatestSeqs : \A seq \in LatestSeqs : highest >= seq
    BY DEF LastRow, Max
  <2> QED BY <2>1, <2>2
<1>6. LastRow \in Nat /\ \A seq \in LatestSeqs : seq <= LastRow
  BY <1>4, <1>5
<1>7. \A room : LatestSeq(room) <= LastRow
  <2> SUFFICES ASSUME NEW room PROVE LatestSeq(room) <= LastRow
    OBVIOUS
  <2>1. CASE room \in DOMAIN messages
    BY <1>6, <2>1 DEF LatestSeqs
  <2>2. CASE room \notin DOMAIN messages
    <3>1. LatestSeq(room) = 0
      BY <2>2 DEF LatestSeq, Log
    <3> QED BY <1>6, <3>1
  <2> QED BY <2>1, <2>2
<1>8. \A room : \A i \in 1..Len(Log(room)) : Log(room)[i] <= LastRow
  <2> SUFFICES ASSUME NEW room, NEW i \in 1..Len(Log(room)) PROVE Log(room)[i] <= LastRow
    OBVIOUS
  <2>1. Log(room)[i] \in Nat
    BY <1>2
  <2> QED BY <1>3, <1>6, <1>7, <2>1
<1> QED BY <1>2, <1>3, <1>4, <1>5, <1>6, <1>7, <1>8

\* A message of a room leaves the others' logs alone, and is the newest of all.
LEMMA MessageAdded ==
  ASSUME LogsOK, rooms \in Seq(Names), NEW room \in 1..Len(rooms), rooms' = rooms,
         messages' = WithMessage(room)
  PROVE  /\ LogsGrow
         /\ Log(room)' = Append(Log(room), LastRow + 1)
         /\ LatestSeq(room)' = LastRow + 1 /\ LastRow' = LastRow + 1
         /\ \A other : other # room => Log(other)' = Log(other)
<1> DEFINE last  == LastRow
           grown == Append(Log(room), last + 1)
<1>1. /\ last \in Nat /\ Log(room) \in Seq(Nat) /\ Increasing(Log(room))
      /\ \A i \in 1..Len(Log(room)) : Log(room)[i] <= last
      /\ LatestSeqs \subseteq Nat /\ \A seq \in LatestSeqs : seq <= last
  BY LogFacts
<1>2. messages' = [other \in DOMAIN messages \cup {room} |->
                     IF other = room THEN grown ELSE messages[other]]
  BY DEF WithMessage, NextSeq
<1> HIDE DEF last
<1>3. /\ grown \in Seq(Nat) /\ Len(grown) = Len(Log(room)) + 1
      /\ grown[Len(grown)] = last + 1 /\ Increasing(grown) /\ grown # << >>
  <2> DEFINE log == Log(room)
  <2>1. /\ log \in Seq(Nat) /\ Increasing(log) /\ last + 1 \in Nat
        /\ \A i \in 1..Len(log) : log[i] < last + 1
    BY <1>1
  <2> HIDE DEF log
  <2>2. Increasing(Append(log, last + 1))
    BY <2>1, StillIncreasing
  <2>3. /\ Append(log, last + 1) \in Seq(Nat) /\ Append(log, last + 1) # << >>
        /\ Len(Append(log, last + 1)) = Len(log) + 1
        /\ Append(log, last + 1)[Len(log) + 1] = last + 1
    BY <2>1
  <2> QED BY <2>2, <2>3 DEF log
<1> HIDE DEF grown
<1>4. DOMAIN messages' = DOMAIN messages \cup {room} /\ messages'[room] = grown
      /\ \A other \in DOMAIN messages \ {room} : messages'[other] = messages[other]
  BY <1>2
<1>5. Log(room)' = grown /\ \A other : other # room => Log(other)' = Log(other)
  BY <1>4 DEF Log
<1>6. LatestSeq(room)' = last + 1
  BY <1>3, <1>5 DEF LatestSeq
<1>7. \A other : other # room => LatestSeq(other)' = LatestSeq(other)
  BY <1>5 DEF LatestSeq
<1>8. /\ LatestSeqs' \subseteq LatestSeqs \cup {last + 1}
      /\ last + 1 \in LatestSeqs'
  BY <1>4, <1>6, <1>7 DEF LatestSeqs
<1>9. LogsOK'
  <2>1. DOMAIN messages' \subseteq 1..Len(rooms')
    BY <1>4 DEF LogsOK
  <2>2. \A other \in DOMAIN messages' :
          messages'[other] \in Seq(Nat) /\ Increasing(messages'[other])
    BY <1>3, <1>4 DEF LogsOK
  <2>3. \A seq \in LatestSeqs' : seq <= last + 1
    BY <1>1, <1>8
  <2> QED BY <1>8, <2>1, <2>2, <2>3 DEF LogsOK, Increasing
<1>10. LastRow' = last + 1
  <2>1. LatestSeqs' \subseteq Nat /\ last + 1 \in Nat
    BY <1>1, <1>8
  <2>2. last + 1 \in LatestSeqs' /\ \A seq \in LatestSeqs' : last + 1 >= seq
    BY <1>1, <1>8
  <2>3. LastRow' = CHOOSE highest \in LatestSeqs' : \A seq \in LatestSeqs' : highest >= seq
    BY DEF LastRow, Max
  <2>4. LastRow' \in LatestSeqs' /\ \A seq \in LatestSeqs' : LastRow' >= seq
    BY <2>2, <2>3
  <2> QED BY <2>1, <2>2, <2>4
<1> QED BY <1>1, <1>5, <1>6, <1>9, <1>10 DEF LogsGrow, last, grown

LEMMA MessagesKept ==
  ASSUME LogsOK, rooms \in Seq(Names), Len(rooms) >= 1, Grows, messages' = messages
  PROVE  LogsGrow /\ LastRow' = LastRow
<1>1. Len(rooms) <= Len(rooms') /\ Len(rooms) \in Nat /\ Len(rooms') \in Nat
  BY RowsStay
<1>2. /\ \A room : Log(room)' = Log(room) /\ LatestSeq(room)' = LatestSeq(room)
      /\ LatestSeqs' = LatestSeqs
  BY DEF Log, LatestSeq, LatestSeqs
<1>3. LastRow' = LastRow
  BY <1>2 DEF LastRow, Max
<1>4. LogsOK'
  <2>1. DOMAIN messages' \subseteq 1..Len(rooms')
    BY <1>1 DEF LogsOK
  <2> QED BY <1>2, <2>1 DEF LogsOK, Increasing
<1>5. LastRow \in Nat
  BY LogFacts
<1> QED BY <1>2, <1>3, <1>4, <1>5 DEF LogsGrow

-----------------------------------------------------------------------------
(* Types, and what handlers are about to answer. *)

Handler ==
  [step : Steps, name : Names \cup {None}, cursor : Cursors, room : Nat, from : Nat,
   limit : Limits \cup {0}, found : Answer]

\* AnswersTrue, of one handler.
TrueOf(h) ==
  At(h, "told") =>
    LET found == handlers[h].found
    IN  /\ found.kind \in {"created", "taken"} =>
             found.room \in 1..Len(rooms) /\ SameName(rooms[found.room], handlers[h].name)
        /\ found.kind = "full" => Len(rooms) >= MaxRooms /\ ~Taken(handlers[h].name)
        /\ found.seq # 0 => \E i \in 1..Len(Log(found.room)) :
                              Log(found.room)[i] = found.seq

Truth == Inv /\ TypeOK /\ LogsOK /\ AnswersTrue

LEMMA AnswersAreTrueOf == AnswersTrue <=> \A h \in Handlers : TrueOf(h)
BY DEF AnswersTrue, TrueOf

LEMMA OthersStayTrue ==
  ASSUME Truth, Grows, LogsGrow, NEW h \in Handlers, handlers'[h] = handlers[h]
  PROVE  TrueOf(h)'
<1> DEFINE found == handlers[h].found
           room  == found.room
<1> SUFFICES ASSUME At(h, "told")' PROVE TrueOf(h)'
  BY DEF TrueOf
<1>1. TrueOf(h) /\ At(h, "told")
  BY DEF Truth, AnswersTrue, TrueOf, At
<1>2. found \in Answer /\ room \in Nat
  BY DEF Truth, TypeOK, Answer
<1>3. /\ rooms \in Seq(Names) /\ Len(rooms) \in Nat /\ Len(rooms') \in Nat
      /\ Len(rooms) <= Len(rooms') /\ \A i \in 1..Len(rooms) : rooms'[i] = rooms[i]
  BY RowsStay DEF Truth, Inv
<1>4. ASSUME found.kind \in {"created", "taken"}
      PROVE  room \in 1..Len(rooms') /\ SameName(rooms'[room], handlers[h].name)
  BY <1>1, <1>3, <1>4 DEF TrueOf
<1>5. ASSUME found.kind = "full"
      PROVE  Len(rooms') >= MaxRooms /\ ~Taken(handlers[h].name)'
  <2>1. Len(rooms) >= MaxRooms /\ ~Taken(handlers[h].name)
    BY <1>1, <1>5 DEF TrueOf
  <2>2. rooms' = rooms
    BY <1>3, <2>1, FullStays, RoomStoreAssumption DEF BelowCap
  <2> QED BY <2>1, <2>2 DEF Taken
<1>6. ASSUME found.seq # 0
      PROVE  \E i \in 1..Len(Log(room)') : Log(room)'[i] = found.seq
  <2> DEFINE log == Log(room)
  <2>1. log \in Seq(Nat) /\ LastRow + 1 \in Nat
    BY LogFacts DEF Truth
  <2>2. PICK i \in 1..Len(log) : log[i] = found.seq
    BY <1>1, <1>6 DEF TrueOf
  <2>3. log' = log \/ log' = Append(log, LastRow + 1)
    BY <1>2 DEF LogsGrow
  <2> HIDE DEF log
  <2>4. i \in 1..Len(log') /\ log'[i] = log[i]
    BY <2>1, <2>2, <2>3
  <2> QED BY <2>2, <2>4 DEF log
<1>7. handlers'[h].found = found /\ handlers'[h].name = handlers[h].name
  OBVIOUS
<1> QED BY <1>4, <1>5, <1>6, <1>7 DEF TrueOf, Log, Taken

\* The records handlers come to hold.
LEMMA FoundTypes ==
  /\ << >> \in Seq(Nat)
  /\ Nothing \in Answer
  /\ Idle \in Handler
  /\ \A kind \in {"written", "full", "missing"} : [Nothing EXCEPT !.kind = kind] \in Answer
  /\ \A found \in Answer : [Idle EXCEPT !.step = "told", !.found = found] \in Handler
  /\ \A name \in Names : [Idle EXCEPT !.step = "insert", !.name = name] \in Handler
<1>1. << >> \in Seq(Nat)
  OBVIOUS
<1>2. Nothing \in Answer
  BY <1>1, Zenon DEF Nothing, Answer
<1>3. \A kind \in {"written", "full", "missing"} : [Nothing EXCEPT !.kind = kind] \in Answer
  BY <1>1 DEF Nothing, Answer
<1>4. Idle \in Handler
  BY <1>2 DEF Idle, Handler, Steps, Cursors
<1>5. \A found \in Answer : [Idle EXCEPT !.step = "told", !.found = found] \in Handler
  BY DEF Idle, Handler, Steps, Cursors
<1>6. \A name \in Names : [Idle EXCEPT !.step = "insert", !.name = name] \in Handler
  BY <1>2 DEF Idle, Handler, Steps, Cursors
<1> QED BY <1>1, <1>2, <1>3, <1>4, <1>5, <1>6

LEMMA TellsSeq ==
  ASSUME NEW kind \in {"listed", "posted"}, NEW room \in Nat, NEW seq \in Nat
  PROVE  [kind |-> kind, room |-> room, seq |-> seq, page |-> << >>] \in Answer
<1>1. << >> \in Seq(Nat)
  OBVIOUS
<1> QED BY <1>1, Zenon DEF Answer

\* A handler comes to hold a record of the type, whose answer is true.
MovesTruly(h) ==
  /\ \E next \in Handler :
       /\ handlers' = [handlers EXCEPT ![h] = next]
       /\ next.step \in {"insert", "read"} => next.name \in Names
  /\ TrueOf(h)'

LEMMA GoesTyped ==
  ASSUME Truth, NEW h \in Handlers, NEW step \in Steps, NEW found \in Answer,
         GoTo(h, step, found), step \in {"insert", "read"} => handlers[h].name \in Names
  PROVE  /\ \E next \in Handler :
              /\ handlers' = [handlers EXCEPT ![h] = next]
              /\ next.step \in {"insert", "read"} => next.name \in Names
         /\ handlers'[h] = [handlers[h] EXCEPT !.step = step, !.found = found]
<1> DEFINE next == [handlers[h] EXCEPT !.step = step, !.found = found]
<1>1. handlers[h] \in Handler /\ handlers \in [Handlers -> Handler]
  BY DEF Truth, TypeOK, Handler
<1>2. next \in Handler /\ next.step = step /\ next.name = handlers[h].name
  BY <1>1 DEF Handler
<1>3. handlers' = [handlers EXCEPT ![h] = next]
  BY DEF GoTo
<1> HIDE DEF next
<1>4. handlers'[h] = next
  BY <1>1, <1>3
<1> QED BY <1>2, <1>3, <1>4 DEF next

LEMMA TruthKept ==
  ASSUME Truth, Inv', Grows, LogsGrow, NEW h \in Handlers, MovesTruly(h),
         known' \in Nat, rebuilds' = rebuilds
  PROVE  Truth'
<1>1. PICK next \in Handler :
        /\ handlers' = [handlers EXCEPT ![h] = next]
        /\ next.step \in {"insert", "read"} => next.name \in Names
  BY DEF MovesTruly
<1>2. handlers \in [Handlers -> Handler]
  BY DEF Truth, TypeOK, Handler
<1>3. /\ handlers' \in [Handlers -> Handler] /\ handlers'[h] = next
      /\ \A k \in Handlers \ {h} : handlers'[k] = handlers[k]
  BY <1>1, <1>2
<1>4. \A k \in Handlers : TrueOf(k)'
  BY <1>3, OthersStayTrue DEF MovesTruly
<1>5. \A k \in Handlers : handlers'[k].step \in {"insert", "read"} => handlers'[k].name \in Names
  BY <1>1, <1>3 DEF Truth, TypeOK
<1>6. rooms' \in Seq(Names)
  BY DEF Inv
<1>7. LogsOK'
  BY DEF LogsGrow
<1>8. TypeOK'
  BY <1>3, <1>5, <1>6, <1>7 DEF TypeOK, LogsOK, Handler, Truth
<1>9. AnswersTrue'
  BY <1>4 DEF AnswersTrue, TrueOf
<1> QED BY <1>7, <1>8, <1>9 DEF Truth

\* What a step of a handler does to the tables and to that handler.
StepsTruly(h) ==
  /\ Grows /\ LogsGrow
  /\ MovesTruly(h)
  /\ known' \in Nat /\ rebuilds' = rebuilds

LEMMA Untold ==
  ASSUME NEW h \in Handlers, handlers'[h].step # "told" PROVE TrueOf(h)'
BY DEF TrueOf, At

\* An answer that names no room and tells no seq.
LEMMA Empty ==
  ASSUME NEW h \in Handlers, handlers'[h].found.seq = 0,
         handlers'[h].found.kind \notin {"created", "taken", "full"}
  PROVE  TrueOf(h)'
BY DEF TrueOf

LEMMA TruthBasics ==
  ASSUME Truth
  PROVE  /\ rooms \in Seq(Names) /\ Len(rooms) >= 1 /\ Len(rooms) \in Nat
         /\ handlers \in [Handlers -> Handler] /\ known \in Nat /\ LogsOK
         /\ rooms' = rooms => Grows
         /\ Grows /\ messages' = messages => LogsGrow
<1>1. /\ rooms \in Seq(Names) /\ Len(rooms) >= 1 /\ LogsOK
      /\ handlers \in [Handlers -> Handler] /\ known \in Nat
  BY DEF Truth, Inv, TypeOK, Handler
<1>2. rooms' = rooms => Grows
  BY DEF Grows
<1>3. Grows /\ messages' = messages => LogsGrow
  BY <1>1, MessagesKept
<1> QED BY <1>1, <1>2, <1>3

\* The newest seq of a room is the seq of a message of it.
LEMMA LatestIsThere ==
  ASSUME LogsOK, NEW room, LatestSeq(room) # 0
  PROVE  \E i \in 1..Len(Log(room)) : Log(room)[i] = LatestSeq(room)
<1> DEFINE log == Log(room)
<1>1. log \in Seq(Nat) /\ log # << >> /\ LatestSeq(room) = log[Len(log)]
  BY LogFacts DEF LatestSeq
<1> HIDE DEF log
<1>2. Len(log) \in 1..Len(log)
  BY <1>1
<1> QED BY <1>1, <1>2 DEF log

LEMMA CreateTruly ==
  ASSUME Truth, NEW h \in Handlers, NEW name \in Names, Create(h, name)
  PROVE  StepsTruly(h)
<1> DEFINE next == [Idle EXCEPT !.step = "insert", !.name = name]
<1>1. next \in Handler /\ next.step = "insert" /\ next.name = name
  BY FoundTypes DEF Idle
<1>2. /\ handlers' = [handlers EXCEPT ![h] = next]
      /\ UNCHANGED <<rooms, messages, known, rebuilds>>
  BY DEF Create
<1> HIDE DEF next
<1>3. handlers'[h] = next
  BY <1>2, TruthBasics
<1> QED BY <1>1, <1>2, <1>3, TruthBasics, Untold DEF StepsTruly, MovesTruly

LEMMA InsertTruly ==
  ASSUME Truth, NEW h \in Handlers, Insert(h) \/ InsertNothing(h)
  PROVE  StepsTruly(h)
<1>1. handlers[h].name \in Names
  BY DEF Truth, TypeOK, Insert, InsertNothing, At
<1>2. PICK found \in Answer : GoTo(h, "read", found)
  BY FoundTypes DEF Insert, InsertNothing
<1>3. Grows /\ messages' = messages /\ UNCHANGED <<known, rebuilds>>
  BY <1>1 DEF Insert, InsertNothing, Grows
<1>4. "read" \in Steps
  BY DEF Steps
<1>5. handlers'[h].step = "read"
  BY <1>2, Goes DEF Truth
<1>6. TrueOf(h)'
  BY <1>5, Untold
<1> QED BY <1>1, <1>2, <1>3, <1>4, <1>6, GoesTyped, TruthBasics DEF StepsTruly, MovesTruly

LEMMA ReadTruly ==
  ASSUME Truth, NEW h \in Handlers, Read(h)
  PROVE  StepsTruly(h)
<1> DEFINE name  == handlers[h].name
           room  == IdOf(name)
           told  == [Nothing EXCEPT !.kind = Outcome(handlers[h].found), !.room = room,
                                    !.seq = LatestSeq(room)]
           full  == [Nothing EXCEPT !.kind = "full"]
           found == IF Taken(name) THEN told ELSE full
<1>1. GoTo(h, "told", found) /\ UNCHANGED <<rooms, messages, known, rebuilds>>
  BY DEF Read
<1>2. Taken(name) => room \in 1..Len(rooms) /\ SameName(rooms[room], name)
  BY DEF Taken, IdOf
<1>3. /\ told.kind \in {"created", "taken"} /\ told.room = room
      /\ told.seq = LatestSeq(room)
      /\ full.kind = "full" /\ full.seq = 0
  BY DEF Nothing, Outcome
<1>4. Taken(name) => told \in Answer
  <2>1. LatestSeq(room) \in Nat
    BY LogFacts, TruthBasics
  <2>2. Taken(name) => room \in Nat
    BY <1>2, TruthBasics
  <2> HIDE DEF room, name
  <2> QED BY <2>1, <2>2, FoundTypes DEF Nothing, Answer, Outcome
<1>5. full \in Answer
  BY FoundTypes
<1> HIDE DEF told, full, room
<1>6. found \in Answer /\ "told" \in Steps
  BY <1>4, <1>5 DEF Steps
<1>7. Taken(name) \/ ~BelowCap
  BY DEF Truth, Inv, StillSo, Read
<1>8. /\ found.kind \in {"created", "taken"} =>
           found.room \in 1..Len(rooms) /\ SameName(rooms[found.room], name)
      /\ found.kind = "full" => Len(rooms) >= MaxRooms /\ ~Taken(name)
  BY <1>2, <1>3, <1>7, RoomStoreAssumption, TruthBasics DEF BelowCap
<1>9. found.seq # 0 => \E i \in 1..Len(Log(found.room)) : Log(found.room)[i] = found.seq
  BY <1>3, LatestIsThere, TruthBasics
<1> HIDE DEF found
<1>10. handlers'[h].found = found /\ handlers'[h].name = name
  BY <1>1, Goes DEF Truth
<1>11. TrueOf(h)'
  BY <1>1, <1>8, <1>9, <1>10 DEF TrueOf, Taken, Log
<1> QED BY <1>1, <1>6, <1>11, GoesTyped, TruthBasics DEF StepsTruly, MovesTruly

LEMMA ListTruly ==
  ASSUME Truth, NEW h \in Handlers, ListRooms(h)
  PROVE  StepsTruly(h)
<1>1. PICK room \in 1..Len(rooms) :
        handlers' = [handlers EXCEPT ![h] =
          [Idle EXCEPT !.step = "told",
                       !.found = [kind |-> "listed", room |-> room,
                                  seq |-> LatestSeq(room), page |-> << >>]]]
  BY DEF ListRooms
<1> DEFINE found == [kind |-> "listed", room |-> room, seq |-> LatestSeq(room), page |-> << >>]
           next  == [Idle EXCEPT !.step = "told", !.found = found]
<1>2. found \in Answer
  <2>1. room \in Nat /\ LatestSeq(room) \in Nat
    BY LogFacts, TruthBasics
  <2> QED BY <2>1, TellsSeq
<1>3. handlers' = [handlers EXCEPT ![h] = next]
  BY <1>1
<1>4. found.kind = "listed" /\ found.room = room /\ found.seq = LatestSeq(room)
  OBVIOUS
<1>5. UNCHANGED <<rooms, messages, known, rebuilds>>
  BY DEF ListRooms
<1> HIDE DEF found
<1>6. next \in Handler /\ next.step = "told" /\ next.found = found
  BY <1>2, FoundTypes DEF Idle
<1> HIDE DEF next
<1>7. handlers'[h] = next
  BY <1>3, TruthBasics
<1>8. found.seq # 0 => \E i \in 1..Len(Log(found.room)) : Log(found.room)[i] = found.seq
  BY <1>4, LatestIsThere, TruthBasics
<1>9. TrueOf(h)'
  BY <1>4, <1>5, <1>6, <1>7, <1>8 DEF TrueOf, Log
<1> QED BY <1>3, <1>5, <1>6, <1>9, TruthBasics DEF StepsTruly, MovesTruly

LEMMA PostTruly ==
  ASSUME Truth, NEW h \in Handlers, NEW room \in 1..(Len(rooms) + 1), Post(h, room)
  PROVE  StepsTruly(h)
<1>1. CASE room \in 1..Len(rooms)
  <2> DEFINE found == [kind |-> "posted", room |-> room, seq |-> NextSeq(room), page |-> << >>]
             next  == [Idle EXCEPT !.step = "told", !.found = found]
  <2>1. /\ messages' = WithMessage(room) /\ UNCHANGED <<rooms, known, rebuilds>>
        /\ handlers' = [handlers EXCEPT ![h] = next]
    BY <1>1 DEF Post
  <2>2. LogsGrow /\ Log(room)' = Append(Log(room), LastRow + 1)
    BY <1>1, <2>1, MessageAdded, TruthBasics
  <2>3. LastRow \in Nat /\ Log(room) \in Seq(Nat)
    BY LogFacts, TruthBasics
  <2>4. found \in Answer /\ found.kind = "posted" /\ found.room = room
        /\ found.seq = LastRow + 1
    <3>1. room \in Nat /\ NextSeq(room) \in Nat /\ NextSeq(room) = LastRow + 1
      BY <2>3, TruthBasics DEF NextSeq
    <3> QED BY <3>1, TellsSeq
  <2> HIDE DEF found
  <2>5. next \in Handler /\ next.step = "told" /\ next.found = found
    BY <2>4, FoundTypes DEF Idle
  <2> HIDE DEF next
  <2>6. handlers'[h] = next
    BY <2>1, TruthBasics
  <2>7. /\ Len(Log(room)) + 1 \in 1..Len(Log(room)')
        /\ Log(room)'[Len(Log(room)) + 1] = LastRow + 1
    BY <2>2, <2>3
  <2>8. TrueOf(h)'
    BY <2>4, <2>5, <2>6, <2>7 DEF TrueOf
  <2> QED BY <2>1, <2>2, <2>5, <2>8, TruthBasics DEF StepsTruly, MovesTruly
<1>2. CASE room \notin 1..Len(rooms)
  <2> DEFINE found == [Nothing EXCEPT !.kind = "missing"]
             next  == [Idle EXCEPT !.step = "told", !.found = found]
  <2>1. /\ UNCHANGED <<rooms, messages, known, rebuilds>>
        /\ handlers' = [handlers EXCEPT ![h] = next]
    BY <1>2 DEF Post
  <2>2. found \in Answer /\ found.kind = "missing" /\ found.seq = 0
    BY FoundTypes DEF Nothing
  <2> HIDE DEF found
  <2>3. next \in Handler /\ next.step = "told" /\ next.found = found
    BY <2>2, FoundTypes DEF Idle
  <2> HIDE DEF next
  <2>4. handlers'[h] = next
    BY <2>1, TruthBasics
  <2>5. TrueOf(h)'
    BY <2>2, <2>3, <2>4, Empty
  <2> QED BY <2>1, <2>3, <2>5, TruthBasics DEF StepsTruly, MovesTruly
<1> QED BY <1>1, <1>2

\* PagesStand, of one page and a log.
Stands(who, page, log) ==
  LET short == Len(page) < Clamped(who.limit, MaxLimit)
  IN  CASE who.cursor = "after" ->
             \E p \in 0..Len(log) : Splits(log, who.from, p) /\ Window(log, p, page)
        [] who.cursor = "before" ->
             \E p \in 0..Len(log) :
               /\ \A i \in 1..Len(log) : log[i] < who.from <=> i <= p + Len(page)
               /\ Window(log, p, page)
               /\ short => p = 0
        [] who.cursor = "newest" ->
             \E p \in 0..Len(log) : Window(log, p, page) /\ (short => p = 0)

LEMMA ClampedIsNat ==
  ASSUME NEW limit \in Nat PROVE Clamped(limit, MaxLimit) \in Nat \ {0}
BY RoomStoreAssumption DEF Clamped, AtMost

\* The seqs below a cursor are a first part of the log, too.
LEMMA BelowExists ==
  ASSUME NEW entries \in Seq(Nat), Increasing(entries), NEW c \in Nat
  PROVE  \E q \in 0..Len(entries) : \A i \in 1..Len(entries) : entries[i] < c <=> i <= q
<1>1. CASE c = 0
  <2>1. 0 \in 0..Len(entries) /\ \A i \in 1..Len(entries) : ~(entries[i] < c) /\ ~(i <= 0)
    BY <1>1
  <2> WITNESS 0 \in 0..Len(entries)
  <2> QED BY <2>1
<1>2. CASE c # 0
  <2>1. PICK q \in 0..Len(entries) : Splits(entries, c - 1, q)
    BY <1>2, SplitExists
  <2>2. \A i \in 1..Len(entries) : entries[i] < c <=> i <= q
    BY <1>2, <2>1 DEF Splits
  <2> QED BY <2>2
<1> QED BY <1>1, <1>2

\* A page stands when it is read.
LEMMA PageStands ==
  ASSUME LogsOK, NEW who \in Handler
  PROVE  Page(who) \in Seq(Nat) /\ Stands(who, Page(who), Log(who.room))
<1> DEFINE log   == Log(who.room)
           from  == who.from
           limit == Clamped(who.limit, MaxLimit)
<1>1. /\ log \in Seq(Nat) /\ Increasing(log) /\ from \in Nat /\ limit \in Nat \ {0}
      /\ who.cursor \in {"newest", "after", "before"}
  <2>1. who.limit \in Limits \cup {0} /\ from \in Nat /\ who.cursor \in Cursors
    BY DEF Handler
  <2>2. who.limit \in Nat
    <3>1. Limits \subseteq Nat
      BY RoomStoreAssumption
    <3>2. \A asked \in Limits \cup {0} : asked \in Nat
      BY <3>1
    <3> QED BY <2>1, <3>2
  <2> QED BY <2>1, <2>2, LogFacts, ClampedIsNat DEF Cursors
<1>2. Page(who) = CASE who.cursor = "after"  -> After(log, from, limit)
                    [] who.cursor = "before" -> Before(log, from, limit)
                    [] who.cursor = "newest" -> Newest(log, limit)
  BY DEF Page
<1> HIDE DEF log, from, limit
<1>3. CASE who.cursor = "after"
  <2>1. PICK p \in 0..Len(log) : Splits(log, from, p)
    BY <1>1, SplitExists
  <2>2. After(log, from, limit) \in Seq(Nat) /\ Window(log, p, After(log, from, limit))
    BY <1>1, <2>1, AfterIsWindow
  <2>3. Page(who) = After(log, from, limit)
    BY <1>2, <1>3
  <2> QED BY <1>3, <2>1, <2>2, <2>3 DEF Stands, log, from
<1>4. CASE who.cursor = "before"
  <2> DEFINE page == Before(log, from, limit)
  <2>1. PICK q \in 0..Len(log) : \A i \in 1..Len(log) : log[i] < from <=> i <= q
    BY <1>1, BelowExists
  <2>2. /\ page \in Seq(Nat) /\ Len(page) = AtMost(limit, q)
        /\ Window(log, q - Len(page), page)
    BY <1>1, <2>1, BeforeIsWindow
  <2>3. Page(who) = page
    BY <1>2, <1>4
  <2> HIDE DEF page
  <2>4. /\ q - Len(page) \in 0..Len(log) /\ q = (q - Len(page)) + Len(page)
        /\ Len(page) < limit => q - Len(page) = 0
    BY <1>1, <2>1, <2>2 DEF AtMost
  <2> QED BY <1>4, <2>1, <2>2, <2>3, <2>4 DEF Stands, log, from, limit
<1>5. CASE who.cursor = "newest"
  <2> DEFINE page == Newest(log, limit)
  <2>1. /\ page \in Seq(Nat) /\ Len(page) = AtMost(limit, Len(log))
        /\ Window(log, Len(log) - Len(page), page)
    BY <1>1, NewestIsWindow
  <2>2. Page(who) = page
    BY <1>2, <1>5
  <2> HIDE DEF page
  <2>3. /\ Len(log) - Len(page) \in 0..Len(log)
        /\ Len(page) < limit => Len(log) - Len(page) = 0
    BY <1>1, <2>1 DEF AtMost
  <2> QED BY <1>5, <2>1, <2>2, <2>3 DEF Stands, log, limit
<1> QED BY <1>1, <1>3, <1>4, <1>5

LEMMA AskTruly ==
  ASSUME Truth, NEW h \in Handlers, NEW room \in 1..(Len(rooms) + 1), NEW cursor \in Cursors,
         NEW from \in 0..known, NEW limit \in Limits, AskPage(h, room, cursor, from, limit)
  PROVE  StepsTruly(h)
<1> DEFINE next == [step |-> "exists", name |-> None, cursor |-> cursor, room |-> room,
                    from |-> from, limit |-> limit, found |-> Nothing]
<1>1. room \in Nat /\ from \in Nat
  BY TruthBasics
<1>2. next \in Handler /\ next.step = "exists"
  BY <1>1, FoundTypes DEF Handler, Steps
<1>3. handlers' = [handlers EXCEPT ![h] = next] /\ UNCHANGED <<rooms, messages, known, rebuilds>>
  BY DEF AskPage
<1> HIDE DEF next
<1>4. handlers'[h] = next
  BY <1>3, TruthBasics
<1> QED BY <1>2, <1>3, <1>4, TruthBasics, Untold DEF StepsTruly, MovesTruly

LEMMA ExistsTruly ==
  ASSUME Truth, NEW h \in Handlers, Exists(h)
  PROVE  StepsTruly(h)
<1> DEFINE missing == [Nothing EXCEPT !.kind = "missing"]
<1>1. missing \in Answer /\ missing.seq = 0 /\ missing.kind = "missing"
  BY FoundTypes DEF Nothing
<1>2. /\ GoTo(h, "select", Nothing) \/ GoTo(h, "told", missing)
      /\ UNCHANGED <<rooms, messages, known, rebuilds>>
  BY DEF Exists
<1> HIDE DEF missing
<1>3. "select" \in Steps /\ "told" \in Steps
  BY DEF Steps
<1>4. CASE GoTo(h, "select", Nothing)
  <2>1. TrueOf(h)'
    BY <1>4, Goes, Untold DEF Truth
  <2> QED BY <1>2, <1>3, <1>4, <2>1, FoundTypes, GoesTyped, TruthBasics
             DEF StepsTruly, MovesTruly
<1>5. CASE GoTo(h, "told", missing)
  <2>1. TrueOf(h)'
    BY <1>1, <1>5, Goes, Empty DEF Truth
  <2> QED BY <1>1, <1>2, <1>3, <1>5, <2>1, GoesTyped, TruthBasics
             DEF StepsTruly, MovesTruly
<1> QED BY <1>2, <1>4, <1>5

LEMMA SelectTruly ==
  ASSUME Truth, NEW h \in Handlers, Select(h)
  PROVE  StepsTruly(h)
<1> DEFINE who   == handlers[h]
           found == [Nothing EXCEPT !.kind = "page", !.room = who.room, !.page = Page(who)]
<1>1. GoTo(h, "told", found) /\ UNCHANGED <<rooms, messages, known, rebuilds>>
  BY DEF Select
<1>2. who \in Handler
  BY TruthBasics
<1>3. Page(who) \in Seq(Nat) /\ who.room \in Nat
  BY <1>2, PageStands, TruthBasics DEF Handler
<1>4. found \in Answer /\ found.kind = "page" /\ found.seq = 0
  BY <1>3 DEF Nothing, Answer
<1> HIDE DEF found, who
<1>5. "told" \in Steps
  BY DEF Steps
<1>6. TrueOf(h)'
  BY <1>1, <1>4, Goes, Empty DEF Truth
<1> QED BY <1>1, <1>4, <1>5, <1>6, GoesTyped, TruthBasics DEF StepsTruly, MovesTruly

LEMMA EndTruly ==
  ASSUME Truth, NEW h \in Handlers, Reply(h) \/ CutOff(h)
  PROVE  StepsTruly(h)
<1>1. /\ handlers' = [handlers EXCEPT ![h] = Idle] /\ UNCHANGED <<rooms, messages, rebuilds>>
  BY DEF Reply, CutOff
<1>2. known' \in Nat
  <2>1. handlers[h].found \in Answer
    BY TruthBasics DEF Handler
  <2>2. HighestIn(handlers[h].found) \in Nat
    BY <2>1 DEF HighestIn, Answer
  <2> QED BY <2>2, TruthBasics DEF Reply, CutOff
<1>3. handlers'[h] = Idle /\ Idle.step = "idle"
  BY <1>1, TruthBasics, IdleFacts
<1> QED BY <1>1, <1>2, <1>3, FoundTypes, TruthBasics, Untold DEF StepsTruly, MovesTruly

\* After a start of the store, no handler is under way.
LEMMA StartTruly ==
  ASSUME Truth, Inv', LogsOK', handlers' = [h \in Handlers |-> Idle], known' = known,
         rebuilds' \in 0..MaxRebuilds
  PROVE  Truth'
<1>1. \A h \in Handlers : handlers'[h] = Idle
  OBVIOUS
<1>2. handlers' \in [Handlers -> Handler]
  BY FoundTypes
<1>3. TypeOK'
  BY <1>1, <1>2, IdleFacts, TruthBasics DEF TypeOK, LogsOK, Handler, Inv
<1>4. AnswersTrue'
  BY <1>1, IdleFacts DEF AnswersTrue, At
<1> QED BY <1>3, <1>4 DEF Truth

\* A database without messages.
LEMMA NoMessagesOK ==
  ASSUME messages = NoMessages PROVE LogsOK /\ LastRow = 0
<1>1. DOMAIN messages = {} /\ LatestSeqs = {0}
  BY DEF NoMessages, LatestSeqs
<1>2. LastRow = CHOOSE highest \in {0} : \A seq \in {0} : highest >= seq
  BY <1>1 DEF LastRow, Max
<1>3. LastRow = 0
  BY <1>2
<1> QED BY <1>1, <1>3 DEF LogsOK

LEMMA TruthInit == Init => Truth
<1> SUFFICES ASSUME Init PROVE Truth
  OBVIOUS
<1>1. Inv /\ LogsOK
  BY InitInv, NoMessagesOK DEF Init
<1>2. /\ handlers \in [Handlers -> Handler]
      /\ \A h \in Handlers : handlers[h] = Idle
  BY FoundTypes DEF Init
<1>3. rebuilds \in 0..MaxRebuilds /\ known \in Nat
  BY RoomStoreAssumption DEF Init
<1>4. TypeOK
  BY <1>1, <1>2, <1>3, IdleFacts DEF TypeOK, LogsOK, Handler, Inv
<1>5. AnswersTrue
  BY <1>2, IdleFacts DEF AnswersTrue, At
<1> QED BY <1>1, <1>4, <1>5 DEF Truth

LEMMA HandlerTruly ==
  ASSUME Truth, Next
  PROVE  (\E h \in Handlers : StepsTruly(h)) \/ Restart \/ Rebuild
BY CreateTruly, InsertTruly, ReadTruly, ListTruly, PostTruly, AskTruly, ExistsTruly,
   SelectTruly, EndTruly DEF Next

LEMMA TruthNext == Truth /\ [Next]_vars => Truth'
<1> SUFFICES ASSUME Truth, [Next]_vars PROVE Truth'
  OBVIOUS
<1>1. Inv'
  BY NextInv DEF Truth
<1>2. ASSUME NEW h \in Handlers, StepsTruly(h)
      PROVE  Truth'
  BY <1>1, <1>2, TruthKept DEF StepsTruly
<1>3. CASE Restart
  <2>1. LogsOK' /\ rebuilds' \in 0..MaxRebuilds
    BY <1>3, TruthBasics DEF Restart, LogsGrow, Truth, TypeOK
  <2> QED BY <1>1, <1>3, <2>1, StartTruly DEF Restart
<1>4. CASE Rebuild
  <2>1. DOMAIN messages' = {} /\ LatestSeqs' = {0}
    BY <1>4 DEF Rebuild, NoMessages, LatestSeqs
  <2>2. LogsOK'
    BY <2>1 DEF LogsOK
  <2>3. rebuilds' \in 0..MaxRebuilds
    BY <1>4, RoomStoreAssumption DEF Rebuild, Truth, TypeOK
  <2> QED BY <1>1, <1>4, <2>2, <2>3, StartTruly DEF Rebuild
<1>5. CASE UNCHANGED vars
  <2>1. LogsOK'
    BY <1>5, TruthBasics DEF vars, LogsGrow
  <2>2. TypeOK'
    BY <1>5 DEF vars, Truth, TypeOK
  <2>3. \A h \in Handlers : TrueOf(h)'
    BY <1>5, <2>1, TruthBasics, OthersStayTrue DEF vars
  <2> QED BY <1>1, <2>1, <2>2, <2>3 DEF Truth, AnswersTrue, TrueOf
<1> QED BY <1>2, <1>3, <1>4, <1>5, HandlerTruly

LEMMA TruthHolds == Spec => []Truth
BY TruthInit, TruthNext, PTL DEF Spec

\* The tables and what handlers hold have the types the code gives them, and no
\* message is of a room that does not exist (schema.sql:31).
THEOREM TypeCorrect == Spec => []TypeOK
BY TruthHolds, PTL DEF Truth

\* An answer is still true when it is heard, whatever other handlers did since
\* it was found, and however often the database was deleted (rooms.rs:48).
THEOREM AnswersStayTrue == Spec => []AnswersTrue
BY TruthHolds, PTL DEF Truth

-----------------------------------------------------------------------------
(* Seqs and pages, as long as the database is kept. *)

\* Nobody knows of a seq that was not given out, and no page is asked for
\* around one; pages stand.
StandOf(h) ==
  /\ handlers[h].from <= known
  /\ At(h, "told") => HighestIn(handlers[h].found) <= LastRow
  /\ At(h, "told") /\ handlers[h].found.kind = "page" =>
       Stands(handlers[h], handlers[h].found.page, Log(handlers[h].room))

Standing == Truth /\ known <= LastRow /\ \A h \in Handlers : StandOf(h)

\* A page stands when a message lands behind all that was known.
LEMMA StandsOn ==
  ASSUME NEW entries \in Seq(Nat), NEW s \in Nat, NEW who \in Handler, who.from < s,
         NEW page \in Seq(Nat), Stands(who, page, entries)
  PROVE  Stands(who, page, Append(entries, s))
<1> DEFINE more  == Append(entries, s)
           from  == who.from
           short == Len(page) < Clamped(who.limit, MaxLimit)
<1>1. /\ from \in Nat /\ from < s /\ who.cursor \in {"newest", "after", "before"}
      /\ Len(more) = Len(entries) + 1 /\ Len(entries) \in Nat /\ more[Len(entries) + 1] = s
      /\ \A i \in 1..Len(entries) : more[i] = entries[i] /\ entries[i] \in Nat
  BY DEF Handler, Cursors
<1>2. \A p \in 0..Len(entries) :
        /\ p \in 0..Len(more)
        /\ Window(entries, p, page) => Window(more, p, page)
        /\ Splits(entries, from, p) => Splits(more, from, p)
  BY <1>1, WindowGrows, SplitGrows
<1>3. CASE who.cursor = "after"
  BY <1>2, <1>3 DEF Stands
<1>4. CASE who.cursor = "before"
  <2>1. PICK p \in 0..Len(entries) :
          /\ \A i \in 1..Len(entries) : entries[i] < from <=> i <= p + Len(page)
          /\ Window(entries, p, page)
          /\ short => p = 0
    BY <1>4 DEF Stands
  <2> HIDE DEF more, from, short
  <2>2. Len(page) \in Nat /\ p + Len(page) <= Len(entries)
    BY <2>1 DEF Window
  <2>3. \A i \in 1..Len(more) : more[i] < from <=> i <= p + Len(page)
    <3>1. /\ ~(more[Len(entries) + 1] < from)
          /\ ~(Len(entries) + 1 <= p + Len(page))
      BY <1>1, <2>2
    <3>2. \A i \in 1..Len(entries) : more[i] < from <=> i <= p + Len(page)
      BY <1>1, <2>1
    <3>3. \A i \in 1..Len(more) : i = Len(entries) + 1 \/ i \in 1..Len(entries)
      BY <1>1
    <3> QED BY <3>1, <3>2, <3>3
  <2> QED BY <1>2, <1>4, <2>1, <2>3 DEF Stands, more, from, short
<1>5. CASE who.cursor = "newest"
  BY <1>2, <1>5 DEF Stands
<1> QED BY <1>1, <1>3, <1>4, <1>5

LEMMA OthersStand ==
  ASSUME Standing, LogsGrow, known <= known', known' \in Nat,
         NEW h \in Handlers, handlers'[h] = handlers[h]
  PROVE  StandOf(h)'
<1> DEFINE who  == handlers[h]
           page == who.found.page
           log  == Log(who.room)
<1>1. /\ who \in Handler /\ known \in Nat /\ LastRow \in Nat /\ LastRow' \in Nat
      /\ LastRow <= LastRow' /\ known <= LastRow /\ log \in Seq(Nat) /\ StandOf(h)
  BY TruthBasics, LogFacts DEF Standing, LogsGrow, LogsOK
<1>2. /\ who.from \in Nat /\ who.room \in Nat /\ page \in Seq(Nat)
      /\ HighestIn(who.found) \in Nat
  BY <1>1 DEF Handler, Answer, HighestIn
<1>3. who.from <= known'
  BY <1>1, <1>2 DEF StandOf
<1>4. At(h, "told") => HighestIn(who.found) <= LastRow'
  BY <1>1, <1>2 DEF StandOf
<1>5. ASSUME At(h, "told"), who.found.kind = "page"
      PROVE  Stands(who, page, Log(who.room)')
  <2>1. Stands(who, page, log)
    BY <1>1, <1>5 DEF StandOf
  <2>2. log' = log \/ log' = Append(log, LastRow + 1)
    BY <1>2 DEF LogsGrow
  <2>3. who.from < LastRow + 1 /\ LastRow + 1 \in Nat
    BY <1>1, <1>2 DEF StandOf
  <2>4. Stands(who, page, Append(log, LastRow + 1))
    BY <1>1, <1>2, <2>1, <2>3, StandsOn
  <2> QED BY <2>1, <2>2, <2>4
<1> QED BY <1>3, <1>4, <1>5 DEF StandOf, At, HighestIn

\* h takes a step after which what it knows and holds stands.
StepStands(h) ==
  /\ LogsGrow /\ known <= known' /\ known' <= LastRow'
  /\ StandOf(h)'
  /\ \A k \in Handlers \ {h} : handlers'[k] = handlers[k]

\* An answer without a page.
LEMMA NoPage ==
  ASSUME NEW found, found.page = << >>
  PROVE  HighestIn(found) = found.seq
BY DEF HighestIn

LEMMA StandingBasics ==
  ASSUME Standing
  PROVE  /\ Truth /\ known \in Nat /\ LastRow \in Nat /\ known <= LastRow
         /\ \A room : LatestSeq(room) \in Nat /\ LatestSeq(room) <= LastRow
         /\ \A h \in Handlers : handlers[h] \in Handler /\ handlers[h].from <= known
         /\ rooms' = rooms /\ messages' = messages => LogsGrow /\ LastRow' = LastRow
<1>1. Truth /\ LogsOK /\ known \in Nat /\ known <= LastRow
  BY TruthBasics DEF Standing
<1>2. \A h \in Handlers : handlers[h] \in Handler /\ handlers[h].from <= known
  BY <1>1, TruthBasics DEF Standing, StandOf
<1>3. rooms' = rooms /\ messages' = messages => LogsGrow /\ LastRow' = LastRow
  BY <1>1, TruthBasics, MessagesKept DEF LastRow, LatestSeqs, LatestSeq, Log
<1> QED BY <1>1, <1>2, <1>3, LogFacts

\* A step without an answer.
LEMMA QuietStands ==
  ASSUME Standing, NEW h \in Handlers, NEW next, next.step # "told", next.from <= known,
         handlers' = [handlers EXCEPT ![h] = next],
         rooms' = rooms, messages' = messages, known' = known
  PROVE  StepStands(h)
<1>1. /\ handlers'[h] = next
      /\ \A k \in Handlers \ {h} : handlers'[k] = handlers[k]
  BY TruthBasics DEF Standing
<1> QED BY <1>1, StandingBasics DEF StepStands, StandOf, At

\* A step to an answer that tells a seq there is.
LEMMA ToldStands ==
  ASSUME Standing, NEW h \in Handlers, LogsGrow, known' = known,
         handlers'[h].from <= known, handlers'[h].found.page = << >>,
         handlers'[h].found.kind # "page", handlers'[h].found.seq <= LastRow',
         \A k \in Handlers \ {h} : handlers'[k] = handlers[k]
  PROVE  StepStands(h)
<1>1. HighestIn(handlers'[h].found) <= LastRow'
  BY NoPage
<1>2. known' <= LastRow'
  <2>1. LastRow' \in Nat /\ LastRow <= LastRow'
    BY DEF LogsGrow
  <2> QED BY <2>1, StandingBasics
<1> QED BY <1>1, <1>2, StandingBasics DEF StepStands, StandOf, At, HighestIn

\* What GoTo leaves alone of a handler's record.
LEMMA GoesOn ==
  ASSUME Truth, NEW h \in Handlers, NEW step, NEW found, GoTo(h, step, found)
  PROVE  /\ handlers'[h].step = step /\ handlers'[h].found = found
         /\ handlers'[h].cursor = handlers[h].cursor /\ handlers'[h].from = handlers[h].from
         /\ handlers'[h].limit = handlers[h].limit /\ handlers'[h].room = handlers[h].room
         /\ \A k \in Handlers \ {h} : handlers'[k] = handlers[k]
<1> DEFINE next == [handlers[h] EXCEPT !.step = step, !.found = found]
<1>1. handlers[h] \in Handler /\ handlers \in [Handlers -> Handler]
  BY TruthBasics
<1>2. /\ next.step = step /\ next.found = found /\ next.cursor = handlers[h].cursor
      /\ next.from = handlers[h].from /\ next.limit = handlers[h].limit
      /\ next.room = handlers[h].room
  BY <1>1 DEF Handler
<1>3. handlers' = [handlers EXCEPT ![h] = next]
  BY DEF GoTo
<1> HIDE DEF next
<1>4. handlers'[h] = next /\ \A k \in Handlers \ {h} : handlers'[k] = handlers[k]
  BY <1>1, <1>3
<1> QED BY <1>2, <1>4

LEMMA CreateStands ==
  ASSUME Standing, NEW h \in Handlers, NEW name, Create(h, name)
  PROVE  StepStands(h)
<1> DEFINE next == [Idle EXCEPT !.step = "insert", !.name = name]
<1>1. next.step = "insert" /\ next.from = 0
  BY DEF Idle
<1>2. /\ handlers' = [handlers EXCEPT ![h] = next]
      /\ UNCHANGED <<rooms, messages, known>>
  BY DEF Create
<1> HIDE DEF next
<1>3. next.step # "told" /\ next.from <= known
  BY <1>1, StandingBasics
<1>4. rooms' = rooms /\ messages' = messages /\ known' = known
  BY <1>2
<1> QED BY <1>2, <1>3, <1>4, QuietStands

LEMMA InsertStands ==
  ASSUME Standing, NEW h \in Handlers, Insert(h) \/ InsertNothing(h)
  PROVE  StepStands(h)
<1>1. LogsGrow
  BY StandingBasics, InsertTruly DEF StepsTruly
<1>2. PICK found : GoTo(h, "read", found)
  BY DEF Insert, InsertNothing
<1>3. messages' = messages /\ known' = known
  BY DEF Insert, InsertNothing
<1>4. /\ handlers'[h].step = "read" /\ handlers'[h].from <= known
      /\ \A k \in Handlers \ {h} : handlers'[k] = handlers[k]
  BY <1>2, GoesOn, StandingBasics
<1>5. known' <= LastRow'
  BY <1>1, <1>3, StandingBasics DEF LogsGrow
<1> QED BY <1>1, <1>3, <1>4, <1>5, StandingBasics DEF StepStands, StandOf, At

LEMMA ReadStands ==
  ASSUME Standing, NEW h \in Handlers, Read(h)
  PROVE  StepStands(h)
<1> DEFINE room  == IdOf(handlers[h].name)
           told  == [Nothing EXCEPT !.kind = Outcome(handlers[h].found), !.room = room,
                                    !.seq = LatestSeq(room)]
           full  == [Nothing EXCEPT !.kind = "full"]
           found == IF Taken(handlers[h].name) THEN told ELSE full
<1>1. GoTo(h, "told", found) /\ UNCHANGED <<rooms, messages, known>>
  BY DEF Read
<1>2. /\ told.page = << >> /\ told.kind # "page" /\ told.seq = LatestSeq(room)
      /\ full.page = << >> /\ full.kind # "page" /\ full.seq = 0
  BY DEF Nothing, Outcome
<1> HIDE DEF told, full
<1>3. found.page = << >> /\ found.kind # "page" /\ found.seq <= LastRow
  BY <1>2, StandingBasics
<1> HIDE DEF found
<1>4. /\ handlers'[h].found = found /\ handlers'[h].from <= known
      /\ \A k \in Handlers \ {h} : handlers'[k] = handlers[k]
  BY <1>1, GoesOn, StandingBasics
<1>5. LogsGrow /\ LastRow' = LastRow /\ known' = known
  BY <1>1, StandingBasics
<1>6. /\ handlers'[h].found.page = << >> /\ handlers'[h].found.kind # "page"
      /\ handlers'[h].found.seq <= LastRow'
  BY <1>3, <1>4, <1>5
<1> QED BY <1>4, <1>5, <1>6, ToldStands

LEMMA ListStands ==
  ASSUME Standing, NEW h \in Handlers, ListRooms(h)
  PROVE  StepStands(h)
<1>1. PICK room \in 1..Len(rooms) :
        handlers' = [handlers EXCEPT ![h] =
          [Idle EXCEPT !.step = "told",
                       !.found = [kind |-> "listed", room |-> room,
                                  seq |-> LatestSeq(room), page |-> << >>]]]
  BY DEF ListRooms
<1> DEFINE found == [kind |-> "listed", room |-> room, seq |-> LatestSeq(room), page |-> << >>]
           next  == [Idle EXCEPT !.step = "told", !.found = found]
<1>2. found.page = << >> /\ found.kind # "page" /\ found.seq <= LastRow
  BY StandingBasics
<1>3. handlers' = [handlers EXCEPT ![h] = next] /\ UNCHANGED <<rooms, messages, known>>
  BY <1>1 DEF ListRooms
<1> HIDE DEF found
<1>4. next.found = found /\ next.from = 0
  BY DEF Idle
<1> HIDE DEF next
<1>5. handlers'[h] = next /\ \A k \in Handlers \ {h} : handlers'[k] = handlers[k]
  BY <1>3, StandingBasics, TruthBasics
<1> QED BY <1>2, <1>3, <1>4, <1>5, StandingBasics, ToldStands

LEMMA PostStands ==
  ASSUME Standing, NEW h \in Handlers, NEW room \in 1..(Len(rooms) + 1), Post(h, room)
  PROVE  StepStands(h)
<1>1. PICK found : /\ handlers' = [handlers EXCEPT ![h] =
                        [Idle EXCEPT !.step = "told", !.found = found]]
                   /\ found.page = << >> /\ found.kind # "page"
                   /\ \/ found.seq = 0
                      \/ /\ found.seq = NextSeq(room) /\ room \in 1..Len(rooms)
                         /\ messages' = WithMessage(room)
  <2>1. CASE room \in 1..Len(rooms)
    <3> DEFINE found == [kind |-> "posted", room |-> room, seq |-> NextSeq(room),
                         page |-> << >>]
    <3>1. /\ handlers' = [handlers EXCEPT ![h] =
               [Idle EXCEPT !.step = "told", !.found = found]]
          /\ messages' = WithMessage(room)
      BY <2>1 DEF Post
    <3>2. found.page = << >> /\ found.kind # "page" /\ found.seq = NextSeq(room)
      OBVIOUS
    <3> HIDE DEF found
    <3> QED BY <2>1, <3>1, <3>2
  <2>2. CASE room \notin 1..Len(rooms)
    <3> DEFINE found == [Nothing EXCEPT !.kind = "missing"]
    <3>1. handlers' = [handlers EXCEPT ![h] = [Idle EXCEPT !.step = "told", !.found = found]]
      BY <2>2 DEF Post
    <3>2. found.page = << >> /\ found.kind # "page" /\ found.seq = 0
      BY DEF Nothing
    <3> HIDE DEF found
    <3> QED BY <3>1, <3>2
  <2> QED BY <2>1, <2>2
<1> DEFINE next == [Idle EXCEPT !.step = "told", !.found = found]
<1>2. next.found = found /\ next.from = 0
  BY DEF Idle
<1>3. handlers' = [handlers EXCEPT ![h] = next] /\ UNCHANGED <<rooms, known>>
  BY <1>1 DEF Post
<1> HIDE DEF next
<1>4. handlers'[h] = next /\ \A k \in Handlers \ {h} : handlers'[k] = handlers[k]
  BY <1>3, StandingBasics, TruthBasics
<1>5. LogsGrow
  BY StandingBasics, PostTruly DEF StepsTruly
<1>6. found.seq <= LastRow'
  <2>1. CASE found.seq = 0
    BY <1>5, <2>1 DEF LogsGrow
  <2>2. CASE room \in 1..Len(rooms) /\ messages' = WithMessage(room) /\ found.seq = NextSeq(room)
    <3>1. LastRow' = LastRow + 1 /\ found.seq = LastRow + 1
      BY <1>3, <2>2, StandingBasics, TruthBasics, MessageAdded DEF NextSeq
    <3> QED BY <3>1, StandingBasics
  <2> QED BY <1>1, <2>1, <2>2
<1>7. handlers'[h].from <= known /\ handlers'[h].found = found /\ known' = known
  BY <1>2, <1>3, <1>4, StandingBasics
<1> QED BY <1>1, <1>4, <1>5, <1>6, <1>7, ToldStands

LEMMA AskStands ==
  ASSUME Standing, NEW h \in Handlers, NEW room, NEW cursor, NEW from \in 0..known, NEW limit,
         AskPage(h, room, cursor, from, limit)
  PROVE  StepStands(h)
<1> DEFINE next == [step |-> "exists", name |-> None, cursor |-> cursor, room |-> room,
                    from |-> from, limit |-> limit, found |-> Nothing]
<1>1. next.step = "exists" /\ next.from <= known
  BY StandingBasics
<1>2. handlers' = [handlers EXCEPT ![h] = next] /\ UNCHANGED <<rooms, messages, known>>
  BY DEF AskPage
<1> HIDE DEF next
<1> QED BY <1>1, <1>2, QuietStands

LEMMA ExistsStands ==
  ASSUME Standing, NEW h \in Handlers, Exists(h)
  PROVE  StepStands(h)
<1> DEFINE missing == [Nothing EXCEPT !.kind = "missing"]
<1>1. /\ missing.page = << >> /\ missing.kind # "page" /\ missing.seq = 0
      /\ Nothing.page = << >> /\ Nothing.kind # "page" /\ Nothing.seq = 0
  BY DEF Nothing
<1>2. /\ GoTo(h, "select", Nothing) \/ GoTo(h, "told", missing)
      /\ UNCHANGED <<rooms, messages, known>>
  BY DEF Exists
<1> HIDE DEF missing
<1>3. PICK step, found : /\ GoTo(h, step, found) /\ found.page = << >>
                         /\ found.kind # "page" /\ found.seq = 0
  BY <1>1, <1>2
<1>4. /\ handlers'[h].found = found /\ handlers'[h].from <= known
      /\ \A k \in Handlers \ {h} : handlers'[k] = handlers[k]
  BY <1>3, GoesOn, StandingBasics
<1>5. LogsGrow /\ found.seq <= LastRow'
  BY <1>2, <1>3, StandingBasics
<1> QED BY <1>2, <1>3, <1>4, <1>5, StandingBasics, ToldStands

LEMMA SelectStands ==
  ASSUME Standing, NEW h \in Handlers, Select(h)
  PROVE  StepStands(h)
<1> DEFINE who   == handlers[h]
           page  == Page(who)
           log   == Log(who.room)
           found == [Nothing EXCEPT !.kind = "page", !.room = who.room, !.page = page]
<1>1. GoTo(h, "told", found) /\ UNCHANGED <<rooms, messages, known>>
  BY DEF Select
<1>2. page \in Seq(Nat) /\ Stands(who, page, log)
  BY StandingBasics, TruthBasics, PageStands
<1>3. found.page = page /\ found.seq = 0
  BY DEF Nothing
<1> HIDE DEF found
<1>4. /\ handlers'[h].found = found /\ handlers'[h].cursor = who.cursor
      /\ handlers'[h].from = who.from /\ handlers'[h].limit = who.limit
      /\ handlers'[h].room = who.room
      /\ \A k \in Handlers \ {h} : handlers'[k] = handlers[k]
  BY <1>1, GoesOn, StandingBasics
<1>5. who \in Handler /\ who.cursor \in {"newest", "after", "before"}
  BY StandingBasics DEF Handler, Cursors
<1>6. /\ log \in Seq(Nat)
      /\ \A i \in 1..Len(log) : log[i] <= LastRow
  BY LogFacts, TruthBasics, StandingBasics
<1>7. \E p \in 0..Len(log) : Window(log, p, page)
  BY <1>2, <1>5 DEF Stands
<1> HIDE DEF page, log, who
<1>8. HighestIn(found) <= LastRow
  <2>1. CASE page = << >>
    BY <1>3, <2>1, StandingBasics DEF HighestIn
  <2>2. CASE page # << >>
    <3>1. HighestIn(found) = page[Len(page)] /\ Len(page) \in 1..Len(page)
      BY <1>2, <1>3, <2>2 DEF HighestIn
    <3>2. PICK p \in 0..Len(log) : Window(log, p, page)
      BY <1>7
    <3>3. p + Len(page) \in 1..Len(log) /\ page[Len(page)] = log[p + Len(page)]
      BY <1>6, <3>1, <3>2 DEF Window
    <3> QED BY <1>6, <3>1, <3>3
  <2> QED BY <2>1, <2>2
<1>9. (\A room : Log(room)' = Log(room)) /\ LogsGrow /\ LastRow' = LastRow
  BY <1>1, StandingBasics DEF Log
<1>10. Stands(handlers'[h], page, log)
  BY <1>2, <1>4 DEF Stands
<1>11. Log(handlers[h].room)' = log
  BY <1>1, <1>4 DEF log, who, Log
<1>12. StandOf(h)'
  <2>1. HighestIn(handlers'[h].found) <= LastRow' /\ handlers'[h].from <= known'
    BY <1>1, <1>4, <1>8, <1>9, StandingBasics DEF who
  <2>2. Stands(handlers'[h], handlers'[h].found.page, log)
    BY <1>3, <1>4, <1>10
  <2> QED BY <1>11, <2>1, <2>2 DEF StandOf, HighestIn
<1> QED BY <1>1, <1>4, <1>9, <1>12, StandingBasics DEF StepStands

LEMMA EndStands ==
  ASSUME Standing, NEW h \in Handlers, Reply(h) \/ CutOff(h)
  PROVE  StepStands(h)
<1>1. /\ handlers' = [handlers EXCEPT ![h] = Idle] /\ rooms' = rooms /\ messages' = messages
  BY DEF Reply, CutOff
<1>2. /\ handlers'[h] = Idle /\ \A k \in Handlers \ {h} : handlers'[k] = handlers[k]
      /\ Idle.step = "idle" /\ Idle.from = 0
  BY <1>1, TruthBasics, StandingBasics DEF Idle
<1>3. known <= known' /\ known' <= LastRow /\ known' \in Nat
  <2>1. At(h, "told") => HighestIn(handlers[h].found) <= LastRow
    BY DEF Standing, StandOf
  <2>2. HighestIn(handlers[h].found) \in Nat
    BY StandingBasics DEF Handler, Answer, HighestIn
  <2> QED BY <2>1, <2>2, StandingBasics DEF Reply, CutOff
<1>4. LogsGrow /\ LastRow' = LastRow
  BY <1>1, StandingBasics
<1>5. StandOf(h)'
  BY <1>2, <1>3 DEF StandOf, At
<1> QED BY <1>2, <1>3, <1>4, <1>5 DEF StepStands

LEMMA HandlerStands ==
  ASSUME Standing, Next
  PROVE  (\E h \in Handlers : StepStands(h)) \/ Restart \/ Rebuild
BY CreateStands, InsertStands, ReadStands, ListStands, PostStands, AskStands,
   ExistsStands, SelectStands, EndStands DEF Next

LEMMA StandingNext == Standing /\ [Next]_vars => Standing' \/ Rebuild
<1> SUFFICES ASSUME Standing, [Next]_vars, ~Rebuild PROVE Standing'
  OBVIOUS
<1>1. Truth'
  BY TruthNext DEF Standing
<1>2. known' \in Nat
  BY <1>1 DEF Truth, TypeOK
<1>3. ASSUME NEW h \in Handlers, StepStands(h)
      PROVE  Standing'
  <2>1. \A k \in Handlers : StandOf(k)'
    BY <1>2, <1>3, OthersStand DEF StepStands
  <2> QED BY <1>1, <1>3, <2>1 DEF Standing, StepStands
<1>4. CASE Restart
  <2>1. known' <= LastRow'
    BY <1>4, StandingBasics DEF Restart
  <2>2. ASSUME NEW h \in Handlers PROVE StandOf(h)'
    <3>1. handlers'[h] = Idle
      BY <1>4 DEF Restart
    <3> QED BY <1>2, <3>1 DEF StandOf, Idle, At
  <2> QED BY <1>1, <2>1, <2>2 DEF Standing
<1>5. CASE UNCHANGED vars
  <2>1. /\ UNCHANGED <<rooms, messages, handlers, known>>
        /\ LogsGrow /\ LastRow' = LastRow
    BY <1>5, StandingBasics DEF vars
  <2>2. known <= known' /\ known' <= LastRow'
    BY <2>1, StandingBasics
  <2>3. \A h \in Handlers : StandOf(h)'
    BY <1>2, <2>1, <2>2, OthersStand
  <2> QED BY <1>1, <2>2, <2>3 DEF Standing
<1> QED BY <1>3, <1>4, <1>5, HandlerStands

\* Only a rebuild counts one more.
LEMMA StepsOfRebuilds ==
  ASSUME Truth, [Next]_vars
  PROVE  /\ Rebuild => rebuilds' # 0
         /\ ~Rebuild => rebuilds' = rebuilds
<1>1. rebuilds \in Nat
  BY RoomStoreAssumption DEF Truth, TypeOK
<1>2. CASE Rebuild
  BY <1>1, <1>2 DEF Rebuild
<1>3. ASSUME ~Rebuild PROVE rebuilds' = rebuilds
  BY <1>3 DEF Next, vars, Create, Insert, InsertNothing, Read, ListRooms, Post, AskPage, Exists,
     Select, Reply, CutOff, Restart
<1> QED BY <1>2, <1>3

\* Until the first rebuild; a database that is deleted is never the first again.
Kept == Truth /\ (rebuilds = 0 => Standing)

LEMMA KeptHolds == Spec => []Kept
<1>1. Init => Kept
  <2> SUFFICES ASSUME Init PROVE Truth /\ Standing
    BY DEF Kept
  <2>1. Truth /\ LastRow = 0 /\ known = 0
    BY TruthInit, NoMessagesOK DEF Init
  <2>2. \A h \in Handlers : handlers[h] = Idle
    BY DEF Init
  <2> QED BY <2>1, <2>2 DEF Standing, StandOf, Idle, At
<1>2. Kept /\ [Next]_vars => Kept'
  <2> SUFFICES ASSUME Kept, [Next]_vars PROVE Kept'
    OBVIOUS
  <2>1. Truth'
    BY TruthNext DEF Kept
  <2>2. ASSUME rebuilds' = 0 PROVE Standing'
    <3>1. ~Rebuild /\ rebuilds = 0
      BY <2>2, StepsOfRebuilds DEF Kept
    <3> QED BY <3>1, StandingNext DEF Kept
  <2> QED BY <2>1, <2>2 DEF Kept
<1> QED BY <1>1, <1>2, PTL DEF Spec

\* As long as the database is not deleted, a page stays what it was when it was
\* read: nothing ever lands inside it, nor between it and the seq it was asked
\* from (v1.rs:66, messages.rs:61-130).
THEOREM NothingLandsInside == Spec => []PagesStand
<1>1. Kept => PagesStand
  BY DEF Kept, Standing, StandOf, Stands, PagesStand
<1> QED BY <1>1, KeptHolds, PTL

\* As long as the database is not deleted, a new message comes after every seq
\* that any answer has told anyone, in whatever room (v1.rs:66).
THEOREM SeqsOnlyGrow == Spec => SeqNeverRegresses
<1> DEFINE Later == rebuilds' = 0 =>
                      \A room \in 1..Len(rooms) :
                        Len(Log(room)') > Len(Log(room)) => LatestSeq(room)' > known
<1>1. Kept /\ [Next]_vars => [Later]_vars
  <2> SUFFICES ASSUME Kept, Next, rebuilds' = 0 PROVE Later
    OBVIOUS
  <2>1. ~Rebuild /\ Standing
    BY StepsOfRebuilds DEF Kept
  <2> SUFFICES ASSUME NEW room \in 1..Len(rooms), Len(Log(room)') > Len(Log(room))
               PROVE  LatestSeq(room)' > known
    OBVIOUS
  <2>2. Log(room) \in Seq(Nat) /\ Len(Log(room)) \in Nat
    BY <2>1, StandingBasics, TruthBasics, LogFacts
  <2>3. messages' # messages
    BY <2>2 DEF Log
  <2>4. PICK h \in Handlers, at \in 1..(Len(rooms) + 1) : Post(h, at)
    BY <2>1, <2>3 DEF Next, Create, Insert, InsertNothing, Read, ListRooms, AskPage, Exists,
       Select, Reply, CutOff, Restart
  <2>5. at \in 1..Len(rooms) /\ messages' = WithMessage(at) /\ rooms' = rooms
    BY <2>3, <2>4 DEF Post
  <2>6. /\ LatestSeq(at)' = LastRow + 1
        /\ \A other : other # at => Log(other)' = Log(other)
    BY <2>1, <2>5, StandingBasics, TruthBasics, MessageAdded
  <2>7. room = at
    BY <2>2, <2>6
  <2> QED BY <2>1, <2>6, <2>7, StandingBasics
<1> QED BY <1>1, KeptHolds, PTL DEF Spec, SeqNeverRegresses
=============================================================================
