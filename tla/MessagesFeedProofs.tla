------------------------- MODULE MessagesFeedProofs -------------------------
(***************************************************************************)
(* The watched room never skips, repeats or reorders a message, for every  *)
(* page limit, interval and number of posts.                               *)
(***************************************************************************)
EXTENDS MessagesFeed, MessageLogProofs

-----------------------------------------------------------------------------
(* The feed.                                                               *)

\* PageSize and the server's clamp are at least 1, whatever page_limit is.
LEMMA LimitsPositive == PageSize \in Nat \ {0} /\ ServerLimit \in Nat \ {0}
BY FeedAssumption DEF PageSize, ServerLimit, Clamped, AtMost

LEMMA InitInv == Init => Inv
<1> SUFFICES ASSUME Init PROVE Inv
  OBVIOUS
<1>1. TypeOK
  <2>1. << >> \in Seq(Nat)
    OBVIOUS
  <2> QED BY <2>1, Zenon DEF Init, TypeOK
<1>2. LogInv /\ ClosedInv /\ ~IsOpen
  BY DEF Init, LogInv, ClosedInv, Increasing, IsOpen
<1>3. OpeningInv /\ CursorInv /\ WindowInv /\ FetchInv
  BY <1>2 DEF Init, OpeningInv, CursorInv, WindowInv, FetchInv
<1> QED BY <1>1, <1>2, <1>3 DEF Inv

\* A post leaves the log as it is or puts the new seq, which is newer than
\* all before it, at its end.
LEMMA PostedLog ==
  ASSUME Inv, Post
  PROVE  /\ latest' = latest + 1 /\ latest' \in Nat
         /\ log' \in Seq(Nat)
         /\ log' = log \/ log' = Append(log, latest')
<1>1. latest \in Nat /\ log \in Seq(Nat)
  BY DEF Inv, TypeOK
<1>2. latest' = latest + 1 /\ (log' = log \/ log' = Append(log, latest + 1))
  BY DEF Post
<1> QED BY <1>1, <1>2

\* Where a feed that was just opened stands: its first page is what the log
\* holds behind its base, and the cursor is at the end of that page.
LEMMA OpenedAt ==
  ASSUME Inv, Opened
  PROVE  /\ reply \in Seq(Nat) /\ cursor' \in Nat /\ cursor' <= latest
         /\ base' \in Nat
         /\ Window(log, base', reply)
         /\ since # None => Splits(log, since, base') /\ since <= latest
         /\ Splits(log, cursor', base' + Len(reply))
<1> DEFINE from == IF since = None THEN 0 ELSE since
<1>1. /\ reply \in Seq(Nat) /\ log \in Seq(Nat) /\ Increasing(log) /\ latest \in Nat
      /\ from \in Nat /\ from <= latest
      /\ since # None => since <= latest
  BY DEF Inv, TypeOK, Opened, LogInv, OpeningInv
<1>2. PICK p \in 0..Len(log) :
        /\ Window(log, p, reply)
        /\ since # None => Splits(log, since, p)
        /\ since = None /\ reply = << >> => p = 0
  BY DEF Inv, OpeningInv, Opened
<1>3. /\ cursor' = LastSeq(reply, from)
      /\ base' = IF reply = << >> THEN Position(log, from)
                                 ELSE Position(log, reply[1]) - 1
  BY DEF Opened
<1>4. CASE reply = << >>
  <2>1. Splits(log, from, p)
    <3>1. CASE since = None
      BY <1>1, <1>2, <1>4, <3>1 DEF Splits, Inv, LogInv
    <3>2. CASE since # None
      BY <1>2, <3>2
    <3> QED BY <3>1, <3>2
  <2>2. base' = p
    BY <1>1, <1>3, <1>4, <2>1, PositionIsSplit
  <2>3. cursor' = from /\ Len(reply) = 0
    BY <1>3, <1>4 DEF LastSeq
  <2> HIDE DEF from
  <2> QED BY <1>1, <1>2, <2>1, <2>2, <2>3
<1>5. CASE reply # << >>
  <2>1. Len(reply) \in Nat \ {0}
    BY <1>1, <1>5
  <2>2. reply[1] = log[p + 1] /\ reply[Len(reply)] = log[p + Len(reply)]
        /\ p + Len(reply) <= Len(log)
    BY <1>2, <2>1 DEF Window
  <2>3. Splits(log, log[p + 1], p + 1)
    BY <1>1, <1>2, <2>1, <2>2, SplitAtMessage
  <2>4. Splits(log, log[p + Len(reply)], p + Len(reply))
    BY <1>1, <1>2, <2>1, <2>2, SplitAtMessage
  <2>5. log[p + 1] \in Nat /\ log[p + Len(reply)] \in Nat
        /\ log[p + Len(reply)] <= latest
    <3>1. p + 1 \in 1..Len(log) /\ p + Len(reply) \in 1..Len(log)
      BY <1>1, <1>2, <2>1, <2>2
    <3>2. \A i \in 1..Len(log) : log[i] \in Nat /\ log[i] <= latest
      BY <1>1 DEF Inv, LogInv
    <3> QED BY <3>1, <3>2
  <2>6. Position(log, reply[1]) = p + 1
    BY <1>1, <2>2, <2>3, <2>5, PositionIsSplit
  <2>7. base' = p /\ cursor' = log[p + Len(reply)]
    BY <1>2, <1>3, <1>5, <2>2, <2>6 DEF LastSeq
  <2> QED BY <1>1, <1>2, <2>4, <2>5, <2>7
<1> QED BY <1>4, <1>5

\* Every step keeps the types.
LEMMA TypeStep == Inv /\ [Next]_vars => TypeOK'
<1> SUFFICES ASSUME Inv, [Next]_vars PROVE TypeOK'
  OBVIOUS
<1> USE FeedAssumption DEF Inv, TypeOK
<1>1. CASE Post
  <2>1. latest' \in Nat /\ log' \in Seq(Nat)
    BY <1>1, PostedLog
  <2> QED BY <1>1, <2>1 DEF Post, feed
<1>2. CASE Answer
  <2>1. Page \in Seq(Nat)
    <3>1. CASE pc = "opening" /\ since = None
      BY <3>1, NewestIsWindow, LimitsPositive DEF Page
    <3>2. CASE pc = "opening" /\ since # None
      BY <3>2, AfterIsWindow, PositionSplits, LimitsPositive DEF Page, LogInv
    <3>3. CASE pc # "opening"
      BY <3>3, AfterIsWindow, PositionSplits, LimitsPositive DEF Page, LogInv
    <3> QED BY <3>1, <3>2, <3>3
  <2> QED BY <1>2, <2>1 DEF Answer, server, feed
<1>3. ASSUME NEW s \in {None} \cup 0..MaxSeq, Watch(s) PROVE TypeOK'
  BY <1>3 DEF Watch, server, feed
<1>4. CASE Opened
  <2>1. reply \in Seq(Nat) /\ cursor' \in Nat /\ base' \in Nat
    BY <1>4, OpenedAt
  <2> QED BY <1>4, <2>1 DEF Opened, server, FullPage
<1>5. CASE WatchFailed
  BY <1>5 DEF WatchFailed, server, feed
<1>6. CASE TakeHolding
  BY <1>6 DEF TakeHolding, server
<1>7. CASE CallNext
  BY <1>7 DEF CallNext, server, NextDue
<1>8. CASE Tick
  BY <1>8 DEF Tick, server
<1>9. CASE Wake
  BY <1>9 DEF Wake, server, feed
<1>10. CASE Batch
  BY <1>10 DEF Batch, server, LastSeq, FullPage
<1>11. CASE NothingNew
  BY <1>11 DEF NothingNew, server, NextDue, FullPage
<1>12. CASE FetchFailed
  BY <1>12 DEF FetchFailed, server
<1>13. CASE DropNext
  BY <1>13 DEF DropNext, server, feed
<1>14. CASE UNCHANGED vars
  BY <1>14 DEF vars
<1> QED
  BY <1>1, <1>2, <1>3, <1>4, <1>5, <1>6, <1>7, <1>8, <1>9, <1>10, <1>11,
     <1>12, <1>13, <1>14 DEF Next

\* A step that leaves the log and the fields the invariant reads alone.
LEMMA QuietStep ==
  ASSUME Inv, TypeOK',
         UNCHANGED <<latest, log, since, cursor, holding, delivered, base>>,
         IsOpen' <=> IsOpen,
         pc' = "opening" => pc = "opening" /\ reply' = reply,
         pc' \in {"waiting", "fetching"} => holding = << >>,
         pc' # "opening" => reply' = None
  PROVE  Inv'
<1>1. LogInv' /\ ClosedInv'
  BY DEF Inv, LogInv, ClosedInv
<1>2. OpeningInv'
  BY DEF Inv, OpeningInv
<1>3. CursorInv' /\ WindowInv'
  BY DEF Inv, CursorInv, WindowInv, Taken
<1>4. FetchInv'
  BY DEF FetchInv
<1> QED BY <1>1, <1>2, <1>3, <1>4 DEF Inv

\* A post moves nothing the feed has: windows and cursors stay where they are.
LEMMA PostStep ==
  ASSUME Inv, TypeOK', Post
  PROVE  Inv'
<1>1. UNCHANGED <<pc, since, reply, cursor, holding, delivered, base>>
  BY DEF Post, feed
<1>2. /\ log \in Seq(Nat) /\ latest \in Nat /\ latest' = latest + 1
      /\ log' \in Seq(Nat)
      /\ log' = log \/ log' = Append(log, latest')
  BY PostedLog DEF Inv, TypeOK
<1>3. LogInv'
  <2>1. \A i \in 1..Len(log) : log[i] \in Nat /\ 1 <= log[i] /\ log[i] <= latest
    BY <1>2 DEF Inv, LogInv
  <2>2. CASE log' = log
    BY <1>2, <2>1, <2>2 DEF Inv, LogInv
  <2>3. CASE log' = Append(log, latest')
    BY <1>2, <2>1, <2>3 DEF Inv, LogInv, Increasing
  <2> QED BY <1>2, <2>2, <2>3
<1>4. \A p \in Nat, page \in Seq(Nat) : Window(log, p, page) => Window(log', p, page)
  <2>1. CASE log' = log
    BY <2>1
  <2>2. CASE log' = Append(log, latest')
    BY <1>2, <2>2, WindowGrows
  <2> QED BY <1>2, <2>1, <2>2
<1>5. \A c \in Nat : \A p : c <= latest /\ Splits(log, c, p) => Splits(log', c, p)
  <2>1. CASE log' = log
    BY <2>1
  <2>2. CASE log' = Append(log, latest')
    <3>1. latest' \in Nat /\ \A c \in Nat : c <= latest => c < latest'
      BY <1>2
    <3> QED BY <1>2, <2>2, <3>1, SplitGrows
  <2> QED BY <1>2, <2>1, <2>2
<1>6. OpeningInv'
  <2> SUFFICES ASSUME pc = "opening"
               PROVE  OpeningInv'
    BY <1>1 DEF OpeningInv
  <2>1. since # None => since <= latest /\ since \in Nat /\ since <= latest'
    BY <1>2 DEF Inv, OpeningInv, TypeOK
  <2>2. CASE reply = None
    BY <1>1, <2>1, <2>2 DEF OpeningInv
  <2>3. CASE reply # None
    <3>1. PICK p \in 0..Len(log) :
            /\ Window(log, p, reply)
            /\ since # None => Splits(log, since, p)
            /\ since = None /\ reply = << >> => p = 0
      BY <2>3 DEF Inv, OpeningInv
    <3>2. reply \in Seq(Nat)
      BY <2>3 DEF Inv, TypeOK
    <3>3. p \in 0..Len(log')
      BY <1>2
    <3>4. Window(log', p, reply) /\ (since # None => Splits(log', since, p))
      BY <1>4, <1>5, <2>1, <3>1, <3>2
    <3> QED BY <1>1, <2>1, <3>1, <3>3, <3>4 DEF OpeningInv
  <2> QED BY <2>2, <2>3
<1>7. CursorInv'
  <2> SUFFICES ASSUME IsOpen PROVE CursorInv'
    BY <1>1 DEF CursorInv, IsOpen
  <2>1. Splits(log, cursor, Taken) /\ cursor <= latest /\ cursor \in Nat /\ base \in Nat
    BY DEF Inv, CursorInv, TypeOK
  <2>2. Taken' = Taken
    BY <1>1 DEF Taken
  <2> QED BY <1>1, <1>2, <1>5, <2>1, <2>2 DEF CursorInv
<1>8. WindowInv'
  <2> SUFFICES ASSUME IsOpen PROVE WindowInv'
    BY <1>1 DEF WindowInv, IsOpen
  <2>1. /\ base \in Nat /\ delivered \in Seq(Nat) /\ holding \in Seq(Nat)
        /\ base + Len(delivered) \in Nat
    BY DEF Inv, CursorInv, TypeOK
  <2>2. Window(log', base, delivered) /\ Window(log', base + Len(delivered), holding)
    BY <1>4, <2>1 DEF Inv, WindowInv
  <2>3. since # None => Splits(log', since, base) /\ since <= latest'
    BY <1>2, <1>5 DEF Inv, WindowInv, TypeOK
  <2> QED BY <1>1, <2>2, <2>3 DEF WindowInv
<1>9. FetchInv'
  <2>1. pc = "fetching" /\ reply # None => Window(log', base + Len(delivered), reply)
    BY <1>4 DEF Inv, FetchInv, CursorInv, IsOpen, TypeOK
  <2> QED BY <1>1, <2>1 DEF Inv, FetchInv
<1>10. ClosedInv'
  BY <1>1 DEF Inv, ClosedInv, IsOpen
<1> QED BY <1>3, <1>6, <1>7, <1>8, <1>9, <1>10 DEF Inv

\* The server's page is what the log holds behind the request's cursor.
LEMMA AnswerStep ==
  ASSUME Inv, TypeOK', Answer
  PROVE  Inv'
<1>1. UNCHANGED <<latest, log, pc, since, cursor, holding, delivered, base>>
  BY DEF Answer, server, feed
<1>2. log \in Seq(Nat) /\ Increasing(log) /\ reply' = Page /\ ServerLimit \in Nat \ {0}
  BY LimitsPositive DEF Inv, TypeOK, LogInv, Answer
<1>3. OpeningInv'
  <2> SUFFICES ASSUME pc = "opening" PROVE OpeningInv'
    BY <1>1 DEF OpeningInv
  <2>1. CASE since = None
    <3> DEFINE p == Len(log) - Len(reply')
    <3>1. reply' = Newest(log, ServerLimit)
      BY <1>2, <2>1 DEF Page
    <3>2. /\ reply' \in Seq(Nat)
          /\ Window(log, p, reply')
          /\ Len(reply') = AtMost(ServerLimit, Len(log))
      BY <1>2, <3>1, NewestIsWindow
    <3>3. p \in 0..Len(log) /\ (reply' = << >> => p = 0)
      BY <1>2, <3>2 DEF AtMost
    <3> HIDE DEF p
    <3> QED BY <1>1, <2>1, <3>2, <3>3 DEF OpeningInv
  <2>2. CASE since # None
    <3> DEFINE p == Position(log, since)
    <3>1. since \in Nat /\ since <= latest
      BY <2>2 DEF Inv, OpeningInv, TypeOK
    <3>2. Splits(log, since, p)
      BY <1>2, <3>1, PositionSplits
    <3>3. reply' = After(log, since, ServerLimit)
      BY <1>2, <2>2 DEF Page
    <3> HIDE DEF p
    <3>4. Window(log, p, reply') /\ p \in 0..Len(log)
      BY <1>2, <3>1, <3>2, <3>3, AfterIsWindow DEF Splits
    <3> QED BY <1>1, <2>2, <3>1, <3>2, <3>4 DEF OpeningInv
  <2> QED BY <2>1, <2>2
<1>4. FetchInv'
  <2>1. CASE pc = "opening"
    BY <1>1, <2>1 DEF FetchInv
  <2>2. CASE pc = "fetching"
    <3>1. /\ holding = << >> /\ cursor \in Nat /\ Splits(log, cursor, Taken)
          /\ base \in Nat /\ delivered \in Seq(Nat)
      BY <2>2 DEF Inv, FetchInv, CursorInv, IsOpen, TypeOK
    <3>2. Taken = base + Len(delivered)
      BY <3>1 DEF Taken
    <3>3. reply' = After(log, cursor, ServerLimit)
      BY <1>2, <2>2 DEF Page
    <3>4. Window(log, base + Len(delivered), reply')
      BY <1>2, <3>1, <3>2, <3>3, AfterIsWindow
    <3> QED BY <1>1, <2>2, <3>1, <3>4 DEF FetchInv
  <2> QED BY <2>1, <2>2 DEF Answer
<1>5. LogInv' /\ ClosedInv' /\ CursorInv' /\ WindowInv'
  BY <1>1 DEF Inv, LogInv, ClosedInv, CursorInv, WindowInv, IsOpen, Taken
<1> QED BY <1>3, <1>4, <1>5 DEF Inv

\* Opening puts the first page in hand and the cursor at its end.
LEMMA OpenedStep ==
  ASSUME Inv, TypeOK', Opened
  PROVE  Inv'
<1>1. /\ pc = "opening" /\ pc' = "idle" /\ reply' = None /\ holding' = reply
      /\ UNCHANGED <<latest, log, since, delivered>>
  BY DEF Opened, server
<1>2. delivered = << >> /\ Len(delivered) = 0
  BY <1>1 DEF Inv, ClosedInv, IsOpen
<1>3. IsOpen' /\ Taken' = base' + Len(reply) /\ base' + Len(delivered') = base'
      /\ base' \in Nat
  BY <1>1, <1>2, OpenedAt DEF IsOpen, Taken
<1>4. CursorInv'
  BY <1>1, <1>3, OpenedAt DEF CursorInv
<1>5. WindowInv'
  <2>1. Window(log, base', << >>)
    BY OpenedAt DEF Window
  <2> QED BY <1>1, <1>2, <1>3, <2>1, OpenedAt DEF WindowInv
<1>6. LogInv' /\ ClosedInv' /\ OpeningInv' /\ FetchInv'
  BY <1>1, <1>3 DEF Inv, LogInv, ClosedInv, OpeningInv, FetchInv
<1> QED BY <1>4, <1>5, <1>6 DEF Inv

\* The page in hand is handed over: it moves from one window to the other.
LEMMA TakeHoldingStep ==
  ASSUME Inv, TypeOK', TakeHolding
  PROVE  Inv'
<1>1. /\ pc = "idle" /\ pc' = "idle" /\ reply' = reply /\ holding' = << >>
      /\ delivered' = delivered \o holding
      /\ UNCHANGED <<latest, log, since, base, cursor>>
  BY DEF TakeHolding, server
<1>2. /\ IsOpen /\ IsOpen' /\ base \in Nat /\ delivered \in Seq(Nat)
      /\ holding \in Seq(Nat) /\ log \in Seq(Nat)
  BY <1>1 DEF Inv, IsOpen, CursorInv, TypeOK
<1>3. Len(delivered') = Len(delivered) + Len(holding) /\ Len(holding') = 0
  BY <1>1, <1>2
<1>4. CursorInv'
  BY <1>1, <1>2, <1>3 DEF Inv, CursorInv, Taken
<1>5. WindowInv'
  <2>1. Window(log, base, delivered \o holding)
    BY <1>2, WindowConcat DEF Inv, WindowInv
  <2>2. Window(log, base + Len(delivered'), << >>)
    BY <1>1, <1>2, <1>3, <2>1 DEF Window
  <2> QED BY <1>1, <1>2, <2>1, <2>2 DEF Inv, WindowInv
<1>6. LogInv' /\ ClosedInv' /\ OpeningInv' /\ FetchInv'
  BY <1>1, <1>2 DEF Inv, LogInv, ClosedInv, OpeningInv, FetchInv
<1> QED BY <1>4, <1>5, <1>6 DEF Inv

\* A batch goes straight to the caller and takes the cursor to its end.
LEMMA BatchStep ==
  ASSUME Inv, TypeOK', Batch
  PROVE  Inv'
<1>1. /\ pc = "fetching" /\ pc' = "idle" /\ reply' = None /\ reply # None
      /\ reply # << >> /\ cursor' = reply[Len(reply)]
      /\ delivered' = delivered \o reply
      /\ UNCHANGED <<latest, log, since, base, holding>>
  BY DEF Batch, server, LastSeq
<1>2. /\ IsOpen /\ IsOpen' /\ base \in Nat /\ delivered \in Seq(Nat)
      /\ reply \in Seq(Nat) /\ log \in Seq(Nat) /\ Increasing(log) /\ holding = << >>
  BY <1>1 DEF Inv, IsOpen, CursorInv, TypeOK, FetchInv, LogInv
<1>3. /\ Len(delivered') = Len(delivered) + Len(reply) /\ Len(holding') = 0
      /\ Len(reply) \in Nat \ {0} /\ Len(delivered) \in Nat
  BY <1>1, <1>2
<1>4. /\ Window(log, base, delivered)
      /\ Window(log, base + Len(delivered), reply)
      /\ since # None => Splits(log, since, base) /\ since <= latest
  BY <1>1, <1>2 DEF Inv, WindowInv, FetchInv
<1>5. Window(log, base, delivered')
  BY <1>1, <1>2, <1>4, WindowConcat
<1>6. CursorInv'
  <2> DEFINE n == base + Len(delivered) + Len(reply)
  <2>1. n \in 1..Len(log) /\ cursor' = log[n]
    BY <1>1, <1>2, <1>3, <1>4 DEF Window
  <2>2. Splits(log, log[n], n) /\ log[n] <= latest
    BY <1>2, <2>1, SplitAtMessage DEF Inv, LogInv
  <2>3. Taken' = n
    BY <1>1, <1>2, <1>3 DEF Taken
  <2> HIDE DEF n
  <2> QED BY <1>1, <1>2, <2>1, <2>2, <2>3 DEF CursorInv
<1>7. WindowInv'
  <2>1. Window(log, base + Len(delivered'), << >>)
    BY <1>1, <1>2, <1>3, <1>5 DEF Window
  <2> QED BY <1>1, <1>2, <1>4, <1>5, <2>1 DEF WindowInv
<1>8. LogInv' /\ ClosedInv' /\ OpeningInv' /\ FetchInv'
  BY <1>1, <1>2 DEF Inv, LogInv, ClosedInv, OpeningInv, FetchInv
<1> QED BY <1>6, <1>7, <1>8 DEF Inv

\* Every step keeps the invariant.
LEMMA InvStep == Inv /\ [Next]_vars => Inv'
<1> SUFFICES ASSUME Inv, [Next]_vars PROVE Inv'
  OBVIOUS
<1>0. TypeOK'
  BY TypeStep
<1>1. CASE Post
  BY <1>0, <1>1, PostStep
<1>2. CASE Answer
  BY <1>0, <1>2, AnswerStep
<1>3. ASSUME NEW s \in {None} \cup 0..MaxSeq, Watch(s) PROVE Inv'
  <2>1. /\ pc = "closed" /\ pc' = "opening" /\ since' = s /\ reply' = None
        /\ s # None => s <= latest
        /\ UNCHANGED <<latest, log, cursor, holding, delivered, base>>
    BY <1>3 DEF Watch, server, feed, Inv, FetchInv
  <2>2. LogInv' /\ ClosedInv' /\ OpeningInv' /\ CursorInv' /\ WindowInv' /\ FetchInv'
    BY <2>1 DEF Inv, LogInv, ClosedInv, OpeningInv, CursorInv, WindowInv, FetchInv, IsOpen
  <2> QED BY <1>0, <2>2 DEF Inv
<1>4. CASE Opened
  BY <1>0, <1>4, OpenedStep
<1>5. CASE WatchFailed
  BY <1>0, <1>5, QuietStep DEF WatchFailed, server, feed, IsOpen
<1>6. CASE TakeHolding
  BY <1>0, <1>6, TakeHoldingStep
<1>7. CASE CallNext
  BY <1>0, <1>7, QuietStep DEF CallNext, server, IsOpen, Inv, FetchInv
<1>8. CASE Tick
  <2>1. UNCHANGED <<latest, log, pc, since, reply, cursor, holding, delivered, base>>
    BY <1>8 DEF Tick, server
  <2> QED BY <1>0, <2>1 DEF Inv, LogInv, ClosedInv, OpeningInv, CursorInv,
                           WindowInv, FetchInv, IsOpen, Taken
<1>9. CASE Wake
  BY <1>0, <1>9, QuietStep DEF Wake, server, feed, IsOpen, Inv, FetchInv
<1>10. CASE Batch
  BY <1>0, <1>10, BatchStep
<1>11. CASE NothingNew
  BY <1>0, <1>11, QuietStep DEF NothingNew, server, IsOpen, Inv, FetchInv
<1>12. CASE FetchFailed
  BY <1>0, <1>12, QuietStep DEF FetchFailed, server, IsOpen
<1>13. CASE DropNext
  BY <1>0, <1>13, QuietStep DEF DropNext, server, feed, IsOpen
<1>14. CASE UNCHANGED vars
  BY <1>0, <1>14 DEF vars, Inv, LogInv, ClosedInv, OpeningInv, CursorInv,
                     WindowInv, FetchInv, IsOpen, Taken
<1> QED
  BY <1>1, <1>2, <1>3, <1>4, <1>5, <1>6, <1>7, <1>8, <1>9, <1>10, <1>11,
     <1>12, <1>13, <1>14 DEF Next

LEMMA Invariance == Spec => []Inv
BY InitInv, InvStep, PTL DEF Spec

\* The variables keep their types, for every limit, interval and bound.
THEOREM TypeCorrect == Spec => []TypeOK
<1>1. Inv => TypeOK
  BY DEF Inv
<1> QED BY <1>1, Invariance, PTL

\* The cursor is always exactly where the feed stands: no post, failed fetch
\* or dropped future ever makes it skip or repeat a message.
THEOREM CursorIsExact == Spec => []CursorCovers
<1>1. Inv => CursorCovers
  BY DEF Inv, CursorInv, CursorCovers, Splits
<1> QED BY <1>1, Invariance, PTL

\* A feed opened after a seq starts with the first message after it.
THEOREM ResumesExactly == Spec => []ResumesAfter
<1>1. Inv => ResumesAfter
  BY DEF Inv, WindowInv, ResumesAfter, Splits
<1> QED BY <1>1, Invariance, PTL

-----------------------------------------------------------------------------
(* The feed implements OrderedDelivery. *)

\* Handing a window over is a delivery of the abstract specification.
LEMMA WindowIsDelivery ==
  ASSUME Inv, IsOpen, NEW page \in Seq(Nat), page # << >>,
         Window(log, base + Len(delivered), page),
         delivered' = delivered \o page, UNCHANGED <<log, base>>
  PROVE  Abstract!Deliver
<1> DEFINE m == base + Len(delivered)
<1>1. /\ log \in Seq(Nat) /\ m \in Nat /\ base # None /\ Len(page) \in Nat \ {0}
      /\ m + Len(page) <= Len(log)
  <2>1. log \in Seq(Nat) /\ delivered \in Seq(Nat) /\ base \in Nat
    BY FeedAssumption DEF Inv, TypeOK, CursorInv
  <2>2. base # None
    BY <2>1, FeedAssumption
  <2>3. Len(page) \in Nat \ {0} /\ m \in Nat
    BY <2>1
  <2>4. m + Len(page) <= Len(log)
    BY DEF Window
  <2> QED BY <2>1, <2>2, <2>3, <2>4
<1>2. page = SubSeq(log, m + 1, m + Len(page))
  BY <1>1, WindowIsSubSeq
<1>3. m + Len(page) \in (m + 1)..Len(log)
  BY <1>1
<1> QED BY <1>1, <1>2, <1>3 DEF Abstract!Deliver

\* Every step of the feed is a step of the abstract specification, or none.
LEMMA StepSimulation ==
  ASSUME Inv, Inv', [Next]_vars
  PROVE  [Abstract!Next]_(Abstract!vars)
<1> USE DEF Abstract!vars
<1>1. CASE Post
  <2>1. UNCHANGED <<base, delivered>>
    BY <1>1 DEF Post
  <2>2. log \in Seq(Nat) /\ latest \in Nat /\ latest' = latest + 1
    BY <1>1, PostedLog DEF Inv, TypeOK
  <2>3. CASE log' = log
    BY <2>1, <2>3
  <2>4. CASE log' = Append(log, latest')
    <3>1. \A i \in 1..Len(log) : log[i] \in Nat /\ log[i] <= latest
      BY <2>2 DEF Inv, LogInv
    <3>2. /\ Len(log') = Len(log) + 1
          /\ log = SubSeq(log', 1, Len(log))
          /\ log'[Len(log')] = latest'
      BY <2>2, <2>4
    <3>3. Abstract!Extend
      BY <2>1, <2>2, <3>1, <3>2 DEF Abstract!Extend
    <3> QED BY <3>3 DEF Abstract!Next
  <2> QED BY <1>1, <2>3, <2>4, PostedLog
<1>2. CASE Opened
  <2>1. base = None
    BY <1>2 DEF Opened, Inv, ClosedInv, IsOpen
  <2>2. base' \in 0..Len(log) /\ UNCHANGED <<log, delivered>>
    BY <1>2, OpenedAt DEF Opened, server, Inv, TypeOK, Window
  <2> QED BY <2>1, <2>2 DEF Abstract!Next, Abstract!Start
<1>3. CASE TakeHolding
  <2>1. /\ IsOpen /\ holding \in Seq(Nat) /\ holding # << >>
        /\ delivered' = delivered \o holding /\ UNCHANGED <<log, base>>
        /\ Window(log, base + Len(delivered), holding)
    BY <1>3 DEF TakeHolding, server, IsOpen, Inv, TypeOK, WindowInv
  <2> QED BY <2>1, WindowIsDelivery DEF Abstract!Next
<1>4. CASE Batch
  <2>1. /\ IsOpen /\ reply \in Seq(Nat) /\ reply # << >>
        /\ delivered' = delivered \o reply /\ UNCHANGED <<log, base>>
        /\ Window(log, base + Len(delivered), reply)
    BY <1>4 DEF Batch, server, IsOpen, Inv, TypeOK, FetchInv
  <2> QED BY <2>1, WindowIsDelivery DEF Abstract!Next
<1>5. CASE Answer
  BY <1>5 DEF Answer, server
<1>6. ASSUME NEW s \in {None} \cup 0..MaxSeq, Watch(s)
      PROVE  UNCHANGED <<log, base, delivered>>
  BY <1>6 DEF Watch, server
<1>7. CASE WatchFailed \/ CallNext \/ Tick \/ Wake
  BY <1>7 DEF WatchFailed, CallNext, Tick, Wake, server
<1>8. CASE NothingNew \/ FetchFailed \/ DropNext \/ UNCHANGED vars
  BY <1>8 DEF NothingNew, FetchFailed, DropNext, server, vars
<1> QED
  BY <1>1, <1>2, <1>3, <1>4, <1>5, <1>6, <1>7, <1>8 DEF Next

\* A caller of `next` is handed the room's messages in order, each once, none
\* skipped, from where the feed was opened on: the feed implements
\* OrderedDelivery, whatever posts, failures and drops come in between.
THEOREM FeedDeliversInOrder == Spec => DeliversInOrder
<1>1. Init => Abstract!Init
  BY DEF Init, Abstract!Init
<1>2. Inv /\ Inv' /\ [Next]_vars => [Abstract!Next]_(Abstract!vars)
  BY StepSimulation
<1> QED BY <1>1, <1>2, Invariance, PTL DEF Spec, DeliversInOrder, Abstract!Spec

-----------------------------------------------------------------------------
(* A short page is the end, when the server serves pages as long as asked. *)

\* Every step keeps SeenInv when page_limit is within the server's clamp.
LEMMA SeenStep ==
  ASSUME PageLimit <= MaxLimit, Inv, SeenInv, [Next]_vars
  PROVE  SeenInv'
<1>0. /\ log \in Seq(Nat) /\ seen \in Nat /\ cursor \in Nat /\ seen <= Len(log)
      /\ PageSize = ServerLimit /\ ServerLimit \in Nat \ {0}
  BY FeedAssumption, LimitsPositive
     DEF Inv, TypeOK, SeenInv, PageSize, ServerLimit, Clamped, AtMost
<1>1. CASE Post
  <2>1. UNCHANGED <<pc, since, reply, cursor, catching_up, due, seen>>
    BY <1>1 DEF Post, feed
  <2>2. seen <= Len(log') /\ \A i \in 1..seen : log'[i] = log[i]
    <3>1. CASE log' = log
      BY <1>0, <3>1
    <3>2. CASE log' = Append(log, latest')
      BY <1>0, <1>1, <3>2, PostedLog
    <3> QED BY <1>1, <3>1, <3>2, PostedLog
  <2> QED BY <2>1, <2>2 DEF SeenInv
<1>2. CASE Answer
  <2>1. /\ pc \in {"opening", "fetching"} /\ reply' = Page /\ seen' = Len(log)
        /\ UNCHANGED <<log, pc, since, cursor, catching_up, due>>
    BY <1>2 DEF Answer, server, feed
  <2>2. CASE pc = "opening" /\ since = None
    <3>1. reply' = Newest(log, ServerLimit)
      BY <2>1, <2>2 DEF Page
    <3>2. /\ reply' \in Seq(Nat)
          /\ Window(log, Len(log) - Len(reply'), reply')
          /\ Len(reply') = AtMost(ServerLimit, Len(log))
      BY <1>0, <3>1, NewestIsWindow
    <3>3. \A i \in 1..Len(log) : log[i] <= LastSeq(reply', 0)
      <4>1. CASE reply' = << >>
        BY <1>0, <3>2, <4>1 DEF AtMost
      <4>2. CASE reply' # << >>
        <5>1. Len(reply') \in Nat \ {0} /\ Len(log) \in Nat
          BY <1>0, <3>2, <4>2
        <5>2. reply'[Len(reply')] = log[(Len(log) - Len(reply')) + Len(reply')]
          BY <3>2, <5>1 DEF Window
        <5>3. (Len(log) - Len(reply')) + Len(reply') = Len(log) /\ Len(log) > 0
          BY <3>2, <5>1 DEF AtMost
        <5>4. LastSeq(reply', 0) = log[Len(log)]
          BY <4>2, <5>2, <5>3 DEF LastSeq
        <5> QED BY <1>0, <5>3, <5>4 DEF Inv, LogInv, Increasing
      <4> QED BY <4>1, <4>2
    <3> QED BY <1>0, <2>1, <2>2, <3>3 DEF SeenInv
  <2>3. ASSUME NEW c \in Nat, reply' = After(log, c, ServerLimit),
               Len(reply') # ServerLimit
        PROVE  \A i \in 1..Len(log) : log[i] <= LastSeq(reply', c)
    <3>1. PICK p \in 0..Len(log) : Splits(log, c, p)
      BY <1>0, SplitExists DEF Inv, LogInv
    <3>2. /\ reply' \in Seq(Nat)
          /\ Window(log, p, reply')
          /\ Len(reply') = AtMost(ServerLimit, Len(log) - p)
      BY <1>0, <2>3, <3>1, AfterIsWindow
    <3>3. Len(reply') = Len(log) - p
      BY <1>0, <2>3, <3>2 DEF AtMost
    <3>4. CASE reply' = << >>
      BY <1>0, <3>1, <3>3, <3>4 DEF LastSeq, Splits
    <3>5. CASE reply' # << >>
      <4>1. Len(reply') \in Nat \ {0}
        BY <3>2, <3>5
      <4>2. LastSeq(reply', c) = log[Len(log)]
        <5>1. Len(reply') \in 1..Len(reply') /\ p + Len(reply') = Len(log)
          BY <1>0, <3>3, <4>1
        <5>2. reply'[Len(reply')] = log[p + Len(reply')]
          BY <3>2, <5>1 DEF Window
        <5> QED BY <3>5, <5>1, <5>2 DEF LastSeq
      <4> QED BY <1>0, <3>3, <4>1, <4>2 DEF Inv, LogInv, Increasing
    <3> QED BY <3>4, <3>5
  <2>4. CASE pc = "opening" /\ since # None
    <3>1. since \in Nat /\ reply' = After(log, since, ServerLimit)
      BY <2>1, <2>4 DEF Page, Inv, TypeOK
    <3> QED BY <1>0, <2>1, <2>3, <2>4, <3>1 DEF SeenInv
  <2>5. CASE pc = "fetching"
    <3>1. reply' = After(log, cursor, ServerLimit)
      BY <2>1, <2>5 DEF Page
    <3> QED BY <1>0, <2>1, <2>3, <2>5, <3>1 DEF SeenInv
  <2> QED BY <2>1, <2>2, <2>4, <2>5
<1>3. CASE Opened
  <2>1. /\ pc = "opening" /\ pc' = "idle" /\ reply # None /\ due' = None
        /\ catching_up' = (since # None /\ FullPage(reply))
        /\ cursor' = LastSeq(reply, IF since = None THEN 0 ELSE since)
        /\ UNCHANGED <<log, seen>>
    BY <1>3 DEF Opened, server
  <2>2. reply \in Seq(Nat)
    BY <2>1 DEF Inv, TypeOK
  <2>3. Len(reply) = ServerLimit => FullPage(reply)
    BY <1>0, <2>2 DEF FullPage
  <2>4. since # None /\ Len(reply) = ServerLimit => catching_up'
    BY <2>1, <2>3, Zenon
  <2> QED BY <1>0, <2>1, <2>4 DEF SeenInv
<1>4. CASE Batch \/ NothingNew
  <2>1. /\ pc = "fetching" /\ reply # None /\ reply' = None
        /\ catching_up' = FullPage(reply) /\ cursor' = LastSeq(reply, cursor)
        /\ UNCHANGED <<log, seen>>
    <3>1. CASE Batch
      BY <3>1 DEF Batch, server
    <3>2. CASE NothingNew
      <4>1. reply # None
        <5>1. << >> \in Seq(Nat)
          OBVIOUS
        <5> QED BY <3>2, <5>1, FeedAssumption DEF NothingNew
      <4> QED BY <3>2, <4>1 DEF NothingNew, server, LastSeq
    <3> QED BY <1>4, <3>1, <3>2
  <2>2. reply \in Seq(Nat)
    BY <2>1 DEF Inv, TypeOK
  <2>3. Len(reply) = ServerLimit => FullPage(reply)
    BY <1>0, <2>2 DEF FullPage
  <2>4. Len(reply) = ServerLimit => catching_up'
    BY <2>1, <2>3, Zenon
  <2>5. catching_up' => due' = None /\ pc' # "waiting"
    <3>1. CASE Batch
      BY <3>1 DEF Batch
    <3>2. CASE NothingNew
      BY <3>2 DEF NothingNew, NextDue
    <3> QED BY <1>4, <3>1, <3>2
  <2>6. pc' # "opening"
    BY <1>4 DEF Batch, NothingNew
  <2> QED BY <1>0, <2>1, <2>4, <2>5, <2>6 DEF SeenInv
<1>5. CASE TakeHolding
  BY <1>5 DEF TakeHolding, server, SeenInv
<1>6. CASE \E s \in {None} \cup 0..MaxSeq : Watch(s)
  <2>1. pc' = "opening" /\ reply' = None /\ UNCHANGED <<log, seen>>
    BY <1>6 DEF Watch, server, Inv, FetchInv
  <2> QED BY <2>1 DEF SeenInv
<1>7. CASE WatchFailed \/ FetchFailed \/ DropNext
  <2>1. seen' = 0 /\ reply' = None /\ UNCHANGED log
    BY <1>7 DEF WatchFailed, FetchFailed, DropNext, server
  <2> QED BY <1>0, <2>1 DEF SeenInv
<1>8. CASE CallNext
  <2>1. /\ pc = "idle" /\ pc' \in {"waiting", "fetching"} /\ reply' = None
        /\ pc' = "waiting" => due # None \/ ~catching_up
        /\ UNCHANGED <<log, seen, cursor>>
    BY <1>8 DEF CallNext, server, NextDue, Inv, FetchInv
  <2> QED BY <2>1 DEF SeenInv
<1>9. CASE Tick \/ Wake
  <2>1. CASE Tick
    BY <2>1 DEF Tick, server, SeenInv
  <2>2. CASE Wake
    BY <2>2 DEF Wake, server, feed, SeenInv, Inv, FetchInv
  <2> QED BY <1>9, <2>1, <2>2
<1>10. CASE UNCHANGED vars
  BY <1>10 DEF vars, SeenInv
<1> QED
  BY <1>1, <1>2, <1>3, <1>4, <1>5, <1>6, <1>7, <1>8, <1>9, <1>10 DEF Next

\* With a page_limit the server serves in full, the feed waits out an interval
\* only when it has handed over all the server had when it last answered.
THEOREM ShortPage == PageLimit <= MaxLimit => (Spec => []ShortPageIsTheEnd)
<1> SUFFICES ASSUME PageLimit <= MaxLimit PROVE Spec => []ShortPageIsTheEnd
  OBVIOUS
<1>1. Init => SeenInv
  BY DEF Init, SeenInv
<1>2. Inv /\ SeenInv /\ [Next]_vars => SeenInv'
  BY SeenStep
<1>3. Inv /\ SeenInv => ShortPageIsTheEnd
  <2> SUFFICES ASSUME Inv, SeenInv, pc = "waiting"
               PROVE  base + Len(delivered) >= seen
    BY DEF ShortPageIsTheEnd
  <2>1. /\ holding = << >> /\ Splits(log, cursor, Taken) /\ seen \in Nat
        /\ base \in Nat /\ delivered \in Seq(Nat)
    BY DEF Inv, FetchInv, CursorInv, IsOpen, TypeOK
  <2>2. Taken = base + Len(delivered)
    BY <2>1 DEF Taken
  <2>3. seen <= Len(log) /\ \A i \in 1..seen : log[i] <= cursor
    BY DEF SeenInv
  <2> QED BY <2>1, <2>2, <2>3 DEF Splits
<1> QED BY <1>1, <1>2, <1>3, Invariance, PTL DEF Spec
=============================================================================
