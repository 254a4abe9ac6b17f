---------------------------- MODULE MessagesFeed ----------------------------
(***************************************************************************)
(* One watched room: chat-client-core/src/feed.rs, `MessagesFeed`, with    *)
(* the part of the server it talks to.                                     *)
(*                                                                         *)
(* The caller opens the feed with `watch_room_messages` and calls `next`   *)
(* over and over; it may drop the future `next` returns at any await.  A   *)
(* fetch is three steps, so that posts, time and drops fall in between:    *)
(* the request leaves, the server reads its page, the reply settles.  A    *)
(* dropped future takes its request with it: no reply of it is ever seen.  *)
(***************************************************************************)
EXTENDS MessageLog

CONSTANTS
  PageLimit,   \* PollConfig.page_limit, which nothing validates
  MaxLimit,    \* the server's MAX_LIMIT
  Interval,    \* PollConfig.messages_interval, in ticks
  MaxSeq,      \* bound: the last seq the server hands out
  None         \* Rust's None

ASSUME FeedAssumption ==
  /\ PageLimit \in Nat
  /\ MaxLimit \in Nat \ {0}
  /\ Interval \in Nat
  /\ MaxSeq \in Nat
  /\ None \notin Nat
  /\ None \notin Seq(Nat)

VARIABLES
  latest,       \* server: the newest seq, of any room
  log,          \* server: the watched room's messages
  pc,           \* where the caller's future is
  since,        \* the `Since` the feed was opened with; None is Since::Newest
  reply,        \* the page on its way back, None before the server has read it
  cursor, holding, catching_up, due,     \* the fields of the feed
  delivered,    \* history: what `next` handed over since the feed was opened
  base,         \* history: how much of the log precedes what is watched
  seen          \* history: how much of the log the server had when it last
                \* answered; 0 when no answer came of the last fetch

server == <<latest, log>>
feed   == <<cursor, holding, catching_up, due>>
vars   == <<latest, log, pc, since, reply, cursor, holding, catching_up, due,
            delivered, base, seen>>

\* PollConfig::page_size.
PageSize == IF PageLimit < 1 THEN 1 ELSE PageLimit

\* What one request for a page returns at most.
ServerLimit == Clamped(PageSize, MaxLimit)

\* Mutant of LastSeq: an empty opening page leaves the cursor one too far.
LastSeqOffByOne(page, from) == IF page = << >> THEN from + 1 ELSE page[Len(page)]

LastSeq(page, from) == IF page = << >> THEN from ELSE page[Len(page)]

\* Mutant of FullPage: a page of exactly the limit counts as short.
FullPageOffByOne(page) == Len(page) > PageSize

\* `messages.len() >= page`: more may be waiting.
FullPage(page) == Len(page) >= PageSize

\* The deadline the top of the loop in `next` waits for.
NextDue(d, catching) == IF d # None THEN d ELSE IF catching THEN None ELSE Interval

Init ==
  /\ latest = 0
  /\ log = << >>
  /\ pc = "closed"
  /\ since = None
  /\ reply = None
  /\ cursor = 0
  /\ holding = << >>
  /\ catching_up = FALSE
  /\ due = None
  /\ delivered = << >>
  /\ base = None
  /\ seen = 0

-----------------------------------------------------------------------------
(* The server. *)

\* post_message: the insert takes the next seq of the table, in this room or
\* in another one.
Post ==
  /\ latest < MaxSeq
  /\ latest' = latest + 1
  /\ \/ log' = Append(log, latest + 1)
     \/ UNCHANGED log
  /\ UNCHANGED <<pc, since, reply, feed, delivered, base, seen>>

\* Mutant of Page: a feed opens with the newest page wherever it starts.
PageAlwaysNewest ==
  IF pc = "opening" THEN Newest(log, ServerLimit) ELSE After(log, cursor, ServerLimit)

\* messages::list, the page as the request's query asked for it.
Page ==
  IF pc = "opening"
    THEN IF since = None THEN Newest(log, ServerLimit)
                         ELSE After(log, since, ServerLimit)
    ELSE After(log, cursor, ServerLimit)

Answer ==
  /\ pc \in {"opening", "fetching"}
  /\ reply = None
  /\ reply' = Page
  /\ seen' = Len(log)
  /\ UNCHANGED <<server, pc, since, feed, delivered, base>>

-----------------------------------------------------------------------------
(* Opening the feed. *)

\* watch_room_messages is called.  A position to start after is one the
\* caller was given earlier, so it is not past the newest message.
Watch(s) ==
  /\ pc = "closed"
  /\ s # None => s <= latest
  /\ since' = s
  /\ pc' = "opening"
  /\ UNCHANGED <<server, reply, feed, delivered, base, seen>>

\* The opening fetch came back.
Opened ==
  LET from == IF since = None THEN 0 ELSE since
  IN  /\ pc = "opening"
      /\ reply # None
      /\ cursor' = LastSeq(reply, from)
      /\ catching_up' = (since # None /\ FullPage(reply))
      /\ holding' = reply
      /\ due' = None
      /\ base' = (IF reply = << >> THEN Position(log, from)
                                   ELSE Position(log, reply[1]) - 1)
      /\ pc' = "idle"
      /\ reply' = None
      /\ UNCHANGED <<server, since, delivered, seen>>

\* The opening fetch failed, or the caller dropped it: there is no feed.
WatchFailed ==
  /\ pc = "opening"
  /\ pc' = "closed"
  /\ reply' = None
  /\ seen' = 0
  /\ UNCHANGED <<server, since, feed, delivered, base>>

-----------------------------------------------------------------------------
(* `next`. *)

\* `next` with a page still in hand gives it away at once.
TakeHolding ==
  /\ pc = "idle"
  /\ holding # << >>
  /\ delivered' = delivered \o holding
  /\ holding' = << >>
  /\ UNCHANGED <<server, pc, since, reply, cursor, catching_up, due, base, seen>>

\* `next` enters its loop: to the deadline, or straight to the fetch.
CallNext ==
  /\ pc = "idle"
  /\ holding = << >>
  /\ due' = NextDue(due, catching_up)
  /\ pc' = IF due' = None THEN "fetching" ELSE "waiting"
  /\ UNCHANGED <<server, since, reply, cursor, holding, catching_up, delivered,
                 base, seen>>

\* Time passes, whether or not a future is there to wait for it.
Tick ==
  /\ due # None
  /\ due > 0
  /\ due' = due - 1
  /\ UNCHANGED <<server, pc, since, reply, cursor, holding, catching_up,
                 delivered, base, seen>>

\* `sleep_until` returns and the request leaves.
Wake ==
  /\ pc = "waiting"
  /\ due = 0
  /\ pc' = "fetching"
  /\ UNCHANGED <<server, since, reply, feed, delivered, base, seen>>

\* The fetch settles with messages: the cursor moves and `next` returns them.
Batch ==
  /\ pc = "fetching"
  /\ reply # None
  /\ reply # << >>
  /\ due' = None
  /\ catching_up' = FullPage(reply)
  /\ cursor' = LastSeq(reply, cursor)
  /\ delivered' = delivered \o reply
  /\ pc' = "idle"
  /\ reply' = None
  /\ UNCHANGED <<server, since, holding, base, seen>>

\* The fetch settles with an empty page: the loop goes round, to a new wait.
\* An empty page is never a full one, so the wait is never skipped.
NothingNew ==
  /\ pc = "fetching"
  /\ reply = << >>
  /\ catching_up' = FullPage(reply)
  /\ due' = NextDue(None, catching_up')
  /\ pc' = IF due' = None THEN "fetching" ELSE "waiting"
  /\ reply' = None
  /\ UNCHANGED <<server, since, cursor, holding, delivered, base, seen>>

\* The fetch settles with an error, whether or not the server answered it,
\* and `next` returns the error.
FetchFailed ==
  /\ pc = "fetching"
  /\ due' = None
  /\ catching_up' = FALSE
  /\ pc' = "idle"
  /\ reply' = None
  /\ seen' = 0
  /\ UNCHANGED <<server, since, cursor, holding, delivered, base>>

\* Mutant of DropNext: a wait is started afresh, as a `sleep` would be.
DropNextForgetsDeadline ==
  /\ pc \in {"waiting", "fetching"}
  /\ pc' = "idle"
  /\ reply' = None
  /\ due' = None
  /\ seen' = 0
  /\ UNCHANGED <<server, since, cursor, holding, catching_up, delivered, base>>

\* The caller drops the future of `next` mid-wait or mid-fetch.  The feed
\* keeps what it had: cursor, deadline and catching_up.
DropNext ==
  /\ pc \in {"waiting", "fetching"}
  /\ pc' = "idle"
  /\ reply' = None
  /\ seen' = 0
  /\ UNCHANGED <<server, since, feed, delivered, base>>

Next ==
  \/ Post
  \/ Answer
  \/ \E s \in {None} \cup 0..MaxSeq : Watch(s)
  \/ Opened
  \/ WatchFailed
  \/ TakeHolding
  \/ CallNext
  \/ Tick
  \/ Wake
  \/ Batch
  \/ NothingNew
  \/ FetchFailed
  \/ DropNext

Spec == Init /\ [][Next]_vars

(***************************************************************************)
(* The caller keeps calling `next`; the clock and the runtime run.  The    *)
(* network and the caller's patience are only strong: fetches may fail and *)
(* futures may be dropped again and again, but a fetch that is tried       *)
(* forever is answered, and settles, sometimes.                            *)
(***************************************************************************)
Fairness ==
  /\ WF_vars(TakeHolding)
  /\ WF_vars(CallNext)
  /\ WF_vars(Tick)
  /\ SF_vars(Wake)
  /\ SF_vars(Answer)
  /\ SF_vars(Batch)
  /\ WF_vars(NothingNew)

FairSpec == Spec /\ Fairness

-----------------------------------------------------------------------------
(* Properties. *)

IsOpen == pc \in {"idle", "waiting", "fetching"}

\* Everything the feed has taken from the server: handed over, or in hand.
Taken == base + Len(delivered) + Len(holding)

\* Every variable has the type its Rust field or its role gives it.
TypeOK ==
  /\ latest \in Nat
  /\ log \in Seq(Nat)
  /\ pc \in {"closed", "opening", "idle", "waiting", "fetching"}
  /\ since \in Nat \cup {None}
  /\ reply \in Seq(Nat) \cup {None}
  /\ cursor \in Nat
  /\ holding \in Seq(Nat)
  /\ catching_up \in BOOLEAN
  /\ due \in Nat \cup {None}
  /\ delivered \in Seq(Nat)
  /\ base \in Nat \cup {None}
  /\ seen \in Nat

\* The cursor is exactly where the feed stands: the messages at or before it
\* are those that precede the watch and those taken since, whatever was
\* posted, dropped or refused in between.  A cursor ahead of that would lose
\* messages, one behind would repeat them.
CursorCovers ==
  IsOpen => /\ Taken <= Len(log)
            /\ \A i \in 1..Len(log) : log[i] <= cursor <=> i <= Taken

\* A feed opened with Since::After(s) starts with the first message after s:
\* reopening where a caller left off neither skips nor repeats one.
ResumesAfter ==
  IsOpen /\ since # None =>
    \A i \in 1..Len(log) : log[i] <= since <=> i <= base

\* "A page shorter than `limit` is the end of what was being walked towards"
\* (chat-core/src/api/v1/messages.rs:61): the feed goes to wait out an
\* interval only when it has handed over all the server had when it last
\* answered.
ShortPageIsTheEnd == pc = "waiting" => base + Len(delivered) >= seen

\* The feed is an implementation of OrderedDelivery.
Abstract == INSTANCE OrderedDelivery WITH NotStarted <- None
DeliversInOrder == Abstract!Spec

\* Every message posted to an open feed's room is handed over in the end,
\* however often fetches fail and futures are dropped.
EventuallyDelivered ==
  \A n \in 1..MaxSeq :
    (IsOpen /\ base < n /\ n <= Len(log)) ~> (IsOpen /\ base + Len(delivered) >= n)

-----------------------------------------------------------------------------
(* The inductive invariant. *)

\* The log is sorted, starts at 1 and ends at or before the newest seq.
LogInv ==
  /\ Increasing(log)
  /\ \A i \in 1..Len(log) : 1 <= log[i] /\ log[i] <= latest

\* Before the feed is open nothing of it exists yet.
ClosedInv ==
  ~IsOpen => base = None /\ delivered = << >> /\ holding = << >>

\* A reply to the opening fetch is a window of the log behind the position
\* asked for; an empty one means that nothing was there.
OpeningInv ==
  pc = "opening" =>
    /\ since # None => since <= latest
    /\ reply # None =>
         \E p \in 0..Len(log) :
           /\ Window(log, p, reply)
           /\ since # None => Splits(log, since, p)
           /\ since = None /\ reply = << >> => p = 0

\* The cursor stands right behind what the feed has taken.
CursorInv ==
  IsOpen => /\ base \in Nat
            /\ Splits(log, cursor, Taken)
            /\ cursor <= latest

\* What was handed over, and what is in hand behind it, are windows of the log.
WindowInv ==
  IsOpen => /\ Window(log, base, delivered)
            /\ Window(log, base + Len(delivered), holding)
            /\ since # None => Splits(log, since, base) /\ since <= latest

\* A fetch runs only with empty hands, and its page continues the feed.
FetchInv ==
  /\ pc \in {"waiting", "fetching"} => holding = << >>
  /\ pc = "fetching" /\ reply # None => Window(log, base + Len(delivered), reply)
  /\ pc \in {"closed", "idle", "waiting"} => reply = None

\* The server had nothing beyond a page that is not a full one, and so nothing
\* beyond the cursor of a feed that waits or is about to.
SeenInv ==
  /\ seen <= Len(log)
  /\ pc = "opening" /\ reply # None =>
       \/ since # None /\ Len(reply) = ServerLimit
       \/ \A i \in 1..seen : log[i] <= LastSeq(reply, IF since = None THEN 0 ELSE since)
  /\ pc = "fetching" /\ reply # None =>
       \/ Len(reply) = ServerLimit
       \/ \A i \in 1..seen : log[i] <= LastSeq(reply, cursor)
  /\ pc = "waiting" \/ (pc = "idle" /\ (due # None \/ ~catching_up)) =>
       \A i \in 1..seen : log[i] <= cursor

\* The invariant every step keeps, on which the theorems rest.
Inv == TypeOK /\ LogInv /\ ClosedInv /\ OpeningInv /\ CursorInv /\ WindowInv /\ FetchInv
=============================================================================
