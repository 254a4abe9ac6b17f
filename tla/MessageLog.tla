----------------------------- MODULE MessageLog -----------------------------
(***************************************************************************)
(* A room's messages as the server pages them.                             *)
(*                                                                         *)
(* Messages are append-only and their seq is server-wide, so the messages  *)
(* of one room are a strictly increasing sequence of seqs with gaps.  A    *)
(* message is its seq: nothing here tells two messages apart otherwise.    *)
(* The operators are the three queries of                                  *)
(* chat-server/src/store/sqlite/messages.rs and the clamp of               *)
(* chat-server/src/api/messages.rs.                                        *)
(***************************************************************************)
EXTENDS Naturals, Sequences

\* seq is the primary key and only grows: the log of a room is sorted.
Increasing(log) ==
  \A i, j \in 1..Len(log) : i < j => log[i] < log[j]

\* How many messages of the log are at or before the cursor c.
Position(log, c) ==
  CHOOSE p \in 0..Len(log) :
    /\ \A i \in 1..p : log[i] <= c
    /\ \A i \in (p + 1)..Len(log) : log[i] > c

AtMost(m, n) == IF m <= n THEN m ELSE n

\* `limit.clamp(1, MAX_LIMIT)`.
Clamped(limit, maxLimit) ==
  IF limit < 1 THEN 1 ELSE AtMost(limit, maxLimit)

\* Mutant of After: ORDER BY seq DESC LIMIT n, then reversed.
AfterFromTheEnd(log, c, n) ==
  LET p == Position(log, c)
  IN  SubSeq(log, (IF p + n < Len(log) THEN Len(log) - n ELSE p) + 1, Len(log))

\* WHERE seq > c ORDER BY seq ASC LIMIT n.
After(log, c, n) ==
  LET p == Position(log, c)
  IN  SubSeq(log, p + 1, AtMost(p + n, Len(log)))

\* ORDER BY seq DESC LIMIT n, reversed: the end of the log.
Newest(log, n) ==
  SubSeq(log, (IF Len(log) > n THEN Len(log) - n ELSE 0) + 1, Len(log))

\* WHERE seq < c ORDER BY seq DESC LIMIT n, reversed.  Seqs are naturals, so
\* seq < c is everything up to c - 1, and nothing when c is 0.
Before(log, c, n) ==
  LET p == IF c = 0 THEN 0 ELSE Position(log, c - 1)
  IN  SubSeq(log, (IF p > n THEN p - n ELSE 0) + 1, p)

\* p messages of the log are at or before c, the rest are after it.
Splits(log, c, p) ==
  /\ p \in 0..Len(log)
  /\ \A i \in 1..Len(log) : log[i] <= c <=> i <= p

\* page is what the log holds right behind its first p messages.
Window(log, p, page) ==
  /\ p + Len(page) <= Len(log)
  /\ \A i \in 1..Len(page) : page[i] = log[p + i]
=============================================================================
