-------------------------- MODULE OrderedDelivery ---------------------------
(***************************************************************************)
(* What watching a room promises, whatever the transport does: from a      *)
(* starting position on, the caller is handed the room's messages in seq   *)
(* order, each exactly once, none skipped.                                 *)
(***************************************************************************)
EXTENDS Naturals, Sequences

CONSTANT NotStarted   \* no starting position yet

VARIABLES log,        \* the room's messages, oldest first
          base,       \* how many of them come before what is watched
          delivered   \* what the caller was handed, in order

vars == <<log, base, delivered>>

Init ==
  /\ log = << >>
  /\ base = NotStarted
  /\ delivered = << >>

\* Someone posts: the room's log grows at its end.
Extend ==
  /\ Len(log') = Len(log) + 1
  /\ log = SubSeq(log', 1, Len(log))
  /\ \A i \in 1..Len(log) : log[i] < log'[Len(log')]
  /\ UNCHANGED <<base, delivered>>

\* The watch is established somewhere in the log.
Start ==
  /\ base = NotStarted
  /\ base' \in 0..Len(log)
  /\ UNCHANGED <<log, delivered>>

\* A batch: the next messages of the log, at least one.
Deliver ==
  /\ base # NotStarted
  /\ \E n \in (base + Len(delivered) + 1)..Len(log) :
       delivered' = delivered \o SubSeq(log, base + Len(delivered) + 1, n)
  /\ UNCHANGED <<log, base>>

Next == Extend \/ Start \/ Deliver

Spec == Init /\ [][Next]_vars
=============================================================================
