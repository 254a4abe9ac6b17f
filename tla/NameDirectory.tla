--------------------------- MODULE NameDirectory ----------------------------
(***************************************************************************)
(* What the server promises of the names it keeps, account names and room  *)
(* names alike: a request to add a name is answered as if it were carried  *)
(* out in one step, at some moment between its arrival and its answer.  A  *)
(* name is held once however it is spelled, a taken name is reported as    *)
(* taken even by a full directory, no name is ever dropped, and the cap is *)
(* never overrun (chat-server/src/store.rs, DataStore).                    *)
(***************************************************************************)
EXTENDS Naturals, Sequences

CONSTANTS
  Clients,   \* who asks, one request at a time each
  Names,     \* spellings
  Fold,      \* the spelling names are compared by
  Cap,       \* how many names are accepted
  Seeded,    \* the names held from the start, whatever the cap
  None

VARIABLES
  held,      \* the names, in the order they were added
  requests   \* what each client has asked and been told

vars == <<held, requests>>

Quiet == [step |-> "quiet", name |-> None, answer |-> None]

Holds(name) == \E i \in 1..Len(held) : Fold[held[i]] = Fold[name]

Init ==
  /\ held = Seeded
  /\ requests = [c \in Clients |-> Quiet]

Ask(c, name) ==
  /\ requests[c] = Quiet
  /\ requests' = [requests EXCEPT ![c] = [step |-> "asked", name |-> name, answer |-> None]]
  /\ UNCHANGED held

Tell(c, answer) ==
  requests' = [requests EXCEPT ![c] = [step |-> "told", name |-> requests[c].name,
                                       answer |-> answer]]

Add(c) ==
  /\ requests[c].step = "asked"
  /\ ~Holds(requests[c].name)
  /\ Len(held) < Cap
  /\ held' = Append(held, requests[c].name)
  /\ Tell(c, "created")

FindTaken(c) ==
  /\ requests[c].step = "asked"
  /\ Holds(requests[c].name)
  /\ Tell(c, "taken")
  /\ UNCHANGED held

RefuseFull(c) ==
  /\ requests[c].step = "asked"
  /\ ~Holds(requests[c].name)
  /\ Len(held) >= Cap
  /\ Tell(c, "full")
  /\ UNCHANGED held

\* The answer is read, or the request is given up, answered or not.
End(c) ==
  /\ requests' = [requests EXCEPT ![c] = Quiet]
  /\ UNCHANGED held

\* The server restarts: every request is cut off, no name is lost.
Restart ==
  /\ requests' = [c \in Clients |-> Quiet]
  /\ UNCHANGED held

Next ==
  \/ \E c \in Clients : End(c) \/ Add(c) \/ FindTaken(c) \/ RefuseFull(c)
  \/ \E c \in Clients, name \in Names : Ask(c, name)
  \/ Restart

Spec == Init /\ [][Next]_vars
=============================================================================
