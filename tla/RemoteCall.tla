------------------------------ MODULE RemoteCall -----------------------------
(***************************************************************************)
(* What a caller may conclude from the answer to a remote call: the promise*)
(* ChatError makes (chat-client-core/src/error.rs).                        *)
(*                                                                         *)
(* A call is carried out at most once.  `done` is only said of a call that *)
(* was carried out; `refused` only of one that was not and never will be;  *)
(* and of a call it can say neither of, the caller is told `unknown`: such *)
(* a call may still be carried out afterwards.                             *)
(***************************************************************************)
CONSTANT Calls

VARIABLES
  state,   \* what became of a call: not asked, asked, carried out
  told     \* what its caller was told

vars == <<state, told>>

Init ==
  /\ state = [c \in Calls |-> "quiet"]
  /\ told = [c \in Calls |-> "nothing"]

Ask(c) ==
  /\ state[c] = "quiet"
  /\ told[c] = "nothing"
  /\ state' = [state EXCEPT ![c] = "asked"]
  /\ UNCHANGED told

Apply(c) ==
  /\ state[c] = "asked"
  /\ told[c] # "refused"
  /\ state' = [state EXCEPT ![c] = "applied"]
  /\ UNCHANGED told

Done(c) ==
  /\ state[c] = "applied"
  /\ told[c] = "nothing"
  /\ told' = [told EXCEPT ![c] = "done"]
  /\ UNCHANGED state

\* Also without having been asked: the client refuses a call it has no token for.
Refuse(c) ==
  /\ state[c] # "applied"
  /\ told[c] = "nothing"
  /\ told' = [told EXCEPT ![c] = "refused"]
  /\ UNCHANGED state

Lose(c) ==
  /\ state[c] # "quiet"
  /\ told[c] = "nothing"
  /\ told' = [told EXCEPT ![c] = "unknown"]
  /\ UNCHANGED state

Next == \E c \in Calls : Ask(c) \/ Apply(c) \/ Done(c) \/ Refuse(c) \/ Lose(c)

Spec == Init /\ [][Next]_vars
=============================================================================
