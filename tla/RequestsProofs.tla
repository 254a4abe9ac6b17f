---------------------------- MODULE RequestsProofs ----------------------------
(***************************************************************************)
(* What is said of Requests for all calls, names and numbers of tokens.    *)
(*                                                                         *)
(* The invariant says of each call where it is and what that rules out:    *)
(* nothing was written before the handler (Untouched), a call that was     *)
(* refused is nowhere any more (RefusedIsOver), and a reply on its way says*)
(* what the handler did (ReplyFits).  From there each step of the program  *)
(* is a step of RemoteCall, or none.                                       *)
(***************************************************************************)
EXTENDS Requests, TLAPS

\* The caller waits exactly while its call is somewhere it can come back from.
EndedIsElsewhere(k) ==
  /\ k.outcome # None => k.place \in {"wire", "handler", "readback", "gone"}
  /\ k.outcome = None => k.place # "gone"

Untouched(k) == k.place \in {"unmade", "dialing", "wire", "handler"} => ~k.applied

RefusedIsOver(k) == k.outcome \in SaysRefused => k.place = "gone" /\ ~k.applied

DoneIsDone(k) == k.outcome = "Ok" => k.applied

\* Tokens go with the calls that need one.
TokenFits(k) ==
  /\ k.place = "unmade" => k.token = None
  /\ k.token # None => k.token \in Tokens /\ k.ask.op \in Required

\* A name that is no name does not get as far as the store.
NameFits(k) ==
  k.place \in {"handler", "readback"} /\ k.ask.op \in {"register", "create"} =>
    k.ask.with \in Names

\* Between the statements of create the room is there, or there is no place for it.
RoomFits(k) ==
  k.place = "readback" =>
    /\ k.ask.op = "create"
    /\ k.applied <=> k.ask.with \in rooms
    /\ ~k.applied => ~(Cardinality(rooms) + 1 < MaxRooms)

\* A reply says what the handler did.
Fitting(ask, reply, applied) ==
  /\ reply.status = 200 <=> reply.body \in {"json", "empty", "oversized"}
  /\ reply.body = "empty" => ask.op = "register"
  /\ reply.status = 200 => applied
  /\ reply.body = "envelope" => reply.code \in Codes
  /\ reply.body = "envelope" /\ reply.code # "internal" => ~applied
  /\ reply.status = 401 => ~applied
  /\ reply.body = "text" => ask.with = "beyond u32"
  /\ reply.status = 200 /\ ask.op = "login" => reply.token \in Tokens

ReplyFits(k) == k.place = "answered" => Fitting(k.ask, k.reply, k.applied)

\* A 401 to a token is about the token.
RefusedToken(k) ==
  k.place = "answered" /\ k.reply.status = 401 /\ k.token # None =>
    verdict[k.token] \in {"expired", "void"}

\* What the caller was told of its token, and of the reply, is so.
OutcomeFits(k) ==
  /\ k.outcome = "SessionExpired" =>
       k.token \in Tokens /\ verdict[k.token] \in {"expired", "void"} /\ session # k.token
  /\ k.outcome = "Protocol" => k.ask.with = "beyond u32"

CallFits(k) ==
  /\ EndedIsElsewhere(k)
  /\ Untouched(k)
  /\ RefusedIsOver(k)
  /\ DoneIsDone(k)
  /\ TokenFits(k)
  /\ NameFits(k)
  /\ RoomFits(k)
  /\ ReplyFits(k)
  /\ RefusedToken(k)
  /\ OutcomeFits(k)

\* A token a login's reply carries is known to nobody else.
Pending(k) == k.place = "answered" /\ k.ask.op = "login" /\ k.reply.status = 200

TokensFit ==
  /\ session # None => verdict[session] # "unissued"
  /\ \A d \in Calls :
       /\ calls[d].token \in Tokens => verdict[calls[d].token] # "unissued"
       /\ Pending(calls[d]) =>
            /\ calls[d].reply.token # session
            /\ verdict[calls[d].reply.token] # "unissued"
  /\ \A d, e \in Calls :
       Pending(calls[d]) =>
         /\ calls[e].token # calls[d].reply.token
         /\ Pending(calls[e]) /\ d # e => calls[e].reply.token # calls[d].reply.token

Inv ==
  /\ TypeOK
  /\ \A d \in Calls : CallFits(calls[d])
  /\ TokensFit

-----------------------------------------------------------------------------
(* What the three ways of changing a call leave of it. *)

\* The part of TypeOK that is about one call.
Typed(k) ==
  /\ k \in Call
  /\ k.place # "unmade" => k.ask \in Asks
  /\ k.place = "answered" => k.reply \in Reply
  /\ k.place \notin {"unmade", "gone"} /\ k.ask.op \in Required => k.token \in Tokens

Others(c) == \A d \in Calls \ {c} : calls'[d] = calls[d]

LEMMA Moved ==
  ASSUME calls \in [Calls -> Call], NEW c \in Calls, NEW place \in Places, MoveTo(c, place)
  PROVE  /\ calls' \in [Calls -> Call]
         /\ Others(c)
         /\ calls'[c].ask = calls[c].ask
         /\ calls'[c].token = calls[c].token
         /\ calls'[c].place = place
         /\ calls'[c].reply = calls[c].reply
         /\ calls'[c].applied = calls[c].applied
         /\ calls'[c].outcome = calls[c].outcome
<1>1. calls' = [calls EXCEPT ![c] = [calls[c] EXCEPT !.place = place]]
  BY DEF MoveTo
<1>2. calls[c] \in Call
  OBVIOUS
<1>3. [calls[c] EXCEPT !.place = place] \in Call
  BY <1>2 DEF Call
<1> QED BY <1>1, <1>2, <1>3 DEF Others, Call

LEMMA Answered ==
  ASSUME calls \in [Calls -> Call], NEW c \in Calls, NEW reply \in Reply, NEW applied \in BOOLEAN,
         Answer(c, reply, applied)
  PROVE  /\ calls' \in [Calls -> Call]
         /\ Others(c)
         /\ calls'[c].ask = calls[c].ask
         /\ calls'[c].token = calls[c].token
         /\ calls'[c].place = IF calls[c].outcome = None THEN "answered" ELSE "gone"
         /\ calls'[c].reply = IF calls[c].outcome = None THEN reply ELSE None
         /\ calls'[c].applied = applied
         /\ calls'[c].outcome = calls[c].outcome
<1> DEFINE place == IF calls[c].outcome = None THEN "answered" ELSE "gone"
           sent == IF calls[c].outcome = None THEN reply ELSE None
<1>1. calls' = [calls EXCEPT ![c] =
                  [calls[c] EXCEPT !.place = place, !.reply = sent, !.applied = applied]]
  BY DEF Answer
<1>2. calls[c] \in Call
  OBVIOUS
<1>3. place \in Places /\ sent \in Reply \cup {None}
  BY DEF Places
<1> HIDE DEF place, sent
<1>4. [calls[c] EXCEPT !.place = place, !.reply = sent, !.applied = applied] \in Call
  BY <1>2, <1>3 DEF Call
<1>5. /\ calls'[c].place = place /\ calls'[c].reply = sent
      /\ calls'[c].applied = applied
      /\ calls'[c].ask = calls[c].ask /\ calls'[c].token = calls[c].token
      /\ calls'[c].outcome = calls[c].outcome
  BY <1>1, <1>2 DEF Call
<1>6. calls' \in [Calls -> Call] /\ Others(c)
  BY <1>1, <1>4 DEF Others
<1> QED BY <1>5, <1>6 DEF place, sent

LEMMA Ended ==
  ASSUME calls \in [Calls -> Call], NEW c \in Calls, NEW outcome \in Outcomes, End(c, outcome)
  PROVE  /\ calls' \in [Calls -> Call]
         /\ Others(c)
         /\ calls'[c].ask = calls[c].ask
         /\ calls'[c].token = calls[c].token
         /\ calls'[c].place = IF calls[c].place \in {"dialing", "answered"}
                                THEN "gone" ELSE calls[c].place
         /\ calls'[c].reply = None
         /\ calls'[c].applied = calls[c].applied
         /\ calls'[c].outcome = outcome
<1> DEFINE place == IF calls[c].place \in {"dialing", "answered"} THEN "gone" ELSE calls[c].place
<1>1. calls' = [calls EXCEPT ![c] =
                  [calls[c] EXCEPT !.outcome = outcome, !.reply = None, !.place = place]]
  BY DEF End
<1>2. calls[c] \in Call
  OBVIOUS
<1>3. place \in Places
  BY <1>2 DEF Places, Call
<1> HIDE DEF place
<1>4. [calls[c] EXCEPT !.outcome = outcome, !.reply = None, !.place = place] \in Call
  BY <1>2, <1>3 DEF Call
<1>5. /\ calls'[c].place = place /\ calls'[c].reply = None
      /\ calls'[c].applied = calls[c].applied
      /\ calls'[c].ask = calls[c].ask /\ calls'[c].token = calls[c].token
      /\ calls'[c].outcome = outcome
  BY <1>1, <1>2 DEF Call
<1>6. calls' \in [Calls -> Call] /\ Others(c)
  BY <1>1, <1>4 DEF Others
<1> QED BY <1>5, <1>6 DEF place

\* What is left to show of a step that changes one call only.
LEMMA Composed ==
  ASSUME Inv, NEW c \in Calls, calls' \in [Calls -> Call], Others(c),
         transport' \in {"tcp", "scion"}, session' \in Tokens \cup {None},
         verdict' \in [Tokens -> {"unissued", "good", "expired", "void"}],
         accounts' \subseteq Names, rooms' \subseteq Names,
         Typed(calls[c])', CallFits(calls[c])',
         \A d \in Calls \ {c} :
           RoomFits(calls[d])' /\ RefusedToken(calls[d])' /\ OutcomeFits(calls[d])',
         TokensFit'
  PROVE  Inv'
<1>1. TypeOK'
  BY DEF Inv, TypeOK, Typed, Others
<1>2. ASSUME NEW d \in Calls PROVE CallFits(calls[d])'
  <2>1. CASE d = c
    BY <2>1
  <2>2. CASE d # c
    <3>1. calls'[d] = calls[d] /\ CallFits(calls[d])
      BY <2>2 DEF Others, Inv
    <3>2. /\ EndedIsElsewhere(calls[d])' /\ Untouched(calls[d])'
          /\ RefusedIsOver(calls[d])' /\ DoneIsDone(calls[d])'
      BY <3>1 DEF CallFits, EndedIsElsewhere, Untouched, RefusedIsOver, DoneIsDone
    <3>3. TokenFits(calls[d])' /\ NameFits(calls[d])'
      BY <3>1 DEF CallFits, TokenFits, NameFits
    <3>4. ReplyFits(calls[d])'
      <4>1. ReplyFits(calls[d])
        BY <3>1 DEF CallFits
      <4> QED BY <3>1, <4>1
    <3>5. RoomFits(calls[d])' /\ RefusedToken(calls[d])' /\ OutcomeFits(calls[d])'
      BY <2>2
    <3> QED BY <3>2, <3>3, <3>4, <3>5 DEF CallFits
  <2> QED BY <2>1, <2>2
<1> QED BY <1>1, <1>2 DEF Inv

\* What the calls of others keep while session, tokens and rooms stand.
LEMMA OthersKeep ==
  ASSUME Inv, NEW c \in Calls, Others(c), UNCHANGED <<session, verdict, rooms>>
  PROVE  \A d \in Calls \ {c} :
           RoomFits(calls[d])' /\ RefusedToken(calls[d])' /\ OutcomeFits(calls[d])'
<1> SUFFICES ASSUME NEW d \in Calls \ {c}
             PROVE  RoomFits(calls[d])' /\ RefusedToken(calls[d])' /\ OutcomeFits(calls[d])'
  OBVIOUS
<1>1. calls'[d] = calls[d] /\ CallFits(calls[d])
  BY DEF Others, Inv
<1>2. RoomFits(calls[d])'
  BY <1>1 DEF CallFits, RoomFits
<1>3. RefusedToken(calls[d])'
  BY <1>1 DEF CallFits, RefusedToken
<1>4. OutcomeFits(calls[d])'
  BY <1>1 DEF CallFits, OutcomeFits
<1> QED BY <1>2, <1>3, <1>4

\* A call is its own business: a step that changes one call, and neither token
\* nor session nor room, keeps the invariant if it keeps it for that call.
LEMMA OnlyThisCall ==
  ASSUME Inv, NEW c \in Calls, calls' \in [Calls -> Call], Others(c),
         UNCHANGED <<transport, session, verdict, rooms>>, accounts' \subseteq Names,
         Typed(calls[c])', CallFits(calls[c])', ~Pending(calls[c])',
         calls'[c].token = calls[c].token
  PROVE  Inv'
<1>1. \A d \in Calls : calls'[d].token = calls[d].token
  BY DEF Others
<1>2. \A d \in Calls : Pending(calls[d])' => Pending(calls[d]) /\ calls'[d] = calls[d]
  BY DEF Others, Pending
<1>3. TokensFit'
  BY <1>1, <1>2 DEF Inv, TokensFit
<1>4. /\ transport' \in {"tcp", "scion"} /\ session' \in Tokens \cup {None}
      /\ verdict' \in [Tokens -> {"unissued", "good", "expired", "void"}]
      /\ rooms' \subseteq Names
  BY DEF Inv, TypeOK
<1> QED BY <1>3, <1>4, OthersKeep, Composed

-----------------------------------------------------------------------------
(* What a transport reports. *)

LEMMA FlagsOf ==
  /\ Flags["no_name"] = {"connect", "request"}
  /\ Flags["no_route"] = {"connect", "request"}
  /\ Flags["late"] = {"timeout", "request"}
  /\ Flags["late_dialing"] = {"timeout", "connect", "request"}
  /\ Flags["before_head"] = {"request"}
  /\ Flags["in_body"] = {"decode"}
BY DEF Flags

\* Before anything was sent, one of three things is reported.
LEMMA UnreachedIsSaid ==
  ASSUME NEW what \in Unreached
  PROVE  Failures(what) \subseteq {"Resolution", "Connect", "Tls"}
<1>1. CASE transport = "tcp"
  <2>1. what \in {"no_name", "no_route"}
    BY <1>1 DEF Unreached
  <2>2. Flags[what] = {"connect", "request"}
    BY <2>1, FlagsOf
  <2>3. TcpFailure(what) = "Connect"
    BY <2>2 DEF TcpFailure
  <2> QED BY <1>1, <2>3 DEF Failures
<1>2. CASE transport # "tcp"
  <2>1. what \in {"no_name", "no_route", "identity"}
    BY DEF Unreached
  <2>2. CASE what = "no_name"
    BY <1>2, <2>2 DEF Failures, ScionFailures
  <2>3. CASE what = "no_route"
    BY <1>2, <2>3 DEF Failures, ScionFailures
  <2>4. CASE what = "identity"
    BY <1>2, <2>4 DEF Failures, ScionFailures
  <2> QED BY <2>1, <2>2, <2>3, <2>4
<1> QED BY <1>1, <1>2

\* Once something was sent, one of three others.
LEMMA BrokenIsSaid ==
  ASSUME NEW what \in {"before_head", "in_body", "late", "late_dialing"}
  PROVE  Failures(what) \subseteq {"StreamReset", "Http", "Timeout"}
<1>1. CASE transport = "tcp"
  <2>1. CASE what = "before_head"
    <3>1. TcpFailure(what) = "Http"
      BY <2>1, FlagsOf DEF TcpFailure
    <3> QED BY <1>1, <3>1 DEF Failures
  <2>2. CASE what = "in_body"
    <3>1. TcpFailure(what) = "StreamReset"
      BY <2>2, FlagsOf DEF TcpFailure
    <3> QED BY <1>1, <3>1 DEF Failures
  <2>3. CASE what \in {"late", "late_dialing"}
    <3>1. "timeout" \in Flags[what]
      BY <2>3, FlagsOf
    <3>2. TcpFailure(what) = "Timeout"
      BY <3>1 DEF TcpFailure
    <3> QED BY <1>1, <3>2 DEF Failures
  <2> QED BY <2>1, <2>2, <2>3
<1>2. CASE transport # "tcp"
  <2>1. CASE what \in {"late", "late_dialing"}
    <3>1. ScionFailures(what) = {"Timeout"}
      BY <2>1 DEF ScionFailures
    <3> QED BY <1>2, <3>1 DEF Failures
  <2>2. CASE what \in {"before_head", "in_body"}
    <3>1. ScionFailures(what) = {"StreamReset", "Http"}
      BY <2>2 DEF ScionFailures
    <3> QED BY <1>2, <3>1 DEF Failures
  <2> QED BY <2>1, <2>2
<1> QED BY <1>1, <1>2

-----------------------------------------------------------------------------
(* Steps of a call that change nothing but the call. *)

\* The call ends for its caller with something that is not about the reply.
LEMMA EndsUnread ==
  ASSUME Inv, NEW c \in Calls, Waiting(c),
         NEW outcome \in {"Resolution", "Connect", "Tls", "StreamReset", "Http", "Timeout"},
         outcome \in {"Resolution", "Connect", "Tls"} => calls[c].place = "dialing",
         End(c, outcome), UNCHANGED <<transport, session, verdict, accounts, rooms>>
  PROVE  Inv'
<1>1. outcome \in Outcomes /\ outcome # None
  BY NoneAssumption DEF Outcomes, TransportErrors
<1>2. calls \in [Calls -> Call] /\ calls[c] \in Call /\ Typed(calls[c])
  BY DEF Inv, TypeOK, Typed
<1>3. /\ calls' \in [Calls -> Call] /\ Others(c)
      /\ calls'[c].ask = calls[c].ask
      /\ calls'[c].token = calls[c].token
      /\ calls'[c].place = IF calls[c].place \in {"dialing", "answered"}
                             THEN "gone" ELSE calls[c].place
      /\ calls'[c].reply = None
      /\ calls'[c].applied = calls[c].applied
      /\ calls'[c].outcome = outcome
  BY <1>1, <1>2, Ended
<1>4. calls'[c].place # "answered" /\ calls[c].place # "unmade" /\ calls[c].place # "gone"
  BY <1>2, <1>3 DEF Waiting, Inv, CallFits, EndedIsElsewhere
<1>5. calls'[c].place \in {"wire", "handler", "readback", "gone"}
  BY <1>2, <1>3, <1>4 DEF Call, Places
<1>6. CallFits(calls[c])
  BY DEF Inv
<1>7. Typed(calls[c])'
  BY <1>2, <1>3, <1>4, <1>5 DEF Typed
<1>8. CallFits(calls[c])'
  <2>1. EndedIsElsewhere(calls[c])'
    BY <1>1, <1>3, <1>5 DEF EndedIsElsewhere
  <2>2. Untouched(calls[c])'
    BY <1>3, <1>6 DEF CallFits, Untouched
  <2>3. RefusedIsOver(calls[c])'
    BY <1>3, <1>6 DEF CallFits, RefusedIsOver, SaysRefused, Codes, Untouched
  <2>4. DoneIsDone(calls[c])'
    BY <1>3 DEF DoneIsDone
  <2>5. TokenFits(calls[c])'
    BY <1>3, <1>4, <1>6 DEF CallFits, TokenFits
  <2>9. NameFits(calls[c])'
    BY <1>3, <1>6 DEF CallFits, NameFits
  <2>6. RoomFits(calls[c])'
    BY <1>3, <1>6 DEF CallFits, RoomFits
  <2>7. ReplyFits(calls[c])' /\ RefusedToken(calls[c])'
    BY <1>4 DEF ReplyFits, RefusedToken
  <2>8. OutcomeFits(calls[c])'
    BY <1>3 DEF OutcomeFits
  <2> QED BY <2>1, <2>2, <2>3, <2>4, <2>5, <2>6, <2>7, <2>8, <2>9 DEF CallFits
<1>9. ~Pending(calls[c])'
  BY <1>4 DEF Pending
<1>10. accounts' \subseteq Names
  BY DEF Inv, TypeOK
<1> QED BY <1>3, <1>7, <1>8, <1>9, <1>10, OnlyThisCall

LEMMA UnreachableKeeps ==
  ASSUME Inv, NEW c \in Calls, Unreachable(c)
  PROVE  Inv'
<1>1. PICK what \in Unreached : \E error \in Failures(what) : End(c, error)
  BY DEF Unreachable
<1>2. PICK error \in Failures(what) : End(c, error)
  BY <1>1
<1>3. error \in {"Resolution", "Connect", "Tls"}
  BY <1>2, UnreachedIsSaid
<1> QED BY <1>2, <1>3, EndsUnread DEF Unreachable

LEMMA CutKeeps ==
  ASSUME Inv, NEW c \in Calls, Cut(c)
  PROVE  Inv'
<1>1. PICK what \in {"before_head", "in_body"} : \E error \in Failures(what) : End(c, error)
  BY DEF Cut
<1>2. PICK error \in Failures(what) : End(c, error)
  BY <1>1
<1>3. error \in {"StreamReset", "Http", "Timeout"}
  BY <1>2, BrokenIsSaid
<1> QED BY <1>2, <1>3, EndsUnread DEF Cut

LEMMA GiveUpKeeps ==
  ASSUME Inv, NEW c \in Calls, GiveUp(c)
  PROVE  Inv'
<1>1. PICK what \in {"late", "late_dialing"} : \E error \in Failures(what) : End(c, error)
  BY DEF GiveUp
<1>2. PICK error \in Failures(what) : End(c, error)
  BY <1>1
<1>3. error \in {"StreamReset", "Http", "Timeout"}
  BY <1>2, BrokenIsSaid
<1> QED BY <1>2, <1>3, EndsUnread DEF GiveUp

-----------------------------------------------------------------------------
(* Steps that answer a call. *)

Serving(c) == calls[c].place \in {"wire", "handler", "readback"}

LEMMA RefusalIsReply ==
  ASSUME NEW status \in {400, 401, 404, 409, 413, 422, 429, 500}, NEW code \in Codes
  PROVE  /\ Refusal(status, code) \in Reply
         /\ Refusal(status, code).status = status
         /\ Refusal(status, code).body = "envelope"
         /\ Refusal(status, code).code = code
BY DEF Refusal, Reply

LEMMA SuccessIsReply ==
  ASSUME NEW body \in {"json", "empty", "oversized"}
  PROVE  /\ Success(body) \in Reply
         /\ Success(body).status = 200
         /\ Success(body).body = body
BY DEF Success, Reply

\* What an answer makes of its call, whatever else the step changes.
LEMMA AnsweredFits ==
  ASSUME Inv, NEW c \in Calls, Serving(c), NEW reply \in Reply, NEW applied \in BOOLEAN,
         Answer(c, reply, applied), Fitting(calls[c].ask, reply, applied),
         calls[c].applied => applied, UNCHANGED session,
         reply.status = 401 /\ calls[c].token # None =>
           verdict'[calls[c].token] \in {"expired", "void"}
  PROVE  /\ calls' \in [Calls -> Call] /\ Others(c)
         /\ Typed(calls[c])' /\ CallFits(calls[c])'
         /\ calls'[c].token = calls[c].token /\ calls'[c].ask = calls[c].ask
         /\ Pending(calls[c])' =>
              calls[c].ask.op = "login" /\ reply.status = 200 /\ calls'[c].reply = reply
<1>1. /\ calls \in [Calls -> Call] /\ calls[c] \in Call /\ Typed(calls[c])
      /\ CallFits(calls[c])
  BY DEF Inv, TypeOK, Typed
<1>2. /\ calls' \in [Calls -> Call] /\ Others(c)
      /\ calls'[c].ask = calls[c].ask
      /\ calls'[c].token = calls[c].token
      /\ calls'[c].place = IF calls[c].outcome = None THEN "answered" ELSE "gone"
      /\ calls'[c].reply = IF calls[c].outcome = None THEN reply ELSE None
      /\ calls'[c].applied = applied
      /\ calls'[c].outcome = calls[c].outcome
  BY <1>1, Answered
<1>3. Typed(calls[c])'
  BY <1>1, <1>2 DEF Typed, Serving
<1>4. calls[c].outcome \notin SaysRefused
  BY <1>1 DEF CallFits, RefusedIsOver, Serving
<1>5. calls[c].outcome # "SessionExpired"
  BY <1>4 DEF SaysRefused
<1>6. CallFits(calls[c])'
  <2>1. EndedIsElsewhere(calls[c])'
    BY <1>2 DEF EndedIsElsewhere
  <2>2. Untouched(calls[c])'
    BY <1>2 DEF Untouched
  <2>3. RefusedIsOver(calls[c])'
    BY <1>2, <1>4 DEF RefusedIsOver
  <2>4. DoneIsDone(calls[c])'
    BY <1>1, <1>2 DEF CallFits, DoneIsDone
  <2>5. TokenFits(calls[c])'
    BY <1>1, <1>2 DEF CallFits, TokenFits
  <2>6. RoomFits(calls[c])'
    BY <1>2 DEF RoomFits
  <2>7. ReplyFits(calls[c])'
    <3>1. CASE calls[c].outcome = None
      <4>1. ReplyFits(calls'[c])
        BY <1>2, <3>1 DEF ReplyFits
      <4> QED BY <4>1
    <3>2. CASE calls[c].outcome # None
      BY <1>2, <3>2 DEF ReplyFits
    <3> QED BY <3>1, <3>2
  <2>8. RefusedToken(calls[c])'
    BY <1>2 DEF RefusedToken
  <2>9. OutcomeFits(calls[c])'
    BY <1>1, <1>2, <1>5 DEF CallFits, OutcomeFits
  <2>10. NameFits(calls[c])'
    BY <1>2 DEF NameFits
  <2> QED BY <2>1, <2>2, <2>3, <2>4, <2>5, <2>6, <2>7, <2>8, <2>9, <2>10 DEF CallFits
<1>7. Pending(calls[c])' =>
        calls[c].ask.op = "login" /\ reply.status = 200 /\ calls'[c].reply = reply
  BY <1>2 DEF Pending
<1> QED BY <1>2, <1>3, <1>6, <1>7

LEMMA AnswerKeeps ==
  ASSUME Inv, NEW c \in Calls, Serving(c), NEW reply \in Reply, NEW applied \in BOOLEAN,
         Answer(c, reply, applied), Fitting(calls[c].ask, reply, applied),
         calls[c].applied => applied,
         reply.status = 401 /\ calls[c].token # None =>
           verdict[calls[c].token] \in {"expired", "void"},
         reply.status # 200 \/ calls[c].ask.op # "login",
         UNCHANGED <<transport, session, verdict, rooms>>, accounts' \subseteq Names
  PROVE  Inv'
<1>1. reply.status = 401 /\ calls[c].token # None =>
        verdict'[calls[c].token] \in {"expired", "void"}
  OBVIOUS
<1> QED BY <1>1, AnsweredFits, OnlyThisCall

LEMMA CarriedKeeps ==
  ASSUME Inv, NEW c \in Calls, Serving(c), NEW body \in {"json", "empty", "oversized"},
         Carried(c, Success(body)), body = "empty" => calls[c].ask.op = "register",
         calls[c].ask.op # "login",
         UNCHANGED <<transport, session, verdict, rooms>>, accounts' \subseteq Names
  PROVE  Inv'
<1> DEFINE reply == Success(body)
           applied == TRUE
<1>1. reply \in Reply /\ reply.status = 200 /\ reply.body = body
  BY SuccessIsReply
<1>2. Answer(c, reply, applied)
  BY DEF Carried
<1> HIDE DEF reply
<1>3. reply.status # 401 /\ applied \in BOOLEAN /\ (calls[c].applied => applied)
  BY <1>1
<1>4. applied
  OBVIOUS
<1> HIDE DEF applied
<1>5. reply.body \in {"json", "empty", "oversized"} /\ reply.body # "envelope"
        /\ reply.body # "text"
  BY <1>1
<1>6. Fitting(calls[c].ask, reply, applied)
  BY <1>1, <1>3, <1>4, <1>5 DEF Fitting
<1> QED BY <1>1, <1>2, <1>3, <1>6, AnswerKeeps

LEMMA RefusalKeeps ==
  ASSUME Inv, NEW c \in Calls, Serving(c),
         NEW status \in {400, 401, 404, 409, 413, 422, 429, 500}, NEW code \in Codes,
         AnswerWith(c, Refusal(status, code)),
         code = "internal" \/ ~calls[c].applied,
         status = 401 => ~calls[c].applied,
         status = 401 /\ calls[c].token # None =>
           verdict[calls[c].token] \in {"expired", "void"},
         UNCHANGED <<transport, session, verdict, accounts, rooms>>
  PROVE  Inv'
<1>1. calls[c].applied \in BOOLEAN
  BY DEF Inv, TypeOK, Call
<1> DEFINE reply == Refusal(status, code)
<1>2. /\ reply \in Reply /\ reply.status = status /\ reply.body = "envelope"
      /\ reply.code = code
  BY RefusalIsReply
<1>3. Answer(c, reply, calls[c].applied)
  BY DEF AnswerWith
<1>4. accounts' \subseteq Names
  BY DEF Inv, TypeOK
<1> HIDE DEF reply
<1>5. reply.status # 200
  BY <1>2
<1>6. Fitting(calls[c].ask, reply, calls[c].applied)
  BY <1>2, <1>5 DEF Fitting
<1> QED BY <1>1, <1>2, <1>3, <1>4, <1>5, <1>6, AnswerKeeps

-----------------------------------------------------------------------------
(* The server's steps. *)

\* Before the store nothing is written, and nobody was told anything final.
LEMMA NothingYet ==
  ASSUME Inv, NEW c \in Calls, calls[c].place \in {"unmade", "dialing", "wire", "handler"}
  PROVE  ~calls[c].applied
BY DEF Inv, CallFits, Untouched

\* The token of a call that was sent and needs one is one that was issued.
LEMMA SentIsIssued ==
  ASSUME Inv, NEW c \in Calls, Serving(c), calls[c].ask.op \in Required
  PROVE  /\ calls[c].token \in Tokens
         /\ verdict[calls[c].token] \in {"good", "expired", "void"}
<1>1. calls[c].token \in Tokens
  BY DEF Inv, TypeOK, Serving
<1>2. verdict[calls[c].token] \in {"unissued", "good", "expired", "void"}
  BY <1>1 DEF Inv, TypeOK
<1>3. verdict[calls[c].token] # "unissued"
  BY <1>1 DEF Inv, TokensFit
<1> QED BY <1>1, <1>2, <1>3

LEMMA RefusalIsSomething ==
  ASSUME NEW status \in {400, 401, 404, 409, 413, 422, 429, 500}, NEW code \in Codes
  PROVE  Refusal(status, code) # None
BY RefusalIsReply, NoneAssumption

LEMMA NamesAreRefused ==
  Refusal(422, "invalid_username") # None /\ Refusal(422, "invalid_name") # None
<1>1. "invalid_username" \in Codes /\ "invalid_name" \in Codes
  BY DEF Codes
<1> QED BY <1>1, RefusalIsSomething

LEMMA BadNameIsRefused ==
  ASSUME NEW ask, ask.with = "bad name", ask.op \in {"register", "create"}
  PROVE  AskComplaint(ask) # None
<1>1. Refusal(422, "invalid_username") # None /\ Refusal(422, "invalid_name") # None
  BY NamesAreRefused, Zenon
<1>2. CASE ask.op = "register"
  <2>1. AskComplaint(ask) = Refusal(422, "invalid_username")
    BY <1>2, ZenonT(30) DEF AskComplaint
  <2> QED BY <1>1, <2>1, Zenon
<1>3. CASE ask.op = "create"
  <2>1. AskComplaint(ask) = Refusal(422, "invalid_name")
    BY <1>3, ZenonT(30) DEF AskComplaint
  <2> QED BY <1>1, <2>1, Zenon
<1> QED BY <1>2, <1>3

LEMMA ReceiveKeeps ==
  ASSUME Inv, NEW c \in Calls, Receive(c)
  PROVE  Inv'
<1> DEFINE ask == calls[c].ask
<1>1. Serving(c) /\ calls[c].place = "wire" /\ ~calls[c].applied /\ calls[c].place # "unmade"
  BY NothingYet DEF Receive, Serving
<1>2. /\ calls \in [Calls -> Call] /\ calls[c] \in Call /\ Typed(calls[c])
      /\ CallFits(calls[c])
  BY DEF Inv, TypeOK, Typed
<1>3. UNCHANGED <<transport, session, verdict, accounts, rooms>> /\ accounts' \subseteq Names
  BY DEF Receive, Inv, TypeOK
<1>4. CASE Complaint(c) # None
  <2>1. AnswerWith(c, Complaint(c))
    BY <1>4 DEF Receive
  <2>2. CASE ask.op \in Required /\ verdict[calls[c].token] = "expired"
    <3>1. Complaint(c) = Refusal(401, "expired_token")
      BY <2>2 DEF Complaint
    <3>2. "expired_token" \in Codes
      BY DEF Codes
    <3>3. AnswerWith(c, Refusal(401, "expired_token"))
      BY <2>1, <3>1
    <3>4. verdict[calls[c].token] \in {"expired", "void"}
      BY <2>2
    <3> HIDE DEF ask
    <3> QED BY <1>1, <1>3, <3>2, <3>3, <3>4, RefusalKeeps
  <2>3. CASE ask.op \in Required /\ verdict[calls[c].token] \notin {"good", "expired"}
    <3>1. Complaint(c) = Refusal(401, "unauthorized")
      BY <2>3 DEF Complaint
    <3>2. "unauthorized" \in Codes
      BY DEF Codes
    <3>3. AnswerWith(c, Refusal(401, "unauthorized"))
      BY <2>1, <3>1
    <3>4. verdict[calls[c].token] \in {"expired", "void"}
      BY <1>1, <2>3, SentIsIssued
    <3> QED BY <1>1, <1>3, <3>2, <3>3, <3>4, RefusalKeeps
  <2>4. CASE ask.op \notin Required \/ verdict[calls[c].token] = "good"
    <3> DEFINE text == [status |-> 400, body |-> "text", code |-> None, token |-> None]
    <3>1. Complaint(c) =
            CASE ask.with = "beyond u32" -> text
              [] ask.with = "huge"  -> Refusal(400, "invalid_body")
              [] ask.with = "large" -> Refusal(413, "message_too_large")
              [] ask.with = "empty" -> Refusal(422, "invalid_body")
              [] ask.with = "bad name" /\ ask.op = "register" -> Refusal(422, "invalid_username")
              [] ask.with = "bad name" /\ ask.op = "create"   -> Refusal(422, "invalid_name")
              [] OTHER -> None
      <4>1. Complaint(c) = AskComplaint(ask)
        BY <2>4 DEF Complaint
      <4> QED BY <4>1 DEF AskComplaint
    <3>2. CASE ask.with = "beyond u32"
      <4>1. Complaint(c) = text
        BY <3>1, <3>2
      <4>2. /\ text \in Reply /\ text.status = 400 /\ text.body = "text"
        BY DEF Reply
      <4>3. Answer(c, text, calls[c].applied) /\ calls[c].applied \in BOOLEAN
        BY <1>2, <2>1, <4>1 DEF AnswerWith, Call
      <4>4. Fitting(ask, text, calls[c].applied)
        <5>1. /\ text.status # 200 /\ text.status # 401 /\ text.body # "envelope"
              /\ text.body \notin {"json", "empty", "oversized"}
          BY <4>2
        <5> HIDE DEF text
        <5> QED BY <3>2, <5>1 DEF Fitting
      <4>5. text.status # 401 /\ text.status # 200
        BY <4>2
      <4> HIDE DEF text
      <4> QED BY <1>1, <1>3, <4>2, <4>3, <4>4, <4>5, AnswerKeeps
    <3>3. CASE ask.with # "beyond u32"
      <4>1. \E status \in {400, 413, 422}, code \in Codes : Complaint(c) = Refusal(status, code)
        <5>1. /\ "invalid_body" \in Codes /\ "message_too_large" \in Codes
              /\ "invalid_username" \in Codes /\ "invalid_name" \in Codes
          BY DEF Codes
        <5>2. CASE ask.with = "huge"
          <6>1. Complaint(c) = Refusal(400, "invalid_body")
            BY <3>1, <5>2
          <6> QED BY <5>1, <6>1
        <5>3. CASE ask.with = "large"
          <6>1. Complaint(c) = Refusal(413, "message_too_large")
            BY <3>1, <5>3
          <6> QED BY <5>1, <6>1
        <5>4. CASE ask.with = "empty"
          <6>1. Complaint(c) = Refusal(422, "invalid_body")
            BY <3>1, <5>4
          <6> QED BY <5>1, <6>1
        <5>5. CASE ask.with = "bad name" /\ ask.op = "register"
          <6>1. Complaint(c) = Refusal(422, "invalid_username")
            BY <3>1, <5>5
          <6> QED BY <5>1, <6>1
        <5>6. CASE ask.with = "bad name" /\ ask.op = "create"
          <6>1. Complaint(c) = Refusal(422, "invalid_name")
            BY <3>1, <5>6
          <6> QED BY <5>1, <6>1
        <5>7. CASE /\ ask.with \notin {"huge", "large", "empty"}
                   /\ ~(ask.with = "bad name" /\ ask.op \in {"register", "create"})
          <6>1. Complaint(c) = None
            BY <3>1, <3>3, <5>7, ZenonT(30)
          <6> QED BY <1>4, <6>1
        <5> QED BY <5>2, <5>3, <5>4, <5>5, <5>6, <5>7
      <4>2. PICK status \in {400, 413, 422}, code \in Codes : Complaint(c) = Refusal(status, code)
        BY <4>1
      <4>3. AnswerWith(c, Refusal(status, code))
        BY <2>1, <4>2
      <4> QED BY <1>1, <1>3, <4>3, RefusalKeeps
    <3> QED BY <3>2, <3>3
  <2> QED BY <2>2, <2>3, <2>4
<1>5. CASE Complaint(c) = None /\ ask.op \in {"health", "info"}
  <2>1. Carried(c, Success("json")) /\ ask.op # "login"
    BY <1>5 DEF Receive
  <2> QED BY <1>1, <1>3, <2>1, CarriedKeeps
<1>6. CASE Complaint(c) = None /\ ask.op \notin {"health", "info"}
  <2>1. MoveTo(c, "handler") /\ "handler" \in Places
    BY <1>6 DEF Receive, Places
  <2>2. /\ calls' \in [Calls -> Call] /\ Others(c)
        /\ calls'[c].ask = calls[c].ask
        /\ calls'[c].token = calls[c].token
        /\ calls'[c].place = "handler"
        /\ calls'[c].reply = calls[c].reply
        /\ calls'[c].applied = calls[c].applied
        /\ calls'[c].outcome = calls[c].outcome
    BY <1>2, <2>1, Moved
  <2>3. Typed(calls[c])'
    BY <1>1, <1>2, <2>2 DEF Typed
  <2>4. calls[c].outcome \notin SaysRefused /\ calls[c].outcome # "SessionExpired"
    BY <1>1, <1>2 DEF CallFits, RefusedIsOver, SaysRefused
  <2>5. CallFits(calls[c])'
    <3>1. EndedIsElsewhere(calls[c])' /\ Untouched(calls[c])'
      BY <1>1, <2>2 DEF EndedIsElsewhere, Untouched
    <3>2. RefusedIsOver(calls[c])'
      BY <2>2, <2>4 DEF RefusedIsOver
    <3>3. DoneIsDone(calls[c])'
      BY <1>2, <2>2 DEF CallFits, DoneIsDone
    <3>4. TokenFits(calls[c])'
      BY <1>2, <2>2 DEF CallFits, TokenFits
    <3>7. NameFits(calls[c])'
      <4>1. CASE ask.op \in {"register", "create"}
        <5>1. ask \in AllAsks
          BY <1>1, <1>2, RequestsAssumption DEF Typed
        <5>2. ask.with \in Names \cup {"bad name"}
          BY <4>1, <5>1 DEF AllAsks
        <5>3. ask.with # "bad name"
          <6>1. ASSUME ask.with = "bad name" PROVE FALSE
            <7>1. AskComplaint(ask) # None
              BY <4>1, <6>1, BadNameIsRefused
            <7>2. Complaint(c) # None
              <8>1. "expired_token" \in Codes /\ "unauthorized" \in Codes
                BY DEF Codes
              <8>2. Refusal(401, "expired_token") # None /\ Refusal(401, "unauthorized") # None
                BY <8>1, RefusalIsSomething
              <8> QED BY <7>1, <8>2 DEF Complaint
            <7> QED BY <1>6, <7>2
          <6> QED BY <6>1
        <5> QED BY <2>2, <5>2, <5>3 DEF NameFits
      <4>2. CASE ask.op \notin {"register", "create"}
        BY <2>2, <4>2 DEF NameFits
      <4> QED BY <4>1, <4>2
    <3>5. RoomFits(calls[c])' /\ ReplyFits(calls[c])' /\ RefusedToken(calls[c])'
      BY <2>2 DEF RoomFits, ReplyFits, RefusedToken
    <3>6. OutcomeFits(calls[c])'
      BY <1>2, <2>2, <2>4 DEF CallFits, OutcomeFits
    <3> QED BY <3>1, <3>2, <3>3, <3>4, <3>5, <3>6, <3>7 DEF CallFits
  <2>6. ~Pending(calls[c])'
    BY <2>2 DEF Pending
  <2> QED BY <1>3, <2>2, <2>3, <2>5, <2>6, OnlyThisCall
<1> QED BY <1>4, <1>5, <1>6

LEMMA RegisterKeeps ==
  ASSUME Inv, NEW c \in Calls, Register(c)
  PROVE  Inv'
<1>1. /\ Serving(c) /\ ~calls[c].applied /\ calls[c].ask.op = "register"
      /\ calls[c].ask.op # "login"
  BY NothingYet DEF Register, At, Serving
<1>2. UNCHANGED <<transport, session, verdict, rooms>>
  BY DEF Register
<1>3. "username_taken" \in Codes /\ "cap_exceeded" \in Codes
  BY DEF Codes
<1>4. CASE AnswerWith(c, Refusal(409, "username_taken")) /\ UNCHANGED accounts
  BY <1>1, <1>2, <1>3, <1>4, RefusalKeeps
<1>5. CASE AnswerWith(c, Refusal(429, "cap_exceeded")) /\ UNCHANGED accounts
  BY <1>1, <1>2, <1>3, <1>5, RefusalKeeps
<1>6. CASE Carried(c, Success("empty")) /\ accounts' = accounts \cup {calls[c].ask.with}
             /\ calls[c].ask.with \in Names
  <2>1. accounts' \subseteq Names
    BY <1>6 DEF Inv, TypeOK
  <2> QED BY <1>1, <1>2, <1>6, <2>1, CarriedKeeps
<1>7. calls[c].ask.with \in Names
  BY DEF Register, At, Inv, CallFits, NameFits
<1> QED BY <1>4, <1>5, <1>6, <1>7 DEF Register

LEMMA ListRoomsKeeps ==
  ASSUME Inv, NEW c \in Calls, ListRooms(c)
  PROVE  Inv'
<1>1. /\ Serving(c) /\ calls[c].ask.op # "login" /\ Carried(c, Success("json"))
      /\ UNCHANGED <<transport, session, verdict, rooms>> /\ accounts' \subseteq Names
  BY DEF ListRooms, At, Serving, Inv, TypeOK
<1> QED BY <1>1, CarriedKeeps

LEMMA PostKeeps ==
  ASSUME Inv, NEW c \in Calls, Post(c)
  PROVE  Inv'
<1>1. /\ Serving(c) /\ calls[c].ask.op # "login" /\ ~calls[c].applied
      /\ UNCHANGED <<transport, session, verdict, accounts, rooms>> /\ accounts' \subseteq Names
  BY NothingYet DEF Post, At, Serving, Inv, TypeOK
<1>2. CASE calls[c].ask.room = "here"
  <2>1. Carried(c, Success("json"))
    BY <1>2 DEF Post
  <2> QED BY <1>1, <2>1, CarriedKeeps
<1>3. CASE calls[c].ask.room # "here"
  <2>1. AnswerWith(c, Refusal(404, "room_not_found")) /\ "room_not_found" \in Codes
    BY <1>3 DEF Post, Codes
  <2> QED BY <1>1, <2>1, RefusalKeeps
<1> QED BY <1>2, <1>3

LEMMA ListMessagesKeeps ==
  ASSUME Inv, NEW c \in Calls, ListMessages(c)
  PROVE  Inv'
<1>1. /\ Serving(c) /\ calls[c].ask.op # "login" /\ ~calls[c].applied
      /\ UNCHANGED <<transport, session, verdict, accounts, rooms>> /\ accounts' \subseteq Names
  BY NothingYet DEF ListMessages, At, Serving, Inv, TypeOK
<1>2. CASE calls[c].ask.room = "here"
  <2>1. PICK body \in {"json", "oversized"} : Carried(c, Success(body))
    BY <1>2 DEF ListMessages
  <2>2. body \in {"json", "empty", "oversized"} /\ body # "empty"
    OBVIOUS
  <2> QED BY <1>1, <2>1, <2>2, CarriedKeeps
<1>3. CASE calls[c].ask.room # "here"
  <2>1. AnswerWith(c, Refusal(404, "room_not_found")) /\ "room_not_found" \in Codes
    BY <1>3 DEF ListMessages, Codes
  <2> QED BY <1>1, <2>1, RefusalKeeps
<1> QED BY <1>2, <1>3

LEMMA StoreFailsKeeps ==
  ASSUME Inv, NEW c \in Calls, StoreFails(c)
  PROVE  Inv'
<1>1. /\ Serving(c) /\ AnswerWith(c, Refusal(500, "internal")) /\ "internal" \in Codes
      /\ UNCHANGED <<transport, session, verdict, accounts, rooms>>
  BY DEF StoreFails, Serving, Codes
<1> QED BY <1>1, RefusalKeeps

LEMMA ReadRoomKeeps ==
  ASSUME Inv, NEW c \in Calls, ReadRoom(c)
  PROVE  Inv'
<1>1. RoomFits(calls[c]) /\ calls[c].place = "readback"
  BY DEF Inv, CallFits, ReadRoom
<1>2. /\ Serving(c) /\ calls[c].ask.op # "login"
      /\ calls[c].applied <=> calls[c].ask.with \in rooms
      /\ UNCHANGED <<transport, session, verdict, accounts, rooms>> /\ accounts' \subseteq Names
  BY <1>1 DEF ReadRoom, Serving, Inv, TypeOK, RoomFits
<1>3. CASE calls[c].ask.with \in rooms
  <2>1. calls[c].applied = TRUE
    BY <1>2, <1>3 DEF Inv, TypeOK, Call
  <2>2. Carried(c, Success("json"))
    BY <1>3, <2>1 DEF ReadRoom, AnswerWith, Carried
  <2> QED BY <1>2, <2>2, CarriedKeeps
<1>4. CASE calls[c].ask.with \notin rooms
  <2>1. AnswerWith(c, Refusal(429, "cap_exceeded")) /\ "cap_exceeded" \in Codes
    BY <1>4 DEF ReadRoom, Codes
  <2> QED BY <1>2, <1>4, <2>1, RefusalKeeps
<1> QED BY <1>3, <1>4

\* The first statement of create, but for the rooms.
LEMMA CreatedFits ==
  ASSUME Inv, NEW c \in Calls, calls' \in [Calls -> Call], Others(c),
         UNCHANGED <<transport, session, verdict, accounts>>, rooms' \subseteq Names,
         calls[c].place = "handler", calls[c].ask.op = "create",
         calls'[c].place = "readback", calls'[c].ask = calls[c].ask,
         calls'[c].token = calls[c].token, calls'[c].outcome = calls[c].outcome,
         calls[c].outcome \notin SaysRefused, calls[c].outcome # "Ok",
         calls[c].outcome # "SessionExpired",
         Typed(calls[c])', RoomFits(calls[c])', \A d \in Calls \ {c} : RoomFits(calls[d])'
  PROVE  Inv'
<1>1. CallFits(calls[c])
  BY DEF Inv
<1>2. CallFits(calls[c])'
  <2>1. EndedIsElsewhere(calls[c])' /\ Untouched(calls[c])'
    BY <1>1 DEF EndedIsElsewhere, Untouched
  <2>2. RefusedIsOver(calls[c])' /\ DoneIsDone(calls[c])'
    BY DEF RefusedIsOver, DoneIsDone
  <2>3. TokenFits(calls[c])' /\ NameFits(calls[c])'
    BY <1>1 DEF CallFits, TokenFits, NameFits
  <2>4. ReplyFits(calls[c])' /\ RefusedToken(calls[c])'
    BY DEF ReplyFits, RefusedToken
  <2>5. OutcomeFits(calls[c])'
    BY <1>1 DEF CallFits, OutcomeFits
  <2> QED BY <2>1, <2>2, <2>3, <2>4, <2>5 DEF CallFits
<1>3. ASSUME NEW d \in Calls \ {c}
      PROVE  RefusedToken(calls[d])' /\ OutcomeFits(calls[d])'
  <2>1. calls'[d] = calls[d] /\ CallFits(calls[d])
    BY DEF Others, Inv
  <2>2. RefusedToken(calls[d])'
    BY <2>1 DEF CallFits, RefusedToken
  <2>3. OutcomeFits(calls[d])'
    BY <2>1 DEF CallFits, OutcomeFits
  <2> QED BY <2>2, <2>3
<1>4. \A d \in Calls : calls'[d].token = calls[d].token
  BY DEF Others
<1>5. \A d \in Calls : Pending(calls[d])' => Pending(calls[d]) /\ calls'[d] = calls[d]
  BY DEF Others, Pending
<1>6. TokensFit'
  BY <1>4, <1>5 DEF Inv, TokensFit
<1>7. /\ transport' \in {"tcp", "scion"} /\ session' \in Tokens \cup {None}
      /\ verdict' \in [Tokens -> {"unissued", "good", "expired", "void"}]
      /\ accounts' \subseteq Names
  BY DEF Inv, TypeOK
<1> QED BY <1>2, <1>3, <1>6, <1>7, Composed

\* A room that is made where there is place for one makes none of those that
\* are looked for vanish, and none appear: who is still looking found its own.
LEMMA InsertRoomKeeps ==
  ASSUME Inv, NEW c \in Calls, InsertRoom(c)
  PROVE  Inv'
<1> DEFINE name == calls[c].ask.with
<1>1. /\ calls \in [Calls -> Call] /\ calls[c] \in Call /\ Typed(calls[c])
      /\ CallFits(calls[c]) /\ calls[c].place = "handler" /\ calls[c].ask.op = "create"
  BY DEF Inv, TypeOK, Typed, InsertRoom, At
<1>2. name \in Names
  BY <1>1 DEF CallFits, NameFits
<1>3. UNCHANGED <<transport, session, verdict, accounts>>
  BY DEF InsertRoom
<1>4. /\ rooms' = IF Cardinality(rooms) + 1 < MaxRooms THEN rooms \cup {name} ELSE rooms
      /\ calls' = [calls EXCEPT ![c].place = "readback", ![c].applied = name \in rooms']
  BY DEF InsertRoom
<1> DEFINE found == name \in rooms'
<1>5. calls' = [calls EXCEPT ![c] = [calls[c] EXCEPT !.place = "readback", !.applied = found]]
  BY <1>4
<1>6. found \in BOOLEAN /\ "readback" \in Places
  BY DEF Places
<1>7. found <=> name \in rooms'
  OBVIOUS
<1> HIDE DEF found
<1>8. [calls[c] EXCEPT !.place = "readback", !.applied = found] \in Call
  BY <1>1, <1>6 DEF Call
<1>9. /\ calls' \in [Calls -> Call] /\ Others(c)
  BY <1>1, <1>5, <1>8 DEF Others
<1>10. /\ calls'[c].place = "readback" /\ calls'[c].applied = found
       /\ calls'[c].ask = calls[c].ask /\ calls'[c].token = calls[c].token
       /\ calls'[c].reply = calls[c].reply /\ calls'[c].outcome = calls[c].outcome
  BY <1>1, <1>5 DEF Call
<1>11. rooms' \subseteq Names
  BY <1>2, <1>4 DEF Inv, TypeOK
<1>12. Typed(calls[c])'
  BY <1>1, <1>9, <1>10 DEF Typed
<1>13. calls[c].outcome \notin SaysRefused /\ calls[c].outcome # "Ok"
         /\ calls[c].outcome # "SessionExpired" /\ ~calls[c].applied
  BY <1>1 DEF CallFits, RefusedIsOver, SaysRefused, DoneIsDone, Untouched
<1>14. CASE Cardinality(rooms) + 1 < MaxRooms
  <2>1. rooms' = rooms \cup {name} /\ found
    BY <1>4, <1>7, <1>14
  <2>2. RoomFits(calls[c])'
    BY <1>1, <1>10, <2>1 DEF RoomFits
  <2>3. ASSUME NEW d \in Calls \ {c} PROVE RoomFits(calls[d])'
    <3>1. calls'[d] = calls[d] /\ RoomFits(calls[d])
      BY <1>9 DEF Others, Inv, CallFits
    <3>2. calls[d].place = "readback" =>
            calls[d].applied /\ calls[d].ask.with \in rooms /\ calls[d].ask.op = "create"
      BY <1>14, <3>1 DEF RoomFits
    <3> QED BY <2>1, <3>1, <3>2 DEF RoomFits
  <2> QED BY <2>2, <2>3, <1>1, <1>3, <1>9, <1>10, <1>11, <1>12, <1>13, CreatedFits
<1>15. CASE ~(Cardinality(rooms) + 1 < MaxRooms)
  <2>1. rooms' = rooms
    BY <1>4, <1>15
  <2>2. RoomFits(calls[c])'
    BY <1>1, <1>7, <1>10, <1>15, <2>1 DEF RoomFits
  <2>3. ASSUME NEW d \in Calls \ {c} PROVE RoomFits(calls[d])'
    <3>1. calls'[d] = calls[d] /\ RoomFits(calls[d])
      BY <1>9 DEF Others, Inv, CallFits
    <3> QED BY <2>1, <3>1 DEF RoomFits
  <2> QED BY <2>2, <2>3, <1>1, <1>3, <1>9, <1>10, <1>11, <1>12, <1>13, CreatedFits
<1> QED BY <1>14, <1>15

\* A token that is issued was nobody's before.
LEMMA LoginKeeps ==
  ASSUME Inv, NEW c \in Calls, Login(c)
  PROVE  Inv'
<1>1. /\ Serving(c) /\ ~calls[c].applied /\ calls[c].ask.op = "login"
      /\ UNCHANGED <<transport, session, accounts, rooms>>
      /\ calls \in [Calls -> Call] /\ calls[c] \in Call /\ CallFits(calls[c])
  BY NothingYet DEF Login, At, Serving, Inv, TypeOK
<1>2. CASE AnswerWith(c, Refusal(401, "invalid_credentials")) /\ UNCHANGED verdict
  <2>1. "invalid_credentials" \in Codes
    BY DEF Codes
  <2>2. calls[c].token = None
    BY <1>1 DEF CallFits, TokenFits, Required
  <2> QED BY <1>1, <1>2, <2>1, <2>2, RefusalKeeps
<1>3. ASSUME NEW t \in Tokens, verdict[t] = "unissued",
             verdict' = [verdict EXCEPT ![t] = "good"],
             Carried(c, [Success("json") EXCEPT !.token = t])
      PROVE  Inv'
  <2> DEFINE reply == [Success("json") EXCEPT !.token = t]
             applied == TRUE
  <2>1. reply \in Reply /\ reply.status = 200 /\ reply.body = "json" /\ reply.token = t
    <3>1. reply = [status |-> 200, body |-> "json", code |-> None, token |-> t]
      BY DEF Success
    <3> QED BY <3>1 DEF Reply
  <2>2. Answer(c, reply, applied) /\ applied /\ applied \in BOOLEAN
    BY <1>3 DEF Carried
  <2> HIDE DEF reply, applied
  <2>3. reply.body # "envelope" /\ reply.body # "text" /\ reply.status # 401
    BY <2>1
  <2>4. Fitting(calls[c].ask, reply, applied)
    BY <2>1, <2>2, <2>3 DEF Fitting
  <2>5. /\ calls' \in [Calls -> Call] /\ Others(c)
        /\ Typed(calls[c])' /\ CallFits(calls[c])'
        /\ calls'[c].token = calls[c].token
        /\ Pending(calls[c])' => calls'[c].reply = reply
    <3>1. calls[c].applied => applied
      BY <2>2
    <3>2. reply.status = 401 /\ calls[c].token # None =>
            verdict'[calls[c].token] \in {"expired", "void"}
      BY <2>3
    <3>3. UNCHANGED session /\ Serving(c) /\ reply \in Reply /\ applied \in BOOLEAN
      BY <1>1, <2>1, <2>2
    <3>4. Answer(c, reply, applied)
      BY <2>2
    <3> QED BY <2>4, <3>1, <3>2, <3>3, <3>4, AnsweredFits
  <2>6. verdict \in [Tokens -> {"unissued", "good", "expired", "void"}]
    BY DEF Inv, TypeOK
  <2>7. verdict' \in [Tokens -> {"unissued", "good", "expired", "void"}]
    BY <1>3, <2>6
  <2>8. /\ verdict'[t] = "good"
        /\ \A u \in Tokens : verdict[u] # "unissued" => verdict'[u] = verdict[u] /\ u # t
    BY <1>3, <2>6
  <2>9. ASSUME NEW d \in Calls \ {c}
        PROVE  RoomFits(calls[d])' /\ RefusedToken(calls[d])' /\ OutcomeFits(calls[d])'
    <3>1. calls'[d] = calls[d] /\ CallFits(calls[d])
      BY <2>5 DEF Others, Inv
    <3>2. RoomFits(calls[d])'
      BY <1>1, <3>1 DEF CallFits, RoomFits
    <3>3. RefusedToken(calls[d])'
      BY <2>8, <3>1 DEF CallFits, RefusedToken, TokenFits
    <3>4. OutcomeFits(calls[d])'
      BY <1>1, <2>8, <3>1 DEF CallFits, OutcomeFits
    <3> QED BY <3>2, <3>3, <3>4
  <2>10. /\ session \in Tokens \cup {None} /\ session # t
         /\ \A d \in Calls : calls'[d].token = calls[d].token
         /\ \A d \in Calls : calls[d].token \in Tokens \cup {None} /\ calls[d].token # t
    <3>1. session \in Tokens \cup {None} /\ session # t
      BY <1>3, NoneAssumption DEF Inv, TypeOK, TokensFit
    <3>2. \A d \in Calls : calls[d].token \in Tokens \cup {None} /\ calls[d].token # t
      BY <1>3, NoneAssumption DEF Inv, TypeOK, TokensFit, Call
    <3>3. \A d \in Calls : calls'[d].token = calls[d].token
      BY <2>5 DEF Others
    <3> QED BY <3>1, <3>2, <3>3
  <2>11. ASSUME NEW d \in Calls, d # c, Pending(calls[d])'
         PROVE  /\ Pending(calls[d]) /\ calls'[d].reply = calls[d].reply
                /\ calls[d].reply.token \in Tokens
                /\ calls[d].reply.token # t
                /\ verdict[calls[d].reply.token] # "unissued"
    <3>1. calls'[d] = calls[d] /\ CallFits(calls[d])
      BY <2>5, <2>11 DEF Others, Inv
    <3>2. Pending(calls[d])
      BY <2>11, <3>1 DEF Pending
    <3>3. verdict[calls[d].reply.token] # "unissued"
      BY <3>2 DEF Inv, TokensFit
    <3>4. calls[d].reply.token \in Tokens
      BY <3>1, <3>2 DEF CallFits, ReplyFits, Fitting, Pending
    <3> QED BY <1>3, <3>1, <3>2, <3>3, <3>4
  <2>12. TokensFit'
    <3>1. session' # None => verdict'[session'] # "unissued"
      BY <1>1, <2>8, <2>10 DEF Inv, TokensFit
    <3>2. ASSUME NEW d \in Calls
          PROVE  calls'[d].token \in Tokens => verdict'[calls'[d].token] # "unissued"
      BY <2>8, <2>10 DEF Inv, TokensFit
    <3>3. ASSUME NEW d \in Calls, Pending(calls[d])'
          PROVE  /\ calls'[d].reply.token # session'
                 /\ verdict'[calls'[d].reply.token] # "unissued"
      <4>1. CASE d = c
        BY <1>1, <2>1, <2>5, <2>8, <2>10, <3>3, <4>1
      <4>2. CASE d # c
        <5>1. calls[d].reply.token # session
          BY <2>11, <3>3, <4>2 DEF Inv, TokensFit
        <5> QED BY <1>1, <2>8, <2>11, <3>3, <4>2, <5>1
      <4> QED BY <4>1, <4>2
    <3>4. ASSUME NEW d \in Calls, NEW e \in Calls, Pending(calls[d])'
          PROVE  /\ calls'[e].token # calls'[d].reply.token
                 /\ Pending(calls[e])' /\ d # e =>
                      calls'[e].reply.token # calls'[d].reply.token
      <4>1. CASE d = c
        BY <2>1, <2>5, <2>10, <2>11, <3>4, <4>1
      <4>2. CASE d # c
        <5>1. Pending(calls[d]) /\ calls'[d].reply = calls[d].reply /\ calls[d].reply.token # t
          BY <2>11, <3>4, <4>2
        <5>2. calls'[e].token # calls'[d].reply.token
          BY <2>10, <5>1 DEF Inv, TokensFit
        <5>3. CASE e = c
          BY <2>1, <2>5, <5>1, <5>2, <5>3
        <5>4. CASE e # c
          <6>1. Pending(calls[e])' =>
                  Pending(calls[e]) /\ calls'[e].reply = calls[e].reply
            BY <2>11, <5>4
          <6> QED BY <5>1, <5>2, <6>1 DEF Inv, TokensFit
        <5> QED BY <5>3, <5>4
      <4> QED BY <4>1, <4>2
    <3> QED BY <3>1, <3>2, <3>3, <3>4 DEF TokensFit
  <2>13. /\ transport' \in {"tcp", "scion"} /\ session' \in Tokens \cup {None}
         /\ accounts' \subseteq Names /\ rooms' \subseteq Names
    BY <1>1 DEF Inv, TypeOK
  <2> QED BY <2>5, <2>7, <2>9, <2>12, <2>13, Composed
<1> QED BY <1>2, <1>3 DEF Login

LEMMA DropKeeps ==
  ASSUME Inv, NEW c \in Calls, Drop(c)
  PROVE  Inv'
<1>1. /\ calls \in [Calls -> Call] /\ calls[c] \in Call /\ Typed(calls[c])
      /\ CallFits(calls[c])
  BY DEF Inv, TypeOK, Typed
<1>2. /\ calls' \in [Calls -> Call] /\ Others(c)
      /\ calls'[c].ask = calls[c].ask
      /\ calls'[c].token = calls[c].token
      /\ calls'[c].place = "gone"
      /\ calls'[c].applied = calls[c].applied
      /\ calls'[c].outcome = calls[c].outcome /\ calls[c].outcome # None
  BY <1>1, Moved DEF Drop, Places
<1>3. calls[c].place \in {"wire", "handler", "readback"}
  BY DEF Drop
<1>4. Typed(calls[c])'
  BY <1>1, <1>2, <1>3 DEF Typed
<1>5. CallFits(calls[c])'
  <2>1. EndedIsElsewhere(calls[c])' /\ Untouched(calls[c])'
    BY <1>2 DEF EndedIsElsewhere, Untouched
  <2>2. RefusedIsOver(calls[c])'
    BY <1>1, <1>2, <1>3 DEF CallFits, RefusedIsOver
  <2>3. DoneIsDone(calls[c])'
    BY <1>1, <1>2 DEF CallFits, DoneIsDone
  <2>4. TokenFits(calls[c])'
    BY <1>1, <1>2, <1>3 DEF CallFits, TokenFits
  <2>5. NameFits(calls[c])' /\ RoomFits(calls[c])' /\ ReplyFits(calls[c])' /\ RefusedToken(calls[c])'
    BY <1>2 DEF NameFits, RoomFits, ReplyFits, RefusedToken
  <2>6. OutcomeFits(calls[c])'
    BY <1>1, <1>2 DEF CallFits, OutcomeFits, Drop
  <2> QED BY <2>1, <2>2, <2>3, <2>4, <2>5, <2>6 DEF CallFits
<1>6. ~Pending(calls[c])'
  BY <1>2 DEF Pending
<1>7. UNCHANGED <<transport, session, verdict, rooms>> /\ accounts' \subseteq Names
  BY DEF Drop, Inv, TypeOK
<1> QED BY <1>2, <1>4, <1>5, <1>6, <1>7, OnlyThisCall

LEMMA DialKeeps ==
  ASSUME Inv, NEW c \in Calls, Dial(c)
  PROVE  Inv'
<1>1. /\ calls \in [Calls -> Call] /\ calls[c] \in Call /\ Typed(calls[c])
      /\ CallFits(calls[c])
  BY DEF Inv, TypeOK, Typed
<1>2. /\ calls' \in [Calls -> Call] /\ Others(c)
      /\ calls'[c].ask = calls[c].ask
      /\ calls'[c].token = calls[c].token
      /\ calls'[c].place = "wire"
      /\ calls'[c].applied = calls[c].applied
      /\ calls'[c].outcome = calls[c].outcome
  BY <1>1, Moved DEF Dial, Places
<1>3. calls[c].place = "dialing" /\ calls[c].outcome = None
  BY DEF Dial, Waiting
<1>4. Typed(calls[c])'
  BY <1>1, <1>2, <1>3 DEF Typed
<1>5. None \notin SaysRefused /\ None # "Ok" /\ None # "SessionExpired" /\ None # "Protocol"
  BY NoneAssumption DEF SaysRefused, Outcomes, TransportErrors
<1>6. CallFits(calls[c])'
  <2>1. EndedIsElsewhere(calls[c])'
    BY <1>2 DEF EndedIsElsewhere
  <2>2. Untouched(calls[c])'
    BY <1>1, <1>2, <1>3 DEF CallFits, Untouched
  <2>3. RefusedIsOver(calls[c])' /\ DoneIsDone(calls[c])' /\ OutcomeFits(calls[c])'
    BY <1>2, <1>3, <1>5 DEF RefusedIsOver, DoneIsDone, OutcomeFits
  <2>4. TokenFits(calls[c])'
    BY <1>1, <1>2, <1>3 DEF CallFits, TokenFits
  <2>5. NameFits(calls[c])' /\ RoomFits(calls[c])' /\ ReplyFits(calls[c])' /\ RefusedToken(calls[c])'
    BY <1>2 DEF NameFits, RoomFits, ReplyFits, RefusedToken
  <2> QED BY <2>1, <2>2, <2>3, <2>4, <2>5 DEF CallFits
<1>7. ~Pending(calls[c])'
  BY <1>2 DEF Pending
<1>8. UNCHANGED <<transport, session, verdict, rooms>> /\ accounts' \subseteq Names
  BY DEF Dial, Inv, TypeOK
<1> QED BY <1>2, <1>4, <1>6, <1>7, <1>8, OnlyThisCall

\* A call is made with the session's token or with none.
LEMMA MakeKeeps ==
  ASSUME Inv, NEW c \in Calls, NEW ask \in Asks, Make(c, ask)
  PROVE  Inv'
<1>1. /\ calls \in [Calls -> Call] /\ calls[c] \in Call /\ Typed(calls[c])
      /\ CallFits(calls[c]) /\ calls[c].place = "unmade" /\ session \in Tokens \cup {None}
  BY DEF Inv, TypeOK, Typed, Make
<1>2. ~calls[c].applied /\ calls[c].token = None /\ calls[c].outcome = None
  BY <1>1 DEF CallFits, Untouched, TokenFits, EndedIsElsewhere
<1>3. UNCHANGED <<transport, session, verdict, accounts, rooms>>
  BY DEF Make
<1>4. PICK place \in {"gone", "dialing"}, token \in {session, None},
           outcome \in {None, "NotLoggedIn"} :
        /\ calls' = [calls EXCEPT ![c] = [calls[c] EXCEPT !.ask = ask, !.place = place,
                                                         !.token = token, !.outcome = outcome]]
        /\ place = "gone" <=> outcome = "NotLoggedIn"
        /\ place = "gone" => token = None
        /\ place = "dialing" => token = IF ask.op \in Required THEN session ELSE None
        /\ place = "dialing" => ask.op \notin Required \/ session # None
  <2>1. CASE ask.op \in Required /\ session = None
    <3>1. calls' = [calls EXCEPT ![c].ask = ask, ![c].place = "gone",
                                 ![c].outcome = "NotLoggedIn"]
      BY <2>1 DEF Make
    <3>2. [calls[c] EXCEPT !.ask = ask, !.place = "gone", !.outcome = "NotLoggedIn"] =
          [calls[c] EXCEPT !.ask = ask, !.place = "gone", !.token = None, !.outcome = "NotLoggedIn"]
      BY <1>1, <1>2 DEF Call
    <3>3. calls' = [calls EXCEPT ![c] =
            [calls[c] EXCEPT !.ask = ask, !.place = "gone", !.outcome = "NotLoggedIn"]]
      BY <3>1
    <3> QED BY <3>2, <3>3
  <2>2. CASE ~(ask.op \in Required /\ session = None)
    <3> DEFINE token == IF ask.op \in Required THEN session ELSE None
    <3>1. calls' = [calls EXCEPT ![c].ask = ask, ![c].place = "dialing", ![c].token = token]
      BY <2>2 DEF Make
    <3>2. token \in {session, None}
      OBVIOUS
    <3>3. "dialing" # "gone" /\ None # "NotLoggedIn"
      BY NoneAssumption DEF Outcomes
    <3>4. ask.op \notin Required \/ session # None
      BY <2>2
    <3>5. token = IF ask.op \in Required THEN session ELSE None
      OBVIOUS
    <3> HIDE DEF token
    <3>6. [calls[c] EXCEPT !.ask = ask, !.place = "dialing", !.token = token] =
          [calls[c] EXCEPT !.ask = ask, !.place = "dialing", !.token = token, !.outcome = None]
      BY <1>1, <1>2 DEF Call
    <3>7. calls' = [calls EXCEPT ![c] =
            [calls[c] EXCEPT !.ask = ask, !.place = "dialing", !.token = token]]
      BY <3>1
    <3>8. calls' = [calls EXCEPT ![c] = [calls[c] EXCEPT !.ask = ask, !.place = "dialing",
                                                        !.token = token, !.outcome = None]]
      BY <3>6, <3>7
    <3> QED BY <3>2, <3>3, <3>4, <3>5, <3>8
  <2> QED BY <2>1, <2>2
<1>5. /\ place \in Places /\ token \in Tokens \cup {None} /\ outcome \in Outcomes \cup {None}
      /\ ask \in Asks \cup {None}
  BY <1>1, <1>4 DEF Places, Outcomes
<1>6. [calls[c] EXCEPT !.ask = ask, !.place = place, !.token = token, !.outcome = outcome] \in Call
  BY <1>1, <1>5 DEF Call
<1>7. calls' \in [Calls -> Call] /\ Others(c)
  BY <1>1, <1>4, <1>6 DEF Others
<1>8. /\ calls'[c].ask = ask /\ calls'[c].place = place /\ calls'[c].token = token
      /\ calls'[c].outcome = outcome /\ calls'[c].applied = calls[c].applied
  BY <1>1, <1>4 DEF Call
<1>9. Typed(calls[c])'
  BY <1>1, <1>4, <1>7, <1>8 DEF Typed
<1>10. outcome \in SaysRefused => outcome = "NotLoggedIn"
  BY <1>4, NoneAssumption DEF SaysRefused, Outcomes, TransportErrors
<1>11. None # "Ok" /\ None # "SessionExpired" /\ None # "Protocol" /\ None # "NotLoggedIn"
  BY NoneAssumption DEF Outcomes
<1>12. CallFits(calls[c])'
  <2>1. EndedIsElsewhere(calls[c])'
    BY <1>4, <1>8, <1>11 DEF EndedIsElsewhere
  <2>2. Untouched(calls[c])'
    BY <1>2, <1>8 DEF Untouched
  <2>3. RefusedIsOver(calls[c])'
    BY <1>2, <1>4, <1>8, <1>10 DEF RefusedIsOver
  <2>4. DoneIsDone(calls[c])' /\ OutcomeFits(calls[c])'
    BY <1>4, <1>8, <1>11 DEF DoneIsDone, OutcomeFits
  <2>5. TokenFits(calls[c])'
    BY <1>1, <1>4, <1>8 DEF TokenFits
  <2>6. NameFits(calls[c])' /\ RoomFits(calls[c])' /\ ReplyFits(calls[c])' /\ RefusedToken(calls[c])'
    BY <1>4, <1>8 DEF NameFits, RoomFits, ReplyFits, RefusedToken
  <2> QED BY <2>1, <2>2, <2>3, <2>4, <2>5, <2>6 DEF CallFits
<1>13. ~Pending(calls[c])'
  BY <1>4, <1>8 DEF Pending
<1>14. ASSUME NEW d \in Calls, Pending(calls[d])'
       PROVE  /\ Pending(calls[d]) /\ calls'[d] = calls[d] /\ calls[d].reply.token \in Tokens
  <2>1. d # c
    BY <1>13, <1>14
  <2>2. calls'[d] = calls[d]
    BY <1>7, <2>1 DEF Others
  <2>3. Pending(calls[d])
    BY <1>14, <2>2 DEF Pending
  <2>4. CallFits(calls[d])
    BY DEF Inv
  <2> QED BY <2>2, <2>3, <2>4 DEF CallFits, ReplyFits, Fitting, Pending
<1>15. \A d \in Calls : calls'[d].token = calls[d].token \/ calls'[d].token = session
  BY <1>2, <1>4, <1>7, <1>8 DEF Others
<1>16. TokensFit'
  <2>1. session' # None => verdict'[session'] # "unissued"
    BY <1>3 DEF Inv, TokensFit
  <2>2. ASSUME NEW d \in Calls
        PROVE  calls'[d].token \in Tokens => verdict'[calls'[d].token] # "unissued"
    BY <1>3, <1>15, NoneAssumption DEF Inv, TokensFit
  <2>3. ASSUME NEW d \in Calls, Pending(calls[d])'
        PROVE  /\ calls'[d].reply.token # session'
               /\ verdict'[calls'[d].reply.token] # "unissued"
    BY <1>3, <1>14, <2>3 DEF Inv, TokensFit
  <2>4. ASSUME NEW d \in Calls, NEW e \in Calls, Pending(calls[d])'
        PROVE  /\ calls'[e].token # calls'[d].reply.token
               /\ Pending(calls[e])' /\ d # e => calls'[e].reply.token # calls'[d].reply.token
    <3>1. Pending(calls[d]) /\ calls'[d] = calls[d]
      BY <1>14, <2>4
    <3>2. calls'[e].token # calls'[d].reply.token
      BY <1>15, <3>1 DEF Inv, TokensFit
    <3>3. Pending(calls[e])' => Pending(calls[e]) /\ calls'[e] = calls[e]
      BY <1>14
    <3> QED BY <3>1, <3>2, <3>3 DEF Inv, TokensFit
  <2> QED BY <2>1, <2>2, <2>3, <2>4 DEF TokensFit
<1>17. /\ transport' \in {"tcp", "scion"} /\ session' \in Tokens \cup {None}
       /\ verdict' \in [Tokens -> {"unissued", "good", "expired", "void"}]
       /\ accounts' \subseteq Names /\ rooms' \subseteq Names
  BY <1>3 DEF Inv, TypeOK
<1> QED BY <1>3, <1>7, <1>9, <1>12, <1>16, <1>17, OthersKeep, Composed

-----------------------------------------------------------------------------
(* The client reads a reply. *)

LEMMA VerdictIs ==
  ASSUME NEW k \in Call, k.place = "answered", Typed(k), CallFits(k)
  PROVE  /\ Verdict(k) \in Outcomes
         /\ Verdict(k) = "Ok" => k.applied /\ k.reply.status = 200
         /\ Verdict(k) \in SaysRefused => ~k.applied
         /\ Verdict(k) = "SessionExpired" => k.reply.status = 401 /\ k.token # None
         /\ Verdict(k) = "Protocol" => k.ask.with = "beyond u32"
         /\ Verdict(k) # "NotLoggedIn"
<1>1. Fitting(k.ask, k.reply, k.applied) /\ k.reply \in Reply
  BY DEF CallFits, ReplyFits, Typed
<1>2. CASE k.reply.body = "oversized"
  <2>1. Verdict(k) = "BodyTooLarge"
    BY <1>2 DEF Verdict
  <2> QED BY <2>1 DEF Outcomes, TransportErrors, SaysRefused, Codes
<1>3. CASE k.reply.body # "oversized" /\ k.reply.status = 200
  <2>1. Verdict(k) = Decode(k.ask.op, k.reply.body)
    BY <1>3 DEF Verdict
  <2>2. Decode(k.ask.op, k.reply.body) = "Ok"
    BY <1>1 DEF Fitting, Decode, IgnoredReply
  <2>3. k.applied
    BY <1>1, <1>3 DEF Fitting
  <2>4. "Ok" \in Outcomes /\ "Ok" \notin SaysRefused
    BY DEF Outcomes, SaysRefused, Codes
  <2> QED BY <1>3, <2>1, <2>2, <2>3, <2>4
<1>4. CASE /\ k.reply.body # "oversized" /\ k.reply.status = 401 /\ k.token # None
  <2>1. Verdict(k) = "SessionExpired"
    BY <1>4 DEF Verdict
  <2>2. ~k.applied
    BY <1>1, <1>4 DEF Fitting
  <2>3. "SessionExpired" \in Outcomes
    BY DEF Outcomes
  <2> QED BY <1>4, <2>1, <2>2, <2>3
<1>5. CASE /\ k.reply.body # "oversized" /\ k.reply.status # 200
           /\ ~(k.reply.status = 401 /\ k.token # None)
  <2>1. Verdict(k) = RefusalOf(k.reply)
    BY <1>5 DEF Verdict
  <2>2. CASE k.reply.body = "envelope"
    <3>1. Verdict(k) = k.reply.code /\ k.reply.code \in Codes
      BY <1>1, <2>1, <2>2 DEF RefusalOf, Fitting
    <3>2. k.reply.code \in SaysRefused => k.reply.code # "internal"
      BY DEF SaysRefused
    <3>3. k.reply.code # "internal" => ~k.applied
      BY <1>1, <2>2 DEF Fitting
    <3>4. k.reply.code \notin {"Ok", "SessionExpired", "Protocol", "NotLoggedIn"} /\ k.reply.code \in Outcomes
      BY <3>1 DEF Codes, Outcomes
    <3> QED BY <3>1, <3>2, <3>3, <3>4
  <2>3. CASE k.reply.body # "envelope"
    <3>1. Verdict(k) = "Protocol"
      BY <2>1, <2>3 DEF RefusalOf
    <3>2. k.reply.body = "text"
      <4>1. k.reply.body \in {"json", "empty", "envelope", "text", "oversized"}
        BY <1>1 DEF Reply
      <4>2. k.reply.body \notin {"json", "empty", "oversized"}
        BY <1>1, <1>5 DEF Fitting
      <4> QED BY <2>3, <4>1, <4>2
    <3>3. k.ask.with = "beyond u32"
      BY <1>1, <3>2 DEF Fitting
    <3>4. "Protocol" \in Outcomes /\ "Protocol" \notin SaysRefused
      BY DEF Outcomes, SaysRefused, Codes
    <3> QED BY <3>1, <3>3, <3>4
  <2> QED BY <2>2, <2>3
<1> QED BY <1>2, <1>3, <1>4, <1>5

\* The session a reply leaves is one that was, none, or the login's.
LEMMA ReadKeeps ==
  ASSUME Inv, NEW c \in Calls, Read(c)
  PROVE  Inv'
<1> DEFINE k == calls[c]
<1>1. /\ calls \in [Calls -> Call] /\ k \in Call /\ Typed(k) /\ CallFits(k)
      /\ k.place = "answered" /\ session \in Tokens \cup {None}
      /\ UNCHANGED <<transport, verdict, accounts, rooms>>
  BY DEF Inv, TypeOK, Typed, Read
<1>2. /\ Verdict(k) \in Outcomes
      /\ Verdict(k) = "Ok" => k.applied /\ k.reply.status = 200
      /\ Verdict(k) \in SaysRefused => ~k.applied
      /\ Verdict(k) = "SessionExpired" => k.reply.status = 401 /\ k.token # None
      /\ Verdict(k) = "Protocol" => k.ask.with = "beyond u32"
  BY <1>1, VerdictIs
<1>3. End(c, Verdict(k)) /\ session' = SessionAfter(k)
  BY DEF Read
<1>4. /\ calls' \in [Calls -> Call] /\ Others(c)
      /\ calls'[c].ask = k.ask /\ calls'[c].token = k.token
      /\ calls'[c].place = "gone" /\ calls'[c].applied = k.applied
      /\ calls'[c].outcome = Verdict(k)
  <2>1. calls \in [Calls -> Call] /\ Verdict(k) \in Outcomes /\ End(c, Verdict(k))
    BY <1>1, <1>2, <1>3
  <2>2. k.place = "answered"
    BY <1>1
  <2> HIDE <1>1, <1>2, <1>3
  <2> QED BY <2>1, <2>2, Ended
<1>5. Verdict(k) # None
  BY <1>2, NoneAssumption
<1>6. /\ Verdict(k) = "Ok" /\ k.ask.op = "login" => session' = k.reply.token /\ Pending(k)
      /\ ~(Verdict(k) = "Ok" /\ k.ask.op = "login") => session' \in {session, None}
      /\ Verdict(k) = "SessionExpired" => session' # k.token
  <2>1. CASE Verdict(k) = "Ok" /\ k.ask.op = "login"
    <3>1. session' = k.reply.token
      BY <1>3, <2>1 DEF SessionAfter
    <3>2. Pending(k)
      BY <1>1, <1>2, <2>1 DEF Pending
    <3> QED BY <2>1, <3>1, <3>2
  <2>2. CASE Verdict(k) = "SessionExpired" /\ session = k.token
    <3>1. session' = None
      BY <1>3, <2>2 DEF SessionAfter
    <3> QED BY <1>2, <2>2, <3>1
  <2>3. CASE /\ ~(Verdict(k) = "Ok" /\ k.ask.op = "login")
             /\ ~(Verdict(k) = "SessionExpired" /\ session = k.token)
    <3>1. session' = session
      BY <1>3, <2>3 DEF SessionAfter
    <3> QED BY <2>3, <3>1
  <2> QED BY <2>1, <2>2, <2>3
<1> HIDE DEF k
<1>7. k = calls[c]
  BY DEF k
<1>8. Pending(k) => k.reply.token \in Tokens
  BY <1>1 DEF CallFits, ReplyFits, Fitting, Pending
<1>9. session' \in Tokens \cup {None}
  BY <1>1, <1>6, <1>8
<1>10. \A d \in Calls : calls[d].token = session' => session' \in {session, None}
  BY <1>6, <1>7 DEF Inv, TokensFit
<1>11. Typed(calls[c])'
  BY <1>1, <1>4, <1>7 DEF Typed
<1>12. CallFits(calls[c])'
  <2>1. EndedIsElsewhere(calls[c])' /\ Untouched(calls[c])'
    BY <1>4, <1>5 DEF EndedIsElsewhere, Untouched
  <2>2. RefusedIsOver(calls[c])' /\ DoneIsDone(calls[c])'
    BY <1>2, <1>4 DEF RefusedIsOver, DoneIsDone
  <2>3. TokenFits(calls[c])'
    BY <1>1, <1>4 DEF CallFits, TokenFits
  <2>4. NameFits(calls[c])' /\ RoomFits(calls[c])' /\ ReplyFits(calls[c])' /\ RefusedToken(calls[c])'
    BY <1>4 DEF NameFits, RoomFits, ReplyFits, RefusedToken
  <2>5. OutcomeFits(calls[c])'
    <3>1. RefusedToken(k) /\ TokenFits(k) /\ verdict' = verdict /\ k.place = "answered"
      BY <1>1 DEF CallFits
    <3>2. Verdict(k) = "SessionExpired" => k.token \in Tokens
      BY <1>2, <3>1 DEF TokenFits
    <3>3. Verdict(k) = "SessionExpired" => verdict[k.token] \in {"expired", "void"}
      BY <1>2, <3>1 DEF RefusedToken
    <3>4. calls'[c].outcome = Verdict(k) /\ calls'[c].token = k.token /\ calls'[c].ask = k.ask
      BY <1>4
    <3>5. Verdict(k) = "SessionExpired" => session' # k.token
      BY <1>6
    <3>6. Verdict(k) = "Protocol" => k.ask.with = "beyond u32"
      BY <1>2
    <3> HIDE <1>1, <1>2, <1>4, <1>6
    <3> QED BY <3>1, <3>2, <3>3, <3>4, <3>5, <3>6 DEF OutcomeFits
  <2> QED BY <2>1, <2>2, <2>3, <2>4, <2>5 DEF CallFits
<1>13. ASSUME NEW d \in Calls \ {c}
       PROVE  RoomFits(calls[d])' /\ RefusedToken(calls[d])' /\ OutcomeFits(calls[d])'
  <2>1. calls'[d] = calls[d] /\ CallFits(calls[d])
    BY <1>4 DEF Others, Inv
  <2>2. RoomFits(calls[d])'
    BY <1>1, <2>1 DEF CallFits, RoomFits
  <2>3. RefusedToken(calls[d])'
    BY <1>1, <2>1 DEF CallFits, RefusedToken
  <2>4. calls[d].token \in Tokens /\ session # calls[d].token => session' # calls[d].token
    BY <1>10, NoneAssumption
  <2>5. OutcomeFits(calls[d])'
    BY <1>1, <2>1, <2>4 DEF CallFits, OutcomeFits
  <2> QED BY <2>2, <2>3, <2>5
<1>14. ASSUME NEW d \in Calls, Pending(calls[d])'
       PROVE  /\ d # c /\ Pending(calls[d]) /\ calls'[d] = calls[d]
              /\ calls[d].reply.token \in Tokens
  <2>1. d # c
    BY <1>4, <1>14 DEF Pending
  <2>2. calls'[d] = calls[d] /\ CallFits(calls[d])
    BY <1>4, <2>1 DEF Others, Inv
  <2>3. Pending(calls[d])
    BY <1>14, <2>2 DEF Pending
  <2> QED BY <2>1, <2>2, <2>3 DEF CallFits, ReplyFits, Fitting, Pending
<1>15. TokensFit'
  <2>1. session' # None => verdict'[session'] # "unissued"
    BY <1>1, <1>6, <1>7 DEF Inv, TokensFit
  <2>2. \A d \in Calls : calls'[d].token = calls[d].token
    BY <1>4, <1>7 DEF Others
  <2>3. ASSUME NEW d \in Calls, Pending(calls[d])'
        PROVE  /\ calls'[d].reply.token # session'
               /\ verdict'[calls'[d].reply.token] # "unissued"
    <3>1. d # c /\ Pending(calls[d]) /\ calls'[d] = calls[d] /\ calls[d].reply.token \in Tokens
      BY <1>14, <2>3
    <3>2. verdict'[calls'[d].reply.token] # "unissued"
      BY <1>1, <3>1 DEF Inv, TokensFit
    <3>3. calls[d].reply.token # session /\ calls[d].reply.token # None
      BY <3>1, NoneAssumption DEF Inv, TokensFit
    <3>4. Pending(k) => calls[d].reply.token # k.reply.token
      BY <1>7, <3>1 DEF Inv, TokensFit
    <3> QED BY <1>6, <3>1, <3>2, <3>3, <3>4
  <2>4. ASSUME NEW d \in Calls, NEW e \in Calls, Pending(calls[d])'
        PROVE  /\ calls'[e].token # calls'[d].reply.token
               /\ Pending(calls[e])' /\ d # e => calls'[e].reply.token # calls'[d].reply.token
    <3>1. Pending(calls[d]) /\ calls'[d] = calls[d]
      BY <1>14, <2>4
    <3>2. Pending(calls[e])' => Pending(calls[e]) /\ calls'[e] = calls[e]
      BY <1>14
    <3> QED BY <2>2, <3>1, <3>2 DEF Inv, TokensFit
  <2>5. \A d \in Calls : calls'[d].token \in Tokens => verdict'[calls'[d].token] # "unissued"
    BY <1>1, <2>2 DEF Inv, TokensFit
  <2> QED BY <2>1, <2>3, <2>4, <2>5 DEF TokensFit
<1>16. /\ transport' \in {"tcp", "scion"}
       /\ verdict' \in [Tokens -> {"unissued", "good", "expired", "void"}]
       /\ accounts' \subseteq Names /\ rooms' \subseteq Names
  BY <1>1 DEF Inv, TypeOK
<1> QED BY <1>4, <1>9, <1>11, <1>12, <1>13, <1>15, <1>16, Composed

-----------------------------------------------------------------------------
(* The invariant. *)

\* A token that is refused stays refused, one that was issued stays issued.
LEMMA VerdictsOnlyFall ==
  ASSUME Inv, UNCHANGED <<transport, session, accounts, rooms, calls>>,
         verdict' \in [Tokens -> {"unissued", "good", "expired", "void"}],
         \A u \in Tokens :
           /\ verdict[u] # "unissued" => verdict'[u] # "unissued"
           /\ verdict[u] \in {"expired", "void"} => verdict'[u] \in {"expired", "void"}
  PROVE  Inv'
<1>1. TypeOK'
  BY DEF Inv, TypeOK
<1>2. ASSUME NEW d \in Calls PROVE CallFits(calls[d])'
  <2>1. calls' = calls /\ CallFits(calls[d])
    BY DEF Inv
  <2>2. /\ EndedIsElsewhere(calls[d])' /\ Untouched(calls[d])'
        /\ RefusedIsOver(calls[d])' /\ DoneIsDone(calls[d])'
    BY <2>1 DEF CallFits, EndedIsElsewhere, Untouched, RefusedIsOver, DoneIsDone
  <2>3. TokenFits(calls[d])' /\ NameFits(calls[d])'
    BY <2>1 DEF CallFits, TokenFits, NameFits
  <2>4. ReplyFits(calls[d])'
    <3>1. ReplyFits(calls[d])
      BY <2>1 DEF CallFits
    <3> QED BY <2>1, <3>1
  <2>5. RoomFits(calls[d])'
    BY <2>1 DEF CallFits, RoomFits
  <2>6. RefusedToken(calls[d])'
    BY <2>1 DEF CallFits, RefusedToken, TokenFits
  <2>7. OutcomeFits(calls[d])'
    BY <2>1 DEF CallFits, OutcomeFits
  <2> QED BY <2>2, <2>3, <2>4, <2>5, <2>6, <2>7 DEF CallFits
<1>3. ASSUME NEW d \in Calls, Pending(calls[d])
      PROVE  calls[d].reply.token \in Tokens
  <2>1. CallFits(calls[d])
    BY DEF Inv
  <2> QED BY <1>3, <2>1 DEF CallFits, ReplyFits, Fitting, Pending
<1>4. \A d \in Calls : Pending(calls[d])' <=> Pending(calls[d])
  BY DEF Pending
<1>5. session \in Tokens \cup {None}
  BY DEF Inv, TypeOK
<1>6. TokensFit'
  BY <1>3, <1>4, <1>5 DEF Inv, TokensFit
<1> QED BY <1>1, <1>2, <1>6 DEF Inv

LEMMA LogoutKeeps ==
  ASSUME Inv, Logout
  PROVE  Inv'
<1>1. session' = None /\ UNCHANGED <<transport, verdict, accounts, rooms, calls>>
  BY DEF Logout
<1>2. TypeOK'
  BY <1>1 DEF Inv, TypeOK
<1>3. ASSUME NEW d \in Calls PROVE CallFits(calls[d])'
  <2>1. calls' = calls /\ CallFits(calls[d])
    BY <1>1 DEF Inv
  <2>2. /\ EndedIsElsewhere(calls[d])' /\ Untouched(calls[d])'
        /\ RefusedIsOver(calls[d])' /\ DoneIsDone(calls[d])'
    BY <2>1 DEF CallFits, EndedIsElsewhere, Untouched, RefusedIsOver, DoneIsDone
  <2>3. TokenFits(calls[d])' /\ NameFits(calls[d])'
    BY <2>1 DEF CallFits, TokenFits, NameFits
  <2>4. ReplyFits(calls[d])'
    <3>1. ReplyFits(calls[d])
      BY <2>1 DEF CallFits
    <3> QED BY <2>1, <3>1
  <2>5. RoomFits(calls[d])' /\ RefusedToken(calls[d])'
    BY <1>1, <2>1 DEF CallFits, RoomFits, RefusedToken
  <2>6. OutcomeFits(calls[d])'
    BY <1>1, <2>1, NoneAssumption DEF CallFits, OutcomeFits
  <2> QED BY <2>2, <2>3, <2>4, <2>5, <2>6 DEF CallFits
<1>4. ASSUME NEW d \in Calls, Pending(calls[d])
      PROVE  calls[d].reply.token # None
  <2>1. CallFits(calls[d])
    BY DEF Inv
  <2> QED BY <1>4, <2>1, NoneAssumption DEF CallFits, ReplyFits, Fitting, Pending
<1>5. \A d \in Calls : Pending(calls[d])' <=> Pending(calls[d])
  BY <1>1 DEF Pending
<1>6. TokensFit'
  BY <1>1, <1>4, <1>5 DEF Inv, TokensFit
<1> QED BY <1>2, <1>3, <1>6 DEF Inv

LEMMA InitHolds == Init => Inv
<1> SUFFICES ASSUME Init PROVE Inv
  OBVIOUS
<1>1. \A d \in Calls : /\ calls[d].ask = None /\ calls[d].token = None
                       /\ calls[d].place = "unmade" /\ calls[d].reply = None
                       /\ calls[d].applied = FALSE /\ calls[d].outcome = None
  BY DEF Init
<1>2. calls \in [Calls -> Call]
  BY DEF Init, Call, Places
<1>3. verdict \in [Tokens -> {"unissued", "good", "expired", "void"}]
  BY DEF Init
<1>4. 1 \in Tokens /\ verdict[1] = "good"
  <2>1. MaxTokens \in Nat /\ MaxTokens # 0
    BY RequestsAssumption
  <2>2. 1 \in Tokens
    BY <2>1 DEF Tokens
  <2>3. verdict = [t \in Tokens |-> IF t = 1 THEN "good" ELSE "unissued"]
    BY DEF Init
  <2> QED BY <2>2, <2>3
<1>5. TypeOK
  <2>1. /\ transport \in {"tcp", "scion"} /\ session \in Tokens \cup {None}
        /\ accounts \subseteq Names /\ rooms \subseteq Names
    BY <1>4, RequestsAssumption DEF Init
  <2> QED BY <1>1, <1>2, <1>3, <2>1 DEF TypeOK
<1>6. None # "Ok" /\ None # "SessionExpired" /\ None # "Protocol" /\ None \notin SaysRefused
  BY NoneAssumption DEF Outcomes, TransportErrors, SaysRefused
<1>7. ASSUME NEW d \in Calls PROVE CallFits(calls[d])
  <2>1. EndedIsElsewhere(calls[d]) /\ Untouched(calls[d])
    BY <1>1 DEF EndedIsElsewhere, Untouched
  <2>2. RefusedIsOver(calls[d]) /\ DoneIsDone(calls[d]) /\ OutcomeFits(calls[d])
    BY <1>1, <1>6 DEF RefusedIsOver, DoneIsDone, OutcomeFits
  <2>3. TokenFits(calls[d]) /\ NameFits(calls[d]) /\ RoomFits(calls[d])
    BY <1>1 DEF TokenFits, NameFits, RoomFits
  <2>4. ReplyFits(calls[d]) /\ RefusedToken(calls[d])
    BY <1>1 DEF ReplyFits, RefusedToken
  <2> QED BY <2>1, <2>2, <2>3, <2>4 DEF CallFits
<1>8. \A d \in Calls : ~Pending(calls[d])
  BY <1>1 DEF Pending
<1>9. session # None => session = 1
  BY DEF Init
<1>10. TokensFit
  BY <1>1, <1>4, <1>8, <1>9, NoneAssumption DEF TokensFit
<1> QED BY <1>5, <1>7, <1>10 DEF Inv

LEMMA StepKeeps == Inv /\ [Next]_vars => Inv'
<1> SUFFICES ASSUME Inv, [Next]_vars PROVE Inv'
  OBVIOUS
<1>0. verdict \in [Tokens -> {"unissued", "good", "expired", "void"}]
  BY DEF Inv, TypeOK
<1>1. ASSUME NEW c \in Calls, NEW ask \in Asks, Make(c, ask) PROVE Inv'
  BY <1>1, MakeKeeps
<1>2. ASSUME NEW c \in Calls, Dial(c) \/ Unreachable(c) \/ Cut(c) \/ GiveUp(c) \/ Read(c)
      PROVE  Inv'
  BY <1>2, DialKeeps, UnreachableKeeps, CutKeeps, GiveUpKeeps, ReadKeeps
<1>3. ASSUME NEW c \in Calls, Receive(c) \/ Register(c) \/ Login(c) \/ ListRooms(c) \/ InsertRoom(c)
      PROVE  Inv'
  BY <1>3, ReceiveKeeps, RegisterKeeps, LoginKeeps, ListRoomsKeeps, InsertRoomKeeps
<1>4. ASSUME NEW c \in Calls,
             ReadRoom(c) \/ Post(c) \/ ListMessages(c) \/ StoreFails(c) \/ Drop(c)
      PROVE  Inv'
  BY <1>4, ReadRoomKeeps, PostKeeps, ListMessagesKeeps, StoreFailsKeeps, DropKeeps
<1>5. CASE Expire
  <2>1. PICK t \in Tokens : verdict[t] = "good" /\ verdict' = [verdict EXCEPT ![t] = "expired"]
    BY <1>5 DEF Expire
  <2>2. /\ verdict' \in [Tokens -> {"unissued", "good", "expired", "void"}]
        /\ \A u \in Tokens :
             /\ verdict[u] # "unissued" => verdict'[u] # "unissued"
             /\ verdict[u] \in {"expired", "void"} => verdict'[u] \in {"expired", "void"}
    BY <1>0, <2>1
  <2>3. UNCHANGED <<transport, session, accounts, rooms, calls>>
    BY <1>5 DEF Expire
  <2> QED BY <2>2, <2>3, VerdictsOnlyFall
<1>6. CASE LoseSecret
  <2>1. verdict' = [t \in Tokens |-> IF verdict[t] = "unissued" THEN "unissued" ELSE "void"]
    BY <1>6 DEF LoseSecret
  <2>2. /\ verdict' \in [Tokens -> {"unissued", "good", "expired", "void"}]
        /\ \A u \in Tokens :
             /\ verdict[u] # "unissued" => verdict'[u] # "unissued"
             /\ verdict[u] \in {"expired", "void"} => verdict'[u] \in {"expired", "void"}
    BY <2>1
  <2>3. UNCHANGED <<transport, session, accounts, rooms, calls>>
    BY <1>6 DEF LoseSecret
  <2> QED BY <2>2, <2>3, VerdictsOnlyFall
<1>7. CASE Logout
  BY <1>7, LogoutKeeps
<1>8. CASE UNCHANGED vars
  <2>1. UNCHANGED <<transport, session, accounts, rooms, calls>> /\ verdict' = verdict
    BY <1>8 DEF vars
  <2> QED BY <1>0, <2>1, VerdictsOnlyFall
<1> QED BY <1>1, <1>2, <1>3, <1>4, <1>5, <1>6, <1>7, <1>8 DEF Next

LEMMA InvHolds == Spec => []Inv
BY InitHolds, StepKeeps, PTL DEF Spec

\* Every variable keeps its type: the handlers and the client only ever store
\* what their types admit, for any calls, names and caps.
THEOREM TypeCorrect == Spec => []TypeOK
<1>1. Inv => TypeOK
  BY DEF Inv
<1> QED BY <1>1, InvHolds, PTL

\* A 401 is an ended session only for the call whose token was refused, and
\* the client does not go on with that token (client.rs execute).
THEOREM ExpiredIsForgotten == Spec => []ExpiredMeansForgotten
<1>1. Inv => ExpiredMeansForgotten
  BY DEF Inv, CallFits, OutcomeFits, ExpiredMeansForgotten
<1> QED BY <1>1, InvHolds, PTL

\* A reply cannot be read only when axum refused a page limit outside the
\* envelope (error.rs refusal, client.rs decode).
THEOREM UnreadableForOneCause == Spec => []UnreadableHasACause
<1>1. Inv => UnreadableHasACause
  BY DEF Inv, CallFits, OutcomeFits, UnreadableHasACause
<1> QED BY <1>1, InvHolds, PTL

-----------------------------------------------------------------------------
(* Each step of the program is a step of RemoteCall, or none. *)

\* What a step may make of one call, for those who look at its state and at
\* what its caller was told.
Settles(state, told, state2, told2) ==
  \/ state2 = state /\ told2 = told
  \/ state = "quiet" /\ told = "nothing" /\ state2 = "asked" /\ told2 = told
  \/ state = "asked" /\ told # "refused" /\ state2 = "applied" /\ told2 = told
  \/ state = "applied" /\ told = "nothing" /\ state2 = state /\ told2 = "done"
  \/ state # "applied" /\ told = "nothing" /\ state2 = state /\ told2 = "refused"
  \/ state # "quiet" /\ told = "nothing" /\ state2 = state /\ told2 = "unknown"

States == [d \in Calls |-> StateOf(calls[d])]
Tolds == [d \in Calls |-> ToldOf(calls[d].outcome)]

CallSettles(c) ==
  Settles(StateOf(calls[c]), ToldOf(calls[c].outcome), StateOf(calls'[c]), ToldOf(calls'[c].outcome))

LEMMA OneCall ==
  ASSUME NEW c \in Calls, Others(c), CallSettles(c)
  PROVE  [Promise!Next]_(Promise!vars)
<1>1. /\ States' = [States EXCEPT ![c] = StateOf(calls'[c])]
      /\ Tolds' = [Tolds EXCEPT ![c] = ToldOf(calls'[c].outcome)]
      /\ States[c] = StateOf(calls[c]) /\ Tolds[c] = ToldOf(calls[c].outcome)
      /\ States = [States EXCEPT ![c] = StateOf(calls[c])]
      /\ Tolds = [Tolds EXCEPT ![c] = ToldOf(calls[c].outcome)]
  BY DEF Others, States, Tolds
<1> DEFINE s == StateOf(calls[c])
           t == ToldOf(calls[c].outcome)
           s2 == StateOf(calls'[c])
           t2 == ToldOf(calls'[c].outcome)
<1>2. Settles(s, t, s2, t2)
  BY DEF CallSettles
<1>3. /\ States' = [States EXCEPT ![c] = s2] /\ Tolds' = [Tolds EXCEPT ![c] = t2]
      /\ States[c] = s /\ Tolds[c] = t
      /\ States = [States EXCEPT ![c] = s] /\ Tolds = [Tolds EXCEPT ![c] = t]
  BY <1>1
<1> HIDE DEF s, t, s2, t2
<1>4. CASE s2 = s /\ t2 = t
  BY <1>3, <1>4 DEF Promise!vars, States, Tolds
<1>5. CASE s = "quiet" /\ t = "nothing" /\ s2 = "asked" /\ t2 = t
  <2>1. Promise!Ask(c)
    BY <1>3, <1>5 DEF Promise!Ask, States, Tolds
  <2> QED BY <2>1 DEF Promise!Next
<1>6. CASE s = "asked" /\ t # "refused" /\ s2 = "applied" /\ t2 = t
  <2>1. Promise!Apply(c)
    BY <1>3, <1>6 DEF Promise!Apply, States, Tolds
  <2> QED BY <2>1 DEF Promise!Next
<1>7. CASE s = "applied" /\ t = "nothing" /\ s2 = s /\ t2 = "done"
  <2>1. Promise!Done(c)
    BY <1>3, <1>7 DEF Promise!Done, States, Tolds
  <2> QED BY <2>1 DEF Promise!Next
<1>8. CASE s # "applied" /\ t = "nothing" /\ s2 = s /\ t2 = "refused"
  <2>1. Promise!Refuse(c)
    BY <1>3, <1>8 DEF Promise!Refuse, States, Tolds
  <2> QED BY <2>1 DEF Promise!Next
<1>9. CASE s # "quiet" /\ t = "nothing" /\ s2 = s /\ t2 = "unknown"
  <2>1. Promise!Lose(c)
    BY <1>3, <1>9 DEF Promise!Lose, States, Tolds
  <2> QED BY <2>1 DEF Promise!Next
<1> QED BY <1>2, <1>4, <1>5, <1>6, <1>7, <1>8, <1>9 DEF Settles

LEMMA NobodysCall ==
  ASSUME calls' = calls
  PROVE  [Promise!Next]_(Promise!vars)
BY DEF Promise!vars

\* A call that was made and not refused by the client itself.
Made(k) == k.place # "unmade" /\ k.outcome # "NotLoggedIn"

LEMMA StateIs ==
  ASSUME NEW k, k.applied \in BOOLEAN
  PROVE  /\ k.applied => StateOf(k) = "applied"
         /\ ~k.applied => StateOf(k) # "applied"
         /\ ~k.applied /\ Made(k) => StateOf(k) = "asked"
         /\ ~k.applied /\ ~Made(k) => StateOf(k) = "quiet"
         /\ Made(k) => StateOf(k) # "quiet"
BY DEF StateOf, Made

LEMMA StateSame ==
  ASSUME NEW k, NEW k2, k.applied \in BOOLEAN, k2.applied = k.applied, Made(k2) <=> Made(k)
  PROVE  StateOf(k2) = StateOf(k)
<1>1. k2.applied \in BOOLEAN
  OBVIOUS
<1> DEFINE is(x) == /\ x.applied => StateOf(x) = "applied"
                    /\ ~x.applied /\ Made(x) => StateOf(x) = "asked"
                    /\ ~x.applied /\ ~Made(x) => StateOf(x) = "quiet"
<1>2. is(k)
  BY StateIs
<1>3. is(k2)
  BY <1>1, StateIs
<1>4. k.applied <=> k2.applied
  OBVIOUS
<1> QED BY <1>2, <1>3, <1>4

LEMMA ToldIs ==
  ASSUME NEW outcome \in Outcomes \cup {None}
  PROVE  /\ outcome = None => ToldOf(outcome) = "nothing"
         /\ outcome = "Ok" => ToldOf(outcome) = "done"
         /\ outcome \in SaysRefused => ToldOf(outcome) = "refused"
         /\ outcome \notin SaysRefused \cup {"Ok", None} => ToldOf(outcome) = "unknown"
         /\ ToldOf(outcome) = "refused" => outcome \in SaysRefused
<1>1. None \notin Outcomes
  BY NoneAssumption
<1>2. "Ok" \in Outcomes /\ SaysRefused \subseteq Outcomes /\ "Ok" \notin SaysRefused
  BY DEF Outcomes, SaysRefused, TransportErrors, Codes
<1> HIDE DEF SaysRefused
<1>3. CASE outcome = None
  <2>1. outcome # "Ok" /\ outcome \notin SaysRefused
    BY <1>1, <1>2, <1>3
  <2>2. ToldOf(outcome) = "nothing"
    BY <1>3, <2>1 DEF ToldOf
  <2>3. "nothing" # "refused"
    OBVIOUS
  <2> QED BY <1>3, <2>1, <2>2, <2>3
<1>4. CASE outcome = "Ok"
  <2>1. ToldOf(outcome) = "done"
    BY <1>1, <1>2, <1>4 DEF ToldOf
  <2> QED BY <1>1, <1>2, <1>4, <2>1
<1>5. CASE outcome \in SaysRefused
  <2>1. ToldOf(outcome) = "refused"
    BY <1>1, <1>2, <1>5 DEF ToldOf
  <2> QED BY <1>1, <1>2, <1>5, <2>1
<1>6. CASE outcome \notin SaysRefused \cup {"Ok", None}
  <2>1. ToldOf(outcome) = "unknown"
    BY <1>6 DEF ToldOf
  <2> QED BY <1>6, <2>1
<1> QED BY <1>3, <1>4, <1>5, <1>6

\* A call that is where the server has it was made, and its caller was not
\* told that it was refused.
LEMMA ServedIsMade ==
  ASSUME Inv, NEW c \in Calls, Serving(c)
  PROVE  /\ Made(calls[c]) /\ calls[c].outcome \notin SaysRefused
         /\ calls[c].outcome \in Outcomes \cup {None} /\ calls[c].applied \in BOOLEAN
         /\ ToldOf(calls[c].outcome) # "refused"
<1>1. calls[c].outcome \in Outcomes \cup {None} /\ calls[c].applied \in BOOLEAN
  BY DEF Inv, TypeOK, Call
<1>2. calls[c].outcome \notin SaysRefused
  BY DEF Inv, CallFits, RefusedIsOver, Serving
<1>3. Made(calls[c])
  BY <1>2 DEF Made, Serving, SaysRefused
<1> QED BY <1>1, <1>2, <1>3, ToldIs

\* A step of the server that leaves or sets `applied`, and nothing else that counts.
LEMMA ServerSettles ==
  ASSUME Inv, NEW c \in Calls, Serving(c), Others(c),
         calls'[c].place # "unmade", calls'[c].outcome = calls[c].outcome,
         calls'[c].applied \in BOOLEAN, calls[c].applied => calls'[c].applied
  PROVE  [Promise!Next]_(Promise!vars)
<1> DEFINE k == calls[c]
           k2 == calls'[c]
<1>1. /\ Made(k) /\ k.applied \in BOOLEAN /\ ToldOf(k.outcome) # "refused"
  BY ServedIsMade
<1>2. Made(k2)
  BY <1>1 DEF Made
<1>3. StateOf(k) \in {"asked", "applied"} /\ (k.applied <=> StateOf(k) = "applied")
  BY <1>1, StateIs
<1>4. StateOf(k2) \in {"asked", "applied"} /\ (k2.applied <=> StateOf(k2) = "applied")
  BY <1>2, StateIs
<1>5. ToldOf(k2.outcome) = ToldOf(k.outcome)
  OBVIOUS
<1>6. k.applied => k2.applied
  OBVIOUS
<1> HIDE DEF k, k2
<1>7. Settles(StateOf(k), ToldOf(k.outcome), StateOf(k2), ToldOf(k2.outcome))
  BY <1>1, <1>3, <1>4, <1>5, <1>6 DEF Settles
<1> QED BY <1>7, OneCall DEF CallSettles, k, k2

LEMMA AnswerSettles ==
  ASSUME Inv, NEW c \in Calls, Serving(c), NEW reply \in Reply, NEW applied \in BOOLEAN,
         Answer(c, reply, applied), calls[c].applied => applied
  PROVE  [Promise!Next]_(Promise!vars)
<1>1. calls \in [Calls -> Call]
  BY DEF Inv, TypeOK
<1>2. /\ Others(c)
      /\ calls'[c].place = IF calls[c].outcome = None THEN "answered" ELSE "gone"
      /\ calls'[c].applied = applied
      /\ calls'[c].outcome = calls[c].outcome
  BY <1>1, Answered
<1>3. calls'[c].place # "unmade"
  BY <1>2
<1> QED BY <1>2, <1>3, ServerSettles

LEMMA CarriedSettles ==
  ASSUME Inv, NEW c \in Calls, Serving(c), NEW reply \in Reply, Carried(c, reply)
  PROVE  [Promise!Next]_(Promise!vars)
BY AnswerSettles DEF Carried

LEMMA RefusalSettles ==
  ASSUME Inv, NEW c \in Calls, Serving(c), NEW reply \in Reply, AnswerWith(c, reply)
  PROVE  [Promise!Next]_(Promise!vars)
<1>1. calls[c].applied \in BOOLEAN
  BY DEF Inv, TypeOK, Call
<1> QED BY <1>1, AnswerSettles DEF AnswerWith

\* The call ends for its caller: done if it was carried out, refused if not.
LEMMA EndSettles ==
  ASSUME Inv, NEW c \in Calls, Waiting(c), NEW outcome \in Outcomes, End(c, outcome),
         outcome # "NotLoggedIn",
         outcome = "Ok" => calls[c].applied,
         outcome \in SaysRefused => ~calls[c].applied
  PROVE  [Promise!Next]_(Promise!vars)
<1>1. calls \in [Calls -> Call] /\ calls[c] \in Call /\ calls[c].applied \in BOOLEAN
  BY DEF Inv, TypeOK, Call
<1>2. /\ Others(c)
      /\ calls'[c].place = IF calls[c].place \in {"dialing", "answered"}
                             THEN "gone" ELSE calls[c].place
      /\ calls'[c].applied = calls[c].applied
      /\ calls'[c].outcome = outcome
  BY <1>1, Ended
<1>3. Made(calls[c]) /\ calls[c].outcome = None
  BY NoneAssumption DEF Waiting, Made, Outcomes
<1>4. Made(calls'[c])
  BY <1>2, <1>3 DEF Made
<1>5. StateOf(calls'[c]) = StateOf(calls[c]) /\ StateOf(calls[c]) # "quiet"
      /\ (calls[c].applied <=> StateOf(calls[c]) = "applied")
  BY <1>1, <1>2, <1>3, <1>4, StateIs
<1>6. ToldOf(calls[c].outcome) = "nothing"
  BY <1>3, ToldIs
<1>7. outcome # None
  BY NoneAssumption
<1>8. \/ ToldOf(outcome) = "done" /\ outcome = "Ok"
      \/ ToldOf(outcome) = "refused" /\ outcome \in SaysRefused
      \/ ToldOf(outcome) = "unknown"
  BY <1>7, ToldIs
<1>9. CallSettles(c)
  <2>1. CASE ToldOf(outcome) = "done" /\ outcome = "Ok"
    BY <1>2, <1>5, <1>6, <2>1 DEF CallSettles, Settles
  <2>2. CASE ToldOf(outcome) = "refused" /\ outcome \in SaysRefused
    BY <1>2, <1>5, <1>6, <2>2 DEF CallSettles, Settles
  <2>3. CASE ToldOf(outcome) = "unknown"
    BY <1>2, <1>5, <1>6, <2>3 DEF CallSettles, Settles
  <2> QED BY <1>8, <2>1, <2>2, <2>3
<1> QED BY <1>2, <1>9, OneCall

LEMMA MakeSettles ==
  ASSUME Inv, NEW c \in Calls, NEW ask \in Asks, Make(c, ask)
  PROVE  [Promise!Next]_(Promise!vars)
<1>1. /\ calls \in [Calls -> Call] /\ calls[c] \in Call /\ calls[c].place = "unmade"
      /\ ~calls[c].applied /\ calls[c].applied \in BOOLEAN
  BY NothingYet DEF Inv, TypeOK, Call, Make
<1>2. calls[c].outcome = None
  BY <1>1 DEF Inv, CallFits, EndedIsElsewhere
<1>3. ~Made(calls[c])
  BY <1>1 DEF Made
<1>4. StateOf(calls[c]) = "quiet" /\ ToldOf(calls[c].outcome) = "nothing"
  BY <1>1, <1>2, <1>3, StateIs, ToldIs
<1>5. CASE ask.op \in Required /\ session = None
  <2>1. calls' = [calls EXCEPT ![c].ask = ask, ![c].place = "gone",
                               ![c].outcome = "NotLoggedIn"]
    BY <1>5 DEF Make
  <2>2. /\ Others(c) /\ calls'[c].outcome = "NotLoggedIn"
        /\ calls'[c].applied = calls[c].applied
    BY <1>1, <2>1 DEF Others, Call
  <2>3. ~Made(calls'[c])
    BY <2>2 DEF Made
  <2>4. StateOf(calls'[c]) = "quiet"
    BY <1>1, <2>2, <2>3, StateIs
  <2>5. "NotLoggedIn" \in Outcomes /\ "NotLoggedIn" \in SaysRefused
    BY DEF Outcomes, SaysRefused
  <2>6. ToldOf(calls'[c].outcome) = "refused"
    BY <2>2, <2>5, ToldIs
  <2>7. CallSettles(c)
    BY <1>4, <2>4, <2>6 DEF CallSettles, Settles
  <2> QED BY <2>2, <2>7, OneCall
<1>6. CASE ~(ask.op \in Required /\ session = None)
  <2> DEFINE token == IF ask.op \in Required THEN session ELSE None
  <2>1. calls' = [calls EXCEPT ![c].ask = ask, ![c].place = "dialing", ![c].token = token]
    BY <1>6 DEF Make
  <2> HIDE DEF token
  <2>2. /\ Others(c) /\ calls'[c].outcome = calls[c].outcome
        /\ calls'[c].applied = calls[c].applied /\ calls'[c].place = "dialing"
    BY <1>1, <2>1 DEF Others, Call
  <2>3. Made(calls'[c])
    <3>1. calls'[c].outcome # "NotLoggedIn"
      BY <1>2, <2>2, NoneAssumption DEF Outcomes
    <3> QED BY <2>2, <3>1 DEF Made
  <2>4. StateOf(calls'[c]) = "asked"
    BY <1>1, <2>2, <2>3, StateIs
  <2>5. ToldOf(calls'[c].outcome) = ToldOf(calls[c].outcome)
    BY <2>2
  <2>6. CallSettles(c)
    BY <1>4, <2>4, <2>5 DEF CallSettles, Settles
  <2> QED BY <2>2, <2>6, OneCall
<1> QED BY <1>5, <1>6

\* What is neither made nor carried out is as good as nothing: a request that
\* moves on.
LEMMA MovedSettles ==
  ASSUME Inv, NEW c \in Calls, NEW place \in Places \ {"unmade"},
         calls[c].place # "unmade", MoveTo(c, place)
  PROVE  [Promise!Next]_(Promise!vars)
<1>1. calls \in [Calls -> Call] /\ calls[c].applied \in BOOLEAN
  BY DEF Inv, TypeOK, Call
<1>2. /\ Others(c) /\ calls'[c].place = place
      /\ calls'[c].applied = calls[c].applied
      /\ calls'[c].outcome = calls[c].outcome
  BY <1>1, Moved
<1>3. Made(calls'[c]) <=> Made(calls[c])
  BY <1>2 DEF Made
<1>4. StateOf(calls'[c]) = StateOf(calls[c])
  BY <1>1, <1>2, <1>3, StateSame
<1>5. ToldOf(calls'[c].outcome) = ToldOf(calls[c].outcome)
  BY <1>2
<1>6. CallSettles(c)
  BY <1>4, <1>5 DEF CallSettles, Settles
<1> QED BY <1>2, <1>6, OneCall

\* What the client is told, by a transport or by a reply.
LEMMA ClientSettles ==
  ASSUME Inv, NEW c \in Calls, Dial(c) \/ Unreachable(c) \/ Cut(c) \/ GiveUp(c) \/ Read(c)
  PROVE  [Promise!Next]_(Promise!vars)
<1>1. CASE Dial(c)
  <2>1. calls[c].place # "unmade" /\ MoveTo(c, "wire")
    BY <1>1 DEF Dial
  <2> QED BY <2>1, MovedSettles DEF Places
<1>2. CASE Unreachable(c)
  <2>1. PICK what \in Unreached : \E error \in Failures(what) : End(c, error)
    BY <1>2 DEF Unreachable
  <2>2. PICK error \in Failures(what) : End(c, error)
    BY <2>1
  <2>3. error \in {"Resolution", "Connect", "Tls"}
    BY <2>2, UnreachedIsSaid
  <2>4. error \in Outcomes /\ error # "NotLoggedIn" /\ error # "Ok"
    BY <2>3 DEF Outcomes, TransportErrors
  <2>5. Waiting(c) /\ ~calls[c].applied
    BY <1>2, NothingYet DEF Unreachable
  <2> QED BY <2>2, <2>4, <2>5, EndSettles
<1>3. CASE Cut(c) \/ GiveUp(c)
  <2>1. PICK what \in {"before_head", "in_body", "late", "late_dialing"} :
               \E error \in Failures(what) : End(c, error)
    BY <1>3 DEF Cut, GiveUp
  <2>2. PICK error \in Failures(what) : End(c, error)
    BY <2>1
  <2>3. error \in {"StreamReset", "Http", "Timeout"}
    BY <2>2, BrokenIsSaid
  <2>4. /\ error \in Outcomes /\ error # "NotLoggedIn" /\ error # "Ok"
        /\ error \notin SaysRefused
    BY <2>3 DEF Outcomes, TransportErrors, SaysRefused, Codes
  <2>5. Waiting(c)
    BY <1>3 DEF Cut, GiveUp
  <2> QED BY <2>2, <2>4, <2>5, EndSettles
<1>4. CASE Read(c)
  <2> DEFINE k == calls[c]
  <2>1. Waiting(c) /\ End(c, Verdict(k)) /\ k \in Call /\ k.place = "answered"
    BY <1>4 DEF Read, Inv, TypeOK
  <2>2. Typed(k) /\ CallFits(k)
    BY DEF Inv, TypeOK, Typed
  <2>3. /\ Verdict(k) \in Outcomes
        /\ Verdict(k) = "Ok" => k.applied
        /\ Verdict(k) \in SaysRefused => ~k.applied
        /\ Verdict(k) # "NotLoggedIn"
    BY <2>1, <2>2, VerdictIs
  <2> QED BY <2>1, <2>3, EndSettles
<1> QED BY <1>1, <1>2, <1>3, <1>4

\* Whatever is found wrong with a request is said in a reply.
LEMMA ComplaintIsReply ==
  ASSUME NEW c
  PROVE  Complaint(c) \in Reply \cup {None}
<1> DEFINE ask == calls[c].ask
           text == [status |-> 400, body |-> "text", code |-> None, token |-> None]
<1>1. \A status \in {400, 401, 404, 409, 413, 422, 429, 500}, code \in Codes :
        Refusal(status, code) \in Reply
  BY RefusalIsReply
<1>2. {"expired_token", "unauthorized", "invalid_body", "message_too_large",
       "invalid_username", "invalid_name"} \subseteq Codes
  BY DEF Codes
<1>3. text \in Reply
  BY DEF Reply
<1>4. AskComplaint(ask) \in
        {text, Refusal(400, "invalid_body"), Refusal(413, "message_too_large"),
         Refusal(422, "invalid_body"), Refusal(422, "invalid_username"),
         Refusal(422, "invalid_name"), None}
  BY DEF AskComplaint
<1>5. AskComplaint(ask) \in Reply \cup {None}
  BY <1>1, <1>2, <1>3, <1>4
<1>6. Complaint(c) \in {Refusal(401, "expired_token"), Refusal(401, "unauthorized"), AskComplaint(ask)}
  BY DEF Complaint
<1> QED BY <1>1, <1>2, <1>5, <1>6

\* What the handlers do to a call: they answer it, or write and go on.
LEMMA ServerStepSettles ==
  ASSUME Inv, NEW c \in Calls,
         Receive(c) \/ Register(c) \/ Login(c) \/ ListRooms(c) \/ InsertRoom(c)
           \/ ReadRoom(c) \/ Post(c) \/ ListMessages(c) \/ StoreFails(c) \/ Drop(c)
  PROVE  [Promise!Next]_(Promise!vars)
<1>1. \A status \in {400, 401, 404, 409, 413, 422, 429, 500}, code \in Codes :
        Refusal(status, code) \in Reply
  BY RefusalIsReply
<1>2. \A body \in {"json", "empty", "oversized"} : Success(body) \in Reply
  BY SuccessIsReply
<1>3. {"internal", "username_taken", "cap_exceeded", "invalid_credentials", "room_not_found"} \subseteq Codes
  BY DEF Codes
<1>4. CASE Receive(c)
  <2>1. Serving(c) /\ calls[c].place # "unmade"
    BY <1>4 DEF Receive, Serving
  <2>2. Complaint(c) \in Reply \cup {None}
    BY ComplaintIsReply
  <2>3. CASE Complaint(c) # None
    <3>1. AnswerWith(c, Complaint(c))
      BY <1>4, <2>3 DEF Receive
    <3> QED BY <2>1, <2>2, <2>3, <3>1, RefusalSettles
  <2>4. CASE Complaint(c) = None /\ calls[c].ask.op \in {"health", "info"}
    <3>1. Carried(c, Success("json"))
      BY <1>4, <2>4 DEF Receive
    <3> QED BY <1>2, <2>1, <3>1, CarriedSettles
  <2>5. CASE Complaint(c) = None /\ calls[c].ask.op \notin {"health", "info"}
    <3>1. MoveTo(c, "handler")
      BY <1>4, <2>5 DEF Receive
    <3>2. "handler" \in Places \ {"unmade"}
      BY DEF Places
    <3> QED BY <2>1, <3>1, <3>2, MovedSettles
  <2> QED BY <2>3, <2>4, <2>5
<1>5. CASE Register(c)
  <2>1. Serving(c)
    BY <1>5 DEF Register, At, Serving
  <2>2. \/ AnswerWith(c, Refusal(409, "username_taken"))
        \/ AnswerWith(c, Refusal(429, "cap_exceeded"))
        \/ Carried(c, Success("empty"))
    BY <1>5 DEF Register
  <2> QED BY <1>1, <1>2, <1>3, <2>1, <2>2, RefusalSettles, CarriedSettles
<1>6. CASE Login(c)
  <2>1. Serving(c)
    BY <1>6 DEF Login, At, Serving
  <2>2. CASE AnswerWith(c, Refusal(401, "invalid_credentials"))
    BY <1>1, <1>3, <2>1, <2>2, RefusalSettles
  <2>3. ASSUME NEW t \in Tokens, Carried(c, [Success("json") EXCEPT !.token = t])
        PROVE  [Promise!Next]_(Promise!vars)
    <3>1. [Success("json") EXCEPT !.token = t] \in Reply
      BY DEF Success, Reply
    <3> QED BY <2>1, <2>3, <3>1, CarriedSettles
  <2>4. \/ AnswerWith(c, Refusal(401, "invalid_credentials"))
        \/ \E t \in Tokens : Carried(c, [Success("json") EXCEPT !.token = t])
    BY <1>6 DEF Login
  <2> QED BY <2>2, <2>3, <2>4
<1>7. CASE ListRooms(c)
  <2>1. Serving(c) /\ Carried(c, Success("json"))
    BY <1>7 DEF ListRooms, At, Serving
  <2> QED BY <1>2, <2>1, CarriedSettles
<1>8. CASE InsertRoom(c)
  <2>1. Serving(c) /\ calls[c].place = "handler" /\ calls \in [Calls -> Call]
    BY <1>8 DEF InsertRoom, At, Serving, Inv, TypeOK
  <2> DEFINE applied == calls[c].ask.with \in rooms'
  <2>2. calls' = [calls EXCEPT ![c].place = "readback", ![c].applied = applied]
    BY <1>8 DEF InsertRoom
  <2>3. applied \in BOOLEAN
    OBVIOUS
  <2> HIDE DEF applied
  <2>4. /\ Others(c) /\ calls'[c].place = "readback" /\ calls'[c].applied = applied
        /\ calls'[c].outcome = calls[c].outcome
    BY <2>1, <2>2 DEF Others, Call
  <2>5. ~calls[c].applied /\ calls'[c].place # "unmade"
    BY <2>1, <2>4, NothingYet
  <2>6. calls'[c].applied \in BOOLEAN
    BY <2>3, <2>4
  <2> QED BY <2>1, <2>4, <2>5, <2>6, ServerSettles
<1>9. CASE ReadRoom(c)
  <2>1. Serving(c)
    BY <1>9 DEF ReadRoom, Serving
  <2>2. AnswerWith(c, Success("json")) \/ AnswerWith(c, Refusal(429, "cap_exceeded"))
    BY <1>9 DEF ReadRoom
  <2> QED BY <1>1, <1>2, <1>3, <2>1, <2>2, RefusalSettles
<1>10. CASE Post(c)
  <2>1. Serving(c)
    BY <1>10 DEF Post, At, Serving
  <2>2. Carried(c, Success("json")) \/ AnswerWith(c, Refusal(404, "room_not_found"))
    BY <1>10 DEF Post
  <2> QED BY <1>1, <1>2, <1>3, <2>1, <2>2, RefusalSettles, CarriedSettles
<1>11. CASE ListMessages(c)
  <2>1. Serving(c)
    BY <1>11 DEF ListMessages, At, Serving
  <2>2. \/ \E body \in {"json", "oversized"} : Carried(c, Success(body))
        \/ AnswerWith(c, Refusal(404, "room_not_found"))
    BY <1>11 DEF ListMessages
  <2> QED BY <1>1, <1>2, <1>3, <2>1, <2>2, RefusalSettles, CarriedSettles
<1>12. CASE StoreFails(c)
  <2>1. Serving(c) /\ AnswerWith(c, Refusal(500, "internal"))
    BY <1>12 DEF StoreFails, Serving
  <2> QED BY <1>1, <1>3, <2>1, RefusalSettles
<1>13. CASE Drop(c)
  <2>1. calls[c].place # "unmade" /\ MoveTo(c, "gone")
    BY <1>13 DEF Drop
  <2>2. "gone" \in Places \ {"unmade"}
    BY DEF Places
  <2> QED BY <2>1, <2>2, MovedSettles
<1> QED BY <1>4, <1>5, <1>6, <1>7, <1>8, <1>9, <1>10, <1>11, <1>12, <1>13

LEMMA StepSettles == Inv /\ [Next]_vars => [Promise!Next]_(Promise!vars)
<1> SUFFICES ASSUME Inv, [Next]_vars PROVE [Promise!Next]_(Promise!vars)
  OBVIOUS
<1>1. ASSUME NEW c \in Calls, NEW ask \in Asks, Make(c, ask)
      PROVE  [Promise!Next]_(Promise!vars)
  BY <1>1, MakeSettles
<1>2. ASSUME NEW c \in Calls, Dial(c) \/ Unreachable(c) \/ Cut(c) \/ GiveUp(c) \/ Read(c)
      PROVE  [Promise!Next]_(Promise!vars)
  BY <1>2, ClientSettles
<1>3. ASSUME NEW c \in Calls,
             Receive(c) \/ Register(c) \/ Login(c) \/ ListRooms(c) \/ InsertRoom(c)
               \/ ReadRoom(c) \/ Post(c) \/ ListMessages(c) \/ StoreFails(c) \/ Drop(c)
      PROVE  [Promise!Next]_(Promise!vars)
  BY <1>3, ServerStepSettles
<1>4. CASE Expire \/ LoseSecret \/ Logout \/ UNCHANGED vars
  <2>1. calls' = calls
    BY <1>4 DEF Expire, LoseSecret, Logout, vars
  <2> QED BY <2>1, NobodysCall
<1> QED BY <1>1, <1>2, <1>3, <1>4 DEF Next

LEMMA InitSettles == Init => Promise!Init
<1> SUFFICES ASSUME Init PROVE Promise!Init
  OBVIOUS
<1>1. ASSUME NEW d \in Calls
      PROVE  StateOf(calls[d]) = "quiet" /\ ToldOf(calls[d].outcome) = "nothing"
  <2>1. /\ calls[d].place = "unmade" /\ calls[d].applied = FALSE
        /\ calls[d].outcome = None
    BY DEF Init
  <2>2. calls[d].applied \in BOOLEAN /\ ~calls[d].applied /\ ~Made(calls[d])
    BY <2>1 DEF Made
  <2> QED BY <2>1, <2>2, StateIs, ToldIs
<1> QED BY <1>1 DEF Promise!Init

\* The calls keep the promise of RemoteCall: whatever a transport, an extractor,
\* a handler or the client makes of a call, Ok is said of one that was carried
\* out, a refusal or a failure to connect of one that was not and will not be,
\* and nothing said is taken back (client.rs execute, tcp.rs failure,
\* api.rs ApiError).
THEOREM CallsSettle == Spec => CallsAreSettled
BY InitSettles, InvHolds, StepSettles, PTL DEF Spec, CallsAreSettled, Promise!Spec
=============================================================================
