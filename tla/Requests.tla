------------------------------- MODULE Requests -------------------------------
(***************************************************************************)
(* One call of the chat client from end to end: ChatClient::execute        *)
(* (chat-client-core/src/client.rs), a transport (transport/tcp.rs,        *)
(* transport/scion.rs), the server's extractors and handlers               *)
(* (chat-server/src/api), and the way back, where a refusal, a reply that  *)
(* cannot be read or a failure of the transport becomes the ChatError the  *)
(* caller sees.                                                            *)
(*                                                                         *)
(* Calls run at once.  A connection may fail at any point, and a call that *)
(* was given up may still be carried out.  What two statements of two      *)
(* handlers do to each other is the business of Accounts.tla and           *)
(* RoomStore.tla: here a handler's work at the store is one step, except   *)
(* where it may fail half-way (create).                                    *)
(***************************************************************************)
EXTENDS Naturals, FiniteSets

CONSTANTS
  Calls,         \* calls, each made once
  Asks,          \* what they may ask for
  Names,         \* user and room names the server accepts
  User,          \* who is logged in to begin with
  MaxAccounts,   \* Config.max_accounts
  MaxRooms,      \* Config.max_rooms; one room is there from the start
  MaxTokens,     \* bound: how many tokens are issued
  None

VARIABLES
  transport,   \* the client's: "tcp" or "scion", for good
  session,     \* the client's token, or None
  verdict,     \* what Tokens::verify says of each token
  accounts,    \* the users table
  rooms,       \* the rooms created
  calls        \* each call: client, wire and handler

vars == <<transport, session, verdict, accounts, rooms, calls>>

Tokens == 1..MaxTokens

\* What a call asks for.  `with` is the name, the message body or the page
\* limit it carries, and `room` where a message goes or a page comes from.
AllAsks ==
  [op : {"health", "info", "list"}, with : {None}, room : {None}]
    \cup [op : {"register", "login", "create"}, with : Names \cup {"bad name"}, room : {None}]
    \cup [op : {"send"}, with : {"fits", "empty", "large", "huge"}, room : {"here", "missing"}]
    \cup [op : {"page"}, with : {"usual", "beyond u32"}, room : {"here", "missing"}]

ASSUME RequestsAssumption ==
  /\ Asks \subseteq AllAsks
  /\ User \in Names
  /\ "bad name" \notin Names
  /\ MaxAccounts \in Nat
  /\ MaxRooms \in Nat
  /\ MaxTokens \in Nat \ {0}

\* The calls client.rs makes with Auth::Required.
Required == {"list", "create", "send", "page"}

\* ErrorCode, as far as this server sends it.
Codes ==
  {"invalid_body", "internal", "unauthorized", "expired_token", "invalid_credentials",
   "username_taken", "invalid_username", "invalid_name", "room_not_found",
   "message_too_large", "cap_exceeded"}

\* TransportError; its Protocol is "Http" here.
TransportErrors ==
  {"Resolution", "Connect", "Tls", "StreamReset", "Http", "BodyTooLarge", "Timeout"}

\* What a call ends with: Ok, the code of a ChatError::Api, or another error.
Outcomes ==
  {"Ok", "NotLoggedIn", "SessionExpired", "Protocol"} \cup Codes \cup TransportErrors

\* A reply: its body is what the handler wrote, nothing at all, the error
\* envelope, an axum rejection's plain text, or more than MAX_BODY_BYTES.  Any
\* success is a 200 here: the client asks for no more than is_success.
Reply ==
  [status : {200, 400, 401, 404, 409, 413, 422, 429, 500},
   body : {"json", "empty", "envelope", "text", "oversized"},
   code : Codes \cup {None}, token : Tokens \cup {None}]

\* Where a request is: not made, before the connection stands, sent, past the
\* extractors, between the two statements of create, answered, or nowhere.
Places == {"unmade", "dialing", "wire", "handler", "readback", "answered", "gone"}

Call ==
  [ask : Asks \cup {None}, token : Tokens \cup {None}, place : Places,
   reply : Reply \cup {None}, applied : BOOLEAN, outcome : Outcomes \cup {None}]

ASSUME NoneAssumption ==
  /\ None \notin Tokens
  /\ None \notin Outcomes
  /\ None \notin Asks
  /\ None \notin Reply

Init ==
  /\ transport \in {"tcp", "scion"}
  /\ session \in {None, 1}
  /\ verdict = [t \in Tokens |-> IF t = 1 THEN "good" ELSE "unissued"]
  /\ accounts = {User}
  /\ rooms = {}
  /\ calls = [c \in Calls |-> [ask |-> None, token |-> None, place |-> "unmade",
                               reply |-> None, applied |-> FALSE, outcome |-> None]]

\* What changes of a call, field by field.
MoveTo(c, place) == calls' = [calls EXCEPT ![c].place = place]

\* The reply goes out, if someone still waits for it.
Answer(c, reply, applied) ==
  calls' = [calls EXCEPT
    ![c].place = IF calls[c].outcome = None THEN "answered" ELSE "gone",
    ![c].reply = IF calls[c].outcome = None THEN reply ELSE None,
    ![c].applied = applied]

AnswerWith(c, reply) == Answer(c, reply, calls[c].applied)

\* The handler did what it was asked for, and says so.
Carried(c, reply) == Answer(c, reply, TRUE)

\* The call ends for its caller; a request the server has stays with it.
End(c, outcome) ==
  calls' = [calls EXCEPT
    ![c].outcome = outcome,
    ![c].reply = None,
    ![c].place = IF @ \in {"dialing", "answered"} THEN "gone" ELSE @]

Success(body) == [status |-> 200, body |-> body, code |-> None, token |-> None]

\* ApiError::into_response: the code travels in the envelope.
Refusal(status, code) ==
  [status |-> status, body |-> "envelope", code |-> code, token |-> None]

-----------------------------------------------------------------------------
(* The client sends. *)

\* The call is made: with the token of the session, if it needs one.
Make(c, ask) ==
  /\ calls[c].place = "unmade"
  /\ IF ask.op \in Required /\ session = None
       THEN calls' = [calls EXCEPT ![c].ask = ask, ![c].place = "gone",
                                   ![c].outcome = "NotLoggedIn"]
       ELSE calls' = [calls EXCEPT ![c].ask = ask, ![c].place = "dialing",
                                   ![c].token = IF ask.op \in Required THEN session ELSE None]
  /\ UNCHANGED <<transport, session, verdict, accounts, rooms>>

Waiting(c) == calls[c].place # "unmade" /\ calls[c].outcome = None

\* A connection stands, and the request goes out.
Dial(c) ==
  /\ Waiting(c)
  /\ calls[c].place = "dialing"
  /\ MoveTo(c, "wire")
  /\ UNCHANGED <<transport, session, verdict, accounts, rooms>>

-----------------------------------------------------------------------------
(* What fails, and what the transport makes of it. *)

\* What reqwest says of its errors: the categories overlap.
Flags ==
  [no_name     |-> {"connect", "request"}, no_route |-> {"connect", "request"},
   late        |-> {"timeout", "request"}, late_dialing |-> {"timeout", "connect", "request"},
   before_head |-> {"request"},            in_body |-> {"decode"}]

\* Mutant of TcpFailure: what is no timeout and not in the body is a failure to connect.
TcpFailureByDefault(what) ==
  CASE "timeout" \in Flags[what] -> "Timeout"
    [] what = "in_body" -> "StreamReset"
    [] OTHER -> "Connect"

\* tcp.rs failure: the tests are made in this order.
TcpFailure(what) ==
  LET is(flag) == flag \in Flags[what]
  IN  IF is("timeout") THEN "Timeout"
      ELSE IF is("connect") THEN "Connect"
      ELSE IF is("request") \/ is("builder") THEN "Http"
      ELSE IF is("body") \/ is("decode") THEN "StreamReset"
      ELSE "Connect"

\* scion.rs failure, over what scion_http3 may report.
ScionFailures(what) ==
  CASE what = "no_name" -> {"Resolution"}
    [] what = "no_route" -> {"Connect"}
    [] what = "identity" -> {"Tls"}
    [] what \in {"late", "late_dialing"} -> {"Timeout"}
    [] what \in {"before_head", "in_body"} -> {"StreamReset", "Http"}

Failures(what) ==
  IF transport = "tcp" THEN {TcpFailure(what)} ELSE ScionFailures(what)

\* What can go wrong before anything was sent; only HTTP/3 has identities.
Unreached == {"no_name", "no_route"} \cup (IF transport = "tcp" THEN {} ELSE {"identity"})

Unreachable(c) ==
  /\ Waiting(c)
  /\ calls[c].place = "dialing"
  /\ \E what \in Unreached : \E error \in Failures(what) :
       End(c, error)
  /\ UNCHANGED <<transport, session, verdict, accounts, rooms>>

\* The connection drops, before the reply's head is read or, if there is one,
\* within its body.  The server may not have noticed.
Cut(c) ==
  /\ Waiting(c)
  /\ calls[c].place # "dialing"
  /\ \E what \in {"before_head"} \cup (IF calls[c].place = "answered" THEN {"in_body"} ELSE {}) :
       \E error \in Failures(what) : End(c, error)
  /\ UNCHANGED <<transport, session, verdict, accounts, rooms>>

\* The call's time is over, from the first attempt to connect to the last byte
\* of the reply: REQUEST_TIMEOUT of tcp.rs, a Timeout of scion_http3.
GiveUp(c) ==
  /\ Waiting(c)
  /\ \E error \in Failures(IF calls[c].place = "dialing" THEN "late_dialing" ELSE "late") :
       End(c, error)
  /\ UNCHANGED <<transport, session, verdict, accounts, rooms>>

-----------------------------------------------------------------------------
(* The server. *)

\* What an extractor or the handler finds wrong with what is asked, in the
\* order of their checks: the query or the body, then what is in it.  Else None.
AskComplaint(ask) ==
  CASE ask.with = "beyond u32" ->
         [status |-> 400, body |-> "text", code |-> None, token |-> None]
    [] ask.with = "huge"  -> Refusal(400, "invalid_body")
    [] ask.with = "large" -> Refusal(413, "message_too_large")
    [] ask.with = "empty" -> Refusal(422, "invalid_body")
    [] ask.with = "bad name" /\ ask.op = "register" -> Refusal(422, "invalid_username")
    [] ask.with = "bad name" /\ ask.op = "create"   -> Refusal(422, "invalid_name")
    [] OTHER -> None

\* Authenticated comes before anything else is looked at.
Complaint(c) ==
  IF calls[c].ask.op \in Required /\ verdict[calls[c].token] = "expired"
    THEN Refusal(401, "expired_token")
  ELSE IF calls[c].ask.op \in Required /\ verdict[calls[c].token] # "good"
    THEN Refusal(401, "unauthorized")
  ELSE AskComplaint(calls[c].ask)

\* The request is read: refused, or answered by health or info, or on to the store.
Receive(c) ==
  /\ calls[c].place = "wire"
  /\ IF Complaint(c) # None THEN AnswerWith(c, Complaint(c))
     ELSE IF calls[c].ask.op \in {"health", "info"} THEN Carried(c, Success("json"))
     ELSE MoveTo(c, "handler")
  /\ UNCHANGED <<transport, session, verdict, accounts, rooms>>

At(c, op) == calls[c].place = "handler" /\ calls[c].ask.op = op

Register(c) ==
  /\ At(c, "register")
  /\ LET name == calls[c].ask.with
     IN  \/ /\ name \in accounts
            /\ AnswerWith(c, Refusal(409, "username_taken"))
            /\ UNCHANGED accounts
         \/ /\ name \notin accounts /\ Cardinality(accounts) >= MaxAccounts
            /\ AnswerWith(c, Refusal(429, "cap_exceeded"))
            /\ UNCHANGED accounts
         \/ /\ name \notin accounts /\ Cardinality(accounts) < MaxAccounts
            /\ Carried(c, Success("empty"))
            /\ accounts' = accounts \cup {name}
  /\ UNCHANGED <<transport, session, verdict, rooms>>

\* The password is taken to be right; a name without an account is refused
\* like a wrong password.
Login(c) ==
  /\ At(c, "login")
  /\ \/ /\ calls[c].ask.with \notin accounts
        /\ AnswerWith(c, Refusal(401, "invalid_credentials"))
        /\ UNCHANGED verdict
     \/ /\ calls[c].ask.with \in accounts
        /\ \E t \in Tokens :
             /\ verdict[t] = "unissued"
             /\ verdict' = [verdict EXCEPT ![t] = "good"]
             /\ Carried(c, [Success("json") EXCEPT !.token = t])
  /\ UNCHANGED <<transport, session, accounts, rooms>>

ListRooms(c) ==
  /\ At(c, "list")
  /\ Carried(c, Success("json"))
  /\ UNCHANGED <<transport, session, verdict, accounts, rooms>>

\* create's first statement: the room is there now, or the cap is reached.
InsertRoom(c) ==
  /\ At(c, "create")
  /\ LET name == calls[c].ask.with
     IN  /\ rooms' = IF Cardinality(rooms) + 1 < MaxRooms THEN rooms \cup {name} ELSE rooms
         /\ calls' = [calls EXCEPT ![c].place = "readback", ![c].applied = name \in rooms']
  /\ UNCHANGED <<transport, session, verdict, accounts>>

\* create's second statement: the room, if there is one.
ReadRoom(c) ==
  /\ calls[c].place = "readback"
  /\ AnswerWith(c, IF calls[c].ask.with \in rooms
                     THEN Success("json") ELSE Refusal(429, "cap_exceeded"))
  /\ UNCHANGED <<transport, session, verdict, accounts, rooms>>

\* The message is stored, or there is no such room.
Post(c) ==
  /\ At(c, "send")
  /\ IF calls[c].ask.room = "here"
       THEN Carried(c, Success("json"))
       ELSE AnswerWith(c, Refusal(404, "room_not_found"))
  /\ UNCHANGED <<transport, session, verdict, accounts, rooms>>

\* A page may be more than the client reads: max_message_bytes has no upper
\* bound, and a page is up to 200 messages.
ListMessages(c) ==
  /\ At(c, "page")
  /\ IF calls[c].ask.room = "here"
       THEN \E body \in {"json", "oversized"} : Carried(c, Success(body))
       ELSE AnswerWith(c, Refusal(404, "room_not_found"))
  /\ UNCHANGED <<transport, session, verdict, accounts, rooms>>

\* A statement fails, the first or the second, or the password cannot be
\* hashed: 500, and the caller is not told more.
StoreFails(c) ==
  /\ calls[c].place \in {"handler", "readback"}
  /\ AnswerWith(c, Refusal(500, "internal"))
  /\ UNCHANGED <<transport, session, verdict, accounts, rooms>>

\* Nobody waits any more: the connection is closed, and with it the handler
\* ends where it stands, or the server stopped.
Drop(c) ==
  /\ calls[c].outcome # None
  /\ calls[c].place \in {"wire", "handler", "readback"}
  /\ MoveTo(c, "gone")
  /\ UNCHANGED <<transport, session, verdict, accounts, rooms>>

\* A token's time is over.
Expire ==
  /\ \E t \in Tokens : verdict[t] = "good" /\ verdict' = [verdict EXCEPT ![t] = "expired"]
  /\ UNCHANGED <<transport, session, accounts, rooms, calls>>

\* The secret is lost at a restart: no token is this server's any more.
LoseSecret ==
  /\ \E t \in Tokens : verdict[t] \in {"good", "expired"}
  /\ verdict' = [t \in Tokens |-> IF verdict[t] = "unissued" THEN "unissued" ELSE "void"]
  /\ UNCHANGED <<transport, session, accounts, rooms, calls>>

-----------------------------------------------------------------------------
(* The client reads the reply. *)

\* The replies that are read as nothing in particular.
IgnoredReply == {"health", "register"}

\* Mutant of Decode: a reply without a body is not JSON.
DecodeStrict(op, body) == IF body = "empty" THEN "Protocol" ELSE "Ok"

\* decode: an empty body is `{}`, which is no answer where fields are expected.
Decode(op, body) ==
  IF body = "empty" /\ op \notin IgnoredReply THEN "Protocol" ELSE "Ok"

\* error.rs refusal: a refusal outside the envelope is a protocol failure.
RefusalOf(reply) == IF reply.body = "envelope" THEN reply.code ELSE "Protocol"

\* Mutant of Verdict: a 401 is an ended session whether or not a token was sent.
VerdictOfStatus(call) ==
  IF call.reply.body = "oversized" THEN "BodyTooLarge"
  ELSE IF call.reply.status = 200 THEN Decode(call.ask.op, call.reply.body)
  ELSE IF call.reply.status = 401 THEN "SessionExpired"
  ELSE RefusalOf(call.reply)

\* execute: what the reply is to the caller.
Verdict(call) ==
  IF call.reply.body = "oversized" THEN "BodyTooLarge"
  ELSE IF call.reply.status = 200 THEN Decode(call.ask.op, call.reply.body)
  ELSE IF call.reply.status = 401 /\ call.token # None THEN "SessionExpired"
  ELSE RefusalOf(call.reply)

\* store_session, and forget_if_current.
SessionAfter(call) ==
  CASE Verdict(call) = "Ok" /\ call.ask.op = "login" -> call.reply.token
    [] Verdict(call) = "SessionExpired" /\ session = call.token -> None
    [] OTHER -> session

Read(c) ==
  /\ Waiting(c)
  /\ calls[c].place = "answered"
  /\ session' = SessionAfter(calls[c])
  /\ End(c, Verdict(calls[c]))
  /\ UNCHANGED <<transport, verdict, accounts, rooms>>

Logout ==
  /\ session # None
  /\ session' = None
  /\ UNCHANGED <<transport, verdict, accounts, rooms, calls>>

Next ==
  \/ \E c \in Calls :
       \/ \E ask \in Asks : Make(c, ask)
       \/ Dial(c) \/ Unreachable(c) \/ Cut(c) \/ GiveUp(c) \/ Read(c)
       \/ Receive(c) \/ Register(c) \/ Login(c) \/ ListRooms(c) \/ InsertRoom(c)
       \/ ReadRoom(c) \/ Post(c) \/ ListMessages(c) \/ StoreFails(c) \/ Drop(c)
  \/ Expire \/ LoseSecret \/ Logout

Spec == Init /\ [][Next]_vars

-----------------------------------------------------------------------------
(* Properties. *)

\* Every variable has its type; a call that is under way says what for, one
\* that needs a token carries one that was issued, and an answer is one the
\* server gives.
TypeOK ==
  /\ transport \in {"tcp", "scion"}
  /\ session \in Tokens \cup {None}
  /\ verdict \in [Tokens -> {"unissued", "good", "expired", "void"}]
  /\ accounts \subseteq Names
  /\ rooms \subseteq Names
  /\ calls \in [Calls -> Call]
  /\ \A c \in Calls :
       /\ calls[c].place # "unmade" => calls[c].ask \in Asks
       /\ calls[c].place = "answered" => calls[c].reply \in Reply
       /\ calls[c].place \notin {"unmade", "gone"} /\ calls[c].ask.op \in Required =>
            calls[c].token \in Tokens

\* Outcomes that say the call was not carried out and never will be: a code
\* other than `internal`, no token or a refused one, no connection.
SaysRefused ==
  (Codes \ {"internal"}) \cup {"NotLoggedIn", "SessionExpired", "Resolution", "Connect", "Tls"}

ToldOf(outcome) ==
  CASE outcome = None -> "nothing"
    [] outcome = "Ok" -> "done"
    [] outcome \in SaysRefused -> "refused"
    [] OTHER -> "unknown"

StateOf(call) ==
  CASE call.applied -> "applied"
    [] ~call.applied /\ (call.place = "unmade" \/ call.outcome = "NotLoggedIn") -> "quiet"
    [] OTHER -> "asked"

Promise ==
  INSTANCE RemoteCall WITH
    state <- [c \in Calls |-> StateOf(calls[c])],
    told <- [c \in Calls |-> ToldOf(calls[c].outcome)]

\* Whatever fails between the caller and the store, a caller told Ok had its
\* call carried out, a caller told of a refusal or that there was no connection
\* can make it again without its being carried out twice, and what a caller
\* was told is never taken back by what a given-up request does later
\* (chat-client-core/src/error.rs:20, "Anything a client method can fail with").
CallsAreSettled == Promise!Spec

\* SessionExpired, "the token was refused, and the client has forgotten it"
\* (error.rs:44), is said of no other refusal: the token that was sent is no
\* good for good, and is not what the client goes on with.
ExpiredMeansForgotten ==
  \A c \in Calls : calls[c].outcome = "SessionExpired" =>
    /\ calls[c].token \in Tokens
    /\ verdict[calls[c].token] \in {"expired", "void"}
    /\ session # calls[c].token

\* A caller is told that the reply cannot be read for one reason only: a page
\* limit the query does not hold, which axum refuses outside the envelope
\* (chat-core/src/api/v1/error.rs:19).
UnreadableHasACause ==
  \A c \in Calls : calls[c].outcome = "Protocol" => calls[c].ask.with = "beyond u32"
=============================================================================
