--------------------------- MODULE ClientSession ----------------------------
(***************************************************************************)
(* The login a chat client carries, and the calls that use it.             *)
(*                                                                         *)
(* chat-client-core/src/client.rs: every clone of a `ChatClient` shares one*)
(* session, so calls of several tasks run at once, each over its own       *)
(* request: a call reads the token, the request travels, and the reply is  *)
(* looked at when the session may long be another one.  The server keeps   *)
(* no sessions: a token is good as long as it was signed with the secret   *)
(* in use and its expiry, in whole seconds, is not past                    *)
(* (chat-server/src/auth.rs).                                              *)
(*                                                                         *)
(* The Kotlin and Swift clients follow the same steps and differ in what a *)
(* refusal discards: ForgetsIfCurrent is FALSE for them.                   *)
(***************************************************************************)
EXTENDS Naturals

CONSTANTS
  Users,              \* who logs in
  Calls,              \* the tasks that make calls, one at a time each
  Validity,           \* how long a token is good for, in seconds
  MaxTime,            \* bound: the last second of the server's clock
  MaxSecrets,         \* bound: how many times the server's secret is lost
  ForgetsIfCurrent,   \* whether a refusal spares a login that is not its own
  None

ASSUME SessionAssumption ==
  /\ Validity \in Nat
  /\ MaxTime \in Nat
  /\ MaxSecrets \in Nat
  /\ ForgetsIfCurrent \in BOOLEAN
  /\ None \notin [user : Users, exp : Nat, secret : Nat]

VARIABLES
  now,       \* server: the clock
  secret,    \* server: which secret signs tokens
  session,   \* client: the token of the current login, or None
  calls      \* client and wire: what each task's call is at

sessionVars == <<now, secret, session, calls>>

\* A token says who, until when, and is signed.  Two logins of one user in
\* the same second get the same token: nothing else goes into it.
Token == [user : Users, exp : Nat, secret : Nat]

\* Mutant of Accepted: the clock is compared the wrong way round.
AcceptedBackwards(t) == t.secret = secret /\ t.exp <= now

\* Tokens.verify: the signature is of the secret in use and the expiry is not
\* past (jsonwebtoken refuses exp < now; the leeway is zero).
Accepted(t) == t.secret = secret /\ t.exp >= now

\* A call: idle, a login or an authenticated request under way, or its answer
\* on the way back.  `token` is the one sent, or the one a login earned.
Idle == [step |-> "idle", user |-> None, token |-> None]

Call ==
  [step : {"idle", "login", "granted", "denied", "asking", "answered", "refused"},
   user : Users \cup {None},
   token : Token \cup {None}]

SessionInit ==
  /\ now = 0
  /\ secret = 0
  /\ session = None
  /\ calls = [c \in Calls |-> Idle]

-----------------------------------------------------------------------------
(* The server. *)

Tick ==
  /\ now < MaxTime
  /\ now' = now + 1
  /\ UNCHANGED <<secret, session, calls>>

\* load_or_create_secret finds no file at a restart: every token is void.
LoseSecret ==
  /\ secret < MaxSecrets
  /\ secret' = secret + 1
  /\ UNCHANGED <<now, session, calls>>

\* Tokens.issue, for a login the password of which is right.
GrantLogin(c) ==
  /\ calls[c].step = "login"
  /\ calls' = [calls EXCEPT ![c].step = "granted",
                            ![c].token = [user |-> calls[c].user,
                                          exp |-> now + Validity,
                                          secret |-> secret]]
  /\ UNCHANGED <<now, secret, session>>

\* The password is wrong: a 401 that carries no token's refusal.
DenyLogin(c) ==
  /\ calls[c].step = "login"
  /\ calls' = [calls EXCEPT ![c].step = "denied"]
  /\ UNCHANGED <<now, secret, session>>

\* The Authenticated extractor, then the handler.
Serve(c) ==
  /\ calls[c].step = "asking"
  /\ calls' = [calls EXCEPT ![c].step = IF Accepted(calls[c].token)
                                          THEN "answered" ELSE "refused"]
  /\ UNCHANGED <<now, secret, session>>

-----------------------------------------------------------------------------
(* The client. *)

\* `login` sends a name and a password, and no token.
StartLogin(c, u) ==
  /\ calls[c].step = "idle"
  /\ calls' = [calls EXCEPT ![c] = [step |-> "login", user |-> u, token |-> None]]
  /\ UNCHANGED <<now, secret, session>>

\* An authenticated call reads the token and leaves with it.  Without one it
\* ends at once with NotLoggedIn and changes nothing.
StartCall(c) ==
  /\ calls[c].step = "idle"
  /\ session # None
  /\ calls' = [calls EXCEPT ![c] = [step |-> "asking", user |-> None, token |-> session]]
  /\ UNCHANGED <<now, secret, session>>

\* store_session: the login whose reply comes last is the session.
LoggedIn(c) ==
  /\ calls[c].step = "granted"
  /\ session' = calls[c].token
  /\ calls' = [calls EXCEPT ![c] = Idle]
  /\ UNCHANGED <<now, secret>>

\* A reply that is no refusal of a token: the session is left alone.
Answered(c) ==
  /\ calls[c].step \in {"answered", "denied"}
  /\ calls' = [calls EXCEPT ![c] = Idle]
  /\ UNCHANGED <<now, secret, session>>

\* Mutants of AfterRefusal: the refused token is only reported; the session is
\* dropped whichever token was refused.
AfterRefusalKeeps(t) == session
AfterRefusalDrops(t) == None

\* What is left of the session once `t` was refused: forget_if_current, or the
\* mobile clients' unconditional `token = null`.
AfterRefusal(t) ==
  IF session = t \/ ~ForgetsIfCurrent THEN None ELSE session

\* A 401 to a request that carried a token: SessionExpired.
Refused(c) ==
  /\ calls[c].step = "refused"
  /\ session' = AfterRefusal(calls[c].token)
  /\ calls' = [calls EXCEPT ![c] = Idle]
  /\ UNCHANGED <<now, secret>>

\* The transport fails or times out, or the caller drops the call.
Lost(c) ==
  /\ calls[c].step # "idle"
  /\ calls' = [calls EXCEPT ![c] = Idle]
  /\ UNCHANGED <<now, secret, session>>

Logout ==
  /\ session # None
  /\ session' = None
  /\ UNCHANGED <<now, secret, calls>>

SessionNext ==
  \/ Tick
  \/ LoseSecret
  \/ Logout
  \/ \E c \in Calls :
       \/ GrantLogin(c)
       \/ DenyLogin(c)
       \/ Serve(c)
       \/ \E u \in Users : StartLogin(c, u)
       \/ StartCall(c)
       \/ LoggedIn(c)
       \/ Answered(c)
       \/ Refused(c)
       \/ Lost(c)

SessionSpec == SessionInit /\ [][SessionNext]_sessionVars

\* Someone keeps calling (a feed polls on), every request ends (the transports
\* time out), and of requests tried forever some are served and some replies
\* come back: they may be lost again and again, but not all of them.
Fairness ==
  \E c \in Calls :
    /\ SF_sessionVars(StartCall(c))
    /\ SF_sessionVars(Serve(c))
    /\ SF_sessionVars(Refused(c))
    /\ WF_sessionVars(Lost(c))

FairSessionSpec == SessionSpec /\ Fairness

-----------------------------------------------------------------------------
(* Properties. *)

\* Every variable has its type; a token is with the calls that carry one.
SessionTypeOK ==
  /\ now \in Nat
  /\ secret \in Nat
  /\ session \in Token \cup {None}
  /\ calls \in [Calls -> Call]
  /\ \A c \in Calls : /\ calls[c].step = "login" => calls[c].user \in Users
                      /\ calls[c].step \in {"granted", "asking", "answered", "refused"} =>
                           calls[c].token \in Token

\* A late refusal is about a token nobody holds any more: a session the server
\* still accepts ends by a logout or gives way to another login, and by
\* nothing else, in whatever order replies arrive
\* (chat-client-core/src/client/tests.rs:441).
GoodSessionKept ==
  [][ session # None /\ session' # session /\ Accepted(session)
      => Logout \/ \E c \in Calls : LoggedIn(c) ]_sessionVars

\* A caller is told SessionExpired only of a token that is no good, and will
\* never be again (Tokens::verify of chat-server/src/auth.rs, with no leeway:
\* what is not past yet is taken).
RefusalIsFinal ==
  \A c \in Calls : calls[c].step = "refused" => ~Accepted(calls[c].token)

\* No token is signed with a secret the server will only have later, so a token
\* that is void stays void: what RefusalIsFinal rests on.
SignedInThePast ==
  /\ session # None => session.secret <= secret
  /\ \A c \in Calls : calls[c].token # None => calls[c].token.secret <= secret

Inv == SessionTypeOK /\ SignedInThePast /\ RefusalIsFinal

\* A session the server no longer accepts does not stay: as long as someone
\* keeps calling, a refusal comes back and it is forgotten, or it is replaced.
DeadSessionNoticed ==
  \A u \in Users, x \in 0..(MaxTime + Validity), s \in 0..MaxSecrets :
    LET t == [user |-> u, exp |-> x, secret |-> s]
    IN  (session = t /\ ~Accepted(t)) ~> (session # t)
=============================================================================
