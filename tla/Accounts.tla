------------------------------ MODULE Accounts ------------------------------
(***************************************************************************)
(* Registering, logging in and posting under a name: the users table and   *)
(* the handlers over it (chat-server: store/sqlite/users.rs, api/auth.rs,  *)
(* auth.rs).                                                               *)
(*                                                                         *)
(* Handlers run at once, each over a connection of the pool; a statement is*)
(* atomic, the statements of one handler are not.  A handler may be cut    *)
(* off between any two steps: the connection closes, a statement fails, the*)
(* server stops.  What was written stays.  Names and passwords that are    *)
(* refused before the store is reached change nothing and are left out, and*)
(* so is a token's expiry, which ClientSession.tla models.                 *)
(***************************************************************************)
EXTENDS Naturals, Sequences

CONSTANTS
  Handlers,      \* requests served at once
  Names,         \* spellings of usernames
  Fold,          \* COLLATE NOCASE: what a spelling is compared by
  Passwords,
  MaxAccounts,   \* Caps.accounts
  None

ASSUME AccountsAssumption ==
  /\ Fold \in [Names -> Names]
  /\ MaxAccounts \in Nat
  /\ None \notin Names \cup Passwords

VARIABLES
  users,      \* the table, in insertion order: who, and whose password's hash
  handlers,   \* where each handler is
  tokens,     \* issued tokens: the name a token says, the password it was earned with
  authors     \* the names messages were attributed to

vars == <<users, handlers, tokens, authors>>

Credentials == [name : Names, password : Passwords]

Steps == {"idle", "insert", "check", "told", "lookup", "verify", "issue"}

Free == [step |-> "idle", name |-> None, password |-> None, found |-> None]

\* `found` is what a handler holds across a step: the stored hash that a login
\* read, or the answer of a registration.
Handler ==
  [step : Steps, name : Names \cup {None}, password : Passwords \cup {None},
   found : Passwords \cup {None, "created", "taken", "full"}]

Init ==
  /\ users = << >>
  /\ handlers = [h \in Handlers |-> Free]
  /\ tokens = {}
  /\ authors = {}

\* Mutant of SameName: names are compared byte by byte.
SameNameExact(a, b) == a = b

\* The collation of the primary key and of every WHERE over it.
SameName(a, b) == Fold[a] = Fold[b]

Taken(name) == \E i \in 1..Len(users) : SameName(users[i].name, name)

StoredHash(name) ==
  IF Taken(name)
  THEN users[CHOOSE i \in 1..Len(users) : SameName(users[i].name, name)].password
  ELSE None

\* Mutant of BelowCap: the cap is one off.
BelowCapOffByOne == Len(users) <= MaxAccounts

\* SELECT COUNT(*) FROM users < max.
BelowCap == Len(users) < MaxAccounts

At(h, step) == handlers[h].step = step

GoTo(h, step, found) ==
  handlers' = [handlers EXCEPT ![h] =
    [step |-> step, name |-> @.name, password |-> @.password, found |-> found]]

-----------------------------------------------------------------------------
(* Registering: two statements. *)

\* The request arrives, its name is accepted and its password is hashed.
Register(h, who) ==
  /\ At(h, "idle")
  /\ handlers' = [handlers EXCEPT ![h] =
       [step |-> "insert", name |-> who.name, password |-> who.password, found |-> None]]
  /\ UNCHANGED <<users, tokens, authors>>

\* INSERT ... SELECT ... WHERE count < max ON CONFLICT DO NOTHING, a row written.
Insert(h) ==
  /\ At(h, "insert")
  /\ BelowCap
  /\ ~Taken(handlers[h].name)
  /\ users' = Append(users, [name |-> handlers[h].name, password |-> handlers[h].password])
  /\ GoTo(h, "told", "created")
  /\ UNCHANGED <<tokens, authors>>

\* The same statement, no row written: why is asked next.
InsertNothing(h) ==
  /\ At(h, "insert")
  /\ ~BelowCap \/ Taken(handlers[h].name)
  /\ GoTo(h, "check", None)
  /\ UNCHANGED <<users, tokens, authors>>

\* Mutant of Check: a full server says so before it looks for the name.
CheckCapFirst(h) ==
  /\ At(h, "check")
  /\ GoTo(h, "told", IF BelowCap THEN "taken" ELSE "full")
  /\ UNCHANGED <<users, tokens, authors>>

\* SELECT EXISTS: the name is taken, or else the cap was reached.
Check(h) ==
  /\ At(h, "check")
  /\ GoTo(h, "told", IF Taken(handlers[h].name) THEN "taken" ELSE "full")
  /\ UNCHANGED <<users, tokens, authors>>

-----------------------------------------------------------------------------
(* Logging in: the stored hash is read, the password verified, a token issued. *)

Login(h, who) ==
  /\ At(h, "idle")
  /\ handlers' = [handlers EXCEPT ![h] =
       [step |-> "lookup", name |-> who.name, password |-> who.password, found |-> None]]
  /\ UNCHANGED <<users, tokens, authors>>

LookUp(h) ==
  /\ At(h, "lookup")
  /\ GoTo(h, "verify", StoredHash(handlers[h].name))
  /\ UNCHANGED <<users, tokens, authors>>

\* Mutant of Verified: an account that does not exist is not told apart.
VerifiedAbsent(password, stored) == stored \in {password, None}

\* verify_password: against a fixed hash when there is no account, and then
\* the answer is no whatever the password.
Verified(password, stored) == stored # None /\ stored = password

\* verify_password on a blocking thread; a mismatch is answered at once.
Verify(h) ==
  /\ At(h, "verify")
  /\ IF Verified(handlers[h].password, handlers[h].found)
       THEN GoTo(h, "issue", handlers[h].found)
       ELSE handlers' = [handlers EXCEPT ![h] = Free]
  /\ UNCHANGED <<users, tokens, authors>>

\* Tokens::issue, for the name as the request spelled it.
Issue(h) ==
  /\ At(h, "issue")
  /\ tokens' = tokens \cup {[name |-> handlers[h].name, password |-> handlers[h].password]}
  /\ handlers' = [handlers EXCEPT ![h] = Free]
  /\ UNCHANGED <<users, authors>>

-----------------------------------------------------------------------------

\* A message is posted with a token, and attributed to the name it says.
Post ==
  /\ \E token \in tokens : authors' = authors \cup {token.name}
  /\ UNCHANGED <<users, handlers, tokens>>

\* The reply leaves, or the handler is cut off where it stands.
End(h) ==
  /\ ~At(h, "idle")
  /\ handlers' = [handlers EXCEPT ![h] = Free]
  /\ UNCHANGED <<users, tokens, authors>>

\* The server stops and starts again over the same database and secret.
Restart ==
  /\ handlers' = [h \in Handlers |-> Free]
  /\ UNCHANGED <<users, tokens, authors>>

Next ==
  \/ \E h \in Handlers :
       \/ \E who \in Credentials : Register(h, who) \/ Login(h, who)
       \/ Insert(h) \/ InsertNothing(h) \/ Check(h)
       \/ LookUp(h) \/ Verify(h) \/ Issue(h)
       \/ End(h)
  \/ Post
  \/ Restart

Spec == Init /\ [][Next]_vars

-----------------------------------------------------------------------------
(* Properties. *)

TypeOK ==
  /\ users \in Seq(Credentials)
  /\ handlers \in [Handlers -> Handler]
  /\ \A h \in Handlers :
       At(h, "idle") \/ (handlers[h].name \in Names /\ handlers[h].password \in Passwords)
  /\ tokens \subseteq Credentials
  /\ authors \subseteq Names

\* However many registrations run at once, an account is not created twice
\* under two spellings, and there are never more accounts than the cap allows
\* (users.rs:37, the count and the insert being one statement).
OneAccountPerName ==
  /\ Len(users) <= MaxAccounts
  /\ \A i, j \in 1..Len(users) : SameName(users[i].name, users[j].name) => i = j

Has(name, password) ==
  \E i \in 1..Len(users) : SameName(users[i].name, name) /\ users[i].password = password

AnswerTrue(h) ==
  LET name == handlers[h].name
  IN  At(h, "told") =>
        CASE handlers[h].found = "created" -> Has(name, handlers[h].password)
          [] handlers[h].found = "taken"   -> Taken(name)
          [] handlers[h].found = "full"    -> Len(users) >= MaxAccounts /\ ~Taken(name)
          [] OTHER                         -> FALSE

\* What a registration is told is so, and stays so until it is read: the
\* account is there with the password that was sent, or someone else's is, or
\* there is none and no room for one.
AnswersTrue == \A h \in Handlers : AnswerTrue(h)

\* A token was earned with the password the account was created with, whatever
\* registrations of the same name were tried since: nobody's password is ever
\* replaced, and no message is attributed to a name without an account.
TokensEarned ==
  /\ \A token \in tokens : Has(token.name, token.password)
  /\ \A name \in authors : Taken(name)

\* What a handler knows between two steps is still so at the second: a
\* registration that wrote nothing was refused for a reason that lasts, and a
\* hash that was read is still the account's.
StillSo(h) ==
  LET who == handlers[h]
  IN  /\ At(h, "check")  => Taken(who.name) \/ Len(users) >= MaxAccounts
      /\ At(h, "verify") /\ who.found # None =>
           who.found \in Passwords /\ Has(who.name, who.found)
      /\ At(h, "issue")  => Has(who.name, who.password)

Inv == /\ TypeOK
       /\ OneAccountPerName
       /\ AnswersTrue
       /\ TokensEarned
       /\ \A h \in Handlers : StillSo(h)

\* A registration is one step of the abstract directory, although the code
\* takes two statements for it.
Registration ==
  INSTANCE NameDirectory WITH
    Clients <- Handlers, Cap <- MaxAccounts, Seeded <- << >>,
    held <- [i \in 1..Len(users) |-> users[i].name],
    requests <- [h \in Handlers |->
      CASE At(h, "insert") \/ At(h, "check") ->
             [step |-> "asked", name |-> handlers[h].name, answer |-> None]
        [] At(h, "told") ->
             [step |-> "told", name |-> handlers[h].name, answer |-> handlers[h].found]
        [] OTHER -> [step |-> "quiet", name |-> None, answer |-> None]]

RegistersAtomically == Registration!Spec
=============================================================================
