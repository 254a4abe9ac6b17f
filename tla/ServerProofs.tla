---------------------------- MODULE ServerProofs ----------------------------
(***************************************************************************)
(* What holds of the server beside its rooms: registration and login, for  *)
(* any number of handlers, names, passwords and any cap; and starts, for   *)
(* any number of schema versions, of stops and of halves lost.  The        *)
(* argument for accounts: the table only grows, by rows of names that were *)
(* not there, while it is below the cap; so what a handler saw of it stays *)
(* true, whatever the others do in between.                                *)
(***************************************************************************)
EXTENDS Accounts, ServerStartup, SequenceTheorems, TLAPS

-----------------------------------------------------------------------------
(* Accounts. *)

\* How any step changes the table.
Grows ==
  \/ users' = users
  \/ /\ Len(users) < MaxAccounts
     /\ \E who \in Credentials : /\ ~Taken(who.name)
                                 /\ users' = Append(users, who)

\* Rows stay where they are.
LEMMA RowsStay ==
  ASSUME users \in Seq(Credentials), Grows
  PROVE  /\ users' \in Seq(Credentials)
         /\ Len(users) <= Len(users')
         /\ \A i \in 1..Len(users) : users'[i] = users[i]
<1>1. CASE users' = users
  BY <1>1
<1>2. ASSUME NEW who \in Credentials, users' = Append(users, who)
      PROVE  /\ users' \in Seq(Credentials)
             /\ Len(users) <= Len(users')
             /\ \A i \in 1..Len(users) : users'[i] = users[i]
  BY <1>2
<1> QED
  BY <1>1, <1>2 DEF Grows

LEMMA TakenStays ==
  ASSUME users \in Seq(Credentials), Grows, NEW name, Taken(name)
  PROVE  Taken(name)'
BY RowsStay DEF Taken, SameName

LEMMA HasStays ==
  ASSUME users \in Seq(Credentials), Grows, NEW name, NEW password, Has(name, password)
  PROVE  Has(name, password)'
BY RowsStay DEF Has, SameName

\* A handler that does not move keeps what it knows and what it is told.
LEMMA OthersKeep ==
  ASSUME users \in Seq(Credentials), MaxAccounts \in Nat, Grows, NEW h \in Handlers,
         handlers'[h] = handlers[h], AnswerTrue(h), StillSo(h)
  PROVE  AnswerTrue(h)' /\ StillSo(h)'
<1> DEFINE who == handlers[h]
<1>1. /\ Taken(who.name) => Taken(who.name)'
      /\ \A password : Has(who.name, password) => Has(who.name, password)'
  BY TakenStays, HasStays
<1>2. Len(users) >= MaxAccounts => users' = users
  BY DEF Grows
<1>3. Len(users) >= MaxAccounts /\ ~Taken(who.name) => ~Taken(who.name)'
  BY <1>2 DEF Taken
<1>4. Len(users) >= MaxAccounts => Len(users') >= MaxAccounts
  BY <1>2
<1>5. AnswerTrue(h)'
  BY <1>1, <1>3, <1>4 DEF AnswerTrue, At
<1>6. StillSo(h)'
  BY <1>1, <1>4 DEF StillSo, At
<1> QED
  BY <1>5, <1>6

\* The table stays free of doubles and within the cap.
LEMMA NamesStayUnique ==
  ASSUME users \in Seq(Credentials), MaxAccounts \in Nat, Grows, OneAccountPerName
  PROVE  OneAccountPerName'
<1>1. CASE users' = users
  BY <1>1 DEF OneAccountPerName, SameName
<1>2. ASSUME NEW who \in Credentials, ~Taken(who.name), Len(users) < MaxAccounts,
             users' = Append(users, who)
      PROVE  OneAccountPerName'
  <2>1. /\ Len(users') = Len(users) + 1 /\ Len(users) \in Nat
        /\ users'[Len(users) + 1] = who
        /\ \A i \in 1..Len(users) : users'[i] = users[i]
    BY <1>2
  <2>2. \A i \in 1..Len(users) : Fold[users'[i].name] # Fold[who.name]
    BY <1>2, <2>1 DEF Taken, SameName
  <2>3. ASSUME NEW i \in 1..Len(users'), NEW j \in 1..Len(users'),
               Fold[users'[i].name] = Fold[users'[j].name]
        PROVE  i = j
    <3>1. CASE i \in 1..Len(users) /\ j \in 1..Len(users)
      BY <2>1, <2>3, <3>1 DEF OneAccountPerName, SameName
    <3>2. CASE i = Len(users) + 1 \/ j = Len(users) + 1
      BY <2>1, <2>2, <2>3, <3>2
    <3> QED
      BY <2>1, <3>1, <3>2
  <2> QED
    BY <1>2, <2>1, <2>3 DEF OneAccountPerName, SameName
<1> QED
  BY <1>1, <1>2 DEF Grows

-----------------------------------------------------------------------------

LEMMA InitInv == Init => Inv
<1> SUFFICES ASSUME Init PROVE Inv
  OBVIOUS
<1>1. << >> \in Seq(Credentials)
  OBVIOUS
<1>2. TypeOK
  BY <1>1 DEF Init, TypeOK, Handler, Free, Steps, At
<1>3. OneAccountPerName /\ TokensEarned
  BY AccountsAssumption DEF Init, OneAccountPerName, TokensEarned
<1>4. \A h \in Handlers : AnswerTrue(h) /\ StillSo(h)
  BY DEF Init, AnswerTrue, StillSo, At, Free
<1> QED
  BY <1>2, <1>3, <1>4 DEF Inv, AnswersTrue

\* A step of one handler keeps the invariant if the table grows as it may and
\* the handler ends up with a good record.
LEMMA OneMoves ==
  ASSUME Inv, Grows, NEW h \in Handlers, NEW next \in Handler,
         handlers' = [handlers EXCEPT ![h] = next],
         next.step # "idle" => next.name \in Names /\ next.password \in Passwords,
         AnswerTrue(h)', StillSo(h)',
         tokens' \subseteq Credentials, authors' = authors,
         \A token \in tokens' : token \in tokens \/ Has(token.name, token.password)
  PROVE  Inv'
<1> USE AccountsAssumption
<1>1. /\ users \in Seq(Credentials) /\ handlers \in [Handlers -> Handler]
      /\ tokens \subseteq Credentials /\ authors \subseteq Names
  BY DEF Inv, TypeOK
<1>2. /\ handlers' \in [Handlers -> Handler] /\ handlers'[h] = next
      /\ \A k \in Handlers \ {h} : handlers'[k] = handlers[k]
  BY <1>1
<1>3. TypeOK'
  <2>1. users' \in Seq(Credentials)
    BY <1>1, RowsStay
  <2>2. \A k \in Handlers :
          (At(k, "idle") \/ (handlers[k].name \in Names /\ handlers[k].password \in Passwords))'
    BY <1>2 DEF Inv, TypeOK, At
  <2> QED
    BY <1>1, <1>2, <2>1, <2>2 DEF TypeOK
<1>4. OneAccountPerName'
  BY <1>1, NamesStayUnique DEF Inv
<1>5. \A k \in Handlers : AnswerTrue(k)' /\ StillSo(k)'
  <2>1. ASSUME NEW k \in Handlers \ {h} PROVE AnswerTrue(k)' /\ StillSo(k)'
    BY <1>1, <1>2, <2>1, OthersKeep DEF Inv, AnswersTrue
  <2> QED
    BY <2>1
<1>6. TokensEarned'
  <2>1. ASSUME NEW token \in tokens' PROVE Has(token.name, token.password)'
    <3>1. Has(token.name, token.password)
      BY <2>1 DEF Inv, TokensEarned
    <3> QED
      BY <1>1, <3>1, HasStays
  <2>2. ASSUME NEW name \in authors' PROVE Taken(name)'
    BY <1>1, <2>2, TakenStays DEF Inv, TokensEarned
  <2> QED
    BY <2>1, <2>2 DEF TokensEarned
<1> QED
  BY <1>3, <1>4, <1>5, <1>6 DEF Inv, AnswersTrue

\* Where the table is left alone, Grows holds; so it does where Insert appends.
LEMMA InsertGrows ==
  ASSUME TypeOK, NEW h \in Handlers, Insert(h)
  PROVE  Grows /\ [name |-> handlers[h].name, password |-> handlers[h].password] \in Credentials
BY DEF Grows, Insert, TypeOK, At, BelowCap, Credentials

\* What GoTo does to a handler's record.
LEMMA GoToRecord ==
  ASSUME TypeOK, NEW h \in Handlers, ~At(h, "idle"), NEW step \in Steps,
         NEW found \in Passwords \cup {None, "created", "taken", "full"},
         GoTo(h, step, found)
  PROVE  LET next == [step |-> step, name |-> handlers[h].name,
                      password |-> handlers[h].password, found |-> found]
         IN  /\ next \in Handler
             /\ handlers' = [handlers EXCEPT ![h] = next]
             /\ handlers'[h] = next
             /\ next.name \in Names /\ next.password \in Passwords
<1> DEFINE next == [step |-> step, name |-> handlers[h].name,
                    password |-> handlers[h].password, found |-> found]
<1>1. /\ handlers \in [Handlers -> Handler] /\ handlers[h] \in Handler
      /\ handlers[h].name \in Names /\ handlers[h].password \in Passwords
  BY DEF TypeOK, At
<1>2. next \in Handler
  BY <1>1 DEF Handler
<1>3. handlers' = [handlers EXCEPT ![h] = next]
  BY <1>1 DEF GoTo
<1> QED
  BY <1>1, <1>2, <1>3

\* An idle handler knows and is told nothing.
LEMMA FreeIsSound ==
  ASSUME NEW h \in Handlers, handlers'[h] = Free
  PROVE  /\ Free \in Handler /\ Free.step = "idle"
         /\ AnswerTrue(h)' /\ StillSo(h)'
BY DEF Free, Handler, Steps, AnswerTrue, StillSo, At

LEMMA StartInv ==
  ASSUME Inv, NEW h \in Handlers, NEW who \in Credentials,
         Register(h, who) \/ Login(h, who)
  PROVE  Inv'
<1>1. PICK step \in {"insert", "lookup"} :
        handlers' = [handlers EXCEPT ![h] =
          [step |-> step, name |-> who.name, password |-> who.password, found |-> None]]
  BY DEF Register, Login
<1> DEFINE next == [step |-> step, name |-> who.name, password |-> who.password, found |-> None]
<1>2. next \in Handler /\ who.name \in Names /\ who.password \in Passwords
  BY DEF Credentials, Handler, Steps
<1>3. UNCHANGED <<users, tokens, authors>> /\ Grows
  BY DEF Register, Login, Grows
<1>4. handlers'[h] = next
  BY <1>1 DEF Inv, TypeOK
<1>5. AnswerTrue(h)' /\ StillSo(h)'
  BY <1>4 DEF AnswerTrue, StillSo, At
<1> QED
  BY <1>1, <1>2, <1>3, <1>5, OneMoves DEF Inv, TypeOK

LEMMA InsertInv ==
  ASSUME Inv, NEW h \in Handlers, Insert(h)
  PROVE  Inv'
<1> DEFINE who  == [name |-> handlers[h].name, password |-> handlers[h].password]
           next == [step |-> "told", name |-> handlers[h].name,
                    password |-> handlers[h].password, found |-> "created"]
<1>1. Grows /\ who \in Credentials /\ users' = Append(users, who)
  BY InsertGrows DEF Inv, Insert
<1>2. /\ next \in Handler /\ handlers' = [handlers EXCEPT ![h] = next]
      /\ handlers'[h] = next
      /\ next.name \in Names /\ next.password \in Passwords
  BY GoToRecord DEF Inv, Insert, At, Steps
<1>3. Has(handlers[h].name, handlers[h].password)'
  <2>1. users'[Len(users) + 1] = who /\ Len(users) + 1 \in 1..Len(users')
    BY <1>1 DEF Inv, TypeOK
  <2> QED
    BY <1>2, <2>1 DEF Has, SameName
<1>4. AnswerTrue(h)' /\ StillSo(h)'
  BY <1>2, <1>3 DEF AnswerTrue, StillSo, At, Has
<1>5. UNCHANGED <<tokens, authors>>
  BY DEF Insert
<1> QED
  BY <1>1, <1>2, <1>4, <1>5, OneMoves DEF Inv, TypeOK

LEMMA InsertNothingInv ==
  ASSUME Inv, NEW h \in Handlers, InsertNothing(h)
  PROVE  Inv'
<1> DEFINE next == [step |-> "check", name |-> handlers[h].name,
                    password |-> handlers[h].password, found |-> None]
<1>1. UNCHANGED <<users, tokens, authors>> /\ Grows
  BY DEF InsertNothing, Grows
<1>2. /\ next \in Handler /\ handlers' = [handlers EXCEPT ![h] = next]
      /\ handlers'[h] = next
      /\ next.name \in Names /\ next.password \in Passwords
  BY GoToRecord DEF Inv, InsertNothing, At, Steps
<1>3. Taken(handlers[h].name)' \/ Len(users') >= MaxAccounts
  BY <1>1, <1>2, AccountsAssumption
     DEF InsertNothing, BelowCap, Inv, TypeOK, Taken, SameName
<1>4. AnswerTrue(h)' /\ StillSo(h)'
  BY <1>1, <1>2, <1>3 DEF AnswerTrue, StillSo, At, Taken
<1> QED
  BY <1>1, <1>2, <1>4, OneMoves DEF Inv, TypeOK

LEMMA CheckInv ==
  ASSUME Inv, NEW h \in Handlers, Check(h)
  PROVE  Inv'
<1> DEFINE answer == IF Taken(handlers[h].name) THEN "taken" ELSE "full"
           next == [step |-> "told", name |-> handlers[h].name,
                    password |-> handlers[h].password, found |-> answer]
<1>1. UNCHANGED <<users, tokens, authors>> /\ Grows
  BY DEF Check, Grows
<1>2. /\ next \in Handler /\ handlers' = [handlers EXCEPT ![h] = next]
      /\ handlers'[h] = next
      /\ next.name \in Names /\ next.password \in Passwords
  BY GoToRecord DEF Inv, Check, At, Steps
<1>3. Taken(handlers[h].name) \/ Len(users) >= MaxAccounts
  BY DEF Inv, StillSo, Check
<1>4. Taken(handlers[h].name)' <=> Taken(handlers[h].name)
  BY <1>1, <1>2 DEF Taken, SameName
<1>5. AnswerTrue(h)' /\ StillSo(h)'
  BY <1>1, <1>2, <1>3, <1>4 DEF AnswerTrue, StillSo, At
<1> QED
  BY <1>1, <1>2, <1>5, OneMoves DEF Inv, TypeOK

\* The hash read for a name, when there is one, is the account's.
LEMMA StoredIsTheirs ==
  ASSUME users \in Seq(Credentials), NEW name, StoredHash(name) # None
  PROVE  StoredHash(name) \in Passwords /\ Has(name, StoredHash(name))
<1> DEFINE i == CHOOSE i \in 1..Len(users) : SameName(users[i].name, name)
<1>1. Taken(name) /\ StoredHash(name) = users[i].password
  BY DEF StoredHash
<1>2. i \in 1..Len(users) /\ SameName(users[i].name, name)
  BY <1>1 DEF Taken
<1> HIDE DEF i
<1>3. users[i] \in Credentials
  BY <1>2
<1>4. users[i].password \in Passwords
  BY <1>3 DEF Credentials
<1> QED
  BY <1>1, <1>2, <1>4 DEF Has

LEMMA LookUpInv ==
  ASSUME Inv, NEW h \in Handlers, LookUp(h)
  PROVE  Inv'
<1> DEFINE stored == StoredHash(handlers[h].name)
           next == [step |-> "verify", name |-> handlers[h].name,
                    password |-> handlers[h].password, found |-> stored]
<1>1. UNCHANGED <<users, tokens, authors>> /\ Grows
  BY DEF LookUp, Grows
<1>2. stored # None => stored \in Passwords /\ Has(handlers[h].name, stored)
  BY StoredIsTheirs DEF Inv, TypeOK
<1> HIDE DEF stored
<1>3. GoTo(h, "verify", stored) /\ ~At(h, "idle")
  BY DEF LookUp, At, stored
<1>4. /\ next \in Handler /\ handlers' = [handlers EXCEPT ![h] = next]
      /\ handlers'[h] = next
      /\ next.name \in Names /\ next.password \in Passwords
  BY <1>2, <1>3, GoToRecord DEF Inv, Steps
<1>5. AnswerTrue(h)' /\ StillSo(h)'
  BY <1>1, <1>2, <1>4 DEF AnswerTrue, StillSo, At, Has
<1> QED
  BY <1>1, <1>4, <1>5, OneMoves DEF Inv, TypeOK

\* A handler that is done: nothing it knew is needed any more.
LEMMA FreedInv ==
  ASSUME Inv, NEW h \in Handlers, handlers' = [handlers EXCEPT ![h] = Free],
         users' = users, authors' = authors, tokens' \subseteq Credentials,
         \A token \in tokens' : token \in tokens \/ Has(token.name, token.password)
  PROVE  Inv'
<1>1. Grows /\ handlers'[h] = Free
  BY DEF Grows, Inv, TypeOK
<1> QED
  BY <1>1, FreeIsSound, OneMoves

LEMMA VerifyInv ==
  ASSUME Inv, NEW h \in Handlers, Verify(h)
  PROVE  Inv'
<1> DEFINE next == [step |-> "issue", name |-> handlers[h].name,
                    password |-> handlers[h].password, found |-> handlers[h].found]
<1>1. UNCHANGED <<users, tokens, authors>> /\ Grows
  BY DEF Verify, Grows
<1>2. CASE ~Verified(handlers[h].password, handlers[h].found)
  BY <1>1, <1>2, FreedInv DEF Verify, Inv, TypeOK
<1>3. CASE Verified(handlers[h].password, handlers[h].found)
  <2>1. GoTo(h, "issue", handlers[h].found) /\ ~At(h, "idle")
    BY <1>3 DEF Verify, At
  <2>2. /\ next \in Handler /\ handlers' = [handlers EXCEPT ![h] = next]
        /\ handlers'[h] = next
        /\ next.name \in Names /\ next.password \in Passwords
    BY <2>1, GoToRecord DEF Inv, TypeOK, Handler, Steps
  <2>3. Has(handlers[h].name, handlers[h].password)
    BY <1>3 DEF Verify, Verified, Inv, StillSo
  <2>4. AnswerTrue(h)' /\ StillSo(h)'
    BY <1>1, <2>2, <2>3 DEF AnswerTrue, StillSo, At, Has
  <2> QED
    BY <1>1, <2>2, <2>4, OneMoves DEF Inv, TypeOK
<1> QED
  BY <1>2, <1>3

LEMMA IssueInv ==
  ASSUME Inv, NEW h \in Handlers, Issue(h)
  PROVE  Inv'
<1> DEFINE token == [name |-> handlers[h].name, password |-> handlers[h].password]
<1>1. token \in Credentials /\ Has(token.name, token.password)
  BY DEF Issue, Inv, TypeOK, At, Credentials, StillSo
<1>2. tokens' = tokens \cup {token}
  BY DEF Issue
<1>3. \A t \in tokens' : t \in tokens \/ Has(t.name, t.password)
  BY <1>1, <1>2
<1>4. tokens' \subseteq Credentials
  BY <1>1, <1>2 DEF Inv, TypeOK
<1> QED
  BY <1>3, <1>4, FreedInv DEF Issue

LEMMA PostInv == ASSUME Inv, Post PROVE Inv'
<1>1. PICK token \in tokens : authors' = authors \cup {token.name}
  BY DEF Post
<1>2. UNCHANGED <<users, handlers, tokens>>
  BY DEF Post
<1>3. token.name \in Names /\ Taken(token.name)
  BY DEF Inv, TypeOK, TokensEarned, Credentials, Has, Taken
<1>4. TypeOK'
  BY <1>1, <1>2, <1>3 DEF Inv, TypeOK, At
<1>5. TokensEarned'
  BY <1>1, <1>2, <1>3 DEF Inv, TokensEarned, Has, Taken, SameName
<1>6. OneAccountPerName' /\ \A h \in Handlers : AnswerTrue(h)' /\ StillSo(h)'
  BY <1>2 DEF Inv, OneAccountPerName, AnswersTrue, AnswerTrue, StillSo, At, Taken,
              Has, SameName
<1> QED
  BY <1>4, <1>5, <1>6 DEF Inv, AnswersTrue

LEMMA RestartInv == ASSUME Inv, Restart PROVE Inv'
<1>1. UNCHANGED <<users, tokens, authors>> /\ \A h \in Handlers : handlers'[h] = Free
  BY DEF Restart
<1>2. TypeOK'
  BY <1>1 DEF Restart, Inv, TypeOK, Handler, Free, Steps, At
<1>3. OneAccountPerName' /\ TokensEarned'
  BY <1>1 DEF Inv, OneAccountPerName, TokensEarned, Taken, Has, SameName
<1> QED
  BY <1>1, <1>2, <1>3, FreeIsSound DEF Inv, AnswersTrue

LEMMA NextInv == Inv /\ [Next]_vars => Inv'
<1> SUFFICES ASSUME Inv, [Next]_vars PROVE Inv'
  OBVIOUS
<1>1. CASE UNCHANGED vars
  BY <1>1 DEF vars, Inv, TypeOK, OneAccountPerName, AnswersTrue, AnswerTrue,
              TokensEarned, StillSo, At, Taken, Has, SameName
<1>2. ASSUME NEW h \in Handlers, End(h) PROVE Inv'
  BY <1>2, FreedInv DEF End, Inv, TypeOK
<1> QED
  BY <1>1, <1>2, StartInv, InsertInv, InsertNothingInv, CheckInv, LookUpInv,
     VerifyInv, IssueInv, PostInv, RestartInv DEF Next

LEMMA Invariance == Spec => []Inv
BY InitInv, NextInv, PTL DEF Spec

-----------------------------------------------------------------------------

\* Every variable keeps its type, and a handler under way has a name and a
\* password.
THEOREM TypeCorrect == Spec => []TypeOK
BY Invariance, PTL DEF Inv

\* However many registrations run at once and however a name is spelled, no
\* name has two accounts and the cap is never overrun (users.rs:37-47).
THEOREM NoDoublesNoOverrun == Spec => []OneAccountPerName
BY Invariance, PTL DEF Inv

\* The second statement of a registration tells the truth about the first
\* (users.rs:52-69).
THEOREM AnswersAreTrue == Spec => []AnswersTrue
BY Invariance, PTL DEF Inv

\* No registration ever replaces an account's password, and every author of a
\* message has an account (users.rs:41, api/auth.rs:147-162).
THEOREM TokensAreEarned == Spec => []TokensEarned
BY Invariance, PTL DEF Inv

-----------------------------------------------------------------------------
(* The two statements of a registration are one step of the directory. *)

known == [i \in 1..Len(users) |-> users[i].name]

RequestOf(h) ==
  CASE At(h, "insert") \/ At(h, "check") ->
         [step |-> "asked", name |-> handlers[h].name, answer |-> None]
    [] At(h, "told") ->
         [step |-> "told", name |-> handlers[h].name, answer |-> handlers[h].found]
    [] OTHER -> [step |-> "quiet", name |-> None, answer |-> None]

requests == [h \in Handlers |-> RequestOf(h)]

LEMMA HeldNames ==
  ASSUME users \in Seq(Credentials)
  PROVE  /\ known \in Seq(Names) /\ Len(known) = Len(users)
         /\ \A i \in 1..Len(users) : known[i] = users[i].name
         /\ \A name : Registration!Holds(name) <=> Taken(name)
<1>1. ASSUME NEW i \in 1..Len(users) PROVE users[i].name \in Names
  <2>1. users[i] \in Credentials
    OBVIOUS
  <2> QED
    BY <2>1 DEF Credentials
<1>2. /\ known \in Seq(Names) /\ Len(known) = Len(users)
      /\ \A i \in 1..Len(users) : known[i] = users[i].name
  BY <1>1 DEF known
<1>3. \A name : Registration!Holds(name) <=> Taken(name)
  BY <1>2 DEF Registration!Holds, Taken, SameName, known
<1> QED
  BY <1>2, <1>3

\* A handler that did not move stands for the same request.
LEMMA RequestMoves ==
  ASSUME NEW h \in Handlers, \A k \in Handlers \ {h} : handlers'[k] = handlers[k]
  PROVE  requests' = [requests EXCEPT ![h] = RequestOf(h)']
<1>1. \A k \in Handlers \ {h} : RequestOf(k)' = RequestOf(k)
  BY DEF RequestOf, At
<1> QED
  BY <1>1 DEF requests

LEMMA RegistrationInit == Init => Registration!Init
<1> SUFFICES ASSUME Init PROVE Registration!Init
  OBVIOUS
<1>1. known = << >>
  BY DEF Init, known
<1>2. \A h \in Handlers : RequestOf(h) = Registration!Quiet
  BY DEF Init, Free, RequestOf, At, Registration!Quiet
<1> QED
  BY <1>1, <1>2 DEF Registration!Init, known, requests, RequestOf, Registration!Quiet

\* Free and the steps of a login stand for no request.
LEMMA QuietSteps ==
  ASSUME NEW h \in Handlers, handlers[h].step \in {"idle", "lookup", "verify", "issue"}
  PROVE  RequestOf(h) = Registration!Quiet
BY DEF RequestOf, At, Registration!Quiet

LEMMA QuietAfter ==
  ASSUME NEW h \in Handlers, handlers'[h].step \in {"idle", "lookup", "verify", "issue"}
  PROVE  RequestOf(h)' = Registration!Quiet
BY DEF RequestOf, At, Registration!Quiet

\* A step that moves one handler, out of a request or between two steps that
\* stand for none, ends the request or changes nothing.
LEMMA EndsRequest ==
  ASSUME users' = users, NEW h \in Handlers,
         \A k \in Handlers \ {h} : handlers'[k] = handlers[k],
         handlers'[h].step \in {"idle", "lookup", "verify", "issue"}
  PROVE  Registration!End(h)
<1>1. known' = known
  BY DEF known
<1>2. requests' = [requests EXCEPT ![h] = Registration!Quiet]
  BY RequestMoves, QuietAfter
<1> QED
  BY <1>1, <1>2 DEF Registration!End, known, requests, RequestOf

\* A handler that learns its answer between two statements stands for a
\* request that is told it.
LEMMA TellsAnswer ==
  ASSUME handlers \in [Handlers -> Handler], NEW h \in Handlers,
         NEW answer \in {"created", "taken", "full"},
         At(h, "insert") \/ At(h, "check"), GoTo(h, "told", answer)
  PROVE  /\ requests[h].step = "asked" /\ requests[h].name = handlers[h].name
         /\ Registration!Tell(h, answer)
<1>1. /\ \A k \in Handlers \ {h} : handlers'[k] = handlers[k]
      /\ handlers'[h].step = "told" /\ handlers'[h].found = answer
      /\ handlers'[h].name = handlers[h].name
  BY DEF GoTo
<1>2. requests[h] = [step |-> "asked", name |-> handlers[h].name, answer |-> None]
  BY DEF RequestOf, At, requests
<1>3. RequestOf(h)' = [step |-> "told", name |-> handlers[h].name, answer |-> answer]
  BY <1>1 DEF RequestOf, At
<1>4. requests' = [requests EXCEPT ![h] =
                     [step |-> "told", name |-> requests[h].name, answer |-> answer]]
  BY <1>1, <1>2, <1>3, RequestMoves
<1>5. Registration!Tell(h, answer)
  BY <1>4 DEF Registration!Tell, requests, RequestOf
<1> QED
  BY <1>2, <1>5

LEMMA RegistrationStep ==
  ASSUME Inv, Next
  PROVE  Registration!Next \/ UNCHANGED <<known, requests>>
<1>1. users \in Seq(Credentials) /\ handlers \in [Handlers -> Handler]
  BY DEF Inv, TypeOK
<1> DEFINE MovedAlone(h) == \A k \in Handlers \ {h} : handlers'[k] = handlers[k]
<1>2. ASSUME NEW h \in Handlers, NEW who \in Credentials, Register(h, who)
      PROVE  Registration!Ask(h, who.name) /\ who.name \in Names
  <2>1. MovedAlone(h) /\ users' = users
        /\ handlers'[h] = [step |-> "insert", name |-> who.name,
                           password |-> who.password, found |-> None]
    BY <1>1, <1>2 DEF Register
  <2>2. requests[h] = Registration!Quiet
    BY <1>2, QuietSteps DEF Register, At, requests
  <2>3. RequestOf(h)' = [step |-> "asked", name |-> who.name, answer |-> None]
    BY <2>1 DEF RequestOf, At
  <2>4. requests' = [requests EXCEPT ![h] =
                       [step |-> "asked", name |-> who.name, answer |-> None]]
    BY <2>1, <2>3, RequestMoves
  <2>5. known' = known
    BY <2>1 DEF known
  <2>6. who.name \in Names
    BY DEF Credentials
  <2> QED
    BY <2>2, <2>4, <2>5, <2>6 DEF Registration!Ask, known, requests, RequestOf
<1>3. ASSUME NEW h \in Handlers, Insert(h) PROVE Registration!Add(h)
  <2> DEFINE name == handlers[h].name
             who  == [name |-> name, password |-> handlers[h].password]
  <2>1. requests[h].step = "asked" /\ requests[h].name = name
        /\ Registration!Tell(h, "created")
    BY <1>1, <1>3, TellsAnswer DEF Insert
  <2>2. ~Registration!Holds(name) /\ Len(known) < MaxAccounts
    BY <1>1, <1>3, HeldNames DEF Insert, BelowCap
  <2>3. users' = Append(users, who) /\ who \in Credentials
    BY <1>3, InsertGrows DEF Insert, Inv
  <2>4. known' = Append(known, name)
    <3>1. users' \in Seq(Credentials) /\ Len(users') = Len(users) + 1
          /\ users'[Len(users) + 1].name = name
          /\ \A i \in 1..Len(users) : users'[i] = users[i]
      BY <1>1, <2>3
    <3>2. Len(known) = Len(users) /\ known \in Seq(Names)
      BY <1>1, HeldNames
    <3>3. \A i \in 1..Len(users) + 1 : users'[i].name = Append(known, name)[i]
      BY <1>1, <3>1, <3>2 DEF known
    <3>4. name \in Names
      BY <2>3 DEF Credentials
    <3> HIDE DEF name
    <3>5. /\ Append(known, name) \in Seq(Names)
          /\ Len(Append(known, name)) = Len(users) + 1
      BY <3>2, <3>4
    <3>6. Append(known, name) = [i \in 1..Len(users) + 1 |-> Append(known, name)[i]]
      <4> DEFINE longer == Append(known, name)
      <4>1. longer \in [1..Len(longer) -> Names]
        BY <3>5, LenProperties
      <4> HIDE DEF longer
      <4>2. longer = [i \in 1..Len(longer) |-> longer[i]]
        BY <4>1
      <4> QED
        BY <3>5, <4>2 DEF longer
    <3> QED
      BY <3>1, <3>3, <3>6 DEF known
  <2> HIDE DEF name
  <2>5. requests[h].step = "asked" /\ ~Registration!Holds(requests[h].name)
        /\ Len(known) < MaxAccounts /\ known' = Append(known, requests[h].name)
        /\ Registration!Tell(h, "created")
    BY <2>1, <2>2, <2>4
  <2> QED
    BY <2>5 DEF Registration!Add, known, requests, RequestOf
<1>4. ASSUME NEW h \in Handlers, Check(h)
      PROVE  Registration!FindTaken(h) \/ Registration!RefuseFull(h)
  <2>1. known' = known
    BY <1>4 DEF Check, known
  <2>2. CASE Taken(handlers[h].name)
    <3>1. requests[h].step = "asked" /\ requests[h].name = handlers[h].name
          /\ Registration!Tell(h, "taken")
      BY <1>1, <1>4, <2>2, TellsAnswer DEF Check
    <3>2. Registration!Holds(requests[h].name)
      BY <1>1, <2>2, <3>1, HeldNames
    <3> QED
      BY <2>1, <3>1, <3>2 DEF Registration!FindTaken, known, requests, RequestOf
  <2>3. CASE ~Taken(handlers[h].name)
    <3>1. requests[h].step = "asked" /\ requests[h].name = handlers[h].name
          /\ Registration!Tell(h, "full")
      BY <1>1, <1>4, <2>3, TellsAnswer DEF Check
    <3>2. ~Registration!Holds(requests[h].name)
      BY <1>1, <2>3, <3>1, HeldNames
    <3>3. Len(known) >= MaxAccounts
      BY <1>1, <1>4, <2>3, HeldNames DEF Check, Inv, StillSo
    <3> QED
      BY <2>1, <3>1, <3>2, <3>3 DEF Registration!RefuseFull, known, requests, RequestOf
  <2> QED
    BY <2>2, <2>3
<1>5. ASSUME NEW h \in Handlers, InsertNothing(h) PROVE UNCHANGED <<known, requests>>
  <2>1. MovedAlone(h) /\ users' = users
        /\ handlers'[h].step = "check" /\ handlers'[h].name = handlers[h].name
    BY <1>1, <1>5 DEF InsertNothing, GoTo
  <2>2. RequestOf(h)' = RequestOf(h)
    BY <1>5, <2>1 DEF InsertNothing, RequestOf, At
  <2>3. requests' = requests
    BY <2>1, <2>2, RequestMoves DEF requests
  <2> QED
    BY <2>1, <2>3 DEF known
<1>6. ASSUME NEW h \in Handlers, NEW who \in Credentials,
             Login(h, who) \/ LookUp(h) \/ Verify(h) \/ Issue(h) \/ End(h)
      PROVE  Registration!End(h)
  <2>1. MovedAlone(h) /\ users' = users
    BY <1>1, <1>6 DEF Login, LookUp, Verify, Issue, End, GoTo
  <2>2. handlers'[h].step \in {"idle", "lookup", "verify", "issue"}
    BY <1>1, <1>6 DEF Login, LookUp, Verify, Issue, End, GoTo, Free
  <2> QED
    BY <2>1, <2>2, EndsRequest
<1>7. CASE Post
  BY <1>7 DEF Post, known, requests, RequestOf, At
<1>8. CASE Restart
  <2>1. known' = known
    BY <1>8 DEF Restart, known
  <2>2. \A h \in Handlers : RequestOf(h)' = Registration!Quiet
    BY <1>8, QuietAfter DEF Restart, Free
  <2>3. requests' = [h \in Handlers |-> Registration!Quiet]
    BY <2>2 DEF requests
  <2>4. Registration!Restart
    BY <2>1, <2>3 DEF Registration!Restart, known, requests, RequestOf
  <2> QED
    BY <2>4 DEF Registration!Next
<1>9. ASSUME NEW h \in Handlers,
              \/ \E who \in Credentials : Register(h, who) \/ Login(h, who)
              \/ Insert(h) \/ Check(h) \/ LookUp(h) \/ Verify(h) \/ Issue(h) \/ End(h)
       PROVE  Registration!Next
  <2>1. \/ \E name \in Names : Registration!Ask(h, name)
        \/ Registration!Add(h) \/ Registration!FindTaken(h)
        \/ Registration!RefuseFull(h) \/ Registration!End(h)
    <3>1. CASE \E who \in Credentials : Register(h, who)
      BY <1>2, <3>1
    <3>2. CASE \E who \in Credentials : Login(h, who)
      BY <1>6, <3>2
    <3>3. CASE LookUp(h) \/ Verify(h) \/ Issue(h) \/ End(h)
      <4>1. [name |-> handlers[h].name, password |-> handlers[h].password] \in Credentials
        BY <3>3 DEF Inv, TypeOK, At, Credentials, LookUp, Verify, Issue, End
      <4> QED
        BY <1>6, <3>3, <4>1
    <3> QED
      BY <1>3, <1>4, <1>9, <3>1, <3>2, <3>3
  <2> QED
    BY <2>1 DEF Registration!Next
<1> QED
  BY <1>5, <1>7, <1>8, <1>9 DEF Next

\* Registration is linearizable: the two statements of insert_user and
\* whatever other handlers do between them look like one atomic step.
THEOREM RegistrationIsAtomic == Spec => RegistersAtomically
<1>1. Inv /\ [Next]_vars => [Registration!Next]_(Registration!vars)
  <2> SUFFICES ASSUME Inv, [Next]_vars PROVE [Registration!Next]_(Registration!vars)
    OBVIOUS
  <2>1. CASE Next
    BY <2>1, RegistrationStep DEF Registration!vars, known, requests, RequestOf
  <2>2. CASE UNCHANGED vars
    BY <2>2 DEF vars, Registration!vars, At
  <2> QED
    BY <2>1, <2>2
<1> QED
  BY <1>1, RegistrationInit, Invariance, PTL DEF Spec, RegistersAtomically, Registration!Spec

-----------------------------------------------------------------------------
(* Starts (ServerStartup). *)

\* Once the secret is settled.
Settled == {"network", "serving"} \cup Certifying

\* Once the database is.
Opened == Securing \cup Settled

\* A database that is stamped is whole, and an unstamped one is of the version
\* that left it unfinished.
StampedIsWhole ==
  /\ db.stamp # 0 => \A t \in Tables : db.tables[t] = db.stamp
  /\ db.stamp = 0 => \A t \in Tables : db.tables[t] \in {0, version}

\* What each step of SqliteStore::new may count on.
SchemaInv ==
  /\ StampedIsWhole
  /\ pc \in StartSteps \ {"down", "opening", "removing"}
       => \A t \in Tables : db.tables[t] \in {0, version}
  /\ pc \in {"rooms", "messages", "stamping"} => db.tables["users"] = version
  /\ pc \in {"messages", "stamping"} => db.tables["rooms"] = version
  /\ pc = "stamping" => db.tables["messages"] = version
  /\ pc \in {"seeding"} \cup Opened => db.stamp = version
  /\ pc \in Opened => db.lobby

\* Accounts are in a database stamped by their owner, which is what runs.
OwnerInv ==
  /\ AcknowledgedIsKept
  /\ owner # 0 => db.stamp = owner
  /\ owner # 0 /\ pc # "down" => owner = version
  /\ pc = "removing" => db.stamp # version
  /\ pc \in {"seeding"} \cup Opened => db.stamp = version

\* A secret that tokens were issued with is in its file.
SecretInv ==
  /\ TokensStand
  /\ \A k \in issued : k # Absent
  /\ pc \in Settled => secret = files["jwt.secret"] /\ secret # Absent
  /\ pc = "secret created" => issued = {} /\ held # Absent

\* A certificate that was announced has both its files, and is being replaced
\* by nobody.
PinInv ==
  /\ PinnedStands
  /\ pinned # Absent => ~HalfMissing
  /\ pc \in {"cert created", "cert written", "key created"} => pinned = Absent
  /\ pc \in {"cert created", "cert written", "key created"} => held \notin {Absent, Empty}
  /\ pc \in {"cert written", "key created"} => files["cert.pem"] # Absent
  /\ pc = "loading" => ~HalfMissing

-----------------------------------------------------------------------------
(* Types. *)

LEMMA VersionRange ==
  ASSUME version \in Versions
  PROVE  /\ version \in Nat /\ version # 0
         /\ version \in 0..MaxVersion
BY StartupAssumption DEF Versions

\* Numbers a file may hold.
LEMMA FileRange ==
  /\ Absent \in Nat /\ Empty \in Nat /\ Absent # Empty
  /\ \A n \in Nat : Random(n) \in Nat /\ Random(n) # Absent /\ Random(n) # Empty
BY DEF Absent, Empty, Random

LEMMA NextDraw == draws \in Nat /\ draws' = draws + 1 => draws' \in Nat
OBVIOUS

LEMMA NoDatabaseType == NoDatabase \in Database
<1>1. 0 \in 0..MaxVersion
  BY StartupAssumption
<1>2. [t \in Tables |-> 0] \in [Tables -> 0..MaxVersion]
  BY <1>1
<1> QED
  BY <1>1, <1>2 DEF NoDatabase, Database

LEMMA InitTypes == StartupInit => StartupTypeOK
<1>1. [f \in Files |-> Absent] \in [Files -> Nat]
  BY FileRange
<1>2. 1 \in Versions /\ 0 \in 0..MaxVersion /\ 0 \in 0..MaxStops /\ 0 \in 0..MaxLosses
  BY StartupAssumption DEF Versions
<1>3. "tcp" \in Transports /\ "down" \in StartSteps
  BY DEF Transports, StartSteps
<1>4. 0 \in Nat /\ Absent \in Nat /\ {} \subseteq Nat /\ FALSE \in BOOLEAN
  BY FileRange
<1> QED
  BY <1>1, <1>2, <1>3, <1>4, NoDatabaseType DEF StartupInit, StartupTypeOK

\* The steps of SqliteStore::new keep the shape of the database.
LEMMA StoreTypes == StartupTypeOK /\ Store => StartupTypeOK'
<1> SUFFICES ASSUME StartupTypeOK, Store PROVE StartupTypeOK'
  OBVIOUS
<1> USE StartupAssumption DEF StartupTypeOK, StartSteps, Storing, Securing, SameProgram, history, Go
<1> version \in 0..MaxVersion
  BY VersionRange
<1>1. CASE ReadStamp
  BY <1>1 DEF ReadStamp, disk
<1>2. CASE RemoveDatabase
  BY <1>2, NoDatabaseType DEF RemoveDatabase
<1>3. ASSUME NEW t \in Tables, NEW next \in {"rooms", "messages", "stamping"},
             CreateTable(t, next)
      PROVE  StartupTypeOK'
  <2>1. [db EXCEPT !.tables[t] = version] \in Database
    BY DEF Database
  <2> QED
    BY <1>3, <2>1 DEF CreateTable
<1>4. CASE Stamp
  <2>1. [db EXCEPT !.stamp = version] \in Database
    BY DEF Database
  <2> QED
    BY <1>4, <2>1 DEF Stamp
<1>5. CASE Seed
  <2>1. [db EXCEPT !.lobby = TRUE] \in Database
    BY DEF Database
  <2> QED
    BY <1>5, <2>1 DEF Seed
<1> QED
  BY <1>1, <1>2, <1>3, <1>4, <1>5 DEF Store, Tables

LEMMA SecureTypes == StartupTypeOK /\ Secure => StartupTypeOK'
<1> SUFFICES ASSUME StartupTypeOK, Secure PROVE StartupTypeOK'
  OBVIOUS
<1> USE DEF StartupTypeOK, StartSteps, Securing, SameProgram, history, disk, Go, Files
<1>1. CASE ReadSecret
  BY <1>1 DEF ReadSecret
<1>2. CASE CreateSecret
  <2>4. draws' = draws + 1
    BY <1>2 DEF CreateSecret
  <2>1. draws' \in Nat
    BY <2>4, NextDraw
  <2>3. held' \in Nat
    BY <1>2, FileRange DEF CreateSecret
  <2>2. files' \in [Files -> Nat]
    BY <1>2, FileRange DEF CreateSecret
  <2> QED
    BY <1>2, <2>1, <2>2, <2>3 DEF CreateSecret
<1>3. CASE WriteSecret
  BY <1>3, FileRange DEF WriteSecret
<1> QED
  BY <1>1, <1>2, <1>3 DEF Secure

LEMMA CertifyTypes == StartupTypeOK /\ Certify => StartupTypeOK'
<1> SUFFICES ASSUME StartupTypeOK, Certify PROVE StartupTypeOK'
  OBVIOUS
<1> USE DEF StartupTypeOK, StartSteps, Certifying, SameProgram, history, disk, Go, Files
<1>1. CASE KeepPair
  BY <1>1 DEF KeepPair
<1>2. CASE CreateCert
  <2>4. draws' = draws + 1
    BY <1>2 DEF CreateCert
  <2>1. draws' \in Nat
    BY <2>4, NextDraw
  <2>3. held' \in Nat
    BY <1>2, FileRange DEF CreateCert
  <2>2. files' \in [Files -> Nat]
    BY <1>2, FileRange DEF CreateCert
  <2> QED
    BY <1>2, <2>1, <2>2, <2>3 DEF CreateCert
<1>3. CASE WriteCert
  BY <1>3, FileRange DEF WriteCert
<1>4. CASE CreateKey
  BY <1>4, FileRange DEF CreateKey
<1>5. CASE WriteKey
  BY <1>5, FileRange DEF WriteKey
<1>6. CASE Load
  BY <1>6 DEF Load
<1>7. CASE LoadFails
  BY <1>7, FileRange DEF LoadFails
<1> QED
  BY <1>1, <1>2, <1>3, <1>4, <1>5, <1>6, <1>7 DEF Certify

LEMMA NextTypes == StartupTypeOK /\ [StartupNext]_startupVars => StartupTypeOK'
<1> SUFFICES ASSUME StartupTypeOK, [StartupNext]_startupVars PROVE StartupTypeOK'
  OBVIOUS
<1> USE StartupAssumption DEF StartupTypeOK, disk, history, process
<1>1. CASE UNCHANGED startupVars
  BY <1>1 DEF startupVars
<1>2. ASSUME NEW v \in Versions, NEW t \in Transports, Start(v, t) PROVE StartupTypeOK'
  <2>1. owner' \in 0..MaxVersion
    <3>1. 0 \in 0..MaxVersion
      OBVIOUS
    <3> QED
      BY <1>2, <3>1 DEF Start
  <2>2. held' \in Nat /\ secret' \in Nat
    BY <1>2, FileRange DEF Start
  <2> QED
    BY <1>2, <2>1, <2>2 DEF Start, StartSteps, Storing
<1>3. CASE Stop
  <2>1. stops' \in 0..MaxStops
    BY <1>3 DEF Stop
  <2> QED
    BY <1>3, <2>1, FileRange DEF Stop, Down, StartSteps
<1>4. CASE Signal
  BY <1>4 DEF Signal
<1>5. CASE Shutdown
  BY <1>5, FileRange DEF Shutdown, Down, StartSteps
<1>6. CASE Store
  BY <1>6, StoreTypes
<1>7. CASE Secure
  BY <1>7, SecureTypes
<1>8. CASE Bind
  BY <1>8 DEF Bind, SameProgram, StartSteps, Certifying
<1>9. CASE Refused
  BY <1>9, FileRange DEF Refused, Down, StartSteps
<1>10. CASE Certify
  BY <1>10, CertifyTypes
<1>11. CASE RegisterAccount
  <2>1. [db EXCEPT !.account = TRUE] \in Database
    BY DEF Database
  <2>2. version \in 0..MaxVersion
    BY DEF Versions
  <2> QED
    BY <1>11, <2>1, <2>2 DEF RegisterAccount
<1>12. CASE IssueToken
  BY <1>12 DEF IssueToken
<1>13. ASSUME NEW f \in Halves, Lose(f) PROVE StartupTypeOK'
  <2>1. losses' \in 0..MaxLosses
    BY <1>13 DEF Lose
  <2> QED
    BY <1>13, <2>1, FileRange DEF Lose
<1> QED
  BY <1>1, <1>2, <1>3, <1>4, <1>5, <1>6, <1>7, <1>8, <1>9, <1>10, <1>11, <1>12,
     <1>13 DEF StartupNext

\* Every variable of a start keeps its type, for any number of versions,
\* stops and losses.
THEOREM StartupTypeCorrect == StartupSpec => []StartupTypeOK
BY InitTypes, NextTypes, PTL DEF StartupSpec

-----------------------------------------------------------------------------
(* The steps of a start after SqliteStore::new. *)

\* They leave the database alone and stay behind it, or end.
LEMMA AfterTheStore ==
  ASSUME Secure \/ Bind \/ Refused \/ Certify
  PROVE  /\ UNCHANGED <<db, version, owner>>
         /\ pc \in Opened
         /\ pc' \in Opened \cup {"down"}
<1> USE DEF Go, SameProgram, disk, history, Opened, Settled, Securing, Certifying
<1>1. CASE Secure
  BY <1>1 DEF Secure, ReadSecret, CreateSecret, WriteSecret
<1>2. CASE Bind
  BY <1>2 DEF Bind
<1>3. CASE Refused
  BY <1>3 DEF Refused, Down
<1>4. CASE Certify
  <2>1. CASE KeepPair \/ CreateCert \/ WriteCert \/ CreateKey \/ WriteKey
    BY <2>1 DEF KeepPair, CreateCert, WriteCert, CreateKey, WriteKey
  <2>2. CASE Load \/ LoadFails
    BY <2>2 DEF Load, LoadFails
  <2> QED
    BY <1>4, <2>1, <2>2 DEF Certify
<1> QED
  BY <1>1, <1>2, <1>3, <1>4

-----------------------------------------------------------------------------
(* The schema a server runs over. *)

LEMMA InitSchema == StartupInit => SchemaInv
BY DEF StartupInit, SchemaInv, StampedIsWhole, NoDatabase, StartSteps, Storing, Opened, Securing,
   Settled, Certifying

\* Whatever leaves the schema alone and the process where it was, or behind
\* the store, or down.
LEMMA SameSchema ==
  ASSUME SchemaInv,
         db'.tables = db.tables, db'.stamp = db.stamp, db'.lobby = db.lobby,
         version' = version,
         \/ pc' = pc
         \/ pc' = "down"
         \/ pc \in Opened /\ pc' \in Opened
  PROVE  SchemaInv'
<1> USE DEF SchemaInv, StampedIsWhole
<1>1. CASE pc' = pc
  BY <1>1
<1>2. CASE pc' = "down"
  BY <1>2 DEF Opened, Settled, Securing, Certifying
<1>3. CASE pc \in Opened /\ pc' \in Opened
  BY <1>3 DEF Opened, Settled, Securing, Certifying, StartSteps, Storing
<1> QED
  BY <1>1, <1>2, <1>3

LEMMA StoreSchema == StartupTypeOK /\ SchemaInv /\ Store => SchemaInv'
<1> SUFFICES ASSUME StartupTypeOK, SchemaInv, Store PROVE SchemaInv'
  OBVIOUS
<1>v. version # 0
  BY VersionRange DEF StartupTypeOK
<1>d. db \in Database /\ DOMAIN db.tables = Tables
  BY DEF StartupTypeOK, Database
<1> DEFINE Shape(d) == [tables |-> d.tables, stamp |-> d.stamp, lobby |-> d.lobby]
<1> USE DEF SchemaInv, StampedIsWhole, Go, SameProgram, disk, Opened, Settled,
            Securing, Certifying, StartSteps, Storing
<1>1. CASE ReadStamp
  <2>1. ~Foreign => \A t \in Tables : db.tables[t] \in {0, version}
    BY DEF Foreign
  <2> QED
    BY <1>1, <2>1 DEF ReadStamp
<1>2. CASE RemoveDatabase
  BY <1>2 DEF RemoveDatabase, NoDatabase
<1>3. CASE CreateTable("users", "rooms")
  <2>1. /\ db'.tables["users"] = version
        /\ db'.stamp = db.stamp
        /\ \A t \in Tables : t # "users" => db'.tables[t] = db.tables[t]
    BY <1>3, <1>d, <1>v DEF CreateTable, Database, Tables
  <2> QED
    BY <1>3, <2>1, <1>v DEF CreateTable, Tables
<1>4. CASE CreateTable("rooms", "messages")
  <2>1. /\ db'.tables["rooms"] = version
        /\ db'.stamp = db.stamp
        /\ \A t \in Tables : t # "rooms" => db'.tables[t] = db.tables[t]
    BY <1>4, <1>d, <1>v DEF CreateTable, Database, Tables
  <2> QED
    BY <1>4, <2>1, <1>v DEF CreateTable, Tables
<1>5. CASE CreateTable("messages", "stamping")
  <2>1. /\ db'.tables["messages"] = version
        /\ db'.stamp = db.stamp
        /\ \A t \in Tables : t # "messages" => db'.tables[t] = db.tables[t]
    BY <1>5, <1>d, <1>v DEF CreateTable, Database, Tables
  <2> QED
    BY <1>5, <2>1, <1>v DEF CreateTable, Tables
<1>6. CASE Stamp
  <2>1. db'.tables = db.tables /\ db'.stamp = version /\ db'.lobby = db.lobby
    BY <1>6, <1>d DEF Stamp, Database
  <2> QED
    BY <1>6, <2>1, <1>v DEF Stamp, Tables
<1>7. CASE Seed
  <2>1. db'.tables = db.tables /\ db'.stamp = db.stamp /\ db'.lobby
    BY <1>7, <1>d DEF Seed, Database
  <2> QED
    BY <1>7, <2>1 DEF Seed
<1> QED
  BY <1>1, <1>2, <1>3, <1>4, <1>5, <1>6, <1>7 DEF Store

LEMMA NextSchema ==
  ~UpgradeUnstamped /\ StartupTypeOK /\ SchemaInv /\ [StartupNext]_startupVars => SchemaInv'
<1> SUFFICES ASSUME ~UpgradeUnstamped, StartupTypeOK, SchemaInv, [StartupNext]_startupVars PROVE SchemaInv'
  OBVIOUS
<1>1. CASE UNCHANGED startupVars
  BY <1>1, SameSchema DEF startupVars, disk, process
<1>2. ASSUME NEW v \in Versions, NEW t \in Transports, Start(v, t) PROVE SchemaInv'
  <2>1. /\ db' = db /\ version' = v /\ pc' = "opening"
        /\ Unstamped => v = version
    BY <1>2 DEF Start, disk
  <2>2. StampedIsWhole'
    BY <2>1 DEF SchemaInv, StampedIsWhole, Unstamped
  <2> QED
    BY <2>1, <2>2 DEF SchemaInv, Opened, Settled, Securing, Certifying
<1>3. CASE Stop \/ Shutdown
  BY <1>3, SameSchema DEF Stop, Shutdown, Down, disk
<1>4. CASE Signal \/ IssueToken
  BY <1>4, SameSchema DEF Signal, IssueToken, disk, process
<1>5. CASE Store
  BY <1>5, StoreSchema
<1>6. CASE Secure \/ Bind \/ Refused \/ Certify
  BY <1>6, AfterTheStore, SameSchema
<1>7. CASE RegisterAccount
  <2>1. /\ db'.tables = db.tables /\ db'.stamp = db.stamp /\ db'.lobby = db.lobby
    BY <1>7 DEF RegisterAccount, StartupTypeOK, Database
  <2> QED
    BY <1>7, <2>1, SameSchema DEF RegisterAccount, process
<1>8. ASSUME NEW f \in Halves, Lose(f) PROVE SchemaInv'
  BY <1>8, SameSchema DEF Lose, process
<1> QED
  BY <1>1, <1>2, <1>3, <1>4, <1>5, <1>6, <1>7, <1>8 DEF StartupNext

\* If a program is replaced only after a start that came as far as the stamp, a
\* server never runs over tables of another version, wherever starts stopped.
THEOREM ServesItsOwnSchema == ASSUME ~UpgradeUnstamped PROVE StartupSpec => []ServesWhole
<1>2. StartupTypeOK /\ SchemaInv /\ [StartupNext]_startupVars => SchemaInv'
  BY NextSchema
<1>1. StartupTypeOK /\ SchemaInv => ServesWhole
  BY VersionRange DEF StartupTypeOK, SchemaInv, StampedIsWhole, ServesWhole, Opened, Settled
<1> QED
  BY <1>1, <1>2, StartupTypeCorrect, InitSchema, PTL DEF StartupSpec

-----------------------------------------------------------------------------
(* What was acknowledged. *)

LEMMA InitOwner == StartupInit => OwnerInv
BY DEF StartupInit, OwnerInv, AcknowledgedIsKept, Opened, Settled, Securing, Certifying

\* Whatever leaves the database and its owner alone, and the process where it
\* was, or behind the store, or down.
LEMMA SameOwner ==
  ASSUME OwnerInv, UNCHANGED <<db, version, owner>>,
         \/ pc' = pc
         \/ pc' = "down"
         \/ pc \in Opened /\ pc' \in Opened
  PROVE  OwnerInv'
<1> USE DEF OwnerInv, AcknowledgedIsKept
<1>1. CASE pc' = pc
  BY <1>1
<1>2. CASE pc' = "down"
  BY <1>2 DEF Opened, Settled, Securing, Certifying
<1>3. CASE pc \in Opened /\ pc' \in Opened
  BY <1>3 DEF Opened, Settled, Securing, Certifying
<1> QED
  BY <1>1, <1>2, <1>3

\* The database is deleted only if its stamp is not the owner's, and stamped
\* only with the version that runs.
LEMMA StoreOwner == StartupTypeOK /\ OwnerInv /\ Store => OwnerInv'
<1> SUFFICES ASSUME StartupTypeOK, OwnerInv, Store PROVE OwnerInv'
  OBVIOUS
<1>d. db \in Database
  BY DEF StartupTypeOK
<1>v. version # 0
  BY VersionRange DEF StartupTypeOK
<1> USE DEF OwnerInv, AcknowledgedIsKept, Go, SameProgram, history, disk, Opened, Settled,
            Securing, Certifying
<1>1. CASE ReadStamp
  BY <1>1 DEF ReadStamp, Foreign
<1>2. CASE RemoveDatabase
  BY <1>2 DEF RemoveDatabase
<1>3. ASSUME NEW t \in Tables, NEW next \in {"rooms", "messages", "stamping"},
             CreateTable(t, next)
      PROVE  OwnerInv'
  <2>1. db'.stamp = db.stamp /\ db'.account = db.account
    BY <1>3, <1>d DEF CreateTable, Database
  <2> QED
    BY <1>3, <2>1 DEF CreateTable, Tables
<1>4. CASE Stamp
  <2>1. db'.stamp = version /\ db'.account = db.account
    BY <1>4, <1>d DEF Stamp, Database
  <2> QED
    BY <1>4, <2>1 DEF Stamp
<1>5. CASE Seed
  <2>1. db'.stamp = db.stamp /\ db'.account = db.account
    BY <1>5, <1>d DEF Seed, Database
  <2> QED
    BY <1>5, <2>1 DEF Seed
<1> QED
  BY <1>1, <1>2, <1>3, <1>4, <1>5 DEF Store, Tables

LEMMA NextOwner == StartupTypeOK /\ OwnerInv /\ [StartupNext]_startupVars => OwnerInv'
<1> SUFFICES ASSUME StartupTypeOK, OwnerInv, [StartupNext]_startupVars PROVE OwnerInv'
  OBVIOUS
<1>1. CASE UNCHANGED startupVars
  BY <1>1, SameOwner DEF startupVars, disk, process, history
<1>2. ASSUME NEW v \in Versions, NEW t \in Transports, Start(v, t) PROVE OwnerInv'
  <2>1. db' = db /\ version' = v /\ pc' = "opening" /\ owner' \in {owner, 0}
        /\ (owner' # 0 => owner' = v)
    BY <1>2 DEF Start, disk
  <2> QED
    BY <2>1 DEF OwnerInv, AcknowledgedIsKept, Opened, Settled, Securing, Certifying
<1>3. CASE Stop \/ Shutdown
  BY <1>3, SameOwner DEF Stop, Shutdown, Down, disk
<1>4. CASE Signal \/ IssueToken
  BY <1>4, SameOwner DEF Signal, IssueToken, disk, process, history
<1>5. CASE Store
  BY <1>5, StoreOwner
<1>6. CASE Secure \/ Bind \/ Refused \/ Certify
  BY <1>6, AfterTheStore, SameOwner
<1>7. CASE RegisterAccount
  <2>1. db'.stamp = db.stamp /\ db'.account
    BY <1>7 DEF RegisterAccount, StartupTypeOK, Database
  <2> QED
    BY <1>7, <2>1
       DEF RegisterAccount, process, OwnerInv, AcknowledgedIsKept, Opened, Settled, Securing, Certifying
<1>8. ASSUME NEW f \in Halves, Lose(f) PROVE OwnerInv'
  BY <1>8, SameOwner DEF Lose, process
<1> QED
  BY <1>1, <1>2, <1>3, <1>4, <1>5, <1>6, <1>7, <1>8 DEF StartupNext

\* An accepted account outlives any number of stops and starts, until a program
\* of another schema version is started.
THEOREM AccountsAreKept == StartupSpec => []AcknowledgedIsKept
<1>1. OwnerInv => AcknowledgedIsKept
  BY DEF OwnerInv
<1> QED
  BY <1>1, StartupTypeCorrect, InitOwner, NextOwner, PTL DEF StartupSpec

-----------------------------------------------------------------------------
(* The secret. *)

LEMMA InitSecret == StartupInit => SecretInv
BY FileRange DEF StartupInit, SecretInv, TokensStand, Settled, Certifying

\* Whatever leaves the secret and its file alone, and the process where it was,
\* or with its secret settled.
LEMMA SameSecret ==
  ASSUME SecretInv, issued' = issued, files'["jwt.secret"] = files["jwt.secret"],
         secret' = secret, held' = held,
         \/ pc' = pc
         \/ pc' \in Settled /\ pc \in Settled
  PROVE  SecretInv'
BY DEF SecretInv, TokensStand, Settled, Certifying

\* A process that is down, or has not come to its secret.
LEMMA NoSecret ==
  ASSUME SecretInv, issued' = issued, files'["jwt.secret"] = files["jwt.secret"],
         pc' \in {"down", "secret"} \cup Storing
  PROVE  SecretInv'
BY DEF SecretInv, TokensStand, Settled, Certifying, Storing

LEMMA SecureSecret == StartupTypeOK /\ SecretInv /\ Secure => SecretInv'
<1> SUFFICES ASSUME StartupTypeOK, SecretInv, Secure PROVE SecretInv'
  OBVIOUS
<1>f. files \in [Files -> Nat] /\ "jwt.secret" \in Files /\ draws \in Nat
  BY DEF StartupTypeOK, Files
<1> USE DEF SecretInv, TokensStand, Go, SameProgram, disk, history, Settled, Certifying
<1>1. CASE ReadSecret
  BY <1>1 DEF ReadSecret
<1>2. CASE CreateSecret
  <2>1. issued = {}
    BY <1>2 DEF CreateSecret
  <2>2. held' # Absent
    BY <1>2, <1>f, FileRange DEF CreateSecret
  <2> QED
    BY <1>2, <2>1, <2>2 DEF CreateSecret
<1>3. CASE WriteSecret
  <2>1. files'["jwt.secret"] = held
    BY <1>3, <1>f DEF WriteSecret
  <2> QED
    BY <1>3, <2>1 DEF WriteSecret
<1> QED
  BY <1>1, <1>2, <1>3 DEF Secure

LEMMA NextSecret == StartupTypeOK /\ SecretInv /\ [StartupNext]_startupVars => SecretInv'
<1> SUFFICES ASSUME StartupTypeOK, SecretInv, [StartupNext]_startupVars PROVE SecretInv'
  OBVIOUS
<1>f. files \in [Files -> Nat] /\ "jwt.secret" \in Files
  BY DEF StartupTypeOK, Files
<1>h. "jwt.secret" \notin Halves
  BY DEF Halves
<1> USE DEF disk, process, history
<1>1. CASE UNCHANGED startupVars
  BY <1>1, SameSecret DEF startupVars
<1>2. ASSUME NEW v \in Versions, NEW t \in Transports, Start(v, t) PROVE SecretInv'
  BY <1>2, NoSecret DEF Start, Storing
<1>3. CASE Stop \/ Shutdown \/ Refused
  BY <1>3, NoSecret DEF Stop, Shutdown, Refused, Down
<1>4. CASE Signal
  BY <1>4, SameSecret DEF Signal
<1>5. CASE Store
  BY <1>5, NoSecret
     DEF Store, ReadStamp, RemoveDatabase, CreateTable, Stamp, Seed, Go, SameProgram, Storing
<1>6. CASE Secure
  BY <1>6, SecureSecret
<1>7. CASE Bind
  <2>1. pc \in Settled /\ pc' \in Settled /\ UNCHANGED <<files, secret, held, issued>>
    BY <1>7 DEF Bind, SameProgram, Settled, Certifying
  <2> QED
    BY <1>7, <2>1 DEF SecretInv, TokensStand, Settled, Certifying, Bind
<1>8. CASE Certify
  <2>1. CASE KeepPair \/ CreateCert \/ WriteCert \/ CreateKey \/ WriteKey \/ Load
    <3>1. /\ files'["jwt.secret"] = files["jwt.secret"]
          /\ UNCHANGED <<secret, issued>>
          /\ pc \in Certifying /\ pc' \in Certifying \cup {"serving"}
      BY <2>1, <1>f DEF KeepPair, CreateCert, WriteCert, CreateKey, WriteKey, Load, Go,
         SameProgram, Certifying, Files
    <3> QED
      BY <3>1 DEF SecretInv, TokensStand, Settled, Certifying
  <2>2. CASE LoadFails
    BY <2>2, NoSecret DEF LoadFails
  <2> QED
    BY <1>8, <2>1, <2>2 DEF Certify
<1>9. CASE RegisterAccount
  BY <1>9, SameSecret DEF RegisterAccount
<1>10. CASE IssueToken
  BY <1>10 DEF IssueToken, SecretInv, TokensStand, Settled, Certifying
<1>11. ASSUME NEW f \in Halves, Lose(f) PROVE SecretInv'
  <2>1. files'["jwt.secret"] = files["jwt.secret"]
    BY <1>11, <1>f, <1>h DEF Lose
  <2> QED
    BY <1>11, <2>1, SameSecret DEF Lose
<1> QED
  BY <1>1, <1>2, <1>3, <1>4, <1>5, <1>6, <1>7, <1>8, <1>9, <1>10, <1>11 DEF StartupNext

\* No start signs with another secret than the one tokens were issued with.
THEOREM TokensOutliveRestarts == StartupSpec => []TokensStand
<1>1. SecretInv => TokensStand
  BY DEF SecretInv
<1> QED
  BY <1>1, StartupTypeCorrect, InitSecret, NextSecret, PTL DEF StartupSpec

-----------------------------------------------------------------------------
(* The certificate. *)

LEMMA InitPin == StartupInit => PinInv
BY DEF StartupInit, PinInv, PinnedStands

\* Whatever leaves both halves alone, and the process where it was, or not
\* among those that write them.
LEMMA SamePin ==
  ASSUME PinInv, pinned' = pinned, held' = held \/ pc' # pc,
         \A f \in Halves : files'[f] = files[f],
         \/ pc' = pc
         \/ pc' \in StartSteps \ Certifying
         \/ pc' = "cert"
  PROVE  PinInv'
BY DEF PinInv, PinnedStands, HalfMissing, Halves, StartSteps, Certifying

LEMMA CertifyPin == StartupTypeOK /\ PinInv /\ Certify => PinInv'
<1> SUFFICES ASSUME StartupTypeOK, PinInv, Certify PROVE PinInv'
  OBVIOUS
<1>f. files \in [Files -> Nat] /\ Halves \subseteq Files /\ draws \in Nat
  BY DEF StartupTypeOK, Files, Halves
<1> USE DEF PinInv, PinnedStands, HalfMissing, Halves, Go, SameProgram, disk, history
<1>1. CASE KeepPair
  BY <1>1 DEF KeepPair
<1>2. CASE CreateCert
  <2>1. held' \notin {Absent, Empty} /\ pinned = Absent
    BY <1>2, <1>f, FileRange DEF CreateCert
  <2> QED
    BY <1>2, <2>1 DEF CreateCert
<1>3. CASE WriteCert
  <2>1. files'["cert.pem"] = held /\ files'["cert.key"] = files["cert.key"]
    BY <1>3, <1>f DEF WriteCert
  <2> QED
    BY <1>3, <2>1 DEF WriteCert
<1>4. CASE CreateKey
  <2>1. files'["cert.pem"] = files["cert.pem"]
    BY <1>4, <1>f DEF CreateKey
  <2> QED
    BY <1>4, <2>1 DEF CreateKey
<1>5. CASE WriteKey
  <2>1. files'["cert.pem"] = files["cert.pem"] /\ files'["cert.key"] = held
    BY <1>5, <1>f DEF WriteKey
  <2> QED
    BY <1>5, <2>1 DEF WriteKey
<1>6. CASE Load
  BY <1>6 DEF Load
<1>7. CASE LoadFails
  BY <1>7 DEF LoadFails
<1> QED
  BY <1>1, <1>2, <1>3, <1>4, <1>5, <1>6, <1>7 DEF Certify

LEMMA NextPin == StartupTypeOK /\ PinInv /\ [StartupNext]_startupVars => PinInv'
<1> SUFFICES ASSUME StartupTypeOK, PinInv, [StartupNext]_startupVars PROVE PinInv'
  OBVIOUS
<1>f. files \in [Files -> Nat] /\ Halves \subseteq Files /\ "jwt.secret" \notin Halves
  BY DEF StartupTypeOK, Files, Halves
<1> USE DEF disk, process, history, StartSteps, Certifying
<1>1. CASE UNCHANGED startupVars
  BY <1>1, SamePin DEF startupVars
<1>2. ASSUME NEW v \in Versions, NEW t \in Transports, Start(v, t) PROVE PinInv'
  BY <1>2, SamePin DEF Start, Storing
<1>3. CASE Stop \/ Shutdown \/ Refused
  BY <1>3, SamePin DEF Stop, Shutdown, Refused, Down
<1>4. CASE Signal \/ RegisterAccount \/ IssueToken
  BY <1>4, SamePin DEF Signal, RegisterAccount, IssueToken
<1>5. CASE Store
  BY <1>5, SamePin DEF Store, ReadStamp, RemoveDatabase, CreateTable, Stamp, Seed, Go,
     SameProgram, Storing, Securing
<1>6. CASE Secure
  <2>1. \A f \in Halves : files'[f] = files[f]
    <3>1. CASE ReadSecret
      BY <3>1 DEF ReadSecret
    <3>2. CASE CreateSecret
      BY <3>2, <1>f DEF CreateSecret
    <3>3. CASE WriteSecret
      BY <3>3, <1>f DEF WriteSecret
    <3> QED
      BY <1>6, <3>1, <3>2, <3>3 DEF Secure
  <2>2. /\ pinned' = pinned
        /\ pc' # pc
        /\ pc' \in {"secret created", "network"}
    BY <1>6 DEF Secure, ReadSecret, CreateSecret, WriteSecret, Go, SameProgram
  <2>3. pc' \in StartSteps \ Certifying
    BY <2>2 DEF Securing
  <2> QED
    BY <2>1, <2>2, <2>3, SamePin
<1>7. CASE Bind
  BY <1>7, SamePin DEF Bind, SameProgram
<1>8. CASE Certify
  BY <1>8, CertifyPin
<1>9. ASSUME NEW f \in Halves, Lose(f) PROVE PinInv'
  BY <1>9 DEF Lose, PinInv, PinnedStands
<1> QED
  BY <1>1, <1>2, <1>3, <1>4, <1>5, <1>6, <1>7, <1>8, <1>9 DEF StartupNext

\* No start replaces a certificate that clients were told to pin, wherever an
\* earlier one stopped, unless a half of it is lost.
THEOREM PinStands == StartupSpec => []PinnedStands
<1>1. PinInv => PinnedStands
  BY DEF PinInv
<1> QED
  BY <1>1, StartupTypeCorrect, InitPin, NextPin, PTL DEF StartupSpec
=============================================================================
