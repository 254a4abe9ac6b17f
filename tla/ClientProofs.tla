---------------------------- MODULE ClientProofs ----------------------------
(***************************************************************************)
(* What holds of the two parts of a client that keep state of their own:   *)
(* the session, for any number of users and of calls at once, any validity *)
(* and any clock; and the terminal's connection form, for all keys, tokens *)
(* and numbers of keys pressed.  The argument for the form is one fact,    *)
(* FormsAreOfScreens: the form a client is built from is what FormOf makes *)
(* of a screen, and no such form names two secrets or two trusts.          *)
(***************************************************************************)
EXTENDS ClientSession, ConnectionForm, TLAPS

-----------------------------------------------------------------------------
(* The session (ClientSession). *)

\* A token that was issued and is refused is refused forever: the clock only
\* runs forward, and a lost secret never comes back.
LEMMA RefusedForever ==
  ASSUME now \in Nat, secret \in Nat, NEW t \in Token,
         t.secret <= secret, ~Accepted(t), SessionNext
  PROVE  ~Accepted(t)'
<1>1. t.secret \in Nat /\ t.exp \in Nat
  BY DEF Token
<1>2. CASE Tick
  BY <1>1, <1>2 DEF Tick, Accepted
<1>3. CASE LoseSecret
  BY <1>1, <1>3 DEF LoseSecret, Accepted
<1>4. CASE UNCHANGED <<now, secret>>
  BY <1>4 DEF Accepted
<1>5. Tick \/ LoseSecret \/ UNCHANGED <<now, secret>>
  BY DEF SessionNext, Logout, GrantLogin, DenyLogin, Serve, StartLogin, StartCall,
         LoggedIn, Answered, Refused, Lost
<1> QED
  BY <1>2, <1>3, <1>4, <1>5

-----------------------------------------------------------------------------

LEMMA InitInv == SessionInit => Inv
BY SessionAssumption
   DEF SessionInit, Inv, SessionTypeOK, Call, Idle, SignedInThePast, RefusalIsFinal

\* Every action keeps the invariant; only Tick and LoseSecret change what the
\* server accepts, and only towards refusing more.
LEMMA NextInv == Inv /\ [SessionNext]_sessionVars => Inv'
<1> SUFFICES ASSUME Inv, [SessionNext]_sessionVars PROVE Inv'
  OBVIOUS
<1> USE DEF Inv, SessionTypeOK, SignedInThePast, RefusalIsFinal
<1>1. CASE UNCHANGED sessionVars
  BY <1>1 DEF sessionVars, Accepted
<1>2. CASE Tick
  BY <1>2 DEF Tick, Accepted, Call, Token
<1>3. CASE LoseSecret
  <2>1. SessionTypeOK'
    BY <1>3 DEF LoseSecret
  <2>2. SignedInThePast'
    BY <1>3, SessionAssumption DEF LoseSecret, Call, Token
  <2>3. RefusalIsFinal'
    BY <1>3, RefusedForever, SessionAssumption DEF LoseSecret, SessionNext, Token
  <2> QED
    BY <2>1, <2>2, <2>3
<1>4. CASE Logout
  BY <1>4 DEF Logout, Accepted
<1>5. ASSUME NEW c \in Calls, GrantLogin(c) PROVE Inv'
  <2> DEFINE t == [user |-> calls[c].user, exp |-> now + Validity, secret |-> secret]
  <2>1. t \in Token /\ t.secret = secret
    BY <1>5, SessionAssumption DEF GrantLogin, Token
  <2> DEFINE granted == [calls[c] EXCEPT !.step = "granted", !.token = t]
  <2>2. /\ calls'[c] = granted
        /\ \A d \in Calls \ {c} : calls'[d] = calls[d]
        /\ calls' \in [Calls -> Call]
    <3>1. calls \in [Calls -> Call] /\ calls' = [calls EXCEPT ![c] = granted]
      BY <1>5 DEF GrantLogin
    <3> HIDE DEF t
    <3>2. granted \in Call
      BY <2>1, <3>1 DEF Call
    <3> HIDE DEF granted
    <3> QED BY <3>1, <3>2
  <2> HIDE DEF t
  <2>3. calls'[c].step = "granted" /\ calls'[c].token = t
    BY <2>2 DEF Call
  <2> HIDE DEF granted
  <2>4. UNCHANGED <<now, secret, session>>
    BY <1>5 DEF GrantLogin
  <2>5. SessionTypeOK'
    BY <2>1, <2>2, <2>3, <2>4
  <2>6. SignedInThePast'
    <3>1. t.secret <= secret
      BY <2>1
    <3>2. ASSUME NEW d \in Calls PROVE (calls[d].token # None => calls[d].token.secret <= secret)'
      BY <2>2, <2>3, <2>4, <3>1
    <3> QED BY <2>4, <3>2
  <2>7. RefusalIsFinal'
    BY <2>2, <2>3, <2>4 DEF Accepted
  <2> QED
    BY <2>5, <2>6, <2>7
<1>6. ASSUME NEW c \in Calls, DenyLogin(c) PROVE Inv'
  BY <1>6 DEF DenyLogin, Accepted, Call
<1>7. ASSUME NEW c \in Calls, Serve(c) PROVE Inv'
  BY <1>7 DEF Serve, Accepted, Call
<1>8. ASSUME NEW c \in Calls, NEW u \in Users, StartLogin(c, u) PROVE Inv'
  BY <1>8, SessionAssumption DEF StartLogin, Accepted, Call
<1>9. ASSUME NEW c \in Calls, StartCall(c) PROVE Inv'
  BY <1>9, SessionAssumption DEF StartCall, Accepted, Call
<1>10. ASSUME NEW c \in Calls, LoggedIn(c) PROVE Inv'
  BY <1>10 DEF LoggedIn, Accepted, Call, Idle
<1>11. ASSUME NEW c \in Calls, Answered(c) PROVE Inv'
  BY <1>11 DEF Answered, Accepted, Call, Idle
<1>12. ASSUME NEW c \in Calls, Refused(c) PROVE Inv'
  BY <1>12 DEF Refused, AfterRefusal, Accepted, Call, Idle
<1>13. ASSUME NEW c \in Calls, Lost(c) PROVE Inv'
  BY <1>13 DEF Lost, Accepted, Call, Idle
<1> QED
  BY <1>1, <1>2, <1>3, <1>4, <1>5, <1>6, <1>7, <1>8, <1>9, <1>10, <1>11,
     <1>12, <1>13 DEF SessionNext

LEMMA Invariance == SessionSpec => []Inv
BY InitInv, NextInv, PTL DEF SessionSpec

\* A token is with every call that has to carry one
\* (client.rs: `token` before the request, `sent` after it).
THEOREM SessionTypeCorrect == SessionSpec => []SessionTypeOK
BY Invariance, PTL DEF Inv

\* A caller that is told SessionExpired is told so of a token that is no good
\* and never will be: retrying with it cannot work.
THEOREM RefusalsAreFinal == SessionSpec => []RefusalIsFinal
BY Invariance, PTL DEF Inv

\* forget_if_current: a login the server accepts outlives every late refusal
\* of an older token, however many calls are under way and in whatever order
\* their replies come.
THEOREM GoodSessionOutlivesRefusals ==
  ForgetsIfCurrent => (SessionSpec => GoodSessionKept)
<1> SUFFICES ASSUME ForgetsIfCurrent PROVE SessionSpec => GoodSessionKept
  OBVIOUS
<1>1. ASSUME Inv, [SessionNext]_sessionVars
      PROVE  [ session # None /\ session' # session /\ Accepted(session)
                 => Logout \/ \E c \in Calls : LoggedIn(c) ]_sessionVars
  <2> SUFFICES ASSUME SessionNext, session' # session, session # None, Accepted(session)
               PROVE  Logout \/ \E c \in Calls : LoggedIn(c)
    BY <1>1
  <2>1. ASSUME NEW c \in Calls, Refused(c) PROVE FALSE
    BY <1>1, <2>1, SessionAssumption
       DEF Refused, AfterRefusal, Inv, SessionTypeOK, RefusalIsFinal
  <2> QED
    BY <2>1 DEF SessionNext, Tick, LoseSecret, GrantLogin, DenyLogin, Serve, StartLogin,
                StartCall, Answered, Lost
<1> QED
  BY <1>1, Invariance, PTL DEF SessionSpec, GoodSessionKept

-----------------------------------------------------------------------------
(* Moving between the fields. *)

\* The tab order is a sequence of fields: two, seven or eight of them.
LEMMA ShownIsShort ==
  ASSUME NEW scion \in BOOLEAN, NEW pinned \in BOOLEAN
  PROVE  /\ Shown(scion, pinned) \in Seq(Fields)
         /\ Len(Shown(scion, pinned)) \in {2, 7, 8}
<1>1. CASE ~scion
  <2>1. Shown(scion, pinned) = <<"Transport", "ServerUrl">>
    BY <1>1 DEF Shown
  <2> QED BY <2>1 DEF Fields
<1>2. CASE scion /\ ~pinned
  <2>1. Shown(scion, pinned) = <<"Transport", "ServerUrl", "EndhostApi", "Target", "Trust",
                                 "Credential", "Secret">>
    BY <1>2 DEF Shown
  <2> QED BY <2>1 DEF Fields
<1>3. CASE scion /\ pinned
  <2>1. Shown(scion, pinned) = <<"Transport", "ServerUrl", "EndhostApi", "Target", "Trust",
                                 "CertPath", "Credential", "Secret">>
    BY <1>3 DEF Shown
  <2> QED BY <2>1 DEF Fields
<1> QED BY <1>1, <1>2, <1>3

\* Counting on around a sequence of a few fields stays on it.
LEMMA Around ==
  ASSUME NEW n \in {2, 7, 8}, NEW k \in Nat
  PROVE  (k % n) + 1 \in 1..n
OBVIOUS

LEMMA OneLess == \A n \in {2, 7, 8} : n - 1 \in Nat
OBVIOUS

\* A position is a number.
LEMMA AtIsNat ==
  ASSUME NEW shown \in Seq(Fields), NEW field
  PROVE  At(shown, field) \in Nat
<1>1. CASE \E i \in 1..Len(shown) : shown[i] = field
  <2>1. (CHOOSE i \in 1..Len(shown) : shown[i] = field) \in 1..Len(shown)
    BY <1>1
  <2> QED BY <1>1, <2>1 DEF At
<1>2. CASE ~ \E i \in 1..Len(shown) : shown[i] = field
  BY <1>2 DEF At
<1> QED BY <1>1, <1>2

\* A step ends on a field of the tab order.
LEMMA StepIsShown ==
  ASSUME NEW field, NEW scion \in BOOLEAN, NEW pinned \in BOOLEAN, NEW by \in Nat
  PROVE  /\ Step(field, scion, pinned, by) \in Fields
         /\ Step(field, scion, pinned, by) \in ToSet(Shown(scion, pinned))
<1> DEFINE shown == Shown(scion, pinned)
           i == ((At(shown, field) + by + Len(shown)) % Len(shown)) + 1
<1>1. shown \in Seq(Fields) /\ Len(shown) \in {2, 7, 8}
  BY ShownIsShort
<1>2. At(shown, field) \in Nat
  BY <1>1, AtIsNat
<1>3. At(shown, field) + by + Len(shown) \in Nat
  BY <1>1, <1>2
<1>4. i \in 1..Len(shown)
  BY <1>1, <1>3, Around
<1>5. shown[i] \in Fields /\ i \in DOMAIN shown
  BY <1>1, <1>4
<1>6. shown[i] \in ToSet(shown)
  BY <1>5 DEF ToSet
<1> QED BY <1>5, <1>6 DEF Step

-----------------------------------------------------------------------------
(* Types. *)

\* What a screen says and what a form says have their types.
LEMMA FormOfType ==
  ASSUME NEW s \in Connection
  PROVE  FormOf(s) \in Form
BY FormAssumption DEF Connection, Form, FormOf, Trim, Paths, Trusts

LEMMA OpenedType ==
  ASSUME NEW form \in Form
  PROVE  Opened(form) \in Connection
<1>1. TrustOf(form) \in Trusts
  BY DEF TrustOf, Trusts, Form
<1>2. CredentialOf(form) \in Credentials
  BY DEF CredentialOf, Credentials
<1> QED BY <1>1, <1>2 DEF Opened, Connection, Form, Fields, Paths

\* The part of TypeOK that is about the screen: a key leaves a screen.
LEMMA KeysKeepScreen ==
  ASSUME screen \in Connection,
         Move \/ ChooseTransport \/ ChooseCredential \/ ChooseTrust \/ Type
  PROVE  screen' \in Connection
<1>1. CASE Move
  <2>1. Scion(screen) \in BOOLEAN /\ Pinned(screen) \in BOOLEAN
    BY DEF Scion, Pinned
  <2>2. NextField(screen) \in Fields
    BY <2>1, StepIsShown DEF NextField
  <2>3. Len(Shown(Scion(screen), Pinned(screen))) - 1 \in Nat
    <3>1. Len(Shown(Scion(screen), Pinned(screen))) \in {2, 7, 8}
      BY <2>1, ShownIsShort
    <3> QED BY <3>1, OneLess
  <2>4. PreviousField(screen) \in Fields
    <3> DEFINE back == Len(Shown(Scion(screen), Pinned(screen))) - 1
    <3>1. Step(screen.focus, Scion(screen), Pinned(screen), back) \in Fields
      BY <2>1, <2>3, StepIsShown
    <3> QED BY <3>1 DEF PreviousField
  <2>5. PICK field \in Fields : screen' = [screen EXCEPT !.focus = field]
    BY <1>1, <2>2, <2>4 DEF Move
  <2> QED BY <2>5 DEF Connection
<1>2. CASE ChooseTransport
  BY <1>2 DEF ChooseTransport, Connection, Transports
<1>3. CASE ChooseCredential
  BY <1>3 DEF ChooseCredential, Connection, Credentials
<1>4. CASE ChooseTrust
  <2>1. \A trust \in Trusts : NextTrust(trust) \in Trusts
    BY DEF NextTrust, Trusts
  <2>2. screen.trust \in Trusts
    BY DEF Connection
  <2>3. PICK trust \in Trusts : screen' = [screen EXCEPT !.trust = trust]
    BY <1>4, <2>1, <2>2 DEF ChooseTrust
  <2> QED BY <2>3 DEF Connection
<1>5. CASE Type
  <2>1. CASE \E text \in Urls : screen' = [screen EXCEPT !.server_url = text]
    BY <2>1 DEF Connection
  <2>2. CASE \E text \in Apis : screen' = [screen EXCEPT !.endhost_api = text]
    BY <2>2 DEF Connection
  <2>3. CASE \E text \in Targets : screen' = [screen EXCEPT !.target = text]
    BY <2>3 DEF Connection
  <2>4. CASE \E text \in Paths : screen' = [screen EXCEPT !.cert_path = text]
    BY <2>4 DEF Connection
  <2>5. CASE \E text \in Keys \cup {Blank} : screen' = [screen EXCEPT !.auth_api_key = text]
    BY <2>5 DEF Connection
  <2>6. CASE \E text \in Tokens \cup {Blank} : screen' = [screen EXCEPT !.snap_token = text]
    BY <2>6 DEF Connection
  <2> QED BY <1>5, <2>1, <2>2, <2>3, <2>4, <2>5, <2>6 DEF Type
<1> QED BY <1>1, <1>2, <1>3, <1>4, <1>5

\* Counting the keys pressed during a call stays below the bound.
LEMMA OneMoreEdit ==
  ASSUME NEW n \in Nat, NEW k \in 0..n, k < n
  PROVE  k + 1 \in 0..n
OBVIOUS

\* The typing part of every key.
LEMMA KeysKeepCount ==
  ASSUME edits \in 0..MaxEdits, Typing
  PROVE  edits' \in 0..MaxEdits
<1>1. MaxEdits \in Nat
  BY FormAssumption
<1>2. CASE Out
  BY <1>1, <1>2, OneMoreEdit DEF Typing
<1>3. CASE ~Out
  BY <1>3 DEF Typing
<1> QED BY <1>2, <1>3

\* A call's parts, read back from the record they are put in.
LEMMA CallParts ==
  ASSUME NEW form, NEW s, NEW c, c = [form |-> form, screen |-> s]
  PROVE  c.form = form /\ c.screen = s
OBVIOUS

LEMMA TypeStep == TypeOK /\ [Next]_vars => TypeOK'
<1> SUFFICES ASSUME TypeOK, [Next]_vars PROVE TypeOK'
  OBVIOUS
<1> USE DEF TypeOK
<1>0. 0 \in 0..MaxEdits
  BY FormAssumption
<1>1. CASE Move \/ ChooseTransport \/ ChooseCredential \/ ChooseTrust \/ Type
  <2>1. Typing /\ (flags' = flags \/ flags' = NoFlags)
    BY <1>1 DEF Move, ChooseTransport, ChooseCredential, ChooseTrust, Type
  <2>2. call' = call
    BY <2>1 DEF Typing
  <2>3. screen' \in Connection
    BY <1>1, KeysKeepScreen
  <2>4. edits' \in 0..MaxEdits
    BY <2>1, KeysKeepCount
  <2>5. (Out => call.form \in Form /\ call.screen \in Connection)'
    BY <2>2 DEF Out
  <2>6. flags' \in Form \cup {NoFlags}
    BY <2>1
  <2> QED BY <2>3, <2>4, <2>5, <2>6
<1>2. CASE Enter
  <2>1. screen' \in Connection
    BY <1>2 DEF Enter, Connection
  <2>2. FormOf(screen) \in Form
    BY FormOfType
  <2>3. call'.form = FormOf(screen) /\ call'.screen = screen'
    BY <1>2, CallParts DEF Enter
  <2>4. flags' = flags /\ edits' = 0
    BY <1>2 DEF Enter
  <2>5. flags' \in Form \cup {NoFlags} /\ edits' \in 0..MaxEdits
    BY <1>0, <2>4
  <2>6. call'.form \in Form /\ call'.screen \in Connection
    BY <2>1, <2>2, <2>3
  <2> QED BY <2>1, <2>5, <2>6
<1>3. CASE Refuse \/ Unreachable
  <2>0. screen' = [screen EXCEPT !.error = TRUE]
    BY <1>3 DEF Refuse, Unreachable
  <2>1. screen' \in Connection
    BY <2>0 DEF Connection
  <2>2. flags' = flags /\ edits' = 0 /\ call' = NoCall
    BY <1>3 DEF Refuse, Unreachable
  <2>3. flags' \in Form \cup {NoFlags} /\ edits' \in 0..MaxEdits
    BY <1>0, <2>2
  <2>4. (Out => call.form \in Form /\ call.screen \in Connection)'
    BY <2>2 DEF Out
  <2> QED BY <2>1, <2>3, <2>4
<1>4. CASE Connected
  BY <1>0, <1>4 DEF Connected, Out
<1>5. CASE UNCHANGED vars
  BY <1>5 DEF vars, Out
<1> QED BY <1>1, <1>2, <1>3, <1>4, <1>5 DEF Next, Keypress

\* Screen, flags and call have their types, however many keys are pressed
\* while a client is being built.
THEOREM TypeCorrect == Spec => []TypeOK
<1>1. Init => TypeOK
  <2> SUFFICES ASSUME Init PROVE TypeOK
    OBVIOUS
  <2>1. flags \in Form /\ screen \in Connection
    BY OpenedType DEF Init
  <2>2. 0 \in 0..MaxEdits
    BY FormAssumption
  <2> QED BY <2>1, <2>2 DEF Init, TypeOK, Out
<1> QED BY <1>1, TypeStep, PTL DEF Spec

-----------------------------------------------------------------------------
(* One fact about forms. *)

\* The form a client is built from is of the screen it was asked for on.
FormsAreOfScreens ==
  /\ Out => call.screen \in Connection /\ call.form = FormOf(call.screen)
  /\ client # NoClient => /\ client.screen \in Connection
                          /\ client.built = Built(FormOf(client.screen))

LEMMA ClientParts ==
  ASSUME NEW built, NEW s, NEW c, c = [built |-> built, screen |-> s]
  PROVE  c.built = built /\ c.screen = s
OBVIOUS

\* The message under a screen is no part of its form.
LEMMA ErrorIsNoField ==
  ASSUME NEW s \in Connection, NEW e
  PROVE  FormOf([s EXCEPT !.error = e]) = FormOf(s)
BY DEF FormOf, Connection

LEMMA FormStep ==
  TypeOK /\ TypeOK' /\ FormsAreOfScreens /\ [Next]_vars => FormsAreOfScreens'
<1> SUFFICES ASSUME TypeOK, TypeOK', FormsAreOfScreens, [Next]_vars
             PROVE  FormsAreOfScreens'
  OBVIOUS
<1>1. CASE Move \/ ChooseTransport \/ ChooseCredential \/ ChooseTrust \/ Type
  <2>1. call' = call /\ client' = client
    BY <1>1 DEF Move, ChooseTransport, ChooseCredential, ChooseTrust, Type, Typing
  <2> QED BY <2>1 DEF FormsAreOfScreens, Out
<1>2. CASE Enter
  <2>1. call'.form = FormOf(screen) /\ call'.screen = screen'
    BY <1>2, CallParts DEF Enter
  <2>2. screen \in Connection /\ screen' \in Connection
    BY DEF TypeOK
  <2>3. screen' = [screen EXCEPT !.error = FALSE] /\ client' = client /\ client = NoClient
    BY <1>2 DEF Enter
  <2>4. FormOf(screen') = FormOf(screen)
    BY <2>2, <2>3, ErrorIsNoField
  <2> QED BY <2>1, <2>2, <2>3, <2>4 DEF FormsAreOfScreens
<1>3. CASE Refuse \/ Unreachable
  <2>1. call' = NoCall /\ client' = client
    BY <1>3 DEF Refuse, Unreachable
  <2> QED BY <2>1 DEF FormsAreOfScreens, Out
<1>4. CASE Connected
  <2>1. Out /\ call' = NoCall
    BY <1>4 DEF Connected
  <2>2. client'.built = Built(call.form) /\ client'.screen = call.screen
    BY <1>4, ClientParts DEF Connected
  <2> QED BY <2>1, <2>2 DEF FormsAreOfScreens, Out
<1>5. CASE UNCHANGED vars
  BY <1>5 DEF vars, FormsAreOfScreens, Out
<1> QED BY <1>1, <1>2, <1>3, <1>4, <1>5 DEF Next, Keypress

LEMMA FormsInvariant == Spec => []FormsAreOfScreens
<1>1. Init => FormsAreOfScreens
  BY DEF Init, FormsAreOfScreens, Out
<1> QED BY <1>1, FormStep, TypeCorrect, PTL DEF Spec

-----------------------------------------------------------------------------
(* What follows for the client. *)

\* No form of a screen names both secrets, or a certificate beside "insecure".
LEMMA FormNamesOne ==
  ASSUME NEW s \in Connection
  PROVE  /\ FormOf(s).auth_api_key = Blank \/ FormOf(s).snap_token = Blank
         /\ ~FormOf(s).insecure \/ FormOf(s).cert_path = Blank
BY DEF FormOf, Connection, Credentials, Trusts

\* Of a form that names one of each, no complaint is about two.
LEMMA NoTwo ==
  ASSUME NEW form \in Form,
         form.auth_api_key = Blank \/ form.snap_token = Blank,
         ~form.insecure \/ form.cert_path = Blank
  PROVE  Complaint(form) \notin {"two credentials", "two trusts"}
<1>1. CASE form.server_url = "unreadable" \/ form.server_url # Scheme(form.transport)
  BY <1>1 DEF Complaint
<1>2. CASE form.server_url = "http" /\ form.transport = "Tcp"
  BY <1>2 DEF Complaint, Scheme
<1>3. CASE form.server_url = "https" /\ form.transport = "Scion"
  BY <1>3 DEF Complaint, Scheme
<1> QED BY <1>1, <1>2, <1>3 DEF Scheme, Form, Urls, Transports

\* A client's secret is the text under the credential chosen at Enter: a key
\* is never sent as a token, nor a token as a key.
THEOREM SecretAsShown == Spec => []SecretIsTheOneShown
<1>1. ASSUME NEW s \in Connection, Built(FormOf(s)).transport = "Scion"
      PROVE  LET proved == Built(FormOf(s)).credential
             IN  /\ proved.kind = "ApiKey" => proved.secret = s.auth_api_key /\ s.credential = "ApiKey"
                 /\ proved.kind = "Token" => proved.secret = s.snap_token /\ s.credential = "Token"
                 /\ proved.kind = "None" => IF s.credential = "ApiKey" THEN s.auth_api_key = Blank
                                                                       ELSE s.snap_token = Blank
  <2>1. Built(FormOf(s)).credential = CredentialFor(FormOf(s))
    <3>1. FormOf(s).transport # "Tcp"
      BY <1>1 DEF Built
    <3> QED BY <3>1 DEF Built
  <2>2. CASE s.credential = "ApiKey"
    <3>1. FormOf(s).auth_api_key = s.auth_api_key /\ FormOf(s).snap_token = Blank
      BY <2>2 DEF FormOf
    <3> QED BY <2>1, <2>2, <3>1 DEF CredentialFor
  <2>3. CASE s.credential = "Token"
    <3>1. FormOf(s).auth_api_key = Blank /\ FormOf(s).snap_token = s.snap_token
      BY <2>3 DEF FormOf
    <3> QED BY <2>1, <2>3, <3>1 DEF CredentialFor
  <2> QED BY <2>2, <2>3 DEF Connection, Credentials
<1>2. FormsAreOfScreens => SecretIsTheOneShown
  BY <1>1 DEF FormsAreOfScreens, SecretIsTheOneShown
<1> QED BY <1>2, FormsInvariant, PTL

\* A client trusts what the screen said at Enter, and the system's roots
\* instead of a pinned certificate without a path.
THEOREM TrustAsShown == Spec => []TrustIsTheOneShown
<1>1. ASSUME NEW s \in Connection, Built(FormOf(s)).transport = "Scion"
      PROVE  \/ Built(FormOf(s)).trust = s.trust
             \/ s.trust = "Pinned" /\ Trim(s.cert_path) = Blank /\ Built(FormOf(s)).trust = "System"
  <2>1. Built(FormOf(s)).trust = TrustFor(FormOf(s))
    <3>1. FormOf(s).transport # "Tcp"
      BY <1>1 DEF Built
    <3> QED BY <3>1 DEF Built
  <2>2. FormOf(s).insecure = (s.trust = "Insecure")
    BY DEF FormOf
  <2>3. FormOf(s).cert_path = IF s.trust = "Pinned" THEN Trim(s.cert_path) ELSE Blank
    BY DEF FormOf
  <2> QED BY <2>1, <2>2, <2>3 DEF TrustFor, Connection, Trusts
<1>2. FormsAreOfScreens => TrustIsTheOneShown
  BY <1>1 DEF FormsAreOfScreens, TrustIsTheOneShown
<1> QED BY <1>2, FormsInvariant, PTL

\* A client is the one that was on the screen at Enter, whatever happened to
\* the screen since.
THEOREM ConnectsAsOnScreen == Spec => []ConnectsAsShown
<1>1. SecretIsTheOneShown /\ TrustIsTheOneShown => ConnectsAsShown
  BY DEF ConnectsAsShown
<1> QED BY <1>1, SecretAsShown, TrustAsShown, PTL

-----------------------------------------------------------------------------
(* The focus. *)

\* A field of the tab order is at one place of it.
LEMMA ShownOnce ==
  ASSUME NEW scion \in BOOLEAN, NEW pinned \in BOOLEAN,
         NEW i \in 1..Len(Shown(scion, pinned)), NEW j \in 1..Len(Shown(scion, pinned)),
         Shown(scion, pinned)[i] = Shown(scion, pinned)[j]
  PROVE  i = j
<1>1. CASE ~scion
  <2>1. Shown(scion, pinned) = <<"Transport", "ServerUrl">>
    BY <1>1 DEF Shown
  <2> QED BY <2>1
<1>2. CASE scion /\ ~pinned
  <2>1. Shown(scion, pinned) = <<"Transport", "ServerUrl", "EndhostApi", "Target", "Trust",
                                 "Credential", "Secret">>
    BY <1>2 DEF Shown
  <2> QED BY <2>1
<1>3. CASE scion /\ pinned
  <2>1. Shown(scion, pinned) = <<"Transport", "ServerUrl", "EndhostApi", "Target", "Trust",
                                 "CertPath", "Credential", "Secret">>
    BY <1>3 DEF Shown
  <2> QED BY <2>1
<1> QED BY <1>1, <1>2, <1>3

LEMMA AtPlace ==
  ASSUME NEW scion \in BOOLEAN, NEW pinned \in BOOLEAN,
         NEW i \in 1..Len(Shown(scion, pinned))
  PROVE  At(Shown(scion, pinned), Shown(scion, pinned)[i]) = i - 1
<1> DEFINE shown == Shown(scion, pinned)
<1>1. \E j \in 1..Len(shown) : shown[j] = shown[i]
  OBVIOUS
<1>2. (CHOOSE j \in 1..Len(shown) : shown[j] = shown[i]) = i
  BY <1>1, ShownOnce
<1> QED BY <1>1, <1>2 DEF At

\* One back and one on is where it began.
LEMMA ThereAndBack ==
  ASSUME NEW n \in {2, 7, 8}, NEW i \in 1..n
  PROVE  LET j == ((i - 1 + (n - 1) + n) % n) + 1
         IN  j \in 1..n /\ ((j - 1 + 1 + n) % n) + 1 = i
OBVIOUS

LEMMA BackIsUndone ==
  ASSUME NEW scion \in BOOLEAN, NEW pinned \in BOOLEAN,
         NEW field \in ToSet(Shown(scion, pinned))
  PROVE  Step(Step(field, scion, pinned, Len(Shown(scion, pinned)) - 1), scion, pinned, 1)
           = field
<1> DEFINE shown == Shown(scion, pinned)
           n == Len(shown)
<1>1. shown \in Seq(Fields) /\ n \in {2, 7, 8}
  BY ShownIsShort
<1>2. PICK i \in 1..n : field = shown[i]
  BY <1>1 DEF ToSet
<1> DEFINE j == ((i - 1 + (n - 1) + n) % n) + 1
<1>3. At(shown, field) = i - 1
  BY <1>2, AtPlace
<1>4. Step(field, scion, pinned, n - 1) = shown[j]
  BY <1>3 DEF Step
<1>5. j \in 1..n /\ ((j - 1 + 1 + n) % n) + 1 = i
  BY <1>1, <1>2, ThereAndBack
<1> HIDE DEF j
<1>6. At(shown, shown[j]) = j - 1
  BY <1>5, AtPlace
<1>7. Step(shown[j], scion, pinned, 1) = shown[i]
  BY <1>5, <1>6 DEF Step
<1> QED BY <1>2, <1>4, <1>7

\* Where each field is shown: the certificate only if it is the choice, all
\* but the first two only over SCION.
LEMMA WhereShown ==
  ASSUME NEW scion \in BOOLEAN, NEW pinned \in BOOLEAN
  PROVE  ToSet(Shown(scion, pinned)) =
           {"Transport", "ServerUrl"}
             \cup (IF scion THEN {"EndhostApi", "Target", "Trust", "Credential", "Secret"}
                            ELSE {})
             \cup (IF scion /\ pinned THEN {"CertPath"} ELSE {})
<1>1. CASE ~scion
  <2>1. Shown(scion, pinned) = <<"Transport", "ServerUrl">>
    BY <1>1 DEF Shown
  <2>2. ToSet(Shown(scion, pinned)) = {"Transport", "ServerUrl"}
    BY <2>1 DEF ToSet
  <2> QED BY <1>1, <2>2
<1>2. CASE scion /\ ~pinned
  <2>1. Shown(scion, pinned) = <<"Transport", "ServerUrl", "EndhostApi", "Target", "Trust",
                                 "Credential", "Secret">>
    BY <1>2 DEF Shown
  <2>2. ToSet(Shown(scion, pinned)) = {"Transport", "ServerUrl", "EndhostApi", "Target",
                                       "Trust", "Credential", "Secret"}
    BY <2>1 DEF ToSet
  <2> QED BY <1>2, <2>2
<1>3. CASE scion /\ pinned
  <2>1. Shown(scion, pinned) = <<"Transport", "ServerUrl", "EndhostApi", "Target", "Trust",
                                 "CertPath", "Credential", "Secret">>
    BY <1>3 DEF Shown
  <2>2. ToSet(Shown(scion, pinned)) = {"Transport", "ServerUrl", "EndhostApi", "Target",
                                       "Trust", "CertPath", "Credential", "Secret"}
    BY <2>1 DEF ToSet
  <2> QED BY <1>3, <2>2
<1> QED BY <1>1, <1>2, <1>3

\* The part of FocusIsShown that a step has to keep.
FocusStands == screen.focus \in ToSet(Shown(Scion(screen), Pinned(screen)))

LEMMA ScreenChoices == Scion(screen) \in BOOLEAN /\ Pinned(screen) \in BOOLEAN
BY DEF Scion, Pinned

\* What leaves the transport, the trust and the focus as they are.
LEMMA FocusKept ==
  ASSUME FocusStands, screen'.focus = screen.focus,
         screen'.transport = screen.transport, screen'.trust = screen.trust
  PROVE  FocusStands'
BY DEF FocusStands, Scion, Pinned

LEMMA FocusStep == TypeOK /\ FocusStands /\ [Next]_vars => FocusStands'
<1> SUFFICES ASSUME TypeOK, FocusStands, [Next]_vars PROVE FocusStands'
  OBVIOUS
<1>1. screen \in Connection
  BY DEF TypeOK
<1>2. CASE Move
  <2> DEFINE back == Len(Shown(Scion(screen), Pinned(screen))) - 1
  <2>1. back \in Nat
    BY ScreenChoices, ShownIsShort, OneLess
  <2>2. PICK field \in {NextField(screen), PreviousField(screen)} :
          screen' = [screen EXCEPT !.focus = field]
    BY <1>2 DEF Move
  <2>3. Step(screen.focus, Scion(screen), Pinned(screen), back)
          \in ToSet(Shown(Scion(screen), Pinned(screen)))
    BY <2>1, ScreenChoices, StepIsShown
  <2>4. Step(screen.focus, Scion(screen), Pinned(screen), 1)
          \in ToSet(Shown(Scion(screen), Pinned(screen)))
    BY ScreenChoices, StepIsShown
  <2>5. field \in ToSet(Shown(Scion(screen), Pinned(screen)))
    BY <2>2, <2>3, <2>4 DEF NextField, PreviousField
  <2>6. /\ screen'.focus = field
        /\ screen'.transport = screen.transport /\ screen'.trust = screen.trust
    BY <1>1, <2>2 DEF Connection
  <2>7. Scion(screen)' = Scion(screen) /\ Pinned(screen)' = Pinned(screen)
    BY <2>6 DEF Scion, Pinned
  <2> QED BY <2>5, <2>6, <2>7 DEF FocusStands
<1>3. CASE ChooseTransport
  <2>1. screen'.focus = "Transport"
    BY <1>1, <1>3 DEF ChooseTransport, Connection
  <2>2. Scion(screen)' \in BOOLEAN /\ Pinned(screen)' \in BOOLEAN
    BY DEF Scion, Pinned
  <2> QED BY <2>1, <2>2, WhereShown DEF FocusStands
<1>4. CASE ChooseTrust
  <2>1. PICK trust : screen' = [screen EXCEPT !.trust = trust]
    BY <1>4 DEF ChooseTrust
  <2>2. screen'.focus = "Trust" /\ screen'.transport = screen.transport
    BY <1>1, <1>4, <2>1 DEF ChooseTrust, Connection
  <2>3. Scion(screen)
    BY <1>4, ScreenChoices, WhereShown DEF ChooseTrust, FocusStands
  <2>4. Scion(screen)' = TRUE /\ Pinned(screen)' \in BOOLEAN
    BY <2>2, <2>3 DEF Scion, Pinned
  <2> QED BY <2>2, <2>4, WhereShown DEF FocusStands
<1>5. CASE ChooseCredential \/ Enter \/ Refuse \/ Unreachable
  BY <1>1, <1>5, FocusKept DEF ChooseCredential, Enter, Refuse, Unreachable, Connection
<1>6. CASE Type
  BY <1>1, <1>6, FocusKept DEF Type, Connection
<1>7. CASE Connected \/ UNCHANGED vars
  BY <1>7, FocusKept DEF Connected, vars
<1> QED BY <1>2, <1>3, <1>4, <1>5, <1>6, <1>7 DEF Next, Keypress

\* The keys go to a field the screen shows, whatever was chosen since the focus
\* came there; and from there, Shift+Tab is undone by Tab.
THEOREM FocusAlwaysShown == Spec => []FocusIsShown
<1>1. Init => FocusStands
  <2> SUFFICES ASSUME Init PROVE FocusStands
    OBVIOUS
  <2>1. screen.focus = "Transport"
    BY DEF Init, Opened
  <2> QED BY <2>1, ScreenChoices, WhereShown DEF FocusStands
<1>2. TypeOK /\ FocusStands => FocusIsShown
  <2> SUFFICES ASSUME TypeOK, FocusStands PROVE FocusIsShown
    OBVIOUS
  <2> DEFINE there == [screen EXCEPT !.focus = PreviousField(screen)]
  <2>1. /\ there.focus = PreviousField(screen)
        /\ there.transport = screen.transport /\ there.trust = screen.trust
    BY DEF TypeOK, Connection
  <2> HIDE DEF there
  <2>2. Scion(there) = Scion(screen) /\ Pinned(there) = Pinned(screen)
    BY <2>1 DEF Scion, Pinned
  <2>3. NextField(there) = screen.focus
    BY <2>1, <2>2, ScreenChoices, BackIsUndone
       DEF NextField, PreviousField, FocusStands
  <2> QED BY <2>3 DEF FocusIsShown, FocusStands, there
<1> QED BY <1>1, <1>2, FocusStep, TypeCorrect, PTL DEF Spec

-----------------------------------------------------------------------------
(* What is refused, and what the flags asked for. *)

\* Where what is refused of a form is settled.
LEMMA WhereSettled ==
  ASSUME NEW form \in Form, Complaint(form) \notin {"two credentials", "two trusts"}
  PROVE  \/ Complaint(form) \in {"nothing", "insecure tcp"}
         \/ Settles(Complaint(form)) = "ServerUrl"
         \/ /\ form.transport = "Scion"
            /\ Settles(Complaint(form)) \in {"EndhostApi", "Credential", "Target"}
<1>1. CASE form.server_url = "unreadable" \/ form.server_url # Scheme(form.transport)
  <2>1. CASE form.server_url = "unreadable"
    BY <2>1 DEF Complaint, Settles
  <2>2. CASE form.server_url # "unreadable" /\ form.server_url # Scheme(form.transport)
    <3>1. Complaint(form) = "scheme"
      BY <2>2 DEF Complaint, Scheme, Form, Urls, Transports
    <3> QED BY <3>1 DEF Settles
  <2> QED BY <1>1, <2>1, <2>2
<1>2. CASE form.server_url = "http" /\ form.transport = "Tcp"
  BY <1>2 DEF Complaint, Scheme
<1>3. CASE form.server_url = "https" /\ form.transport = "Scion"
  <2>1. Complaint(form) \in {"endhost api", "aa url", "target", "nothing"}
    BY <1>3 DEF Complaint, Scheme
  <2> QED BY <1>3, <2>1 DEF Settles
<1> QED BY <1>1, <1>2, <1>3 DEF Scheme, Form, Urls, Transports

\* Whatever Enter is refused for is on the tab order of the screen it was
\* pressed on, but for a trust left insecure under TCP.
THEOREM RefusalsAreInReach == Spec => []RefusedWithinReach
<1>1. ASSUME NEW s \in Connection
      PROVE  \/ Complaint(FormOf(s)) \in {"nothing", "insecure tcp"}
             \/ Settles(Complaint(FormOf(s))) \in ToSet(Shown(Scion(s), Pinned(s)))
  <2>1. Scion(s) \in BOOLEAN /\ Pinned(s) \in BOOLEAN
    BY DEF Scion, Pinned
  <2>2. /\ FormOf(s) \in Form
        /\ Complaint(FormOf(s)) \notin {"two credentials", "two trusts"}
    BY FormOfType, FormNamesOne, NoTwo
  <2>3. FormOf(s).transport = "Scion" => Scion(s)
    BY DEF FormOf, Scion
  <2> QED BY <2>1, <2>2, <2>3, WhereShown, WhereSettled
<1>2. FormsAreOfScreens => RefusedWithinReach
  BY <1>1 DEF FormsAreOfScreens, RefusedWithinReach
<1> QED BY <1>2, FormsInvariant, PTL

\* Until a key changes it, the screen asks for what it was opened with.
AsksForFlags ==
  flags # NoFlags =>
    /\ flags \in Form
    /\ FormOf(screen) = FormOf(Opened(flags))
    /\ Out => call.form = FormOf(Opened(flags))

\* What the screen makes of the form it was opened with: of two secrets the
\* token, of two trusts none.
LEMMA FlagsComeBack ==
  ASSUME NEW form \in Form
  PROVE  LET meant == IF form.snap_token = Blank THEN form
                      ELSE [form EXCEPT !.auth_api_key = Blank]
         IN  FormOf(Opened(form)) =
               IF form.insecure THEN [meant EXCEPT !.cert_path = Blank] ELSE meant
<1>1. form.cert_path \in {Blank, "path"} \ {Spaces}
  BY DEF Form, Paths
<1>2. Trim(form.cert_path) = form.cert_path
  BY <1>1 DEF Trim
<1> DEFINE s == Opened(form)
           key == IF form.snap_token = Blank THEN form.auth_api_key ELSE Blank
           path == IF form.insecure THEN Blank ELSE form.cert_path
<1>3. /\ s.transport = form.transport /\ s.server_url = form.server_url
      /\ s.endhost_api = form.endhost_api /\ s.target = form.target
      /\ s.trust = TrustOf(form) /\ s.cert_path = form.cert_path
      /\ s.credential = CredentialOf(form)
      /\ s.auth_api_key = form.auth_api_key /\ s.snap_token = form.snap_token
      /\ s.aa_url = form.aa_url
  BY DEF Opened
<1> HIDE DEF s
<1>4. (s.trust = "Insecure") = form.insecure
  BY <1>3 DEF TrustOf, Form
<1>5. (IF s.trust = "Pinned" THEN Trim(s.cert_path) ELSE Blank) = path
  BY <1>2, <1>3 DEF TrustOf, Form
<1>6. /\ (IF s.credential = "ApiKey" THEN s.auth_api_key ELSE Blank) = key
      /\ (IF s.credential = "Token" THEN s.snap_token ELSE Blank) = form.snap_token
  BY <1>3 DEF CredentialOf
<1>7. FormOf(s) =
        [transport |-> form.transport, server_url |-> form.server_url,
         endhost_api |-> form.endhost_api, target |-> form.target,
         insecure |-> form.insecure, cert_path |-> path, auth_api_key |-> key,
         snap_token |-> form.snap_token, aa_url |-> form.aa_url]
  BY <1>3, <1>4, <1>5, <1>6 DEF FormOf
<1> DEFINE meant == IF form.snap_token = Blank THEN form ELSE [form EXCEPT !.auth_api_key = Blank]
<1>8. meant =
        [transport |-> form.transport, server_url |-> form.server_url,
         endhost_api |-> form.endhost_api, target |-> form.target,
         insecure |-> form.insecure, cert_path |-> form.cert_path, auth_api_key |-> key,
         snap_token |-> form.snap_token, aa_url |-> form.aa_url]
  BY DEF Form
<1> HIDE DEF meant, key
<1>9. (IF form.insecure THEN [meant EXCEPT !.cert_path = Blank] ELSE meant) =
        [transport |-> form.transport, server_url |-> form.server_url,
         endhost_api |-> form.endhost_api, target |-> form.target,
         insecure |-> form.insecure, cert_path |-> path, auth_api_key |-> key,
         snap_token |-> form.snap_token, aa_url |-> form.aa_url]
  BY <1>8
<1> QED BY <1>7, <1>9 DEF meant, s

LEMMA FlagsStep == TypeOK /\ AsksForFlags /\ [Next]_vars => AsksForFlags'
<1> SUFFICES ASSUME TypeOK, AsksForFlags, [Next]_vars PROVE AsksForFlags'
  OBVIOUS
<1>1. screen \in Connection
  BY DEF TypeOK
<1>2. CASE ChooseTransport \/ ChooseCredential \/ ChooseTrust \/ Type
  BY <1>2 DEF ChooseTransport, ChooseCredential, ChooseTrust, Type, AsksForFlags
<1>3. CASE Move
  <2>1. PICK field : screen' = [screen EXCEPT !.focus = field]
    BY <1>3 DEF Move
  <2>2. FormOf(screen') = FormOf(screen)
    BY <1>1, <2>1 DEF FormOf, Connection
  <2> QED BY <1>3, <2>2 DEF Move, Typing, AsksForFlags, Out
<1>4. CASE Enter
  <2>1. FormOf(screen') = FormOf(screen)
    BY <1>1, <1>4, ErrorIsNoField DEF Enter
  <2>2. call'.form = FormOf(screen) /\ flags' = flags
    BY <1>4, CallParts DEF Enter
  <2> QED BY <2>1, <2>2 DEF AsksForFlags
<1>5. CASE Refuse \/ Unreachable
  <2>1. FormOf(screen') = FormOf(screen) /\ call' = NoCall /\ flags' = flags
    BY <1>1, <1>5, ErrorIsNoField DEF Refuse, Unreachable
  <2> QED BY <2>1 DEF AsksForFlags, Out
<1>6. CASE Connected
  BY <1>6 DEF Connected, AsksForFlags, Out
<1>7. CASE UNCHANGED vars
  BY <1>7 DEF vars, AsksForFlags, Out
<1> QED BY <1>2, <1>3, <1>4, <1>5, <1>6, <1>7 DEF Next, Keypress

\* Until a key changes what the screen asks for, Enter asks for what the flags
\* asked for, and of flags that contradict each other for one, always the same.
THEOREM OpensAsAsked == Spec => []OpensOnItsFlags
<1>1. Init => AsksForFlags
  BY DEF Init, AsksForFlags, Out
<1>2. AsksForFlags => OpensOnItsFlags
  BY FlagsComeBack DEF AsksForFlags, OpensOnItsFlags
<1> QED BY <1>1, <1>2, FlagsStep, TypeCorrect, PTL DEF Spec
=============================================================================
