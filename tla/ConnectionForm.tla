---------------------------- MODULE ConnectionForm ---------------------------
(***************************************************************************)
(* The terminal client's first screen and the client it leads to           *)
(* (chat-ui-ratatui: screens/connection.rs, the connecting part of app.rs; *)
(* chat-client-core: config.rs, client.rs, transport/scion.rs).            *)
(*                                                                         *)
(* Flags fill in the screen, keys move between its fields, choose and type,*)
(* Enter turns the screen into a form, the form is checked and turned into *)
(* the configuration of a client, and the client is built and tried.  What *)
(* is typed is a member of a small set: a URL is its scheme or unreadable, *)
(* an address is readable or not, and blanks around a text do not matter.  *)
(***************************************************************************)
EXTENDS Naturals, FiniteSets, SequencesExt

CONSTANTS
  Keys, Tokens,  \* the API keys and SNAP tokens there are
  Blank,         \* a field that is left empty
  Spaces,        \* a field of blanks only
  MaxEdits       \* bound: keys pressed while the client is being built

ASSUME FormAssumption ==
  /\ Blank # Spaces
  /\ {Blank, Spaces} \cap (Keys \cup Tokens) = {}
  /\ Keys \cap Tokens = {}
  /\ MaxEdits \in Nat

VARIABLES
  screen,  \* Connection
  flags,   \* the form the screen was opened with, until a key changes it
  call,    \* the form whose client is being built, and the screen it is of
  client,  \* the client that was built, with the screen it was built from
  edits    \* keys pressed since Enter

vars == <<screen, flags, call, client, edits>>

Transports == {"Scion", "Tcp"}

Trusts == {"System", "Pinned", "Insecure"}

Credentials == {"ApiKey", "Token"}

Fields == {"Transport", "ServerUrl", "EndhostApi", "Target", "Trust", "CertPath",
           "Credential", "Secret"}

\* What each text may be: readable, unreadable, or left blank.
Urls == {"http", "https", "unreadable"}
Apis == {Blank, "url", "unreadable"}
Targets == {Blank, "address", "unreadable"}
Paths == {Blank, Spaces, "path"}

Form == [transport : Transports, server_url : Urls, endhost_api : Apis, target : Targets,
         insecure : BOOLEAN, cert_path : Paths \ {Spaces}, auth_api_key : Keys \cup {Blank},
         snap_token : Tokens \cup {Blank}, aa_url : {"url", "unreadable"}]

Connection == [transport : Transports, server_url : Urls, endhost_api : Apis, target : Targets,
               trust : Trusts, cert_path : Paths, credential : Credentials,
               auth_api_key : Keys \cup {Blank}, snap_token : Tokens \cup {Blank},
               aa_url : {"url", "unreadable"}, focus : Fields, error : BOOLEAN]

Trim(text) == IF text = Spaces THEN Blank ELSE text

-----------------------------------------------------------------------------
(* Flags to screen, screen to form. *)

\* Mutant of CredentialOf: the choice starts as it does without flags.
CredentialOfDefault(form) == "ApiKey"

CredentialOf(form) == IF form.snap_token = Blank THEN "ApiKey" ELSE "Token"

TrustOf(form) ==
  CASE form.insecure -> "Insecure"
    [] ~form.insecure /\ form.cert_path = Blank -> "System"
    [] ~form.insecure /\ form.cert_path # Blank -> "Pinned"

\* Connection::new
Opened(form) ==
  [transport |-> form.transport, server_url |-> form.server_url,
   endhost_api |-> form.endhost_api, target |-> form.target, trust |-> TrustOf(form),
   cert_path |-> form.cert_path, credential |-> CredentialOf(form),
   auth_api_key |-> form.auth_api_key, snap_token |-> form.snap_token,
   aa_url |-> form.aa_url, focus |-> "Transport", error |-> FALSE]

\* Mutant of FormOf: every field leaves as it stands.
FormOfEveryField(s) ==
  [transport |-> s.transport, server_url |-> s.server_url, endhost_api |-> s.endhost_api,
   target |-> s.target, insecure |-> s.trust = "Insecure", cert_path |-> Trim(s.cert_path),
   auth_api_key |-> s.auth_api_key, snap_token |-> s.snap_token, aa_url |-> s.aa_url]

\* Connection::form: only the secret that is chosen, the certificate only if
\* it is the choice.
FormOf(s) ==
  [transport |-> s.transport, server_url |-> s.server_url, endhost_api |-> s.endhost_api,
   target |-> s.target, insecure |-> s.trust = "Insecure",
   cert_path |-> IF s.trust = "Pinned" THEN Trim(s.cert_path) ELSE Blank,
   auth_api_key |-> IF s.credential = "ApiKey" THEN s.auth_api_key ELSE Blank,
   snap_token |-> IF s.credential = "Token" THEN s.snap_token ELSE Blank,
   aa_url |-> s.aa_url]

-----------------------------------------------------------------------------
(* Form to client. *)

Scheme(transport) == IF transport = "Scion" THEN "https" ELSE "http"

\* credential: a key, a token, or nothing to prove.
CredentialFor(form) ==
  CASE form.auth_api_key # Blank -> [kind |-> "ApiKey", secret |-> form.auth_api_key]
    [] form.auth_api_key = Blank /\ form.snap_token # Blank ->
         [kind |-> "Token", secret |-> form.snap_token]
    [] form.auth_api_key = Blank /\ form.snap_token = Blank ->
         [kind |-> "None", secret |-> Blank]

\* trust
TrustFor(form) ==
  CASE form.insecure -> "Insecure"
    [] ~form.insecure /\ form.cert_path # Blank -> "Pinned"
    [] ~form.insecure /\ form.cert_path = Blank -> "System"

\* Mutant of Complaint: the endhost API is asked for whatever the transport.
ComplaintWithoutTransport(form) ==
  IF form.server_url # Scheme(form.transport) THEN "scheme"
  ELSE IF form.endhost_api # "url" THEN "endhost api"
  ELSE "nothing"

\* What is wrong with a form, in the order in which connect, transport and
\* ScionTransport::new come to it; "nothing" if a client can be built.
Complaint(form) ==
  CASE form.server_url = "unreadable" -> "server url"
    [] form.server_url # "unreadable" /\ form.server_url # Scheme(form.transport) -> "scheme"
    [] form.server_url = "http" /\ form.transport = "Tcp" ->
         IF form.insecure THEN "insecure tcp" ELSE "nothing"
    [] form.server_url = "https" /\ form.transport = "Scion" ->
         CASE form.endhost_api # "url" -> "endhost api"
           [] form.endhost_api = "url" /\ form.auth_api_key # Blank /\ form.snap_token # Blank ->
                "two credentials"
           [] form.endhost_api = "url" /\ form.auth_api_key # Blank /\ form.snap_token = Blank
                /\ form.aa_url = "unreadable" -> "aa url"
           [] OTHER ->
                IF form.insecure /\ form.cert_path # Blank THEN "two trusts"
                ELSE IF form.target = "unreadable" THEN "target"
                ELSE "nothing"

\* The settings of the transport a client is built with.
Built(form) ==
  IF form.transport = "Tcp"
  THEN [transport |-> "Tcp", credential |-> [kind |-> "None", secret |-> Blank],
        trust |-> "none", target |-> Blank]
  ELSE [transport |-> "Scion", credential |-> CredentialFor(form),
        trust |-> TrustFor(form), target |-> form.target]

-----------------------------------------------------------------------------
(* Moving between the fields. *)

Scion(s) == s.transport = "Scion"

Pinned(s) == s.trust = "Pinned"

\* Focus::shown
Shown(scion, pinned) ==
  CASE ~scion -> <<"Transport", "ServerUrl">>
    [] scion /\ ~pinned ->
         <<"Transport", "ServerUrl", "EndhostApi", "Target", "Trust", "Credential", "Secret">>
    [] scion /\ pinned ->
         <<"Transport", "ServerUrl", "EndhostApi", "Target", "Trust", "CertPath", "Credential",
           "Secret">>

\* The position of a field, counted from 0; the first if it is not shown.
At(shown, field) ==
  IF \E i \in 1..Len(shown) : shown[i] = field
  THEN (CHOOSE i \in 1..Len(shown) : shown[i] = field) - 1
  ELSE 0

\* Mutant of Step: the certificate is always in the order.
StepOverAll(field, scion, pinned, by) ==
  LET shown == Shown(scion, TRUE)
  IN  shown[((At(shown, field) + by + Len(shown)) % Len(shown)) + 1]

\* Focus::step, by 1 or by -1 and around.
Step(field, scion, pinned, by) ==
  LET shown == Shown(scion, pinned)
  IN  shown[((At(shown, field) + by + Len(shown)) % Len(shown)) + 1]

NextField(s) == Step(s.focus, Scion(s), Pinned(s), 1)

\* -1, counted around.
PreviousField(s) == Step(s.focus, Scion(s), Pinned(s), Len(Shown(Scion(s), Pinned(s))) - 1)

-----------------------------------------------------------------------------
(* Keys. *)

NoFlags == [none |-> TRUE]
NoCall == [none |-> TRUE]
NoClient == [none |-> TRUE]

Init ==
  /\ flags \in Form
  /\ screen = Opened(flags)
  /\ call = NoCall
  /\ client = NoClient
  /\ edits = 0

Out == call # NoCall

\* The screen is there until a client is connected, and keys reach it whether
\* or not a client is being built.
Typing ==
  /\ client = NoClient
  /\ Out => edits < MaxEdits
  /\ edits' = IF Out THEN edits + 1 ELSE edits
  /\ UNCHANGED <<call, client>>

\* Tab and Down, BackTab and Up.
Move ==
  /\ Typing
  /\ \E field \in {NextField(screen), PreviousField(screen)} :
       screen' = [screen EXCEPT !.focus = field]
  /\ UNCHANGED flags

\* Left, Right and Space on a transport.
ChooseTransport ==
  /\ Typing
  /\ screen.focus = "Transport"
  /\ screen' = [screen EXCEPT !.transport = IF @ = "Scion" THEN "Tcp" ELSE "Scion"]
  /\ flags' = NoFlags

\* Left, Right and Space on a credential.
ChooseCredential ==
  /\ Typing
  /\ screen.focus = "Credential"
  /\ screen' = [screen EXCEPT !.credential = IF @ = "ApiKey" THEN "Token" ELSE "ApiKey"]
  /\ flags' = NoFlags

NextTrust(trust) ==
  CASE trust = "System" -> "Pinned" [] trust = "Pinned" -> "Insecure" [] trust = "Insecure" -> "System"

\* Right and Space go to the next trust, Left to the one before: the next but
\* one.
ChooseTrust ==
  /\ Typing
  /\ screen.focus = "Trust"
  /\ \E trust \in {NextTrust(screen.trust), NextTrust(NextTrust(screen.trust))} :
       screen' = [screen EXCEPT !.trust = trust]
  /\ flags' = NoFlags

\* Any other key, for the field it goes to (focused_mut).
Type ==
  /\ Typing
  /\ \/ /\ screen.focus = "ServerUrl"
        /\ \E text \in Urls : screen' = [screen EXCEPT !.server_url = text]
     \/ /\ screen.focus = "EndhostApi"
        /\ \E text \in Apis : screen' = [screen EXCEPT !.endhost_api = text]
     \/ /\ screen.focus = "Target"
        /\ \E text \in Targets : screen' = [screen EXCEPT !.target = text]
     \/ /\ screen.focus = "CertPath"
        /\ \E text \in Paths : screen' = [screen EXCEPT !.cert_path = text]
     \/ /\ screen.focus = "Secret" /\ screen.credential = "ApiKey"
        /\ \E text \in Keys \cup {Blank} : screen' = [screen EXCEPT !.auth_api_key = text]
     \/ /\ screen.focus = "Secret" /\ screen.credential = "Token"
        /\ \E text \in Tokens \cup {Blank} : screen' = [screen EXCEPT !.snap_token = text]
  /\ screen' # screen
  /\ flags' = NoFlags

\* Enter, refused while a call is out.
Enter ==
  /\ client = NoClient /\ ~Out
  /\ screen' = [screen EXCEPT !.error = FALSE]
  /\ call' = [form |-> FormOf(screen), screen |-> screen']
  /\ edits' = 0
  /\ UNCHANGED <<flags, client>>

-----------------------------------------------------------------------------
(* Building the client. *)

\* The form is refused, and the screen says why.
Refuse ==
  /\ Out
  /\ Complaint(call.form) # "nothing"
  /\ screen' = [screen EXCEPT !.error = TRUE]
  /\ call' = NoCall
  /\ edits' = 0
  /\ UNCHANGED <<flags, client>>

\* The client is built and the server not reached.
Unreachable ==
  /\ Out
  /\ Complaint(call.form) = "nothing"
  /\ screen' = [screen EXCEPT !.error = TRUE]
  /\ call' = NoCall
  /\ edits' = 0
  /\ UNCHANGED <<flags, client>>

\* The client is built and the server is there: the sign-in screen follows.
Connected ==
  /\ Out
  /\ Complaint(call.form) = "nothing"
  /\ client' = [built |-> Built(call.form), screen |-> call.screen]
  /\ call' = NoCall
  /\ edits' = 0
  /\ UNCHANGED <<screen, flags>>

Keypress == Move \/ ChooseTransport \/ ChooseCredential \/ ChooseTrust \/ Type \/ Enter

Next == Keypress \/ Refuse \/ Unreachable \/ Connected

Spec == Init /\ [][Next]_vars

-----------------------------------------------------------------------------
(* Properties. *)

\* Every variable has its type.
TypeOK ==
  /\ screen \in Connection
  /\ flags \in Form \cup {NoFlags}
  /\ Out => call.form \in Form /\ call.screen \in Connection
  /\ edits \in 0..MaxEdits

\* The keys always go to a field that is on the tab order, whatever was chosen
\* since the focus came there, and going back undoes going on.
FocusIsShown ==
  LET shown == Shown(Scion(screen), Pinned(screen))
  IN  /\ screen.focus \in ToSet(shown)
      /\ NextField([screen EXCEPT !.focus = PreviousField(screen)]) = screen.focus

\* A client proves itself with the secret that was on the screen under the
\* credential that was chosen when Enter was pressed, and with nothing else
\* ("what was typed as one is never sent as the other").
SecretIsTheOneShown ==
  client # NoClient /\ client.built.transport = "Scion" =>
    LET s      == client.screen
        proved == client.built.credential
    IN  /\ proved.kind = "ApiKey" => proved.secret = s.auth_api_key /\ s.credential = "ApiKey"
        /\ proved.kind = "Token" => proved.secret = s.snap_token /\ s.credential = "Token"
        /\ proved.kind = "None" => IF s.credential = "ApiKey" THEN s.auth_api_key = Blank
                                                              ELSE s.snap_token = Blank

\* A client accepts the certificates the screen said it would, but for a
\* pinned certificate of which no path was given.
TrustIsTheOneShown ==
  client # NoClient /\ client.built.transport = "Scion" =>
    \/ client.built.trust = client.screen.trust
    \/ client.screen.trust = "Pinned" /\ Trim(client.screen.cert_path) = Blank
         /\ client.built.trust = "System"

\* A client is the one the screen showed when Enter was pressed, whatever was
\* typed or chosen before and while the call was out.
ConnectsAsShown == SecretIsTheOneShown /\ TrustIsTheOneShown

\* The field that settles a complaint.
Settles(complaint) ==
  CASE complaint \in {"server url", "scheme"} -> "ServerUrl"
    [] complaint = "insecure tcp"             -> "Trust"
    [] complaint = "endhost api"              -> "EndhostApi"
    [] complaint = "aa url"                   -> "Credential"
    [] complaint = "target"                   -> "Target"

\* What is refused can be put right on the screen it was refused from: its
\* field is on the tab order, but for a trust left insecure under TCP, which
\* is out of reach until the transport is changed back.
RefusedWithinReach ==
  Out => LET complaint == Complaint(call.form)
         IN  complaint \in {"nothing", "insecure tcp"}
               \/ Settles(complaint) \in ToSet(Shown(Scion(call.screen), Pinned(call.screen)))

\* Until a key changes a choice or a text, Enter asks for what the flags asked
\* for.  Of flags that name two secrets the token is meant, of flags that name
\* two trusts no check at all (CredentialChoice::of, TrustChoice::of), and the
\* other one is not asked for.
OpensOnItsFlags ==
  Out /\ flags # NoFlags =>
    LET meant == IF flags.snap_token = Blank THEN flags
                 ELSE [flags EXCEPT !.auth_api_key = Blank]
    IN  call.form = IF flags.insecure THEN [meant EXCEPT !.cert_path = Blank] ELSE meant

\* "Giving both flags is refused, because they name different trusts"
\* (README.md, of --cert-path and --insecure): over SCION no client is built
\* from a screen that stands as two such flags opened it.
TwoTrustsAreRefused ==
  client # NoClient /\ client.built.transport = "Scion" /\ flags # NoFlags =>
    ~(flags.insecure /\ flags.cert_path # Blank)
=============================================================================
