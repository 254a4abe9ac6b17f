---------------------------- MODULE ServerStartup ----------------------------
(***************************************************************************)
(* A start of the server, write by write, and what it leaves behind        *)
(* (chat-server: lib.rs, main.rs, store/sqlite.rs, auth.rs, cert.rs,       *)
(* scion.rs).                                                              *)
(*                                                                         *)
(* The process opens the database, deleting one of another schema version, *)
(* applies the schema, stamps it, seeds the lobby, loads or writes the     *)
(* signing secret, reaches the network and, over SCION, loads or writes    *)
(* its certificate.  It may stop between any two writes: killed, or on an  *)
(* I/O error, which takes the same way out.  The next start finds what was *)
(* written, and may be of another version of the program.                  *)
(*                                                                         *)
(* Random bytes are numbered as they are drawn.  A database that is not    *)
(* there reads like one that holds nothing; its -wal and -shm files belong *)
(* to it (closing the connection that read the stamp folds them in, and    *)
(* SQLite discards a -wal beside an empty file).                           *)
(***************************************************************************)
EXTENDS Naturals

CONSTANTS
  MaxVersion,       \* bound: schema versions there are
  MaxStops,         \* bound: how often a start or a server is cut off
  MaxLosses,        \* bound: how often a half of the certificate is lost
  UpgradeUnstamped  \* whether the program is replaced while its first start
                    \* has not come as far as the stamp

ASSUME StartupAssumption ==
  /\ MaxVersion \in Nat \ {0}
  /\ MaxStops \in Nat
  /\ MaxLosses \in Nat
  /\ UpgradeUnstamped \in BOOLEAN

VARIABLES
  db,         \* the database: its tables' versions, the stamp, what is in it
  files,      \* what the files beside it hold
  draws,      \* how many random values were drawn
  pc,         \* where the process is
  version,    \* SCHEMA_VERSION of the program that runs, or ran last
  transport,  \* Config.transport
  held,       \* the secret or pair generated and not yet written out
  secret,     \* the secret the running server signs with
  cancelled,  \* the token of cancel_on_signal
  owner,      \* history: the version that accepted an account nobody may lose
  issued,     \* history: the secrets tokens were signed with
  pinned,     \* history: the certificate clients were told to pin
  stops, losses

disk == <<db, files>>
process == <<pc, version, transport, held, secret, cancelled>>
history == <<owner, issued, pinned, stops, losses>>
startupVars == <<disk, draws, process, history>>

Versions == 1..MaxVersion

Transports == {"tcp", "scion"}

Tables == {"users", "rooms", "messages"}

Files == {"jwt.secret", "cert.pem", "cert.key"}

Halves == {"cert.pem", "cert.key"}

\* What a file holds: it is not there, it was created and not written, or the
\* random value of that number.
Absent == 0
Empty == 1
Random(n) == n + 2

Database == [tables : [Tables -> 0..MaxVersion], stamp : 0..MaxVersion,
             lobby : BOOLEAN, account : BOOLEAN]

NoDatabase == [tables |-> [t \in Tables |-> 0], stamp |-> 0,
               lobby |-> FALSE, account |-> FALSE]

Storing == {"opening", "removing", "users", "rooms", "messages", "stamping", "seeding"}

Securing == {"secret", "secret created"}

Certifying == {"cert", "cert created", "cert written", "key created", "loading"}

StartSteps == {"down", "network", "serving"} \cup Storing \cup Securing \cup Certifying

StartupInit ==
  /\ db = NoDatabase
  /\ files = [f \in Files |-> Absent]
  /\ draws = 0
  /\ pc = "down"
  /\ version = 1
  /\ transport = "tcp"
  /\ held = Absent
  /\ secret = Absent
  /\ cancelled = FALSE
  /\ owner = 0
  /\ issued = {}
  /\ pinned = Absent
  /\ stops = 0
  /\ losses = 0

Go(from, to) == pc = from /\ pc' = to

\* What every step of a start leaves alone.
SameProgram == UNCHANGED <<version, transport, cancelled, history>>

-----------------------------------------------------------------------------
(* The process and its end. *)

\* Tables of a version that never came to be stamped.
Unstamped == db.stamp = 0 /\ \E t \in Tables : db.tables[t] # 0

\* run: some version of the program over some transport.  Another version
\* than the owner of the data discards it.
Start(v, t) ==
  /\ pc = "down" /\ pc' = "opening"
  /\ UpgradeUnstamped \/ (Unstamped => v = version)
  /\ version' = v
  /\ transport' = t
  /\ held' = Absent
  /\ secret' = Absent
  /\ cancelled' = FALSE
  /\ owner' = IF v = owner THEN owner ELSE 0
  /\ UNCHANGED <<disk, draws, issued, pinned, stops, losses>>

\* The process ends and forgets what it had not written.
Down ==
  /\ pc' = "down"
  /\ held' = Absent
  /\ secret' = Absent
  /\ cancelled' = FALSE
  /\ UNCHANGED <<disk, draws, version, transport, owner, issued, pinned, losses>>

\* Killed, or a write failed.
Stop ==
  /\ pc # "down"
  /\ stops < MaxStops
  /\ stops' = stops + 1
  /\ Down

\* cancel_on_signal: nothing looks at the token before the server serves.
Signal ==
  /\ pc # "down" /\ ~cancelled
  /\ cancelled' = TRUE
  /\ UNCHANGED <<disk, draws, pc, version, transport, held, secret, history>>

\* serve_with_graceful_shutdown returns.
Shutdown ==
  /\ pc = "serving" /\ cancelled
  /\ Down
  /\ UNCHANGED stops

-----------------------------------------------------------------------------
(* SqliteStore::new. *)

\* Mutant of Foreign: a database that is stamped is deleted whatever the stamp.
ForeignAlways == db.stamp # 0

\* Mutant of Foreign: only a database of an older version is deleted.
ForeignOlder == db.stamp # 0 /\ db.stamp < version

\* stamped_version(path).is_some_and(|v| v != SCHEMA_VERSION)
Foreign == db.stamp # 0 /\ db.stamp # version

ReadStamp ==
  /\ pc = "opening"
  /\ pc' = IF Foreign THEN "removing" ELSE "users"
  /\ SameProgram /\ UNCHANGED <<disk, draws, held, secret>>

\* remove_database
RemoveDatabase ==
  /\ Go("removing", "users")
  /\ db' = NoDatabase
  /\ SameProgram /\ UNCHANGED <<files, draws, held, secret>>

\* CREATE TABLE IF NOT EXISTS, a statement of schema.sql.
CreateTable(table, next) ==
  /\ Go(table, next)
  /\ db' = IF db.tables[table] = 0 THEN [db EXCEPT !.tables[table] = version] ELSE db
  /\ SameProgram /\ UNCHANGED <<files, draws, held, secret>>

\* PRAGMA user_version
Stamp ==
  /\ Go("stamping", "seeding")
  /\ db' = [db EXCEPT !.stamp = version]
  /\ SameProgram /\ UNCHANGED <<files, draws, held, secret>>

\* create_room(LOBBY, u32::MAX)
Seed ==
  /\ Go("seeding", "secret")
  /\ db' = [db EXCEPT !.lobby = TRUE]
  /\ SameProgram /\ UNCHANGED <<files, draws, held, secret>>

Store ==
  \/ ReadStamp
  \/ RemoveDatabase
  \/ CreateTable("users", "rooms")
  \/ CreateTable("rooms", "messages")
  \/ CreateTable("messages", "stamping")
  \/ Stamp
  \/ Seed

-----------------------------------------------------------------------------
(* load_or_create_secret. *)

\* Whatever the file holds is the secret.
ReadSecret ==
  /\ Go("secret", "network")
  /\ files["jwt.secret"] # Absent
  /\ secret' = files["jwt.secret"]
  /\ SameProgram /\ UNCHANGED <<disk, draws, held>>

\* Mutant of CreateSecret: the file is written whether it was found or not.
CreateSecretAlways ==
  /\ Go("secret", "secret created")
  /\ files' = [files EXCEPT !["jwt.secret"] = Empty]
  /\ draws' = draws + 1
  /\ held' = Random(draws)
  /\ SameProgram /\ UNCHANGED <<db, secret>>

\* Not found: bytes are drawn and the file is created (create_new) ...
CreateSecret ==
  /\ Go("secret", "secret created")
  /\ files["jwt.secret"] = Absent
  /\ files' = [files EXCEPT !["jwt.secret"] = Empty]
  /\ draws' = draws + 1
  /\ held' = Random(draws)
  /\ SameProgram /\ UNCHANGED <<db, secret>>

\* ... and written.
WriteSecret ==
  /\ Go("secret created", "network")
  /\ files' = [files EXCEPT !["jwt.secret"] = held]
  /\ secret' = held
  /\ held' = Absent
  /\ SameProgram /\ UNCHANGED <<db, draws>>

Secure == ReadSecret \/ CreateSecret \/ WriteSecret

-----------------------------------------------------------------------------
(* serve_tcp and scion::serve. *)

\* Mutant of Bind: the server waits for a signal of its own.
BindForgetsSignal ==
  /\ pc = "network"
  /\ pc' = IF transport = "tcp" THEN "serving" ELSE "cert"
  /\ cancelled' = FALSE
  /\ UNCHANGED <<disk, draws, version, transport, held, secret, history>>

\* The listener is bound, or the stack built and the socket bound.
Bind ==
  /\ pc = "network"
  /\ pc' = IF transport = "tcp" THEN "serving" ELSE "cert"
  /\ SameProgram /\ UNCHANGED <<disk, draws, held, secret>>

\* A flag that is missing, a key the AA refuses, an address in use.
Refused == pc = "network" /\ Down /\ UNCHANGED stops

\* Mutant of HalfMissing: only the certificate is looked for.
CertMissing == files["cert.pem"] = Absent

\* Mutant of HalfMissing: a pair is generated at every start.
HalfMissingAlways == TRUE

HalfMissing == \E f \in Halves : files[f] = Absent

\* ServerCert::load_or_create: both are there, whatever they hold.
KeepPair ==
  /\ Go("cert", "loading")
  /\ ~HalfMissing
  /\ SameProgram /\ UNCHANGED <<disk, draws, held, secret>>

\* generate: a pair is drawn; the certificate is created or truncated ...
CreateCert ==
  /\ Go("cert", "cert created")
  /\ HalfMissing
  /\ files' = [files EXCEPT !["cert.pem"] = Empty]
  /\ draws' = draws + 1
  /\ held' = Random(draws)
  /\ SameProgram /\ UNCHANGED <<db, secret>>

\* ... and written, then the key.
WriteCert ==
  /\ Go("cert created", "cert written")
  /\ files' = [files EXCEPT !["cert.pem"] = held]
  /\ SameProgram /\ UNCHANGED <<db, draws, held, secret>>

CreateKey ==
  /\ Go("cert written", "key created")
  /\ files' = [files EXCEPT !["cert.key"] = Empty]
  /\ SameProgram /\ UNCHANGED <<db, draws, held, secret>>

WriteKey ==
  /\ Go("key created", "loading")
  /\ files' = [files EXCEPT !["cert.key"] = held]
  /\ held' = Absent
  /\ SameProgram /\ UNCHANGED <<db, draws, secret>>

\* Both halves hold what was written, and are of one pair.
PairServes == files["cert.pem"] # Empty /\ files["cert.key"] = files["cert.pem"]

\* fingerprint: the certificate parses and is announced; then quic_config
\* loads both halves.
Load ==
  /\ Go("loading", "serving")
  /\ PairServes
  /\ pinned' = files["cert.pem"]
  /\ UNCHANGED <<disk, draws, version, transport, held, secret, cancelled,
                 owner, issued, stops, losses>>

\* One of them cannot be used: the start fails, after the announcement if it
\* was the key.
LoadFails ==
  /\ pc = "loading"
  /\ ~PairServes
  /\ pc' = "down"
  /\ held' = Absent
  /\ secret' = Absent
  /\ cancelled' = FALSE
  /\ pinned' = IF files["cert.pem"] = Empty THEN pinned ELSE files["cert.pem"]
  /\ UNCHANGED <<disk, draws, version, transport, owner, issued, stops, losses>>

Certify == KeepPair \/ CreateCert \/ WriteCert \/ CreateKey \/ WriteKey \/ Load \/ LoadFails

-----------------------------------------------------------------------------
(* A server that runs, and what happens to its files. *)

\* Somebody registers: the account is in the database once it is answered.
RegisterAccount ==
  /\ pc = "serving"
  /\ db' = [db EXCEPT !.account = TRUE]
  /\ owner' = version
  /\ UNCHANGED <<files, draws, process, issued, pinned, stops, losses>>

\* Somebody logs in.
IssueToken ==
  /\ pc = "serving"
  /\ issued' = issued \cup {secret}
  /\ UNCHANGED <<disk, draws, process, owner, pinned, stops, losses>>

\* Half of the certificate is lost while no server runs; what was pinned is
\* gone with it.
Lose(f) ==
  /\ pc = "down"
  /\ files[f] # Absent
  /\ losses < MaxLosses
  /\ losses' = losses + 1
  /\ files' = [files EXCEPT ![f] = Absent]
  /\ pinned' = Absent
  /\ UNCHANGED <<db, draws, process, owner, issued, stops>>

StartupNext ==
  \/ \E v \in Versions, t \in Transports : Start(v, t)
  \/ Stop \/ Signal \/ Shutdown
  \/ Store
  \/ Secure
  \/ Bind \/ Refused
  \/ Certify
  \/ RegisterAccount \/ IssueToken
  \/ \E f \in Halves : Lose(f)

\* A start goes on; somebody starts the server again, and of networks tried
\* for ever some are reached.  A server that was asked to stop drains.
Fairness ==
  /\ WF_startupVars(\E v \in Versions, t \in Transports : Start(v, t))
  /\ WF_startupVars(Store)
  /\ WF_startupVars(Secure)
  /\ SF_startupVars(Bind)
  /\ WF_startupVars(Bind \/ Refused)
  /\ WF_startupVars(Certify)
  /\ WF_startupVars(Shutdown)

StartupSpec == StartupInit /\ [][StartupNext]_startupVars /\ Fairness

-----------------------------------------------------------------------------
(* Properties. *)

\* Every variable has its type.
StartupTypeOK ==
  /\ db \in Database
  /\ files \in [Files -> Nat]
  /\ draws \in Nat
  /\ pc \in StartSteps
  /\ version \in Versions
  /\ transport \in Transports
  /\ held \in Nat
  /\ secret \in Nat
  /\ cancelled \in BOOLEAN
  /\ owner \in 0..MaxVersion
  /\ issued \subseteq Nat
  /\ pinned \in Nat
  /\ stops \in 0..MaxStops
  /\ losses \in 0..MaxLosses

\* A server runs over tables of its own schema only, with its stamp and the
\* lobby, whatever an earlier start left unfinished ("an old database survives
\* under new code" otherwise, schema.sql).
ServesWhole ==
  pc = "serving" => /\ \A t \in Tables : db.tables[t] = version
                    /\ db.stamp = version
                    /\ db.lobby

\* An account that was accepted is there after any number of stops and starts,
\* until a program of another schema version is started.
AcknowledgedIsKept == owner # 0 => db.account

\* A token that was issued stays good across restarts: no start signs with
\* another secret than the one that tokens were issued with.
TokensStand ==
  /\ \A k \in issued : files["jwt.secret"] = k
  /\ pc = "serving" => secret = files["jwt.secret"]

\* What clients were told to pin is what the server presents, unless a half of
\* it was lost ("a second start must not invalidate what clients pinned").
PinnedStands == pinned # Absent => files["cert.pem"] = pinned

\* load_or_create_secret and load_or_create take a file that is there for one
\* that is whole: a pair a stop left half written stays as it is.
PairBroken == (\A f \in Halves : files[f] # Absent) /\ ~PairServes

\* Whatever the stops left behind, a server that is started again and again
\* serves again, but for a pair of which both halves are there and one cannot
\* be used: the window of a stop inside generate.
ServesAgain == []<>(pc = "serving" \/ PairBroken)

\* A server that was asked to stop does, at whatever point of its start the
\* signal came.
StopsWhenAsked == cancelled ~> pc = "down"

=============================================================================
