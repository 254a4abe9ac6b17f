# A TLA+ verification of the SCION SDK chat

This directory models the chat of this repository in TLA+: the client core that
watches rooms, the session every client keeps, a call from the client to the
database and back, the server's accounts, rooms and messages, its start, and the
applications on top of them, on terminals and on phones. TLC checks the models on
small instances; TLAPS proves what matters most for every value of the constants.

    tlc -workers 2 -config MessagesFeed.cfg MessagesFeed      # one run
    tlapm MessagesFeedProofs.tla                              # one module's proofs

`PROJECT.json` lists the runs with their modules and configurations, a mutant of
the code for every property of every passing run, the source lines each
definition stands for, the hazards, the findings and the theorems.

## 1. The system

| Part | State it keeps | Operations | Talks to |
|---|---|---|---|
| Feed of a room: `chat-client-core/src/feed.rs`, `MessagesFeed` | `cursor`, `holding`, `catching_up`, `due` | `watch_room_messages`, `next`, dropping the future of `next` | the client, by `messages_newest` and `messages_after` |
| Feed of the room list: `feed.rs`, `RoomsFeed` | `due` | `watch_rooms`, `next` | the client, by `rooms` |
| Session: `chat-client-core/src/client.rs` | one token behind a lock, shared by every clone of the client | `login`, `logout`, and every authenticated call through `execute` | the server, over a transport |
| Kotlin and Swift clients: `android/chat-client`, `ios/ChatClient` | the same | the same | the same |
| Server API: `chat-server/src/api/*`, `auth.rs` | the signing secret | register, login, rooms, create, list, post | the store |
| Store: `chat-server/src/store/sqlite/*` | tables `users`, `rooms`, `messages`; the schema version | `insert_user`, `password_hash`, `create_room`, `list_rooms`, `post_message`, `newest`, `after`, `before`, opening a database | SQLite |
| Server start: `lib.rs`, `auth.rs`, `cert.rs`, `sqlite.rs` | files: database, secret, certificate and key | load or create each | the file system |
| Terminal application: `chat-ui-ratatui/src/app.rs` and `screens/*` | the screen, two streams, `reopen`, one pending call | keys, answers, batches, lists, signing out | the client and its feeds |
| Connection form: `screens/connection.rs`, the connecting part of `app.rs`, `config.rs` | choices, texts, the focus; the call that builds a client | keys, Enter, the outcome of connecting | the client's configuration and its transport |
| Transports: `transport/tcp.rs`, `transport/scion.rs` | none between calls | one request and its reply, within a timeout | the server |
| Android and iOS view models: `ChatViewModel.kt`, `ChatViewModel.swift` | the open room, its pane, the two feeds, a pending call | as the terminal application, with lifecycle events | the mobile clients |
| Error tables: `error.rs` on both sides, `api.rs` | none | status and code to error, and back | |
| Drawing, development tooling | none; a topology | | |

Everything the user sees goes one way: posted messages get a server-wide `seq`;
a feed pages through those of one room from a cursor; the application appends
what the feed brings to the pane of the room that is open. Every arrow is a
request that may be served and answered, served and not answered, or not served.

### What is hard, and what makes each part correct

* **Feed of a room.** `next` is raced by a `select!` and dropped at any `await`,
  fetches fail, and the server clamps the page that was asked for. Correct: every
  message once, in order, none skipped; a dropped wait does not start afresh; no
  fetching without end; a wait only when there was nothing more to fetch.
* **Session.** Several tasks share one token; a refusal of an old one may arrive
  after a new login. Correct: a token that was refused is never good again, a good
  session is not lost to a late refusal, a dead one is noticed.
* **Accounts.** Registering is an insert and, if that wrote nothing, a second
  statement that asks why; logging in reads a hash, verifies it on another thread
  and issues a token. Correct: one account per name however it is spelled and
  however many register at once, answers that are true, tokens only for the
  password the account was created with.
* **Rooms and messages.** Creating a room is an insert and a read; posts and pages
  run at once; a database of another schema version is deleted. Correct: one room
  per name, answers that are true, pages no later message can land in.
* **Terminal application.** Keys, answers, batches and lists come in any order; an
  answer meets whatever screen is there by then. Correct: pane, stream, open call
  and unread marks are about the selected room; a room that failed to open is
  asked for again; sends keep their order; nothing of an old session reaches a new
  one.
* **A call.** A token is read, the request is given up, cut or carried out later, a statement fails
  half-way, a refusal answers a token the client has since replaced. Correct: a caller told *done* or *refused*
  was told the truth for good; of anything else it was told that nobody knows.
* **Server start.** A stop between two of the writes of a start. Correct: the next start finds nothing it takes
  for something else; accounts, tokens and the pinned certificate outlive it; a signal is not lost.
* **Connection form.** A choice hides fields that hold texts. Correct: what the screen showed at Enter is what the
  client is built from, and what is refused can be put right on that screen.
* **Mobile view models.** Retries, cancellation that does not cancel, polling that stops and starts.
  Correct: as the terminal application, and a session is not ended by what an older one left running.

## 2. Modules

Constants that only bound a run are marked `bound:` where they are declared.
Definitions keep the source's names. A definition that begins "Mutant of" is a bug
the code does not have; nothing else uses it.

### MessageLog
The messages of a room as the server pages them: an increasing sequence of seqs
with gaps, and the three queries `After`, `Newest`, `Before`. A message is its seq.

### OrderedDelivery, MessagesFeed
`OrderedDelivery` is what watching a room promises: from some position on, the
caller is handed the room's messages in order, each once, none skipped.
`MessagesFeed` is `feed.rs`. `pc` says where the caller's future stands: *closed*,
*opening* (the first fetch is out), *idle*, *waiting* (in `sleep_until`),
*fetching*. The feed's four fields are four variables; `due` is the time left to the
deadline, so that the clock is a countdown (`Tick`) and needs no bound. A fetch is two
steps, `Answer` on the server and `Batch`, `NothingNew` or `FetchFailed` at the client,
so posts, drops and losses fall between them. `DropNext` drops the future at either
`await` and keeps what the feed keeps. `seen` remembers how much the server had when
it last answered, for `ShortPageIsTheEnd`.

### ClientSession
The shared token of `client.rs`, any number of calls at once, and the server's side of
a token: its expiry and the secret it was signed with. Its definitions are called `SessionInit`, `SessionNext` and so on, as those of
`ServerStartup` begin with `Startup`, so that one module can hold the proofs of two. A call is
*login/granted/denied* or *asking/answered/refused*, and may be lost at any of them.
`ForgetsIfCurrent` is `forget_if_current` of the Rust client; the theorem that needs it assumes it, and
`PhoneApp` has the clients that discard whatever they hold.

### RemoteCall, Requests, MCRequests
`RemoteCall` is what a caller may conclude from an answer: a call is carried out at most once, `done` and `refused`
are true and stay so, `unknown` promises nothing. `Requests` is the code of one call, any number of them at once:
`execute` of `client.rs` (`Make`, `Read`), the transports' failures and timeout (`Dial`, `Unreachable`, `Cut`,
`GiveUp`; the kinds of failure of `tcp.rs` and of `scion.rs` are told apart), the extractors of the server
(`Receive`: body size and shape, token, path and query, in axum's order), each handler's work at the store, and the way back
(`Verdict`, `SessionAfter`). `Drop` is a connection that goes while the handler runs: the handler may still have done its work.
What two handlers do between each other's statements is left to `Accounts` and `RoomStore`; here a handler's work is one step,
but for creating a room, which may fail between its insert and its read. `MCRequests` chooses what is asked for.

### NameDirectory, Accounts, MCAccounts
`NameDirectory` is the promise for names, of accounts and of rooms: a request to add one
is carried out in a single step between arrival and answer. `Accounts` is the code:
a handler walks *insert*, *check*, *told* to register and *lookup*, *verify*, *issue* to log
in, and can be cut off at each; `Fold` is `COLLATE NOCASE`. `MCAccounts` gives it two
spellings of one name and two other names, so that two accounts fill the server.

### RoomStore, MCRoomStore
Rooms and messages in the database, the seqs of each room's messages in order; handlers that
create, list, post and page in the steps the code takes them; `known` is the newest seq anyone was told. `Restart` and
`Rebuild` open the store again over the same or over another schema version.

### ServerStartup
A start of the server write by write. `db` has the version each table was created by, the stamp, the lobby and one
account; `files` holds the secret, the certificate and the key, each absent, created and empty, or a numbered random value. `pc` walks
*opening, removing, users, rooms, messages, stamping, seeding, secret, secret created, network, cert, cert created, cert
written, key created, loading, serving*. `Stop` may come at each of them, which is a kill as much as an I/O error, and the next
`Start` may be of another version of the program and another transport. `Signal` is `cancel_on_signal`. `owner`, `issued` and
`pinned` are history: what somebody was told to rely on.

### ConnectionForm
The screen, from any flags (`ScreenOf`), through every key, to a form (`FormOf`), what refuses it (`Complaint`) and the
client it makes (`Built`), while the client is being tried and keys are still pressed. `flags` remembers what the screen was
opened with until a key changes what it asks for. Texts are members of small sets: a URL is
its scheme or unreadable, an address readable or not, a path given, blank or spaces.

### PhoneApp
Both phone apps in one module, with `system` saying which. A request out is a task in one of four slots: the reader's own call, the two
feeds, and on iOS one read that was cancelled and goes on. A request is served in one step and its reply lands in a later one, for the
reader's own calls too, and is applied to whatever there is by then: a room created before a sign-out is opened on iOS behind the sign-in
screen, with a feed that has no token (`Created`). Only a login and the list after it share a step, since nobody else has the token yet.
`shown` is history: the newest seq of each room that was in the pane of the chat screen, or that was there at the sign-in. It is kept
from the pane (`PaneIsShown`), not from the app's `seen`, so a mark that is moved when nothing was shown is told apart.
`Read` resumes from the newest seq the pane holds on iOS and `Again` from the flow's own cursor on Android; `Fail` starts the
Android flow over. `Leave` and `Return` are the app's lifecycle, `Restart` the end of the process.

### TerminalApp
`app.rs` with the chat and sign-in screens. `out` is `Background`: the calls that will be
answered, each with what the server has made of it. `messages` and `sidebar` are the two
streams, `reopen` and `pending` the fields of those names, `chat` the chat screen.
The open room's stream is the one `MessagesFeed` shows it to be, so only what it has
read and not yet handed over is state here. The server is the `log` of each room and `handedOut`,
the last seq given of all. `seen` and `acked` are history variables: what
the user was shown, and the latest seq a send was answered with. One action per key that
changes more than the view, per answer (and its failure), per event of a stream, and
`signed_out`. `Serve` is the server's side of a call, `OthersPost` and `OthersCreate` are
the other users, and also a request of ours that was given up and is carried out later.

### Proof modules
`MessageLogProofs`, `MessagesFeedProofs`, `ClientProofs` (`ClientSession` and `ConnectionForm`), `RequestsProofs`,
`ServerProofs` (`Accounts` and `ServerStartup`), `RoomStoreProofs`, `TerminalAppProofs`, `PhoneAppProofs`: section 4.

## 3. Runs

| Run | Configuration | Shows |
|---|---|---|
| `feed` | pages of 2, server limit 3, interval 2, 5 messages | the cursor is exact, a wait means nothing was left, a feed starts right behind what it was asked to resume after; implements `OrderedDelivery`; everything is delivered in the end |
| `session` | two users, two calls, a token lives 1 of 2 seconds, the secret is lost once | only dead tokens are refused, a good session is kept, a dead one noticed |
| `accounts` | two handlers, two spellings of one name and two other names, two passwords, room for two accounts | one account per name, true answers, earned tokens, registration is atomic |
| `rooms` | two handlers, the lobby, two spellings of a second name and a third name, cap 2, 3 messages, pages of 3 asked for and cut to 2, one rebuild | types, one room per name, true answers, atomic creation, across the rebuild; until it, pages stand and seqs never regress |
| `requests` | two calls, both transports, nine kinds of call, two tokens | what a caller is told is true and stays so (implements `RemoteCall`); an expired session is one |
| `startup` | two versions, two stops, one lost half of the certificate | what is served is whole; accounts, tokens and pins stand; signals are heeded; some start serves again |
| `form` | one key, one token, one key pressed while connecting, every form the flags can fill in | focus on what is shown, client as shown, refusals within reach, opens on its flags |
| `form_flags` | the same | **violated**: both trust flags together build a client that checks nothing |
| `terminal` | 2 rooms, 3 messages, pages of 2, no rebuild | pane, stream, call and marks are the selected room's; unread marks are true; sends keep their order |
| `terminal_reopens` | 2 rooms, 1 message, one rebuild, with fairness | never left unwatched, watched again in the end |
| `phone` | both systems, 2 rooms, 2 messages, pages of 1, 2 logins | the pane is of the open room, no room with news falls silent, Android gives up no good session |
| `phone_ios` | the same, iOS only | **violated**: the refusal of a cancelled read ends the session logged in since |

### The bounds, and why they are enough
* Five messages with pages of two: an opening page, a full page, a short one and a post
  behind each, with gaps for other rooms' messages. A server limit above the page limit
  is the default.
* Two tasks in `session`: every overlap the code distinguishes is of a refusal with a
  login or with another refusal. Two seconds let a token expire while another is issued.
* Two handlers in `accounts` and `rooms`: a statement of the one between two statements of the
  other; three requests at the cap of two need no third handler, since they may follow one
  another. In `rooms` a third name finds the cap of two reached, every page is asked for with more than the server gives, and one rebuild is
  what an answer, a page and a seq can be overtaken by. What a rebuild makes false (`PagesStand`, `SeqNeverRegresses`)
  is stated until the first one; `CreatesAtomically` has a rebuild start the directory over. A cap of zero is left to the theorem. The run is the largest but one, with 1.2 million states.
* `requests`: two calls are a refusal and a login, a registration and its double, a call and the one that drops behind it; two
  tokens are the one refused and the one that replaced it. There is one ask per way of being refused; the proofs have no such bounds.
* `startup`: two versions are the database's own and another; a second stop is needed to stop the start that repairs what the
  first left. `UpgradeUnstamped = FALSE` is a hypothesis, see section 4.
* `form`: every form the flags can fill in and every key from there, so only the keys pressed while a call is out are bounded; one
  key and one token suffice to mix them up.
* `feed` has its page limit within the server's, as the clients have: a limit above is the first item of *Feeds* below.
* `phone`: a page of one and two messages make one that a page does not hold; two logins are the old session and the new one.
  With 1.75 million states it is the largest run.
* In `terminal`, two rooms are what switching needs; three messages make one batch in hand
  behind one shown. Rebuilds are excluded, because the first property is violated with one.

### Fairness
* `MessagesFeed`: the caller calls `next` again and the clock runs (weak). A wait is ended
  (`Wake`), a fetch served and settled with strong fairness only: the `select!` of `app.rs`
  may drop the future again and again, and `feed.rs` is written so that what is dropped goes
  on where it stopped. Nothing is assumed of `FetchFailed`, `DropNext` or of opening a feed.
* `ClientSession`: one of the tasks calls on, as a feed does; requests end, as
  `REQUEST_TIMEOUT` makes them over TCP (`transport/tcp.rs:26`); over SCION the source sets no timeout of its own
  and that is an assumption on the SDK's client; of requests made
  for ever some are served and some replies arrive.
* `ServerStartup`: somebody starts the server again; the steps of a start go on; of networks tried again and again some are reached
  (strong, for `Bind`); a server that was asked to stop drains. Nothing is assumed of users, signals and losses, and stops are bounded.
* `TerminalApp`: calls of the chat end (weak, on the same grounds); of openings tried for ever
  some are served and answered (strong); of the lists read and applied again and again some
  are while no call is out (strong): the user does not keep a call out at every single list.
  No key is fair: nobody has to do anything.

`Requests` has no fairness: that a call ends at all is the timeout just named, and stating it would only repeat the assumption.

### Findings
Disagreements between the code and what its tests and documents say, each the counterexample of a run:

* `phone_ios`: "The late 401 is about a token nobody holds any more, so it must leave the new session alone", says a test of the
  Rust client, and the three clients are "structurally identical". On iOS stopping the feeds cancels their tasks, but a request that is
  out goes on, its refusal reaches the Swift client, and the client forgets whatever token it holds, the one logged in since
  included. If that happens between the login and the first list, the chat opens without a session. That a request goes on after its
  task was cancelled is possible, not certain: Swift's `ScionTransport.send` only awaits `client.execute`, and what that does when it is
  cancelled is the SDK's. On Android the model relies on the opposite, that a cancelled coroutine does not go on after its call (`Left`).
* `form_flags`: "Giving both flags is refused, because they name different trusts", says `src/README.md:256` of `--cert-path` and
  `--insecure`, and the tests at `app.rs:731` and `app.rs:766` that guessing is worse than saying so, of trusts and of credentials. The
  screen settles both before a form is made (`TrustChoice::of`, `CredentialChoice::of`): no check is preferred to a certificate and a token to
  a key, silently, and the two refusals cannot be reached from the program. `OpensOnItsFlags` says exactly what is asked for instead.

Met while modelling, described here and given no run of their own:

* *Feeds.* With a `page_limit` above the server's 200 every full page looks like the last, and the feed waits an interval per page
  (`ShortPageIsTheEnd` is proved for page limits within the server's only). A page of zero would fetch without end; `page_size` raises
  it to one. A page of messages that together exceed `MAX_BODY_BYTES` cannot be read, and the feed asks for the same page again.
* *Accounts.* A token is issued for the name as typed at login, not as registered, and messages carry it; `chat-core/src/api/v1/auth.rs:28` calls the registered
  name "the name messages are attributed to".
* *Numbering.* seqs never regress (`chat-core/src/api/v1.rs:66`), until a schema version changes and the database starts at 1 again. A client's
  cursor then stands behind messages that do not exist yet, and its feed is silent until the numbering has passed it.
* *Terminal.* If the open room is gone from the list after a rebuild, the sidebar selects another while the stream stays with the
  one that is gone. A send whose answer was lost is put back into the input although it may have been stored, and replaces what was typed
  since. A warning "held until they ask for something else" goes when the next list reopens the room.
* *Calls.* A limit that is no `u32` is answered outside the error envelope (`chat-core/src/api/v1/error.rs:19` says every error is in it). A body above
  axum's 2 MB default but within `max_message_bytes` is refused with 400 and not 413. A connection that drops before the head of the reply
  is a protocol error over TCP and a reset stream over SCION, although `chat-client-core/src/error.rs:48` has both report alike; `CallsAreSettled` needs of
  them only that neither promises anything.
* *Server start.* A database whose first start stopped between its first table and its stamp reads as unstamped, which any version takes for
  its own; a version with another schema would serve over tables of the first. A secret file created and not written is an empty secret from
  then on. A start discards another version's database before it comes to the flags, addresses and certificates it may be refused for.
  A pair of which one half was created and not written is found, kept, and refused at every start until somebody removes it.
* *Form.* A trust left insecure when the transport changes to TCP is refused with its field off the screen. A pinned certificate with a blank
  path means the system's roots.
* *Phones.* A retry on Android starts the flow over with the newest page, and what a longer outage left unread beyond it is not fetched; on iOS a cancelled
  read that lands later leaves a similar gap. No document promises otherwise. A text refused because the session ended is not handed back.
  `retryWhen` throws a refusal on, out of a coroutine with no handler.

## 4. Proofs

All constants are arbitrary within the named assumptions (`FeedAssumption` and so on); bounds are
natural numbers, so a theorem holds for every size of log and every number of calls, handlers
and rooms.

* **MessageLogProofs.** Lemmas about the three queries of `MessageLog`: what a page is (a window of the log behind the cursor),
  that `Position` splits the log, that appending a larger seq disturbs neither, that windows that meet make one. The feed,
  the store, the terminal and the phones rest on them.
* **MessagesFeedProofs.** `TypeCorrect`, `CursorIsExact`, `ResumesExactly`, `FeedDeliversInOrder`,
  `ShortPage`. `CursorCovers` is not inductive: that the cursor is exact after a batch depends on what
  the reply on its way was read from. `Inv` adds what is known of a reply (`OpeningInv`,
  `FetchInv`), of what is in hand (`WindowInv`) and of the log (`LogInv`). The refinement follows from
  the same invariant: a `Batch` or `TakeHolding` is a `Deliver`, `Opened` is the `Start`.
  `ShortPage` needs `PageLimit <= MaxLimit`, without which a full page of the server looks short.
* **ClientProofs, the session.** `SessionTypeCorrect`, `RefusalsAreFinal`, `GoodSessionOutlivesRefusals`. The invariant
  adds that no token is signed with a secret of the future; with it, a refused token stays refused
  (`RefusedForever`), and a discarded token that equals the session's cannot be a good one. The
  last theorem assumes `ForgetsIfCurrent`.
* **ClientProofs, the form.** `TypeCorrect`, `ConnectsAsOnScreen`, `FocusAlwaysShown`, `RefusalsAreInReach`,
  `OpensAsAsked`. The invariant is `FormsAreOfScreens`: the form that is out, and the client that was built, are those of the screen
  at Enter, and remain so while keys are pressed. The rest are lemmas about `FormOf` and `Complaint`, by the cases of the three
  choices, and about the order of the fields: the rows that are shown are a cycle, so Tab never leaves it and Shift-Tab undoes it.
  `OpensAsAsked` rests on `AsksForFlags`: until a key changes it, the screen asks for what it was
  opened with, of two that contradict each other the one that `CredentialOf` and `TrustOf` prefer.
* **ServerProofs, accounts.** `TypeCorrect`, `NoDoublesNoOverrun`, `AnswersAreTrue`, `TokensAreEarned`,
  `RegistrationIsAtomic`. `StillSo` is the strengthening: what a handler learnt in one statement still
  holds at the next, because accounts are only ever added. The refinement maps `users` to the names
  held and a handler to its request; `Insert` is `Add`, `Check` is `FindTaken` or `RefuseFull`.
* **ServerProofs, the start.** `StartupTypeCorrect`, `ServesItsOwnSchema`, `AccountsAreKept`, `TokensOutliveRestarts`, `PinStands`, each with an
  invariant of its own that says what every point of a start has behind it. `SchemaInv`: the tables created so far are of the
  version that runs, and a stamp means all of them are. `OwnerInv`: a start of the owner's version never comes to `removing`. `SecretInv`:
  while the secret's file is created and not written, no token was issued. `PinInv`: while something is pinned, neither half is missing, so `generate` is not reached.
  `ServesItsOwnSchema` assumes `~UpgradeUnstamped`: the program is not replaced before one start of it has come as far as the stamp; the
  counterexample without it is the first item of *Server start* above.
* **RoomStoreProofs.** Whatever is restarted or rebuilt: `TypeCorrect`, `NoDoublesNoOverrun`, `AnswersStayTrue`, `CreationIsAtomic`. While the database is kept:
  `NothingLandsInside`, `SeqsOnlyGrow`. As with the accounts, `StillSo` says what a creation's insert found out is so at the
  read behind it; `Grows` is why: every step but a rebuild leaves the table or adds a room it did not have, below the cap. `Truth` says the same of
  every answer until it is heard: a name that was taken is, a cap that was reached is, a seq that was told is in its room's log. A rebuild drops every handler, so no handler's
  knowledge outlives the table it is of. `Standing` is why pages stand: every log is increasing and below the next seq, so what is posted
  lands behind every page that was read, and between it and its cursor only if the page was short, where the page already ended. Pages and
  seqs outlive their handler, which is why these are stated until the first rebuild, which starts the numbering again. The refinement maps the rooms to
  the names held; an insert that found nothing to write is a stutter, and the read behind it is `FindTaken` or `RefuseFull`.
* **TerminalAppProofs.** `TypeCorrect`, also across rebuilds of the database: `Typed` bounds, besides the variables, what a call
  that was served is answered with and what the sidebar has read, and rests on the logs holding only seqs that were
  handed out. `NeverLeftUnwatched`, by an invariant of the shape of the screen and of the one call out;
  and `StreamFollowsSelection` for a server that keeps its database. Its invariant `ListsGrow` is the
  reason: the list on screen is no longer than the list on its way, which is no longer than the server's, so
  the selected room is on each and no list moves the selection. On it stand, for the same servers, `UnreadMarksAreTrue`, whose invariant
  `ReadIsSeen` says the screen's own record of what was read is what the user was shown; `SendsStayInOrder`, whose invariant `OrderInv`
  keeps every answer to a send on its way newer than the last one that was read; and `PaneShowsTheRoom`. Its invariant `PaneInv` says the logs are
  increasing (`LogsOK`), that while a room is watched the pane and what the stream has in hand are one window of its log, with the cursor at
  the end of the page it was opened with or of what was shown (`PaneFrom`, `InFirstPage`), that without a stream the pane is empty, and that a
  call to open a room brings a window of its log (`OpensOn`).
* **PhoneAppProofs.** `TypeCorrect`, `PaneShowsOpenRoom`, `UnreadMarksTrue` for both systems, and `GoodSessionIsKept` for Android. `Inv` is about
  what runs: a page that is back is of the room it was asked for and a list is of seqs there are (`Good`), so a page that lands is drawn
  only if it is the open room's; and that on the chat screen the app's own marks are what was shown (`SeenIsShown`), on which
  `UnreadMarksTrue` stands. `Session` is the reason for the last theorem: on Android stopped feeds are gone, no feed runs on the sign-in screen,
  the reader's one call keeps a second login waiting, and therefore whatever is out carries the token that is held, or none is held
  (`CarriesTheToken`). On iOS a cancelled read breaks it, and `phone_ios` is the counterexample.
* **RequestsProofs.** `TypeCorrect`, `ExpiredIsForgotten`, `UnreadableForOneCause`, and `CallsSettle`, the refinement of `RemoteCall`. The
  invariant gives each place of a call what it has behind it (`CallFits`: whether it may have been applied, and which replies the server
  can have made) and each outcome its cause (`OutcomeFits`); `TokensFit` says of a token that is on its way back from a login that nobody else holds it. A step then maps to
  one of `RemoteCall` or to a stutter, action by action.

### Only model-checked
Liveness (`EventuallyDelivered`, `DeadSessionNoticed`, `WatchedAgain`, `ServesAgain`, `StopsWhenAsked`) is out of this
prover's reach. Every safety property of a passing run is a theorem, for the servers and the clients its statement names: the terminal's pane,
stream, unread marks and sends for a server that keeps its database (`MaxRebuilds = 0`), because they are false of one that rebuilds it; of
`RoomStore` the two that a rebuild makes false are themselves about what comes before the first. The type
invariants are theorems (`TypeCorrect`, `SessionTypeCorrect`, `StartupTypeCorrect`) and not checked again by their runs, except that
of `RoomStore`. The
inductive invariants were checked by TLC and are left out of the configurations, to keep each run to its question.

## 5. Plan

The order is by what a failure would cost the user: losing messages, losing the session, wrong answers of the
server, the application in front of them, and the starts in between.

1. done: `MessageLog`, `OrderedDelivery`, `MessagesFeed`, with proofs.
2. done: `ClientSession`, with proofs.
3. done: `NameDirectory`, `Accounts`, `RoomStore`, with proofs.
4. done: `TerminalApp`, with proofs.
5. done: `ServerStartup`, with proofs.
6. done: `ConnectionForm`, with proofs.
7. done: `RemoteCall`, `Requests`, with proofs.
8. done: `PhoneApp`, with proofs.
9. to come, modelling: `RoomsFeed` as a module of its own (its deadline and its drops); the credentials typed while a registration is out,
   in `TerminalApp`; registering and connecting in `PhoneApp`.
10. to come, proofs: of whatever item 9 adds.

The project keeps to a dozen runs, so that all of them are read, and to properties that a unit test would hardly reach.

### Not modelled, and why
Drawing (`ui.rs`, `view.rs`), wording, logging: no state a property is about. The mock transport: a test double. What is below a transport, reqwest
and the SCION SDK, is external: a model knows that a request is answered, fails in one of the ways `tcp.rs` and `scion.rs` tell apart, or is lost. The
Kotlin and Swift error tables are not modelled again. Development tooling: a script over other programs.
Password hashing and JWT signatures are taken to tell right from wrong. `Restart` and `Rebuild` of `RoomStore` are one action each; their
steps are those of `ServerStartup`. SQLite statements are atomic and one at a time, as `sqlite.rs` opens it.
