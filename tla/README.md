# Dcomms: a formal model

TLA+ modules of the Dcomms messaging application (gateway, web client, mobile
client), the TLC configurations that check them, and proofs that TLAPS checks.
Line references are to files under `src/`; `ws.service.ts`,
`messages.service.ts` and the like are the gateway's.

## 1. The system

One gateway process (NestJS) serves REST and one WebSocket per client. Postgres
(or PGlite, in development) holds users, devices, refresh tokens, conversations,
members, messages, meetings and one-time codes; Redis (or a map in memory) holds
presence keys, room rosters, rate limits and the `deliver:{user}` channels, by
which one gateway instance reaches the sockets of another.

Two facts decide how everything is modelled.

* **Handlers interleave at every `await`.** A frame is handled by
  `void this.onFrame(...)` (ws.service.ts:88): the handler of the next frame, of
  the same socket or of another, starts while this one waits. The code between
  two awaits is atomic.
* **There is no transaction.** The gateway has no `BEGIN`; each statement is
  atomic, and a sequence of them can be cut or interleaved anywhere.

### Inventory

| Component | State | Operations | What is hard | What makes it correct |
|---|---|---|---|---|
| Chat pipeline (`onFrame`, `onChatMessage`, `persist`, `notifyOffline`) | `messages`, presence keys, what sockets received | one frame: admit, insert or find, ack, fan out | retries that overlap, sockets lost under a handler, a loop that fails half way | stored once; every report names the stored row; only members write; with no failure every member is reached |
| Receipts (`onReceipt`, `markDelivered`, `advanceReadWatermark`, client `markStatuses`) | `delivered_at`, `last_read_message_id`, ticks | delivery_ack, read_ack | acks that overtake one another | watermark and ticks only go forward; a tick is backed by the database |
| Mobile sync (`chatSync.ts`, `chatRepo.ts`, `socket.ts`) | SQLite rows, cursor, outbox, socket | fullSync, live events, send, resend | chains of awaits over one database, a killed app, a lost socket, a cursor with coarser time than the rows | no message behind the cursor is missing; acknowledged is durable; the outbox empties |
| Conversation creation (`createDirect`, `createGroup`, `getSummary`) | `conversations`, `conversation_members` | start a thread, make a group | check-then-insert races, rows without their members | one thread per pair; half made threads have a cause |
| Room roster (`joinRoom`, `leaveRoom`, `onDisconnect`) | hash `room:{id}:peers`, `conn.rooms` | join, leave, disconnect | read-then-write, a join in flight at the disconnect, several tabs on one field, a socket that comes back without joining | one side of each pair offers; no ghosts without cause |
| Room pages (`RoomPage.tsx`, `rtc.ts`, `onRtcRelay`) | `store.room`, managers and their peer connections | mount, offer, answer, leave | frames that come while the camera is asked for, pages left before that, two tabs that answer one offer | whoever is on the roster is connected and has a tile; who left is not |
| Calls (`CallOverlay.tsx`, `rtc.ts`, `socket.ts`, `onRtcRelay`) | `incomingCall`, `activeCall`, the manager of a component | start, accept, decline, end | buttons pressed while init runs, frames of an earlier call, a callee with two tabs | an answer is applied to its own call; no connection lives hidden; nobody waits or rings for nobody |
| Sessions (`refresh`, `issuePair`, web `api.ts`) | `refresh_tokens`, localStorage, a promise per tab | call, refresh, rotate, revoke a family | concurrent 401s, two tabs, lost answers | a tab's own concurrency never looks like theft |
| Login by code (`requestOtp`, `verifyOtp`, `incr`, login forms) | `otp_codes`, `rl:otp:{phone}`, `users`, `devices` | request, verify | read-then-update of attempts, read-then-delete of the code, a counter without its expiry | a code logs in once; refusals are counted; the limit lets go |
| Presence (`onConnect`, `onDisconnect`, `broadcastPresence`, adapters' `subscribe`) | `conns`, presence key, channel subscriptions, what a contact's page shows | connect, heartbeat, disconnect | farewells after the next hello, several instances, listeners attached after awaits, a SUBSCRIBE that fails | no socket is deaf; contacts end up with the truth; the key heals |
| Web client (`socket.ts`, `store.ts`) | messages, statuses, sidebar, room | dispatch, resync, send | REST pages over live frames, reconnect with an expired token | merge is idempotent; what was missed arrives |
| Typing, push subscriptions, media, users, bootstrap | small or none | | | not worth a model: see section 7 |

PROJECT.json lists the components with their sources, and every hazard with its
line and the properties that watch it.

### How the components interact

A sender's frame goes through the chat pipeline, which reads *presence* and
publishes to the members' sockets or calls *push*. A member's client stores what
arrives and answers with *receipts*, which go to the author's client. What was
missed is pulled by the *sync* of the client from `history`. Everything asks
`assertMember`, which reads what *conversation creation* wrote. A *room* tells
its members about each other; its *pages* and the pages of a one to one *call*
signal through the relay, which publishes on the same channels as the pipeline.
A *login* starts a session; every REST call may first refresh it.

## 2. The modules

| Module | Models | Composed with |
|---|---|---|
| `MessageStore` | what the pipeline promises: a key is stored once, acks and displays name the stored row | refined by `ChatPipeline` |
| `ChatPipeline` | the handler of `chat_message` | |
| `Receipts` | the handlers of `delivery_ack` and `read_ack`, and the author's ticks | `Post` abstracts the pipeline |
| `MobileSync` | the mobile client against the service | the frames of `ChatPipeline`, the page of `history`, the receipts of `Receipts` |
| `Rooms` | the roster of a room, and of the web page what decides when frames are sent | |
| `Mesh` | the pages of a room, their managers and peer connections | EXTENDS `Rooms`: each step is a step of the roster, or a stutter of it; shown to implement it |
| `Calls` | one to one calls: tabs, managers, the relay between them | |
| `Presence` | sockets of one user on several instances, subscriptions, the presence key, a contact's page | `ChatPipeline` has the key as `presence`, which may be wrong either way |
| `Otp` | logging in by code: gateway, rate limit, forms | its token is the `Login` of `Sessions` |
| `Conversations` | `createDirect`, `createGroup`, `getSummary` | |
| `Sessions` | rotation of refresh tokens in the gateway and in the tabs of a browser | |
| `WebClient` | one tab and one conversation of the web client against the gateway | the steps of `ChatPipeline`, the pages of `history`, `markStatuses` of `Receipts`, the token of `Sessions` as fresh or stale |
| `*_proofs` | theorems about the module they extend; `Auth_proofs` about `Otp` and `Sessions`, `Web_proofs` about `WebClient` and `Calls` | |
| `MC_*` | symmetry and constants for TLC | |

In each module a *process* is one call (a frame's handler, a request, a chain of
promises). Its program counter names the awaited call it waits for, and each
action is "that call settles, and the code runs to the next await". A local
variable that survives an await is a variable of the process, so that it can be
stale. `Fail`/`Throw` is an awaited call that rejects, `Crash`/`Kill` the end of
the process. Comments that begin with "Mutant:" mark variants of a definition
with a plausible bug; nothing uses them but the check that each property would
notice the bug.

**ChatPipeline.** `Receive` (onFrame, past the flood guard) – `Admit`/`Reject`
(assertMember) – `Insert` or `Conflict` then `SelectOriginal` (persist) –
`SendAck` (and memberIds) – `Echo`, or `ReadPresence` then `Publish` or `Push`,
for each member – `Finish`. Sockets go down, opening, up as `onConnect` awaits
its subscription and its presence key; presence keys disappear late or early
(`Forget`), for they are deleted after several awaits and expire by TTL.
`got`, `lost` and `rung` record what was published to somebody, to nobody, and
handed to push. The members of the conversation do not change (the code has no
operation that changes them after creation).

**Receipts.** `Receive` – `Admit`/`Reject` – `MarkDelivered` or
`AdvanceReadWatermark` – `SendersOf` – `Publish` per author – `Finish`.
Messages are numbered by `created_at`. A client acknowledges messages of others
that are stored. `Publish` reaches the author, or, `MaxLost` times, does not.

**MobileSync.** The service stamps a row at the start of its INSERT (`Stamp`),
commits it (`Commit`), owes the sender its answers (`replies`) and fans others'
out (`FanOut`, which may also not reach the phone though its socket is open: the
presence key may have expired). On the phone every event starts a task
`<<step, key>>` whose steps are the awaited statements of `chatRepo`; `fullSync`
is a process: `ReadCursor` – `Fetch` – (`WriteRow` – `AdvanceCursor`)* –
`AckPage` – `Resend`. `Grain` is the number of time stamps in one millisecond:
rows have microseconds, clients milliseconds.

**Rooms.** `Join` and `Leave` are frames, `Drop` the closing of a socket, `Open`
the first socket of a page and `Reopen` the next one of a page that lost its
own. `ReadRoster` – `Enter` – `TellJoined` is joinRoom; `Remove` – `TellLeft`
leaveRoom, for a frame or for a disconnect. A page shows the hub or a call
(`view`): the hub's form joins, the Leave button of a call sends room_leave if
there is a socket to send it on (else `LeaveOffline`), and a page whose socket
came back does not join again. History variables: `saw` (what the joiner was
given), `raced` (joins that had read and not written when this one wrote),
`late` (entered after its socket closed).

**Mesh.** A room_state that finds its page in the hub mounts `InCall`, whose
manager has the name of that join. A manager is in `"init"` (ice-config,
getUserMedia; it hears nothing), then `"ready"` or `"failed"`; a page left
meanwhile leaves it `"cut"`, and if its init then succeeds it is `"undead"`: it
listens and offers, with nobody to destroy it. `JoinRoomMesh` is the end of init
with the offers to all of `peers`; `OnSignal` takes the next frame on a wire:
an offer is answered, an answer applied, a hangup or a room_peer_left closes the
connection. Nothing in an offer or a hangup names the manager it is for, so that a
late one of an earlier page reaches whatever page the user has then. History
variables: `missed` (pairs with a frame to a manager that was not there for it, or
with such a late frame, `Stray`), `stale` (users whose farewell came across a
join, or who had joined again before they were removed).

**Calls.** `StartCall`, `Accept`, `Decline` and `End` are the buttons of a tab;
`InitDone`/`InitFails`, `Offer`, `Answer` and `SetupFails` the continuations of
a manager's script; `ReceiveOffer`, `ReceiveAnswer` and `ReceiveHangup` what a
tab does with the next frame of a wire. Every tab of the addressee gets a frame
and handles it in its store and in every manager that is subscribed, that of
another call included. `PeerFails` ends an answered connection whose other end
is not there. History variables: `lost`, `unheard` (a ring another call took the
place of), `crossed` (closed without a word by the hangup of another call).

**Presence.** `Connect` – `Subscribed` – `Register` – `SetOnline` – `Announce`
is onConnect, with the adapter's subscription; `Close`, then `Leave` – `Delete` –
`LastSeen` – `TellOffline` is onDisconnect; `Heartbeat` – `Beat` a frame that
writes the key. A socket that closes before its listeners are attached is never
left. Each instance queues its SUBSCRIBEs and UNSUBSCRIBEs to Redis; an instance
may `Crash`. The contact gets frames in order (`Show`) and asks for one snapshot.
History variables: `cut`, `overlap`, `misled`.

**Otp.** `Incr` – `SetExpiry` – `StoreCode` is requestOtp; `Accept` or `Deny` –
`CountAttempt`, then `DeleteCode` – `UpsertUser` – `InsertDevice` – `InsertToken`
verifyOtp. A form is busy with one request; its answer may be lost, and a form of
a browser that keeps an older refresh token sends a refused verify again
(`AnswerRetries`, api.ts). `CodeExpires` and `WindowEnds` are time. History
variables: `crossed` (in flight with another), `refused`, `swept` (deleted by the
verify of another code), `twice` (found by two verifies before either deleted it).

**Conversations.** `Find` – `InsertThread` – `ReadBack` – `InsertMember`* –
`List` – `ReadMembers`, and `InsertGroup` – `InsertMember`* – ... for groups.

**Sessions.** `Call`/`RestoreSession`, `Unauthorized`, then `Start`, `Share` or
`GiveUp` of `refreshOnce`; `SetTokens`/`ClearTokens`/`Lose` when the answer
arrives or does not; `Forget` is the timer that clears the promise. In the
gateway: `Select` – `RevokeFamily`, or `RevokeOwn` – `Issue`.

**WebClient.** The browser runs a callback to its end, so that a frame and what
`dispatch` does with it are one action (`Ack`, `FanOut`, `Tick`), and a fetch is
asked, answered, and then shown (`OpenThread` or `Connect` – `AnswerFetch` –
`ShowPage` or `Resync`). `addMessage`, `patchMessage`, `markStatuses` and
`history` are operators. `Sorted` gives each entry its `Place` by time,
and those of one time stay as they were; the rows of a page that the list does not
have (`RowOf`) come in together. `gate` is what the gateway has of the socket: nothing,
a subscription (`Subscribe`), listeners too (`Listen`); frames sent before are
overheard by nobody (`Overhear`). The clock of the tab is wrong by up to
`MaxSkew` rows. History variable: `pulled`, own messages that a resync brought.
Not in it: the sidebar with its unread counts, read_acks and the visibility of
the page, presence, typing, calls and rooms.

## 3. The runs

| Run | Shows |
|---|---|
| `chat` | 3 users (2 members), 1 message id, 2 row ids, 2 handlers, 2 frames, 1 lost socket, 1 failure or crash: the inductive invariant `PipelineInv` (with `ExactlyOnceStorage`, `OnlyMembersWrite`), `ReportsNameStoredRows`, `NobodyIsSkipped` in behaviours without a failure, and that the pipeline implements `MessageStore` |
| `receipts` | 3 members and an outsider, 2 handlers: `ReceiptsInv`, `TicksAreBacked`, `ReceiptsAreMonotonic` (watermark and ticks only rise), and `ReadReachesTheAuthor` for authors who hear it |
| `mobile_pull` | pull only (the upgrade never succeeds), 4 messages, pages of 2, 2 stamps to a millisecond: `NoGapBehindCursor`, `PullCatchesUp` |
| `mobile_live` | an own and another's message, a millisecond apart, live frames, receipts, a sync, and one lost socket or killed app: `PhoneInv`, `AckedIsDurable`, `SentIsStored`, and `NothingGoesBack` for cursor, outbox and read marks |
| `rooms` | a user with two tabs and another with one, 2 joins, 1 leave, one lost socket, failure or crash: `RosterInv` (with `NoGlare`, `OnlyOverlapsMiss`, `GhostsHaveACause`), `MeshInv` (with `OneManager`, `TilesFollow`), `MeshConnects` (`PeersConnect`, `LeftIsSilent`), `TilesAreTrue` |
| `conversations` | 2 users, 3 requests, 1 fault: `ThreadsInv` (with `AnswersAgree`, `CreatorComesFirst`, `HalfMadeHasACause`), `OnlyHalfMadeThreadsMislead`, `ThreadsAreCompleted` |
| `sessions` | 2 tabs, 3 calls, 4 refreshes, 1 fault (a lost answer, a 500, a machine that slept): `SessionInv` (with `OneRotationPerToken`, `StoredIsLive`), `NoLogoutUndisturbed`, `OneLiveToken` |
| `web` | an own message and one of the peer, pages of 2, a clock that is wrong by a row, 1 lost socket, 1 failing call: `TabInv` (each message once, as its row says, with a status that has a cause, pending just until its send_ack), `StatusNeverFalls` |
| `web_live` | 2 messages of the peer, 1 lost socket, a token that expires: `MissedArrives`, `ComesBack` |
| `calls` | a caller with one tab, a callee with two, 2 calls, 3 managers, 1 lost socket, reload or failing init: `CallsInv`, `AnswerIsForThisCall`, `NoHiddenCall`, `RingsMatchCalls`, `NoCallerAlone` |
| `presence` | 2 sockets on one instance or on two, 1 fault: `PresenceInv` (with `NobodyIsDeaf`), `ShownIsTrue`, `KeyHeals` |
| `otp` | 2 forms, 3 requests, 1 request to a window, 1 attempt, 2 faults: `OtpInv`, `OneLoginPerCode`, `AttemptsAreTrue` (`CountKeepsUp`, `UndisturbedCodeWorks`), `WindowReopens` |

Several properties have the form "true, unless one of these happened": the code
has no transaction and keeps no state of calls, so that much of what one would
like to say is false in some interleaving. The exceptions are history variables,
recorded at the step that causes them, and the property says that nothing else
does. Each exception of `rooms`, `calls`, `presence` and `otp` is needed: TLC
finds a counterexample when it is dropped, with three joins for the `stale` pages,
the further managers and the late frames of `MeshConnects`, and else within the
run's bounds.

### Known falsehoods and how to see them

What the documentation says and the code does not do. Each is seen by a change
to one cfg, or to one property.

* **A reconnect does not send the outbox.** `socket.ts:63-65` (mobile) drops a
  frame while the socket is down, because "chat messages are re-sent from SQLite
  'pending' rows on reconnect". But `onopen` (socket.ts:38-44) starts only the
  heartbeat; `resendPending` is called by `fullSync`, which runs at startup and
  when the user pulls to refresh. `PendingIsSent` is violated under `FairSpec` of
  `MobileSync` with `Mine = {m1}`, `Theirs = {}`, `Syncs = {s1}`,
  `SocketOpens = TRUE`, `MaxLosses = 1`; it holds under `RefreshingSpec`.
* **A live frame hides what was missed.** `applyServerEvent` moves the cursor to
  the frame's time (chatSync.ts:92). If an older message was missed while the
  socket was down, the next `?since=` starts after it: it is never pulled, though
  chatSync.ts:10-11 says a missed frame is never a lost message and sqlite.ts:55
  reads the cursor as "I have everything up to T". `NoGapBehindCursor` is violated
  in `MobilePull.cfg` with `Theirs = {p1, p2, p3}`, `Grain = 1`,
  `SocketOpens = TRUE`, `MaxLosses = 1`. So it is with `MaxOpen = 2` (a pool of
  connections, pg.db.ts:23: rows become visible in another order than their time
  stamps) and with `MaxLosses = 1` alone (the app is killed in its first sync,
  after a row and before the cursor, and a page of new messages arrives before
  the next), and with `Syncs = {s1, s2}` alone (two syncs at once, each starting
  from the cursor it read).
* **Two joins that overlap never connect.** Each reads the roster before the
  other is on it; webrtc-signaling-flow.md:39-42 has the joiner offer to everyone
  present. `OnlyOverlapsMiss` shows that this overlap is the only way a pair is
  not told of each other; drop its `raced` disjuncts, or those of `MeshConnects`.
* **"Everyone already present just answers"** (same place) is not so while a
  page still waits for its camera: the offer finds no listener and is gone. Drop
  the `missed` disjuncts of `MeshConnects`.
* **"Single-use"** (auth.service.ts:61): the row is read and deleted by two
  statements, and two verifies that overlap both log in. Drop `twice` from
  `OneLoginPerCode`.
* Without a run: auth.service.ts:13-14 and KEYSPACE.md:38 allow 3 requests in 10
  minutes, auth.service.ts:32 allows 5; websocket-protocol.md:55 has the sender
  retry until its send_ack, but neither client has a timer that does; the mobile
  app sends its platform as `device.platform`, the gateway reads `platform`
  (auth.controller.ts:32) and takes it for a web client.

### Bounds, and why they are enough

Two handlers are enough for every race of the gateway here, which are all
between two calls on one row, key or hash; a third call is there where a race
has a bystander (a third request that finds the half made thread, a third login
request next to two that cross).
`chat` has two frames, so that a message and its retry, or two users' messages,
overlap in all ways, and two row ids so that a wrong one exists. A page of two
with four messages takes three pages, the last one short. `Grain = PageSize = 2`
is the boundary at which paging still makes progress; when a millisecond holds
more rows than a page, the cursor stays where it is, so that `Grain > PageSize`
breaks `PullCatchesUp`. One kill, or one lost socket, at every point of a sync suffices
because a second one finds the same kinds of state: rows ahead of a cursor. Failures are
counted together with crashes, since either cuts one sequence of statements.
Four refreshes are enough for two rotations in a tab while another tab rotates
too. In `web` one message of each kind meets a page, a resync, a live frame and
an ack in every order; in `web_live` what was missed fits in a page, as
`MissedArrives` needs: the web client never asks for older pages, so that of
more than a page (50) of missed messages the older ones are not shown. In `rooms`
the two joins are of two users, of two tabs of one, or of one page before and
after its leave; the third join that lets a second tab answer or rejoin a pair
was checked in two other instances: one page each and no losses, exhaustively
(2.9 million states), and three tabs, or three users, with one loss, by
simulation. Simulation with four joins and three leaves is also what showed the late
frames that `MeshConnects` names: a user must leave and be back while the frames of
both pages are under way. Two calls are enough for a late frame of one in the other, and three
managers for two tabs that accept one call, or one tab that accepts twice. A caller with
two tabs and four managers was checked too (exhaustively, without faults), which
is where an accept that overtakes that of another ring shows. The
two sockets of `presence` share an instance in one half of the states, and not
in the other. `otp` has limits of 1 where the code has 5: they are compared with
a counter and nothing else, and a limit of 1 is the one that three requests pass.
Every bound is a constant named `Max...`, or a set of process names, and
appears in a guard. Deadlock is not checked: each system stops when its bounds
are used up.

### Fairness

Weak fairness of a process's next step, everywhere: a call that was made settles,
and the event loop runs what waits for it. No fairness of users, of sockets, of
failures, of `Heartbeat` or of `Expire`. `MobileSync` needs more, and names it:
the socket's timer reconnects (`onclose` sets it every time, socket.ts:51-57); a
killed app is opened again; and a REST call that may fail does not fail for ever
(strong fairness of `ReadCursor` and `Fetch`, for `SyncFails` may come first any
number of times). `RefreshingSpec` adds a user who keeps pulling to refresh,
which is an assumption on people; `PullCatchesUp` needs it, for nothing else
pulls, and so does `PendingIsSent`.

`WebClient` has strong fairness of `Connect`, for `Expire` may come at any time:
`onclose` tries at most 30 seconds apart, a token lives 15 minutes, so that it
is not stale at every try. `UsedSpec` adds a user who opens and closes the
thread again and again. It is needed twice: opening is what heals, since a resync
may take its cursor from a row behind the missed one and acknowledges nothing,
and it makes the REST calls without which a stale token is not refreshed and
the socket does not come back.

`Presence` has it for the handlers, the answers of Redis to SUBSCRIBE, the
heartbeats of an open page (a setInterval) and the expiry of a key that nobody
renews; none for closing sockets, or for the contact. `Otp` has it for the
gateway's queries and for the end of the window, which Redis sees to; none for
the forms, and none for a counter whose EXPIRE failed. `Rooms`, `Mesh` and
`Calls` promise nothing in time: the properties of pages that are at rest say
what liveness would.

## 4. Proofs

| Module | Theorems |
|---|---|
| `ChatPipeline_proofs` | `Safety`, `StoredOnce`, `Reported`, `MembersOnly`, `NobodySkipped`, `Refinement` |
| `Receipts_proofs` | `ReceiptsSafety`, `TicksDoNotLie`, `CompletedIsRead`, `ReceiptsOnlyRise` |
| `MobileSync_proofs` | `PhoneSafety`, `AcksAreDurable`, `TicksAreStored`, `CursorStandsOnARow`, `RowsAndCursorGoForward`, `PullLeavesNoGap` |
| `Mesh_proofs` (of `Rooms` too) | `RosterSafety`, `InitiatorIsUnique`, `MissesOverlapped`, `GhostsExplained`, `MeshKeepsTheRoster`, `RosterSafeInMesh`, `OneManagerPerPage`, `MeshSafety`, `ShowsWhoIsThere`, `PeersMeet` |
| `Conversations_proofs` | `ThreadsSafety`, `OneThreadPerPair`, `CreatorIsFirst`, `HalfMadeExplained`, `MisleadingAnswersExplained` |
| `Auth_proofs` (of `Sessions` and `Otp`) | `SessionSafety`, `RotatesOnce`, `KeepsTheSession`, `StoredTokenWorks`, `OneTokenIsLive`; `OtpSafety`, `CodesAreSingleUse`, `RefusalsAreCounted`, `UndisturbedCodes`, `AttemptsCounted`, `OneUser` |
| `Presence_proofs` | `PresenceSafety`, `EveryoneHears`, `ContactsSeeTheTruth` |
| `Web_proofs` (of `WebClient` and `Calls`) | `TabInductive`, `TabIsSound`, `StatusesNeverFall`; `CallsInductive`, `CallsAreSound`, `AnswersFindTheirCall`, `NoCallGoesOnUnseen`, `CallersHaveRings`, `CallersAreTold` |

Each holds for every value of the constants that meets the named assumptions of
its module: bounds are natural numbers, null values are not ordinary ones, kinds
of processes do not overlap, members are users, the mark of an UNSUBSCRIBE in
`Presence`'s queues is not a socket, and what is counted is finite (requests of
`Otp`, messages of `MobileSync`, joins of `Mesh`). One theorem has a hypothesis of
its own, `PullLeavesNoGap`; see below. The argument is the same everywhere: an
inductive invariant, one lemma that the initial states satisfy it and one that
every action preserves it, with a step per action; action properties and the
refinements follow from it step by step. TLC checks the invariants of the modules
in their runs. The stronger ones that stand beside a proof (`PullInv`, `TabIInv`, `IInv`,
`Links`) are in no run; `Links` was checked on the constants of `rooms`, in all of its
million states, before it was proved.

* `PipelineInv`: `ExactlyOnceStorage` is not inductive without
  `HandlersHoldTheirRow` (a handler past `persist` holds the stored row of its
  own key) and `IdsAreUnique`. With these, `Insert` and `SendAck` map to `Store`
  and `Ack` of `MessageStore`, `Echo` and `Publish` to `Show`, all else to
  stutters. `NobodyIsSkipped` needs `FanoutLeavesNoHoles`: a member that has
  left `left` was served, and a row that is not through has a handler.
* `ReceiptsInv`: `ReceiptsLeaveMarks` says what a handler past its UPDATE has
  left in the database, which is why a tick that its `Publish` shows is backed,
  and why a completed read_ack is under the watermark.
* `PhoneInv`: `WorkIsBacked` says of each chain of awaits on the phone (a live
  frame's, an ack's, a sync's) which row the service has for it and which statement
  has put it into SQLite; from it follow `AckedIsDurable`, `SentIsStored` and
  `CursorIsBacked`. `StampsDiffer` counts the rows stamped so far, hence the finite
  set of keys. `NothingGoesBack` is proved of each statement of `chatRepo`.
  `PullLeavesNoGap` assumes `PullOnly`: the socket never opens, the app is not
  killed, one sync runs and INSERTs become visible in the order of their stamps.
  That is the situation of `mobile_pull`, and section 3 shows that the property is
  false when any one of these goes (two syncs included). What is proved beyond the
  run is that neither a page's end nor the rounding of the cursor down to a
  millisecond leaves a gap, for any number of messages, size of a page and grain of
  the clock: `PullInv` says that what is on the phone is a stretch of the visible
  rows, and that the page under way continues it (`PageFollows`).
* `RosterInv`: `NoGlare` needs `SeenWereEntered` (who was seen had written, who
  saw had read); `OnlyOverlapsMiss` needs `UnseenIsRaced` (between hgetall and
  hset, an entry not seen was written meanwhile).
* `MeshInv`: every step of the pages is a step of the roster or leaves it alone, so
  that `RosterInv` holds with them too. `OneManager` is inductive with
  `ManagersWereJoined` (a manager comes with the room_state of its own join) and
  `FramesHadSockets` (a frame came by a socket that had opened), for a page then
  keeps the socket its manager was mounted by. `TilesFollow` is what a page shows
  between two steps: a tile of somebody who has left only while the farewell is
  under way, none of somebody who has come only until it has told, or was raced. A
  joiner's room_state keeps it because of `UnseenIsRaced`, in both directions, and
  of `ReadersAreTimely` (who was read is still there, or left across the join);
  that a page hears all that is published needs `SteadyPage`: with `PagesAreOwn`,
  the page of a user without a second page or a lost socket is that of its one
  socket. At rest nothing is under way, and `TilesFollow` is `TilesAreTrue`.
* `Links` of `Mesh` has, for `MeshConnects`, what each connection and each frame
  under way will come to. `Linked`: of two on the roster that nothing has come
  between (`Clean`), the offer of the one that was given the other is the last frame
  to it (`Offering`), or its answer is under way (`Answering`), or they are connected;
  at rest only the last is left. That it is one or the other from the start is
  `OnlyOverlapsMiss`, and that no offer crosses it is `NoGlare`. `Heard` and
  `Coming`: whoever a manager has heard, or will hear of a frame that is under way, is
  still there and has an entry for it, so that it will hang up, or its hangup is under way
  behind that frame. This rests on `Lines`: who may have sent a frame (`FramesOK`) and
  be in a table (`TablesOK`), that hangups of earlier managers of a page are ahead of
  the frames of the mounted one (`HangupsFirst`), that an entry that was read is of an
  earlier manager than one that was read later (`InOrder`), and that a page that shows a
  call is on the roster, so that nobody is told it left (`SteadyPresent`). A late frame
  between the two is a case of `Stray`, for otherwise it would be in this order.
* `ThreadsInv`: `AnswersAgree` follows from the uniqueness of `direct_key` and
  `AnswersExist`; `CreatorComesFirst` and `HalfMadeHasACause` from
  `MakersAreOnTheirWay`: members stored and members still to insert make up the
  pair, the caller first.
* `SessionInv`: `SpentOrAwaited` says where a token that was presented can still
  be: it is not the one in localStorage unless its refresh is in flight or its
  answer was lost, so that `refreshOnce` never presents it again
  (`OneRotationPerToken`). `Calm` is `NoLogoutUndisturbed` and what each step of an
  undisturbed refresh has done in the gateway; `OneHeir` gives `OneLiveToken`.
* `PresenceInv`: `QueueWaits` and `QueueMatches` say that the last command queued
  for a channel is the one its listeners call for, which is why nobody is deaf
  whatever order SUBSCRIBE and UNSUBSCRIBE come in. `GreetingsFollow`,
  `FarewellsFollow` and `ForwardsEnd` say that the last frame under way to a contact,
  or one a handler still owes it, tells the truth or is explained; at rest nothing
  is under way, and what the contact shows is that.
* `OtpInv`: `CodeInv` (the row has a code that was sent out, once) and
  `LoginInv` (a verify past its DELETE has made the row another's) give
  `OneLoginPerCode`; `AccountInv` one account per number; `CrossInv` (whose row a
  verify is about to delete) and `CountInv`, an inequality between the refusals of
  a code, the counter of its row, the UPDATEs in flight and the faults, give
  `AttemptsAreTrue`. The counting rests on the cardinality of `Pending`, hence
  `FinitelyMany`.

* `TabIInv`: an entry of the list is what `EntryOK` allows: with the time and the
  status of the row it stands for, or, while pending, with those of the compose; and
  `PhasesAgree` and `ComposedHere` say which of the steps compose, INSERT, ack of an
  own message are behind it. What has to be shown of the code is shown of its
  operators: `SortedIsMoved` (a sort by `Place` moves entries and loses none, by a
  count of the places), and that `AddMessage`, `AddPage`, `PatchMessage` and
  `MarkStatuses` keep each message once and no status lower, whatever list they get.
* `IInv` of `Calls`: `Parts` says who takes part in a call and which managers,
  components and frames can be of it. `AnswerIsForThisCall` needs `OffersStand` and
  `AnswersStand` (the frames of a call tell what its two managers have done so far,
  and `OfferedOnce` that there is one of each); `RingsMatchCalls` and
  `NoCallerAlone` are inductive with these and `RefusalsAreFinal`, which says that
  behind a hangup on a wire nothing of that call can come any more.

Every invariant and every action property of the runs is proved. Only model-checked
is all liveness (`ReadReachesTheAuthor`, `PullCatchesUp`, `ThreadsAreCompleted`,
`MissedArrives`, `ComesBack`, `KeyHeals`, `WindowReopens`), which is out of the
installed provers' reach.

## 5. What is abstracted

Contents of messages, names, phone numbers and formatting; the JSON of frames,
except that a bad one is refused before anything happens; the hash of tokens; the
24 hours of a meeting and the weeks of a refresh token. Time is the order of
time stamps, but for the millisecond of the cursor. Statements of SQL are what
they do to the rows, under read committed isolation. Publishing to a channel
delivers at once to the sockets subscribed: neither adapter keeps anything for
later. Commands of one instance to Redis are executed in the order they are
sent.

## 6. Plan

Done: the modules of section 2. Next, in this order:

1. The conversation rows of both clients (unread counters, previews, order), and
   the way from `#/room` to `#/chat` with a call open, which keeps the user on the
   roster without a manager.
2. That the list of `WebClient` implements an abstract cache of rows that only grows.

A theorem then worth having: `MobileSync` implements an abstract outbox (pending,
stored, shown as sent).

## 7. Not modelled

Typing (nobody reads its key, and nothing depends on it); media upload (one
presigned URL and one PUT); users' profiles and `last_seen` (single statements,
and nobody decides by them); storing and pruning push subscriptions (single
statements; the pruning of a token that was just replaced is a race of little
consequence); search and older pages of `history` (reads); ICE candidates and
media (a connection that has both descriptions is taken to connect); layout of
both clients; bootstrap and configuration.
