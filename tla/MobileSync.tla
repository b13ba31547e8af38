------------------------------ MODULE MobileSync ------------------------------
(***************************************************************************)
(* The mobile client of one user against the message service, for one      *)
(* conversation: apps/mobile/src/sync/chatSync.ts, db/chatRepo.ts and      *)
(* ws/socket.ts; of the gateway, the order in which rows get their         *)
(* created_at and become visible, the ?since= page of                      *)
(* conversations.service.ts history, and the frames ChatPipeline sends.    *)
(*                                                                         *)
(* Each call of chatRepo awaits SQLite, and nothing serialises the chains  *)
(* of calls: fullSync runs in a process of its own, and every frame's      *)
(* handler is a task <<step, key>> whose next step may run at any time.    *)
(* The app may be killed between any two steps; SQLite is what survives.   *)
(*                                                                         *)
(* created_at has microseconds in Postgres and goes to clients in          *)
(* milliseconds; Grain is the number of ticks in one of these.             *)
(***************************************************************************)
EXTENDS Naturals, FiniteSets

CONSTANTS Mine,         \* keys of the messages this user composes
          Theirs,       \* keys of the messages of others
          Syncs,        \* runs of fullSync that may be in progress at once
          PageSize,     \* the LIMIT of history (50 in the code)
          Grain,        \* ticks of created_at per millisecond
          MaxOpen,      \* INSERTs between now() and commit: 1 with PGlite
          SocketOpens,  \* FALSE: the upgrade never succeeds, REST does
          MaxLosses     \* bound: sockets lost and kills of the app

Keys == Mine \cup Theirs

ASSUME KeysDiffer == Mine \cap Theirs = {}
ASSUME KeysAreFinite == IsFiniteSet(Keys)
ASSUME Sizes == /\ PageSize \in Nat \ {0} /\ Grain \in Nat \ {0}
                /\ MaxOpen \in Nat \ {0}
                /\ SocketOpens \in BOOLEAN
                /\ MaxLosses \in Nat

VARIABLES
  \* the service
  createdAt,   \* key -> tick of now() when its INSERT began, 0 before
  phase,       \* key -> "none", "open", "fanout", "done"
  wire,        \* own keys in chat_message frames on their way to the gateway
  replies,     \* <<"acksent" or "upsert", key>> the gateway owes this client
  \* the phone
  rows,        \* SQLite messages: key -> status, "absent" without a row
  named,       \* rows whose server_id is filled in
  cursor,      \* sync_state.synced_until, 0 without a row
  running,     \* the app has started
  connected,   \* the socket is OPEN
  tasks,       \* continuations of live events and of sends: <<step, key>>
  spc,         \* fullSync: "idle", "list", "page", "write", "cursor", "resend"
  since,       \* the cursor a fullSync read
  page,        \* rows of the page it still has to write
  received,    \* ids it will acknowledge
  told,        \* keys in delivery_ack frames that were sent
  losses

service == <<createdAt, phase, wire, replies>>
sqlite == <<rows, named, cursor>>
syncs == <<spc, since, page, received>>
vars == <<service, sqlite, running, connected, tasks, syncs, told, losses>>

Statuses == {"absent", "pending", "sent", "delivered", "read"}
Rank == [absent |-> 0, pending |-> 1, sent |-> 2, delivered |-> 3, read |-> 4]
Steps == {"insert", "upsert", "cursor", "ack", "acksent", "delivered", "read"}
MaxTick == Grain + Cardinality(Keys)

TypeOK == /\ createdAt \in [Keys -> 0 .. MaxTick]
          /\ phase \in [Keys -> {"none", "open", "fanout", "done"}]
          /\ wire \subseteq Mine
          /\ replies \subseteq {"acksent", "upsert"} \X Mine
          /\ rows \in [Keys -> Statuses]
          /\ named \subseteq Keys
          /\ cursor \in 0 .. MaxTick
          /\ running \in BOOLEAN /\ connected \in BOOLEAN
          /\ tasks \subseteq Steps \X Keys
          /\ spc \in [Syncs -> {"idle", "list", "page", "write", "cursor", "resend"}]
          /\ since \in [Syncs -> 0 .. MaxTick]
          /\ page \in [Syncs -> SUBSET Keys]
          /\ received \in [Syncs -> SUBSET Theirs]
          /\ told \subseteq Theirs
          /\ losses \in 0 .. MaxLosses

Init == /\ createdAt = [k \in Keys |-> 0]
        /\ phase = [k \in Keys |-> "none"]
        /\ wire = {} /\ replies = {}
        /\ rows = [k \in Keys |-> "absent"]
        /\ named = {} /\ cursor = 0
        /\ running = FALSE /\ connected = FALSE
        /\ tasks = {}
        /\ spc = [s \in Syncs |-> "idle"]
        /\ since = [s \in Syncs |-> 0]
        /\ page = [s \in Syncs |-> {}]
        /\ received = [s \in Syncs |-> {}]
        /\ told = {}
        /\ losses = 0

----------------------------------------------------------------------------
\* The service.

Stamped == {k \in Keys : phase[k] # "none"}
Visible == {k \in Keys : phase[k] \in {"fanout", "done"}}
Ms(k) == createdAt[k] \div Grain

\* An INSERT starts: created_at is now() of its own transaction.  The frame
\* is another user's, or this client's and not stored before.
Stamp(k) ==
  /\ phase[k] = "none"
  /\ k \in Mine => k \in wire
  /\ Cardinality({j \in Keys : phase[j] = "open"}) < MaxOpen
  /\ createdAt' = [createdAt EXCEPT ![k] = Grain + Cardinality(Stamped)]
  /\ phase' = [phase EXCEPT ![k] = "open"]
  /\ wire' = wire \ {k}
  /\ UNCHANGED <<replies, sqlite, running, connected, tasks, syncs, told, losses>>

\* It commits; the row is visible, and send_ack and the echo are owed.
Commit(k) ==
  /\ phase[k] = "open"
  /\ phase' = [phase EXCEPT ![k] = IF k \in Mine THEN "done" ELSE "fanout"]
  /\ replies' = IF k \in Mine THEN replies \cup {<<"acksent", k>>, <<"upsert", k>>}
                ELSE replies
  /\ UNCHANGED <<createdAt, wire, sqlite, running, connected, tasks, syncs, told, losses>>

\* A retry of a stored message gets the same answers.
AnswerRetry(k) ==
  /\ k \in wire /\ phase[k] = "done"
  /\ wire' = wire \ {k}
  /\ replies' = replies \cup {<<"acksent", k>>, <<"upsert", k>>}
  /\ UNCHANGED <<createdAt, phase, sqlite, running, connected, tasks, syncs, told, losses>>

\* A frame reaches the open socket and starts a task, or nobody hears it.
Hear(task) == tasks' = IF connected THEN tasks \cup {task} ELSE tasks

Reply(r) ==
  /\ r \in replies
  /\ replies' = replies \ {r}
  /\ Hear(r)
  /\ UNCHANGED <<createdAt, phase, wire, sqlite, running, connected, syncs, told, losses>>

\* The fan-out publishes another's message, or reads a presence key that has
\* expired and does not.
FanOut(k) ==
  /\ k \in Theirs /\ phase[k] = "fanout"
  /\ phase' = [phase EXCEPT ![k] = "done"]
  /\ Hear(<<"upsert", k>>) \/ UNCHANGED tasks
  /\ UNCHANGED <<createdAt, wire, replies, sqlite, running, connected, syncs, told, losses>>

\* Another member acknowledged a message of this user (module Receipts).
Receipt(k, status) ==
  /\ k \in Mine /\ phase[k] = "done" /\ connected
  /\ Hear(<<status, k>>)
  /\ UNCHANGED <<service, sqlite, running, connected, syncs, told, losses>>

----------------------------------------------------------------------------
\* The phone: the socket and the life of the app.

\* startChatSync: subscribe, connect and fullSync; the connection may fail,
\* and the sync may get no answer.
Launch ==
  /\ ~running
  /\ running' = TRUE
  /\ \E s \in Syncs : spc' = [spc EXCEPT ![s] = "list"]
  /\ UNCHANGED <<service, sqlite, connected, tasks, since, page, received, told, losses>>

\* connect() of startChatSync, or the timer that onclose set.
Connect ==
  /\ running /\ ~connected /\ SocketOpens
  /\ connected' = TRUE
  /\ UNCHANGED <<service, sqlite, running, tasks, syncs, told, losses>>

\* The socket is lost, with the frames in it.
Drop ==
  /\ connected /\ losses < MaxLosses
  /\ losses' = losses + 1
  /\ connected' = FALSE
  /\ wire' = {}
  /\ UNCHANGED <<createdAt, phase, replies, sqlite, running, tasks, syncs, told>>

\* The system kills the app: every continuation is gone.
Kill ==
  /\ running /\ losses < MaxLosses
  /\ losses' = losses + 1
  /\ running' = FALSE /\ connected' = FALSE
  /\ wire' = {} /\ tasks' = {}
  /\ spc' = [s \in Syncs |-> "idle"]
  /\ since' = [s \in Syncs |-> 0]
  /\ page' = [s \in Syncs |-> {}]
  /\ received' = [s \in Syncs |-> {}]
  /\ UNCHANGED <<createdAt, phase, replies, sqlite, told>>

\* socket.send: dropped unless the socket is open.
Send(ks) == wire' = IF connected THEN wire \cup ks ELSE wire

\* sendChatMessage: the INSERT of the pending row is started, the frame sent.
Compose(k) ==
  /\ running /\ k \in Mine
  /\ rows[k] = "absent" /\ phase[k] = "none" /\ k \notin wire
  /\ <<"insert", k>> \notin tasks
  /\ tasks' = tasks \cup {<<"insert", k>>}
  /\ Send({k})
  /\ UNCHANGED <<createdAt, phase, replies, sqlite, running, connected, syncs, told, losses>>

----------------------------------------------------------------------------
\* The statements of chatRepo.

\* Mutant: INSERT OR REPLACE.
InsertOrReplace(k) ==
  /\ rows' = [rows EXCEPT ![k] = "pending"]
  /\ UNCHANGED <<named, cursor>>

\* INSERT OR IGNORE ... 'pending'.
InsertPending(k) ==
  /\ rows' = [rows EXCEPT ![k] = IF @ = "absent" THEN "pending" ELSE @]
  /\ UNCHANGED <<named, cursor>>

\* ON CONFLICT keeps 'read' and takes the new status otherwise: own rows come
\* in as 'sent', others' as 'delivered'.
UpsertServerMessage(k) ==
  /\ rows' = [rows EXCEPT ![k] = IF @ = "read" THEN @
                                 ELSE IF k \in Mine THEN "sent" ELSE "delivered"]
  /\ named' = named \cup {k}
  /\ UNCHANGED cursor

\* Mutant: ON CONFLICT DO NOTHING.
SetCursorOnce(k) ==
  /\ cursor' = IF cursor = 0 THEN Ms(k) ELSE cursor
  /\ UNCHANGED <<rows, named>>

\* MAX(synced_until, excluded.synced_until).
SetSyncCursor(k) ==
  /\ cursor' = IF Ms(k) > cursor THEN Ms(k) ELSE cursor
  /\ UNCHANGED <<rows, named>>

\* An UPDATE: nothing happens to a row that is not there yet.
AckSent(k) ==
  /\ IF rows[k] = "absent" THEN UNCHANGED <<rows, named>>
     ELSE /\ rows' = [rows EXCEPT ![k] = IF @ = "pending" THEN "sent" ELSE @]
          /\ named' = named \cup {k}
  /\ UNCHANGED cursor

\* By server_id, and only upwards.
MarkStatuses(k, status) ==
  /\ rows' = [rows EXCEPT ![k] = IF k \in named /\ Rank[@] < Rank[status]
                                 THEN status ELSE @]
  /\ UNCHANGED <<named, cursor>>

----------------------------------------------------------------------------
\* Tasks: what applyServerEvent and sendChatMessage left running.

Proceed(step, k, next) == /\ <<step, k>> \in tasks
                          /\ tasks' = (tasks \ {<<step, k>>}) \cup next
                          /\ UNCHANGED <<service, running, connected, syncs, losses>>

DoInsert(k) == Proceed("insert", k, {}) /\ InsertPending(k) /\ UNCHANGED told

\* A live chat_message: upsert, then the cursor, then (if it is another's)
\* the delivery_ack.
DoUpsert(k) == Proceed("upsert", k, {<<"cursor", k>>}) /\ UpsertServerMessage(k)
               /\ UNCHANGED told
DoCursor(k) == /\ Proceed("cursor", k, IF k \in Theirs THEN {<<"ack", k>>} ELSE {})
               /\ SetSyncCursor(k) /\ UNCHANGED told
DoAck(k) == /\ Proceed("ack", k, {})
            /\ told' = IF connected THEN told \cup {k} ELSE told
            /\ UNCHANGED sqlite

DoAckSent(k) == Proceed("acksent", k, {}) /\ AckSent(k) /\ UNCHANGED told
DoMark(k, status) == /\ Proceed(status, k, {}) /\ MarkStatuses(k, status)
                     /\ UNCHANGED told

----------------------------------------------------------------------------
\* fullSync.

\* Pull-to-refresh.
Refresh(s) ==
  /\ running /\ spc[s] = "idle"
  /\ spc' = [spc EXCEPT ![s] = "list"]
  /\ UNCHANGED <<service, sqlite, running, connected, tasks, since, page,
                 received, told, losses>>

\* GET /api/conversations answered; getSyncCursor.
ReadCursor(s) ==
  /\ spc[s] = "list"
  /\ since' = [since EXCEPT ![s] = cursor]
  /\ spc' = [spc EXCEPT ![s] = "page"]
  /\ UNCHANGED <<service, sqlite, running, connected, tasks, page, received, told, losses>>

\* Mutant: the ?since= page is ordered as the first page, newest first.
HistoryNewest(ms) ==
  LET after == {k \in Visible : ms = 0 \/ createdAt[k] > ms * Grain} IN
  {k \in after : Cardinality({j \in after : createdAt[j] > createdAt[k]}) < PageSize}

\* history: the rows after `since`, oldest first, or without a cursor the
\* newest ones; at most PageSize of them.
History(ms) ==
  IF ms = 0
    THEN {k \in Visible :
            Cardinality({j \in Visible : createdAt[j] > createdAt[k]}) < PageSize}
    ELSE LET after == {k \in Visible : createdAt[k] > ms * Grain} IN
         {k \in after :
            Cardinality({j \in after : createdAt[j] < createdAt[k]}) < PageSize}

\* Mutant: the cursor is set when the page arrives, before it is written.
FetchAdvances(s) ==
  /\ spc[s] = "page"
  /\ page' = [page EXCEPT ![s] = History(since[s])]
  /\ received' = [received EXCEPT ![s] = History(since[s]) \ Mine]
  /\ \E k \in {k \in Keys : \A j \in page'[s] : createdAt[j] <= createdAt[k]} :
       cursor' = IF k \in page'[s] /\ Ms(k) > cursor THEN Ms(k) ELSE cursor
  /\ spc' = [spc EXCEPT ![s] = "write"]
  /\ UNCHANGED <<service, rows, named, running, connected, tasks, since, told, losses>>

\* Mutant: the page is acknowledged when it arrives.
FetchAcks(s) ==
  /\ spc[s] = "page"
  /\ page' = [page EXCEPT ![s] = History(since[s])]
  /\ received' = [received EXCEPT ![s] = {}]
  /\ told' = IF connected THEN told \cup (History(since[s]) \ Mine) ELSE told
  /\ spc' = [spc EXCEPT ![s] = "write"]
  /\ UNCHANGED <<service, sqlite, running, connected, tasks, since, losses>>

Fetch(s) ==
  /\ spc[s] = "page"
  /\ page' = [page EXCEPT ![s] = History(since[s])]
  /\ received' = [received EXCEPT ![s] = History(since[s]) \ Mine]
  /\ spc' = [spc EXCEPT ![s] = "write"]
  /\ UNCHANGED <<service, sqlite, running, connected, tasks, since, told, losses>>

\* The row of the page whose turn it is.
IsFirst(s, k) == /\ k \in page[s]
                 /\ \A j \in page[s] : createdAt[k] <= createdAt[j]

WriteRow(s, k) ==
  /\ spc[s] = "write" /\ IsFirst(s, k)
  /\ UpsertServerMessage(k)
  /\ spc' = [spc EXCEPT ![s] = "cursor"]
  /\ UNCHANGED <<service, running, connected, tasks, since, page, received, told, losses>>

AdvanceCursor(s, k) ==
  /\ spc[s] = "cursor" /\ IsFirst(s, k)
  /\ SetSyncCursor(k)
  /\ page' = [page EXCEPT ![s] = @ \ {k}]
  /\ spc' = [spc EXCEPT ![s] = "write"]
  /\ UNCHANGED <<service, running, connected, tasks, since, received, told, losses>>

\* The page is stored: one delivery_ack for what it brought.
AckPage(s) ==
  /\ spc[s] = "write" /\ page[s] = {}
  /\ told' = IF connected THEN told \cup received[s] ELSE told
  /\ received' = [received EXCEPT ![s] = {}]
  /\ since' = [since EXCEPT ![s] = 0]
  /\ spc' = [spc EXCEPT ![s] = "resend"]
  /\ UNCHANGED <<service, sqlite, running, connected, tasks, page, losses>>

\* Mutant: a row is shown as sent when its frame is handed to the socket.
ResendFlips(s) ==
  /\ spc[s] = "resend"
  /\ Send({k \in Mine : rows[k] = "pending"})
  /\ rows' = [k \in Keys |-> IF rows[k] = "pending" THEN "sent" ELSE rows[k]]
  /\ spc' = [spc EXCEPT ![s] = "idle"]
  /\ UNCHANGED <<createdAt, phase, replies, named, cursor, running, connected,
                 tasks, since, page, received, told, losses>>

\* resendPending: every pending row goes to the socket again.
Resend(s) ==
  /\ spc[s] = "resend"
  /\ Send({k \in Mine : rows[k] = "pending"})
  /\ spc' = [spc EXCEPT ![s] = "idle"]
  /\ UNCHANGED <<createdAt, phase, replies, sqlite, running, connected, tasks,
                 since, page, received, told, losses>>

\* A REST call fails and its rejection ends the sync, resend included.
SyncFails(s) ==
  /\ spc[s] \in {"list", "page"}
  /\ spc' = [spc EXCEPT ![s] = "idle"]
  /\ since' = [since EXCEPT ![s] = 0]
  /\ UNCHANGED <<service, sqlite, running, connected, tasks, page, received, told, losses>>

----------------------------------------------------------------------------
Task(k) == \/ DoInsert(k) \/ DoUpsert(k) \/ DoCursor(k) \/ DoAck(k) \/ DoAckSent(k)
           \/ DoMark(k, "delivered") \/ DoMark(k, "read")

SyncStep(s) == \/ ReadCursor(s) \/ Fetch(s) \/ AckPage(s) \/ Resend(s)
               \/ \E k \in Keys : WriteRow(s, k) \/ AdvanceCursor(s, k)

Service == \/ \E k \in Keys : \/ Stamp(k) \/ Commit(k) \/ AnswerRetry(k) \/ FanOut(k)
                              \/ Receipt(k, "delivered") \/ Receipt(k, "read")
           \/ \E r \in replies : Reply(r)

Next == \/ Service
        \/ Launch \/ Connect \/ Drop \/ Kill
        \/ \E k \in Keys : Compose(k) \/ Task(k)
        \/ \E s \in Syncs : Refresh(s) \/ SyncStep(s) \/ SyncFails(s)

Spec == Init /\ [][Next]_vars

\* Every continuation runs, the service answers (a REST call that may fail
\* does not fail for ever, hence SF), the timer of onclose fires, and the user
\* launches a killed app.
Scheduling ==
  /\ \A k \in Keys :
       /\ WF_vars(DoInsert(k)) /\ WF_vars(DoUpsert(k)) /\ WF_vars(DoCursor(k))
       /\ WF_vars(DoAck(k)) /\ WF_vars(DoAckSent(k))
       /\ WF_vars(Stamp(k) /\ k \in Mine) /\ WF_vars(Commit(k))
       /\ WF_vars(AnswerRetry(k))
  /\ \A r \in {"acksent", "upsert"} \X Mine : WF_vars(Reply(r))
  /\ \A s \in Syncs :
       /\ SF_vars(ReadCursor(s)) /\ SF_vars(Fetch(s))
       /\ WF_vars(AckPage(s)) /\ WF_vars(Resend(s))
       /\ WF_vars(\E k \in Keys : WriteRow(s, k) \/ AdvanceCursor(s, k))
  /\ WF_vars(Connect) /\ WF_vars(Launch)

FairSpec == Spec /\ Scheduling

\* As FairSpec, with a user that keeps pulling to refresh.
RefreshingSpec == FairSpec /\ \A s \in Syncs : WF_vars(Refresh(s))

----------------------------------------------------------------------------
\* The cursor never runs ahead of SQLite: it stands at the createdAt of a row
\* that is stored, though the row and the cursor are written by different
\* statements and the app may be killed between them.
CursorIsBacked ==
  cursor # 0 => \E k \in Visible : Ms(k) = cursor /\ rows[k] # "absent"

\* "Delivery is a fact the moment the rows are stored durably"
\* (chatSync.ts:49): no delivery_ack for a row SQLite does not have, on the
\* live path or the pull path.
AckedIsDurable == \A k \in told : rows[k] # "absent"

\* sqlite.ts:55, "I have everything up to T", and chatSync.ts:10-11, "a missed
\* WS frame is never a lost message, because the next fullSync() pulls it by
\* cursor".  A visible message the next ?since= page would not bring any more,
\* newer than the oldest one the phone has, is stored on the phone, or its live
\* frame is still to come, or it is on a page or in a task being written.
NoGapBehindCursor ==
  \A j, k \in Visible :
    (rows[j] # "absent" /\ createdAt[j] < createdAt[k] /\ createdAt[k] <= cursor * Grain)
      => \/ rows[k] # "absent"
         \/ phase[k] = "fanout"
         \/ <<"upsert", k>> \in tasks
         \/ \E s \in Syncs : k \in page[s]

\* The pull alone catches up: a fullSync takes one page only, but with refreshes
\* going on every message newer than the oldest one the phone has arrives, as
\* long as a page is not smaller than what one millisecond can hold.
PullCatchesUp ==
  \A k \in Theirs :
    (\E j \in Visible : k \in Visible /\ rows[j] # "absent" /\ createdAt[j] < createdAt[k])
      ~> rows[k] # "absent"

\* One tick is the truth: a row that left 'pending' is stored by the service,
\* whatever was dropped or killed on the way.
SentIsStored ==
  \A k \in Mine : rows[k] \notin {"absent", "pending"} => k \in Visible

\* What these rest on.  Every stamp is of a message of its own, and the next one
\* will be later; every reply, continuation and page is about a message the service
\* shows; and whatever is to move the cursor or to be acknowledged is in SQLite, or
\* is on the page that is being written before that.
StampsDiffer ==
  /\ \A k \in Keys : /\ k \in Stamped <=> createdAt[k] >= Grain
                     /\ createdAt[k] < Grain + Cardinality(Stamped)
  /\ \A j, k \in Stamped : createdAt[j] = createdAt[k] => j = k

WorkIsBacked ==
  /\ \A r \in replies : r[2] \in Visible
  /\ \A t \in tasks :
       /\ IF t[1] = "insert" THEN t[2] \in Mine ELSE t[2] \in Visible
       /\ t[1] \in {"cursor", "ack"} => rows[t[2]] # "absent"
       /\ t[1] = "ack" => t[2] \in Theirs
  /\ \A s \in Syncs :
       /\ page[s] \subseteq Visible
       /\ \A k \in received[s] : k \in page[s] \/ rows[k] # "absent"
       /\ spc[s] = "cursor" => \A k \in Keys : IsFirst(s, k) => rows[k] # "absent"

\* The inductive invariant.
PhoneInv == /\ TypeOK
            /\ StampsDiffer
            /\ WorkIsBacked
            /\ CursorIsBacked
            /\ AckedIsDurable
            /\ SentIsStored

\* However fullSync and the handlers of live frames interleave, the cursor never
\* moves back (the MAX of setSyncCursor), retries, echoes and syncs never send a
\* row back to 'pending', and 'read' stays (the CASE of upsertServerMessage and of
\* ackSent, OR IGNORE).
NothingGoesBack ==
  [][/\ cursor' >= cursor
     /\ \A k \in Mine :
          /\ rows[k] \notin {"absent", "pending"} =>
                rows'[k] \notin {"absent", "pending"}
          /\ rows[k] = "read" => rows'[k] = "read"]_vars

\* Optimistic send, once durable, is never forgotten: a pending row is stored
\* by the service in the end, and shown as sent.
PendingIsSent ==
  \A k \in Mine : rows[k] = "pending" ~> (k \in Visible /\ rows[k] # "pending")
===============================================================================
