----------------------------- MODULE ChatPipeline -----------------------------
(***************************************************************************)
(* The gateway's path of a chat_message frame (ws.service.ts: onFrame,     *)
(* onChatMessage; messages.service.ts: persist; conversations.service.ts:  *)
(* assertMember, memberIds; push.service.ts: notifyOffline), for one       *)
(* conversation.                                                           *)
(*                                                                         *)
(* A socket's frames are handled by `void this.onFrame(...)`: nothing      *)
(* waits for the handler of the frame before, so a handler is a process    *)
(* that gives way at every await.  Handler h is in state pc[h] while it    *)
(* waits for the call named there; the code between two awaits is one      *)
(* action.  Statements of the database are atomic (each is a transaction   *)
(* of its own, there is no BEGIN in the gateway).  What a handler read     *)
(* before an await (row, to) stays in its variables and may be stale.      *)
(*                                                                         *)
(* Clients retry: any key may be sent again at any time while its socket   *)
(* is up.  Handlers fail (a database or Redis call throws) and the         *)
(* instance crashes, MaxFaults times in all.                               *)
(***************************************************************************)
EXTENDS Naturals, FiniteSets

CONSTANTS Users,      \* everyone who can open a socket
          Members,    \* rows of conversation_members for the conversation
          Cmids,      \* client_msg_id values
          Ids,        \* server UUIDs
          Handlers,   \* calls of onFrame that can be in progress at once
          MaxFrames,  \* bound: chat_message frames sent, retries included
          MaxDrops,   \* bound: sockets lost
          MaxFaults,  \* bound: failed awaits and crashes of the instance
          NoKey, NoRow, NoUser

ASSUME BoundsAreNumbers == MaxFrames \in Nat /\ MaxDrops \in Nat /\ MaxFaults \in Nat
ASSUME MembersAreUsers == Members \subseteq Users
ASSUME Absent == /\ NoKey \notin Users \X Cmids
                 /\ NoRow \notin [key : Users \X Cmids, id : Ids]
                 /\ NoUser \notin Users

VARIABLES messages,   \* the table: set of rows [key, id]
          pc,         \* what each handler waits for
          key,        \* the frame it handles: <<conn.userId, clientMsgId>>
          open,       \* the socket the frame came in on is still open
          row,        \* the result of persist
          left,       \* members the fan-out has not come to yet
          to,         \* the member whose presence was read, or none
          sock,       \* "down", "opening" (subscribed), "up" (listening)
          presence,   \* users whose presence:{user} key exists
          acks,       \* rows named by a send_ack that reached the sender
          got,        \* <<user, row>> of chat_message frames that arrived
          lost,       \* <<user, row>> published while nobody subscribed
          rung,       \* <<user, row>> handed to the push service
          frames, drops, faults

handlerVars == <<pc, key, open, row, left, to>>
clientVars == <<sock, presence, acks, got, lost, rung>>
bounds == <<frames, drops, faults>>
vars == <<messages, handlerVars, clientVars, bounds>>

Keys == Users \X Cmids
Rows == [key : Keys, id : Ids]
SenderOf(k) == k[1]

States == {"idle", "member", "insert", "select", "ack", "fanout",
           "publish", "push"}

Stored(k) == \E r \in messages : r.key = k

TypeOK == /\ messages \subseteq Rows
          /\ pc \in [Handlers -> States]
          /\ key \in [Handlers -> Keys \cup {NoKey}]
          /\ open \in [Handlers -> BOOLEAN]
          /\ row \in [Handlers -> Rows \cup {NoRow}]
          /\ left \in [Handlers -> SUBSET Members]
          /\ to \in [Handlers -> Users \cup {NoUser}]
          /\ sock \in [Users -> {"down", "opening", "up"}]
          /\ presence \subseteq Users
          /\ acks \subseteq Rows
          /\ got \subseteq Users \X Rows
          /\ lost \subseteq Users \X Rows
          /\ rung \subseteq Users \X Rows
          /\ frames \in 0 .. MaxFrames
          /\ drops \in 0 .. MaxDrops
          /\ faults \in 0 .. MaxFaults

Init == /\ messages = {}
        /\ pc = [h \in Handlers |-> "idle"]
        /\ key = [h \in Handlers |-> NoKey]
        /\ open = [h \in Handlers |-> FALSE]
        /\ row = [h \in Handlers |-> NoRow]
        /\ left = [h \in Handlers |-> {}]
        /\ to = [h \in Handlers |-> NoUser]
        /\ sock = [u \in Users |-> "down"]
        /\ presence = {}
        /\ acks = {} /\ got = {} /\ lost = {} /\ rung = {}
        /\ frames = 0 /\ drops = 0 /\ faults = 0

----------------------------------------------------------------------------
\* Sockets and presence: what the chat handlers see of them.

\* onConnect: the upgrade is done and deliver:{u} is subscribed, but the
\* listener for frames is not attached yet.
Connect(u) ==
  /\ sock[u] = "down"
  /\ sock' = [sock EXCEPT ![u] = "opening"]
  /\ UNCHANGED <<messages, handlerVars, presence, acks, got, lost, rung,
                 bounds>>

\* The rest of onConnect: the presence key is set, then the listeners.
Announce(u) ==
  /\ sock[u] = "opening"
  /\ sock' = [sock EXCEPT ![u] = "up"]
  /\ presence' = presence \cup {u}
  /\ UNCHANGED <<messages, handlerVars, acks, got, lost, rung, bounds>>

\* A heartbeat frame sets the key again.
Heartbeat(u) ==
  /\ sock[u] = "up" /\ u \notin presence
  /\ presence' = presence \cup {u}
  /\ UNCHANGED <<messages, handlerVars, sock, acks, got, lost, rung,
                 bounds>>

\* The socket closes.  Its handlers go on, with a socket that is not OPEN.
Drop(u) ==
  /\ sock[u] # "down" /\ drops < MaxDrops
  /\ drops' = drops + 1
  /\ sock' = [sock EXCEPT ![u] = "down"]
  /\ open' = [h \in Handlers |->
               open[h] /\ (key[h] = NoKey \/ SenderOf(key[h]) # u)]
  /\ UNCHANGED <<messages, pc, key, row, left, to, presence, acks, got,
                 lost, rung, frames, faults>>

\* onDisconnect deletes the presence key some time after the socket closed; a
\* key whose heartbeats come late expires under an open socket too.
Forget(u) ==
  /\ u \in presence
  /\ presence' = presence \ {u}
  /\ UNCHANGED <<messages, handlerVars, sock, acks, got, lost, rung,
                 bounds>>

----------------------------------------------------------------------------
\* The handler of one frame.

\* A frame reaches onFrame; the flood guard (100 frames in 10 s) refuses it
\* with RATE_LIMITED, and nothing comes of it ...
Refuse(k) ==
  /\ sock[SenderOf(k)] = "up" /\ frames < MaxFrames
  /\ frames' = frames + 1
  /\ UNCHANGED <<messages, handlerVars, clientVars, drops, faults>>

\* ... or lets it pass to onChatMessage, which awaits assertMember.
Receive(h, k) ==
  /\ pc[h] = "idle"
  /\ sock[SenderOf(k)] = "up" /\ frames < MaxFrames
  /\ frames' = frames + 1
  /\ pc' = [pc EXCEPT ![h] = "member"]
  /\ key' = [key EXCEPT ![h] = k]
  /\ open' = [open EXCEPT ![h] = TRUE]
  /\ UNCHANGED <<messages, row, left, to, clientVars, drops, faults>>

\* The handler returns, or its catch block answers with an error frame.
Return(h) ==
  /\ pc' = [pc EXCEPT ![h] = "idle"]
  /\ key' = [key EXCEPT ![h] = NoKey]
  /\ open' = [open EXCEPT ![h] = FALSE]
  /\ row' = [row EXCEPT ![h] = NoRow]
  /\ left' = [left EXCEPT ![h] = {}]
  /\ to' = [to EXCEPT ![h] = NoUser]

Admit(h) ==
  /\ pc[h] = "member"
  /\ SenderOf(key[h]) \in Members
  /\ pc' = [pc EXCEPT ![h] = "insert"]
  /\ UNCHANGED <<messages, key, open, row, left, to, clientVars, bounds>>

\* NOT_A_MEMBER.
Reject(h) ==
  /\ pc[h] = "member"
  /\ SenderOf(key[h]) \notin Members
  /\ Return(h)
  /\ UNCHANGED <<messages, clientVars, bounds>>

\* Mutant: ON CONFLICT DO UPDATE SET id = EXCLUDED.id.
InsertOverwrites(h, id) ==
  /\ pc[h] = "insert"
  /\ \A r \in messages : r.id # id
  /\ LET new == [key |-> key[h], id |-> id] IN
       /\ messages' = {r \in messages : r.key # key[h]} \cup {new}
       /\ row' = [row EXCEPT ![h] = new]
  /\ pc' = [pc EXCEPT ![h] = "ack"]
  /\ UNCHANGED <<key, open, left, to, clientVars, bounds>>

\* INSERT ... ON CONFLICT (sender_id, client_msg_id) DO NOTHING RETURNING.
Insert(h, id) ==
  /\ pc[h] = "insert"
  /\ ~Stored(key[h])
  /\ \A r \in messages : r.id # id
  /\ LET new == [key |-> key[h], id |-> id] IN
       /\ messages' = messages \cup {new}
       /\ row' = [row EXCEPT ![h] = new]
  /\ pc' = [pc EXCEPT ![h] = "ack"]
  /\ UNCHANGED <<key, open, left, to, clientVars, bounds>>

\* The same statement when the key is there: no row is returned ...
Conflict(h) ==
  /\ pc[h] = "insert"
  /\ Stored(key[h])
  /\ pc' = [pc EXCEPT ![h] = "select"]
  /\ UNCHANGED <<messages, key, open, row, left, to, clientVars, bounds>>

\* Mutant: the conflict path answers with the id of this attempt.
SelectOwnId(h) ==
  /\ pc[h] = "select"
  /\ \E id \in Ids : row' = [row EXCEPT ![h] = [key |-> key[h], id |-> id]]
  /\ pc' = [pc EXCEPT ![h] = "ack"]
  /\ UNCHANGED <<messages, key, open, left, to, clientVars, bounds>>

\* ... and the original row is read.
SelectOriginal(h) ==
  /\ pc[h] = "select"
  /\ \E r \in messages : /\ r.key = key[h]
                         /\ row' = [row EXCEPT ![h] = r]
  /\ pc' = [pc EXCEPT ![h] = "ack"]
  /\ UNCHANGED <<messages, key, open, left, to, clientVars, bounds>>

\* persist returned: send_ack to the socket the frame came in on, if it is
\* still open; then the fan-out starts with memberIds.
SendAck(h) ==
  /\ pc[h] = "ack"
  /\ acks' = IF open[h] THEN acks \cup {row[h]} ELSE acks
  /\ left' = [left EXCEPT ![h] = Members]
  /\ pc' = [pc EXCEPT ![h] = "fanout"]
  /\ UNCHANGED <<messages, key, open, row, to, sock, presence, got, lost,
                 rung, bounds>>

\* kv.publish of deliver:{u}: whoever is subscribed gets the frame.
PublishTo(u, h) ==
  /\ IF sock[u] # "down"
       THEN got' = got \cup {<<u, row[h]>>} /\ UNCHANGED lost
       ELSE lost' = lost \cup {<<u, row[h]>>} /\ UNCHANGED got
  /\ left' = [left EXCEPT ![h] = @ \ {u}]

\* Mutant: the branch of the sender leaves the loop instead of continuing it.
EchoBreaks(h) ==
  /\ pc[h] = "fanout"
  /\ SenderOf(key[h]) \in left[h]
  /\ IF sock[SenderOf(key[h])] # "down"
       THEN got' = got \cup {<<SenderOf(key[h]), row[h]>>} /\ UNCHANGED lost
       ELSE lost' = lost \cup {<<SenderOf(key[h]), row[h]>>} /\ UNCHANGED got
  /\ left' = [left EXCEPT ![h] = {}]
  /\ UNCHANGED <<messages, pc, key, open, row, to, sock, presence, acks, rung,
                 bounds>>

\* The sender's other devices get the message without a look at presence.
Echo(h) ==
  /\ pc[h] = "fanout"
  /\ SenderOf(key[h]) \in left[h]
  /\ PublishTo(SenderOf(key[h]), h)
  /\ UNCHANGED <<messages, pc, key, open, row, to, sock, presence, acks,
                 rung, bounds>>

\* The presence key of another member is read; what it says decides what is
\* awaited next.
ReadPresence(h, u) ==
  /\ pc[h] = "fanout"
  /\ u \in left[h] \ {SenderOf(key[h])}
  /\ to' = [to EXCEPT ![h] = u]
  /\ pc' = [pc EXCEPT ![h] = IF u \in presence THEN "publish" ELSE "push"]
  /\ UNCHANGED <<messages, key, open, row, left, clientVars, bounds>>

Publish(h) ==
  /\ pc[h] = "publish"
  /\ PublishTo(to[h], h)
  /\ to' = [to EXCEPT ![h] = NoUser]
  /\ pc' = [pc EXCEPT ![h] = "fanout"]
  /\ UNCHANGED <<messages, key, open, row, sock, presence, acks, rung,
                 bounds>>

\* push.notifyOffline; it catches the errors of the push endpoints itself.
Push(h) ==
  /\ pc[h] = "push"
  /\ rung' = rung \cup {<<to[h], row[h]>>}
  /\ left' = [left EXCEPT ![h] = @ \ {to[h]}]
  /\ to' = [to EXCEPT ![h] = NoUser]
  /\ pc' = [pc EXCEPT ![h] = "fanout"]
  /\ UNCHANGED <<messages, key, open, row, sock, presence, acks, got,
                 lost, bounds>>

\* The loop over memberIds is over.
Finish(h) ==
  /\ pc[h] = "fanout" /\ left[h] = {}
  /\ Return(h)
  /\ UNCHANGED <<messages, clientVars, bounds>>

\* The awaited call throws: the catch block of onFrame ends the handler, and
\* what it had done by then stays done.
Fail(h) ==
  /\ pc[h] # "idle" /\ faults < MaxFaults
  /\ faults' = faults + 1
  /\ Return(h)
  /\ UNCHANGED <<messages, clientVars, frames, drops>>

\* The instance dies: its handlers and sockets are gone; Postgres and Redis
\* are not.
Crash ==
  /\ faults < MaxFaults
  /\ faults' = faults + 1
  /\ pc' = [h \in Handlers |-> "idle"]
  /\ key' = [h \in Handlers |-> NoKey]
  /\ open' = [h \in Handlers |-> FALSE]
  /\ row' = [h \in Handlers |-> NoRow]
  /\ left' = [h \in Handlers |-> {}]
  /\ to' = [h \in Handlers |-> NoUser]
  /\ sock' = [u \in Users |-> "down"]
  /\ UNCHANGED <<messages, presence, acks, got, lost, rung, frames, drops>>

----------------------------------------------------------------------------
Environment == \/ \E u \in Users : \/ Connect(u) \/ Announce(u) \/ Heartbeat(u)
                                   \/ Drop(u) \/ Forget(u)
               \/ \E k \in Keys : Refuse(k)
               \/ Crash

\* The continuations of handler h: the event loop runs them when the call
\* they wait for settles.
Continue(h) == \/ Admit(h) \/ Reject(h) \/ Conflict(h) \/ SelectOriginal(h)
               \/ \E id \in Ids : Insert(h, id)
               \/ SendAck(h) \/ Echo(h) \/ Publish(h) \/ Push(h) \/ Finish(h)
               \/ \E u \in Members : ReadPresence(h, u)

Next == \/ Environment
        \/ \E h \in Handlers : \/ \E k \in Keys : Receive(h, k)
                               \/ Continue(h)
                               \/ Fail(h)

Spec == Init /\ [][Next]_vars

----------------------------------------------------------------------------
\* Properties.

\* Exactly-once storage: however often a frame is retried and however its
\* handlers interleave, fail or crash, one (sender, clientMsgId) has one row
\* (docs/architecture.md:31, the ON CONFLICT of persist).
ExactlyOnceStorage == \A r, s \in messages : r.key = s.key => r = s

\* A row has a sender that belongs to the conversation: assertMember comes
\* before the INSERT on every path.
OnlyMembersWrite == \A r \in messages : SenderOf(r.key) \in Members

\* Whatever the sender was told, and whatever a member was shown or rung for,
\* names the row that is stored, so a retry that lost the race of its own
\* duplicate still reports the id of the winner, and nobody outside the
\* conversation is told (persist's conflict path, onChatMessage's fan-out).
ReportsNameStoredRows ==
  /\ acks \subseteq messages
  /\ got \cup lost \cup rung \subseteq Members \X messages

\* What a handler holds across its awaits.  From the INSERT on it holds the
\* stored row of its own frame, and before that its sender is known to be a
\* member; nothing a concurrent handler does makes it stale.
HandlersHoldTheirRow ==
  \A h \in Handlers :
    /\ pc[h] # "idle" => key[h] \in Keys
    /\ pc[h] \in {"insert", "select"} => SenderOf(key[h]) \in Members
    /\ pc[h] \in {"ack", "fanout", "publish", "push"} =>
         row[h] \in messages /\ row[h].key = key[h]
    /\ pc[h] \in {"publish", "push"} => to[h] \in left[h]

\* What a fan-out has come to is done: a member that is no longer in left was
\* published to or rung, and a stored row that is not through has a handler.
FanoutLeavesNoHoles ==
  /\ \A h \in Handlers :
       pc[h] \in {"fanout", "publish", "push"}
         => (Members \ left[h]) \X {row[h]} \subseteq got \cup lost \cup rung
  /\ faults = 0 =>
       \A r \in messages :
         \/ Members \X {r} \subseteq got \cup lost \cup rung
         \/ \E h \in Handlers : /\ pc[h] \in {"ack", "fanout", "publish", "push"}
                                /\ row[h] = r

IdsAreUnique == \A r, s \in messages : r.id = s.id => r = s

\* The inductive invariant: the safety properties above need
\* HandlersHoldTheirRow to be inductive, because an acknowledgement or a frame
\* is made from the row a handler read several awaits ago; what is said of the
\* fan-out needs all of them.
RowsInv == /\ TypeOK
           /\ ExactlyOnceStorage
           /\ IdsAreUnique
           /\ OnlyMembersWrite
           /\ HandlersHoldTheirRow
           /\ ReportsNameStoredRows

PipelineInv == RowsInv /\ FanoutLeavesNoHoles

\* With no call failing, nobody is forgotten: once no handler is at work on a
\* stored message, every member, sender included, was published to or rung for
\* it, whichever members connected or vanished while the loop over memberIds
\* ran, and whichever retry of the frame it was that stored it.
NobodyIsSkipped ==
  faults = 0 =>
    \A r \in messages :
      (\A h \in Handlers : key[h] # r.key)
        => Members \X {r} \subseteq got \cup lost \cup rung

\* The pipeline implements the promise of MessageStore.
Store == INSTANCE MessageStore WITH
           Readers <- Users, stored <- messages, acked <- acks, shown <- got

ImplementsMessageStore == Store!Spec
===============================================================================
