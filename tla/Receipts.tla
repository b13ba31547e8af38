------------------------------- MODULE Receipts -------------------------------
(***************************************************************************)
(* Receipts of one conversation: ws.service.ts onReceipt, the watermark    *)
(* and delivered_at of messages.service.ts, the unread count of            *)
(* conversations.service.ts, and the status an author's client shows       *)
(* (markStatuses of chatRepo.ts on mobile and of store.ts on the web).     *)
(*                                                                         *)
(* Messages are numbered in the order of created_at.  As in ChatPipeline a *)
(* handler gives way at every await, so receipts sent in one order are     *)
(* stored, and routed to the authors, in any other.                        *)
(***************************************************************************)
EXTENDS Naturals, FiniteSets

CONSTANTS Users,       \* everyone with a socket
          Members,     \* of the conversation
          Handlers,    \* calls of onReceipt in progress at once
          MaxMessages, \* bound: messages of the conversation
          MaxReceipts, \* bound: receipt frames sent
          MaxFailures, \* bound: awaits that throw
          MaxLost,     \* bound: frames published to an author who is offline
          NoReceipt

ASSUME MembersAreUsers == Members \subseteq Users
ASSUME BoundsAreNumbers == /\ MaxMessages \in Nat /\ MaxReceipts \in Nat
                           /\ MaxFailures \in Nat /\ MaxLost \in Nat

Kinds == {"delivery_ack", "read_ack"}
Messages == 1 .. MaxMessages
Receipts == [from : Users, kind : Kinds, ids : SUBSET Messages \ {{}}]

ASSUME NoReceiptIsNone == NoReceipt \notin Receipts

VARIABLES author,     \* author[m] for the messages stored so far
          delivered,  \* messages whose delivered_at is set
          watermark,  \* last_read_message_id of a member, 0 when NULL
          pc,         \* "idle", "member", "update", "senders", "publish"
          receipt,    \* the frame a handler works on
          owed,       \* authors it has not published to yet
          status,     \* status[m] in the author's client
          completed,  \* completed[u]: messages of u's read_acks that ran to the end
          receipts, failures, losses

handlerVars == <<pc, receipt, owed>>
bounds == <<receipts, failures, losses>>
vars == <<author, delivered, watermark, handlerVars, status, completed, bounds>>

Stored == DOMAIN author

\* markStatuses: the rank of a status in the author's client.
Rank == [sent |-> 1, delivered |-> 2, read |-> 3]

TypeOK == /\ \E n \in 0 .. MaxMessages : author \in [1 .. n -> Members]
          /\ delivered \subseteq Stored
          /\ watermark \in [Members -> {0} \cup Stored]
          /\ pc \in [Handlers -> {"idle", "member", "update", "senders", "publish"}]
          /\ receipt \in [Handlers -> Receipts \cup {NoReceipt}]
          /\ owed \in [Handlers -> SUBSET Members]
          /\ status \in [Stored -> DOMAIN Rank]
          /\ completed \in [Members -> SUBSET Stored]
          /\ receipts \in 0 .. MaxReceipts
          /\ failures \in 0 .. MaxFailures
          /\ losses \in 0 .. MaxLost

Init == /\ author = [m \in {} |-> m]
        /\ delivered = {}
        /\ watermark = [u \in Members |-> 0]
        /\ pc = [h \in Handlers |-> "idle"]
        /\ receipt = [h \in Handlers |-> NoReceipt]
        /\ owed = [h \in Handlers |-> {}]
        /\ status = [m \in {} |-> m]
        /\ completed = [u \in Members |-> {}]
        /\ receipts = 0 /\ failures = 0 /\ losses = 0

----------------------------------------------------------------------------
\* A member's message is stored and acknowledged (module ChatPipeline).
Post(a) ==
  LET m == Cardinality(Stored) + 1 IN
  /\ m \in Messages
  /\ author' = [n \in Stored \cup {m} |-> IF n = m THEN a ELSE author[n]]
  /\ status' = [n \in Stored \cup {m} |-> IF n = m THEN "sent" ELSE status[n]]
  /\ UNCHANGED <<delivered, watermark, handlerVars, completed, bounds>>

\* A client acks a batch of messages of others; onFrame dispatches it.
Receive(h, r) ==
  /\ pc[h] = "idle" /\ receipts < MaxReceipts
  /\ \A m \in r.ids : m \in Stored /\ author[m] # r.from
  /\ receipts' = receipts + 1
  /\ pc' = [pc EXCEPT ![h] = "member"]
  /\ receipt' = [receipt EXCEPT ![h] = r]
  /\ UNCHANGED <<author, delivered, watermark, owed, status, completed, failures, losses>>

Return(h) ==
  /\ pc' = [pc EXCEPT ![h] = "idle"]
  /\ receipt' = [receipt EXCEPT ![h] = NoReceipt]
  /\ owed' = [owed EXCEPT ![h] = {}]

Admit(h) ==
  /\ pc[h] = "member"
  /\ receipt[h].from \in Members
  /\ pc' = [pc EXCEPT ![h] = "update"]
  /\ UNCHANGED <<author, delivered, watermark, receipt, owed, status, completed, bounds>>

Reject(h) ==
  /\ pc[h] = "member"
  /\ receipt[h].from \notin Members
  /\ Return(h)
  /\ UNCHANGED <<author, delivered, watermark, status, completed, bounds>>

\* UPDATE messages SET delivered_at = now() WHERE ... delivered_at IS NULL.
MarkDelivered(h) ==
  /\ pc[h] = "update" /\ receipt[h].kind = "delivery_ack"
  /\ delivered' = delivered \cup receipt[h].ids
  /\ pc' = [pc EXCEPT ![h] = "senders"]
  /\ UNCHANGED <<author, watermark, receipt, owed, status, completed, bounds>>

\* The newest of the acked messages: ORDER BY created_at DESC LIMIT 1.
IsTarget(m, ids) == \A n \in ids : n <= m

\* Mutant: the UPDATE does not compare with the watermark it replaces.
AdvanceAlways(h) ==
  /\ pc[h] = "update" /\ receipt[h].kind = "read_ack"
  /\ \E m \in receipt[h].ids :
       /\ IsTarget(m, receipt[h].ids)
       /\ watermark' = [watermark EXCEPT ![receipt[h].from] = m]
  /\ pc' = [pc EXCEPT ![h] = "senders"]
  /\ UNCHANGED <<author, delivered, receipt, owed, status, completed, bounds>>

\* Mutant: only the IS NULL branch of the comparison is left.
AdvanceOnce(h) ==
  /\ pc[h] = "update" /\ receipt[h].kind = "read_ack"
  /\ \E m \in receipt[h].ids :
       /\ IsTarget(m, receipt[h].ids)
       /\ watermark' = [watermark EXCEPT ![receipt[h].from] = IF @ = 0 THEN m ELSE @]
  /\ pc' = [pc EXCEPT ![h] = "senders"]
  /\ UNCHANGED <<author, delivered, receipt, owed, status, completed, bounds>>

\* The watermark moves to the target unless it is past it already; the test
\* is in the WHERE clause of the UPDATE itself.
AdvanceReadWatermark(h) ==
  /\ pc[h] = "update" /\ receipt[h].kind = "read_ack"
  /\ \E m \in receipt[h].ids :
       /\ IsTarget(m, receipt[h].ids)
       /\ watermark' = [watermark EXCEPT ![receipt[h].from] = IF @ <= m THEN m ELSE @]
  /\ pc' = [pc EXCEPT ![h] = "senders"]
  /\ UNCHANGED <<author, delivered, receipt, owed, status, completed, bounds>>

\* senderOf groups the ids by author; the loop skips the reader's own.
SendersOf(h) ==
  /\ pc[h] = "senders"
  /\ owed' = [owed EXCEPT ![h] = {author[m] : m \in receipt[h].ids} \ {receipt[h].from}]
  /\ pc' = [pc EXCEPT ![h] = "publish"]
  /\ UNCHANGED <<author, delivered, watermark, receipt, status, completed, bounds>>

\* Mutant: the UPDATE of markStatuses without its rank guard.
MarkAlways(ids, new) ==
  status' = [m \in Stored |-> IF m \in ids THEN new ELSE status[m]]

\* markStatuses in the author's client: only upwards.
MarkStatuses(ids, new) ==
  status' = [m \in Stored |-> IF m \in ids /\ Rank[status[m]] < Rank[new]
                              THEN new ELSE status[m]]

\* Mutant: the loop over bySender returns after its first publish.
PublishOnce(h, a) ==
  /\ pc[h] = "publish" /\ a \in owed[h]
  /\ owed' = [owed EXCEPT ![h] = {}]
  /\ MarkStatuses({m \in receipt[h].ids : author[m] = a},
                  IF receipt[h].kind = "read_ack" THEN "read" ELSE "delivered")
  /\ UNCHANGED <<author, delivered, watermark, pc, receipt, completed, bounds>>

\* The receipt is published to an author, who hears it or is offline.
Publish(h, a) ==
  /\ pc[h] = "publish" /\ a \in owed[h]
  /\ owed' = [owed EXCEPT ![h] = @ \ {a}]
  /\ \/ /\ MarkStatuses({m \in receipt[h].ids : author[m] = a},
                        IF receipt[h].kind = "read_ack" THEN "read" ELSE "delivered")
        /\ UNCHANGED losses
     \/ /\ losses < MaxLost
        /\ losses' = losses + 1
        /\ UNCHANGED status
  /\ UNCHANGED <<author, delivered, watermark, pc, receipt, completed, receipts, failures>>

Finish(h) ==
  /\ pc[h] = "publish" /\ owed[h] = {}
  /\ completed' = IF receipt[h].kind = "delivery_ack" THEN completed
                  ELSE [completed EXCEPT ![receipt[h].from] = @ \cup receipt[h].ids]
  /\ Return(h)
  /\ UNCHANGED <<author, delivered, watermark, status, bounds>>

\* The awaited call throws; onFrame's catch block ends the handler.
Fail(h) ==
  /\ pc[h] # "idle" /\ failures < MaxFailures
  /\ failures' = failures + 1
  /\ Return(h)
  /\ UNCHANGED <<author, delivered, watermark, status, completed, receipts, losses>>

----------------------------------------------------------------------------
Continue(h) == \/ Admit(h) \/ Reject(h) \/ MarkDelivered(h) \/ AdvanceReadWatermark(h)
               \/ SendersOf(h) \/ Finish(h)
               \/ \E a \in Members : Publish(h, a)

Next == \/ \E a \in Members : Post(a)
        \/ \E h \in Handlers : \/ \E r \in Receipts : Receive(h, r)
                               \/ Continue(h)
                               \/ Fail(h)

Spec == Init /\ [][Next]_vars

\* A settled call resumes its handler.
FairSpec == Spec /\ \A h \in Handlers : WF_vars(Continue(h))

----------------------------------------------------------------------------
\* The unread count of listForUser: the messages of others past the watermark.
Unread(u) == {m \in Stored : author[m] # u /\ m > watermark[u]}

\* Receipts only move forward, in whatever order they are handled: a watermark
\* never moves back, though a stale read_ack may be handled after a newer one
\* (messages.service.ts:55-57), and what an author is shown about a message only
\* gets better, for "acks can arrive out of order" (chatRepo.ts:149).
ReceiptsAreMonotonic ==
  [][/\ \A u \in Members : watermark'[u] >= watermark[u]
     /\ \A m \in Stored : Rank[status'[m]] >= Rank[status[m]]]_vars

\* Blue ticks do not lie: what an author sees as read is at or below the
\* watermark of another member, and what it sees as delivered has its
\* delivered_at set, whatever order the receipts were handled in.
TicksAreBacked ==
  \A m \in Stored :
    /\ status[m] = "read" =>
         \E u \in Members \ {author[m]} : m <= watermark[u]
    /\ status[m] = "delivered" => m \in delivered

\* A read_ack that ran to its end leaves no message it named unread, however
\* many receipts of the same reader overtook it.
ReadIsNotUnread == \A u \in Members : completed[u] \cap Unread(u) = {}

\* What these rest on.  Receipts name stored messages of others, from a member
\* once assertMember let them pass; after its UPDATE a receipt has left its mark
\* in the database, and no later receipt takes it back, so that what is published
\* an await later is still true.
ReceiptsLeaveMarks ==
  \A h \in Handlers :
    LET r == receipt[h] IN
    /\ pc[h] # "idle" => /\ r \in Receipts /\ r.ids \subseteq Stored
                         /\ \A m \in r.ids : author[m] # r.from
    /\ pc[h] \in {"update", "senders", "publish"} => r.from \in Members
    /\ pc[h] \in {"senders", "publish"} =>
         IF r.kind = "read_ack" THEN \A m \in r.ids : m <= watermark[r.from]
                                ELSE r.ids \subseteq delivered

\* The inductive invariant.
ReceiptsInv == TypeOK /\ ReceiptsLeaveMarks /\ TicksAreBacked /\ ReadIsNotUnread

\* While no call fails and no author is missed, a member's read_ack turns every
\* message it names to read in its author's client, however many authors the
\* batch has (the loop over bySender in onReceipt).
ReadReachesTheAuthor ==
  \A h \in Handlers, m \in Messages :
    (/\ pc[h] = "member" /\ receipt[h].kind = "read_ack"
     /\ m \in receipt[h].ids /\ receipt[h].from \in Members)
      ~> \/ m \in Stored /\ status[m] = "read"
         \/ failures > 0 \/ losses > 0
===============================================================================
