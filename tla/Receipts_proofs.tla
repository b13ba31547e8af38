---------------------------- MODULE Receipts_proofs ----------------------------
(***************************************************************************)
(* The safety of receipts for any number of members, messages and          *)
(* handlers: ReceiptsInv is inductive, and watermarks and statuses only    *)
(* move up.                                                                *)
(***************************************************************************)
EXTENDS Receipts, FiniteSetTheorems, TLAPS

\* Messages are numbered without gaps, so that the next one is Cardinality + 1.
LEMMA StoredIsAnInterval ==
  ASSUME TypeOK
  PROVE  \E n \in 0 .. MaxMessages : Stored = 1 .. n /\ Cardinality(Stored) = n
<1>1. PICK n \in 0 .. MaxMessages : author \in [1 .. n -> Members]
  BY DEF TypeOK
<1>2. n \in Nat
  BY <1>1, BoundsAreNumbers
<1>3. Stored = 1 .. n
  BY <1>1 DEF Stored
<1>4. Cardinality(1 .. n) = n
  BY <1>2, FS_Interval
<1>5. QED
  BY <1>3, <1>4

LEMMA StoredAreMessages == TypeOK => /\ Stored \subseteq Messages
                                     /\ author \in [Stored -> Members]
<1> SUFFICES ASSUME TypeOK PROVE Stored \subseteq Messages /\ author \in [Stored -> Members]
  OBVIOUS
<1>1. PICK n \in 0 .. MaxMessages : author \in [1 .. n -> Members]
  BY DEF TypeOK
<1>2. QED
  BY <1>1, BoundsAreNumbers DEF Stored, Messages

LEMMA InitInv == Init => ReceiptsInv
<1> SUFFICES ASSUME Init PROVE ReceiptsInv
  OBVIOUS
<1>1. Stored = {} /\ 1 .. 0 = {}
  BY DEF Init, Stored
<1>2. TypeOK
  <2>1. author \in [1 .. 0 -> Members]
    BY <1>1 DEF Init
  <2>2. 0 \in 0 .. MaxMessages /\ 0 \in 0 .. MaxReceipts /\ 0 \in 0 .. MaxFailures
        /\ 0 \in 0 .. MaxLost
    BY BoundsAreNumbers
  <2>3. QED
    BY <1>1, <2>1, <2>2 DEF Init, TypeOK
<1>3. QED
  BY <1>1, <1>2 DEF Init, ReceiptsInv, ReceiptsLeaveMarks, TicksAreBacked, ReadIsNotUnread,
     Unread

\* A new message leaves what is said of the others as it was.
LEMMA PostInv == ASSUME ReceiptsInv, NEW a \in Members, Post(a) PROVE ReceiptsInv'
<1> USE BoundsAreNumbers
<1> DEFINE m == Cardinality(Stored) + 1
<1>1. PICK n \in 0 .. MaxMessages : Stored = 1 .. n /\ Cardinality(Stored) = n
  BY StoredIsAnInterval DEF ReceiptsInv
<1>2. m = n + 1 /\ m \in Messages /\ m \notin Stored /\ n + 1 \in 0 .. MaxMessages
  BY <1>1 DEF Post, Messages
<1>3. Stored' = Stored \cup {m}
  BY DEF Post, Stored
<1>4. Stored' = 1 .. n + 1
  BY <1>1, <1>2, <1>3
<1>5. \A k \in Stored : author'[k] = author[k] /\ status'[k] = status[k]
  BY <1>2 DEF Post
<1>6. status'[m] = "sent"
  BY DEF Post
<1>7. TypeOK'
  <2>1. author' \in [1 .. n + 1 -> Members]
    BY <1>3, <1>4, StoredAreMessages DEF Post, ReceiptsInv
  <2>2. status' \in [Stored' -> DOMAIN Rank]
    BY <1>3 DEF Post, ReceiptsInv, TypeOK, Rank
  <2>3. QED
    BY <1>2, <1>3, <2>1, <2>2 DEF Post, ReceiptsInv, TypeOK, handlerVars, bounds
<1>8. ReceiptsLeaveMarks'
  BY <1>3, <1>5 DEF ReceiptsInv, ReceiptsLeaveMarks, Post, handlerVars, bounds
<1>9. TicksAreBacked'
  BY <1>3, <1>5, <1>6 DEF ReceiptsInv, TicksAreBacked, Post
<1>10. ReadIsNotUnread'
  <2>1. \A u \in Members : completed[u] \subseteq Stored
    BY DEF ReceiptsInv, TypeOK
  <2>2. QED
    BY <1>2, <1>3, <1>5, <2>1 DEF ReceiptsInv, ReadIsNotUnread, Unread, Post
<1>11. QED
  BY <1>7, <1>8, <1>9, <1>10 DEF ReceiptsInv

\* Steps of handlers: one case per action, one step per conjunct.
LEMMA HandlerInv ==
  ASSUME ReceiptsInv, NEW h \in Handlers,
         (\E r \in Receipts : Receive(h, r)) \/ Continue(h) \/ Fail(h)
  PROVE  ReceiptsInv'
<1> USE BoundsAreNumbers, MembersAreUsers DEF ReceiptsInv, handlerVars, bounds, Stored
<1>1. /\ Stored \subseteq Messages /\ Messages \subseteq Nat
      /\ author \in [Stored -> Members]
  BY StoredAreMessages DEF Messages
<1>2. /\ \A u \in Members : watermark[u] \in Nat
      /\ \A g \in Handlers, r \in Receipts : r.ids \subseteq Messages
  BY <1>1 DEF TypeOK, Receipts
<1>3. CASE \E r \in Receipts : Receive(h, r)
  <2>1. PICK r \in Receipts : Receive(h, r)
    BY <1>3
  <2>2. TypeOK'
    <3>1. receipts' \in 0 .. MaxReceipts
      BY <2>1 DEF TypeOK, Receive
    <3>2. receipt' \in [Handlers -> Receipts \cup {NoReceipt}]
      BY <2>1 DEF TypeOK, Receive
    <3>3. QED
      BY <2>1, <3>1, <3>2 DEF TypeOK, Receive
  <2>3. ReceiptsLeaveMarks'
    BY <1>1, <2>1 DEF TypeOK, ReceiptsLeaveMarks, Receive, Receipts
  <2>4. (TicksAreBacked /\ ReadIsNotUnread)'
    BY <2>1 DEF TicksAreBacked, ReadIsNotUnread, Unread, Receive
  <2>5. QED
    BY <2>2, <2>3, <2>4
<1>4. CASE Admit(h)
  <2>1. TypeOK'
    BY <1>4 DEF TypeOK, Admit
  <2>2. ReceiptsLeaveMarks'
    BY <1>4 DEF TypeOK, ReceiptsLeaveMarks, Admit
  <2>3. (TicksAreBacked /\ ReadIsNotUnread)'
    BY <1>4 DEF TicksAreBacked, ReadIsNotUnread, Unread, Admit
  <2>4. QED
    BY <2>1, <2>2, <2>3
<1>5. CASE Reject(h)
  <2>1. TypeOK'
    BY <1>5 DEF TypeOK, Reject, Return
  <2>2. ReceiptsLeaveMarks'
    BY <1>5 DEF TypeOK, ReceiptsLeaveMarks, Reject, Return
  <2>3. (TicksAreBacked /\ ReadIsNotUnread)'
    BY <1>5 DEF TicksAreBacked, ReadIsNotUnread, Unread, Reject, Return
  <2>4. QED
    BY <2>1, <2>2, <2>3
<1>6. CASE MarkDelivered(h)
  <2>1. delivered \subseteq delivered'
    BY <1>6 DEF MarkDelivered
  <2>2. receipt[h].ids \subseteq Stored /\ receipt[h].ids \subseteq delivered'
    BY <1>6 DEF ReceiptsLeaveMarks, MarkDelivered
  <2>3. TypeOK'
    BY <1>6, <2>2 DEF TypeOK, MarkDelivered
  <2>4. ReceiptsLeaveMarks'
    BY <1>6, <2>1, <2>2 DEF TypeOK, ReceiptsLeaveMarks, MarkDelivered
  <2>5. TicksAreBacked'
    BY <1>6, <2>1 DEF TicksAreBacked, MarkDelivered
  <2>6. ReadIsNotUnread'
    BY <1>6 DEF ReadIsNotUnread, Unread, MarkDelivered
  <2>7. QED
    BY <2>3, <2>4, <2>5, <2>6
<1>7. CASE AdvanceReadWatermark(h)
  <2> DEFINE r == receipt[h]
  <2>1. /\ r.from \in Members /\ r.ids \subseteq Stored /\ r.kind = "read_ack"
        /\ r \in Receipts
    BY <1>7 DEF ReceiptsLeaveMarks, AdvanceReadWatermark
  <2>2. PICK m \in r.ids : /\ IsTarget(m, r.ids)
                           /\ watermark' = [watermark EXCEPT ![r.from] = IF @ <= m THEN m ELSE @]
    BY <1>7 DEF AdvanceReadWatermark
  <2>3. /\ m \in Stored /\ m \in Nat
        /\ \A u \in Members : watermark'[u] \in Nat /\ watermark[u] <= watermark'[u]
    BY <1>1, <1>2, <2>1, <2>2 DEF TypeOK
  <2>4. \A n \in r.ids : n \in Nat /\ n <= watermark'[r.from]
    BY <1>1, <1>2, <2>1, <2>2, <2>3 DEF TypeOK, IsTarget
  <2>5. TypeOK'
    <3>1. watermark' \in [Members -> {0} \cup Stored]
      BY <2>1, <2>2, <2>3 DEF TypeOK
    <3>2. QED
      BY <1>7, <3>1 DEF TypeOK, AdvanceReadWatermark
  <2>6. ReceiptsLeaveMarks'
    <3> SUFFICES ASSUME NEW g \in Handlers
                 PROVE ReceiptsLeaveMarks!(g)'
      BY DEF ReceiptsLeaveMarks
    <3>1. CASE g = h
      BY <1>7, <2>1, <2>4, <3>1 DEF ReceiptsLeaveMarks, AdvanceReadWatermark, TypeOK
    <3>2. CASE g # h
      <4>1. pc'[g] = pc[g] /\ receipt' = receipt /\ author' = author /\ delivered' = delivered
        BY <1>7, <3>2 DEF AdvanceReadWatermark, TypeOK
      <4>2. pc[g] \in {"senders", "publish"} =>
              receipt[g].from \in Members /\ receipt[g].ids \subseteq Stored
        BY DEF ReceiptsLeaveMarks
      <4>3. QED
        BY <1>1, <1>2, <2>3, <4>1, <4>2 DEF ReceiptsLeaveMarks
    <3>3. QED
      BY <3>1, <3>2
  <2>7. TicksAreBacked'
    BY <1>1, <1>2, <1>7, <2>3 DEF TicksAreBacked, AdvanceReadWatermark
  <2>8. ReadIsNotUnread'
    BY <1>1, <1>2, <1>7, <2>3 DEF ReadIsNotUnread, Unread, AdvanceReadWatermark
  <2>9. QED
    BY <2>5, <2>6, <2>7, <2>8
<1>8. CASE SendersOf(h)
  <2>1. receipt[h].ids \subseteq Stored
    BY <1>8 DEF ReceiptsLeaveMarks, SendersOf
  <2>2. {author[m] : m \in receipt[h].ids} \subseteq Members
    BY <1>1, <2>1
  <2>3. TypeOK'
    BY <1>8, <2>2 DEF TypeOK, SendersOf
  <2>4. ReceiptsLeaveMarks'
    BY <1>8 DEF TypeOK, ReceiptsLeaveMarks, SendersOf
  <2>5. (TicksAreBacked /\ ReadIsNotUnread)'
    BY <1>8 DEF TicksAreBacked, ReadIsNotUnread, Unread, SendersOf
  <2>6. QED
    BY <2>3, <2>4, <2>5
<1>9. ASSUME NEW a \in Members, Publish(h, a) PROVE ReceiptsInv'
  <2> DEFINE r == receipt[h]
             new == IF r.kind = "read_ack" THEN "read" ELSE "delivered"
             ids == {m \in r.ids : author[m] = a}
  <2>1. /\ r.from \in Members /\ r.ids \subseteq Stored /\ r \in Receipts
        /\ \A m \in r.ids : author[m] # r.from
        /\ IF r.kind = "read_ack" THEN \A m \in r.ids : m <= watermark[r.from]
                                  ELSE r.ids \subseteq delivered
    BY <1>9 DEF ReceiptsLeaveMarks, Publish
  <2>2. \A m \in Stored : status'[m] = status[m] \/ (m \in r.ids /\ status'[m] = new)
    BY <1>9 DEF Publish, MarkStatuses
  <2>3. status' \in [Stored -> DOMAIN Rank]
    BY <1>9 DEF TypeOK, Publish, MarkStatuses, Rank
  <2>4. TypeOK'
    <3>1. losses' \in 0 .. MaxLost /\ owed' \in [Handlers -> SUBSET Members]
      BY <1>9 DEF TypeOK, Publish
    <3>2. /\ author' = author /\ delivered' = delivered /\ watermark' = watermark
          /\ pc' = pc /\ receipt' = receipt /\ completed' = completed
          /\ receipts' = receipts /\ failures' = failures
      BY <1>9 DEF Publish
    <3>3. QED
      BY <2>3, <3>1, <3>2 DEF TypeOK
  <2>5. ReceiptsLeaveMarks'
    BY <1>9 DEF TypeOK, ReceiptsLeaveMarks, Publish
  <2>6. TicksAreBacked'
    <3>1. SUFFICES ASSUME NEW m \in Stored
                   PROVE  /\ status'[m] = "read" =>
                               \E u \in Members \ {author[m]} : m <= watermark[u]
                          /\ status'[m] = "delivered" => m \in delivered
      BY <1>9 DEF TicksAreBacked, Publish
    <3>2. CASE status'[m] = status[m]
      BY <3>2 DEF TicksAreBacked
    <3>3. CASE m \in r.ids /\ status'[m] = new
      BY <2>1, <3>3
    <3>4. QED
      BY <2>2, <3>2, <3>3
  <2>7. ReadIsNotUnread'
    BY <1>9 DEF ReadIsNotUnread, Unread, Publish
  <2>8. QED
    BY <2>4, <2>5, <2>6, <2>7
<1>10. CASE Finish(h)
  <2> DEFINE r == receipt[h]
  <2>1. /\ r.from \in Members /\ r.ids \subseteq Stored /\ r \in Receipts
        /\ r.kind = "read_ack" => \A m \in r.ids : m <= watermark[r.from]
    BY <1>10 DEF ReceiptsLeaveMarks, Finish
  <2>2. TypeOK'
    <3>1. completed' \in [Members -> SUBSET Stored]
      BY <1>10, <2>1 DEF TypeOK, Finish
    <3>2. /\ pc' \in [Handlers -> {"idle", "member", "update", "senders", "publish"}]
          /\ receipt' \in [Handlers -> Receipts \cup {NoReceipt}]
          /\ owed' \in [Handlers -> SUBSET Members]
      BY <1>10 DEF TypeOK, Finish, Return
    <3>3. /\ author' = author /\ delivered' = delivered /\ watermark' = watermark
          /\ status' = status /\ receipts' = receipts /\ failures' = failures
          /\ losses' = losses
      BY <1>10 DEF Finish
    <3>4. QED
      BY <3>1, <3>2, <3>3 DEF TypeOK
  <2>3. ReceiptsLeaveMarks'
    BY <1>10 DEF TypeOK, ReceiptsLeaveMarks, Finish, Return
  <2>4. TicksAreBacked'
    BY <1>10 DEF TicksAreBacked, Finish, Return
  <2>5. ReadIsNotUnread'
    <3>1. SUFFICES ASSUME NEW u \in Members, NEW m \in completed'[u]
                   PROVE  (m \in Stored /\ author[m] # u) => m <= watermark[u]
      BY <1>1, <1>2, <1>10 DEF ReadIsNotUnread, Unread, Finish, Return
    <3>2. m \in completed[u] \/ (u = r.from /\ m \in r.ids /\ r.kind = "read_ack")
      BY <1>10, <2>1 DEF Finish, TypeOK, Receipts, Kinds
    <3>3. QED
      BY <1>1, <1>2, <2>1, <3>2 DEF ReadIsNotUnread, Unread
  <2>6. QED
    BY <2>2, <2>3, <2>4, <2>5
<1>11. CASE Fail(h)
  <2>1. TypeOK'
    BY <1>11 DEF TypeOK, Fail, Return
  <2>2. ReceiptsLeaveMarks'
    BY <1>11 DEF TypeOK, ReceiptsLeaveMarks, Fail, Return
  <2>3. (TicksAreBacked /\ ReadIsNotUnread)'
    BY <1>11 DEF TicksAreBacked, ReadIsNotUnread, Unread, Fail, Return
  <2>4. QED
    BY <2>1, <2>2, <2>3
<1>12. QED
  BY <1>3, <1>4, <1>5, <1>6, <1>7, <1>8, <1>9, <1>10, <1>11 DEF Continue

LEMMA StepInv == ReceiptsInv /\ [Next]_vars => ReceiptsInv'
<1> SUFFICES ASSUME ReceiptsInv, [Next]_vars PROVE ReceiptsInv'
  OBVIOUS
<1>1. CASE UNCHANGED vars
  BY <1>1 DEF vars, handlerVars, bounds, ReceiptsInv, TypeOK, Stored, ReceiptsLeaveMarks,
     TicksAreBacked, ReadIsNotUnread, Unread
<1>2. CASE Next
  BY <1>2, PostInv, HandlerInv DEF Next
<1>3. QED
  BY <1>1, <1>2

\* Whatever is shown or stored about receipts is as TicksAreBacked and
\* ReadIsNotUnread say, in every instance of AdvanceReadWatermark, onReceipt and
\* markStatuses running at once.
THEOREM ReceiptsSafety == Spec => []ReceiptsInv
<1>1. QED
  BY InitInv, StepInv, PTL DEF Spec

\* Blue ticks do not lie (status of a message in its author's client).
THEOREM TicksDoNotLie == Spec => []TicksAreBacked
<1>1. ReceiptsInv => TicksAreBacked
  BY DEF ReceiptsInv
<1>2. QED
  BY <1>1, ReceiptsSafety, PTL

\* A completed read_ack leaves nothing it named in the unread count.
THEOREM CompletedIsRead == Spec => []ReadIsNotUnread
<1>1. ReceiptsInv => ReadIsNotUnread
  BY DEF ReceiptsInv
<1>2. QED
  BY <1>1, ReceiptsSafety, PTL

\* No read_ack, however late, moves its reader's watermark back
\* (advanceReadWatermark).
LEMMA WatermarksRise ==
  ASSUME ReceiptsInv, [Next]_vars, NEW u \in Members
  PROVE  watermark'[u] >= watermark[u]
<1>1. Stored \subseteq Nat /\ watermark \in [Members -> Nat]
  <2>1. Stored \subseteq Nat /\ watermark \in [Members -> {0} \cup Stored]
    BY StoredAreMessages, BoundsAreNumbers DEF ReceiptsInv, Messages, TypeOK
  <2>2. {0} \cup Stored \subseteq Nat
    BY <2>1
  <2>3. \A v \in Members : watermark[v] \in Nat
    BY <2>1, <2>2
  <2>4. QED
    BY <2>1, <2>3
<1>2. CASE \E h \in Handlers : AdvanceReadWatermark(h)
  <2>1. PICK h \in Handlers : AdvanceReadWatermark(h)
    BY <1>2
  <2>2. PICK m \in receipt[h].ids :
          watermark' = [watermark EXCEPT ![receipt[h].from] = IF @ <= m THEN m ELSE @]
    BY <2>1 DEF AdvanceReadWatermark
  <2>3. m \in Stored
    BY <2>1 DEF ReceiptsInv, ReceiptsLeaveMarks, AdvanceReadWatermark
  <2>4. QED
    BY <1>1, <2>2, <2>3
<1>3. CASE ~\E h \in Handlers : AdvanceReadWatermark(h)
  <2>1. watermark' = watermark
    BY <1>3 DEF Next, vars, Continue, Post, Receive, Admit, Reject, MarkDelivered,
       SendersOf, Publish, Finish, Fail
  <2>2. QED
    BY <1>1, <2>1
<1>4. QED
  BY <1>2, <1>3

\* No receipt, however late, takes a tick back (markStatuses).
LEMMA StatusesRise ==
  ASSUME ReceiptsInv, [Next]_vars, NEW m \in Stored
  PROVE  Rank[status'[m]] >= Rank[status[m]]
<1>1. status[m] \in DOMAIN Rank
  BY DEF ReceiptsInv, TypeOK
<1>2. CASE \E a \in Members : Post(a)
  <2>1. PICK n \in 0 .. MaxMessages : Stored = 1 .. n /\ Cardinality(Stored) = n
    BY StoredIsAnInterval DEF ReceiptsInv
  <2>2. m # Cardinality(Stored) + 1
    BY <2>1, BoundsAreNumbers
  <2>3. status'[m] = status[m]
    BY <1>2, <2>2 DEF Post
  <2>4. QED
    BY <1>1, <2>3 DEF Rank
<1>3. CASE \E h \in Handlers, a \in Members : Publish(h, a)
  BY <1>1, <1>3 DEF Publish, MarkStatuses, Rank
<1>4. CASE ~(\E a \in Members : Post(a)) /\ ~(\E h \in Handlers, a \in Members : Publish(h, a))
  <2>1. status' = status
    BY <1>4 DEF Next, vars, Continue, Receive, Admit, Reject, MarkDelivered,
       AdvanceReadWatermark, SendersOf, Finish, Fail
  <2>2. QED
    BY <1>1, <2>1 DEF Rank
<1>5. QED
  BY <1>2, <1>3, <1>4

\* Receipts only move forward, whatever order they are handled in.
THEOREM ReceiptsOnlyRise == Spec => ReceiptsAreMonotonic
<1>1. ReceiptsInv /\ [Next]_vars => /\ \A u \in Members : watermark'[u] >= watermark[u]
                                    /\ \A m \in Stored : Rank[status'[m]] >= Rank[status[m]]
  BY WatermarksRise, StatusesRise
<1>2. QED
  BY <1>1, ReceiptsSafety, PTL DEF Spec, ReceiptsAreMonotonic
===============================================================================
