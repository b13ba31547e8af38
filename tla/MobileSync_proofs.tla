---------------------------- MODULE MobileSync_proofs ----------------------------
(***************************************************************************)
(* The safety of the mobile client for any number of messages, syncs,      *)
(* losses, any page size and any grain of the clock: PhoneInv is inductive, *)
(* and neither cursor nor outbox goes back.                                *)
(***************************************************************************)
EXTENDS MobileSync, TLAPS, FiniteSetTheorems

LEMMA StampedIsFinite == /\ IsFiniteSet(Stamped) /\ Cardinality(Stamped) \in Nat
                         /\ IsFiniteSet(Keys) /\ Cardinality(Keys) \in Nat
                         /\ Cardinality(Stamped) <= Cardinality(Keys)
<1>1. Stamped \subseteq Keys
  BY DEF Stamped
<1>2. QED
  BY <1>1, KeysAreFinite, FS_Subset, FS_CardinalityType

LEMMA MaxTickIsNat == MaxTick \in Nat
  BY StampedIsFinite, Sizes DEF MaxTick

\* A millisecond is not later than its ticks are many.
LEMMA MsIsTick ==
  ASSUME TypeOK, NEW k \in Keys
  PROVE  Ms(k) \in 0 .. MaxTick
<1>1. createdAt[k] \in Nat /\ createdAt[k] <= MaxTick
  BY StampedIsFinite, Sizes DEF TypeOK, MaxTick
<1>2. createdAt[k] \div Grain \in Nat /\ createdAt[k] \div Grain <= createdAt[k]
  BY <1>1, Sizes
<1>3. QED
  BY <1>1, <1>2, StampedIsFinite, Sizes DEF Ms, MaxTick

LEMMA InitInv == Init => PhoneInv
<1> SUFFICES ASSUME Init PROVE PhoneInv
  OBVIOUS
<1>1. TypeOK
  <2>1. 0 \in 0 .. MaxTick /\ 0 \in 0 .. MaxLosses
    BY Sizes, MaxTickIsNat
  <2>2. /\ wire \subseteq Mine /\ replies \subseteq {"acksent", "upsert"} \X Mine
        /\ named \subseteq Keys /\ tasks \subseteq Steps \X Keys /\ told \subseteq Theirs
    BY DEF Init
  <2>3. /\ createdAt \in [Keys -> 0 .. MaxTick] /\ since \in [Syncs -> 0 .. MaxTick]
        /\ cursor \in 0 .. MaxTick /\ losses \in 0 .. MaxLosses
    BY <2>1 DEF Init
  <2>4. QED
    BY <2>2, <2>3 DEF Init, TypeOK, Statuses
<1>2. StampsDiffer
  <2>1. Stamped = {} /\ \A k \in Keys : createdAt[k] = 0
    BY DEF Init, Stamped
  <2>2. QED
    BY <2>1, Sizes, FS_EmptySet DEF StampsDiffer
<1>3. \A k \in Keys : rows[k] = "absent"
  BY DEF Init
<1>4. QED
  BY <1>1, <1>2, <1>3 DEF Init, PhoneInv, WorkIsBacked, CursorIsBacked, AckedIsDurable, SentIsStored, Keys

\* Every step keeps the invariant, one case per action and one step per conjunct.
LEMMA StepInv == PhoneInv /\ [Next]_vars => PhoneInv'
<1> SUFFICES ASSUME PhoneInv, [Next]_vars PROVE PhoneInv'
  OBVIOUS
<1> USE KeysDiffer, Sizes DEF PhoneInv, service, sqlite, syncs, Visible, Keys
<1>1. ASSUME NEW k \in Keys, Stamp(k) PROVE PhoneInv'
  <2>1. k \notin Stamped /\ Stamped' = Stamped \cup {k} /\ Cardinality(Stamped') = Cardinality(Stamped) + 1
    <3>1. k \notin Stamped /\ Stamped' = Stamped \cup {k}
      BY <1>1 DEF Stamp, Stamped, TypeOK
    <3>2. QED
      BY <3>1, StampedIsFinite, FS_AddElement
  <2>2. Cardinality(Stamped) < Cardinality(Keys)
    <3>1. Stamped' \subseteq Keys
      BY DEF Stamped
    <3>2. Cardinality(Stamped') <= Cardinality(Keys)
      BY <3>1, StampedIsFinite, FS_Subset
    <3>3. QED
      BY <2>1, <3>2, StampedIsFinite
  <2>3. TypeOK'
    <3>1. Grain + Cardinality(Stamped) \in 0 .. MaxTick
      BY <2>2, StampedIsFinite DEF MaxTick
    <3>2. QED
      BY <1>1, <3>1 DEF TypeOK, Stamp
  <2>4. StampsDiffer'
    <3>1. /\ createdAt'[k] = Grain + Cardinality(Stamped)
          /\ \A j \in Keys \ {k} : createdAt'[j] = createdAt[j] /\ createdAt[j] \in Nat
      BY <1>1, MaxTickIsNat DEF TypeOK, Stamp
    <3>2. \A j \in Keys : (j \in Stamped' <=> j \in Stamped \/ j = k)
      BY <2>1
    <3>3. \A j \in Keys : /\ j \in Stamped' <=> createdAt'[j] >= Grain
                          /\ createdAt'[j] < Grain + Cardinality(Stamped')
      <4> TAKE j \in Keys
      <4>1. CASE j = k
        BY <2>1, <3>1, <4>1, StampedIsFinite
      <4>2. CASE j # k
        <5>1. /\ j \in Stamped <=> createdAt[j] >= Grain
              /\ createdAt[j] < Grain + Cardinality(Stamped)
          BY DEF StampsDiffer
        <5>2. QED
          BY <2>1, <3>1, <3>2, <4>2, <5>1, StampedIsFinite
      <4>3. QED
        BY <4>1, <4>2
    <3>4. \A i, j \in Stamped' : createdAt'[i] = createdAt'[j] => i = j
      BY <2>1, <3>1, StampedIsFinite DEF StampsDiffer, Stamped
    <3>5. QED
      BY <3>3, <3>4 DEF StampsDiffer
  <2>5. WorkIsBacked'
    <3>1. \A j \in Visible : j \in Visible' /\ createdAt'[j] = createdAt[j]
      BY <1>1 DEF TypeOK, Stamp
    <3>2. \A s \in Syncs, j \in Keys : IsFirst(s, j)' => IsFirst(s, j)
      BY <1>1, <3>1 DEF TypeOK, WorkIsBacked, IsFirst, Stamp
    <3>3. QED
      BY <1>1, <3>1, <3>2 DEF TypeOK, WorkIsBacked, Stamp
  <2>6. CursorIsBacked'
    BY <1>1 DEF TypeOK, CursorIsBacked, Ms, Stamp
  <2>7. AckedIsDurable' /\ SentIsStored'
    BY <1>1 DEF TypeOK, AckedIsDurable, SentIsStored, Stamp
  <2>8. QED
    BY <2>3, <2>4, <2>5, <2>6, <2>7
<1>2. ASSUME NEW k \in Keys, Commit(k) PROVE PhoneInv'
  <2>1. TypeOK'
    BY <1>2 DEF TypeOK, Statuses, Steps, Commit
  <2>2. StampsDiffer'
    BY <1>2 DEF TypeOK, StampsDiffer, Stamped, Commit
  <2>3. WorkIsBacked'
    BY <1>2 DEF TypeOK, WorkIsBacked, IsFirst, Commit
  <2>4. CursorIsBacked'
    BY <1>2 DEF TypeOK, CursorIsBacked, Ms, Commit
  <2>5. AckedIsDurable'
    BY <1>2 DEF TypeOK, AckedIsDurable, Commit
  <2>6. SentIsStored'
    BY <1>2 DEF TypeOK, SentIsStored, Commit
  <2>7. QED
    BY <2>1, <2>2, <2>3, <2>4, <2>5, <2>6
<1>3. ASSUME NEW k \in Keys, AnswerRetry(k) PROVE PhoneInv'
  <2>1. TypeOK'
    BY <1>3 DEF TypeOK, Statuses, Steps, AnswerRetry
  <2>2. StampsDiffer'
    BY <1>3 DEF TypeOK, StampsDiffer, Stamped, AnswerRetry
  <2>3. WorkIsBacked'
    BY <1>3 DEF TypeOK, WorkIsBacked, IsFirst, AnswerRetry
  <2>4. CursorIsBacked'
    BY <1>3 DEF TypeOK, CursorIsBacked, Ms, AnswerRetry
  <2>5. AckedIsDurable'
    BY <1>3 DEF TypeOK, AckedIsDurable, AnswerRetry
  <2>6. SentIsStored'
    BY <1>3 DEF TypeOK, SentIsStored, AnswerRetry
  <2>7. QED
    BY <2>1, <2>2, <2>3, <2>4, <2>5, <2>6
<1>4. ASSUME NEW r \in replies, Reply(r) PROVE PhoneInv'
  <2>1. TypeOK'
    BY <1>4 DEF TypeOK, Statuses, Steps, Reply, Hear, WorkIsBacked
  <2>2. StampsDiffer'
    BY <1>4 DEF TypeOK, StampsDiffer, Stamped, Reply, Hear
  <2>3. WorkIsBacked'
    BY <1>4 DEF TypeOK, WorkIsBacked, IsFirst, Reply, Hear
  <2>4. CursorIsBacked'
    BY <1>4 DEF TypeOK, CursorIsBacked, Ms, Reply, Hear
  <2>5. AckedIsDurable'
    BY <1>4 DEF TypeOK, AckedIsDurable, Reply, Hear
  <2>6. SentIsStored'
    BY <1>4 DEF TypeOK, SentIsStored, Reply, Hear
  <2>7. QED
    BY <2>1, <2>2, <2>3, <2>4, <2>5, <2>6
<1>5. ASSUME NEW k \in Keys, FanOut(k) PROVE PhoneInv'
  <2>1. TypeOK'
    BY <1>5 DEF TypeOK, Statuses, Steps, FanOut, Hear
  <2>2. StampsDiffer'
    BY <1>5 DEF TypeOK, StampsDiffer, Stamped, FanOut, Hear
  <2>3. WorkIsBacked'
    BY <1>5 DEF TypeOK, WorkIsBacked, IsFirst, FanOut, Hear
  <2>4. CursorIsBacked'
    BY <1>5 DEF TypeOK, CursorIsBacked, Ms, FanOut, Hear
  <2>5. AckedIsDurable'
    BY <1>5 DEF TypeOK, AckedIsDurable, FanOut, Hear
  <2>6. SentIsStored'
    BY <1>5 DEF TypeOK, SentIsStored, FanOut, Hear
  <2>7. QED
    BY <2>1, <2>2, <2>3, <2>4, <2>5, <2>6
<1>6. ASSUME NEW k \in Keys, Receipt(k, "delivered") \/ Receipt(k, "read") PROVE PhoneInv'
  <2>1. TypeOK'
    BY <1>6 DEF TypeOK, Statuses, Steps, Receipt, Hear
  <2>2. StampsDiffer'
    BY <1>6 DEF TypeOK, StampsDiffer, Stamped, Receipt, Hear
  <2>3. WorkIsBacked'
    BY <1>6 DEF TypeOK, WorkIsBacked, IsFirst, Receipt, Hear
  <2>4. CursorIsBacked'
    BY <1>6 DEF TypeOK, CursorIsBacked, Ms, Receipt, Hear
  <2>5. AckedIsDurable'
    BY <1>6 DEF TypeOK, AckedIsDurable, Receipt, Hear
  <2>6. SentIsStored'
    BY <1>6 DEF TypeOK, SentIsStored, Receipt, Hear
  <2>7. QED
    BY <2>1, <2>2, <2>3, <2>4, <2>5, <2>6
<1>7. CASE Launch
  <2>1. TypeOK'
    BY <1>7 DEF TypeOK, Statuses, Steps, Launch
  <2>2. StampsDiffer'
    BY <1>7 DEF TypeOK, StampsDiffer, Stamped, Launch
  <2>3. WorkIsBacked'
    BY <1>7 DEF TypeOK, WorkIsBacked, IsFirst, Launch
  <2>4. CursorIsBacked'
    BY <1>7 DEF TypeOK, CursorIsBacked, Ms, Launch
  <2>5. AckedIsDurable'
    BY <1>7 DEF TypeOK, AckedIsDurable, Launch
  <2>6. SentIsStored'
    BY <1>7 DEF TypeOK, SentIsStored, Launch
  <2>7. QED
    BY <2>1, <2>2, <2>3, <2>4, <2>5, <2>6
<1>8. CASE Connect
  <2>1. TypeOK'
    BY <1>8 DEF TypeOK, Statuses, Steps, Connect
  <2>2. StampsDiffer'
    BY <1>8 DEF TypeOK, StampsDiffer, Stamped, Connect
  <2>3. WorkIsBacked'
    BY <1>8 DEF TypeOK, WorkIsBacked, IsFirst, Connect
  <2>4. CursorIsBacked'
    BY <1>8 DEF TypeOK, CursorIsBacked, Ms, Connect
  <2>5. AckedIsDurable'
    BY <1>8 DEF TypeOK, AckedIsDurable, Connect
  <2>6. SentIsStored'
    BY <1>8 DEF TypeOK, SentIsStored, Connect
  <2>7. QED
    BY <2>1, <2>2, <2>3, <2>4, <2>5, <2>6
<1>9. CASE Drop
  <2>1. TypeOK'
    <3>1. losses' \in 0 .. MaxLosses
      BY <1>9 DEF TypeOK, Drop
    <3>2. since' \in [Syncs -> 0 .. MaxTick]
      BY <1>9, MaxTickIsNat DEF TypeOK, Drop
    <3>3. QED
      BY <1>9, <3>1, <3>2 DEF TypeOK, Drop
  <2>2. StampsDiffer'
    BY <1>9 DEF TypeOK, StampsDiffer, Stamped, Drop
  <2>3. WorkIsBacked'
    BY <1>9 DEF TypeOK, WorkIsBacked, IsFirst, Drop
  <2>4. CursorIsBacked'
    BY <1>9 DEF TypeOK, CursorIsBacked, Ms, Drop
  <2>5. AckedIsDurable'
    BY <1>9 DEF TypeOK, AckedIsDurable, Drop
  <2>6. SentIsStored'
    BY <1>9 DEF TypeOK, SentIsStored, Drop
  <2>7. QED
    BY <2>1, <2>2, <2>3, <2>4, <2>5, <2>6
<1>10. CASE Kill
  <2>1. TypeOK'
    <3>1. losses' \in 0 .. MaxLosses
      BY <1>10 DEF TypeOK, Kill
    <3>2. since' \in [Syncs -> 0 .. MaxTick]
      BY <1>10, MaxTickIsNat DEF TypeOK, Kill
    <3>3. QED
      BY <1>10, <3>1, <3>2 DEF TypeOK, Kill
  <2>2. StampsDiffer'
    BY <1>10 DEF TypeOK, StampsDiffer, Stamped, Kill
  <2>3. WorkIsBacked'
    BY <1>10 DEF TypeOK, WorkIsBacked, IsFirst, Kill
  <2>4. CursorIsBacked'
    BY <1>10 DEF TypeOK, CursorIsBacked, Ms, Kill
  <2>5. AckedIsDurable'
    BY <1>10 DEF TypeOK, AckedIsDurable, Kill
  <2>6. SentIsStored'
    BY <1>10 DEF TypeOK, SentIsStored, Kill
  <2>7. QED
    BY <2>1, <2>2, <2>3, <2>4, <2>5, <2>6
<1>11. ASSUME NEW k \in Keys, Compose(k) PROVE PhoneInv'
  <2>1. TypeOK'
    BY <1>11 DEF TypeOK, Statuses, Steps, Compose, Send
  <2>2. StampsDiffer'
    BY <1>11 DEF TypeOK, StampsDiffer, Stamped, Compose, Send
  <2>3. WorkIsBacked'
    BY <1>11 DEF TypeOK, WorkIsBacked, IsFirst, Compose, Send
  <2>4. CursorIsBacked'
    BY <1>11 DEF TypeOK, CursorIsBacked, Ms, Compose, Send
  <2>5. AckedIsDurable'
    BY <1>11 DEF TypeOK, AckedIsDurable, Compose, Send
  <2>6. SentIsStored'
    BY <1>11 DEF TypeOK, SentIsStored, Compose, Send
  <2>7. QED
    BY <2>1, <2>2, <2>3, <2>4, <2>5, <2>6
<1>12. ASSUME NEW k \in Keys, DoInsert(k) PROVE PhoneInv'
  <2>1. TypeOK'
    BY <1>12 DEF TypeOK, Statuses, Steps, DoInsert, Proceed, InsertPending
  <2>2. StampsDiffer'
    BY <1>12 DEF TypeOK, StampsDiffer, Stamped, DoInsert, Proceed, InsertPending
  <2>3. WorkIsBacked'
    BY <1>12 DEF TypeOK, WorkIsBacked, IsFirst, DoInsert, Proceed, InsertPending
  <2>4. CursorIsBacked'
    BY <1>12 DEF TypeOK, CursorIsBacked, Ms, DoInsert, Proceed, InsertPending
  <2>5. AckedIsDurable'
    BY <1>12 DEF TypeOK, AckedIsDurable, DoInsert, Proceed, InsertPending
  <2>6. SentIsStored'
    BY <1>12 DEF TypeOK, SentIsStored, DoInsert, Proceed, InsertPending, WorkIsBacked
  <2>7. QED
    BY <2>1, <2>2, <2>3, <2>4, <2>5, <2>6
<1>13. ASSUME NEW k \in Keys, DoUpsert(k) PROVE PhoneInv'
  <2>1. TypeOK'
    BY <1>13 DEF TypeOK, Statuses, Steps, DoUpsert, Proceed, UpsertServerMessage
  <2>2. StampsDiffer'
    BY <1>13 DEF TypeOK, StampsDiffer, Stamped, DoUpsert, Proceed, UpsertServerMessage
  <2>3. WorkIsBacked'
    BY <1>13 DEF TypeOK, WorkIsBacked, IsFirst, DoUpsert, Proceed, UpsertServerMessage
  <2>4. CursorIsBacked'
    BY <1>13 DEF TypeOK, CursorIsBacked, Ms, DoUpsert, Proceed, UpsertServerMessage
  <2>5. AckedIsDurable'
    BY <1>13 DEF TypeOK, AckedIsDurable, DoUpsert, Proceed, UpsertServerMessage
  <2>6. SentIsStored'
    BY <1>13 DEF TypeOK, SentIsStored, DoUpsert, Proceed, UpsertServerMessage, WorkIsBacked
  <2>7. QED
    BY <2>1, <2>2, <2>3, <2>4, <2>5, <2>6
<1>14. ASSUME NEW k \in Keys, DoCursor(k) PROVE PhoneInv'
  <2>1. TypeOK'
    BY <1>14, MsIsTick DEF TypeOK, Statuses, Steps, DoCursor, Proceed, SetSyncCursor
  <2>2. StampsDiffer'
    BY <1>14 DEF TypeOK, StampsDiffer, Stamped, DoCursor, Proceed, SetSyncCursor
  <2>3. WorkIsBacked'
    BY <1>14 DEF TypeOK, WorkIsBacked, IsFirst, DoCursor, Proceed, SetSyncCursor
  <2>4. CursorIsBacked'
    BY <1>14 DEF TypeOK, CursorIsBacked, Ms, DoCursor, Proceed, SetSyncCursor, WorkIsBacked
  <2>5. AckedIsDurable'
    BY <1>14 DEF TypeOK, AckedIsDurable, DoCursor, Proceed, SetSyncCursor
  <2>6. SentIsStored'
    BY <1>14 DEF TypeOK, SentIsStored, DoCursor, Proceed, SetSyncCursor
  <2>7. QED
    BY <2>1, <2>2, <2>3, <2>4, <2>5, <2>6
<1>15. ASSUME NEW k \in Keys, DoAck(k) PROVE PhoneInv'
  <2>1. TypeOK'
    BY <1>15 DEF TypeOK, Statuses, Steps, DoAck, Proceed, WorkIsBacked
  <2>2. StampsDiffer'
    BY <1>15 DEF TypeOK, StampsDiffer, Stamped, DoAck, Proceed
  <2>3. WorkIsBacked'
    BY <1>15 DEF TypeOK, WorkIsBacked, IsFirst, DoAck, Proceed
  <2>4. CursorIsBacked'
    BY <1>15 DEF TypeOK, CursorIsBacked, Ms, DoAck, Proceed
  <2>5. AckedIsDurable'
    BY <1>15 DEF TypeOK, AckedIsDurable, DoAck, Proceed, WorkIsBacked
  <2>6. SentIsStored'
    BY <1>15 DEF TypeOK, SentIsStored, DoAck, Proceed
  <2>7. QED
    BY <2>1, <2>2, <2>3, <2>4, <2>5, <2>6
<1>16. ASSUME NEW k \in Keys, DoAckSent(k) PROVE PhoneInv'
  <2>1. TypeOK'
    BY <1>16 DEF TypeOK, Statuses, Steps, DoAckSent, Proceed, AckSent
  <2>2. StampsDiffer'
    BY <1>16 DEF TypeOK, StampsDiffer, Stamped, DoAckSent, Proceed, AckSent
  <2>3. WorkIsBacked'
    BY <1>16 DEF TypeOK, WorkIsBacked, IsFirst, DoAckSent, Proceed, AckSent
  <2>4. CursorIsBacked'
    BY <1>16 DEF TypeOK, CursorIsBacked, Ms, DoAckSent, Proceed, AckSent
  <2>5. AckedIsDurable'
    BY <1>16 DEF TypeOK, AckedIsDurable, DoAckSent, Proceed, AckSent
  <2>6. SentIsStored'
    BY <1>16 DEF TypeOK, SentIsStored, DoAckSent, Proceed, AckSent, WorkIsBacked
  <2>7. QED
    BY <2>1, <2>2, <2>3, <2>4, <2>5, <2>6
<1>17. ASSUME NEW k \in Keys, DoMark(k, "delivered") \/ DoMark(k, "read") PROVE PhoneInv'
  <2>1. TypeOK'
    BY <1>17 DEF TypeOK, Statuses, Steps, DoMark, Proceed, MarkStatuses
  <2>2. StampsDiffer'
    BY <1>17 DEF TypeOK, StampsDiffer, Stamped, DoMark, Proceed, MarkStatuses
  <2>3. WorkIsBacked'
    BY <1>17 DEF TypeOK, WorkIsBacked, IsFirst, DoMark, Proceed, MarkStatuses
  <2>4. CursorIsBacked'
    BY <1>17 DEF TypeOK, CursorIsBacked, Ms, DoMark, Proceed, MarkStatuses
  <2>5. AckedIsDurable'
    BY <1>17 DEF TypeOK, AckedIsDurable, DoMark, Proceed, MarkStatuses
  <2>6. SentIsStored'
    BY <1>17 DEF TypeOK, SentIsStored, DoMark, Proceed, MarkStatuses, WorkIsBacked
  <2>7. QED
    BY <2>1, <2>2, <2>3, <2>4, <2>5, <2>6
<1>18. ASSUME NEW s \in Syncs, Refresh(s) PROVE PhoneInv'
  <2>1. TypeOK'
    BY <1>18 DEF TypeOK, Statuses, Steps, Refresh
  <2>2. StampsDiffer'
    BY <1>18 DEF TypeOK, StampsDiffer, Stamped, Refresh
  <2>3. WorkIsBacked'
    BY <1>18 DEF TypeOK, WorkIsBacked, IsFirst, Refresh
  <2>4. CursorIsBacked'
    BY <1>18 DEF TypeOK, CursorIsBacked, Ms, Refresh
  <2>5. AckedIsDurable'
    BY <1>18 DEF TypeOK, AckedIsDurable, Refresh
  <2>6. SentIsStored'
    BY <1>18 DEF TypeOK, SentIsStored, Refresh
  <2>7. QED
    BY <2>1, <2>2, <2>3, <2>4, <2>5, <2>6
<1>19. ASSUME NEW s \in Syncs, ReadCursor(s) PROVE PhoneInv'
  <2>1. TypeOK'
    BY <1>19 DEF TypeOK, Statuses, Steps, ReadCursor
  <2>2. StampsDiffer'
    BY <1>19 DEF TypeOK, StampsDiffer, Stamped, ReadCursor
  <2>3. WorkIsBacked'
    BY <1>19 DEF TypeOK, WorkIsBacked, IsFirst, ReadCursor
  <2>4. CursorIsBacked'
    BY <1>19 DEF TypeOK, CursorIsBacked, Ms, ReadCursor
  <2>5. AckedIsDurable'
    BY <1>19 DEF TypeOK, AckedIsDurable, ReadCursor
  <2>6. SentIsStored'
    BY <1>19 DEF TypeOK, SentIsStored, ReadCursor
  <2>7. QED
    BY <2>1, <2>2, <2>3, <2>4, <2>5, <2>6
<1>20. ASSUME NEW s \in Syncs, Fetch(s) PROVE PhoneInv'
  <2>1. TypeOK'
    BY <1>20 DEF TypeOK, Statuses, Steps, Fetch, History
  <2>2. StampsDiffer'
    BY <1>20 DEF TypeOK, StampsDiffer, Stamped, Fetch
  <2>3. WorkIsBacked'
    BY <1>20 DEF TypeOK, WorkIsBacked, IsFirst, Fetch, History
  <2>4. CursorIsBacked'
    BY <1>20 DEF TypeOK, CursorIsBacked, Ms, Fetch
  <2>5. AckedIsDurable'
    BY <1>20 DEF TypeOK, AckedIsDurable, Fetch
  <2>6. SentIsStored'
    BY <1>20 DEF TypeOK, SentIsStored, Fetch
  <2>7. QED
    BY <2>1, <2>2, <2>3, <2>4, <2>5, <2>6
<1>21. ASSUME NEW s \in Syncs, AckPage(s) PROVE PhoneInv'
  <2>1. TypeOK'
    BY <1>21, MaxTickIsNat DEF TypeOK, Statuses, Steps, AckPage
  <2>2. StampsDiffer'
    BY <1>21 DEF TypeOK, StampsDiffer, Stamped, AckPage
  <2>3. WorkIsBacked'
    BY <1>21 DEF TypeOK, WorkIsBacked, IsFirst, AckPage
  <2>4. CursorIsBacked'
    BY <1>21 DEF TypeOK, CursorIsBacked, Ms, AckPage
  <2>5. AckedIsDurable'
    BY <1>21 DEF TypeOK, AckedIsDurable, AckPage, WorkIsBacked
  <2>6. SentIsStored'
    BY <1>21 DEF TypeOK, SentIsStored, AckPage
  <2>7. QED
    BY <2>1, <2>2, <2>3, <2>4, <2>5, <2>6
<1>22. ASSUME NEW s \in Syncs, Resend(s) PROVE PhoneInv'
  <2>1. TypeOK'
    BY <1>22 DEF TypeOK, Statuses, Steps, Resend, Send
  <2>2. StampsDiffer'
    BY <1>22 DEF TypeOK, StampsDiffer, Stamped, Resend, Send
  <2>3. WorkIsBacked'
    BY <1>22 DEF TypeOK, WorkIsBacked, IsFirst, Resend, Send
  <2>4. CursorIsBacked'
    BY <1>22 DEF TypeOK, CursorIsBacked, Ms, Resend, Send
  <2>5. AckedIsDurable'
    BY <1>22 DEF TypeOK, AckedIsDurable, Resend, Send
  <2>6. SentIsStored'
    BY <1>22 DEF TypeOK, SentIsStored, Resend, Send
  <2>7. QED
    BY <2>1, <2>2, <2>3, <2>4, <2>5, <2>6
<1>23. ASSUME NEW s \in Syncs, NEW k \in Keys, WriteRow(s, k) PROVE PhoneInv'
  <2>1. TypeOK'
    BY <1>23 DEF TypeOK, Statuses, Steps, WriteRow, UpsertServerMessage
  <2>2. StampsDiffer'
    BY <1>23 DEF TypeOK, StampsDiffer, Stamped, WriteRow, UpsertServerMessage
  <2>3. WorkIsBacked'
    BY <1>23 DEF TypeOK, WorkIsBacked, IsFirst, WriteRow, UpsertServerMessage, StampsDiffer, Stamped
  <2>4. CursorIsBacked'
    BY <1>23 DEF TypeOK, CursorIsBacked, Ms, WriteRow, UpsertServerMessage
  <2>5. AckedIsDurable'
    BY <1>23 DEF TypeOK, AckedIsDurable, WriteRow, UpsertServerMessage
  <2>6. SentIsStored'
    BY <1>23 DEF TypeOK, SentIsStored, WriteRow, UpsertServerMessage, WorkIsBacked, IsFirst
  <2>7. QED
    BY <2>1, <2>2, <2>3, <2>4, <2>5, <2>6
<1>24. ASSUME NEW s \in Syncs, NEW k \in Keys, AdvanceCursor(s, k) PROVE PhoneInv'
  <2>1. TypeOK'
    BY <1>24, MsIsTick DEF TypeOK, Statuses, Steps, AdvanceCursor, SetSyncCursor
  <2>2. StampsDiffer'
    BY <1>24 DEF TypeOK, StampsDiffer, Stamped, AdvanceCursor, SetSyncCursor
  <2>3. WorkIsBacked'
    BY <1>24 DEF TypeOK, WorkIsBacked, IsFirst, AdvanceCursor, SetSyncCursor
  <2>4. CursorIsBacked'
    BY <1>24 DEF TypeOK, CursorIsBacked, Ms, AdvanceCursor, SetSyncCursor, WorkIsBacked, IsFirst
  <2>5. AckedIsDurable'
    BY <1>24 DEF TypeOK, AckedIsDurable, AdvanceCursor, SetSyncCursor
  <2>6. SentIsStored'
    BY <1>24 DEF TypeOK, SentIsStored, AdvanceCursor, SetSyncCursor
  <2>7. QED
    BY <2>1, <2>2, <2>3, <2>4, <2>5, <2>6
<1>25. ASSUME NEW s \in Syncs, SyncFails(s) PROVE PhoneInv'
  <2>1. TypeOK'
    BY <1>25, MaxTickIsNat DEF TypeOK, Statuses, Steps, SyncFails
  <2>2. StampsDiffer'
    BY <1>25 DEF TypeOK, StampsDiffer, Stamped, SyncFails
  <2>3. WorkIsBacked'
    BY <1>25 DEF TypeOK, WorkIsBacked, IsFirst, SyncFails
  <2>4. CursorIsBacked'
    BY <1>25 DEF TypeOK, CursorIsBacked, Ms, SyncFails
  <2>5. AckedIsDurable'
    BY <1>25 DEF TypeOK, AckedIsDurable, SyncFails
  <2>6. SentIsStored'
    BY <1>25 DEF TypeOK, SentIsStored, SyncFails
  <2>7. QED
    BY <2>1, <2>2, <2>3, <2>4, <2>5, <2>6
<1>26. CASE UNCHANGED vars
  BY <1>26 DEF vars, TypeOK, StampsDiffer, Stamped, WorkIsBacked, IsFirst, CursorIsBacked, Ms, AckedIsDurable, SentIsStored
<1>27. QED
  BY <1>1, <1>2, <1>3, <1>4, <1>5, <1>6, <1>7, <1>8, <1>9, <1>10, <1>11, <1>12, <1>13, <1>14, <1>15, <1>16, <1>17, <1>18, <1>19, <1>20, <1>21, <1>22, <1>23, <1>24, <1>25, <1>26 DEF Next, Service, Task, SyncStep

\* The inductive invariant, type correctness included, holds for any constants
\* (chatSync.ts, chatRepo.ts and socket.ts as a whole).
THEOREM PhoneSafety == Spec => []PhoneInv
<1>1. QED
  BY InitInv, StepInv, PTL DEF Spec

\* No delivery_ack, of a live frame or of a page, for a row that SQLite does not
\* have (chatSync.ts:49).
THEOREM AcksAreDurable == Spec => []AckedIsDurable
<1>1. PhoneInv => AckedIsDurable
  BY DEF PhoneInv
<1>2. QED
  BY <1>1, PhoneSafety, PTL

\* A message that left 'pending' is stored by the service.
THEOREM TicksAreStored == Spec => []SentIsStored
<1>1. PhoneInv => SentIsStored
  BY DEF PhoneInv
<1>2. QED
  BY <1>1, PhoneSafety, PTL

\* The cursor stands at a row that SQLite has (setSyncCursor).
THEOREM CursorStandsOnARow == Spec => []CursorIsBacked
<1>1. PhoneInv => CursorIsBacked
  BY DEF PhoneInv
<1>2. QED
  BY <1>1, PhoneSafety, PTL

\* The cursor never moves back, a message that left 'pending' does not return to it
\* and a row that is 'read' stays so, at every statement of chatRepo.ts.
THEOREM RowsAndCursorGoForward == Spec => NothingGoesBack
<1> DEFINE Forward == /\ cursor' >= cursor
                      /\ \A k \in Mine :
                           /\ rows[k] \notin {"absent", "pending"} =>
                                 rows'[k] \notin {"absent", "pending"}
                           /\ rows[k] = "read" => rows'[k] = "read"
<1>1. PhoneInv /\ Next => Forward
  <2> SUFFICES ASSUME PhoneInv, Next PROVE Forward
    OBVIOUS
  <2>1. cursor \in Nat /\ rows \in [Keys -> Statuses] /\ Mine \subseteq Keys
    BY MaxTickIsNat DEF PhoneInv, TypeOK, Keys
  <2>2. ASSUME UNCHANGED sqlite PROVE Forward
    BY <2>1, <2>2 DEF sqlite
  <2>3. ASSUME NEW k \in Keys, InsertPending(k) PROVE Forward
    BY <2>1, <2>3 DEF InsertPending
  <2>4. ASSUME NEW k \in Keys, UpsertServerMessage(k) PROVE Forward
    BY <2>1, <2>4 DEF UpsertServerMessage
  <2>5. ASSUME NEW k \in Keys, SetSyncCursor(k) PROVE Forward
    <3>1. Ms(k) \in Nat
      BY MsIsTick, MaxTickIsNat DEF PhoneInv
    <3>2. QED
      BY <2>1, <2>5, <3>1 DEF SetSyncCursor
  <2>6. ASSUME NEW k \in Keys, AckSent(k) PROVE Forward
    BY <2>1, <2>6 DEF AckSent
  <2>7. ASSUME NEW k \in Keys, NEW status \in {"delivered", "read"}, MarkStatuses(k, status)
        PROVE  Forward
    BY <2>1, <2>7 DEF MarkStatuses, Rank
  <2>8. CASE Service
    BY <2>2, <2>8 DEF Service, Stamp, Commit, AnswerRetry, FanOut, Receipt, Reply
  <2>9. CASE Launch \/ Connect \/ Drop \/ Kill
    BY <2>2, <2>9 DEF Launch, Connect, Drop, Kill
  <2>10. ASSUME NEW k \in Keys, Compose(k) \/ Task(k) PROVE Forward
    BY <2>2, <2>3, <2>4, <2>5, <2>6, <2>7, <2>10
    DEF Compose, Task, DoInsert, DoUpsert, DoCursor, DoAck, DoAckSent, DoMark
  <2>11. ASSUME NEW s \in Syncs, Refresh(s) \/ SyncStep(s) \/ SyncFails(s) PROVE Forward
    BY <2>2, <2>4, <2>5, <2>11
    DEF Refresh, SyncStep, SyncFails, ReadCursor, Fetch, AckPage, Resend, WriteRow,
        AdvanceCursor
  <2>12. QED
    BY <2>8, <2>9, <2>10, <2>11 DEF Next
<1>2. PhoneInv /\ [Next]_vars => [Forward]_vars
  BY <1>1
<1>3. QED
  BY <1>2, PhoneSafety, PTL DEF Spec, NothingGoesBack

----------------------------------------------------------------------------
\* The pull alone: the socket never opens, the app is not killed, one fullSync runs
\* at a time, and rows become visible in the order of their stamps.  (With two
\* syncs, live frames, or a kill in the first page, there are gaps: README.)
PullOnly == /\ ~SocketOpens
            /\ MaxOpen = 1
            /\ MaxLosses = 0
            /\ \A s, t \in Syncs : s = t

\* Nothing comes or goes by the socket.
Deaf == /\ ~connected /\ wire = {} /\ replies = {}
        /\ \A t \in tasks : t[1] = "insert"
        /\ \A k \in Mine : phase[k] = "none"
        /\ ~running => \A s \in Syncs : spc[s] = "idle"

Stored == {k \in Visible : rows[k] # "absent"}

InOrder == /\ \A k \in Keys : phase[k] = "open" =>
                \A j \in Stamped : createdAt[j] <= createdAt[k]
           /\ \A k \in Theirs : rows[k] # "absent" => k \in Visible

\* A page lies after the cursor, and no row is missing between what is stored
\* and what the page holds.
PageFollows ==
  \A s \in Syncs :
    /\ spc[s] \notin {"write", "cursor"} => page[s] = {}
    /\ spc[s] = "page" => since[s] = cursor
    /\ \A p \in page[s] : cursor * Grain <= createdAt[p]
    /\ \A p \in page[s], j \in Stored \cup page[s], k \in Visible :
         createdAt[j] < createdAt[k] /\ createdAt[k] < createdAt[p]
           => k \in Stored \cup page[s]

BeforeFirstPage == cursor = 0 /\ (\A s \in Syncs : spc[s] # "cursor") => Stored = {}

NoGap == \A j \in Stored, k \in Visible :
           createdAt[j] < createdAt[k] /\ createdAt[k] <= cursor * Grain
             => k \in Stored \/ \E s \in Syncs : k \in page[s]

PullInv == PhoneInv /\ Deaf /\ InOrder /\ PageFollows /\ BeforeFirstPage /\ NoGap

\* A page holds every visible row between two points it reaches (the ORDER BY and
\* LIMIT of history, oldest first after a cursor and newest first without one).
LEMMA HistoryHasNoGap ==
  ASSUME TypeOK, NEW ms \in Nat, NEW p \in History(ms), NEW k \in Visible,
         createdAt[k] < createdAt[p],
         IF ms = 0 THEN \E j \in History(ms) : createdAt[j] < createdAt[k]
                   ELSE createdAt[k] > ms * Grain
  PROVE  k \in History(ms)
<1> DEFINE after == {i \in Visible : createdAt[i] > ms * Grain}
<1> DEFINE newer(i) == {j \in Visible : createdAt[j] > createdAt[i]}
<1> DEFINE older(i) == {j \in after : createdAt[j] < createdAt[i]}
<1>1. \A i \in Visible : i \in Keys /\ createdAt[i] \in Nat
  BY MaxTickIsNat DEF TypeOK, Visible
<1>2. \A S \in SUBSET Visible : IsFiniteSet(S) /\ Cardinality(S) \in Nat
  BY KeysAreFinite, FS_Subset, FS_CardinalityType DEF Visible
<1>3. PageSize \in Nat
  BY Sizes
<1>4. CASE ms = 0
  <2>1. PICK j \in History(ms) : createdAt[j] < createdAt[k]
    BY <1>4
  <2>2. j \in Visible /\ Cardinality(newer(j)) < PageSize
    BY <1>4 DEF History
  <2>3. newer(k) \subseteq newer(j) /\ newer(j) \in SUBSET Visible
    BY <1>1, <2>1, <2>2
  <2>4. Cardinality(newer(k)) <= Cardinality(newer(j))
    BY <1>2, <2>3, FS_Subset
  <2>5. Cardinality(newer(k)) < PageSize
    BY <1>2, <1>3, <2>2, <2>3, <2>4
  <2>6. QED
    BY <1>4, <2>5 DEF History
<1>5. CASE ms # 0
  <2>1. k \in after
    BY <1>5
  <2>2. p \in Visible /\ Cardinality(older(p)) < PageSize
    BY <1>5 DEF History
  <2>3. older(k) \subseteq older(p) /\ older(p) \in SUBSET Visible
    BY <1>1, <2>2
  <2>4. Cardinality(older(k)) <= Cardinality(older(p))
    BY <1>2, <2>3, FS_Subset
  <2>5. Cardinality(older(k)) < PageSize
    BY <1>2, <1>3, <2>2, <2>3, <2>4
  <2>6. QED
    BY <1>5, <2>1, <2>5 DEF History
<1>6. QED
  BY <1>4, <1>5

\* The cursor of a row, rounded down to milliseconds, is not after the row.
LEMMA MsRoundsDown ==
  ASSUME PhoneInv, NEW k \in Visible
  PROVE  /\ Ms(k) \in Nat /\ Ms(k) # 0
         /\ Ms(k) * Grain \in Nat /\ Ms(k) * Grain <= createdAt[k]
<1>1. createdAt[k] \in Nat /\ createdAt[k] >= Grain
  <2>1. k \in Keys /\ k \in Stamped
    BY DEF Visible, Stamped
  <2>2. QED
    BY <2>1, MaxTickIsNat DEF PhoneInv, TypeOK, StampsDiffer
<1>2. Grain \in Nat \ {0}
  BY Sizes
<1>3. /\ createdAt[k] \div Grain \in Nat
      /\ (createdAt[k] \div Grain) * Grain \in Nat
      /\ (createdAt[k] \div Grain) * Grain <= createdAt[k]
  BY <1>1, <1>2
<1>4. createdAt[k] \div Grain # 0
  BY <1>1, <1>2
<1>5. QED
  BY <1>3, <1>4 DEF Ms

LEMMA PullInit == PullOnly /\ Init => PullInv
<1> SUFFICES ASSUME PullOnly, Init PROVE PullInv
  OBVIOUS
<1>1. \A k \in Keys : phase[k] = "none" /\ rows[k] = "absent"
  BY DEF Init
<1>2. Stored = {} /\ Visible = {}
  BY <1>1 DEF Stored, Visible
<1>3. Deaf /\ InOrder
  BY <1>1 DEF Init, Deaf, InOrder, Keys
<1>4. PageFollows /\ BeforeFirstPage /\ NoGap
  BY <1>2 DEF Init, PageFollows, BeforeFirstPage, NoGap
<1>5. QED
  BY <1>3, <1>4, InitInv DEF PullInv

LEMMA PullStep == PullOnly /\ PullInv /\ [Next]_vars => PullInv'
<1> SUFFICES ASSUME PullOnly, PullInv, [Next]_vars PROVE PullInv'
  OBVIOUS
<1>p. PhoneInv'
  BY StepInv DEF PullInv
<1> USE KeysDiffer DEF PullInv, PhoneInv
<1>t. /\ \A k \in Keys : createdAt[k] \in Nat
      /\ cursor \in Nat /\ cursor * Grain \in Nat /\ Grain \in Nat \ {0}
      /\ Visible \subseteq Stamped /\ Stamped \subseteq Keys /\ Stored \subseteq Visible
      /\ \A s \in Syncs : page[s] \subseteq Visible
  BY MaxTickIsNat, Sizes DEF TypeOK, Visible, Stamped, Stored, WorkIsBacked
\* Steps that leave alone what the five parts speak of, the pages' progress aside.
<1>s. ASSUME Deaf', UNCHANGED <<createdAt, phase, rows, cursor, page>>,
             \A s \in Syncs : /\ spc'[s] \notin {"page", "write", "cursor"} \/ spc'[s] = spc[s]
                              /\ spc[s] \notin {"write", "cursor"} \/ page[s] = {}
                                    \/ spc'[s] = spc[s]
                              /\ spc[s] # "cursor" \/ spc'[s] = spc[s]
                              /\ since'[s] = since[s] \/ spc'[s] # "page"
      PROVE  PullInv'
  <2>1. Visible' = Visible /\ Stored' = Stored /\ Stamped' = Stamped
    BY <1>s DEF Visible, Stored, Stamped
  <2>2. InOrder' /\ NoGap'
    BY <1>s, <2>1 DEF InOrder, NoGap
  <2>3. BeforeFirstPage'
    BY <1>s, <2>1 DEF BeforeFirstPage
  <2>4. PageFollows'
    BY <1>s, <2>1 DEF PageFollows
  <2>5. QED
    BY <1>p, <1>s, <2>2, <2>3, <2>4
<1>1. ASSUME NEW k \in Keys, Stamp(k) PROVE PullInv'
  <2>1. /\ Visible' = Visible /\ Stored' = Stored /\ Stamped' = Stamped \cup {k}
        /\ k \in Theirs
        /\ \A j \in Stamped : j # k /\ createdAt'[j] = createdAt[j]
    BY <1>1 DEF Stamp, TypeOK, Visible, Stored, Stamped, Keys, sqlite, Deaf
  <2>2. \A j \in Keys : phase[j] # "open"
    <3>1. {j \in Keys : phase[j] = "open"} = {}
      <4>1. IsFiniteSet({j \in Keys : phase[j] = "open"})
        BY KeysAreFinite, FS_Subset
      <4>2. Cardinality({j \in Keys : phase[j] = "open"}) < 1
        BY <1>1 DEF Stamp, PullOnly
      <4>3. QED
        BY <4>1, <4>2, FS_EmptySet, FS_CardinalityType
    <3>2. QED
      BY <3>1
  <2>3. Deaf'
    BY <1>1, <2>1 DEF Stamp, Deaf, TypeOK, syncs
  <2>4. InOrder'
    <3>1. createdAt'[k] = Grain + Cardinality(Stamped)
      BY <1>1 DEF Stamp, TypeOK
    <3>2. \A j \in Stamped' : createdAt'[j] <= createdAt'[k]
      BY <1>t, <2>1, <3>1, StampedIsFinite DEF StampsDiffer
    <3>3. \A j \in Keys : phase'[j] = "open" => j = k
      BY <1>1, <2>2 DEF Stamp, TypeOK
    <3>4. rows' = rows
      BY <1>1 DEF Stamp, sqlite
    <3>5. QED
      BY <2>1, <3>2, <3>3, <3>4 DEF InOrder
  <2>5. PageFollows'
    BY <1>1, <1>t, <2>1 DEF Stamp, PageFollows, syncs, sqlite
  <2>6. BeforeFirstPage' /\ NoGap'
    BY <1>1, <1>t, <2>1 DEF Stamp, BeforeFirstPage, NoGap, syncs, sqlite
  <2>7. QED
    BY <1>p, <2>3, <2>4, <2>5, <2>6
<1>2. ASSUME NEW k \in Keys, Commit(k) PROVE PullInv'
  <2>1. /\ Visible' = Visible \cup {k} /\ Stamped' = Stamped
        /\ k \notin Visible /\ k \in Stamped /\ k \in Theirs /\ rows[k] = "absent"
    BY <1>2 DEF Commit, TypeOK, Visible, Stamped, Keys, Deaf, InOrder
  <2>2. Stored' = Stored
    BY <1>2, <2>1 DEF Commit, Stored, sqlite
  <2>3. \A j \in Visible : createdAt[j] < createdAt[k]
    BY <1>2, <1>t, <2>1 DEF Commit, InOrder, StampsDiffer
  <2>4. cursor = 0 \/ cursor * Grain < createdAt[k]
    <3>1. SUFFICES ASSUME cursor # 0 PROVE cursor * Grain < createdAt[k]
      OBVIOUS
    <3>2. PICK c \in Visible : Ms(c) = cursor
      BY <3>1 DEF CursorIsBacked
    <3>3. QED
      BY <1>t, <2>3, <3>2, MsRoundsDown
  <2>5. Deaf'
    BY <1>2, <2>1 DEF Commit, Deaf, TypeOK, syncs
  <2>6. InOrder'
    BY <1>2, <2>1 DEF Commit, InOrder, TypeOK, sqlite
  <2>7. PageFollows'
    BY <1>2, <1>t, <2>1, <2>2, <2>3 DEF Commit, PageFollows, syncs, sqlite
  <2>8. BeforeFirstPage'
    BY <1>2, <2>2 DEF Commit, BeforeFirstPage, syncs, sqlite
  <2>9. NoGap'
    <3>1. cursor' = cursor /\ createdAt' = createdAt /\ page' = page
      BY <1>2 DEF Commit, syncs, sqlite
    <3>2. ~ (createdAt[k] <= cursor * Grain)
      BY <1>t, <2>1, <2>4 DEF StampsDiffer
    <3>3. QED
      BY <2>1, <2>2, <3>1, <3>2 DEF NoGap
  <2>10. QED
    BY <1>p, <2>5, <2>6, <2>7, <2>8, <2>9
<1>3. ASSUME NEW k \in Keys, AnswerRetry(k) \/ FanOut(k) \/ Compose(k) PROVE PullInv'
  <2>1. ~ AnswerRetry(k)
    BY DEF AnswerRetry, Deaf
  <2>2. CASE Compose(k)
    <3>1. Deaf'
      BY <2>2 DEF Compose, Send, Deaf
    <3>2. QED
      BY <1>s, <2>2, <3>1 DEF Compose, syncs, sqlite
  <2>3. CASE FanOut(k)
    <3>1. Visible' = Visible /\ Stamped' = Stamped /\ Stored' = Stored
      BY <2>3 DEF FanOut, Visible, Stamped, Stored, TypeOK, sqlite
    <3>2. UNCHANGED <<createdAt, rows, cursor, page, spc, since>>
      BY <2>3 DEF FanOut, sqlite, syncs
    <3>3. Deaf'
      BY <2>3 DEF FanOut, Hear, Deaf, TypeOK, Keys, syncs
    <3>4. InOrder'
      BY <2>3, <3>1, <3>2 DEF FanOut, InOrder, TypeOK
    <3>5. PageFollows' /\ BeforeFirstPage' /\ NoGap'
      BY <3>1, <3>2 DEF PageFollows, BeforeFirstPage, NoGap
    <3>6. QED
      BY <1>p, <3>3, <3>4, <3>5
  <2>4. QED
    BY <1>3, <2>1, <2>2, <2>3
<1>4. ASSUME NEW k \in Keys, Task(k) PROVE PullInv'
  <2>1. DoInsert(k)
    BY <1>4 DEF Task, DoInsert, DoUpsert, DoCursor, DoAck, DoAckSent, DoMark, Proceed, Deaf
  <2>2. k \in Mine
    BY <2>1 DEF DoInsert, Proceed, WorkIsBacked
  <2>3. Visible' = Visible /\ Stamped' = Stamped /\ k \notin Visible
    BY <2>1, <2>2 DEF DoInsert, Proceed, Visible, Stamped, service, Deaf
  <2>4. /\ Stored' = Stored
        /\ UNCHANGED <<createdAt, phase, cursor, page, spc, since>>
        /\ \A j \in Theirs : rows'[j] = rows[j]
    BY <2>1, <2>2, <2>3
    DEF DoInsert, Proceed, InsertPending, Stored, Visible, TypeOK, service, syncs, Keys
  <2>5. Deaf'
    BY <2>1, <2>4 DEF DoInsert, Proceed, Deaf, service
  <2>6. InOrder'
    BY <2>3, <2>4 DEF InOrder
  <2>7. PageFollows' /\ BeforeFirstPage' /\ NoGap'
    BY <2>3, <2>4 DEF PageFollows, BeforeFirstPage, NoGap
  <2>8. QED
    BY <1>p, <2>5, <2>6, <2>7
<1>5. ~ (Connect \/ Drop \/ Kill)
  BY DEF Connect, Drop, Kill, PullOnly, TypeOK
<1>6. CASE Launch
  <2>1. PICK s \in Syncs : spc' = [spc EXCEPT ![s] = "list"]
    BY <1>6 DEF Launch
  <2>2. Deaf'
    BY <1>6 DEF Launch, Deaf, service
  <2>3. QED
    BY <1>s, <1>6, <2>1, <2>2 DEF Launch, Deaf, TypeOK, service, sqlite
<1>7. ASSUME NEW s \in Syncs, Refresh(s) \/ SyncFails(s) PROVE PullInv'
  <2>1. Deaf'
    BY <1>7 DEF Refresh, SyncFails, Deaf, service
  <2>2. QED
    BY <1>s, <1>7, <2>1 DEF Refresh, SyncFails, TypeOK, PageFollows, service, sqlite
<1>8. ASSUME NEW s \in Syncs, AckPage(s) \/ Resend(s) PROVE PullInv'
  <2>1. Deaf'
    BY <1>8 DEF AckPage, Resend, Send, Deaf, service
  <2>2. QED
    BY <1>s, <1>8, <2>1 DEF AckPage, Resend, TypeOK, PageFollows, service, sqlite
<1>9. ASSUME NEW s \in Syncs, ReadCursor(s) PROVE PullInv'
  <2>1. /\ Visible' = Visible /\ Stored' = Stored /\ Stamped' = Stamped
        /\ UNCHANGED <<createdAt, phase, rows, cursor, page>>
    BY <1>9 DEF ReadCursor, Visible, Stored, Stamped, service, sqlite
  <2>2. Deaf'
    BY <1>9 DEF ReadCursor, Deaf, service
  <2>3. InOrder' /\ NoGap'
    BY <2>1 DEF InOrder, NoGap
  <2>4. BeforeFirstPage'
    BY <1>9, <2>1 DEF ReadCursor, BeforeFirstPage, TypeOK
  <2>5. PageFollows'
    BY <1>9, <2>1 DEF ReadCursor, PageFollows, TypeOK
  <2>6. QED
    BY <1>p, <2>2, <2>3, <2>4, <2>5
<1>10. ASSUME NEW s \in Syncs, Fetch(s) PROVE PullInv'
  <2> DEFINE H == History(cursor)
  <2>1. /\ Visible' = Visible /\ Stored' = Stored /\ Stamped' = Stamped
        /\ UNCHANGED <<createdAt, phase, rows, cursor, since>>
    BY <1>10 DEF Fetch, Visible, Stored, Stamped, service, sqlite
  <2>2. /\ Syncs = {s} /\ page[s] = {} /\ page'[s] = H /\ spc'[s] = "write"
        /\ spc[s] = "page"
    BY <1>10 DEF Fetch, PageFollows, PullOnly, TypeOK
  <2>3. Deaf'
    BY <1>10 DEF Fetch, Deaf, service
  <2>4. InOrder'
    BY <2>1 DEF InOrder
  <2>5. BeforeFirstPage'
    BY <2>1, <2>2 DEF BeforeFirstPage
  <2>6. NoGap'
    BY <2>1, <2>2 DEF NoGap
  <2>7. H \subseteq Visible /\ \A p \in H : cursor # 0 => createdAt[p] > cursor * Grain
    BY DEF History
  <2>8. ASSUME NEW p \in H, NEW j \in Stored \cup H, NEW k \in Visible,
               createdAt[j] < createdAt[k], createdAt[k] < createdAt[p]
        PROVE  k \in Stored \cup H
    <3>1. CASE cursor = 0
      <4>1. Stored = {}
        BY <2>2, <3>1 DEF BeforeFirstPage
      <4>2. QED
        BY <1>t, <2>8, <3>1, <4>1, HistoryHasNoGap
    <3>2. CASE cursor # 0 /\ createdAt[k] > cursor * Grain
      BY <1>t, <2>8, <3>2, HistoryHasNoGap
    <3>3. CASE cursor # 0 /\ ~ (createdAt[k] > cursor * Grain)
      <4>1. createdAt[k] \in Nat /\ createdAt[j] \in Nat /\ cursor * Grain \in Nat
        BY <1>t, <2>7
      <4>2. j \in Stored
        BY <2>7, <2>8, <3>3, <4>1
      <4>3. createdAt[k] <= cursor * Grain
        BY <3>3, <4>1
      <4>4. QED
        BY <2>2, <2>8, <4>2, <4>3 DEF NoGap
    <3>4. QED
      BY <3>1, <3>2, <3>3
  <2>9. \A p \in H : cursor * Grain <= createdAt[p]
    <3>1. cursor = 0 => cursor * Grain = 0
      BY <1>t
    <3>2. QED
      BY <1>t, <2>7, <3>1
  <2>10. PageFollows'
    BY <2>1, <2>2, <2>8, <2>9 DEF PageFollows
  <2>11. QED
    BY <1>p, <2>3, <2>4, <2>5, <2>6, <2>10
<1>11. ASSUME NEW s \in Syncs, NEW k \in Keys, WriteRow(s, k) PROVE PullInv'
  <2>1. /\ k \in page[s] /\ k \in Visible /\ spc'[s] = "cursor" /\ Syncs = {s}
        /\ UNCHANGED <<createdAt, phase, cursor, since, page, wire, replies>>
        /\ \A j \in Keys \ {k} : rows'[j] = rows[j]
        /\ rows'[k] # "absent" /\ spc[s] = "write"
    BY <1>11, <1>t
    DEF WriteRow, IsFirst, UpsertServerMessage, PullOnly, TypeOK, service
  <2>2. Visible' = Visible /\ Stamped' = Stamped /\ Stored' = Stored \cup {k}
    BY <2>1 DEF Visible, Stamped, Stored
  <2>3. Deaf'
    BY <1>11, <2>1 DEF WriteRow, Deaf
  <2>4. InOrder'
    BY <2>1, <2>2 DEF InOrder, Keys
  <2>5. BeforeFirstPage'
    BY <2>1 DEF BeforeFirstPage
  <2>6. Stored' \cup page'[s] = Stored \cup page[s]
    BY <2>1, <2>2
  <2>7. PageFollows'
    BY <2>1, <2>2, <2>6 DEF PageFollows
  <2>8. NoGap'
    <3>1. \A i \in Visible : createdAt[k] < createdAt[i] => ~ (createdAt[i] <= cursor * Grain)
      BY <1>t, <2>1 DEF PageFollows
    <3>2. QED
      BY <2>1, <2>2, <3>1 DEF NoGap
  <2>9. QED
    BY <1>p, <2>3, <2>4, <2>5, <2>7, <2>8
<1>12. ASSUME NEW s \in Syncs, NEW k \in Keys, AdvanceCursor(s, k) PROVE PullInv'
  <2>1. /\ k \in page[s] /\ k \in Visible /\ spc'[s] = "write" /\ Syncs = {s}
        /\ page'[s] = page[s] \ {k} /\ spc[s] = "cursor"
        /\ \A p \in page[s] : createdAt[k] <= createdAt[p]
        /\ UNCHANGED <<createdAt, phase, rows, since, wire, replies>>
        /\ cursor' = IF Ms(k) > cursor THEN Ms(k) ELSE cursor
    BY <1>12, <1>t
    DEF AdvanceCursor, IsFirst, SetSyncCursor, PullOnly, TypeOK, service
  <2>2. Visible' = Visible /\ Stamped' = Stamped /\ Stored' = Stored /\ k \in Stored
    BY <1>12, <2>1 DEF Visible, Stamped, Stored, WorkIsBacked, AdvanceCursor
  <2>3. Deaf'
    BY <1>12, <2>1 DEF AdvanceCursor, Deaf
  <2>4. InOrder'
    BY <2>1, <2>2 DEF InOrder
  <2>5. /\ Ms(k) \in Nat /\ Ms(k) # 0
        /\ Ms(k) * Grain \in Nat /\ Ms(k) * Grain <= createdAt[k]
    BY <2>1, MsRoundsDown
  <2>6. BeforeFirstPage'
    BY <1>t, <2>1, <2>5 DEF BeforeFirstPage
  <2>7. Stored' \cup page'[s] = Stored \cup page[s]
    BY <2>1, <2>2
  <2>8. cursor' * Grain <= createdAt[k]
    BY <2>1, <2>5 DEF PageFollows
  <2>9. PageFollows'
    <3>1. \A p \in page'[s] : cursor' * Grain <= createdAt'[p]
      <4> TAKE p \in page'[s]
      <4>1. p \in page[s] /\ createdAt[p] \in Nat /\ createdAt[k] \in Nat
        BY <1>t, <2>1
      <4>2. cursor' * Grain \in Nat
        BY <1>t, <2>1, <2>5
      <4>3. QED
        BY <2>1, <2>8, <4>1, <4>2
    <3>2. QED
      BY <2>1, <2>2, <2>7, <3>1 DEF PageFollows
  <2>10. NoGap'
    <3> SUFFICES ASSUME NEW j \in Stored, NEW i \in Visible,
                        createdAt[j] < createdAt[i], createdAt[i] <= cursor' * Grain
                 PROVE  i \in Stored \cup page[s]
      BY <2>1, <2>2, <2>7 DEF NoGap
    <3>1. createdAt[i] \in Nat /\ createdAt[k] \in Nat /\ cursor' * Grain \in Nat
      BY <1>t, <2>1, <2>5
    <3>2. createdAt[i] <= createdAt[k]
      BY <2>8, <3>1
    <3>3. CASE createdAt[i] = createdAt[k]
      BY <1>t, <2>1, <2>2, <3>3 DEF StampsDiffer
    <3>4. CASE createdAt[i] < createdAt[k]
      BY <2>1, <3>4 DEF PageFollows
    <3>5. QED
      BY <3>1, <3>2, <3>3, <3>4
  <2>11. QED
    BY <1>p, <2>3, <2>4, <2>6, <2>9, <2>10
<1>13. ~ \E k \in Keys : Receipt(k, "delivered") \/ Receipt(k, "read")
  BY DEF Receipt, Deaf
<1>14. ~ \E r \in replies : Reply(r)
  BY DEF Deaf
<1>15. CASE UNCHANGED vars
  <2>1. Deaf'
    BY <1>15 DEF vars, service, syncs, Deaf
  <2>2. QED
    BY <1>s, <1>15, <2>1 DEF vars, service, sqlite, syncs
<1>16. QED
  BY <1>1, <1>2, <1>3, <1>4, <1>5, <1>6, <1>7, <1>8, <1>9, <1>10, <1>11, <1>12, <1>13,
     <1>14, <1>15
  DEF Next, Service, SyncStep

\* Under PullOnly the cursor of sync_state means what sqlite.ts:55 says, "I have
\* everything up to T": for any number of messages, any page size and any grain of
\* the clock, a page being truncated and the cursor rounded down to a millisecond
\* leave nothing out between the oldest row the phone has and the cursor.
THEOREM PullLeavesNoGap ==
  ASSUME PullOnly
  PROVE  Spec => []NoGapBehindCursor
<1>1. Init => PullInv
  BY PullInit
<1>2. PullInv /\ [Next]_vars => PullInv'
  BY PullStep
<1>3. PullInv => NoGapBehindCursor
  BY DEF PullInv, NoGap, Stored, NoGapBehindCursor
<1>4. QED
  BY <1>1, <1>2, <1>3, PTL DEF Spec

===============================================================================
