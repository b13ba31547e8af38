------------------------- MODULE ChatPipeline_proofs --------------------------
(***************************************************************************)
(* The safety properties of ChatPipeline for every conversation, any       *)
(* number of handlers and every bound, and the refinement of MessageStore. *)
(***************************************************************************)
EXTENDS ChatPipeline, TLAPS

LEMMA InitInv == Init => PipelineInv
  BY MembersAreUsers, BoundsAreNumbers
  DEF Init, PipelineInv, RowsInv, FanoutLeavesNoHoles, TypeOK, States, ExactlyOnceStorage, IdsAreUnique,
      OnlyMembersWrite, HandlersHoldTheirRow, ReportsNameStoredRows

\* Every step keeps the part of the invariant that is about rows and handlers,
\* one case per action.
LEMMA StepRows == RowsInv /\ [Next]_vars => RowsInv'
<1> SUFFICES ASSUME RowsInv, [Next]_vars PROVE RowsInv'
  OBVIOUS
<1> USE MembersAreUsers, BoundsAreNumbers
    DEF RowsInv, TypeOK, States, Keys, Rows, SenderOf, Stored,
      ExactlyOnceStorage, IdsAreUnique, OnlyMembersWrite,
      HandlersHoldTheirRow, ReportsNameStoredRows, handlerVars, clientVars,
      bounds
<1>1. ASSUME NEW u \in Users, Connect(u) PROVE RowsInv'
  BY <1>1 DEF Connect
<1>2. ASSUME NEW u \in Users, Announce(u) PROVE RowsInv'
  BY <1>2 DEF Announce
<1>3. ASSUME NEW u \in Users, Heartbeat(u) PROVE RowsInv'
  BY <1>3 DEF Heartbeat
<1>4. ASSUME NEW u \in Users, Drop(u) PROVE RowsInv'
  BY <1>4 DEF Drop
<1>5. ASSUME NEW u \in Users, Forget(u) PROVE RowsInv'
  BY <1>5 DEF Forget
<1>6. ASSUME NEW k \in Keys, Refuse(k) PROVE RowsInv'
  BY <1>6 DEF Refuse
<1>7. ASSUME Crash PROVE RowsInv'
  BY <1>7 DEF Crash
<1>8. ASSUME NEW h \in Handlers, NEW k \in Keys, Receive(h, k) PROVE RowsInv'
  BY <1>8 DEF Receive
<1>9. ASSUME NEW h \in Handlers, Admit(h) PROVE RowsInv'
  BY <1>9 DEF Admit
<1>10. ASSUME NEW h \in Handlers, Reject(h) PROVE RowsInv'
  BY <1>10 DEF Reject, Return
<1>11. ASSUME NEW h \in Handlers, NEW id \in Ids, Insert(h, id) PROVE RowsInv'
  BY <1>11 DEF Insert
<1>12. ASSUME NEW h \in Handlers, Conflict(h) PROVE RowsInv'
  BY <1>12 DEF Conflict
<1>13. ASSUME NEW h \in Handlers, SelectOriginal(h) PROVE RowsInv'
  BY <1>13 DEF SelectOriginal
<1>14. ASSUME NEW h \in Handlers, SendAck(h) PROVE RowsInv'
  BY <1>14 DEF SendAck
<1>15. ASSUME NEW h \in Handlers, Echo(h) PROVE RowsInv'
  BY <1>15 DEF Echo, PublishTo
<1>16. ASSUME NEW h \in Handlers, NEW u \in Members, ReadPresence(h, u) PROVE RowsInv'
  BY <1>16 DEF ReadPresence
<1>17. ASSUME NEW h \in Handlers, Publish(h) PROVE RowsInv'
  BY <1>17 DEF Publish, PublishTo
<1>18. ASSUME NEW h \in Handlers, Push(h) PROVE RowsInv'
  BY <1>18 DEF Push
<1>19. ASSUME NEW h \in Handlers, Finish(h) PROVE RowsInv'
  BY <1>19 DEF Finish, Return
<1>20. ASSUME NEW h \in Handlers, Fail(h) PROVE RowsInv'
  BY <1>20 DEF Fail, Return
<1>21. CASE UNCHANGED vars
  BY <1>21 DEF vars
<1>22. QED
  BY <1>1, <1>2, <1>3, <1>4, <1>5, <1>6, <1>7, <1>8, <1>9, <1>10, <1>11, <1>12,
     <1>13, <1>14, <1>15, <1>16, <1>17, <1>18, <1>19, <1>20, <1>21
  DEF Next, Environment, Continue

\* The loop over memberIds forgets nobody, and only a failing call ends a
\* handler that is not through.
LEMMA StepFanout == PipelineInv /\ [Next]_vars => FanoutLeavesNoHoles'
<1> SUFFICES ASSUME PipelineInv, [Next]_vars PROVE FanoutLeavesNoHoles'
  OBVIOUS
<1> USE MembersAreUsers, BoundsAreNumbers
    DEF PipelineInv, RowsInv, TypeOK, States, HandlersHoldTheirRow,
      FanoutLeavesNoHoles, handlerVars, clientVars, bounds
<1>1. ASSUME NEW u \in Users, Connect(u) \/ Announce(u) \/ Heartbeat(u) \/ Drop(u) \/ Forget(u)
      PROVE  FanoutLeavesNoHoles'
  BY <1>1 DEF Connect, Announce, Heartbeat, Drop, Forget
<1>2. ASSUME NEW k \in Keys, Refuse(k) PROVE FanoutLeavesNoHoles'
  BY <1>2 DEF Refuse
<1>3. ASSUME Crash PROVE FanoutLeavesNoHoles'
  BY <1>3 DEF Crash
<1>4. ASSUME NEW h \in Handlers, NEW k \in Keys, Receive(h, k) PROVE FanoutLeavesNoHoles'
  BY <1>4 DEF Receive
<1>5. ASSUME NEW h \in Handlers, Admit(h) PROVE FanoutLeavesNoHoles'
  BY <1>5 DEF Admit
<1>6. ASSUME NEW h \in Handlers, Reject(h) PROVE FanoutLeavesNoHoles'
  BY <1>6 DEF Reject, Return
<1>7. ASSUME NEW h \in Handlers, NEW id \in Ids, Insert(h, id) PROVE FanoutLeavesNoHoles'
  BY <1>7 DEF Insert
<1>8. ASSUME NEW h \in Handlers, Conflict(h) PROVE FanoutLeavesNoHoles'
  BY <1>8 DEF Conflict
<1>9. ASSUME NEW h \in Handlers, SelectOriginal(h) PROVE FanoutLeavesNoHoles'
  BY <1>9 DEF SelectOriginal
<1>10. ASSUME NEW h \in Handlers, SendAck(h) PROVE FanoutLeavesNoHoles'
  BY <1>10 DEF SendAck
<1>11. ASSUME NEW h \in Handlers, Echo(h) PROVE FanoutLeavesNoHoles'
  BY <1>11 DEF Echo, PublishTo
<1>12. ASSUME NEW h \in Handlers, NEW u \in Members, ReadPresence(h, u) PROVE FanoutLeavesNoHoles'
  BY <1>12 DEF ReadPresence
<1>13. ASSUME NEW h \in Handlers, Publish(h) PROVE FanoutLeavesNoHoles'
  BY <1>13 DEF Publish, PublishTo
<1>14. ASSUME NEW h \in Handlers, Push(h) PROVE FanoutLeavesNoHoles'
  BY <1>14 DEF Push
<1>15. ASSUME NEW h \in Handlers, Finish(h) PROVE FanoutLeavesNoHoles'
  BY <1>15 DEF Finish, Return
<1>16. ASSUME NEW h \in Handlers, Fail(h) PROVE FanoutLeavesNoHoles'
  BY <1>16 DEF Fail, Return
<1>17. CASE UNCHANGED vars
  BY <1>17 DEF vars
<1>18. QED
  BY <1>1, <1>2, <1>3, <1>4, <1>5, <1>6, <1>7, <1>8, <1>9, <1>10, <1>11, <1>12,
     <1>13, <1>14, <1>15, <1>16, <1>17
  DEF Next, Environment, Continue

\* What the run ChatPipeline checks on a small instance holds of every one:
\* exactly-once storage (the ON CONFLICT of MessagesService.persist).
THEOREM Safety == Spec => []PipelineInv
<1>1. PipelineInv /\ [Next]_vars => PipelineInv'
  BY StepRows, StepFanout DEF PipelineInv
<1>2. QED
  BY InitInv, <1>1, PTL DEF Spec

THEOREM StoredOnce == Spec => []ExactlyOnceStorage
<1>1. PipelineInv => ExactlyOnceStorage
  BY DEF PipelineInv, RowsInv
<1>2. QED
  BY <1>1, Safety, PTL

\* Acknowledgements and frames name stored rows, and only members get them.
THEOREM Reported == Spec => []ReportsNameStoredRows
<1>1. PipelineInv => ReportsNameStoredRows
  BY DEF PipelineInv, RowsInv
<1>2. QED
  BY <1>1, Safety, PTL

\* Only members of the conversation have rows in it.
THEOREM MembersOnly == Spec => []OnlyMembersWrite
<1>1. PipelineInv => OnlyMembersWrite
  BY DEF PipelineInv, RowsInv
<1>2. QED
  BY <1>1, Safety, PTL

\* The fan-out of a stored message forgets no member unless a call fails.
THEOREM NobodySkipped == Spec => []NobodyIsSkipped
<1>1. PipelineInv => NobodyIsSkipped
  <2> SUFFICES ASSUME PipelineInv, faults = 0, NEW r \in messages,
                      \A h \in Handlers : key[h] # r.key
               PROVE  Members \X {r} \subseteq got \cup lost \cup rung
    BY DEF NobodyIsSkipped
  <2>1. ASSUME NEW h \in Handlers, row[h] = r,
               pc[h] \in {"ack", "fanout", "publish", "push"}
        PROVE  FALSE
    BY <2>1 DEF PipelineInv, RowsInv, HandlersHoldTheirRow
  <2>2. QED
    BY <2>1 DEF PipelineInv, FanoutLeavesNoHoles
<1>2. QED
  BY <1>1, Safety, PTL

\* A publication shows a stored row, or reaches nobody and changes nothing the
\* promise speaks of.
LEMMA PublishShows ==
  ASSUME NEW u \in Users, NEW h, row[h] \in messages, PublishTo(u, h),
         UNCHANGED <<messages, acks>>
  PROVE  [Store!Next]_Store!vars
<1>1. CASE sock[u] # "down"
  <2>1. Store!Show(u, row[h])
    BY <1>1 DEF PublishTo, Store!Show
  <2>2. QED
    BY <2>1 DEF Store!Next
<1>2. CASE sock[u] = "down"
  BY <1>2 DEF PublishTo, Store!vars
<1>3. QED
  BY <1>1, <1>2

\* The steps that neither store, acknowledge nor show.
Silent == UNCHANGED <<messages, acks, got>>

\* Every step of the pipeline is a step of MessageStore or changes nothing it
\* can see: the INSERT stores, SendAck acknowledges, a publication shows.
LEMMA StepRefines == PipelineInv /\ [Next]_vars => [Store!Next]_Store!vars
<1> SUFFICES ASSUME PipelineInv, [Next]_vars PROVE [Store!Next]_Store!vars
  OBVIOUS
<1>1. Silent => [Store!Next]_Store!vars
  BY DEF Silent, Store!vars
<1>2. ASSUME NEW h \in Handlers, NEW id \in Ids, Insert(h, id)
      PROVE  [Store!Next]_Store!vars
  <2> DEFINE new == [key |-> key[h], id |-> id]
  <2>1. key[h] \in Keys
    BY <1>2 DEF PipelineInv, RowsInv, HandlersHoldTheirRow, Insert
  <2>2. new \in Store!Rows
    BY <2>1 DEF Store!Rows
  <2>3. Store!Store(new)
    BY <1>2 DEF Insert, Stored, Store!Store, clientVars
  <2>4. QED
    BY <2>2, <2>3 DEF Store!Next
<1>3. ASSUME NEW h \in Handlers, SendAck(h)
      PROVE  [Store!Next]_Store!vars
  <2>1. row[h] \in messages /\ row[h] \in Store!Rows
    BY <1>3 DEF PipelineInv, RowsInv, TypeOK, HandlersHoldTheirRow, SendAck, Rows, Store!Rows
  <2>2. CASE open[h]
    BY <1>3, <2>1, <2>2 DEF SendAck, Store!Ack, Store!Next
  <2>3. CASE ~open[h]
    BY <1>3, <2>3 DEF SendAck, Store!vars
  <2>4. QED
    BY <2>2, <2>3
<1>4. ASSUME NEW h \in Handlers, Echo(h) \/ Publish(h)
      PROVE  [Store!Next]_Store!vars
  <2>1. row[h] \in messages /\ key[h] \in Keys
    BY <1>4 DEF PipelineInv, RowsInv, HandlersHoldTheirRow, Echo, Publish
  <2>2. CASE Echo(h)
    <3>1. SenderOf(key[h]) \in Users
      BY <2>1 DEF Keys, SenderOf
    <3>2. QED
      BY <2>1, <2>2, <3>1, PublishShows DEF Echo
  <2>3. CASE Publish(h)
    <3>1. to[h] \in Users
      BY <1>4, <2>3, MembersAreUsers
      DEF PipelineInv, RowsInv, TypeOK, HandlersHoldTheirRow, Publish
    <3>2. QED
      BY <2>1, <2>3, <3>1, PublishShows DEF Publish
  <2>4. QED
    BY <1>4, <2>2, <2>3
<1>5. CASE \E u \in Users : Connect(u) \/ Announce(u) \/ Heartbeat(u) \/ Drop(u) \/ Forget(u)
  BY <1>1, <1>5 DEF Silent, Connect, Announce, Heartbeat, Drop, Forget
<1>6. CASE Crash \/ \E k \in Keys : Refuse(k)
  BY <1>1, <1>6 DEF Silent, Crash, Refuse, clientVars
<1>7. ASSUME NEW h \in Handlers,
             \/ Admit(h) \/ Reject(h) \/ Conflict(h) \/ SelectOriginal(h)
             \/ Push(h) \/ Finish(h) \/ Fail(h)
             \/ \E u \in Members : ReadPresence(h, u)
             \/ \E k \in Keys : Receive(h, k)
      PROVE  [Store!Next]_Store!vars
  BY <1>1, <1>7
  DEF Silent, Admit, Reject, Conflict, SelectOriginal, Push, Finish, Fail,
      ReadPresence, Receive, clientVars
<1>8. CASE UNCHANGED vars
  BY <1>1, <1>8 DEF Silent, vars, clientVars
<1>9. QED
  BY <1>2, <1>3, <1>4, <1>5, <1>6, <1>7, <1>8 DEF Next, Environment, Continue

\* The gateway keeps the promise of MessageStore, for every conversation and
\* any number of concurrent handlers.
THEOREM Refinement == Spec => ImplementsMessageStore
<1>1. Init => Store!Init
  BY DEF Init, Store!Init
<1>2. QED
  BY <1>1, Safety, StepRefines, PTL DEF Spec, ImplementsMessageStore, Store!Spec
===============================================================================
