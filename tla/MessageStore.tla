----------------------------- MODULE MessageStore -----------------------------
(***************************************************************************)
(* What the message service promises, whatever its handlers and clients    *)
(* interleave: "at-least-once delivery, exactly-once storage"              *)
(* (docs/architecture.md, "Delivery semantics").  A key, the pair of a     *)
(* sender and the UUID its client chose, is stored under one server        *)
(* identity for ever; an acknowledgement or a live frame only ever shows   *)
(* that identity.  ChatPipeline implements this module.                    *)
(***************************************************************************)
CONSTANTS Keys,      \* <<sender_id, client_msg_id>>
          Ids,       \* server UUIDs (with the created_at stored beside them)
          Readers    \* users that can be shown a message

VARIABLES stored,    \* set of rows [key, id]
          acked,     \* rows that some sender was told are stored
          shown      \* pairs <<reader, row>> that reached a live socket

vars == <<stored, acked, shown>>

Rows == [key : Keys, id : Ids]

TypeOK == /\ stored \subseteq Rows
          /\ acked \subseteq Rows
          /\ shown \subseteq Readers \X Rows

Init == stored = {} /\ acked = {} /\ shown = {}

\* A key not stored yet gets an identity no other row has.
Store(r) == /\ \A s \in stored : s.key # r.key /\ s.id # r.id
            /\ stored' = stored \cup {r}
            /\ UNCHANGED <<acked, shown>>

\* Only a stored row is acknowledged, any number of times.
Ack(r) == /\ r \in stored
          /\ acked' = acked \cup {r}
          /\ UNCHANGED <<stored, shown>>

\* Only a stored row is shown.
Show(u, r) == /\ r \in stored
              /\ shown' = shown \cup {<<u, r>>}
              /\ UNCHANGED <<stored, acked>>

Next == \/ \E r \in Rows : Store(r) \/ Ack(r)
        \/ \E u \in Readers, r \in stored : Show(u, r)

Spec == Init /\ [][Next]_vars
===============================================================================
