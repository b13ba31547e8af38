--------------------------------- MODULE Rooms ---------------------------------
(***************************************************************************)
(* The roster of one meeting room: joinRoom, leaveRoom and onDisconnect of *)
(* ws.service.ts, byCode of meetings.service.ts, and of the web client     *)
(* what decides when these frames are sent (RoomPage.tsx).                 *)
(*                                                                         *)
(* The roster is the KV hash room:{id}:peers, one field per user.  The     *)
(* joiner reads it, adds itself, and is told whom to offer a connection    *)
(* to: that reading and that writing are two awaited commands, and joins,  *)
(* leaves and disconnects of several sockets run between them.  Commands   *)
(* of an instance go to the KV store, and settle, in one order, so that a  *)
(* command and the code after its await are one action.                    *)
(*                                                                         *)
(* A join, a leave and the disconnect handler of a socket are processes;   *)
(* Joins and Leaves bound how many there are.  An entry of the roster      *)
(* remembers the join that wrote it, which the code does not.              *)
(***************************************************************************)
EXTENDS FiniteSets, Naturals

CONSTANTS Users,
          Conns,      \* sockets, in the life of the room
          First,      \* those open to begin with, one page each
          Owner,      \* Owner[c] is the user of socket c (several tabs)
          Joins,      \* calls of joinRoom
          Leaves,     \* calls of leaveRoom from a room_leave frame
          MaxLosses,  \* sockets that close, and at most one call that throws
                      \* or instance that dies
          Nobody, NoConn

ASSUME FirstAreConns == First \subseteq Conns
ASSUME OwnerOfConns == Owner \in [Conns -> Users]
ASSUME ProcessesDiffer == /\ Joins \cap Leaves = {} /\ Joins \cap Conns = {}
                          /\ Leaves \cap Conns = {}
ASSUME Absent == Nobody \notin Joins /\ NoConn \notin Conns
ASSUME LossesAreBounded == MaxLosses \in Nat

VARIABLES roster,   \* user -> the join that wrote its field, or Nobody
          rooms,    \* sockets whose conn.rooms has the room
          state,    \* socket -> "new", "up" (onConnect is through) or "closed"
          page,     \* socket -> its page, which has the name of its first socket
          view,     \* page -> "hub" or "call", what it shows
          pc,       \* process -> what it waits for
          conn,     \* join or leave -> the socket of its frame
          saw,      \* join -> the joins whose entries it read
          late,     \* joins that entered after their socket had closed
          raced,    \* raced[j]: joins that had read but not written when j wrote
          faulted   \* a call threw or the instance died

processVars == <<pc, conn, saw>>
history == <<late, raced>>
vars == <<roster, rooms, state, page, view, processVars, history, faulted>>

Processes == Joins \cup Leaves \cup Conns
UserOf(p) == IF p \in Conns THEN Owner[p] ELSE Owner[conn[p]]
Present == {u \in Users : roster[u] # Nobody}

\* Calls are numbered as they come: a frame takes the next one of its kind.
Fresh(calls) == CHOOSE p \in calls : pc[p] = "new"

TypeOK == /\ roster \in [Users -> Joins \cup {Nobody}]
          /\ rooms \subseteq Conns
          /\ state \in [Conns -> {"new", "up", "closed"}]
          /\ page \in [Conns -> Conns]
          /\ view \in [Conns -> {"hub", "call"}]
          /\ pc \in [Processes -> {"new", "read", "put", "tell", "del", "rest",
                                   "done"}]
          /\ conn \in [Joins \cup Leaves -> Conns \cup {NoConn}]
          /\ saw \in [Joins -> SUBSET Joins]
          /\ late \subseteq Joins
          /\ raced \in [Joins -> SUBSET Joins]
          /\ faulted \in BOOLEAN

Init == /\ roster = [u \in Users |-> Nobody]
        /\ rooms = {}
        /\ state = [c \in Conns |-> IF c \in First THEN "up" ELSE "new"]
        /\ page = [c \in Conns |-> c]
        /\ view = [c \in Conns |-> "hub"]
        /\ pc = [p \in Processes |-> "new"]
        /\ conn = [p \in Joins \cup Leaves |-> NoConn]
        /\ saw = [j \in Joins |-> {}]
        /\ late = {}
        /\ raced = [j \in Joins |-> {}]
        /\ faulted = FALSE

----------------------------------------------------------------------------
\* Sockets and pages.

HasSocket(p) == \E c \in Conns : page[c] = p /\ state[c] = "up"

\* A tab is opened and connects.
Open(c) ==
  /\ state[c] = "new"
  /\ state' = [state EXCEPT ![c] = "up"]
  /\ UNCHANGED <<roster, rooms, page, view, pc, conn, saw, history, faulted>>

\* The timer of onclose connects again: a new socket, and with it a new Conn, for
\* the page of d.  onopen does not send room_join, whatever the page shows.
Reopen(c, d) ==
  /\ state[c] = "new" /\ state[d] = "closed" /\ Owner[c] = Owner[d]
  /\ ~HasSocket(page[d])
  /\ state' = [state EXCEPT ![c] = "up"]
  /\ page' = [page EXCEPT ![c] = page[d]]
  /\ UNCHANGED <<roster, rooms, view, pc, conn, saw, history, faulted>>

\* The hub sends room_join; nothing disables the button while it waits.
Join(j, c) ==
  /\ pc[j] = "new" /\ j = Fresh(Joins)
  /\ state[c] = "up" /\ view[page[c]] = "hub"
  /\ pc' = [pc EXCEPT ![j] = "read"]
  /\ conn' = [conn EXCEPT ![j] = c]
  /\ UNCHANGED <<roster, rooms, state, page, view, saw, history, faulted>>

\* The Leave button: room_leave is sent and the page goes back to the hub.
Leave(l, c) ==
  /\ pc[l] = "new" /\ l = Fresh(Leaves)
  /\ state[c] = "up" /\ view[page[c]] = "call"
  /\ pc' = [pc EXCEPT ![l] = "del"]
  /\ conn' = [conn EXCEPT ![l] = c]
  /\ view' = [view EXCEPT ![page[c]] = "hub"]
  /\ UNCHANGED <<roster, rooms, state, page, saw, history, faulted>>

\* The Leave button while the socket is down: wsSend drops the frame.
LeaveOffline(p) ==
  /\ view[p] = "call" /\ ~HasSocket(p)
  /\ view' = [view EXCEPT ![p] = "hub"]
  /\ UNCHANGED <<roster, rooms, state, page, processVars, history, faulted>>

Losses == Cardinality({c \in Conns : state[c] = "closed"}) + IF faulted THEN 1 ELSE 0

\* The socket closes.  onDisconnect leaves the rooms that conn.rooms names now.
Drop(c) ==
  /\ state[c] = "up" /\ Losses < MaxLosses
  /\ state' = [state EXCEPT ![c] = "closed"]
  /\ pc' = [pc EXCEPT ![c] = IF c \in rooms THEN "del" ELSE "done"]
  /\ UNCHANGED <<roster, rooms, page, view, conn, saw, history, faulted>>

----------------------------------------------------------------------------
\* joinRoom.

\* byCode finds no meeting, or one that expired: ROOM_NOT_FOUND.
NotFound(j) ==
  /\ pc[j] = "read"
  /\ pc' = [pc EXCEPT ![j] = "done"]
  /\ UNCHANGED <<roster, rooms, state, page, view, conn, saw, history, faulted>>

\* Mutant: hgetall of a key made from the code the user typed, not the room id.
ReadOtherRoster(j) ==
  /\ pc[j] = "read"
  /\ pc' = [pc EXCEPT ![j] = "put"]
  /\ UNCHANGED <<roster, rooms, state, page, view, conn, saw, history, faulted>>

\* hgetall: the peers the joiner will be given.
ReadRoster(j) ==
  /\ pc[j] = "read"
  /\ saw' = [saw EXCEPT ![j] = {roster[u] : u \in Present}]
  /\ pc' = [pc EXCEPT ![j] = "put"]
  /\ UNCHANGED <<roster, rooms, state, page, view, conn, history, faulted>>

\* hset, conn.rooms.add, and room_state to the socket, if it is still open.
Enter(j) ==
  /\ pc[j] = "put"
  /\ roster' = [roster EXCEPT ![UserOf(j)] = j]
  /\ rooms' = rooms \cup {conn[j]}
  /\ view' = [view EXCEPT ![page[conn[j]]] = IF state[conn[j]] = "up" THEN "call" ELSE @]
  /\ late' = IF state[conn[j]] = "up" THEN late ELSE late \cup {j}
  /\ raced' = [raced EXCEPT ![j] = {i \in Joins \ {j} : pc[i] = "put"}]
  /\ pc' = [pc EXCEPT ![j] = "tell"]
  /\ UNCHANGED <<state, page, conn, saw, faulted>>

\* room_peer_joined to the peers that were read; when each hears of it matters
\* to nothing here.
TellJoined(j) ==
  /\ pc[j] = "tell"
  /\ pc' = [pc EXCEPT ![j] = "done"]
  /\ UNCHANGED <<roster, rooms, state, page, view, conn, saw, history, faulted>>

----------------------------------------------------------------------------
\* leaveRoom, for a room_leave frame or for the disconnect of a socket.

\* hdel, and for a frame conn.rooms.delete.
Remove(p) ==
  /\ pc[p] = "del"
  /\ roster' = [roster EXCEPT ![UserOf(p)] = Nobody]
  /\ rooms' = IF p \in Leaves THEN rooms \ {conn[p]} ELSE rooms
  /\ pc' = [pc EXCEPT ![p] = "rest"]
  /\ UNCHANGED <<state, page, view, conn, saw, history, faulted>>

\* hgetall, and room_peer_left to those who remain.
TellLeft(p) ==
  /\ pc[p] = "rest"
  /\ pc' = [pc EXCEPT ![p] = "done"]
  /\ UNCHANGED <<roster, rooms, state, page, view, conn, saw, history, faulted>>

\* The awaited call of a join or a leave throws.
Fail(p) ==
  /\ Losses < MaxLosses /\ ~faulted /\ pc[p] \notin {"new", "done"}
  /\ pc' = [pc EXCEPT ![p] = "done"]
  /\ faulted' = TRUE
  /\ UNCHANGED <<roster, rooms, state, page, view, conn, saw, history>>

\* An instance dies: its sockets and their handlers are gone, the hash is not.
Crash(dead) ==
  /\ Losses < MaxLosses /\ ~faulted /\ \A c \in dead : state[c] = "up"
  /\ faulted' = TRUE
  /\ state' = [c \in Conns |-> IF c \in dead THEN "closed" ELSE state[c]]
  /\ pc' = [p \in Processes |->
             IF p \in dead \/ (p \notin Conns /\ conn[p] \in dead) THEN "done" ELSE pc[p]]
  /\ UNCHANGED <<roster, rooms, page, view, conn, saw, history>>

----------------------------------------------------------------------------
Continue(p) == \/ p \in Joins /\ (ReadRoster(p) \/ Enter(p) \/ TellJoined(p))
               \/ p \notin Joins /\ (Remove(p) \/ TellLeft(p))

Next == \/ \E c \in Conns : \/ Open(c) \/ Drop(c) \/ LeaveOffline(c)
                            \/ \E d \in Conns : Reopen(c, d)
                            \/ \E j \in Joins : Join(j, c)
                            \/ \E l \in Leaves : Leave(l, c)
        \/ \E j \in Joins : NotFound(j)
        \/ \E p \in Processes : Continue(p) \/ Fail(p)
        \/ \E dead \in SUBSET Conns : Crash(dead)

Spec == Init /\ [][Next]_vars

----------------------------------------------------------------------------
\* webrtc-signaling-flow.md:39-41, "deterministic initiator, no glare": the
\* joiner offers to those it was given, so of two joins never each saw the
\* other, however they and the leaves interleave (the roster is read before it
\* is written).
NoGlare == \A i, j \in Joins : i \in saw[j] => j \notin saw[i]

\* Two users on the roster neither of whom was given the other, so that nobody
\* ever offers, must have overlapped: one had read the roster and not written
\* it when the other wrote.  Leaves, rejoins and second tabs do not cause it.
OnlyOverlapsMiss ==
  \A u, v \in Users :
    LET i == roster[u]  j == roster[v] IN
    (u # v /\ i # Nobody /\ j # Nobody /\ i \notin saw[j] /\ j \notin saw[i])
      => i \in raced[j] \/ j \in raced[i]

\* A name on the roster is of an open socket, or its disconnect handler is
\* about to remove it; a ghost can only come from a join still in flight when
\* its socket closed, or from a failure.  And whatever is on the roster is in
\* conn.rooms, so that a disconnect will find it.
GhostsHaveACause ==
  \A u \in Users :
    LET j == roster[u] IN
    (j # Nobody /\ ~faulted) =>
      /\ conn[j] \in rooms
      /\ state[conn[j]] = "up" \/ pc[conn[j]] = "del" \/ j \in late

\* What the three properties rest on.  A frame's call has a socket; an entry was
\* written by a join of that user that went past its hset; a join has seen
\* nothing but such entries, and none before its hgetall; and while it is
\* between its hgetall and its hset, an entry it did not see was written
\* meanwhile.
CallsHaveSockets ==
  \A p \in Joins \cup Leaves : pc[p] # "new" => conn[p] \in Conns

EntriesWereEntered ==
  \A u \in Users : roster[u] # Nobody =>
    /\ pc[roster[u]] \in {"tell", "done"}
    /\ conn[roster[u]] \in Conns /\ Owner[conn[roster[u]]] = u

SeenWereEntered ==
  \A i, j \in Joins : i \in saw[j] => /\ pc[i] \in {"tell", "done"}
                                      /\ pc[j] \notin {"new", "read"}

UnseenIsRaced ==
  \A j \in Joins, u \in Users :
    (pc[j] = "put" /\ roster[u] # Nobody) =>
      roster[u] \in saw[j] \/ j \in raced[roster[u]]

\* The inductive invariant.
RosterInv == /\ TypeOK
             /\ CallsHaveSockets
             /\ EntriesWereEntered
             /\ SeenWereEntered
             /\ UnseenIsRaced
             /\ NoGlare
             /\ OnlyOverlapsMiss
             /\ GhostsHaveACause
===============================================================================
