------------------------------ MODULE Mesh_proofs ------------------------------
(***************************************************************************)
(* Of the roster of Rooms, for any number of users, tabs, joins, leaves    *)
(* and disconnects: the invariant RosterInv is inductive.  And the pages   *)
(* and their managers do not disturb the roster: every step of the mesh is *)
(* a step of Rooms or leaves its variables alone, so that what is proved   *)
(* of the roster holds with the pages around it.  Then the pages: one      *)
(* manager each, tiles that follow the roster, and, last and longest, the  *)
(* connections between the managers and the frames that make and end them. *)
(***************************************************************************)
EXTENDS Mesh, FiniteSetTheorems, TLAPS

LEMMA InitInv == Init => RosterInv
<1> SUFFICES ASSUME Init PROVE RosterInv
  OBVIOUS
<1>1. TypeOK
  BY DEF Init, TypeOK
<1>2. \A u \in Users : roster[u] = Nobody
  BY DEF Init
<1>3. \A j \in Joins : pc[j] = "new" /\ saw[j] = {}
  BY DEF Init, Processes
<1>4. CallsHaveSockets
  BY DEF Init, CallsHaveSockets, Processes
<1>5. EntriesWereEntered /\ SeenWereEntered
  BY <1>2, <1>3 DEF EntriesWereEntered, SeenWereEntered
<1>6. UnseenIsRaced /\ NoGlare /\ OnlyOverlapsMiss /\ GhostsHaveACause
  BY <1>2, <1>3 DEF UnseenIsRaced, NoGlare, OnlyOverlapsMiss, GhostsHaveACause
<1>7. QED
  BY <1>1, <1>4, <1>5, <1>6 DEF RosterInv

\* Every step keeps the invariant, one case per action and one step per conjunct.
LEMMA StepInv == RosterInv /\ [Next]_vars => RosterInv'
<1> SUFFICES ASSUME RosterInv, [Next]_vars PROVE RosterInv'
  OBVIOUS
<1> USE OwnerOfConns, ProcessesDiffer, Absent DEF RosterInv, TypeOK, Processes, history
<1>1. ASSUME NEW c \in Conns, Drop(c) PROVE RosterInv'
  <2>1. TypeOK'
    BY <1>1 DEF Drop
  <2>2. CallsHaveSockets'
    BY <1>1 DEF CallsHaveSockets, Drop
  <2>3. EntriesWereEntered'
    BY <1>1 DEF EntriesWereEntered, CallsHaveSockets, Drop
  <2>4. SeenWereEntered'
    BY <1>1 DEF SeenWereEntered, EntriesWereEntered, Drop
  <2>5. UnseenIsRaced'
    BY <1>1 DEF UnseenIsRaced, EntriesWereEntered, Drop
  <2>6. NoGlare'
    BY <1>1 DEF NoGlare, SeenWereEntered, Drop
  <2>7. OnlyOverlapsMiss'
    BY <1>1 DEF OnlyOverlapsMiss, UnseenIsRaced, EntriesWereEntered, SeenWereEntered, Drop
  <2>8. GhostsHaveACause'
    BY <1>1 DEF GhostsHaveACause, EntriesWereEntered, CallsHaveSockets, Drop
  <2>9. QED
    BY <2>1, <2>2, <2>3, <2>4, <2>5, <2>6, <2>7, <2>8
<1>2. ASSUME NEW c \in Conns, NEW j \in Joins, Join(j, c) PROVE RosterInv'
  <2>1. TypeOK'
    BY <1>2 DEF Join
  <2>2. CallsHaveSockets'
    BY <1>2 DEF CallsHaveSockets, Join
  <2>3. EntriesWereEntered'
    BY <1>2 DEF EntriesWereEntered, CallsHaveSockets, Join
  <2>4. SeenWereEntered'
    BY <1>2 DEF SeenWereEntered, EntriesWereEntered, Join
  <2>5. UnseenIsRaced'
    BY <1>2 DEF UnseenIsRaced, EntriesWereEntered, Join
  <2>6. NoGlare'
    BY <1>2 DEF NoGlare, SeenWereEntered, Join
  <2>7. OnlyOverlapsMiss'
    BY <1>2 DEF OnlyOverlapsMiss, UnseenIsRaced, EntriesWereEntered, SeenWereEntered, Join
  <2>8. GhostsHaveACause'
    BY <1>2 DEF GhostsHaveACause, EntriesWereEntered, CallsHaveSockets, Join
  <2>9. QED
    BY <2>1, <2>2, <2>3, <2>4, <2>5, <2>6, <2>7, <2>8
<1>3. ASSUME NEW c \in Conns, NEW l \in Leaves, Leave(l, c) PROVE RosterInv'
  <2>1. TypeOK'
    BY <1>3 DEF Leave
  <2>2. CallsHaveSockets'
    BY <1>3 DEF CallsHaveSockets, Leave
  <2>3. EntriesWereEntered'
    BY <1>3 DEF EntriesWereEntered, CallsHaveSockets, Leave
  <2>4. SeenWereEntered'
    BY <1>3 DEF SeenWereEntered, EntriesWereEntered, Leave
  <2>5. UnseenIsRaced'
    BY <1>3 DEF UnseenIsRaced, EntriesWereEntered, Leave
  <2>6. NoGlare'
    BY <1>3 DEF NoGlare, SeenWereEntered, Leave
  <2>7. OnlyOverlapsMiss'
    BY <1>3 DEF OnlyOverlapsMiss, UnseenIsRaced, EntriesWereEntered, SeenWereEntered, Leave
  <2>8. GhostsHaveACause'
    BY <1>3 DEF GhostsHaveACause, EntriesWereEntered, CallsHaveSockets, Leave
  <2>9. QED
    BY <2>1, <2>2, <2>3, <2>4, <2>5, <2>6, <2>7, <2>8
<1>4. ASSUME NEW j \in Joins, NotFound(j) PROVE RosterInv'
  <2>1. TypeOK'
    BY <1>4 DEF NotFound
  <2>2. CallsHaveSockets'
    BY <1>4 DEF CallsHaveSockets, NotFound
  <2>3. EntriesWereEntered'
    BY <1>4 DEF EntriesWereEntered, CallsHaveSockets, NotFound
  <2>4. SeenWereEntered'
    BY <1>4 DEF SeenWereEntered, EntriesWereEntered, NotFound
  <2>5. UnseenIsRaced'
    BY <1>4 DEF UnseenIsRaced, EntriesWereEntered, NotFound
  <2>6. NoGlare'
    BY <1>4 DEF NoGlare, SeenWereEntered, NotFound
  <2>7. OnlyOverlapsMiss'
    BY <1>4 DEF OnlyOverlapsMiss, UnseenIsRaced, EntriesWereEntered, SeenWereEntered, NotFound
  <2>8. GhostsHaveACause'
    BY <1>4 DEF GhostsHaveACause, EntriesWereEntered, CallsHaveSockets, NotFound
  <2>9. QED
    BY <2>1, <2>2, <2>3, <2>4, <2>5, <2>6, <2>7, <2>8
<1>5. ASSUME NEW j \in Joins, ReadRoster(j) PROVE RosterInv'
  <2>1. TypeOK'
    BY <1>5 DEF ReadRoster, Present
  <2>2. CallsHaveSockets'
    BY <1>5 DEF CallsHaveSockets, ReadRoster, Present
  <2>3. EntriesWereEntered'
    BY <1>5 DEF EntriesWereEntered, CallsHaveSockets, ReadRoster, Present
  <2>4. SeenWereEntered'
    BY <1>5 DEF SeenWereEntered, EntriesWereEntered, ReadRoster, Present
  <2>5. UnseenIsRaced'
    BY <1>5 DEF UnseenIsRaced, EntriesWereEntered, ReadRoster, Present
  <2>6. NoGlare'
    <3>1. ASSUME NEW i \in Joins PROVE j \notin saw[i]
      BY <1>5 DEF SeenWereEntered, ReadRoster
    <3>2. ASSUME NEW i \in Joins PROVE saw'[i] = saw[i] \/ i = j
      BY <1>5 DEF ReadRoster
    <3>3. j \notin saw'[j]
      BY <1>5 DEF EntriesWereEntered, ReadRoster, Present
    <3>4. QED
      BY <3>1, <3>2, <3>3 DEF NoGlare
  <2>7. OnlyOverlapsMiss'
    BY <1>5 DEF OnlyOverlapsMiss, UnseenIsRaced, EntriesWereEntered, SeenWereEntered, ReadRoster, Present
  <2>8. GhostsHaveACause'
    BY <1>5 DEF GhostsHaveACause, EntriesWereEntered, CallsHaveSockets, ReadRoster, Present
  <2>9. QED
    BY <2>1, <2>2, <2>3, <2>4, <2>5, <2>6, <2>7, <2>8
<1>6. ASSUME NEW j \in Joins, Enter(j) PROVE RosterInv'
  <2>1. TypeOK'
    <3>1. conn[j] \in Conns /\ page[conn[j]] \in Conns
      BY <1>6 DEF CallsHaveSockets, Enter
    <3>2. raced' \in [Joins -> SUBSET Joins]
      BY <1>6 DEF Enter
    <3>3. roster' \in [Users -> Joins \cup {Nobody}] /\ view' \in [Conns -> {"hub", "call"}]
      BY <1>6 DEF Enter
    <3>4. QED
      BY <1>6, <3>1, <3>2, <3>3 DEF Enter
  <2>2. CallsHaveSockets'
    BY <1>6 DEF CallsHaveSockets, Enter, UserOf
  <2>3. EntriesWereEntered'
    BY <1>6 DEF EntriesWereEntered, CallsHaveSockets, Enter, UserOf
  <2>4. SeenWereEntered'
    BY <1>6 DEF SeenWereEntered, EntriesWereEntered, Enter, UserOf
  <2>5. UnseenIsRaced'
    BY <1>6 DEF UnseenIsRaced, EntriesWereEntered, Enter, UserOf
  <2>6. NoGlare'
    BY <1>6 DEF NoGlare, SeenWereEntered, Enter, UserOf
  <2>7. OnlyOverlapsMiss'
    BY <1>6 DEF OnlyOverlapsMiss, UnseenIsRaced, EntriesWereEntered, SeenWereEntered, Enter, UserOf
  <2>8. GhostsHaveACause'
    BY <1>6 DEF GhostsHaveACause, EntriesWereEntered, CallsHaveSockets, Enter, UserOf
  <2>9. QED
    BY <2>1, <2>2, <2>3, <2>4, <2>5, <2>6, <2>7, <2>8
<1>7. ASSUME NEW j \in Joins, TellJoined(j) PROVE RosterInv'
  <2>1. TypeOK'
    BY <1>7 DEF TellJoined
  <2>2. CallsHaveSockets'
    BY <1>7 DEF CallsHaveSockets, TellJoined
  <2>3. EntriesWereEntered'
    BY <1>7 DEF EntriesWereEntered, CallsHaveSockets, TellJoined
  <2>4. SeenWereEntered'
    BY <1>7 DEF SeenWereEntered, EntriesWereEntered, TellJoined
  <2>5. UnseenIsRaced'
    BY <1>7 DEF UnseenIsRaced, EntriesWereEntered, TellJoined
  <2>6. NoGlare'
    BY <1>7 DEF NoGlare, SeenWereEntered, TellJoined
  <2>7. OnlyOverlapsMiss'
    BY <1>7 DEF OnlyOverlapsMiss, UnseenIsRaced, EntriesWereEntered, SeenWereEntered, TellJoined
  <2>8. GhostsHaveACause'
    BY <1>7 DEF GhostsHaveACause, EntriesWereEntered, CallsHaveSockets, TellJoined
  <2>9. QED
    BY <2>1, <2>2, <2>3, <2>4, <2>5, <2>6, <2>7, <2>8
<1>8. ASSUME NEW p \in Processes \ Joins, Remove(p) PROVE RosterInv'
  <2>1. TypeOK'
    BY <1>8 DEF Remove, UserOf
  <2>2. CallsHaveSockets'
    BY <1>8 DEF CallsHaveSockets, Remove, UserOf
  <2>3. EntriesWereEntered'
    BY <1>8 DEF EntriesWereEntered, CallsHaveSockets, Remove, UserOf
  <2>4. SeenWereEntered'
    BY <1>8 DEF SeenWereEntered, EntriesWereEntered, Remove, UserOf
  <2>5. UnseenIsRaced'
    BY <1>8 DEF UnseenIsRaced, EntriesWereEntered, Remove, UserOf
  <2>6. NoGlare'
    BY <1>8 DEF NoGlare, SeenWereEntered, Remove, UserOf
  <2>7. OnlyOverlapsMiss'
    BY <1>8 DEF OnlyOverlapsMiss, UnseenIsRaced, EntriesWereEntered, SeenWereEntered, Remove, UserOf
  <2>8. GhostsHaveACause'
    BY <1>8 DEF GhostsHaveACause, EntriesWereEntered, CallsHaveSockets, Remove, UserOf
  <2>9. QED
    BY <2>1, <2>2, <2>3, <2>4, <2>5, <2>6, <2>7, <2>8
<1>9. ASSUME NEW p \in Processes \ Joins, TellLeft(p) PROVE RosterInv'
  <2>1. TypeOK'
    BY <1>9 DEF TellLeft
  <2>2. CallsHaveSockets'
    BY <1>9 DEF CallsHaveSockets, TellLeft
  <2>3. EntriesWereEntered'
    BY <1>9 DEF EntriesWereEntered, CallsHaveSockets, TellLeft
  <2>4. SeenWereEntered'
    BY <1>9 DEF SeenWereEntered, EntriesWereEntered, TellLeft
  <2>5. UnseenIsRaced'
    BY <1>9 DEF UnseenIsRaced, EntriesWereEntered, TellLeft
  <2>6. NoGlare'
    BY <1>9 DEF NoGlare, SeenWereEntered, TellLeft
  <2>7. OnlyOverlapsMiss'
    BY <1>9 DEF OnlyOverlapsMiss, UnseenIsRaced, EntriesWereEntered, SeenWereEntered, TellLeft
  <2>8. GhostsHaveACause'
    BY <1>9 DEF GhostsHaveACause, EntriesWereEntered, CallsHaveSockets, TellLeft
  <2>9. QED
    BY <2>1, <2>2, <2>3, <2>4, <2>5, <2>6, <2>7, <2>8
<1>10. ASSUME NEW p \in Processes, Fail(p) PROVE RosterInv'
  <2>1. TypeOK'
    BY <1>10 DEF Fail
  <2>2. CallsHaveSockets'
    BY <1>10 DEF CallsHaveSockets, Fail
  <2>3. EntriesWereEntered'
    BY <1>10 DEF EntriesWereEntered, CallsHaveSockets, Fail
  <2>4. SeenWereEntered'
    BY <1>10 DEF SeenWereEntered, EntriesWereEntered, Fail
  <2>5. UnseenIsRaced'
    BY <1>10 DEF UnseenIsRaced, EntriesWereEntered, Fail
  <2>6. NoGlare'
    BY <1>10 DEF NoGlare, SeenWereEntered, Fail
  <2>7. OnlyOverlapsMiss'
    BY <1>10 DEF OnlyOverlapsMiss, UnseenIsRaced, EntriesWereEntered, SeenWereEntered, Fail
  <2>8. GhostsHaveACause'
    BY <1>10 DEF GhostsHaveACause, EntriesWereEntered, CallsHaveSockets, Fail
  <2>9. QED
    BY <2>1, <2>2, <2>3, <2>4, <2>5, <2>6, <2>7, <2>8
<1>11. ASSUME NEW dead \in SUBSET Conns, Crash(dead) PROVE RosterInv'
  <2>1. TypeOK'
    BY <1>11 DEF Crash
  <2>2. CallsHaveSockets'
    BY <1>11 DEF CallsHaveSockets, Crash
  <2>3. EntriesWereEntered'
    BY <1>11 DEF EntriesWereEntered, CallsHaveSockets, Crash
  <2>4. SeenWereEntered'
    BY <1>11 DEF SeenWereEntered, EntriesWereEntered, Crash
  <2>5. UnseenIsRaced'
    BY <1>11 DEF UnseenIsRaced, EntriesWereEntered, Crash
  <2>6. NoGlare'
    BY <1>11 DEF NoGlare, SeenWereEntered, Crash
  <2>7. OnlyOverlapsMiss'
    BY <1>11 DEF OnlyOverlapsMiss, UnseenIsRaced, EntriesWereEntered, SeenWereEntered, Crash
  <2>8. GhostsHaveACause'
    BY <1>11 DEF GhostsHaveACause, EntriesWereEntered, CallsHaveSockets, Crash
  <2>9. QED
    BY <2>1, <2>2, <2>3, <2>4, <2>5, <2>6, <2>7, <2>8
<1>12. ASSUME NEW c \in Conns, Open(c) \/ LeaveOffline(c) \/ \E d \in Conns : Reopen(c, d)
      PROVE RosterInv'
  <2>1. TypeOK'
    BY <1>12 DEF Open, LeaveOffline, Reopen, processVars
  <2>2. UNCHANGED <<roster, rooms, pc, conn, saw, raced, late, faulted>>
    BY <1>12 DEF Open, LeaveOffline, Reopen, processVars
  <2>3. \A e \in Conns : state[e] = "up" => state'[e] = "up"
    BY <1>12 DEF Open, LeaveOffline, Reopen
  <2>4. CallsHaveSockets' /\ EntriesWereEntered' /\ SeenWereEntered'
    BY <2>2 DEF CallsHaveSockets, EntriesWereEntered, SeenWereEntered
  <2>5. UnseenIsRaced' /\ NoGlare' /\ OnlyOverlapsMiss'
    BY <2>2 DEF UnseenIsRaced, NoGlare, OnlyOverlapsMiss
  <2>6. GhostsHaveACause'
    BY <2>2, <2>3 DEF GhostsHaveACause, EntriesWereEntered
  <2>7. QED
    BY <2>1, <2>4, <2>5, <2>6
<1>13. CASE UNCHANGED vars
  BY <1>13
  DEF vars, processVars, CallsHaveSockets, EntriesWereEntered, SeenWereEntered, UnseenIsRaced,
      NoGlare, OnlyOverlapsMiss, GhostsHaveACause
<1>14. QED
  BY <1>1, <1>2, <1>3, <1>4, <1>5, <1>6, <1>7, <1>8, <1>9, <1>10, <1>11, <1>12, <1>13
  DEF Next, Continue

\* The roster of every room, however many sockets join and leave it at once.
THEOREM RosterSafety == Spec => []RosterInv
  BY InitInv, StepInv, PTL DEF Spec

\* No two joiners offer to each other (the mesh rule of joinRoom).
THEOREM InitiatorIsUnique == Spec => []NoGlare
<1>1. RosterInv => NoGlare
  BY DEF RosterInv
<1>2. QED
  BY <1>1, RosterSafety, PTL

\* Only joins that overlapped leave a pair of the roster unconnected.
THEOREM MissesOverlapped == Spec => []OnlyOverlapsMiss
<1>1. RosterInv => OnlyOverlapsMiss
  BY DEF RosterInv
<1>2. QED
  BY <1>1, RosterSafety, PTL

\* Without a failure, a ghost is the entry of a join that outlived its socket.
THEOREM GhostsExplained == Spec => []GhostsHaveACause
<1>1. RosterInv => GhostsHaveACause
  BY DEF RosterInv
<1>2. QED
  BY <1>1, RosterSafety, PTL

----------------------------------------------------------------------------
\* The mesh.

LEMMA MeshInitMaps == MeshInit => Init
  BY DEF MeshInit

\* One case per action of the mesh.
LEMMA MeshStepMaps == [MeshNext]_allVars => [Next]_vars
<1> SUFFICES ASSUME [MeshNext]_allVars PROVE Next \/ UNCHANGED vars
  OBVIOUS
<1>1. CASE Unseen
  BY <1>1 DEF Unseen, Next, Continue, Processes
<1>2. ASSUME NEW j \in Joins, EnterRoom(j) \/ PeerJoined(j) PROVE Next
  BY <1>2 DEF EnterRoom, PeerJoined, Next, Continue, Processes
<1>3. ASSUME NEW j \in Joins, JoinRoomMesh(j) \/ InitFails(j) PROVE UNCHANGED vars
  BY <1>3 DEF JoinRoomMesh, InitFails
<1>4. ASSUME NEW p \in Processes \ Joins, RemovePeer(p) \/ PeerLeft(p) PROVE Next
  BY <1>4 DEF RemovePeer, PeerLeft, Next, Continue, Processes
<1>5. ASSUME NEW c \in Conns, LeavePageOffline(c) \/ \E l \in Leaves : LeavePage(l, c)
      PROVE Next
  BY <1>5 DEF LeavePageOffline, LeavePage, Next
<1>6. ASSUME NEW p \in Conns, NEW u \in Users, OnSignal(p, u) PROVE UNCHANGED vars
  BY <1>6 DEF OnSignal, AcceptCall, ReceiveAnswer, ReceiveHangup, Relayed
<1>7. CASE UNCHANGED allVars
  BY <1>7 DEF allVars
<1>8. QED
  BY <1>1, <1>2, <1>3, <1>4, <1>5, <1>6, <1>7 DEF MeshNext

\* The composition of the pages with the roster is a behaviour of the roster alone.
THEOREM MeshKeepsTheRoster == MeshSpec => Spec
  BY MeshInitMaps, MeshStepMaps, PTL DEF MeshSpec, Spec

\* Whatever pages, managers and frames do, the roster has its invariant.
THEOREM RosterSafeInMesh == MeshSpec => []RosterInv
  BY MeshKeepsTheRoster, RosterSafety, PTL

----------------------------------------------------------------------------
\* Sockets: what a frame or a page knows of its socket, kept by the steps of Rooms;
\* and that a join which is noted as raced has been under way.
RacedWereEntered ==
  \A i, j \in Joins : i \in raced[j] => pc[i] # "new" /\ pc[j] \in {"tell", "done"}

Sockets == RosterInv /\ RacedWereEntered /\ FramesHadSockets /\ PagesAreOwn

LEMMA SocketsInit == Init => Sockets
<1> SUFFICES ASSUME Init PROVE Sockets
  OBVIOUS
<1>1. \A p \in Processes : pc[p] = "new"
  BY DEF Init
<1>2. RacedWereEntered /\ PagesAreOwn
  BY DEF Init, RacedWereEntered, PagesAreOwn
<1>3. FramesHadSockets
  BY <1>1 DEF FramesHadSockets, Processes
<1>4. QED
  BY <1>2, <1>3, InitInv DEF Sockets

\* A socket opens once and closes once, and keeps its page once it is open.
LEMMA StatesGoForward ==
  ASSUME TypeOK, [Next]_vars, NEW c \in Conns
  PROVE  /\ state'[c] = "new" => state[c] = "new"
         /\ state[c] = "closed" => state'[c] = "closed"
         /\ state[c] # "new" => page'[c] = page[c]
<1> USE DEF TypeOK
<1>1. CASE UNCHANGED <<state, page>>
  BY <1>1
<1>2. ASSUME NEW d \in Conns, Open(d) \/ Drop(d) \/ \E e \in Conns : Reopen(d, e)
      PROVE /\ state'[c] = "new" => state[c] = "new"
            /\ state[c] = "closed" => state'[c] = "closed"
            /\ state[c] # "new" => page'[c] = page[c]
  BY <1>2 DEF Open, Drop, Reopen
<1>3. ASSUME NEW dead \in SUBSET Conns, Crash(dead)
      PROVE /\ state'[c] = "new" => state[c] = "new"
            /\ state[c] = "closed" => state'[c] = "closed"
            /\ state[c] # "new" => page'[c] = page[c]
  BY <1>3 DEF Crash
<1>4. ASSUME NEW d \in Conns,
             LeaveOffline(d) \/ (\E j \in Joins : Join(j, d)) \/ (\E l \in Leaves : Leave(l, d))
      PROVE UNCHANGED <<state, page>>
  BY <1>4 DEF LeaveOffline, Join, Leave
<1>5. ASSUME NEW p \in Processes, NotFound(p) \/ Continue(p) \/ Fail(p)
      PROVE UNCHANGED <<state, page>>
  BY <1>5 DEF NotFound, Continue, ReadRoster, Enter, TellJoined, Remove, TellLeft, Fail
<1>6. QED
  BY <1>1, <1>2, <1>3, <1>4, <1>5 DEF Next, vars, Processes

\* A call keeps its socket and does not begin again.
LEMMA CallsGoForward ==
  ASSUME TypeOK, [Next]_vars, NEW p \in Joins \cup Leaves, pc[p] # "new"
  PROVE  conn'[p] = conn[p] /\ pc'[p] # "new"
<1> USE ProcessesDiffer DEF TypeOK, Processes
<1>1. CASE UNCHANGED <<pc, conn>>
  BY <1>1
<1>2. ASSUME NEW c \in Conns, Drop(c) \/ (\E j \in Joins : Join(j, c)) \/ (\E l \in Leaves : Leave(l, c))
      PROVE conn'[p] = conn[p] /\ pc'[p] # "new"
  BY <1>2 DEF Drop, Join, Leave
<1>3. ASSUME NEW q \in Processes, NotFound(q) \/ Continue(q) \/ Fail(q)
      PROVE conn'[p] = conn[p] /\ pc'[p] # "new"
  BY <1>3 DEF NotFound, Continue, ReadRoster, Enter, TellJoined, Remove, TellLeft, Fail
<1>4. ASSUME NEW dead \in SUBSET Conns, Crash(dead)
      PROVE conn'[p] = conn[p] /\ pc'[p] # "new"
  BY <1>4 DEF Crash
<1>5. ASSUME NEW c \in Conns, Open(c) \/ LeaveOffline(c) \/ \E d \in Conns : Reopen(c, d)
      PROVE UNCHANGED <<pc, conn>>
  BY <1>5 DEF Open, LeaveOffline, Reopen, processVars
<1>6. QED
  BY <1>1, <1>2, <1>3, <1>4, <1>5 DEF Next, vars, processVars

\* A disconnect handler runs once its socket has closed.
LEMMA HandlersFollow ==
  ASSUME TypeOK, [Next]_vars, NEW c \in Conns, pc[c] # "new" => state[c] = "closed"
  PROVE  pc'[c] # "new" => state'[c] = "closed"
<1> USE ProcessesDiffer DEF TypeOK, Processes
<1>1. CASE pc'[c] = pc[c]
  BY <1>1, StatesGoForward
<1>2. ASSUME NEW d \in Conns, Drop(d) \/ (\E j \in Joins : Join(j, d)) \/ (\E l \in Leaves : Leave(l, d))
      PROVE pc'[c] = pc[c] \/ state'[c] = "closed"
  BY <1>2 DEF Drop, Join, Leave
<1>3. ASSUME NEW q \in Processes, NotFound(q) \/ Continue(q) \/ Fail(q)
      PROVE pc'[c] = pc[c] \/ pc[c] # "new"
  BY <1>3 DEF NotFound, Continue, ReadRoster, Enter, TellJoined, Remove, TellLeft, Fail
<1>4. ASSUME NEW dead \in SUBSET Conns, Crash(dead)
      PROVE pc'[c] = pc[c] \/ state'[c] = "closed"
  BY <1>4 DEF Crash
<1>5. ASSUME NEW d \in Conns, Open(d) \/ LeaveOffline(d) \/ \E e \in Conns : Reopen(d, e)
      PROVE pc'[c] = pc[c]
  BY <1>5 DEF Open, LeaveOffline, Reopen, processVars
<1>6. QED
  BY <1>1, <1>2, <1>3, <1>4, <1>5, StatesGoForward DEF Next, vars, processVars

\* A call that begins has an open socket.
LEMMA CallsBeginOpen ==
  ASSUME TypeOK, [Next]_vars, NEW p \in Joins \cup Leaves, pc[p] = "new", pc'[p] # "new"
  PROVE  state'[conn'[p]] # "new"
<1> USE ProcessesDiffer DEF TypeOK, Processes
<1>1. ASSUME NEW c \in Conns, Drop(c) \/ (\E j \in Joins : Join(j, c)) \/ (\E l \in Leaves : Leave(l, c))
      PROVE state'[conn'[p]] # "new"
  BY <1>1 DEF Drop, Join, Leave
<1>2. ASSUME NEW q \in Processes, NotFound(q) \/ Continue(q) \/ Fail(q)
      PROVE FALSE
  BY <1>2 DEF NotFound, Continue, ReadRoster, Enter, TellJoined, Remove, TellLeft, Fail
<1>3. ASSUME NEW dead \in SUBSET Conns, Crash(dead)
      PROVE state'[conn'[p]] # "new"
  BY <1>3 DEF Crash
<1>4. ASSUME NEW d \in Conns, Open(d) \/ LeaveOffline(d) \/ \E e \in Conns : Reopen(d, e)
      PROVE FALSE
  BY <1>4 DEF Open, LeaveOffline, Reopen, processVars
<1>5. QED
  BY <1>1, <1>2, <1>3, <1>4 DEF Next, vars, processVars

\* A join that entered stays so, and another can only be raced by one under way.
LEMMA RacedStay ==
  ASSUME RosterInv, RacedWereEntered, [Next]_vars, NEW i \in Joins, NEW j \in Joins
  PROVE  /\ pc[j] \in {"tell", "done"} => pc'[j] \in {"tell", "done"} /\ raced'[j] = raced[j]
         /\ i \in raced'[j] => \/ i \in raced[j]
                               \/ pc[i] = "put" /\ pc'[j] = "tell"
<1> USE ProcessesDiffer DEF RosterInv, TypeOK, Processes, history
<1>1. CASE UNCHANGED <<pc, raced>>
  BY <1>1
<1>2. ASSUME NEW c \in Conns, Drop(c) \/ (\E k \in Joins : Join(k, c)) \/ (\E l \in Leaves : Leave(l, c))
      PROVE raced' = raced /\ (pc[j] # "new" => pc'[j] = pc[j])
  BY <1>2 DEF Drop, Join, Leave
<1>3. ASSUME NEW k \in Joins, Enter(k)
      PROVE /\ pc[j] \in {"tell", "done"} => pc'[j] \in {"tell", "done"} /\ raced'[j] = raced[j]
            /\ i \in raced'[j] => \/ i \in raced[j]
                                  \/ pc[i] = "put" /\ pc'[j] = "tell"
  BY <1>3 DEF Enter
<1>4. ASSUME NEW q \in Processes,
             \/ NotFound(q) \/ ReadRoster(q) \/ TellJoined(q) \/ Remove(q) \/ TellLeft(q) \/ Fail(q)
      PROVE raced' = raced /\ (pc[j] \in {"tell", "done"} => pc'[j] \in {"tell", "done"})
  BY <1>4 DEF NotFound, ReadRoster, TellJoined, Remove, TellLeft, Fail
<1>5. ASSUME NEW dead \in SUBSET Conns, Crash(dead)
      PROVE raced' = raced /\ (pc[j] \in {"tell", "done"} => pc'[j] \in {"tell", "done"})
  BY <1>5 DEF Crash
<1>6. ASSUME NEW d \in Conns, Open(d) \/ LeaveOffline(d) \/ \E e \in Conns : Reopen(d, e)
      PROVE UNCHANGED <<pc, raced>>
  BY <1>6 DEF Open, LeaveOffline, Reopen, processVars
<1>7. QED
  BY <1>1, <1>2, <1>3, <1>4, <1>5, <1>6 DEF Next, Continue, vars, processVars

LEMMA SocketsStep == Sockets /\ [Next]_vars => Sockets'
<1> SUFFICES ASSUME Sockets, [Next]_vars PROVE Sockets'
  OBVIOUS
<1>1. RosterInv' /\ TypeOK
  BY StepInv DEF Sockets, RosterInv
<1>2. RacedWereEntered'
  <2> SUFFICES ASSUME NEW i \in Joins, NEW j \in Joins, i \in raced'[j]
               PROVE  pc'[i] # "new" /\ pc'[j] \in {"tell", "done"}
    BY DEF RacedWereEntered
  <2>1. CASE i \in raced[j]
    <3>1. pc[i] # "new" /\ pc[j] \in {"tell", "done"}
      BY <2>1 DEF Sockets, RacedWereEntered
    <3>2. QED
      BY <1>1, <3>1, CallsGoForward, RacedStay DEF Sockets
  <2>2. CASE i \notin raced[j]
    <3>1. pc[i] = "put" /\ pc'[j] = "tell"
      BY <2>2, RacedStay DEF Sockets
    <3>2. QED
      BY <1>1, <3>1, CallsGoForward
  <2>3. QED
    BY <2>1, <2>2
<1>3. FramesHadSockets'
  <2>1. ASSUME NEW p \in Joins \cup Leaves, pc'[p] # "new" PROVE state'[conn'[p]] # "new"
    <3>1. CASE pc[p] = "new"
      BY <1>1, <2>1, <3>1, CallsBeginOpen
    <3>2. CASE pc[p] # "new"
      <4>1. conn[p] \in Conns /\ state[conn[p]] # "new" /\ conn'[p] = conn[p]
        BY <1>1, <3>2, CallsGoForward DEF Sockets, FramesHadSockets, RosterInv, CallsHaveSockets
      <4>2. QED
        BY <1>1, <4>1, StatesGoForward
    <3>3. QED
      BY <3>1, <3>2
  <2>2. ASSUME NEW c \in Conns, pc'[c] # "new" PROVE state'[c] = "closed"
    BY <1>1, <2>2, HandlersFollow DEF Sockets, FramesHadSockets
  <2>3. QED
    BY <2>1, <2>2 DEF FramesHadSockets
<1>4. PagesAreOwn'
  <2> SUFFICES ASSUME NEW c \in Conns
               PROVE  /\ Owner[page'[c]] = Owner[c]
                      /\ page'[c] = c \/ \E d \in Conns : Owner[d] = Owner[c] /\ state'[d] = "closed"
    BY DEF PagesAreOwn
  <2>1. /\ Owner[page[c]] = Owner[c]
        /\ page[c] = c \/ \E d \in Conns : Owner[d] = Owner[c] /\ state[d] = "closed"
    BY DEF Sockets, PagesAreOwn
  <2>2. CASE page'[c] = page[c]
    BY <1>1, <2>1, <2>2, StatesGoForward
  <2>3. CASE page'[c] # page[c]
    <3>1. PICK e \in Conns, d \in Conns : Reopen(e, d)
      BY <2>3
      DEF Next, Continue, vars, Open, Drop, LeaveOffline, Join, Leave, NotFound, ReadRoster, Enter,
          TellJoined, Remove, TellLeft, Fail, Crash
    <3>2. c = e /\ page'[c] = page[d] /\ Owner[c] = Owner[d] /\ state[d] = "closed"
      BY <1>1, <2>3, <3>1 DEF Reopen, TypeOK
    <3>3. Owner[page[d]] = Owner[d]
      BY DEF Sockets, PagesAreOwn
    <3>4. QED
      BY <1>1, <3>2, <3>3, StatesGoForward
  <2>4. QED
    BY <2>2, <2>3
<1>5. QED
  BY <1>1, <1>2, <1>3, <1>4 DEF Sockets

----------------------------------------------------------------------------
\* The types of the mesh.

LEMMA MeshInitTypes == MeshInit => MeshTypeOK
<1> SUFFICES ASSUME MeshInit PROVE MeshTypeOK
  OBVIOUS
<1>1. <<>> \in Seq(Frames)
  OBVIOUS
<1>2. wire \in [Conns \X Users -> Seq(Frames)]
  BY <1>1 DEF MeshInit
<1>3. QED
  BY <1>2 DEF MeshInit, MeshTypeOK

LEMMA HearingTypes ==
  ASSUME NEW u \in Users
  PROVE  Hearing(u) \in SUBSET Joins
  BY DEF Hearing

\* A page sends a frame to some users: nothing else changes on the wire.
LEMMA SentTypes ==
  ASSUME MeshTypeOK, NEW p \in Conns, NEW us \in SUBSET Users, NEW f \in Frames
  PROVE  Sent(p, us, f) \in [Conns \X Users -> Seq(Frames)]
<1>1. \A d \in Conns \X Users : wire[d] \in Seq(Frames) /\ Append(wire[d], f) \in Seq(Frames)
  BY DEF MeshTypeOK
<1>2. QED
  BY <1>1 DEF Sent, MeshTypeOK

LEMMA CloseTypes ==
  ASSUME NEW table \in [Joins -> [Users -> Joins \cup {Nobody}]], NEW ks, NEW u \in Users
  PROVE  Close(table, ks, u) \in [Joins -> [Users -> Joins \cup {Nobody}]]
<1>1. \A k \in Joins : [table[k] EXCEPT ![u] = Nobody] \in [Users -> Joins \cup {Nobody}]
  OBVIOUS
<1>2. QED
  BY <1>1 DEF Close

\* The answers of a page's listeners are frames, one of each.
LEMMA AnswerTypes ==
  ASSUME NEW managers \in SUBSET Joins, NEW o \in Orders(managers), NEW call \in Joins
  PROVE  [n \in DOMAIN o |-> Frame("webrtc_answer", call, o[n])] \in Seq(Frames)
<1>1. IsFiniteSet(managers)
  BY JoinsAreFinite, FS_Subset
<1>2. Cardinality(managers) \in Nat
  BY <1>1, FS_CardinalityType
<1>3. DOMAIN o = 1 .. Cardinality(managers) /\ \A n \in DOMAIN o : o[n] \in Joins
  BY DEF Orders
<1>4. \A n \in DOMAIN o : Frame("webrtc_answer", call, o[n]) \in Frames
  BY <1>3 DEF Frame, Frames
<1>5. QED
  BY <1>2, <1>3, <1>4

LEMMA WireTypes ==
  ASSUME MeshTypeOK, RosterInv, NEW p \in Conns, NEW u \in Users, wire[<<p, u>>] # <<>>
  PROVE  /\ Head(wire[<<p, u>>]) \in Frames
         /\ Tail(wire[<<p, u>>]) \in Seq(Frames)
         /\ [wire EXCEPT ![<<p, u>>] = Tail(@)] \in [Conns \X Users -> Seq(Frames)]
<1>1. <<p, u>> \in Conns \X Users
  OBVIOUS
<1>2. wire \in [Conns \X Users -> Seq(Frames)]
  BY DEF MeshTypeOK
<1>3. wire[<<p, u>>] \in Seq(Frames)
  BY <1>1, <1>2
<1>4. Head(wire[<<p, u>>]) \in Frames /\ Tail(wire[<<p, u>>]) \in Seq(Frames)
  BY <1>3
<1>5. QED
  BY <1>1, <1>2, <1>4

LEMMA RelayedTypes ==
  ASSUME MeshTypeOK, RosterInv, NEW p \in Conns, NEW u \in Users, NEW f \in Frames, Relayed(p, u, f)
  PROVE  /\ peers' \in [Conns -> SUBSET Users] /\ missed' \subseteq Joins \X Joins
         /\ mgr' = mgr /\ stale' = stale
<1>1. f.by \in Joins
  BY DEF Frames
<1>2. Hearing(u) \subseteq Joins
  BY HearingTypes
<1>3. {<<f.by, k>> : k \in {k \in Joins :
         mgr[k] \in Mounted /\ UserOf(k) = u /\ k \notin Hearing(u)}} \subseteq Joins \X Joins
  BY <1>1
<1>4. {i \in Joins : mgr[i] # "none" /\ UserOf(i) = Owner[p]}
         \X {k \in Hearing(u) : Stray(f, k)} \subseteq Joins \X Joins
  BY <1>2
<1>5. QED
  BY <1>3, <1>4 DEF Relayed, MeshTypeOK

\* One case per action of the mesh.
LEMMA MeshTypes == RosterInv /\ ManagersWereJoined /\ MeshTypeOK /\ [MeshNext]_allVars => MeshTypeOK'
<1> SUFFICES ASSUME RosterInv, ManagersWereJoined, MeshTypeOK, [MeshNext]_allVars
             PROVE  MeshTypeOK'
  OBVIOUS
<1>1. ASSUME NEW j \in Joins, pc[j] # "new"
      PROVE  conn[j] \in Conns /\ UserOf(j) \in Users /\ PageOf(j) \in Conns
  BY <1>1, OwnerOfConns DEF RosterInv, TypeOK, CallsHaveSockets, UserOf, PageOf, Processes
<1>3. ASSUME NEW j \in Joins PROVE Given(j) \subseteq Users
  <2>1. \A i \in saw[j] : i \in Joins /\ pc[i] # "new"
    BY DEF RosterInv, TypeOK, SeenWereEntered
  <2>2. QED
    BY <1>1, <2>1 DEF Given
<1>4. CASE UNCHANGED meshVars
  BY <1>4 DEF meshVars, MeshTypeOK
<1>5. ASSUME NEW j \in Joins, EnterRoom(j) PROVE MeshTypeOK'
  <2>1. pc[j] # "new"
    BY <1>5 DEF EnterRoom, Enter
  <2>2. PageOf(j) \in Conns /\ Given(j) \subseteq Users
    BY <1>1, <1>3, <2>1
  <2>3. peers' \in [Conns -> SUBSET Users]
    BY <1>5, <2>2 DEF EnterRoom, MeshTypeOK
  <2>4. mgr' \in [Joins -> Mounted \cup Listening \cup {"none", "cut", "gone"}]
    BY <1>5 DEF EnterRoom, MeshTypeOK, Mounted, Listening
  <2>5. QED
    BY <1>5, <2>3, <2>4 DEF EnterRoom, MeshTypeOK
<1>6. ASSUME NEW j \in Joins, PeerJoined(j) PROVE MeshTypeOK'
  <2>1. UserOf(j) \in Users
    BY <1>1, <1>6 DEF PeerJoined, TellJoined
  <2>2. peers' \in [Conns -> SUBSET Users]
    BY <1>6, <2>1 DEF PeerJoined, MeshTypeOK
  <2>3. QED
    BY <1>6, <2>2 DEF PeerJoined, MeshTypeOK
<1>7. ASSUME NEW k \in Joins, JoinRoomMesh(k) PROVE MeshTypeOK'
  <2>1. PageOf(k) \in Conns /\ Given(k) \subseteq Users
    BY <1>1, <1>3, <1>7 DEF JoinRoomMesh, ManagersWereJoined
  <2>2. mgr' \in [Joins -> Mounted \cup Listening \cup {"none", "cut", "gone"}]
    BY <1>7 DEF JoinRoomMesh, MeshTypeOK, Mounted, Listening
  <2>3. [u \in Users |-> IF u \in Given(k) THEN k ELSE caller[k][u]] \in [Users -> Joins \cup {Nobody}]
    BY DEF MeshTypeOK
  <2>4. caller' \in [Joins -> [Users -> Joins \cup {Nobody}]]
    BY <1>7, <2>3 DEF JoinRoomMesh, MeshTypeOK
  <2>5. Frame("webrtc_offer", k, k) \in Frames
    BY DEF Frame, Frames
  <2>6. wire' \in [Conns \X Users -> Seq(Frames)]
    BY <1>7, <2>1, <2>5, SentTypes DEF JoinRoomMesh
  <2>7. missed' \subseteq Joins \X Joins
    BY <1>7 DEF JoinRoomMesh, MeshTypeOK
  <2>8. QED
    BY <1>7, <2>2, <2>4, <2>6, <2>7 DEF JoinRoomMesh, MeshTypeOK
<1>8. ASSUME NEW k \in Joins, InitFails(k) PROVE MeshTypeOK'
  BY <1>8 DEF InitFails, MeshTypeOK, Mounted, Listening
<1>9. ASSUME NEW p \in Processes \ Joins, RemovePeer(p) \/ PeerLeft(p) PROVE MeshTypeOK'
  <2>1. p \in Conns \/ p \in Leaves
    BY DEF Processes
  <2>2. pc[p] # "new"
    BY <1>9 DEF RemovePeer, Remove, PeerLeft, TellLeft
  <2>3. UserOf(p) \in Users
    BY <2>1, <2>2, OwnerOfConns DEF RosterInv, CallsHaveSockets, UserOf
  <2>4. stale' \subseteq Users
    BY <1>9, <2>3 DEF RemovePeer, PeerLeft, MeshTypeOK
  <2>5. CASE RemovePeer(p)
    BY <2>4, <2>5 DEF RemovePeer, MeshTypeOK
  <2>6. CASE PeerLeft(p)
    <3>1. caller' \in [Joins -> [Users -> Joins \cup {Nobody}]] /\ far' \in [Joins -> [Users -> Joins \cup {Nobody}]]
      BY <2>3, <2>6, CloseTypes DEF PeerLeft, MeshTypeOK
    <3>2. peers' \in [Conns -> SUBSET Users]
      BY <2>6 DEF PeerLeft, MeshTypeOK
    <3>3. QED
      BY <2>4, <2>6, <3>1, <3>2 DEF PeerLeft, MeshTypeOK
  <2>7. QED
    BY <1>9, <2>5, <2>6
<1>10. ASSUME NEW p \in Conns, Unmount(p) PROVE MeshTypeOK'
  <2>1. peers' \in [Conns -> SUBSET Users] /\ missed' \subseteq Joins \X Joins /\ stale' \subseteq Users
    BY <1>10 DEF Unmount, MeshTypeOK
  <2>2. mgr' \in [Joins -> Mounted \cup Listening \cup {"none", "cut", "gone"}]
    BY <1>10 DEF Unmount, MeshTypeOK, Mounted, Listening
  <2>3. caller' \in [Joins -> [Users -> Joins \cup {Nobody}]]
    BY <1>10 DEF Unmount, MeshTypeOK
  <2>4. far' \in [Joins -> [Users -> Joins \cup {Nobody}]]
    BY <1>10 DEF Unmount, MeshTypeOK
  <2>5. wire' \in [Conns \X Users -> Seq(Frames)]
    <3> DEFINE m == MountedOn(p)
               called == {u \in Users : \E k \in m : caller[k][u] # Nobody}
               k0 == CHOOSE k \in m : TRUE
    <3>1. wire' = IF m = {} THEN wire ELSE Sent(p, called, Frame("call_hangup", k0, k0))
      BY <1>10 DEF Unmount
    <3>2. called \in SUBSET Users
      OBVIOUS
    <3>3. m # {} => k0 \in Joins
      BY DEF MountedOn
    <3>4. m # {} => Frame("call_hangup", k0, k0) \in Frames
      BY <3>3 DEF Frame, Frames
    <3> HIDE DEF called, k0, m
    <3>5. QED
      BY <3>1, <3>2, <3>4, SentTypes DEF MeshTypeOK
  <2>6. QED
    BY <2>1, <2>2, <2>3, <2>4, <2>5 DEF MeshTypeOK
<1>11. ASSUME NEW p \in Conns, NEW u \in Users, OnSignal(p, u) PROVE MeshTypeOK'
  <2> DEFINE f == Head(wire[<<p, u>>])
             w == Owner[p]
  <2>1. /\ f \in Frames /\ Tail(wire[<<p, u>>]) \in Seq(Frames)
        /\ [wire EXCEPT ![<<p, u>>] = Tail(@)] \in [Conns \X Users -> Seq(Frames)]
    <3>1. wire[<<p, u>>] # <<>>
      BY <1>11 DEF OnSignal
    <3>2. QED
      BY <3>1, WireTypes
  <2>2. f.call \in Joins /\ f.by \in Joins
    BY <2>1 DEF Frames
  <2>3. w \in Users
    BY OwnerOfConns
  <2>4. AcceptCall(p, u, f) \/ ReceiveAnswer(p, u, f) \/ ReceiveHangup(p, u, f)
    BY <1>11 DEF OnSignal
  <2>5. Relayed(p, u, f)
    BY <2>4 DEF AcceptCall, ReceiveAnswer, ReceiveHangup
  <2>6. /\ peers' \in [Conns -> SUBSET Users] /\ missed' \subseteq Joins \X Joins
        /\ mgr' = mgr /\ stale' = stale
    BY <2>1, <2>5, RelayedTypes
  <2> HIDE DEF f, w
  <2>7. CASE AcceptCall(p, u, f)
    <3>1. \A k \in Joins : /\ [caller[k] EXCEPT ![w] = f.call] \in [Users -> Joins \cup {Nobody}]
                           /\ [far[k] EXCEPT ![w] = f.by] \in [Users -> Joins \cup {Nobody}]
      BY <2>2, <2>3 DEF MeshTypeOK
    <3>2. caller' \in [Joins -> [Users -> Joins \cup {Nobody}]]
      BY <2>7, <3>1 DEF AcceptCall, MeshTypeOK, w
    <3>3. far' \in [Joins -> [Users -> Joins \cup {Nobody}]]
      BY <2>7, <3>1 DEF AcceptCall, MeshTypeOK, w
    <3> DEFINE on(q) == {k \in Hearing(u) : PageOf(k) = q}
               answers(o) == [n \in DOMAIN o |-> Frame("webrtc_answer", f.call, o[n])]
               rest(d) == IF d = <<p, u>> THEN Tail(wire[d]) ELSE wire[d]
    <3>4. PICK order : /\ \A q \in Conns : order[q] \in Orders(on(q))
                       /\ wire' = [d \in Conns \X Users |->
                             IF d[2] # w THEN rest(d) ELSE rest(d) \o answers(order[d[1]])]
      BY <2>7 DEF AcceptCall, w
    <3>5. \A d \in Conns \X Users : rest(d) \in Seq(Frames)
      BY <2>1 DEF MeshTypeOK
    <3>6. \A q \in Conns : on(q) \in SUBSET Joins
      BY DEF Hearing
    <3>7. \A q \in Conns : answers(order[q]) \in Seq(Frames)
      BY <2>2, <3>4, <3>6, AnswerTypes
    <3> HIDE DEF answers, rest, on
    <3>8. ASSUME NEW d \in Conns \X Users PROVE wire'[d] \in Seq(Frames)
      <4>1. d[1] \in Conns
        OBVIOUS
      <4>2. rest(d) \in Seq(Frames) /\ answers(order[d[1]]) \in Seq(Frames)
        BY <3>5, <3>7, <4>1
      <4>3. rest(d) \o answers(order[d[1]]) \in Seq(Frames)
        BY <4>2
      <4>4. QED
        BY <3>4, <4>2, <4>3
    <3>9. wire' \in [Conns \X Users -> Seq(Frames)]
      BY <3>4, <3>8
    <3>10. QED
      BY <2>6, <3>2, <3>3, <3>9 DEF MeshTypeOK
  <2>8. CASE ReceiveAnswer(p, u, f)
    <3>1. \A k \in Joins : [far[k] EXCEPT ![w] = f.by] \in [Users -> Joins \cup {Nobody}]
      BY <2>2, <2>3 DEF MeshTypeOK
    <3>2. far' \in [Joins -> [Users -> Joins \cup {Nobody}]]
      BY <2>8, <3>1 DEF ReceiveAnswer, MeshTypeOK, w
    <3>3. QED
      BY <2>1, <2>6, <2>8, <3>2 DEF ReceiveAnswer, MeshTypeOK
  <2>9. CASE ReceiveHangup(p, u, f)
    <3>1. caller' \in [Joins -> [Users -> Joins \cup {Nobody}]] /\ far' \in [Joins -> [Users -> Joins \cup {Nobody}]]
      BY <2>3, <2>9, CloseTypes DEF ReceiveHangup, MeshTypeOK, w
    <3>2. QED
      BY <2>1, <2>6, <2>9, <3>1 DEF ReceiveHangup, MeshTypeOK
  <2>10. QED
    BY <2>4, <2>7, <2>8, <2>9
<1>12. ASSUME NEW c \in Conns, LeavePageOffline(c) \/ \E l \in Leaves : LeavePage(l, c)
       PROVE  MeshTypeOK'
  <2>1. page[c] \in Conns
    BY DEF RosterInv, TypeOK
  <2>2. QED
    BY <1>10, <1>12, <2>1 DEF LeavePageOffline, LeavePage
<1>13. QED
  BY <1>4, <1>5, <1>6, <1>7, <1>8, <1>9, <1>11, <1>12 DEF MeshNext, allVars
----------------------------------------------------------------------------
\* The part of the invariant that OneManager needs.
Settled == /\ Sockets
           /\ MeshTypeOK
           /\ OneManager
           /\ ManagersWereJoined

LEMMA SettledInit == MeshInit => Settled
<1> SUFFICES ASSUME MeshInit PROVE Settled
  OBVIOUS
<1>1. Sockets /\ MeshTypeOK
  BY SocketsInit, MeshInitTypes DEF MeshInit
<1>2. \A p \in Conns : view[p] = "hub" /\ MountedOn(p) = {}
  BY DEF MeshInit, Init, MountedOn, Mounted
<1>3. ManagersWereJoined
  BY DEF ManagersWereJoined, MeshInit, Init, Processes
<1>4. QED
  BY <1>1, <1>2, <1>3 DEF Settled, OneManager

\* A step that moves no manager to or from a page and shows no other view.
LEMMA SettledKept ==
  ASSUME Settled, Sockets', MeshTypeOK', view' = view, ManagersWereJoined',
         \A k \in Joins : mgr'[k] \in Mounted <=> mgr[k] \in Mounted,
         \A k \in Joins : mgr[k] \in Mounted => PageOf(k)' = PageOf(k)
  PROVE  Settled'
<1>1. \A p \in Conns : MountedOn(p)' = MountedOn(p)
  BY DEF MountedOn, Mounted
<1>2. OneManager'
  BY <1>1 DEF Settled, OneManager
<1>3. QED
  BY <1>2 DEF Settled

LEMMA SettledStep == Settled /\ [MeshNext]_allVars => Settled'
<1> SUFFICES ASSUME Settled, [MeshNext]_allVars PROVE Settled'
  OBVIOUS
<1> USE DEF Sockets
<1>0. DOMAIN mgr = Joins
  BY DEF Settled, MeshTypeOK
<1>1. Sockets' /\ MeshTypeOK'
  BY SocketsStep, MeshStepMaps, MeshTypes DEF Settled
<1>2. ASSUME NEW k \in Joins, mgr[k] \in Mounted
      PROVE /\ pc[k] \in {"tell", "done"}
            /\ conn[k] \in Conns /\ state[conn[k]] # "new" /\ PageOf(k) \in Conns
  <2>1. mgr[k] # "none"
    BY <1>2 DEF Mounted
  <2>2. pc[k] \in {"tell", "done"} /\ state[conn[k]] # "new"
    BY <2>1 DEF Settled, ManagersWereJoined, FramesHadSockets
  <2>3. conn[k] \in Conns
    BY <2>2 DEF Settled, RosterInv, CallsHaveSockets
  <2>4. QED
    BY <2>2, <2>3 DEF PageOf, Settled, RosterInv, TypeOK
<1>3. CASE Unseen /\ UNCHANGED meshVars
  <2>1. ManagersWereJoined'
    <3>1. SUFFICES ASSUME NEW k \in Joins, mgr[k] # "none", pc[k] \in {"tell", "done"}
                   PROVE  pc'[k] \in {"tell", "done"}
      BY <1>3 DEF Settled, ManagersWereJoined, meshVars
    <3>2. QED
      BY <3>1, RacedStay, MeshStepMaps DEF Settled
  <2>2. view' = view
    BY <1>3 DEF Unseen, Open, Drop, Reopen, Join, NotFound, ReadRoster, Fail, Crash
  <2>3. \A k \in Joins : mgr[k] \in Mounted => PageOf(k)' = PageOf(k)
    BY <1>2, <1>3
    DEF RosterInv, Settled, TypeOK, Unseen, PageOf, Open, Drop, Reopen, Join, NotFound,
        ReadRoster, Fail, Crash
  <2>4. QED
    BY <1>1, <1>3, <2>1, <2>2, <2>3, SettledKept DEF Settled, meshVars
<1>4. ASSUME NEW j \in Joins, EnterRoom(j) PROVE Settled'
  <2> USE DEF EnterRoom, Enter
  <2>1. conn[j] \in Conns /\ PageOf(j) \in Conns /\ mgr[j] = "none" /\ pc' = [pc EXCEPT ![j] = "tell"]
    <3>1. pc[j] = "put"
      BY <1>4
    <3>2. conn[j] \in Conns /\ mgr[j] = "none"
      BY <3>1 DEF Settled, RosterInv, CallsHaveSockets, ManagersWereJoined
    <3>3. QED
      BY <1>4, <3>2 DEF Settled, RosterInv, TypeOK, PageOf
  <2>2. ManagersWereJoined'
    <3>1. ASSUME NEW k \in Joins, k # j PROVE mgr'[k] = mgr[k] /\ pc'[k] = pc[k]
      BY <1>0, <1>4, <3>1 DEF Settled, RosterInv, TypeOK, Processes
    <3>2. pc'[j] = "tell"
      BY <2>1 DEF Settled, RosterInv, TypeOK, Processes
    <3>3. QED
      BY <3>1, <3>2 DEF Settled, ManagersWereJoined
  <2>3. CASE state[conn[j]] = "up" /\ view[PageOf(j)] = "hub"
    <3>1. mgr' = [mgr EXCEPT ![j] = "init"] /\ view' = [view EXCEPT ![PageOf(j)] = "call"]
      BY <1>4, <2>3 DEF PageOf
    <3>2. \A k \in Joins : PageOf(k)' = PageOf(k)
      BY <1>4 DEF PageOf
    <3>3. MountedOn(PageOf(j))' = {j}
      BY <1>0, <2>1, <2>3, <3>1, <3>2 DEF Settled, OneManager, MountedOn, Mounted
    <3>4. \A p \in Conns \ {PageOf(j)} : MountedOn(p)' = MountedOn(p)
      BY <1>0, <2>1, <3>1, <3>2 DEF MountedOn, Mounted
    <3>5. OneManager'
      <4>1. view'[PageOf(j)] = "call" /\ \A p \in Conns \ {PageOf(j)} : view'[p] = view[p]
        BY <2>1, <3>1 DEF Settled, RosterInv, TypeOK
      <4>2. QED
        BY <3>2, <3>3, <3>4, <4>1 DEF Settled, OneManager
    <3>6. QED
      BY <1>1, <2>2, <3>1, <3>5 DEF Settled
  <2>4. CASE ~(state[conn[j]] = "up" /\ view[PageOf(j)] = "hub")
    <3>1. mgr' = mgr /\ view' = view /\ \A k \in Joins : PageOf(k)' = PageOf(k)
      BY <1>4, <2>1, <2>4 DEF PageOf, Settled, RosterInv, TypeOK
    <3>2. QED
      BY <1>1, <2>2, <3>1, SettledKept DEF Settled
  <2>5. QED
    BY <2>3, <2>4
<1>5. ASSUME NEW j \in Joins, PeerJoined(j) PROVE Settled'
  <2>1. ManagersWereJoined'
    BY <1>5 DEF Settled, ManagersWereJoined, RosterInv, TypeOK, Processes, PeerJoined, TellJoined
  <2>2. QED
    BY <1>1, <1>5, <2>1, SettledKept DEF Settled, PeerJoined, TellJoined, PageOf
<1>6. ASSUME NEW j \in Joins, JoinRoomMesh(j) \/ InitFails(j) PROVE Settled'
  <2>1. /\ \A k \in Joins : mgr'[k] \in Mounted <=> mgr[k] \in Mounted
        /\ \A k \in Joins : mgr'[k] # "none" <=> mgr[k] # "none"
        /\ UNCHANGED vars
    BY <1>0, <1>6 DEF JoinRoomMesh, InitFails, Mounted
  <2>2. ManagersWereJoined'
    BY <2>1 DEF Settled, ManagersWereJoined, vars, processVars
  <2>3. QED
    BY <1>1, <2>1, <2>2, SettledKept DEF vars, processVars, PageOf
<1>7. ASSUME NEW p \in Processes \ Joins, RemovePeer(p) \/ PeerLeft(p) PROVE Settled'
  <2>1. ManagersWereJoined'
    <3>1. /\ \A k \in Joins : pc'[k] = pc[k]
          /\ UNCHANGED <<mgr, conn, state>>
      BY <1>7 DEF Settled, RosterInv, TypeOK, Processes, RemovePeer, PeerLeft, Remove, TellLeft
    <3>2. QED
      BY <3>1 DEF Settled, ManagersWereJoined
  <2>2. QED
    BY <1>1, <1>7, <2>1, SettledKept
    DEF Settled, RemovePeer, PeerLeft, Remove, TellLeft, PageOf
<1>8. ASSUME NEW p \in Conns, view[p] = "call", view' = [view EXCEPT ![p] = "hub"], Unmount(p),
             page' = page, state' = state, \A k \in Joins : pc'[k] = pc[k] /\ conn'[k] = conn[k]
      PROVE Settled'
  <2>1. ManagersWereJoined'
    BY <1>0, <1>8 DEF Settled, ManagersWereJoined, Unmount, MountedOn, Mounted
  <2>2. \A k \in Joins : PageOf(k)' = PageOf(k)
    BY <1>8 DEF PageOf
  <2>3. MountedOn(p)' = {}
    BY <1>8, <2>2 DEF Unmount, MountedOn, Mounted
  <2>4. \A q \in Conns \ {p} : MountedOn(q)' = MountedOn(q)
    BY <1>8, <2>2 DEF Unmount, MountedOn, Mounted
  <2>5. OneManager'
    BY <1>8, <2>3, <2>4 DEF Settled, OneManager, RosterInv, TypeOK
  <2>6. QED
    BY <1>1, <2>1, <2>5 DEF Settled
<1>9. ASSUME NEW c \in Conns, NEW l \in Leaves, LeavePage(l, c) PROVE Settled'
  <2>1. page[c] \in Conns /\ \A k \in Joins : pc'[k] = pc[k] /\ conn'[k] = conn[k]
    BY <1>9, ProcessesDiffer DEF LeavePage, Leave, Settled, RosterInv, TypeOK, Processes
  <2>2. QED
    BY <1>8, <1>9, <2>1 DEF LeavePage, Leave
<1>10. ASSUME NEW c \in Conns, LeavePageOffline(c) PROVE Settled'
  BY <1>8, <1>10 DEF LeavePageOffline, LeaveOffline, processVars
<1>11. ASSUME NEW p \in Conns, NEW u \in Users, OnSignal(p, u) PROVE Settled'
  <2>1. PICK f : Relayed(p, u, f)
    BY <1>11 DEF OnSignal, AcceptCall, ReceiveAnswer, ReceiveHangup
  <2>2. UNCHANGED vars /\ mgr' = mgr
    BY <2>1 DEF Relayed
  <2>3. ManagersWereJoined'
    BY <2>2 DEF Settled, ManagersWereJoined, vars, processVars
  <2>4. QED
    BY <1>1, <2>2, <2>3, SettledKept DEF Settled, vars, processVars, PageOf
<1>12. CASE UNCHANGED allVars
  <2>1. ManagersWereJoined'
    BY <1>12 DEF Settled, ManagersWereJoined, allVars, meshVars, vars, processVars
  <2>2. QED
    BY <1>1, <1>12, <2>1, SettledKept DEF Settled, allVars, meshVars, vars, processVars, PageOf
<1>13. QED
  BY <1>3, <1>4, <1>5, <1>6, <1>7, <1>9, <1>10, <1>11, <1>12 DEF MeshNext

\* A page never has two managers answering for one mount, and one that left has none
\* mounted, whatever order room_state, Leave and a lost socket come in.
THEOREM OneManagerPerPage == MeshSpec => []OneManager
<1>1. Settled => OneManager
  BY DEF Settled
<1>2. QED
  BY <1>1, SettledInit, SettledStep, PTL DEF MeshSpec

----------------------------------------------------------------------------
\* The tiles of a page whose user has had one page and one socket all along.

LEMMA UserKept ==
  ASSUME TypeOK, [Next]_vars, NEW p \in Processes, pc[p] # "new"
  PROVE  UserOf(p)' = UserOf(p)
<1>1. p \notin Conns => conn'[p] = conn[p]
  BY CallsGoForward DEF Processes
<1>2. QED
  BY <1>1 DEF UserOf

\* What a join read does not change until it is through, nor do those it names.
LEMMA GivenKept ==
  ASSUME RosterInv, [Next]_vars, NEW j \in Joins, pc[j] \in {"put", "tell", "done"}
  PROVE  saw'[j] = saw[j] /\ Given(j)' = Given(j)
<1> USE DEF RosterInv, TypeOK, processVars
<1>1. saw'[j] = saw[j]
  <2>1. ASSUME NEW c \in Conns,
               \/ Open(c) \/ Drop(c) \/ LeaveOffline(c) \/ (\E d \in Conns : Reopen(c, d))
               \/ (\E i \in Joins : Join(i, c)) \/ (\E l \in Leaves : Leave(l, c))
        PROVE saw' = saw
    BY <2>1 DEF Open, Drop, LeaveOffline, Reopen, Join, Leave
  <2>2. ASSUME NEW q \in Processes,
               NotFound(q) \/ Enter(q) \/ TellJoined(q) \/ Remove(q) \/ TellLeft(q) \/ Fail(q)
        PROVE saw' = saw
    BY <2>2 DEF NotFound, Enter, TellJoined, Remove, TellLeft, Fail
  <2>3. ASSUME NEW i \in Joins, ReadRoster(i) PROVE saw'[j] = saw[j]
    BY <2>3 DEF ReadRoster
  <2>4. ASSUME NEW dead \in SUBSET Conns, Crash(dead) PROVE saw' = saw
    BY <2>4 DEF Crash
  <2>5. QED
    BY <2>1, <2>2, <2>3, <2>4 DEF Next, Continue, vars, Processes
<1>2. ASSUME NEW i \in saw[j] PROVE UserOf(i)' = UserOf(i)
  <2>1. i \in Joins /\ pc[i] # "new"
    BY DEF SeenWereEntered
  <2>2. QED
    BY <2>1, UserKept DEF Processes
<1>3. QED
  BY <1>1, <1>2 DEF Given

LEMMA OverlappedKept ==
  ASSUME Sockets, [Next]_vars, NEW u, NEW v, Overlapped(u, v)
  PROVE  Overlapped(u, v)'
<1>1. PICK i \in Joins, j \in Joins : i \in raced[j] /\ {UserOf(i), UserOf(j)} = {u, v}
  BY DEF Overlapped
<1>2. RosterInv /\ TypeOK /\ pc[i] # "new" /\ pc[j] \in {"tell", "done"}
  BY <1>1 DEF Sockets, RosterInv, RacedWereEntered
<1>3. UserOf(i)' = UserOf(i) /\ UserOf(j)' = UserOf(j)
  BY <1>2, UserKept DEF Processes
<1>4. raced'[j] = raced[j]
  BY <1>2, RacedStay DEF Sockets
<1>5. QED
  BY <1>1, <1>3, <1>4 DEF Overlapped

\* The page of such a user is that of its one socket, which is open.
LEMMA SteadyPage ==
  ASSUME Settled, NEW p \in Conns, view[p] = "call", Steady(Owner[p])
  PROVE  /\ HasSocket(p) /\ page[p] = p /\ state[p] = "up"
         /\ \A d \in Conns : Owner[d] = Owner[p] => d = p \/ state[d] = "new"
         /\ \A d \in Conns : Owner[d] = Owner[p] => page[d] = d
<1> USE DEF Settled, Sockets, RosterInv
<1>1. PICK c \in Conns : \A d \in Conns : Owner[d] = Owner[p] => state[d] = IF d = c THEN "up" ELSE "new"
  BY DEF Steady
<1>2. \A d \in Conns : Owner[d] = Owner[p] => page[d] = d
  BY <1>1 DEF PagesAreOwn
<1>3. PICK k \in Joins : mgr[k] \in Mounted /\ PageOf(k) = p
  BY DEF OneManager, MountedOn
<1>4. conn[k] \in Conns /\ state[conn[k]] # "new"
  BY <1>3 DEF ManagersWereJoined, Mounted, CallsHaveSockets, FramesHadSockets
<1>5. Owner[conn[k]] = Owner[p]
  BY <1>3, <1>4 DEF PagesAreOwn, PageOf
<1>6. conn[k] = p
  BY <1>2, <1>3, <1>4, <1>5 DEF PageOf
<1>7. p = c
  BY <1>1, <1>4, <1>6
<1>8. QED
  BY <1>1, <1>2, <1>7 DEF HasSocket

\* Whatever call of that user is under way came from that page.
LEMMA SteadyCalls ==
  ASSUME Settled, NEW p \in Conns, view[p] = "call", Steady(Owner[p]),
         NEW q \in Processes, pc[q] # "new", UserOf(q) = Owner[p]
  PROVE  q \notin Conns /\ conn[q] = p
<1> USE DEF Settled, Sockets, RosterInv
<1>1. \A d \in Conns : Owner[d] = Owner[p] => d = p \/ state[d] = "new"
  BY SteadyPage
<1>2. state[p] = "up"
  BY SteadyPage
<1>3. q \notin Conns
  BY <1>1, <1>2 DEF FramesHadSockets, UserOf
<1>4. conn[q] \in Conns /\ state[conn[q]] # "new" /\ Owner[conn[q]] = Owner[p]
  BY <1>3 DEF FramesHadSockets, CallsHaveSockets, Processes, UserOf
<1>5. QED
  BY <1>1, <1>3, <1>4

\* Failures and farewells that came too late are not forgotten.
LEMMA TroubleStays ==
  ASSUME TypeOK, [MeshNext]_allVars
  PROVE  /\ faulted => faulted'
         /\ stale \subseteq stale'
<1>1. faulted => faulted'
  <2>1. ASSUME NEW c \in Conns,
               \/ Open(c) \/ Drop(c) \/ LeaveOffline(c) \/ (\E d \in Conns : Reopen(c, d))
               \/ (\E i \in Joins : Join(i, c)) \/ (\E l \in Leaves : Leave(l, c))
        PROVE faulted' = faulted
    BY <2>1 DEF Open, Drop, LeaveOffline, Reopen, Join, Leave
  <2>2. ASSUME NEW q \in Processes, NotFound(q) \/ Continue(q)
        PROVE faulted' = faulted
    BY <2>2 DEF NotFound, Continue, ReadRoster, Enter, TellJoined, Remove, TellLeft
  <2>3. ASSUME NEW q, Fail(q) \/ Crash(q) PROVE faulted' = TRUE
    BY <2>3 DEF Fail, Crash
  <2>4. QED
    BY <2>1, <2>2, <2>3, MeshStepMaps DEF Next, vars, Processes
<1>2. stale \subseteq stale'
  <2>1. ASSUME NEW j \in Joins, EnterRoom(j) \/ PeerJoined(j) \/ JoinRoomMesh(j) \/ InitFails(j)
        PROVE stale' = stale
    BY <2>1 DEF EnterRoom, PeerJoined, JoinRoomMesh, InitFails
  <2>2. ASSUME NEW p \in Processes \ Joins, RemovePeer(p) \/ PeerLeft(p)
        PROVE stale \subseteq stale'
    BY <2>2 DEF RemovePeer, PeerLeft
  <2>3. ASSUME NEW c \in Conns, LeavePageOffline(c) \/ \E l \in Leaves : LeavePage(l, c)
        PROVE stale' = stale
    BY <2>3 DEF LeavePageOffline, LeavePage, Unmount
  <2>4. ASSUME NEW p \in Conns, NEW u \in Users, OnSignal(p, u)
        PROVE stale' = stale
    <3>1. PICK f : Relayed(p, u, f)
      BY <2>4 DEF OnSignal, AcceptCall, ReceiveAnswer, ReceiveHangup
    <3>2. QED
      BY <3>1 DEF Relayed
  <2>5. QED
    BY <2>1, <2>2, <2>3, <2>4 DEF MeshNext, allVars, meshVars
<1>3. QED
  BY <1>1, <1>2

\* A page that shows a call was undisturbed before, if it is so now.
LEMMA WasUndisturbed ==
  ASSUME Settled, [MeshNext]_allVars, NEW p \in Conns, view[p] = "call", Undisturbed(p)'
  PROVE  Undisturbed(p)
<1> USE DEF Settled, Sockets, RosterInv
<1>1. [Next]_vars
  BY MeshStepMaps
<1>2. PICK c \in Conns : \A d \in Conns : Owner[d] = Owner[p] => state'[d] = IF d = c THEN "up" ELSE "new"
  BY DEF Undisturbed, Steady
<1>3. PICK k \in Joins : mgr[k] \in Mounted /\ PageOf(k) = p
  BY DEF OneManager, MountedOn
<1>4. conn[k] \in Conns /\ state[conn[k]] # "new"
  BY <1>3 DEF ManagersWereJoined, Mounted, CallsHaveSockets, FramesHadSockets
<1>5. Owner[conn[k]] = Owner[p]
  BY <1>3, <1>4 DEF PagesAreOwn, PageOf
<1>6. state'[conn[k]] # "new"
  BY <1>1, <1>4, StatesGoForward
<1>7. conn[k] = c /\ state'[c] = "up"
  BY <1>2, <1>4, <1>5, <1>6
<1>8. state[c] = "up"
  BY <1>1, <1>4, <1>7, StatesGoForward DEF TypeOK
<1>9. \A d \in Conns : Owner[d] = Owner[p] => state[d] = IF d = c THEN "up" ELSE "new"
  BY <1>1, <1>2, <1>8, StatesGoForward
<1>10. Steady(Owner[p])
  BY <1>9 DEF Steady
<1>11. QED
  BY <1>10, TroubleStays DEF Undisturbed

\* A tile that the step does not touch.
LEMMA TileKept ==
  ASSUME Settled, [MeshNext]_allVars, NEW p \in Conns, NEW v \in Users, TileFollows(p, v),
         roster'[v] = roster[v], v \in peers'[p] <=> v \in peers[p],
         \A q \in Processes \ Joins : pc[q] = "rest" /\ UserOf(q) = v => pc'[q] = "rest",
         v \in Present /\ pc[roster[v]] = "tell" => pc'[roster[v]] = "tell"
  PROVE  TileFollows(p, v)'
<1> USE DEF Settled
<1>1. [Next]_vars /\ TypeOK /\ RosterInv
  BY MeshStepMaps DEF Sockets, RosterInv
<1>2. v \in Present' <=> v \in Present
  BY DEF Present
<1>3. Leaving(v) => Leaving(v)'
  BY <1>1, UserKept DEF Leaving
<1>4. v \in Present /\ Telling(v, Owner[p]) => Telling(v, Owner[p])'
  <2> SUFFICES ASSUME v \in Present, Telling(v, Owner[p]) PROVE Telling(v, Owner[p])'
    OBVIOUS
  <2>1. roster[v] \in Joins
    BY <1>1 DEF Present, TypeOK
  <2>2. Given(roster[v])' = Given(roster[v])
    BY <1>1, <2>1, GivenKept DEF Telling
  <2>3. QED
    BY <2>2 DEF Telling
<1>5. Overlapped(Owner[p], v) => Overlapped(Owner[p], v)'
  BY <1>1, OverlappedKept
<1>6. QED
  BY <1>2, <1>3, <1>4, <1>5 DEF TileFollows

----------------------------------------------------------------------------
\* Those a joiner read are there when it enters, and it is there when it tells them.
Timely == Settled /\ ReadersAreTimely

LEMMA TimelyInit == MeshInit => Timely
<1> SUFFICES ASSUME MeshInit PROVE Timely
  OBVIOUS
<1>1. Settled
  BY SettledInit
<1>2. \A j \in Joins : pc[j] = "new"
  BY DEF MeshInit, Init, Processes
<1>3. QED
  BY <1>1, <1>2 DEF Timely, ReadersAreTimely

\* A step that takes nobody off the roster and brings no join to its hset or past it.
LEMMA TimelyKept ==
  ASSUME Settled, ReadersAreTimely, [MeshNext]_allVars, Present \subseteq Present',
         \A j \in Joins : /\ pc'[j] = "put" => pc[j] = "put"
                          /\ pc'[j] = "tell" => pc[j] = "tell"
  PROVE  ReadersAreTimely'
<1> USE DEF Settled, Sockets, RosterInv
<1>1. [Next]_vars /\ stale \subseteq stale'
  BY MeshStepMaps, TroubleStays
<1>2. ASSUME NEW j \in Joins, pc'[j] = "put" PROVE Given(j)' \subseteq Present' \cup stale'
  <2>1. pc[j] = "put"
    BY <1>2
  <2>2. Given(j)' = Given(j)
    BY <1>1, <2>1, GivenKept
  <2>3. Given(j) \subseteq Present \cup stale
    BY <2>1 DEF ReadersAreTimely
  <2>4. QED
    BY <1>1, <2>2, <2>3
<1>3. ASSUME NEW j \in Joins, pc'[j] = "tell" PROVE UserOf(j)' \in Present' \cup stale'
  <2>1. pc[j] = "tell"
    BY <1>3
  <2>2. UserOf(j)' = UserOf(j)
    BY <1>1, <2>1, UserKept DEF Processes
  <2>3. UserOf(j) \in Present \cup stale
    BY <2>1 DEF ReadersAreTimely
  <2>4. QED
    BY <1>1, <2>2, <2>3
<1>4. QED
  BY <1>2, <1>3 DEF ReadersAreTimely

LEMMA TimelyStep == Timely /\ [MeshNext]_allVars => Timely'
<1> SUFFICES ASSUME Settled, ReadersAreTimely, [MeshNext]_allVars PROVE Settled' /\ ReadersAreTimely'
  BY DEF Timely
<1> USE ProcessesDiffer DEF Settled, Sockets, RosterInv
<1>0. Settled' /\ [Next]_vars /\ TypeOK /\ TypeOK'
  BY SettledStep, MeshStepMaps
<1>1. ASSUME NEW j \in Joins, ReadRoster(j), UNCHANGED meshVars PROVE ReadersAreTimely'
  <2>1. \A i \in Joins \ {j} : pc'[i] = pc[i]
    BY <1>0, <1>1 DEF ReadRoster, TypeOK, Processes
  <2>2. pc'[j] = "put" /\ saw'[j] = {roster[u] : u \in Present} /\ conn' = conn /\ roster' = roster
    BY <1>0, <1>1 DEF ReadRoster, TypeOK, Processes
  <2>3. Present' = Present /\ stale' = stale
    BY <1>1, <2>2 DEF Present, meshVars
  <2>4. \A u \in Present : roster[u] \in Joins /\ UserOf(roster[u]) = u
    BY <1>0 DEF Present, TypeOK, EntriesWereEntered, UserOf, Processes
  <2>5. Given(j)' \subseteq Present'
    BY <2>2, <2>3, <2>4 DEF Given, UserOf
  <2>6. ASSUME NEW i \in Joins, i # j, pc'[i] = "put" PROVE Given(i)' \subseteq Present' \cup stale'
    <3>1. pc[i] = "put"
      BY <2>1, <2>6
    <3>2. Given(i)' = Given(i)
      BY <1>0, <3>1, GivenKept
    <3>3. QED
      BY <2>3, <3>1, <3>2 DEF ReadersAreTimely
  <2>7. ASSUME NEW i \in Joins, pc'[i] = "tell" PROVE UserOf(i)' \in Present' \cup stale'
    <3>1. pc[i] = "tell"
      BY <2>1, <2>2, <2>7
    <3>2. UserOf(i)' = UserOf(i)
      BY <2>2 DEF UserOf
    <3>3. QED
      BY <2>3, <3>1, <3>2 DEF ReadersAreTimely
  <2>8. QED
    BY <2>5, <2>6, <2>7 DEF ReadersAreTimely
<1>2. ASSUME Unseen, UNCHANGED meshVars, ~\E j \in Joins : ReadRoster(j) PROVE ReadersAreTimely'
  <2>1. roster' = roster
    BY <1>2 DEF Unseen, Open, Drop, Reopen, Join, NotFound, Fail, Crash
  <2>2. ASSUME NEW j \in Joins
        PROVE (pc'[j] = "put" => pc[j] = "put") /\ (pc'[j] = "tell" => pc[j] = "tell")
    <3>1. ASSUME NEW c \in Conns, Open(c) \/ (\E d \in Conns : Reopen(c, d)) PROVE pc' = pc
      BY <3>1 DEF Open, Reopen
    <3>2. ASSUME NEW c \in Conns, Drop(c) \/ (\E i \in Joins : Join(i, c))
          PROVE pc'[j] = pc[j] \/ pc'[j] = "read"
      BY <1>0, <3>2 DEF Drop, Join, TypeOK, Processes
    <3>3. ASSUME NEW q \in Processes, NotFound(q) \/ Fail(q) PROVE pc'[j] = pc[j] \/ pc'[j] = "done"
      BY <1>0, <3>3 DEF NotFound, Fail, TypeOK, Processes
    <3>4. ASSUME NEW dead \in SUBSET Conns, Crash(dead) PROVE pc'[j] = pc[j] \/ pc'[j] = "done"
      BY <1>0, <3>4 DEF Crash, TypeOK, Processes
    <3>5. QED
      BY <1>2, <3>1, <3>2, <3>3, <3>4 DEF Unseen, Processes
  <2>3. Present' = Present
    BY <2>1 DEF Present
  <2>4. \A j \in Joins : /\ pc'[j] = "put" => pc[j] = "put"
                         /\ pc'[j] = "tell" => pc[j] = "tell"
    BY <2>2
  <2> HIDE DEF Settled, Sockets, RosterInv
  <2>5. QED
    BY <2>3, <2>4, TimelyKept
<1>3. ASSUME NEW j \in Joins, EnterRoom(j) PROVE ReadersAreTimely'
  <2>1. Enter(j) /\ stale' = stale
    BY <1>3 DEF EnterRoom
  <2>2. UserOf(j) \in Users
    BY <2>1, OwnerOfConns DEF Enter, CallsHaveSockets, UserOf
  <2>3. Present' = Present \cup {UserOf(j)}
    BY <1>0, <2>1, <2>2, Absent DEF Enter, Present, TypeOK
  <2>4. \A i \in Joins \ {j} : pc'[i] = pc[i]
    BY <1>0, <2>1 DEF Enter, TypeOK, Processes
  <2>5. pc'[j] = "tell" /\ UserOf(j)' = UserOf(j)
    BY <1>0, <2>1 DEF Enter, TypeOK, Processes, UserOf
  <2>6. ASSUME NEW i \in Joins, i # j, pc[i] = "put" PROVE Given(i)' \subseteq Present' \cup stale'
    <3>1. Given(i)' = Given(i)
      BY <1>0, <2>6, GivenKept
    <3>2. QED
      BY <2>1, <2>3, <2>6, <3>1 DEF ReadersAreTimely
  <2>7. ASSUME NEW i \in Joins, i # j, pc[i] = "tell" PROVE UserOf(i)' \in Present' \cup stale'
    <3>1. UserOf(i)' = UserOf(i)
      BY <1>0, <2>7, UserKept DEF Processes
    <3>2. QED
      BY <2>1, <2>3, <2>7, <3>1 DEF ReadersAreTimely
  <2>8. QED
    BY <2>3, <2>4, <2>5, <2>6, <2>7 DEF ReadersAreTimely
<1>4. ASSUME NEW j \in Joins, PeerJoined(j) PROVE ReadersAreTimely'
  <2>1. roster' = roster
    BY <1>4 DEF PeerJoined, TellJoined
  <2>2. \A i \in Joins : pc'[i] = pc[i] \/ pc'[i] = "done"
    BY <1>0, <1>4 DEF PeerJoined, TellJoined, TypeOK, Processes
  <2>3. Present' = Present
    BY <2>1 DEF Present
  <2>4. \A i \in Joins : /\ pc'[i] = "put" => pc[i] = "put"
                         /\ pc'[i] = "tell" => pc[i] = "tell"
    BY <2>2
  <2> HIDE DEF Settled, Sockets, RosterInv
  <2>5. QED
    BY <2>3, <2>4, TimelyKept
<1>5. ASSUME NEW p \in Processes \ Joins, RemovePeer(p) PROVE ReadersAreTimely'
  <2>1. Remove(p)
    BY <1>5 DEF RemovePeer
  <2>2. Present' = Present \ {UserOf(p)}
    BY <1>0, <2>1 DEF Remove, Present, TypeOK
  <2>3. \A i \in Joins : pc'[i] = pc[i]
    BY <1>0, <2>1 DEF Remove, TypeOK, Processes
  <2>4. ASSUME NEW i \in Joins, pc[i] = "put" PROVE Given(i)' \subseteq Present' \cup stale'
    <3>1. Given(i)' = Given(i)
      BY <1>0, <2>4, GivenKept
    <3>2. UserOf(p) \in Given(i) => UserOf(p) \in stale'
      BY <1>5, <2>4 DEF RemovePeer
    <3>3. stale \subseteq stale'
      BY <1>0, TroubleStays
    <3>4. QED
      BY <2>2, <2>4, <3>1, <3>2, <3>3 DEF ReadersAreTimely
  <2>5. ASSUME NEW i \in Joins, pc[i] = "tell" PROVE UserOf(i)' \in Present' \cup stale'
    <3>1. UserOf(i)' = UserOf(i)
      BY <1>0, <2>5, UserKept DEF Processes
    <3>2. UserOf(p) = UserOf(i) => UserOf(p) \in stale'
      BY <1>5, <2>5 DEF RemovePeer
    <3>3. stale \subseteq stale'
      BY <1>0, TroubleStays
    <3>4. QED
      BY <2>2, <2>5, <3>1, <3>2, <3>3 DEF ReadersAreTimely
  <2>6. QED
    BY <2>3, <2>4, <2>5 DEF ReadersAreTimely
<1>6. ASSUME NEW p \in Processes \ Joins, PeerLeft(p) PROVE ReadersAreTimely'
  <2>1. roster' = roster
    BY <1>6 DEF PeerLeft, TellLeft
  <2>2. \A i \in Joins : pc'[i] = pc[i]
    BY <1>0, <1>6 DEF PeerLeft, TellLeft, TypeOK, Processes
  <2>3. Present' = Present
    BY <2>1 DEF Present
  <2>4. \A j \in Joins : /\ pc'[j] = "put" => pc[j] = "put"
                         /\ pc'[j] = "tell" => pc[j] = "tell"
    BY <2>2
  <2> HIDE DEF Settled, Sockets, RosterInv
  <2>5. QED
    BY <2>3, <2>4, TimelyKept
<1>7. ASSUME NEW c \in Conns, LeavePageOffline(c) \/ \E l \in Leaves : LeavePage(l, c)
      PROVE ReadersAreTimely'
  <2>1. roster' = roster
    BY <1>7 DEF LeavePageOffline, LeavePage, LeaveOffline, Leave
  <2>2. \A i \in Joins : pc'[i] = pc[i]
    BY <1>0, <1>7 DEF LeavePageOffline, LeavePage, LeaveOffline, Leave, TypeOK, Processes, processVars
  <2>3. Present' = Present
    BY <2>1 DEF Present
  <2>4. \A j \in Joins : /\ pc'[j] = "put" => pc[j] = "put"
                         /\ pc'[j] = "tell" => pc[j] = "tell"
    BY <2>2
  <2> HIDE DEF Settled, Sockets, RosterInv
  <2>5. QED
    BY <2>3, <2>4, TimelyKept
<1>8. ASSUME UNCHANGED vars PROVE ReadersAreTimely'
  <2>1. roster' = roster /\ pc' = pc
    BY <1>8 DEF vars, processVars
  <2>2. Present' = Present
    BY <2>1 DEF Present
  <2> HIDE DEF Settled, Sockets, RosterInv
  <2>3. QED
    BY <2>1, <2>2, TimelyKept
<1>9. ASSUME NEW j \in Joins, JoinRoomMesh(j) \/ InitFails(j) PROVE UNCHANGED vars
  BY <1>9 DEF JoinRoomMesh, InitFails
<1>10. ASSUME NEW p \in Conns, NEW u \in Users, OnSignal(p, u) PROVE UNCHANGED vars
  <2>1. PICK f : Relayed(p, u, f)
    BY <1>10 DEF OnSignal, AcceptCall, ReceiveAnswer, ReceiveHangup
  <2>2. QED
    BY <2>1 DEF Relayed
<1>11. QED
  BY <1>0, <1>1, <1>2, <1>3, <1>4, <1>5, <1>6, <1>7, <1>8, <1>9, <1>10 DEF MeshNext, allVars

----------------------------------------------------------------------------
\* Tiles follow the roster.  Two lemmas say what a join brings: to the page it enters
\* from, the tiles of all that it read; to every other page on the roster, its own.

LEMMA EntersWithTiles ==
  ASSUME Timely, NEW j \in Joins, Enter(j), stale' = stale, NEW p \in Conns, PageOf(j) = p,
         peers'[p] = Given(j), NEW v \in Users, v # UserOf(j), v \notin stale,
         Owner[p] = UserOf(j), [Next]_vars
  PROVE  TileFollows(p, v)'
<1> USE DEF Timely, Settled, Sockets, RosterInv
<1>1. TypeOK /\ pc[j] = "put" /\ conn[j] \in Conns /\ UserOf(j) \in Users
  BY OwnerOfConns DEF Enter, CallsHaveSockets, UserOf
<1>2. Present' = Present \cup {UserOf(j)}
  BY <1>1, Absent DEF Enter, Present, TypeOK
<1>3. v \in peers'[p] => v \in Present'
  BY <1>1, <1>2 DEF ReadersAreTimely
<1>4. ASSUME v \in Present' PROVE v \in peers'[p] \/ Overlapped(Owner[p], v)'
  <2>1. v \in Present /\ roster[v] \in Joins
    BY <1>1, <1>4, <1>2 DEF Present, TypeOK
  <2>2. UserOf(roster[v]) = v /\ pc[roster[v]] \in {"tell", "done"}
    BY <2>1, ProcessesDiffer DEF Present, EntriesWereEntered, UserOf
  <2>3. CASE roster[v] \in saw[j]
    BY <2>2, <2>3 DEF Given
  <2>4. CASE j \in raced[roster[v]]
    <3>1. Overlapped(Owner[p], v)
      BY <2>1, <2>2, <2>4 DEF Overlapped
    <3>2. QED
      BY <3>1, OverlappedKept
  <2>5. QED
    BY <1>1, <2>1, <2>3, <2>4 DEF UnseenIsRaced, Present
<1>5. QED
  BY <1>3, <1>4 DEF TileFollows

LEMMA EntersUnderWay ==
  ASSUME Timely, NEW j \in Joins, Enter(j), NEW w, w = UserOf(j), NEW p \in Conns,
         Owner[p] \in Present, Owner[p] # w, [Next]_vars
  PROVE  TileFollows(p, w)'
<1> USE DEF Timely, Settled, Sockets, RosterInv
<1>1. /\ TypeOK /\ pc[j] = "put" /\ conn[j] \in Conns /\ w \in Users
      /\ conn' = conn /\ pc' = [pc EXCEPT ![j] = "tell"] /\ roster' = [roster EXCEPT ![w] = j]
  BY OwnerOfConns DEF Enter, CallsHaveSockets, UserOf
<1>2. pc'[j] = "tell" /\ roster'[w] = j /\ w \in Present'
  BY <1>1, Absent DEF UserOf, Present, TypeOK, Processes
<1>3. Owner[p] \in Users /\ roster[Owner[p]] \in Joins
  BY <1>1 DEF Present, TypeOK
<1>4. UserOf(roster[Owner[p]]) = Owner[p] /\ pc[roster[Owner[p]]] \in {"tell", "done"}
  BY <1>3, ProcessesDiffer DEF Present, EntriesWereEntered, UserOf
<1>5. CASE roster[Owner[p]] \in saw[j]
  <2>1. Owner[p] \in Given(j)
    BY <1>4, <1>5 DEF Given
  <2>2. Given(j)' = Given(j)
    BY <1>1, GivenKept
  <2>3. Telling(w, Owner[p])'
    BY <1>2, <2>1, <2>2 DEF Telling
  <2>4. QED
    BY <1>2, <2>3 DEF TileFollows
<1>6. CASE j \in raced[roster[Owner[p]]]
  <2>1. Overlapped(Owner[p], w)
    BY <1>3, <1>4, <1>6 DEF Overlapped
  <2>2. Overlapped(Owner[p], w)'
    BY <2>1, OverlappedKept
  <2>3. QED
    BY <1>2, <2>2 DEF TileFollows
<1>7. QED
  BY <1>1, <1>3, <1>5, <1>6 DEF UnseenIsRaced, Present

LEMMA TilesInit == MeshInit => TilesFollow
  BY DEF MeshInit, Init, TilesFollow, Undisturbed

\* One case per action, for a page that is undisturbed after the step.
LEMMA TilesStep == Timely /\ TilesFollow /\ [MeshNext]_allVars => TilesFollow'
<1> SUFFICES ASSUME Timely, TilesFollow, [MeshNext]_allVars, NEW p \in Conns, Undisturbed(p)'
             PROVE  /\ Owner[p] \in Present'
                    /\ \A v \in Users \ ({Owner[p]} \cup stale') : TileFollows(p, v)'
  BY DEF TilesFollow
<1> DEFINE u == Owner[p]
           Goal == /\ u \in Present'
                   /\ \A v \in Users \ ({u} \cup stale') : TileFollows(p, v)'
<1>1. /\ Settled /\ Sockets /\ RosterInv /\ TypeOK /\ MeshTypeOK /\ [Next]_vars
      /\ stale \subseteq stale' /\ u \in Users
  BY MeshStepMaps, TroubleStays, OwnerOfConns DEF Timely, Settled, Sockets, RosterInv
<1>2. /\ ~faulted' /\ view'[p] = "call" /\ u \notin stale'
  BY DEF Undisturbed
<1>3. ASSUME view[p] = "call"
      PROVE  /\ Undisturbed(p) /\ Steady(u) /\ u \in Present
             /\ \A v \in Users \ ({u} \cup stale') : TileFollows(p, v)
             /\ HasSocket(p) /\ page[p] = p /\ state[p] = "up"
             /\ \A d \in Conns : Owner[d] = u => page[d] = d
  <2>1. Undisturbed(p)
    BY <1>1, <1>3, WasUndisturbed
  <2>2. Steady(u)
    BY <2>1 DEF Undisturbed
  <2>3. u \in Present /\ \A v \in Users \ ({u} \cup stale') : TileFollows(p, v)
    BY <1>1, <2>1 DEF TilesFollow
  <2>4. QED
    BY <1>1, <1>3, <2>1, <2>2, <2>3, SteadyPage
<1> HIDE DEF u
<1>4. ASSUME roster' = roster, peers' = peers, stale' = stale, view' = view,
             \A q \in Processes : pc[q] \in {"rest", "tell"} => pc'[q] = pc[q]
      PROVE  Goal
  <2>1. view[p] = "call"
    BY <1>2, <1>4
  <2>2. u \in Present'
    BY <1>3, <1>4, <2>1 DEF Present
  <2>3. ASSUME NEW v \in Users \ ({u} \cup stale') PROVE TileFollows(p, v)'
    <3>1. TileFollows(p, v)
      BY <1>3, <2>1, <2>3
    <3>2. v \in Present => roster[v] \in Processes
      BY <1>1 DEF Present, TypeOK, Processes
    <3>3. QED
      BY <1>1, <1>4, <3>1, <3>2, TileKept
  <2>4. QED
    BY <2>2, <2>3
<1>5. ASSUME Unseen, UNCHANGED meshVars PROVE Goal
  <2>1. roster' = roster /\ view' = view
    BY <1>5 DEF Unseen, Open, Drop, Reopen, Join, NotFound, ReadRoster, Fail, Crash
  <2>2. ASSUME NEW q \in Processes, pc[q] \in {"rest", "tell"} PROVE pc'[q] = pc[q]
    <3>1. ASSUME NEW c \in Conns, Open(c) \/ \E d \in Conns : Reopen(c, d) PROVE pc' = pc
      BY <3>1 DEF Open, Reopen
    <3>2. ASSUME NEW c \in Conns, Drop(c) PROVE pc'[q] = pc[q]
      <4>1. state[c] = "up"
        BY <3>2 DEF Drop
      <4>2. pc[c] = "new"
        BY <1>1, <4>1 DEF Sockets, FramesHadSockets
      <4>3. QED
        BY <1>1, <2>2, <3>2, <4>2 DEF Drop, TypeOK
    <3>3. ASSUME NEW j \in Joins, NotFound(j) \/ ReadRoster(j) \/ \E c \in Conns : Join(j, c)
          PROVE pc'[q] = pc[q]
      BY <1>1, <2>2, <3>3 DEF NotFound, ReadRoster, Join, TypeOK
    <3>4. ASSUME NEW x, Fail(x) \/ Crash(x) PROVE FALSE
      BY <1>2, <3>4 DEF Fail, Crash
    <3>5. QED
      BY <1>5, <3>1, <3>2, <3>3, <3>4 DEF Unseen
  <2>3. QED
    BY <1>4, <1>5, <2>1, <2>2 DEF meshVars
<1>6. ASSUME NEW j \in Joins, EnterRoom(j) PROVE Goal
  <2>0. PICK w : w = UserOf(j)
    OBVIOUS
  <2>1. /\ Enter(j) /\ stale' = stale /\ pc[j] = "put" /\ conn[j] \in Conns /\ w \in Users
        /\ state[conn[j]] # "new" /\ PageOf(j) \in Conns /\ Owner[PageOf(j)] = w
    <3>1. Enter(j) /\ stale' = stale /\ pc[j] = "put"
      BY <1>6 DEF EnterRoom, Enter
    <3>2. conn[j] \in Conns /\ state[conn[j]] # "new"
      BY <1>1, <3>1 DEF RosterInv, CallsHaveSockets, Sockets, FramesHadSockets
    <3>3. w \in Users /\ PageOf(j) \in Conns /\ Owner[PageOf(j)] = w
      BY <1>1, <2>0, <3>2, ProcessesDiffer, OwnerOfConns DEF TypeOK, PageOf, UserOf, Sockets, PagesAreOwn
    <3>4. QED
      BY <3>1, <3>2, <3>3
  <2>2. /\ Present' = Present \cup {w}
        /\ \A v \in Users \ {w} : roster'[v] = roster[v]
        /\ \A q \in Processes \ {j} : pc'[q] = pc[q]
    BY <1>1, <2>0, <2>1, Absent DEF Enter, Present, TypeOK
  <2>3. CASE PageOf(j) = p
    <3>1. w = u
      BY <2>1, <2>3 DEF u
    <3>2. state[conn[j]] = "up"
      <4>1. CASE view[p] = "call"
        BY <1>1, <1>3, <2>1, <2>3, <3>1, <4>1 DEF PageOf, u, PagesAreOwn, Sockets
      <4>2. CASE view[p] # "call"
        BY <1>1, <1>2, <2>1, <2>3, <4>2 DEF Enter, PageOf, TypeOK
      <4>3. QED
        BY <4>1, <4>2
    <3>3. peers'[p] = Given(j)
      BY <1>1, <1>6, <2>3, <3>2 DEF EnterRoom, MeshTypeOK
    <3>4. ASSUME NEW v \in Users \ ({u} \cup stale') PROVE TileFollows(p, v)'
      BY <1>1, <2>0, <2>1, <2>3, <3>1, <3>3, <3>4, EntersWithTiles DEF u
    <3>5. QED
      BY <2>2, <3>1, <3>4
  <2>4. CASE PageOf(j) # p
    <3>1. view[p] = "call"
      BY <1>1, <1>2, <2>1, <2>4 DEF Enter, PageOf, TypeOK
    <3>2. peers'[p] = peers[p]
      BY <1>1, <1>6, <2>1, <2>4 DEF EnterRoom, MeshTypeOK
    <3>3. w # u
      <4>1. pc[j] # "new" /\ j \in Processes
        BY <2>1 DEF Processes
      <4>2. w = u => conn[j] = p
        BY <1>1, <1>3, <2>0, <3>1, <4>1, SteadyCalls DEF u
      <4>3. QED
        BY <1>3, <2>4, <3>1, <4>2 DEF PageOf
    <3>4. TileFollows(p, w)'
      BY <1>1, <1>3, <2>0, <2>1, <3>1, <3>3, EntersUnderWay DEF u
    <3>5. ASSUME NEW v \in Users \ ({u} \cup stale'), v # w PROVE TileFollows(p, v)'
      <4>1. TileFollows(p, v)
        BY <1>3, <3>1, <3>5
      <4>2. \A q \in Processes \ Joins : pc'[q] = pc[q]
        BY <2>2
      <4>3. v \in Present => roster[v] \in Processes /\ roster[v] # j
        BY <1>1, <2>1 DEF Present, TypeOK, RosterInv, EntriesWereEntered, Processes
      <4>4. QED
        BY <1>1, <2>2, <3>2, <3>5, <4>1, <4>2, <4>3, TileKept
    <3>6. QED
      BY <1>3, <2>2, <3>1, <3>4, <3>5
  <2>5. QED
    BY <2>3, <2>4
<1>7. ASSUME NEW j \in Joins, PeerJoined(j) PROVE Goal
  <2>1. /\ TellJoined(j) /\ stale' = stale /\ roster' = roster /\ view' = view /\ pc[j] = "tell"
        /\ Present' = Present /\ view[p] = "call"
    BY <1>2, <1>7 DEF PeerJoined, TellJoined, Present
  <2>2. \A q \in Processes \ {j} : pc'[q] = pc[q]
    BY <1>1, <2>1 DEF TellJoined, TypeOK
  <2>3. peers'[p] = IF u \in Given(j) THEN peers[p] \cup {UserOf(j)} ELSE peers[p]
    BY <1>3, <1>7, <2>1 DEF PeerJoined, u
  <2>4. UserOf(j) \in Present \cup stale
    BY <2>1 DEF Timely, ReadersAreTimely
  <2>5. ASSUME NEW v \in Users \ ({u} \cup stale') PROVE TileFollows(p, v)'
    <3>1. TileFollows(p, v)
      BY <1>3, <2>1, <2>5
    <3>2. CASE v = UserOf(j) /\ u \in Given(j)
      BY <2>1, <2>3, <2>4, <2>5, <3>2 DEF TileFollows
    <3>3. CASE ~(v = UserOf(j) /\ u \in Given(j)) /\ roster[v] # j
      <4>1. \A q \in Processes \ Joins : pc'[q] = pc[q]
        BY <2>2
      <4>2. v \in Present => roster[v] \in Processes
        BY <1>1 DEF Present, TypeOK, Processes
      <4>3. v \in peers'[p] <=> v \in peers[p]
        BY <2>3, <3>3
      <4>4. QED
        BY <1>1, <2>1, <2>2, <3>1, <3>3, <4>1, <4>2, <4>3, TileKept
    <3>4. CASE ~(v = UserOf(j) /\ u \in Given(j)) /\ roster[v] = j
      <4>1. UserOf(j) = v
        BY <1>1, <3>4, Absent, ProcessesDiffer DEF RosterInv, EntriesWereEntered, UserOf
      <4>2. ~Telling(v, u)
        BY <3>4, <4>1 DEF Telling
      <4>3. v \in peers'[p] <=> v \in peers[p]
        BY <2>3, <3>4
      <4>4. Leaving(v) => Leaving(v)'
        BY <1>1, <2>2, UserKept DEF Leaving
      <4>5. Overlapped(u, v) => Overlapped(u, v)'
        BY <1>1, OverlappedKept
      <4>6. QED
        BY <2>1, <3>1, <4>2, <4>3, <4>4, <4>5 DEF TileFollows, u
    <3>5. QED
      BY <3>2, <3>3, <3>4
  <2>6. QED
    BY <1>3, <2>1, <2>5
<1>8. ASSUME NEW q \in Processes \ Joins, RemovePeer(q) PROVE Goal
  <2> DEFINE w == UserOf(q)
  <2>1. Remove(q) /\ pc[q] = "del" /\ view' = view /\ peers' = peers /\ view[p] = "call"
    BY <1>2, <1>8 DEF RemovePeer, Remove
  <2>2. /\ Present' = Present \ {w}
        /\ \A v \in Users \ {w} : roster'[v] = roster[v]
        /\ pc'[q] = "rest" /\ \A r \in Processes \ {q} : pc'[r] = pc[r]
    BY <1>1, <2>1 DEF Remove, Present, TypeOK
  <2>3. w # u
    <3> SUFFICES ASSUME w = u PROVE FALSE
      OBVIOUS
    <3>1. q \notin Conns /\ conn[q] = p
      BY <1>1, <1>3, <2>1, SteadyCalls DEF u
    <3>2. q \in Leaves /\ PageOf(q) = p
      BY <1>3, <2>1, <3>1 DEF Processes, PageOf
    <3>3. w \in stale'
      BY <1>8, <2>1, <3>2 DEF RemovePeer
    <3>4. QED
      BY <1>2, <3>3
  <2>4. ASSUME NEW v \in Users \ ({u} \cup stale') PROVE TileFollows(p, v)'
    <3>1. TileFollows(p, v)
      BY <1>3, <2>1, <2>4
    <3>2. CASE v = w
      <4>1. Leaving(v)'
        BY <1>1, <2>1, <2>2, <3>2, UserKept DEF Leaving
      <4>2. v \notin Present'
        BY <2>2, <3>2
      <4>3. QED
        BY <4>1, <4>2 DEF TileFollows
    <3>3. CASE v # w
      <4>1. \A r \in Processes : pc[r] \in {"rest", "tell"} => pc'[r] = pc[r]
        BY <2>1, <2>2
      <4>2. v \in Present => roster[v] \in Processes
        BY <1>1 DEF Present, TypeOK, Processes
      <4>3. QED
        BY <1>1, <2>1, <2>2, <3>1, <3>3, <4>1, <4>2, TileKept
    <3>4. QED
      BY <3>2, <3>3
  <2>5. QED
    BY <1>3, <2>1, <2>2, <2>3, <2>4
<1>9. ASSUME NEW q \in Processes \ Joins, PeerLeft(q) PROVE Goal
  <2> DEFINE w == UserOf(q)
  <2>1. /\ TellLeft(q) /\ roster' = roster /\ view' = view /\ pc[q] = "rest"
        /\ Present' = Present /\ view[p] = "call"
    BY <1>2, <1>9 DEF PeerLeft, TellLeft, Present
  <2>2. \A r \in Processes \ {q} : pc'[r] = pc[r]
    BY <1>1, <2>1 DEF TellLeft, TypeOK
  <2>3. peers'[p] = peers[p] \ {w}
    BY <1>3, <1>9, <2>1 DEF PeerLeft, u
  <2>4. w \in Present => w \in stale'
    BY <1>9 DEF PeerLeft
  <2>5. ASSUME NEW v \in Users \ ({u} \cup stale') PROVE TileFollows(p, v)'
    <3>1. TileFollows(p, v)
      BY <1>3, <2>1, <2>5
    <3>2. CASE v = w
      BY <2>1, <2>3, <2>4, <2>5, <3>2 DEF TileFollows
    <3>3. CASE v # w
      <4>1. ASSUME NEW r \in Processes \ Joins, pc[r] = "rest", UserOf(r) = v PROVE pc'[r] = "rest"
        BY <2>2, <3>3, <4>1
      <4>2. v \in Present => roster[v] \in Processes /\ roster[v] # q
        BY <1>1 DEF Present, TypeOK, Processes
      <4>3. v \in peers'[p] <=> v \in peers[p]
        BY <2>3, <3>3
      <4>4. QED
        BY <1>1, <2>1, <2>2, <3>1, <4>1, <4>2, <4>3, TileKept
    <3>4. QED
      BY <3>2, <3>3
  <2>6. QED
    BY <1>3, <2>1, <2>5
<1>10. ASSUME NEW c \in Conns, LeavePageOffline(c) \/ \E l \in Leaves : LeavePage(l, c)
       PROVE  Goal
  <2>1. PICK q \in Conns : /\ view' = [view EXCEPT ![q] = "hub"] /\ peers' = [peers EXCEPT ![q] = {}]
                           /\ stale' = stale /\ roster' = roster
    BY <1>1, <1>10 DEF LeavePageOffline, LeavePage, LeaveOffline, Leave, Unmount, TypeOK
  <2>2. \A r \in Processes : pc[r] \in {"rest", "tell"} => pc'[r] = pc[r]
    BY <1>1, <1>10
    DEF LeavePageOffline, LeavePage, LeaveOffline, Leave, TypeOK, processVars
  <2>3. q # p /\ view[p] = "call" /\ peers'[p] = peers[p]
    BY <1>1, <1>2, <2>1 DEF TypeOK, MeshTypeOK
  <2>4. ASSUME NEW v \in Users \ ({u} \cup stale') PROVE TileFollows(p, v)'
    <3>1. TileFollows(p, v)
      BY <1>3, <2>3, <2>4
    <3>2. v \in Present => roster[v] \in Processes
      BY <1>1 DEF Present, TypeOK, Processes
    <3>3. QED
      BY <1>1, <2>1, <2>2, <2>3, <3>1, <3>2, TileKept
  <2>5. u \in Present'
    BY <1>3, <2>1, <2>3 DEF Present
  <2>6. QED
    BY <2>4, <2>5
<1>11. ASSUME UNCHANGED <<vars, peers, stale>> PROVE Goal
  <2>1. UNCHANGED <<roster, view, pc, peers, stale>>
    BY <1>11 DEF vars, processVars
  <2>2. QED
    BY <1>4, <2>1
<1>12. ASSUME NEW j \in Joins, JoinRoomMesh(j) \/ InitFails(j) PROVE UNCHANGED <<vars, peers, stale>>
  BY <1>12 DEF JoinRoomMesh, InitFails
<1>13. ASSUME NEW q \in Conns, NEW v \in Users, OnSignal(q, v) PROVE UNCHANGED <<vars, peers, stale>>
  <2>1. PICK f : Relayed(q, v, f)
    BY <1>13 DEF OnSignal, AcceptCall, ReceiveAnswer, ReceiveHangup
  <2>2. QED
    BY <2>1 DEF Relayed
<1>14. Goal
  BY <1>5, <1>6, <1>7, <1>8, <1>9, <1>10, <1>11, <1>12, <1>13 DEF MeshNext, allVars, meshVars
<1>15. QED
  BY <1>14 DEF u

\* Pages, managers and frames of every room, whatever joins, leaves, loses its socket
\* or fails at once.
THEOREM MeshSafety == MeshSpec => []MeshInv
<1>1. MeshInit => Timely /\ TilesFollow
  BY TimelyInit, TilesInit
<1>2. Timely /\ TilesFollow /\ [MeshNext]_allVars => Timely' /\ TilesFollow'
  BY TimelyStep, TilesStep
<1>3. Timely /\ TilesFollow => MeshInv
  BY DEF Timely, Settled, Sockets, MeshInv
<1>4. QED
  BY <1>1, <1>2, <1>3, PTL DEF MeshSpec

\* Once all is quiet, a page that shows a call and had its socket all along shows who
\* is on the roster, but for joins that overlapped and leaves across a join.
THEOREM ShowsWhoIsThere == MeshSpec => []TilesAreTrue
<1>1. RosterInv /\ MeshInv => TilesAreTrue
  <2> SUFFICES ASSUME RosterInv, MeshInv, AtRest, ~faulted, NEW p \in Conns,
                      view[p] = "call", Steady(Owner[p]), Owner[p] \notin stale
               PROVE  /\ Owner[p] \in Present
                      /\ \A v \in Users \ {Owner[p]} : \/ v \in peers[p] <=> v \in Present
                                                       \/ v \in stale
                                                       \/ Overlapped(Owner[p], v)
    BY DEF TilesAreTrue
  <2>1. Owner[p] \in Present /\ \A v \in Users \ ({Owner[p]} \cup stale) : TileFollows(p, v)
    BY DEF MeshInv, TilesFollow, Undisturbed
  <2>2. ASSUME NEW v \in Users PROVE ~Leaving(v)
    BY DEF AtRest, Leaving
  <2>3. ASSUME NEW v \in Present PROVE ~Telling(v, Owner[p])
    BY DEF AtRest, Telling, Present, RosterInv, TypeOK, Processes
  <2>4. QED
    BY <2>1, <2>2, <2>3 DEF TileFollows
<1>2. QED
  BY <1>1, MeshSafety, RosterSafeInMesh, PTL


----------------------------------------------------------------------------
\* Connections.  What the tables of the managers and the frames under way say of each
\* other: the inductive invariant that MeshConnects follows from.

\* A manager whose init went through: it has offered, and has been heard since.
Spoken == {"ready", "undead", "gone"}

\* A frame is by a manager of its page that has spoken, an offer of a call of its own to
\* a user it was given, a hangup by one that is gone.
FrameOK(p, u, f) ==
  /\ mgr[f.by] \in Spoken /\ PageOf(f.by) = p
  /\ mgr[f.call] \in Spoken
  /\ f.type = "webrtc_offer" => f.call = f.by /\ u \in Given(f.by)
  /\ f.type = "call_hangup" => mgr[f.by] = "gone"

FramesOn(p, u) == \A n \in DOMAIN wire[<<p, u>>] : FrameOK(p, u, wire[<<p, u>>][n])
FramesOK == \A p \in Conns, u \in Users : FramesOn(p, u)

\* A manager has nothing in its tables before it has spoken, and what it has is of those
\* who have; a connection without its other end is one it offered.
TableOK(k, u) ==
  /\ mgr[k] \notin Spoken => caller[k][u] = Nobody /\ far[k][u] = Nobody
  /\ far[k][u] # Nobody => mgr[far[k][u]] \in Spoken /\ UserOf(far[k][u]) = u
  /\ caller[k][u] # Nobody /\ far[k][u] = Nobody => caller[k][u] = k

TablesOK == \A k \in Joins, u \in Users : TableOK(k, u)

\* A joiner reads one entry of a user; and who was read by one that a later manager
\* of its page had read is no longer mounted.
OneSeen == \A k \in Joins : \A i, j \in saw[k] : UserOf(i) = UserOf(j) => i = j

InOrder ==
  \A n, k, m \in Joins :
    (k \in saw[n] /\ n \in saw[m] /\ mgr[m] # "none" /\ PageOf(m) = PageOf(k))
      => mgr[k] \notin Mounted

\* On a wire, the hangups of earlier managers are ahead of what the mounted one says.
HangupsFirst ==
  \A p \in Conns, u \in Users : \A a, b \in DOMAIN wire[<<p, u>>] :
    mgr[wire[<<p, u>>][a].by] \in Mounted /\ wire[<<p, u>>][b].type = "call_hangup" => b < a

\* A page with its first and only socket that shows a call is on the roster, unless its
\* user left across a join.
SteadyPresent ==
  \A p \in Conns : (view[p] = "call" /\ Steady(Owner[p]) /\ Owner[p] \notin stale)
                     => Owner[p] \in Present

\* Neither of two managers missed a frame of the other, or is in doubt otherwise.
Clean(i, j) ==
  /\ i \notin raced[j] /\ j \notin raced[i]
  /\ <<i, j>> \notin missed /\ <<j, i>> \notin missed
  /\ UserOf(i) \notin stale /\ UserOf(j) \notin stale
  /\ ~Another(UserOf(i), PageOf(i)) /\ ~Another(UserOf(j), PageOf(j))

\* How far the offer of i to j is: s and t are the wires from i to the user of j and back,
\* a and b what i and j have in their tables for the other.  The offer is the last frame
\* that is under way to j, ...
Offering(i, s, t, a) ==
  LET o == Frame("webrtc_offer", i, i)
  IN /\ s # <<>> /\ s[Len(s)] = o /\ \A n \in DOMAIN s : s[n] = o => n = Len(s)
     /\ a.call = i /\ a.far = Nobody
     /\ \A n \in DOMAIN t : t[n].type = "webrtc_answer" => t[n].call # i

\* ... or j has accepted it, and its answer is under way, ...
Answering(i, j, s, t, a, b) ==
  /\ s = <<>> /\ b.call = i /\ b.far = i
  /\ a.call = i /\ a.far = Nobody
  /\ \E n \in DOMAIN t : t[n] = Frame("webrtc_answer", i, j)
  /\ \A n \in DOMAIN t : t[n].type = "webrtc_answer" /\ t[n].call = i => t[n].by = j

\* ... or i has its answer.
Connected(i, j, s, a, b) ==
  s = <<>> /\ b.call = i /\ b.far = i /\ a.call = i /\ a.far = j

Phase(i, j, s, t, a, b) ==
  Offering(i, s, t, a) \/ Answering(i, j, s, t, a, b) \/ Connected(i, j, s, a, b)

Connection(k, u) == [call |-> caller[k][u], far |-> far[k][u]]

LinkOK(i, j, u, v) ==
  Phase(i, j, wire[<<PageOf(i), v>>], wire[<<PageOf(j), u>>], Connection(i, v), Connection(j, u))

Pair(i, j) == /\ i # Nobody /\ j # Nobody
              /\ j \in saw[i] /\ mgr[i] = "ready" /\ mgr[j] \in {"init", "ready"}
              /\ Clean(i, j)

Linked ==
  \A u, v \in Users : (u # v /\ Pair(roster[u], roster[v])) =>
    LinkOK(roster[u], roster[v], u, v)

\* A manager is there, and will say farewell to the user when it goes; or its farewell
\* is under way behind position a of the wire.
Stays(n, w) == mgr[n] = "undead" \/ (mgr[n] = "ready" /\ caller[n][w] # Nobody)
Farewell(s, a, n) == \E b \in DOMAIN s : b > a /\ s[b].type = "call_hangup" /\ s[b].by = n
NoHangup(s) == \A b \in DOMAIN s : s[b].type # "call_hangup"

Quiet(k, n) ==
  /\ Steady(UserOf(k)) /\ Steady(UserOf(n))
  /\ UserOf(k) \notin stale /\ UserOf(n) \notin stale
  /\ <<k, n>> \notin missed /\ <<n, k>> \notin missed

\* Whom a manager has heard stays or will say farewell.  If the call is the manager's,
\* its page has no farewell to the other under way; else it was given to the other. ...
HeardFrom(k, u, n) ==
  /\ Stays(n, UserOf(k)) \/ Farewell(wire[<<PageOf(n), UserOf(k)>>], 0, n)
  /\ IF caller[k][u] = k THEN NoHangup(wire[<<PageOf(k), u>>]) ELSE k \in saw[n]

HeardOK(k, u) ==
  \A n \in Joins : (mgr[k] = "ready" /\ far[k][u] = n /\ Quiet(k, n)) => HeardFrom(k, u, n)

\* ... and so does whoever it is about to hear: in position a of the wire of page p.
Awaited(k, f) == \/ f.type = "webrtc_offer" /\ k \in saw[f.by]
                 \/ f.type = "webrtc_answer" /\ f.call = k

ComingFrom(p, a, k, f) ==
  /\ Stays(f.by, UserOf(k)) \/ Farewell(wire[<<p, UserOf(k)>>], a, f.by)
  /\ f.type = "webrtc_answer" => NoHangup(wire[<<PageOf(k), Owner[p]>>])

ComingOn(p, k) ==
  \A a \in DOMAIN wire[<<p, UserOf(k)>>], f \in Frames :
    (f = wire[<<p, UserOf(k)>>][a] /\ Quiet(k, f.by) /\ Awaited(k, f)) => ComingFrom(p, a, k, f)

Heard == \A k \in Joins, u \in Users : HeardOK(k, u)
Coming == \A k \in Joins, p \in Conns : mgr[k] \in {"init", "ready"} => ComingOn(p, k)

Lines == FramesOK /\ TablesOK /\ OneSeen /\ InOrder /\ HangupsFirst /\ SteadyPresent
Links == Lines /\ Linked /\ Heard /\ Coming

----------------------------------------------------------------------------
\* Managers from step to step.

LEMMA ManagerFacts ==
  ASSUME Settled, NEW k \in Joins, mgr[k] # "none"
  PROVE  /\ conn[k] \in Conns /\ state[conn[k]] # "new" /\ pc[k] \in {"tell", "done"}
         /\ PageOf(k) \in Conns /\ UserOf(k) \in Users /\ Owner[PageOf(k)] = UserOf(k)
<1> USE DEF Settled, Sockets, RosterInv
<1>1. pc[k] \in {"tell", "done"} /\ state[conn[k]] # "new" /\ conn[k] \in Conns
  BY DEF ManagersWereJoined, FramesHadSockets, CallsHaveSockets
<1>2. PageOf(k) \in Conns /\ Owner[PageOf(k)] = Owner[conn[k]]
  BY <1>1 DEF PageOf, TypeOK, PagesAreOwn
<1>3. UserOf(k) = Owner[conn[k]] /\ UserOf(k) \in Users
  BY <1>1, ProcessesDiffer, OwnerOfConns DEF UserOf
<1>4. QED
  BY <1>1, <1>2, <1>3

LEMMA ManagerKept ==
  ASSUME Settled, [MeshNext]_allVars, NEW k \in Joins, mgr[k] # "none"
  PROVE  /\ PageOf(k)' = PageOf(k) /\ UserOf(k)' = UserOf(k)
         /\ saw'[k] = saw[k] /\ Given(k)' = Given(k)
<1> USE DEF Settled, Sockets, RosterInv
<1>1. [Next]_vars /\ TypeOK /\ RosterInv
  BY MeshStepMaps
<1>2. conn[k] \in Conns /\ state[conn[k]] # "new" /\ pc[k] \in {"tell", "done"}
  BY ManagerFacts
<1>3. conn'[k] = conn[k] /\ page'[conn[k]] = page[conn[k]]
  BY <1>1, <1>2, CallsGoForward, StatesGoForward
<1>4. PageOf(k)' = PageOf(k)
  BY <1>3 DEF PageOf
<1>5. UserOf(k)' = UserOf(k)
  BY <1>3, ProcessesDiffer DEF UserOf
<1> HIDE DEF Settled, Sockets, RosterInv
<1>6. saw'[k] = saw[k] /\ Given(k)' = Given(k)
  BY <1>1, <1>2, GivenKept
<1>7. QED
  BY <1>4, <1>5, <1>6

\* How far a manager is changes with its own steps only.
LEMMA ManagersMove ==
  ASSUME Settled, [MeshNext]_allVars, NEW k \in Joins
  PROVE  \/ mgr'[k] = mgr[k]
         \/ /\ EnterRoom(k) /\ mgr[k] = "none" /\ mgr'[k] = "init"
            /\ PageOf(k) \in Conns /\ view[PageOf(k)] = "hub"
         \/ JoinRoomMesh(k) /\ mgr[k] = "init" /\ mgr'[k] = "ready"
         \/ JoinRoomMesh(k) /\ mgr[k] = "cut" /\ mgr'[k] = "undead"
         \/ mgr[k] = "init" /\ mgr'[k] = "failed"
         \/ mgr[k] = "cut" /\ mgr'[k] = "gone"
         \/ \E p \in Conns : /\ Unmount(p) /\ k \in MountedOn(p)
                             /\ mgr'[k] = IF mgr[k] = "init" THEN "cut" ELSE "gone"
<1> DEFINE Goal ==
         \/ mgr'[k] = mgr[k]
         \/ /\ EnterRoom(k) /\ mgr[k] = "none" /\ mgr'[k] = "init"
            /\ PageOf(k) \in Conns /\ view[PageOf(k)] = "hub"
         \/ JoinRoomMesh(k) /\ mgr[k] = "init" /\ mgr'[k] = "ready"
         \/ JoinRoomMesh(k) /\ mgr[k] = "cut" /\ mgr'[k] = "undead"
         \/ mgr[k] = "init" /\ mgr'[k] = "failed"
         \/ mgr[k] = "cut" /\ mgr'[k] = "gone"
         \/ \E p \in Conns : /\ Unmount(p) /\ k \in MountedOn(p)
                             /\ mgr'[k] = IF mgr[k] = "init" THEN "cut" ELSE "gone"
<1>0. DOMAIN mgr = Joins
  BY DEF Settled, MeshTypeOK
<1>1. ASSUME mgr' = mgr PROVE Goal
  BY <1>1
<1>2. ASSUME NEW j \in Joins, EnterRoom(j) PROVE Goal
  <2>1. CASE mgr' = mgr
    BY <2>1
  <2>2. CASE mgr' = [mgr EXCEPT ![j] = "init"] /\ view[PageOf(j)] = "hub"
    <3>1. mgr[j] = "none" /\ PageOf(j) \in Conns
      BY <1>2 DEF Settled, Sockets, RosterInv, EnterRoom, Enter, ManagersWereJoined, CallsHaveSockets,
                  PageOf, TypeOK
    <3>2. QED
      BY <1>0, <1>2, <2>2, <3>1
  <2>3. QED
    BY <1>2, <2>1, <2>2 DEF EnterRoom
<1>3. ASSUME NEW j \in Joins, JoinRoomMesh(j) PROVE Goal
  <2>1. mgr[j] \in {"init", "cut"} /\ mgr' = [mgr EXCEPT ![j] = IF @ = "init" THEN "ready" ELSE "undead"]
    BY <1>3 DEF JoinRoomMesh
  <2>2. QED
    BY <1>0, <1>3, <2>1
<1>4. ASSUME NEW j \in Joins, InitFails(j) PROVE Goal
  BY <1>0, <1>4 DEF InitFails
<1>5. ASSUME NEW p \in Conns, Unmount(p) PROVE Goal
  BY <1>5 DEF Unmount
<1>6. ASSUME NEW c \in Conns, LeavePageOffline(c) \/ \E l \in Leaves : LeavePage(l, c) PROVE Goal
  <2>1. page[c] \in Conns
    BY DEF Settled, Sockets, RosterInv, TypeOK
  <2>2. Unmount(c) \/ Unmount(page[c])
    BY <1>6 DEF LeavePageOffline, LeavePage
  <2>3. QED
    BY <1>5, <2>1, <2>2
<1>7. ASSUME NEW p \in Conns, NEW u \in Users, OnSignal(p, u) PROVE mgr' = mgr
  <2>1. PICK f : Relayed(p, u, f)
    BY <1>7 DEF OnSignal, AcceptCall, ReceiveAnswer, ReceiveHangup
  <2>2. QED
    BY <2>1 DEF Relayed
<1>8. ASSUME NEW j, PeerJoined(j) \/ RemovePeer(j) \/ PeerLeft(j) PROVE mgr' = mgr
  BY <1>8 DEF PeerJoined, RemovePeer, PeerLeft
<1> HIDE DEF Goal
<1>9. Goal
  BY <1>1, <1>2, <1>3, <1>4, <1>6, <1>7, <1>8 DEF MeshNext, allVars, meshVars
<1>10. QED
  BY <1>9 DEF Goal

LEMMA ManagersGoForward ==
  ASSUME Settled, [MeshNext]_allVars, NEW k \in Joins
  PROVE  /\ mgr[k] # "none" => mgr'[k] # "none"
         /\ mgr[k] \in Spoken => mgr'[k] \in Spoken
         /\ mgr[k] \in {"undead", "gone"} => mgr'[k] = mgr[k]
         /\ mgr'[k] \in Mounted => mgr[k] \in Mounted \/ (EnterRoom(k) /\ mgr[k] = "none")
         /\ mgr'[k] \in {"init", "ready"} => \/ mgr[k] \in {"init", "ready"}
                                             \/ EnterRoom(k) /\ mgr[k] = "none" /\ mgr'[k] = "init"
         /\ mgr'[k] = "ready" => mgr[k] = "ready" \/ (JoinRoomMesh(k) /\ mgr[k] = "init")
<1>1. \A p : k \in MountedOn(p) => mgr[k] \in Mounted
  BY DEF MountedOn
<1>2. QED
  BY <1>1, ManagersMove DEF Spoken, Mounted

LEMMA MissesStay ==
  ASSUME TypeOK, [MeshNext]_allVars
  PROVE  missed \subseteq missed'
<1>1. ASSUME NEW j \in Joins, EnterRoom(j) \/ PeerJoined(j) \/ JoinRoomMesh(j) \/ InitFails(j)
      PROVE missed \subseteq missed'
  BY <1>1 DEF EnterRoom, PeerJoined, JoinRoomMesh, InitFails
<1>2. ASSUME NEW p \in Processes \ Joins, RemovePeer(p) \/ PeerLeft(p)
      PROVE missed' = missed
  BY <1>2 DEF RemovePeer, PeerLeft
<1>3. ASSUME NEW c \in Conns, LeavePageOffline(c) \/ \E l \in Leaves : LeavePage(l, c)
      PROVE missed' = missed
  BY <1>3 DEF LeavePageOffline, LeavePage, Unmount
<1>4. ASSUME NEW p \in Conns, NEW u \in Users, OnSignal(p, u)
      PROVE missed \subseteq missed'
  <2>1. PICK f : Relayed(p, u, f)
    BY <1>4 DEF OnSignal, AcceptCall, ReceiveAnswer, ReceiveHangup
  <2>2. QED
    BY <2>1 DEF Relayed
<1>5. QED
  BY <1>1, <1>2, <1>3, <1>4 DEF MeshNext, allVars, meshVars

\* Two managers that nothing has come between were so before.
LEMMA CleanWas ==
  ASSUME Settled, [MeshNext]_allVars, NEW i \in Joins, NEW j \in Joins,
         mgr[i] # "none", mgr[j] # "none", Clean(i, j)'
  PROVE  Clean(i, j)
<1>1. [Next]_vars /\ RosterInv /\ TypeOK /\ RacedWereEntered
  BY MeshStepMaps DEF Settled, Sockets, RosterInv
<1>2. pc[i] \in {"tell", "done"} /\ pc[j] \in {"tell", "done"}
  BY ManagerFacts
<1>3. raced'[i] = raced[i] /\ raced'[j] = raced[j]
  BY <1>1, <1>2, RacedStay
<1>4. /\ PageOf(i)' = PageOf(i) /\ UserOf(i)' = UserOf(i)
      /\ PageOf(j)' = PageOf(j) /\ UserOf(j)' = UserOf(j)
  BY ManagerKept
<1>5. missed \subseteq missed' /\ stale \subseteq stale'
  BY <1>1, MissesStay, TroubleStays
<1>6. ASSUME NEW x, NEW p, Another(x, p) PROVE Another(x, p)'
  <2>1. PICK m \in Joins : /\ UserOf(m) = x /\ mgr[m] # "none"
                           /\ mgr[m] = "undead" \/ PageOf(m) # p
    BY <1>6 DEF Another
  <2>2. PageOf(m)' = PageOf(m) /\ UserOf(m)' = UserOf(m)
    BY <2>1, ManagerKept
  <2>3. mgr'[m] # "none" /\ (mgr[m] = "undead" => mgr'[m] = "undead")
    BY <2>1, ManagersGoForward
  <2>4. QED
    BY <2>1, <2>2, <2>3 DEF Another
<1>7. QED
  BY <1>3, <1>4, <1>5, <1>6 DEF Clean

----------------------------------------------------------------------------
\* A wire from step to step: t is s without its first c frames, with those of A behind.
Passed(t, s, c, A) ==
  /\ \A n \in DOMAIN t : IF n + c <= Len(s) THEN t[n] = s[n + c] ELSE t[n] \in A
  /\ \A m \in DOMAIN s : m > c => m - c \in DOMAIN t /\ t[m - c] = s[m]
  /\ \A f \in A : \E n \in DOMAIN t : n + c > Len(s) /\ t[n] = f
  /\ A = {} => Len(t) = Len(s) - c

LEMMA PassedSame ==
  ASSUME NEW S, NEW s \in Seq(S)
  PROVE  Passed(s, s, 0, {})
<1>1. PICK l \in Nat : l = Len(s) /\ DOMAIN s = 1 .. l
  OBVIOUS
<1>2. QED
  BY <1>1 DEF Passed

LEMMA PassedAppend ==
  ASSUME NEW S, NEW s \in Seq(S), NEW f \in S
  PROVE  Passed(Append(s, f), s, 0, {f})
<1>1. PICK l \in Nat : l = Len(s) /\ DOMAIN s = 1 .. l
  OBVIOUS
<1>2. PICK t : t = Append(s, f)
  OBVIOUS
<1>3. /\ DOMAIN t = 1 .. l + 1 /\ t[l + 1] = f
      /\ \A n \in 1 .. l : t[n] = s[n]
  BY <1>1, <1>2
<1>4. QED
  BY <1>1, <1>2, <1>3 DEF Passed

LEMMA PassedTail ==
  ASSUME NEW S, NEW s \in Seq(S), s # <<>>
  PROVE  Passed(Tail(s), s, 1, {})
<1>1. PICK l \in Nat \ {0} : l = Len(s) /\ DOMAIN s = 1 .. l
  OBVIOUS
<1>2. PICK t : t = Tail(s)
  OBVIOUS
<1>3. /\ DOMAIN t = 1 .. l - 1 /\ Len(t) = l - 1
      /\ \A n \in 1 .. l - 1 : t[n] = s[n + 1]
  BY <1>1, <1>2
<1>4. QED
  BY <1>1, <1>2, <1>3 DEF Passed

\* What is put behind may be several frames.
LEMMA PassedOn ==
  ASSUME NEW S, NEW s \in Seq(S), NEW t, NEW c \in {0, 1}, NEW a \in Seq(S),
         t \in Seq(S), Passed(t, s, c, {}), NEW A, A = {a[n] : n \in DOMAIN a}
  PROVE  Passed(t \o a, s, c, A)
<1>1. PICK l \in Nat : l = Len(s) /\ DOMAIN s = 1 .. l
  OBVIOUS
<1>2. PICK k \in Nat : k = Len(t) /\ DOMAIN t = 1 .. k
  OBVIOUS
<1>3. PICK h \in Nat : h = Len(a) /\ DOMAIN a = 1 .. h
  OBVIOUS
<1>4. k = l - c
  BY <1>1, <1>2 DEF Passed
<1>5. PICK q : q = t \o a
  OBVIOUS
<1>6. /\ Len(q) = k + h /\ DOMAIN q = 1 .. k + h
      /\ \A n \in 1 .. k : q[n] = t[n]
      /\ \A n \in 1 .. h : q[k + n] = a[n]
  BY <1>2, <1>3, <1>5
<1>7. ASSUME NEW n \in DOMAIN q PROVE IF n + c <= Len(s) THEN q[n] = s[n + c] ELSE q[n] \in A
  <2>1. CASE n <= k
    BY <1>1, <1>2, <1>4, <1>6, <2>1 DEF Passed
  <2>2. CASE n > k
    <3>1. PICK m \in 1 .. h : n = k + m
      <4>1. n \in 1 .. k + h
        BY <1>6
      <4>2. n - k \in 1 .. h /\ n = k + (n - k)
        BY <2>2, <4>1
      <4>3. QED
        BY <4>2
    <3>2. q[n] \in A
      BY <1>3, <1>6, <3>1
    <3>3. n + c > Len(s)
      BY <1>1, <1>4, <3>1
    <3>4. QED
      BY <1>1, <3>1, <3>2, <3>3
  <2>3. QED
    BY <1>6, <2>1, <2>2
<1>8. ASSUME NEW m \in DOMAIN s, m > c PROVE m - c \in DOMAIN q /\ q[m - c] = s[m]
  <2>1. m - c \in DOMAIN t /\ t[m - c] = s[m]
    BY <1>8 DEF Passed
  <2>2. QED
    BY <1>2, <1>6, <2>1, <1>3
<1>9. ASSUME NEW f \in A PROVE \E n \in DOMAIN q : n + c > Len(s) /\ q[n] = f
  <2>1. PICK n \in 1 .. h : f = a[n]
    BY <1>3
  <2>2. k + n \in 1 .. k + h
    OBVIOUS
  <2>3. k + n + c > l
    BY <1>4
  <2>4. q[k + n] = f
    BY <1>6, <2>1
  <2>5. QED
    BY <1>1, <1>6, <2>2, <2>3, <2>4
<1>10. ASSUME A = {} PROVE Len(q) = Len(s) - c
  <2>1. h = 0
    <3>1. ASSUME h # 0 PROVE FALSE
      <4>1. 1 \in DOMAIN a
        BY <1>3, <3>1
      <4>2. QED
        BY <1>10, <4>1
    <3>2. QED
      BY <3>1
  <2>2. QED
    BY <1>1, <1>4, <1>6, <2>1
<1>11. QED
  BY <1>5, <1>7, <1>8, <1>9, <1>10 DEF Passed

----------------------------------------------------------------------------
\* The steps that take a frame from a wire.

Answers(u, f, q) == {Frame("webrtc_answer", f.call, k) : k \in {k \in Hearing(u) : PageOf(k) = q}}

Takes(p, u, f) == /\ wire[<<p, u>>] # <<>> /\ f = wire[<<p, u>>][1]
                  /\ AcceptCall(p, u, f) \/ ReceiveAnswer(p, u, f) \/ ReceiveHangup(p, u, f)

LEMMA WireOK ==
  ASSUME MeshTypeOK, NEW p \in Conns, NEW u \in Users
  PROVE  /\ wire[<<p, u>>] \in Seq(Frames) /\ DOMAIN wire[<<p, u>>] = 1 .. Len(wire[<<p, u>>])
         /\ Len(wire[<<p, u>>]) \in Nat
         /\ \A n \in DOMAIN wire[<<p, u>>] : wire[<<p, u>>][n] \in Frames
<1>1. <<p, u>> \in Conns \X Users
  OBVIOUS
<1>2. wire[<<p, u>>] \in Seq(Frames)
  BY <1>1 DEF MeshTypeOK
<1>3. QED
  BY <1>2

LEMMA SignalTakes ==
  ASSUME MeshTypeOK, NEW p \in Conns, NEW u \in Users, OnSignal(p, u)
  PROVE  \E f \in Frames : Takes(p, u, f)
<1>1. wire[<<p, u>>] # <<>> /\ wire[<<p, u>>] \in Seq(Frames)
  BY WireOK DEF OnSignal
<1>2. PICK s \in Seq(Frames) : s = wire[<<p, u>>] /\ s # <<>>
  BY <1>1
<1>3. Head(s) = s[1] /\ Head(s) \in Frames
  BY <1>2
<1>4. QED
  BY <1>2, <1>3 DEF OnSignal, Takes

\* Nothing of the roster or of how far managers are.
LEMMA TakenIsQuiet ==
  ASSUME NEW p, NEW u, NEW f, Takes(p, u, f)
  PROVE  /\ Relayed(p, u, f) /\ UNCHANGED <<vars, peers, mgr, stale>>
         /\ \A k : PageOf(k)' = PageOf(k) /\ UserOf(k)' = UserOf(k)
<1>1. Relayed(p, u, f)
  BY DEF Takes, AcceptCall, ReceiveAnswer, ReceiveHangup
<1>2. UNCHANGED <<vars, peers, mgr, stale>>
  BY <1>1 DEF Relayed
<1>3. QED
  BY <1>1, <1>2 DEF vars, processVars, PageOf, UserOf

LEMMA TakenWire ==
  ASSUME Settled, NEW p \in Conns, NEW u \in Users, NEW f \in Frames, Takes(p, u, f),
         NEW q \in Conns, NEW x \in Users
  PROVE  Passed(wire'[<<q, x>>], wire[<<q, x>>], IF q = p /\ x = u THEN 1 ELSE 0,
                IF f.type = "webrtc_offer" /\ x = Owner[p] THEN Answers(u, f, q) ELSE {})
<1> DEFINE c == IF q = p /\ x = u THEN 1 ELSE 0
           A == IF f.type = "webrtc_offer" /\ x = Owner[p] THEN Answers(u, f, q) ELSE {}
<1>1. MeshTypeOK /\ f.call \in Joins /\ f.by \in Joins
  BY DEF Settled, Frames
<1>2. PICK s \in Seq(Frames) : s = wire[<<q, x>>]
  BY <1>1, WireOK
<1>3. PICK rest : rest = IF q = p /\ x = u THEN Tail(s) ELSE s
  OBVIOUS
<1>4. rest \in Seq(Frames) /\ Passed(rest, s, c, {})
  <2>1. CASE q = p /\ x = u
    <3>1. s # <<>>
      BY <1>2, <2>1 DEF Takes
    <3>2. Tail(s) \in Seq(Frames) /\ Passed(Tail(s), s, 1, {})
      BY <3>1, PassedTail
    <3>3. QED
      BY <1>3, <2>1, <3>2
  <2>2. CASE ~(q = p /\ x = u)
    BY <1>3, <2>2, PassedSame
  <2>3. QED
    BY <2>1, <2>2
<1>5. CASE AcceptCall(p, u, f)
  <2> DEFINE on(r) == {k \in Hearing(u) : PageOf(k) = r}
             answers(o) == [n \in DOMAIN o |-> Frame("webrtc_answer", f.call, o[n])]
             left(d) == IF d = <<p, u>> THEN Tail(wire[d]) ELSE wire[d]
  <2>1. PICK order : /\ \A r \in Conns : order[r] \in Orders(on(r))
                     /\ wire' = [d \in Conns \X Users |->
                           IF d[2] # Owner[p] THEN left(d) ELSE left(d) \o answers(order[d[1]])]
    BY <1>5 DEF AcceptCall
  <2>2. f.type = "webrtc_offer"
    BY <1>5 DEF AcceptCall
  <2>3. PICK M, o, a : M = on(q) /\ o = order[q] /\ a = answers(o)
    OBVIOUS
  <2>4. o \in Orders(M) /\ M \in SUBSET Joins
    BY <2>1, <2>3 DEF Hearing
  <2>5. a \in Seq(Frames) /\ {Frame("webrtc_answer", f.call, k) : k \in M} = {a[n] : n \in DOMAIN a}
    <3>1. a \in Seq(Frames)
      BY <1>1, <2>3, <2>4, AnswerTypes
    <3>2. \A k \in M : \E n \in DOMAIN o : o[n] = k
      BY <2>4 DEF Orders
    <3>3. \A n \in DOMAIN o : o[n] \in M
      BY <2>4 DEF Orders
    <3>4. DOMAIN a = DOMAIN o /\ \A n \in DOMAIN a : a[n] = Frame("webrtc_answer", f.call, o[n])
      BY <2>3
    <3>5. QED
      BY <3>1, <3>2, <3>3, <3>4
  <2>6. left(<<q, x>>) = rest
    BY <1>2, <1>3
  <2>7. <<q, x>> \in Conns \X Users /\ <<q, x>>[1] = q /\ <<q, x>>[2] = x
    OBVIOUS
  <2> HIDE DEF left, answers, on
  <2>8. wire'[<<q, x>>] = IF x # Owner[p] THEN left(<<q, x>>) ELSE left(<<q, x>>) \o answers(order[q])
    BY <2>1, <2>7
  <2>9. CASE x = Owner[p]
    <3>1. A = {a[n] : n \in DOMAIN a}
      BY <2>2, <2>3, <2>5, <2>9 DEF Answers, on
    <3>2. c \in {0, 1}
      OBVIOUS
    <3> HIDE DEF A, c
    <3>3. Passed(rest \o a, s, c, A)
      BY <1>4, <2>5, <3>1, <3>2, PassedOn
    <3>4. QED
      BY <1>2, <2>3, <2>6, <2>8, <2>9, <3>3 DEF A, c
  <2>10. CASE x # Owner[p]
    BY <1>2, <1>4, <2>6, <2>8, <2>10
  <2>11. QED
    BY <2>9, <2>10
<1>6. CASE ReceiveAnswer(p, u, f) \/ ReceiveHangup(p, u, f)
  <2>1. wire' = [wire EXCEPT ![<<p, u>>] = Tail(@)] /\ f.type # "webrtc_offer"
    BY <1>6 DEF ReceiveAnswer, ReceiveHangup
  <2>2. <<q, x>> \in Conns \X Users /\ <<p, u>> \in Conns \X Users
    OBVIOUS
  <2>3. wire'[<<q, x>>] = rest
    BY <1>1, <1>2, <1>3, <2>1, <2>2 DEF MeshTypeOK
  <2>4. QED
    BY <1>2, <1>4, <2>1, <2>3
<1>7. QED
  BY <1>5, <1>6 DEF Takes

LEMMA TakenTables ==
  ASSUME Settled, NEW p \in Conns, NEW u \in Users, NEW f \in Frames, Takes(p, u, f),
         NEW k \in Joins, NEW x \in Users
  PROVE  /\ ~(k \in Hearing(u) /\ x = Owner[p]) =>
              caller'[k][x] = caller[k][x] /\ far'[k][x] = far[k][x]
         /\ k \in Hearing(u) /\ x = Owner[p] =>
              /\ f.type = "webrtc_offer" => caller'[k][x] = f.call /\ far'[k][x] = f.by
              /\ f.type = "webrtc_answer" =>
                   /\ caller'[k][x] = caller[k][x]
                   /\ far'[k][x] = IF caller[k][x] = f.call /\ far[k][x] = Nobody
                                     THEN f.by ELSE far[k][x]
              /\ f.type = "call_hangup" => caller'[k][x] = Nobody /\ far'[k][x] = Nobody
<1> DEFINE hears == k \in Hearing(u)
<1>1. /\ caller \in [Joins -> [Users -> Joins \cup {Nobody}]]
      /\ far \in [Joins -> [Users -> Joins \cup {Nobody}]]
  BY DEF Settled, MeshTypeOK
<1>2. CASE AcceptCall(p, u, f)
  <2>1. /\ f.type = "webrtc_offer"
        /\ caller'[k] = IF hears THEN [caller[k] EXCEPT ![Owner[p]] = f.call] ELSE caller[k]
        /\ far'[k] = IF hears THEN [far[k] EXCEPT ![Owner[p]] = f.by] ELSE far[k]
    BY <1>2 DEF AcceptCall
  <2>2. QED
    BY <1>1, <2>1
<1>3. CASE ReceiveAnswer(p, u, f)
  <2>1. /\ f.type = "webrtc_answer" /\ caller' = caller
        /\ far'[k] = IF hears /\ caller[k][Owner[p]] = f.call /\ far[k][Owner[p]] = Nobody
                       THEN [far[k] EXCEPT ![Owner[p]] = f.by] ELSE far[k]
    BY <1>3 DEF ReceiveAnswer
  <2>2. QED
    BY <1>1, <2>1
<1>4. CASE ReceiveHangup(p, u, f)
  <2>1. /\ f.type = "call_hangup"
        /\ caller'[k] = IF hears THEN [caller[k] EXCEPT ![Owner[p]] = Nobody] ELSE caller[k]
        /\ far'[k] = IF hears THEN [far[k] EXCEPT ![Owner[p]] = Nobody] ELSE far[k]
    BY <1>4 DEF ReceiveHangup, Close
  <2>2. QED
    BY <1>1, <2>1
<1>5. QED
  BY <1>2, <1>3, <1>4 DEF Takes

LEMMA TakenMissed ==
  ASSUME NEW p, NEW u, NEW f, Takes(p, u, f)
  PROVE  /\ missed \subseteq missed'
         /\ \A k \in Joins : (mgr[k] \in Mounted /\ UserOf(k) = u /\ k \notin Hearing(u))
                               => <<f.by, k>> \in missed'
         /\ \A k \in Hearing(u), i \in Joins :
              (mgr[i] # "none" /\ UserOf(i) = Owner[p] /\ Stray(f, k)) => <<i, k>> \in missed'
<1>1. Relayed(p, u, f)
  BY TakenIsQuiet
<1>2. QED
  BY <1>1 DEF Relayed

\* A page is unmounted: its manager, if there is one, tells whom it has called.
LEMMA UnmountedTables ==
  ASSUME Settled, NEW p \in Conns, Unmount(p), NEW k \in Joins, NEW x \in Users
  PROVE  /\ k \in MountedOn(p) => caller'[k][x] = Nobody /\ far'[k][x] = Nobody
         /\ k \notin MountedOn(p) => /\ caller'[k][x] = caller[k][x] /\ far'[k][x] = far[k][x]
                                     /\ mgr'[k] = mgr[k]
<1>1. /\ caller'[k] = IF k \in MountedOn(p) THEN [y \in Users |-> Nobody] ELSE caller[k]
      /\ far'[k] = IF k \in MountedOn(p) THEN [y \in Users |-> Nobody] ELSE far[k]
      /\ mgr'[k] = IF k \notin MountedOn(p) THEN mgr[k]
                   ELSE IF mgr[k] = "init" THEN "cut" ELSE "gone"
  BY DEF Unmount
<1>2. QED
  BY <1>1

LEMMA SentWire ==
  ASSUME NEW p, NEW us, NEW f, wire' = Sent(p, us, f), NEW q \in Conns, NEW x \in Users
  PROVE  wire'[<<q, x>>] = IF q = p /\ x \in us /\ HasSocket(p)
                             THEN Append(wire[<<q, x>>], f) ELSE wire[<<q, x>>]
<1>1. <<q, x>> \in Conns \X Users /\ <<q, x>>[1] = q /\ <<q, x>>[2] = x
  OBVIOUS
<1>2. QED
  BY <1>1 DEF Sent

LEMMA UnmountedWire ==
  ASSUME Settled, NEW p \in Conns, Unmount(p), NEW q \in Conns, NEW x \in Users
  PROVE  \/ /\ wire'[<<q, x>>] = wire[<<q, x>>]
            /\ (q = p /\ HasSocket(p)) => \A k \in MountedOn(p) : caller[k][x] = Nobody
         \/ \E k \in MountedOn(p) :
              /\ q = p /\ caller[k][x] # Nobody
              /\ wire'[<<q, x>>] = Append(wire[<<q, x>>], Frame("call_hangup", k, k))
<1> DEFINE m == MountedOn(p)
           called == {u \in Users : \E k \in m : caller[k][u] # Nobody}
<1>1. m \subseteq Joins
  BY DEF MountedOn
<1>2. CASE m = {}
  BY <1>2 DEF Unmount
<1>3. CASE m # {}
  <2>1. PICK k \in m : m = {k} /\ k = CHOOSE i \in m : TRUE
    BY <1>3 DEF Settled, OneManager
  <2>0. PICK f, us : f = Frame("call_hangup", k, k) /\ us = called
    OBVIOUS
  <2>2. wire' = Sent(p, us, f)
    BY <1>3, <2>0, <2>1 DEF Unmount
  <2>4. x \in called <=> caller[k][x] # Nobody
    BY <2>1
  <2> HIDE DEF called, m
  <2>5. wire'[<<q, x>>] = IF q = p /\ x \in us /\ HasSocket(p)
                            THEN Append(wire[<<q, x>>], f) ELSE wire[<<q, x>>]
    BY <2>2, SentWire
  <2>6. QED
    BY <2>0, <2>1, <2>4, <2>5 DEF m
<1>4. QED
  BY <1>2, <1>3

\* Which step it was, for tables and wires.
Idle == /\ UNCHANGED <<caller, far, wire>>
        /\ \A k \in Joins : mgr[k] \in Spoken => mgr'[k] = mgr[k]

Unmounted(p) == /\ Unmount(p) /\ view' = [view EXCEPT ![p] = "hub"]
                /\ UNCHANGED <<roster, state, page, saw, raced>>

LEMMA MeshCases ==
  ASSUME Settled, [MeshNext]_allVars
  PROVE  \/ Idle
         \/ \E k \in Joins : JoinRoomMesh(k)
         \/ \E p \in Processes \ Joins : PeerLeft(p)
         \/ \E p \in Conns : Unmounted(p)
         \/ \E p \in Conns, u \in Users : \E f \in Frames : Takes(p, u, f)
<1>0. MeshTypeOK /\ DOMAIN mgr = Joins
  BY DEF Settled, MeshTypeOK
<1>1. CASE UNCHANGED meshVars
  BY <1>1 DEF Idle, meshVars
<1>2. ASSUME NEW j \in Joins, EnterRoom(j) PROVE Idle
  <2>1. mgr[j] = "none"
    BY <1>2 DEF Settled, Sockets, RosterInv, EnterRoom, Enter, ManagersWereJoined
  <2>2. QED
    BY <1>0, <1>2, <2>1 DEF EnterRoom, Idle, Spoken
<1>3. ASSUME NEW j, PeerJoined(j) \/ InitFails(j) \/ RemovePeer(j) PROVE Idle
  BY <1>0, <1>3 DEF PeerJoined, InitFails, RemovePeer, Idle, Spoken
<1>4. ASSUME NEW c \in Conns, LeavePageOffline(c) \/ \E l \in Leaves : LeavePage(l, c)
      PROVE \E p \in Conns : Unmounted(p)
  <2>1. page[c] \in Conns
    BY DEF Settled, Sockets, RosterInv, TypeOK
  <2>2. Unmounted(c) \/ Unmounted(page[c])
    BY <1>4 DEF LeavePageOffline, LeavePage, Leave, LeaveOffline, Unmounted, processVars, history
  <2>3. QED
    BY <2>1, <2>2
<1>5. ASSUME NEW p \in Conns, NEW u \in Users, OnSignal(p, u)
      PROVE \E f \in Frames : Takes(p, u, f)
  BY <1>0, <1>5, SignalTakes
<1>6. QED
  BY <1>1, <1>2, <1>3, <1>4, <1>5 DEF MeshNext, allVars

----------------------------------------------------------------------------
\* What a step puts on a wire: offers of a manager whose init is through, answers to an
\* offer that is taken, and the hangup of a manager that goes.
NewFrame(q, x, f) ==
  \/ /\ f = Frame("webrtc_offer", f.by, f.by) /\ JoinRoomMesh(f.by)
     /\ PageOf(f.by) = q /\ x \in Given(f.by)
  \/ \E p \in Conns, u \in Users : \E g \in Frames :
       /\ Takes(p, u, g) /\ g.type = "webrtc_offer" /\ x = Owner[p]
       /\ f = Frame("webrtc_answer", g.call, f.by) /\ f.by \in Hearing(u) /\ PageOf(f.by) = q
  \/ /\ f = Frame("call_hangup", f.by, f.by)
     /\ Unmount(q) /\ f.by \in MountedOn(q) /\ caller[f.by][x] # Nobody

LEMMA JoinedWire ==
  ASSUME NEW k, JoinRoomMesh(k), NEW q \in Conns, NEW x \in Users
  PROVE  wire'[<<q, x>>] = IF q = PageOf(k) /\ x \in Given(k) /\ HasSocket(PageOf(k))
                             THEN Append(wire[<<q, x>>], Frame("webrtc_offer", k, k))
                             ELSE wire[<<q, x>>]
<1>1. wire' = Sent(PageOf(k), Given(k), Frame("webrtc_offer", k, k))
  BY DEF JoinRoomMesh
<1>2. PICK p, us, f : p = PageOf(k) /\ us = Given(k) /\ f = Frame("webrtc_offer", k, k)
  OBVIOUS
<1>3. wire' = Sent(p, us, f)
  BY <1>1, <1>2
<1>4. QED
  BY <1>2, <1>3, SentWire

LEMMA WirePasses ==
  ASSUME Settled, [MeshNext]_allVars, NEW q \in Conns, NEW x \in Users
  PROVE  \E c \in {0, 1}, A \in SUBSET Frames :
           /\ Passed(wire'[<<q, x>>], wire[<<q, x>>], c, A)
           /\ \A f \in A : NewFrame(q, x, f)
           /\ c = 1 => \E f \in Frames : Takes(q, x, f)
<1> DEFINE Goal == \E c \in {0, 1}, A \in SUBSET Frames :
                     /\ Passed(wire'[<<q, x>>], wire[<<q, x>>], c, A)
                     /\ \A f \in A : NewFrame(q, x, f)
                     /\ c = 1 => \E f \in Frames : Takes(q, x, f)
<1>1. PICK s \in Seq(Frames) : s = wire[<<q, x>>]
  BY WireOK DEF Settled
<1>2. ASSUME wire'[<<q, x>>] = s PROVE Goal
  BY <1>1, <1>2, PassedSame
<1>3. ASSUME NEW f \in Frames, wire'[<<q, x>>] = Append(s, f), NewFrame(q, x, f) PROVE Goal
  <2>1. Passed(Append(s, f), s, 0, {f})
    BY PassedAppend
  <2>2. QED
    BY <1>1, <1>3, <2>1
<1>4. ASSUME Idle PROVE wire'[<<q, x>>] = s
  BY <1>1, <1>4 DEF Idle
<1>5. ASSUME NEW p \in Processes \ Joins, PeerLeft(p) PROVE wire'[<<q, x>>] = s
  BY <1>1, <1>5 DEF PeerLeft
<1>6. ASSUME NEW k \in Joins, JoinRoomMesh(k) PROVE Goal
  <2>1. PICK f : f = Frame("webrtc_offer", k, k)
    OBVIOUS
  <2>2. f \in Frames /\ f.by = k /\ f = Frame("webrtc_offer", f.by, f.by)
    BY <2>1 DEF Frame, Frames
  <2>3. wire'[<<q, x>>] = IF q = PageOf(k) /\ x \in Given(k) /\ HasSocket(PageOf(k))
                             THEN Append(s, f) ELSE s
    BY <1>1, <1>6, <2>1, JoinedWire
  <2>4. CASE q = PageOf(k) /\ x \in Given(k) /\ HasSocket(PageOf(k))
    <3>1. NewFrame(q, x, f)
      BY <1>6, <2>2, <2>4 DEF NewFrame
    <3> HIDE DEF Goal
    <3>2. Goal
      BY <1>3, <2>2, <2>3, <2>4, <3>1
    <3>3. QED
      BY <3>2 DEF Goal
  <2>5. CASE ~(q = PageOf(k) /\ x \in Given(k) /\ HasSocket(PageOf(k)))
    BY <1>2, <2>3, <2>5
  <2>6. QED
    BY <2>4, <2>5
<1>7. ASSUME NEW p \in Conns, Unmounted(p) PROVE Goal
  <2>0. Unmount(p)
    BY <1>7 DEF Unmounted
  <2>1. CASE wire'[<<q, x>>] = s
    BY <1>2, <2>1
  <2>2. CASE wire'[<<q, x>>] # s
    <3>1. PICK k \in MountedOn(p) :
              /\ q = p /\ caller[k][x] # Nobody
              /\ wire'[<<q, x>>] = Append(s, Frame("call_hangup", k, k))
      BY <1>1, <2>0, <2>2, UnmountedWire
    <3>2. PICK f : f = Frame("call_hangup", k, k)
      OBVIOUS
    <3>3. k \in Joins
      BY DEF MountedOn
    <3>4. f \in Frames /\ f.by = k /\ f = Frame("call_hangup", f.by, f.by)
      BY <3>2, <3>3 DEF Frame, Frames
    <3>5. NewFrame(q, x, f)
      BY <2>0, <3>1, <3>4 DEF NewFrame
    <3> HIDE DEF Goal
    <3>6. Goal
      BY <1>3, <3>1, <3>2, <3>4, <3>5
    <3>7. QED
      BY <3>6 DEF Goal
  <2>3. QED
    BY <2>1, <2>2
<1>8. ASSUME NEW p \in Conns, NEW u \in Users, NEW g \in Frames, Takes(p, u, g) PROVE Goal
  <2>1. PICK c, A : /\ c = IF q = p /\ x = u THEN 1 ELSE 0
                    /\ A = IF g.type = "webrtc_offer" /\ x = Owner[p] THEN Answers(u, g, q) ELSE {}
    OBVIOUS
  <2>2. Passed(wire'[<<q, x>>], s, c, A)
    BY <1>1, <1>8, <2>1, TakenWire
  <2>3. ASSUME NEW f \in A PROVE f \in Frames /\ NewFrame(q, x, f)
    <3>1. /\ g.type = "webrtc_offer" /\ x = Owner[p] /\ g.call \in Joins
          /\ A = Answers(u, g, q)
      BY <2>1, <2>3 DEF Frames
    <3>2. PICK k \in Joins : /\ k \in Hearing(u) /\ PageOf(k) = q
                             /\ f = Frame("webrtc_answer", g.call, k)
      BY <2>3, <3>1 DEF Answers, Hearing
    <3>3. f.by = k /\ f \in Frames
      BY <3>1, <3>2 DEF Frame, Frames
    <3>4. QED
      BY <1>8, <3>1, <3>2, <3>3 DEF NewFrame
  <2>4. c \in {0, 1} /\ A \in SUBSET Frames /\ (c = 1 => Takes(q, x, g))
    BY <1>8, <2>1, <2>3
  <2>5. QED
    BY <1>1, <2>2, <2>3, <2>4
<1> HIDE DEF Goal
<1>9. Goal
  BY <1>2, <1>4, <1>5, <1>6, <1>7, <1>8, MeshCases
<1>10. QED
  BY <1>9 DEF Goal

\* Where a frame of a wire was before the step.
LEMMA FrameWas ==
  ASSUME NEW t, NEW s \in Seq(Frames), NEW c \in {0, 1}, NEW A, Passed(t, s, c, A),
         NEW n \in DOMAIN t, t \in Seq(Frames)
  PROVE  \/ n + c \in DOMAIN s /\ n + c <= Len(s) /\ t[n] = s[n + c]
         \/ n + c > Len(s) /\ t[n] \in A
<1>1. PICK l \in Nat : l = Len(s) /\ DOMAIN s = 1 .. l
  OBVIOUS
<1>2. n \in Nat \ {0}
  OBVIOUS
<1>3. IF n + c <= l THEN t[n] = s[n + c] ELSE t[n] \in A
  BY <1>1 DEF Passed
<1>4. QED
  BY <1>1, <1>2, <1>3

LEMMA FrameKept ==
  ASSUME Settled, [MeshNext]_allVars, NEW q \in Conns, NEW x \in Users, NEW f \in Frames,
         FrameOK(q, x, f)
  PROVE  FrameOK(q, x, f)'
<1>1. f.by \in Joins /\ f.call \in Joins
  BY DEF Frames
<1>2. mgr[f.by] # "none"
  BY DEF FrameOK, Spoken
<1>3. PageOf(f.by)' = PageOf(f.by) /\ Given(f.by)' = Given(f.by)
  BY <1>1, <1>2, ManagerKept
<1>4. /\ mgr[f.by] \in Spoken => mgr'[f.by] \in Spoken
      /\ mgr[f.call] \in Spoken => mgr'[f.call] \in Spoken
      /\ mgr[f.by] = "gone" => mgr'[f.by] = "gone"
  BY <1>1, ManagersGoForward
<1>5. QED
  BY <1>3, <1>4 DEF FrameOK

LEMMA NewFrameOK ==
  ASSUME Settled, FramesOK, TablesOK, [MeshNext]_allVars, NEW q \in Conns, NEW x \in Users,
         NEW f \in Frames, NewFrame(q, x, f)
  PROVE  FrameOK(q, x, f)'
<1>0. f.by \in Joins /\ f.call \in Joins /\ MeshTypeOK
  BY DEF Frames, Settled
<1>1. CASE /\ f = Frame("webrtc_offer", f.by, f.by) /\ JoinRoomMesh(f.by)
           /\ PageOf(f.by) = q /\ x \in Given(f.by)
  <2>1. mgr[f.by] \in {"init", "cut"} /\ mgr'[f.by] \in {"ready", "undead"}
    BY <1>0, <1>1 DEF JoinRoomMesh, MeshTypeOK
  <2>2. PageOf(f.by)' = PageOf(f.by) /\ Given(f.by)' = Given(f.by)
    BY <1>0, <2>1, ManagerKept
  <2>3. f.call = f.by /\ f.type = "webrtc_offer"
    BY <1>1 DEF Frame
  <2>4. QED
    BY <1>1, <2>1, <2>2, <2>3 DEF FrameOK, Spoken
<1>2. ASSUME NEW p \in Conns, NEW u \in Users, NEW g \in Frames,
             /\ Takes(p, u, g) /\ g.type = "webrtc_offer" /\ x = Owner[p]
             /\ f = Frame("webrtc_answer", g.call, f.by) /\ f.by \in Hearing(u) /\ PageOf(f.by) = q
      PROVE FrameOK(q, x, f)'
  <2>1. g = wire[<<p, u>>][1] /\ wire[<<p, u>>] # <<>>
    BY <1>2 DEF Takes
  <2>2. PICK s \in Seq(Frames) : s = wire[<<p, u>>]
    BY <1>0, WireOK
  <2>3. 1 \in DOMAIN wire[<<p, u>>]
    BY <2>1, <2>2
  <2>4. FrameOK(p, u, g)
    BY <2>1, <2>3 DEF FramesOK, FramesOn
  <2>5. mgr[g.call] \in Spoken /\ f.call = g.call /\ f.type = "webrtc_answer"
    BY <1>2, <2>4 DEF FrameOK, Frame
  <2>6. mgr[f.by] \in Spoken
    BY <1>2 DEF Hearing, Listening, Spoken
  <2>7. mgr' = mgr /\ PageOf(f.by)' = PageOf(f.by)
    BY <1>2, TakenIsQuiet
  <2>8. QED
    BY <1>2, <2>5, <2>6, <2>7 DEF FrameOK
<1>3. CASE /\ f = Frame("call_hangup", f.by, f.by)
           /\ Unmount(q) /\ f.by \in MountedOn(q) /\ caller[f.by][x] # Nobody
  <2>1. mgr[f.by] \in Spoken /\ PageOf(f.by) = q /\ mgr[f.by] # "init"
    BY <1>0, <1>3 DEF TablesOK, TableOK, MountedOn, Spoken
  <2>2. mgr'[f.by] = "gone"
    BY <1>0, <1>3, <2>1 DEF Unmount
  <2>3. PageOf(f.by)' = PageOf(f.by)
    BY <1>0, <2>1, ManagerKept DEF Spoken
  <2>4. f.call = f.by /\ f.type = "call_hangup"
    BY <1>3 DEF Frame
  <2>5. QED
    BY <2>1, <2>2, <2>3, <2>4 DEF FrameOK, Spoken
<1>4. QED
  BY <1>1, <1>2, <1>3 DEF NewFrame

LEMMA FramesStep ==
  ASSUME Settled, Settled', FramesOK, TablesOK, [MeshNext]_allVars
  PROVE  FramesOK'
<1> SUFFICES ASSUME NEW q \in Conns, NEW x \in Users PROVE FramesOn(q, x)'
  BY DEF FramesOK
<1> SUFFICES ASSUME NEW t, t = wire'[<<q, x>>], NEW n \in DOMAIN t
             PROVE  FrameOK(q, x, t[n])'
  BY DEF FramesOn
<1>1. MeshTypeOK /\ MeshTypeOK'
  BY DEF Settled
<1>2. PICK s \in Seq(Frames) : s = wire[<<q, x>>]
  BY <1>1, WireOK
<1>3. <<q, x>> \in Conns \X Users
  OBVIOUS
<1>4. t \in Seq(Frames)
  BY <1>1, <1>3 DEF MeshTypeOK
<1>5. PICK c \in {0, 1}, A \in SUBSET Frames : Passed(t, s, c, A) /\ \A f \in A : NewFrame(q, x, f)
  BY <1>2, WirePasses
<1>6. PICK f \in Frames : f = t[n]
  BY <1>4
<1>7. CASE n + c \in DOMAIN s /\ t[n] = s[n + c]
  <2>1. FrameOK(q, x, f)
    BY <1>2, <1>6, <1>7 DEF FramesOK, FramesOn
  <2>2. FrameOK(q, x, f)'
    BY <2>1, FrameKept
  <2>3. QED
    BY <1>6, <2>2
<1>8. CASE t[n] \in A
  <2>1. FrameOK(q, x, f)'
    BY <1>5, <1>6, <1>8, NewFrameOK
  <2>2. QED
    BY <1>6, <2>1
<1>9. QED
  BY <1>4, <1>5, <1>7, <1>8, FrameWas

LEMMA HangupsStep ==
  ASSUME Settled, Settled', FramesOK, FramesOK', HangupsFirst, [MeshNext]_allVars
  PROVE  HangupsFirst'
<1> SUFFICES ASSUME NEW q \in Conns, NEW x \in Users, NEW t, t = wire'[<<q, x>>],
                    NEW a \in DOMAIN t, NEW b \in DOMAIN t,
                    mgr'[t[a].by] \in Mounted, t[b].type = "call_hangup"
             PROVE  b < a
  BY DEF HangupsFirst
<1>1. MeshTypeOK /\ MeshTypeOK'
  BY DEF Settled
<1>2. PICK s \in Seq(Frames) : s = wire[<<q, x>>]
  BY <1>1, WireOK
<1>3. <<q, x>> \in Conns \X Users
  OBVIOUS
<1>4. t \in Seq(Frames)
  BY <1>1, <1>3 DEF MeshTypeOK
<1>5. PICK c \in {0, 1}, A \in SUBSET Frames : Passed(t, s, c, A) /\ \A f \in A : NewFrame(q, x, f)
  BY <1>2, WirePasses
<1>6. PICK m \in Joins : m = t[a].by
  <2>1. t[a] \in Frames
    BY <1>4
  <2>2. QED
    BY <2>1 DEF Frames
<1>7. PageOf(m)' = q /\ mgr'[m] \in Mounted
  <2>1. FrameOK(q, x, t[a])'
    BY DEF FramesOK, FramesOn
  <2>2. QED
    BY <1>6, <2>1 DEF FrameOK
<1>8. ASSUME t[b] \in A PROVE FALSE
  <2>1. NewFrame(q, x, t[b])
    BY <1>5, <1>8
  <2>2. Unmount(q)
    <3>1. \A type, call, by : Frame(type, call, by).type = type
      BY DEF Frame
    <3>2. QED
      BY <2>1, <3>1 DEF NewFrame
  <2>3. mgr[m] \in Mounted /\ m \notin MountedOn(q)
    <3>1. mgr'[m] = IF m \notin MountedOn(q) THEN mgr[m]
                    ELSE IF mgr[m] = "init" THEN "cut" ELSE "gone"
      BY <2>2 DEF Unmount
    <3>2. QED
      BY <1>7, <3>1 DEF Mounted
  <2>4. PageOf(m)' = PageOf(m)
    BY <2>3, ManagerKept DEF Mounted
  <2>5. QED
    BY <1>7, <2>3, <2>4 DEF MountedOn
<1>9. b + c \in DOMAIN s /\ b + c <= Len(s) /\ t[b] = s[b + c]
  BY <1>4, <1>5, <1>8, FrameWas
<1>10. CASE a + c > Len(s)
  <2>1. PICK l \in Nat : l = Len(s) /\ DOMAIN s = 1 .. l
    OBVIOUS
  <2>2. a \in Nat /\ b \in Nat
    BY <1>4
  <2>3. QED
    BY <1>9, <1>10, <2>1, <2>2
<1>11. CASE a + c \in DOMAIN s /\ t[a] = s[a + c]
  <2>1. mgr[m] \in Spoken
    BY <1>2, <1>6, <1>11 DEF FramesOK, FramesOn, FrameOK
  <2>2. mgr[m] \in Mounted
    BY <1>7, <2>1, ManagersGoForward DEF Spoken
  <2>3. b + c < a + c
    BY <1>2, <1>6, <1>9, <1>11, <2>2 DEF HangupsFirst
  <2>4. a \in Nat /\ b \in Nat
    BY <1>4
  <2>5. QED
    BY <2>3, <2>4
<1>12. QED
  BY <1>4, <1>5, <1>10, <1>11, FrameWas

----------------------------------------------------------------------------
\* The tables after a step.

LEMMA JoinedTables ==
  ASSUME MeshTypeOK, NEW i \in Joins, JoinRoomMesh(i), NEW k \in Joins, NEW x \in Users
  PROVE  /\ caller'[k][x] = IF k = i /\ x \in Given(i) THEN i ELSE caller[k][x]
         /\ far'[k][x] = far[k][x]
         /\ k # i => mgr'[k] = mgr[k]
<1>1. /\ caller' = [caller EXCEPT ![i] = [u \in Users |-> IF u \in Given(i) THEN i ELSE @[u]]]
      /\ far' = far /\ mgr' = [mgr EXCEPT ![i] = IF @ = "init" THEN "ready" ELSE "undead"]
  BY DEF JoinRoomMesh
<1>2. /\ caller \in [Joins -> [Users -> Joins \cup {Nobody}]]
      /\ mgr \in [Joins -> Mounted \cup Listening \cup {"none", "cut", "gone"}]
  BY DEF MeshTypeOK
<1>3. PICK G : G = Given(i)
  OBVIOUS
<1>4. caller'[k] = IF k = i THEN [u \in Users |-> IF u \in G THEN i ELSE caller[i][u]] ELSE caller[k]
  BY <1>1, <1>2, <1>3
<1>5. QED
  BY <1>1, <1>2, <1>3, <1>4

Told == UNION {Hearing(v) : v \in Present}

LEMMA LeftTables ==
  ASSUME MeshTypeOK, NEW q, PeerLeft(q), NEW k \in Joins, NEW x \in Users
  PROVE  /\ caller'[k][x] = IF k \in Told /\ x = UserOf(q) THEN Nobody ELSE caller[k][x]
         /\ far'[k][x] = IF k \in Told /\ x = UserOf(q) THEN Nobody ELSE far[k][x]
         /\ mgr' = mgr /\ wire' = wire /\ missed' = missed
<1>1. /\ caller' = Close(caller, Told, UserOf(q)) /\ far' = Close(far, Told, UserOf(q))
      /\ mgr' = mgr /\ wire' = wire /\ missed' = missed
  BY DEF PeerLeft, Told
<1>2. /\ caller \in [Joins -> [Users -> Joins \cup {Nobody}]]
      /\ far \in [Joins -> [Users -> Joins \cup {Nobody}]]
  BY DEF MeshTypeOK
<1>3. PICK M, w : M = Told /\ w = UserOf(q)
  OBVIOUS
<1>4. /\ caller'[k] = IF k \in M THEN [caller[k] EXCEPT ![w] = Nobody] ELSE caller[k]
      /\ far'[k] = IF k \in M THEN [far[k] EXCEPT ![w] = Nobody] ELSE far[k]
  BY <1>1, <1>3 DEF Close
<1>5. QED
  BY <1>1, <1>2, <1>3, <1>4

LEMMA TakenFrame ==
  ASSUME Settled, FramesOK, NEW p \in Conns, NEW u \in Users, NEW f \in Frames, Takes(p, u, f)
  PROVE  /\ FrameOK(p, u, f) /\ UserOf(f.by) = Owner[p] /\ PageOf(f.by) = p
         /\ f.by \in Joins /\ f.call \in Joins /\ mgr[f.by] # "none"
         /\ f.type \in {"webrtc_offer", "webrtc_answer", "call_hangup"}
         /\ 1 \in DOMAIN wire[<<p, u>>] /\ f = wire[<<p, u>>][1]
<1>1. f = wire[<<p, u>>][1] /\ wire[<<p, u>>] # <<>>
  BY DEF Takes
<1>2. PICK s \in Seq(Frames) : s = wire[<<p, u>>]
  BY WireOK DEF Settled
<1>3. 1 \in DOMAIN wire[<<p, u>>]
  BY <1>1, <1>2
<1>4. FrameOK(p, u, f)
  BY <1>1, <1>3 DEF FramesOK, FramesOn
<1>5. /\ f.by \in Joins /\ f.call \in Joins
      /\ f.type \in {"webrtc_offer", "webrtc_answer", "call_hangup"}
  BY DEF Frames
<1>6. mgr[f.by] # "none" /\ PageOf(f.by) = p
  BY <1>4 DEF FrameOK, Spoken
<1>7. UserOf(f.by) = Owner[p]
  BY <1>5, <1>6, ManagerFacts
<1>8. QED
  BY <1>1, <1>3, <1>4, <1>5, <1>6, <1>7

\* A connection that the step leaves alone.
LEMMA TableKept ==
  ASSUME Settled, [MeshNext]_allVars, NEW k \in Joins, NEW u \in Users, TableOK(k, u),
         caller'[k][u] = caller[k][u], far'[k][u] = far[k][u]
  PROVE  TableOK(k, u)'
<1>1. mgr'[k] \notin Spoken => mgr[k] \notin Spoken
  BY ManagersGoForward
<1>2. far[k][u] \in Joins \cup {Nobody}
  BY DEF Settled, MeshTypeOK
<1>3. ASSUME NEW n, n = far[k][u], n # Nobody PROVE mgr'[n] \in Spoken /\ UserOf(n)' = u
  <2>1. n \in Joins /\ mgr[n] \in Spoken /\ UserOf(n) = u
    BY <1>2, <1>3 DEF TableOK
  <2>2. QED
    BY <2>1, ManagersGoForward, ManagerKept DEF Spoken
<1>4. PICK n : n = far[k][u] /\ n = far'[k][u]
  OBVIOUS
<1>5. n # Nobody => mgr'[n] \in Spoken /\ UserOf(n)' = u
  BY <1>3, <1>4
<1>6. far'[k][u] # Nobody => mgr'[far'[k][u]] \in Spoken /\ UserOf(far[k][u])' = u
  BY <1>4, <1>5 DEF UserOf
<1>7. QED
  BY <1>1, <1>6 DEF TableOK

LEMMA TablesStep ==
  ASSUME Settled, FramesOK, TablesOK, [MeshNext]_allVars
  PROVE  TablesOK'
<1> SUFFICES ASSUME NEW k \in Joins, NEW x \in Users PROVE TableOK(k, x)'
  BY DEF TablesOK
<1>0. MeshTypeOK /\ TableOK(k, x)
  BY DEF Settled, TablesOK
<1>1. ASSUME caller'[k][x] = caller[k][x], far'[k][x] = far[k][x] PROVE TableOK(k, x)'
  BY <1>0, <1>1, TableKept
<1>2. ASSUME caller'[k][x] = Nobody, far'[k][x] = Nobody PROVE TableOK(k, x)'
  BY <1>2 DEF TableOK
<1>3. ASSUME Idle PROVE TableOK(k, x)'
  BY <1>1, <1>3 DEF Idle
<1>4. ASSUME NEW i \in Joins, JoinRoomMesh(i) PROVE TableOK(k, x)'
  <2>1. CASE k = i /\ x \in Given(i)
    <3>1. mgr[k] \in {"init", "cut"} /\ mgr'[k] \in Spoken
      BY <1>0, <1>4, <2>1 DEF JoinRoomMesh, MeshTypeOK, Spoken
    <3>2. caller'[k][x] = k /\ far'[k][x] = far[k][x]
      BY <1>0, <1>4, <2>1, JoinedTables
    <3>3. far[k][x] = Nobody
      BY <1>0, <3>1 DEF TableOK, Spoken
    <3>4. QED
      BY <3>1, <3>2, <3>3 DEF TableOK
  <2>2. CASE ~(k = i /\ x \in Given(i))
    BY <1>0, <1>1, <1>4, <2>2, JoinedTables
  <2>3. QED
    BY <2>1, <2>2
<1>5. ASSUME NEW q \in Processes \ Joins, PeerLeft(q) PROVE TableOK(k, x)'
  BY <1>0, <1>1, <1>2, <1>5, LeftTables
<1>6. ASSUME NEW p \in Conns, Unmounted(p) PROVE TableOK(k, x)'
  BY <1>1, <1>2, <1>6, UnmountedTables DEF Unmounted
<1>7. ASSUME NEW p \in Conns, NEW u \in Users, NEW f \in Frames, Takes(p, u, f)
      PROVE TableOK(k, x)'
  <2>1. CASE ~(k \in Hearing(u) /\ x = Owner[p])
    BY <1>1, <1>7, <2>1, TakenTables
  <2>2. CASE k \in Hearing(u) /\ x = Owner[p]
    <3>1. /\ FrameOK(p, u, f) /\ UserOf(f.by) = x /\ f.by \in Joins
          /\ f.type \in {"webrtc_offer", "webrtc_answer", "call_hangup"}
      BY <1>7, <2>2, TakenFrame
    <3>2. mgr' = mgr /\ UserOf(f.by)' = x /\ mgr'[f.by] \in Spoken /\ f.by # Nobody
      BY <1>7, <3>1, TakenIsQuiet, Absent DEF FrameOK
    <3>3. mgr'[k] \in Spoken
      BY <2>2, <3>2 DEF Hearing, Listening, Spoken
    <3>4. CASE far'[k][x] = f.by
      <4>1. UserOf(far[k][x])' = x
        BY <3>2, <3>4 DEF UserOf
      <4>2. QED
        BY <3>2, <3>3, <3>4, <4>1 DEF TableOK
    <3>5. CASE far'[k][x] # f.by
      BY <1>1, <1>2, <1>7, <2>2, <3>1, <3>5, TakenTables
    <3>6. QED
      BY <3>4, <3>5
  <2>3. QED
    BY <2>1, <2>2
<1>8. QED
  BY <1>3, <1>4, <1>5, <1>6, <1>7, MeshCases

----------------------------------------------------------------------------
\* Users of one page and one socket.

LEMMA SteadyManager ==
  ASSUME Settled, NEW k \in Joins, mgr[k] # "none", Steady(UserOf(k))
  PROVE  /\ HasSocket(PageOf(k)) /\ state[PageOf(k)] = "up" /\ conn[k] = PageOf(k)
         /\ \A m \in Joins : (mgr[m] # "none" /\ UserOf(m) = UserOf(k)) => PageOf(m) = PageOf(k)
<1>1. PICK c \in Conns : \A d \in Conns : Owner[d] = UserOf(k) => state[d] = IF d = c THEN "up" ELSE "new"
  BY DEF Steady
<1>2. ASSUME NEW m \in Joins, mgr[m] # "none", UserOf(m) = UserOf(k)
      PROVE conn[m] = c /\ PageOf(m) = c /\ state[c] = "up" /\ page[c] = c
  <2>1. /\ conn[m] \in Conns /\ state[conn[m]] # "new" /\ PageOf(m) \in Conns
        /\ Owner[PageOf(m)] = UserOf(m)
    BY <1>2, ManagerFacts
  <2>2. Owner[conn[m]] = UserOf(m)
    BY <2>1 DEF PageOf, Settled, Sockets, PagesAreOwn
  <2>3. conn[m] = c /\ state[c] = "up"
    BY <1>1, <1>2, <2>1, <2>2
  <2>4. page[c] = c
    BY <1>1, <1>2, <2>2, <2>3 DEF Settled, Sockets, PagesAreOwn
  <2>5. QED
    BY <2>3, <2>4 DEF PageOf
<1>3. conn[k] = c /\ PageOf(k) = c /\ state[c] = "up" /\ page[c] = c
  BY <1>2
<1>4. QED
  BY <1>2, <1>3 DEF HasSocket

LEMMA SteadyWas ==
  ASSUME Settled, [MeshNext]_allVars, NEW k \in Joins, mgr[k] # "none", Steady(UserOf(k))'
  PROVE  Steady(UserOf(k))
<1>1. [Next]_vars /\ TypeOK
  BY MeshStepMaps DEF Settled, Sockets, RosterInv
<1>2. PICK u : u = UserOf(k) /\ u = UserOf(k)'
  BY ManagerKept
<1>3. PICK c \in Conns : \A d \in Conns : Owner[d] = u => state'[d] = IF d = c THEN "up" ELSE "new"
  BY <1>2 DEF Steady
<1>4. conn[k] \in Conns /\ state[conn[k]] # "new" /\ Owner[PageOf(k)] = UserOf(k)
  BY ManagerFacts
<1>5. Owner[conn[k]] = u
  BY <1>2, <1>4 DEF PageOf, Settled, Sockets, PagesAreOwn
<1>6. state'[conn[k]] # "new"
  BY <1>1, <1>4, StatesGoForward
<1>7. conn[k] = c /\ state'[c] = "up"
  BY <1>3, <1>4, <1>5, <1>6
<1>8. state[c] = "up"
  BY <1>1, <1>4, <1>7, StatesGoForward DEF TypeOK
<1>9. \A d \in Conns : Owner[d] = u => state[d] = IF d = c THEN "up" ELSE "new"
  BY <1>1, <1>3, <1>8, StatesGoForward
<1>10. QED
  BY <1>2, <1>9 DEF Steady

\* Two managers between whom nothing has come were so before.
LEMMA QuietWas ==
  ASSUME Settled, [MeshNext]_allVars, NEW k \in Joins, NEW n \in Joins,
         mgr[k] # "none", mgr[n] # "none", Quiet(k, n)'
  PROVE  Quiet(k, n)
<1>1. TypeOK
  BY DEF Settled, Sockets, RosterInv
<1>2. Steady(UserOf(k)) /\ Steady(UserOf(n))
  BY SteadyWas DEF Quiet
<1>3. UserOf(k)' = UserOf(k) /\ UserOf(n)' = UserOf(n)
  BY ManagerKept
<1>4. missed \subseteq missed' /\ stale \subseteq stale'
  BY <1>1, MissesStay, TroubleStays
<1>5. QED
  BY <1>2, <1>3, <1>4 DEF Quiet

\* Only a join puts a name on the roster or shows a call, only a leave takes one off.
LEMMA RosterMoves ==
  ASSUME Settled, [MeshNext]_allVars
  PROVE  \/ /\ roster' = roster
            /\ \A p \in Conns : view'[p] = "call" => view[p] = "call"
         \/ \E j \in Joins : EnterRoom(j)
         \/ \E q \in Processes \ Joins : RemovePeer(q)
<1> DEFINE Goal == /\ roster' = roster
                   /\ \A p \in Conns : view'[p] = "call" => view[p] = "call"
<1>0. TypeOK
  BY DEF Settled, Sockets, RosterInv
<1>1. CASE Unseen
  BY <1>1 DEF Unseen, Open, Drop, Reopen, Join, NotFound, ReadRoster, Fail, Crash
<1>2. ASSUME NEW j, PeerJoined(j) \/ JoinRoomMesh(j) \/ InitFails(j) \/ PeerLeft(j) PROVE Goal
  BY <1>2 DEF PeerJoined, JoinRoomMesh, InitFails, PeerLeft, TellJoined, TellLeft, vars
<1>3. ASSUME NEW c \in Conns, LeavePageOffline(c) \/ \E l \in Leaves : LeavePage(l, c) PROVE Goal
  BY <1>0, <1>3 DEF LeavePageOffline, LeavePage, LeaveOffline, Leave, TypeOK
<1>4. ASSUME NEW p \in Conns, NEW u \in Users, OnSignal(p, u) PROVE Goal
  <2>1. PICK f : Relayed(p, u, f)
    BY <1>4 DEF OnSignal, AcceptCall, ReceiveAnswer, ReceiveHangup
  <2>2. QED
    BY <2>1 DEF Relayed, vars
<1>5. CASE UNCHANGED allVars
  BY <1>5 DEF allVars, vars
<1>6. QED
  BY <1>1, <1>2, <1>3, <1>4, <1>5 DEF MeshNext

LEMMA SteadyPresentStep ==
  ASSUME Settled, SteadyPresent, [MeshNext]_allVars
  PROVE  SteadyPresent'
<1> SUFFICES ASSUME NEW p \in Conns, view'[p] = "call", Steady(Owner[p])', Owner[p] \notin stale'
             PROVE  Owner[p] \in Present'
  BY DEF SteadyPresent
<1> DEFINE u == Owner[p]
<1>1. TypeOK /\ RosterInv /\ stale \subseteq stale' /\ u \in Users
  BY TroubleStays, OwnerOfConns DEF Settled, Sockets, RosterInv
<1>2. ASSUME view[p] = "call" PROVE u \in Present /\ Steady(u)
  <2>1. PICK k \in Joins : mgr[k] \in Mounted /\ PageOf(k) = p
    BY <1>2 DEF Settled, OneManager, MountedOn
  <2>2. UserOf(k) = u /\ mgr[k] # "none"
    BY <2>1, ManagerFacts DEF Mounted
  <2>3. UserOf(k)' = u
    BY <2>2, ManagerKept
  <2>4. Steady(UserOf(k))'
    BY <2>3 DEF Steady
  <2>5. Steady(u)
    BY <2>2, <2>4, SteadyWas
  <2>6. QED
    BY <1>1, <1>2, <2>5 DEF SteadyPresent
<1>3. CASE roster' = roster /\ \A q \in Conns : view'[q] = "call" => view[q] = "call"
  BY <1>2, <1>3 DEF Present
<1>4. ASSUME NEW j \in Joins, EnterRoom(j) PROVE u \in Present'
  <2>1. /\ Enter(j) /\ pc[j] = "put" /\ conn[j] \in Conns
    BY <1>1, <1>4 DEF EnterRoom, Enter, RosterInv, CallsHaveSockets
  <2>2. UserOf(j) \in Users /\ Owner[PageOf(j)] = UserOf(j)
    BY <2>1, ProcessesDiffer, OwnerOfConns DEF PageOf, UserOf, Settled, Sockets, PagesAreOwn
  <2>3. Present' = Present \cup {UserOf(j)}
    BY <1>1, <2>1, <2>2, Absent DEF Enter, Present, TypeOK
  <2>4. CASE view[p] = "call"
    BY <1>2, <2>3, <2>4
  <2>5. CASE view[p] # "call"
    <3>1. PageOf(j) = p
      BY <1>1, <2>1, <2>5 DEF Enter, PageOf, TypeOK
    <3>2. QED
      BY <2>2, <2>3, <3>1
  <2>6. QED
    BY <2>4, <2>5
<1>5. ASSUME NEW q \in Processes \ Joins, RemovePeer(q) PROVE u \in Present'
  <2>1. Remove(q) /\ pc[q] = "del" /\ view' = view /\ view[p] = "call"
    BY <1>5 DEF RemovePeer, Remove
  <2>2. Present' = Present \ {UserOf(q)}
    BY <1>1, <2>1 DEF Remove, Present, TypeOK
  <2>3. UserOf(q) # u
    <3> SUFFICES ASSUME UserOf(q) = u PROVE FALSE
      OBVIOUS
    <3>1. q \notin Conns /\ conn[q] = p
      BY <1>1, <1>2, <2>1, SteadyCalls
    <3>2. q \in Leaves /\ PageOf(q) = p
      BY <1>2, <2>1, <3>1, SteadyPage DEF Processes, PageOf
    <3>3. UserOf(q) \in stale'
      BY <1>5, <2>1, <3>2 DEF RemovePeer
    <3>4. QED
      BY <3>3
  <2>4. QED
    BY <1>2, <2>1, <2>2, <2>3
<1>6. QED
  BY <1>3, <1>4, <1>5, RosterMoves

----------------------------------------------------------------------------
\* What joins have read.

LEMMA SawMoves ==
  ASSUME TypeOK, [Next]_vars, NEW k \in Joins
  PROVE  saw'[k] = saw[k] \/ ReadRoster(k)
<1> USE DEF TypeOK, processVars
<1>1. ASSUME NEW c \in Conns,
             \/ Open(c) \/ Drop(c) \/ LeaveOffline(c) \/ (\E d \in Conns : Reopen(c, d))
             \/ (\E i \in Joins : Join(i, c)) \/ (\E l \in Leaves : Leave(l, c))
      PROVE saw' = saw
  BY <1>1 DEF Open, Drop, LeaveOffline, Reopen, Join, Leave
<1>2. ASSUME NEW q \in Processes,
             NotFound(q) \/ Enter(q) \/ TellJoined(q) \/ Remove(q) \/ TellLeft(q) \/ Fail(q)
      PROVE saw' = saw
  BY <1>2 DEF NotFound, Enter, TellJoined, Remove, TellLeft, Fail
<1>3. ASSUME NEW i \in Joins, ReadRoster(i) PROVE saw'[k] = saw[k] \/ i = k
  BY <1>3 DEF ReadRoster
<1>4. ASSUME NEW dead \in SUBSET Conns, Crash(dead) PROVE saw' = saw
  BY <1>4 DEF Crash
<1>5. QED
  BY <1>1, <1>2, <1>3, <1>4 DEF Next, Continue, vars, Processes

LEMMA OneSeenStep ==
  ASSUME Settled, OneSeen, [MeshNext]_allVars
  PROVE  OneSeen'
<1> SUFFICES ASSUME NEW k \in Joins, NEW i \in saw'[k], NEW j \in saw'[k], UserOf(i)' = UserOf(j)'
             PROVE  i = j
  BY DEF OneSeen
<1>1. RosterInv /\ TypeOK /\ [Next]_vars
  BY MeshStepMaps DEF Settled, Sockets, RosterInv
<1>2. CASE saw'[k] = saw[k]
  <2>1. /\ i \in Joins /\ j \in Joins /\ pc[i] # "new" /\ pc[j] # "new"
        /\ i \in saw[k] /\ j \in saw[k]
    BY <1>1, <1>2 DEF RosterInv, TypeOK, SeenWereEntered
  <2>2. UserOf(i)' = UserOf(i) /\ UserOf(j)' = UserOf(j)
    BY <1>1, <2>1, UserKept DEF Processes
  <2>3. QED
    BY <2>1, <2>2 DEF OneSeen
<1>3. CASE ReadRoster(k)
  <2>1. saw'[k] = {roster[u] : u \in Present} /\ conn' = conn
    BY <1>1, <1>3 DEF ReadRoster, TypeOK
  <2>2. PICK u \in Present, v \in Present : i = roster[u] /\ j = roster[v]
    BY <2>1
  <2>3. /\ i \in Joins /\ j \in Joins /\ u \in Users /\ v \in Users
        /\ Owner[conn[i]] = u /\ Owner[conn[j]] = v
    BY <1>1, <2>2 DEF RosterInv, TypeOK, EntriesWereEntered, Present
  <2>4. UserOf(i)' = u /\ UserOf(j)' = v
    BY <2>1, <2>3, ProcessesDiffer DEF UserOf
  <2>5. QED
    BY <2>2, <2>4
<1>4. QED
  BY <1>1, <1>2, <1>3, SawMoves

\* A manager that was read is not about to mount.
LEMMA ReadIsPast ==
  ASSUME Settled, NEW k \in Joins, NEW n \in Joins, k \in saw[n]
  PROVE  pc[k] \in {"tell", "done"} /\ ~EnterRoom(k)
<1>1. pc[k] \in {"tell", "done"}
  BY DEF Settled, Sockets, RosterInv, SeenWereEntered
<1>2. QED
  BY <1>1 DEF EnterRoom, Enter

LEMMA InOrderStep ==
  ASSUME Settled, Settled', InOrder, [MeshNext]_allVars
  PROVE  InOrder'
<1> SUFFICES ASSUME NEW n \in Joins, NEW k \in Joins, NEW m \in Joins,
                    k \in saw'[n], n \in saw'[m], mgr'[m] # "none", PageOf(m)' = PageOf(k)',
                    mgr'[k] \in Mounted
             PROVE  FALSE
  BY DEF InOrder
<1>1. TypeOK /\ [Next]_vars
  BY MeshStepMaps DEF Settled, Sockets, RosterInv
<1>2. pc'[n] \in {"tell", "done"} /\ pc'[m] \in {"tell", "done"}
  BY DEF Settled, Sockets, RosterInv, SeenWereEntered, ManagersWereJoined
<1>3. ~ReadRoster(n) /\ ~ReadRoster(m)
  BY <1>1, <1>2 DEF ReadRoster, TypeOK, Processes
<1>4. k \in saw[n] /\ n \in saw[m]
  BY <1>1, <1>3, SawMoves
<1>5. mgr[k] \in Mounted
  BY <1>4, ReadIsPast, ManagersGoForward
<1>6. PageOf(k)' = PageOf(k)
  BY <1>5, ManagerKept DEF Mounted
<1>7. CASE mgr[m] # "none"
  <2>1. PageOf(m)' = PageOf(m)
    BY <1>7, ManagerKept
  <2>2. QED
    BY <1>4, <1>5, <1>6, <1>7, <2>1 DEF InOrder
<1>8. CASE mgr[m] = "none"
  <2>1. EnterRoom(m) /\ PageOf(m) \in Conns /\ view[PageOf(m)] = "hub"
    <3>1. \A p : m \in MountedOn(p) => mgr[m] \in Mounted
      BY DEF MountedOn
    <3>2. QED
      BY <1>8, <3>1, ManagersMove DEF Mounted
  <2>2. PageOf(m)' = PageOf(m)
    BY <2>1 DEF EnterRoom, Enter, PageOf
  <2>3. k \in MountedOn(PageOf(m))
    BY <1>5, <1>6, <2>2 DEF MountedOn
  <2>4. QED
    BY <2>1, <2>3 DEF Settled, OneManager
<1>9. QED
  BY <1>7, <1>8

LEMMA LinesStep ==
  ASSUME Settled, Lines, [MeshNext]_allVars
  PROVE  Lines'
<1>1. Settled'
  BY SettledStep
<1>2. FramesOK'
  BY <1>1, FramesStep DEF Lines
<1>3. TablesOK'
  BY TablesStep DEF Lines
<1>4. HangupsFirst'
  BY <1>1, <1>2, HangupsStep DEF Lines
<1>5. OneSeen' /\ InOrder' /\ SteadyPresent'
  BY <1>1, OneSeenStep, InOrderStep, SteadyPresentStep DEF Lines
<1>6. QED
  BY <1>2, <1>3, <1>4, <1>5 DEF Lines

LEMMA LinesInit == MeshInit => Lines
<1> SUFFICES ASSUME MeshInit PROVE Lines
  OBVIOUS
<1>1. FramesOK /\ HangupsFirst
  <2>1. \A p \in Conns, u \in Users : wire[<<p, u>>] = <<>>
    BY DEF MeshInit
  <2>2. QED
    BY <2>1 DEF FramesOK, FramesOn, HangupsFirst
<1>2. TablesOK
  BY DEF MeshInit, TablesOK, TableOK
<1>3. OneSeen /\ InOrder /\ SteadyPresent
  BY DEF MeshInit, Init, OneSeen, InOrder, SteadyPresent
<1>4. QED
  BY <1>1, <1>2, <1>3 DEF Lines

----------------------------------------------------------------------------
\* Pairs of the roster, step by step.

LEMMA PairFacts ==
  ASSUME Settled, NEW u \in Users, NEW v \in Users, u # v,
         NEW i \in Joins, NEW j \in Joins, roster[u] = i, roster[v] = j
  PROVE  /\ UserOf(i) = u /\ UserOf(j) = v
         /\ mgr[i] # "none" => Owner[PageOf(i)] = u /\ PageOf(i) \in Conns
         /\ mgr[j] # "none" => Owner[PageOf(j)] = v /\ PageOf(j) \in Conns
<1>1. UserOf(i) = u /\ UserOf(j) = v
  BY Absent, ProcessesDiffer DEF Settled, Sockets, RosterInv, EntriesWereEntered, UserOf
<1>2. QED
  BY <1>1, ManagerFacts

LEMMA PairWas ==
  ASSUME Settled, [MeshNext]_allVars, NEW u \in Users, NEW v \in Users, u # v,
         NEW i \in Joins, NEW j \in Joins, roster'[u] = i, roster'[v] = j, Pair(i, j)'
  PROVE  /\ roster[u] = i /\ roster[v] = j /\ UserOf(i) = u /\ UserOf(j) = v
         /\ UserOf(i)' = u /\ UserOf(j)' = v
         /\ PageOf(i)' = PageOf(i) /\ PageOf(j)' = PageOf(j)
         /\ PageOf(i) \in Conns /\ PageOf(j) \in Conns /\ PageOf(i) # PageOf(j)
         /\ Owner[PageOf(i)] = u /\ Owner[PageOf(j)] = v
         /\ j \in saw[i] /\ Clean(i, j) /\ mgr[j] \in {"init", "ready"}
         /\ mgr[i] = "ready" \/ (JoinRoomMesh(i) /\ mgr[i] = "init")
<1>1. j \in saw'[i] /\ mgr'[i] = "ready" /\ mgr'[j] \in {"init", "ready"} /\ Clean(i, j)'
  BY DEF Pair
<1>2. mgr[i] = "ready" \/ (JoinRoomMesh(i) /\ mgr[i] = "init")
  BY <1>1, ManagersGoForward
<1>3. /\ PageOf(i)' = PageOf(i) /\ UserOf(i)' = UserOf(i) /\ j \in saw[i]
      /\ pc[i] \in {"tell", "done"}
  BY <1>1, <1>2, ManagerKept, ManagerFacts
<1>4. pc[j] \in {"tell", "done"} /\ ~EnterRoom(j)
  BY <1>3, ReadIsPast
<1>5. mgr[j] \in {"init", "ready"}
  BY <1>1, <1>4, ManagersGoForward
<1>6. /\ PageOf(j)' = PageOf(j) /\ UserOf(j)' = UserOf(j)
  BY <1>5, ManagerKept
<1>7. Clean(i, j)
  BY <1>1, <1>2, <1>5, CleanWas
<1>8. roster[u] = i /\ roster[v] = j
  <2>1. TypeOK
    BY DEF Settled, Sockets, RosterInv
  <2>2. ASSUME NEW k \in Joins, EnterRoom(k) PROVE roster[u] = i /\ roster[v] = j
    <3>1. pc[k] = "put" /\ roster' = [roster EXCEPT ![UserOf(k)] = k]
      BY <2>2 DEF EnterRoom, Enter
    <3>2. k # i /\ k # j
      BY <1>3, <1>4, <3>1
    <3>3. QED
      BY <2>1, <3>1, <3>2 DEF TypeOK
  <2>3. ASSUME NEW q, RemovePeer(q) PROVE roster[u] = i /\ roster[v] = j
    <3>1. roster' = [roster EXCEPT ![UserOf(q)] = Nobody]
      BY <2>3 DEF RemovePeer, Remove
    <3>2. QED
      BY <2>1, <3>1, Absent DEF TypeOK
  <2>4. QED
    BY <2>2, <2>3, RosterMoves
<1>9. /\ UserOf(i) = u /\ UserOf(j) = v
      /\ PageOf(i) \in Conns /\ PageOf(j) \in Conns
      /\ Owner[PageOf(i)] = u /\ Owner[PageOf(j)] = v
  BY <1>2, <1>5, <1>8, PairFacts
<1>10. QED
  BY <1>2, <1>3, <1>5, <1>6, <1>7, <1>8, <1>9

LEMMA PassedNone ==
  ASSUME NEW S, NEW s \in Seq(S), NEW t \in Seq(S), Passed(t, s, 0, {})
  PROVE  t = s
<1>1. PICK l \in Nat : l = Len(s) /\ DOMAIN s = 1 .. l
  OBVIOUS
<1>2. Len(t) = l /\ DOMAIN t = 1 .. l
  BY <1>1 DEF Passed
<1>3. \A n \in 1 .. l : t[n] = s[n]
  BY <1>1, <1>2 DEF Passed
<1>4. QED
  BY <1>1, <1>2, <1>3

\* The managers of two users that nothing has come between are the only ones that speak
\* for their pages.
LEMMA NoOther ==
  ASSUME Settled, NEW i \in Joins, mgr[i] \in Mounted, ~Another(UserOf(i), PageOf(i)),
         NEW k \in Joins, mgr[k] # "none", UserOf(k) = UserOf(i)
  PROVE  /\ PageOf(k) = PageOf(i) /\ mgr[k] # "undead"
         /\ mgr[k] \in Mounted => k = i
<1>1. PageOf(k) = PageOf(i) /\ mgr[k] # "undead"
  BY DEF Another
<1>2. ASSUME mgr[k] \in Mounted PROVE k = i
  <2>1. PageOf(i) \in Conns
    BY ManagerFacts DEF Mounted
  <2>2. k \in MountedOn(PageOf(i)) /\ i \in MountedOn(PageOf(i))
    BY <1>1, <1>2 DEF MountedOn
  <2>3. QED
    BY <2>1, <2>2 DEF Settled, OneManager
<1>3. QED
  BY <1>1, <1>2

\* What PairWas says.
Between(i, j, u, v) ==
  /\ i \in Joins /\ j \in Joins /\ u \in Users /\ v \in Users /\ u # v
  /\ roster[u] = i /\ roster[v] = j /\ UserOf(i) = u /\ UserOf(j) = v
  /\ PageOf(i) \in Conns /\ PageOf(j) \in Conns /\ PageOf(i) # PageOf(j)
  /\ Owner[PageOf(i)] = u /\ Owner[PageOf(j)] = v
  /\ j \in saw[i] /\ Clean(i, j) /\ mgr[j] \in {"init", "ready"}

\* The same wires and tables, the same phase.
LEMMA LinkAlike ==
  ASSUME NEW i, NEW j, NEW u, NEW v, PageOf(i)' = PageOf(i), PageOf(j)' = PageOf(j),
         NEW s, s = wire'[<<PageOf(i), v>>], NEW t, t = wire'[<<PageOf(j), u>>],
         NEW a, a = [call |-> caller'[i][v], far |-> far'[i][v]],
         NEW b, b = [call |-> caller'[j][u], far |-> far'[j][u]], Phase(i, j, s, t, a, b)
  PROVE  LinkOK(i, j, u, v)'
<1>1. wire'[<<PageOf(i)', v>>] = s /\ wire'[<<PageOf(j)', u>>] = t
  OBVIOUS
<1>2. Connection(i, v)' = a /\ Connection(j, u)' = b
  BY DEF Connection
<1>3. QED
  BY <1>1, <1>2 DEF LinkOK

LEMMA LinkKept ==
  ASSUME NEW i, NEW j, NEW u, NEW v, PageOf(i)' = PageOf(i), PageOf(j)' = PageOf(j),
         LinkOK(i, j, u, v),
         wire'[<<PageOf(i), v>>] = wire[<<PageOf(i), v>>],
         wire'[<<PageOf(j), u>>] = wire[<<PageOf(j), u>>],
         caller'[i][v] = caller[i][v], far'[i][v] = far[i][v],
         caller'[j][u] = caller[j][u], far'[j][u] = far[j][u]
  PROVE  LinkOK(i, j, u, v)'
<1>1. PICK s, t, a, b : /\ s = wire[<<PageOf(i), v>>] /\ t = wire[<<PageOf(j), u>>]
                        /\ a = Connection(i, v) /\ b = Connection(j, u)
  OBVIOUS
<1>2. Phase(i, j, s, t, a, b)
  BY <1>1 DEF LinkOK
<1>3. /\ s = wire'[<<PageOf(i), v>>] /\ t = wire'[<<PageOf(j), u>>]
      /\ a = [call |-> caller'[i][v], far |-> far'[i][v]]
      /\ b = [call |-> caller'[j][u], far |-> far'[j][u]]
  BY <1>1 DEF Connection
<1>4. QED
  BY <1>2, <1>3, LinkAlike

\* The init of i is through: it offers.
LEMMA LinkOffered ==
  ASSUME Settled, Lines, [MeshNext]_allVars, NEW i, NEW j, NEW u, NEW v, Between(i, j, u, v),
         Clean(i, j)', JoinRoomMesh(i), mgr[i] = "init"
  PROVE  LinkOK(i, j, u, v)'
<1> USE DEF Between
<1>1. PICK p, q : p = PageOf(i) /\ q = PageOf(j)
  OBVIOUS
<1>2. p \in Conns /\ q \in Conns /\ p # q /\ MeshTypeOK /\ FramesOK /\ TablesOK
  BY <1>1 DEF Settled, Lines
<1>3. PageOf(i)' = p /\ PageOf(j)' = q
  BY <1>1, ManagerKept
<1>4. PICK s \in Seq(Frames) : s = wire[<<p, v>>]
  BY <1>2, WireOK
<1>5. PICK t \in Seq(Frames) : t = wire[<<q, u>>]
  BY <1>2, WireOK
<1>6. PICK o : o = Frame("webrtc_offer", i, i)
  OBVIOUS
<1>7. o \in Frames /\ o.by = i
  BY <1>6 DEF Frame, Frames
<1>8. HasSocket(p)
  <2>1. <<i, j>> \notin missed'
    BY DEF Clean
  <2>2. missed' = IF HasSocket(p) THEN missed ELSE missed \cup ({i} \X Joins)
    BY <1>1 DEF JoinRoomMesh
  <2>3. QED
    BY <2>1, <2>2
<1>9. v \in Given(i)
  BY DEF Given
<1>10. wire'[<<p, v>>] = Append(s, o) /\ wire'[<<q, u>>] = t
  <2>1. wire'[<<p, v>>] = IF p = PageOf(i) /\ v \in Given(i) /\ HasSocket(PageOf(i))
                            THEN Append(wire[<<p, v>>], Frame("webrtc_offer", i, i))
                            ELSE wire[<<p, v>>]
    BY <1>2, JoinedWire
  <2>2. wire'[<<q, u>>] = wire[<<q, u>>]
    BY <1>1, <1>2, JoinedWire
  <2>3. HasSocket(PageOf(i))
    BY <1>1, <1>8
  <2>4. QED
    BY <1>1, <1>4, <1>5, <1>6, <1>9, <2>1, <2>2, <2>3
<1>11. caller'[i][v] = i /\ far'[i][v] = Nobody
  <2>1. caller'[i][v] = i /\ far'[i][v] = far[i][v]
    BY <1>2, <1>9, JoinedTables
  <2>2. far[i][v] = Nobody
    BY <1>2 DEF TablesOK, TableOK, Spoken
  <2>3. QED
    BY <2>1, <2>2
<1>12. \A n \in DOMAIN s : s[n] # o
  <2>1. ASSUME NEW n \in DOMAIN s, s[n] = o PROVE FALSE
    <3>1. mgr[o.by] \in Spoken
      BY <1>2, <1>4, <2>1 DEF FramesOK, FramesOn, FrameOK
    <3>2. QED
      BY <1>7, <3>1 DEF Spoken
  <2>2. QED
    BY <2>1
<1>13. \A n \in DOMAIN t : t[n].call # i
  <2>1. ASSUME NEW n \in DOMAIN t PROVE mgr[t[n].call] \in Spoken
    BY <1>2, <1>5 DEF FramesOK, FramesOn, FrameOK
  <2>2. QED
    BY <2>1 DEF Spoken
<1>14. PICK z : z = Append(s, o)
  OBVIOUS
<1>15. /\ z # <<>> /\ z[Len(z)] = o /\ \A n \in DOMAIN z : z[n] = o => n = Len(z)
  <2>1. PICK l \in Nat : l = Len(s) /\ DOMAIN s = 1 .. l
    OBVIOUS
  <2>2. /\ DOMAIN z = 1 .. l + 1 /\ Len(z) = l + 1 /\ z[l + 1] = o
        /\ \A n \in 1 .. l : z[n] = s[n]
    BY <1>7, <1>14, <2>1
  <2>3. QED
    BY <1>12, <2>1, <2>2
<1>16. PICK a, b : /\ a = [call |-> caller'[i][v], far |-> far'[i][v]]
                   /\ b = [call |-> caller'[j][u], far |-> far'[j][u]]
  OBVIOUS
<1>17. a.call = i /\ a.far = Nobody
  BY <1>11, <1>16
<1>18. Phase(i, j, z, t, a, b)
  BY <1>6, <1>13, <1>15, <1>17 DEF Phase, Offering
<1>19. QED
  BY <1>1, <1>3, <1>10, <1>14, <1>16, <1>18, LinkAlike

\* The init of another manager is through.
LEMMA LinkJoins ==
  ASSUME Settled, Lines, [MeshNext]_allVars, NEW i, NEW j, NEW u, NEW v, Between(i, j, u, v),
         Clean(i, j)', UserOf(i)' = UserOf(i), UserOf(j)' = UserOf(j),
         LinkOK(i, j, u, v), mgr[i] = "ready", NEW k \in Joins, JoinRoomMesh(k)
  PROVE  LinkOK(i, j, u, v)'
<1> USE DEF Between
<1>1. PICK p, q : p = PageOf(i) /\ q = PageOf(j)
  OBVIOUS
<1>2. p \in Conns /\ q \in Conns /\ p # q /\ MeshTypeOK /\ FramesOK /\ TablesOK
  BY <1>1 DEF Settled, Lines
<1>3. PageOf(i)' = p /\ PageOf(j)' = q
  BY <1>1, ManagerKept
<1>5. mgr[k] \in {"init", "cut"} /\ k # i
  BY DEF JoinRoomMesh
<1>6. PageOf(k)' = PageOf(k) /\ UserOf(k)' = UserOf(k) /\ mgr'[k] # "none"
  BY <1>5, ManagerKept, ManagersGoForward
<1>7. ~Another(u, p)' /\ ~Another(v, q)'
  BY <1>1, <1>3 DEF Clean, Another
<1>8. ASSUME NEW x, NEW h \in Joins, mgr[h] \in Mounted, UserOf(h) = x, PageOf(h) = PageOf(k),
             PageOf(h) \in Conns, ~Another(x, PageOf(h))'
      PROVE k = h
  <2>1. UserOf(k) = x
    BY <1>5, <1>8, ManagerFacts DEF Mounted
  <2>2. mgr[k] # "cut"
    <3>1. mgr[k] = "cut" => mgr'[k] = "undead"
      BY <1>2 DEF JoinRoomMesh, MeshTypeOK
    <3>2. QED
      BY <1>6, <1>8, <2>1, <3>1 DEF Another
  <2>3. k \in MountedOn(PageOf(h)) /\ h \in MountedOn(PageOf(h))
    BY <1>5, <1>8, <2>2 DEF MountedOn, Mounted
  <2>4. QED
    BY <1>8, <2>3 DEF Settled, OneManager
<1>9. PageOf(k) # p
  <2>1. ASSUME PageOf(k) = p PROVE FALSE
    <3>1. ~Another(u, PageOf(i))'
      BY <1>1, <1>3, <1>7 DEF Another
    <3>2. QED
      BY <1>1, <1>2, <1>5, <1>8, <2>1, <3>1 DEF Mounted
  <2>2. QED
    BY <2>1
<1>10. wire'[<<p, v>>] = wire[<<p, v>>] /\ caller'[i][v] = caller[i][v] /\ far'[i][v] = far[i][v]
  BY <1>2, <1>5, <1>9, JoinedWire, JoinedTables
<1>11. CASE k # j
  <2>1. PageOf(k) # q
    <3>1. ~Another(v, PageOf(j))'
      BY <1>1, <1>3, <1>7 DEF Another
    <3>2. QED
      BY <1>1, <1>2, <1>8, <1>11, <3>1 DEF Mounted
  <2>2. wire'[<<q, u>>] = wire[<<q, u>>]
    BY <1>2, <2>1, JoinedWire
  <2>3. caller'[j][u] = caller[j][u] /\ far'[j][u] = far[j][u]
    BY <1>2, <1>11, JoinedTables
  <2>4. QED
    BY <1>1, <1>3, <1>10, <2>2, <2>3, LinkKept
<1>12. CASE k = j
  <2>1. caller[j][u] = Nobody
    BY <1>2, <1>5, <1>12 DEF TablesOK, TableOK, Spoken
  <2>2. PICK s \in Seq(Frames) : s = wire[<<p, v>>]
    BY <1>2, WireOK
  <2>3. PICK t \in Seq(Frames) : t = wire[<<q, u>>]
    BY <1>2, WireOK
  <2>4. PICK a, b, c : /\ a = Connection(i, v) /\ b = Connection(j, u)
                       /\ c = [call |-> caller'[j][u], far |-> far'[j][u]]
    OBVIOUS
  <2>5. Phase(i, j, s, t, a, b) /\ b.call = Nobody
    BY <1>1, <2>1, <2>2, <2>3, <2>4 DEF LinkOK, Connection
  <2>6. Offering(i, s, t, a)
    BY <2>5, Absent DEF Phase, Answering, Connected
  <2>7. PICK g : g = Frame("webrtc_offer", k, k)
    OBVIOUS
  <2>8. g \in Frames /\ g.type # "webrtc_answer"
    BY <2>7 DEF Frame, Frames
  <2>9. PICK z : z = wire'[<<q, u>>]
    OBVIOUS
  <2>10. z = t \/ z = Append(t, g)
    <3>1. wire'[<<q, u>>] = IF q = PageOf(k) /\ u \in Given(k) /\ HasSocket(PageOf(k))
                              THEN Append(wire[<<q, u>>], Frame("webrtc_offer", k, k))
                              ELSE wire[<<q, u>>]
      BY <1>2, JoinedWire
    <3>2. QED
      BY <2>3, <2>7, <2>9, <3>1
  <2>11. \A n \in DOMAIN z : z[n].type = "webrtc_answer" => z[n].call # i
    <3>1. \A n \in DOMAIN t : t[n].type = "webrtc_answer" => t[n].call # i
      BY <2>6 DEF Offering
    <3>2. PICK l \in Nat : l = Len(t) /\ DOMAIN t = 1 .. l
      OBVIOUS
    <3>3. CASE z = Append(t, g)
      <4>1. DOMAIN z = 1 .. l + 1 /\ z[l + 1] = g /\ \A n \in 1 .. l : z[n] = t[n]
        BY <2>8, <3>2, <3>3
      <4>2. QED
        BY <2>8, <3>1, <3>2, <4>1
    <3>4. QED
      BY <2>10, <3>1, <3>3
  <2>12. Phase(i, j, s, z, a, c)
    BY <2>6, <2>11 DEF Phase, Offering
  <2>13. s = wire'[<<p, v>>] /\ a = [call |-> caller'[i][v], far |-> far'[i][v]]
    BY <1>10, <2>2, <2>4 DEF Connection
  <2>14. QED
    BY <1>1, <1>3, <2>4, <2>9, <2>12, <2>13, LinkAlike
<1>13. QED
  BY <1>11, <1>12

\* A frame is taken that concerns neither.
LEMMA LinkAside ==
  ASSUME Settled, Lines, [MeshNext]_allVars, NEW i, NEW j, NEW u, NEW v, Between(i, j, u, v),
         LinkOK(i, j, u, v), NEW q \in Conns, NEW x \in Users, NEW f \in Frames, Takes(q, x, f),
         ~(Owner[q] = u /\ x = v), ~(Owner[q] = v /\ x = u)
  PROVE  LinkOK(i, j, u, v)'
<1> USE DEF Between
<1>1. MeshTypeOK /\ PageOf(i)' = PageOf(i) /\ PageOf(j)' = PageOf(j)
  BY TakenIsQuiet DEF Settled
<1>2. ASSUME NEW p \in Conns, NEW y \in Users, ~(p = q /\ y = x),
             \A k \in Hearing(x) : ~(PageOf(k) = p /\ y = Owner[q])
      PROVE wire'[<<p, y>>] = wire[<<p, y>>]
  <2>1. PICK c, A : /\ c = IF p = q /\ y = x THEN 1 ELSE 0
                    /\ A = IF f.type = "webrtc_offer" /\ y = Owner[q] THEN Answers(x, f, p) ELSE {}
    OBVIOUS
  <2>2. Passed(wire'[<<p, y>>], wire[<<p, y>>], c, A)
    BY <2>1, TakenWire
  <2>3. c = 0 /\ A = {}
    BY <1>2, <2>1 DEF Answers
  <2>4. wire[<<p, y>>] \in Seq(Frames)
    BY <1>1, WireOK
  <2>5. wire'[<<p, y>>] \in Seq(Frames)
    <3>1. MeshTypeOK' /\ <<p, y>> \in Conns \X Users
      BY SettledStep DEF Settled
    <3>2. QED
      BY <3>1 DEF MeshTypeOK
  <2>6. QED
    BY <2>2, <2>3, <2>4, <2>5, PassedNone
<1>3. ASSUME NEW k \in Hearing(x) PROVE UserOf(k) = x /\ Owner[PageOf(k)] = x
  <2>1. k \in Joins /\ mgr[k] # "none" /\ UserOf(k) = x
    BY <1>3 DEF Hearing, Listening
  <2>2. QED
    BY <2>1, ManagerFacts
<1>4. wire'[<<PageOf(i), v>>] = wire[<<PageOf(i), v>>]
  <2>1. PICK p \in Conns : p = PageOf(i)
    OBVIOUS
  <2>2. wire'[<<p, v>>] = wire[<<p, v>>]
    BY <1>2, <1>3, <2>1
  <2>3. QED
    BY <2>1, <2>2
<1>5. wire'[<<PageOf(j), u>>] = wire[<<PageOf(j), u>>]
  <2>1. PICK p \in Conns : p = PageOf(j)
    OBVIOUS
  <2>2. wire'[<<p, u>>] = wire[<<p, u>>]
    BY <1>2, <1>3, <2>1
  <2>3. QED
    BY <2>1, <2>2
<1>6. caller'[i][v] = caller[i][v] /\ far'[i][v] = far[i][v]
  BY <1>3, TakenTables
<1>7. caller'[j][u] = caller[j][u] /\ far'[j][u] = far[j][u]
  BY <1>3, TakenTables
<1>8. QED
  BY <1>1, <1>4, <1>5, <1>6, <1>7, LinkKept

\* A frame from the user of i to that of j is taken: the offer, or one ahead of it.
LEMMA LinkAccepts ==
  ASSUME Settled, Lines, [MeshNext]_allVars, NEW i, NEW j, NEW u, NEW v, Between(i, j, u, v),
         Clean(i, j)', LinkOK(i, j, u, v), mgr[i] = "ready",
         NEW q \in Conns, NEW f \in Frames, Takes(q, v, f), Owner[q] = u
  PROVE  LinkOK(i, j, u, v)'
<1> USE DEF Between
<1>1. /\ FrameOK(q, v, f) /\ UserOf(f.by) = u /\ PageOf(f.by) = q
      /\ f.by \in Joins /\ f.call \in Joins /\ mgr[f.by] # "none"
  <2>1. FramesOK /\ v \in Users
    BY DEF Lines
  <2>2. FrameOK(q, v, f) /\ f.by \in Joins /\ f.call \in Joins /\ mgr[f.by] # "none"
    BY <2>1, TakenFrame
  <2>3. PageOf(f.by) = q
    BY <2>2 DEF FrameOK
  <2>4. UserOf(f.by) = u
    BY <2>2, <2>3, ManagerFacts
  <2>5. QED
    BY <2>2, <2>3, <2>4
<1>2. q = PageOf(i)
  BY <1>1, NoOther DEF Clean, Mounted
<1>3. PICK p \in Conns : p = PageOf(j) /\ p # q
  BY <1>2
<1>4. PageOf(i)' = q /\ PageOf(j)' = p /\ mgr' = mgr /\ MeshTypeOK
  BY <1>2, <1>3, TakenIsQuiet DEF Settled
<1>5. PICK s \in Seq(Frames) : s = wire[<<q, v>>]
  BY <1>4, WireOK
<1>6. PICK t \in Seq(Frames) : t = wire[<<p, u>>]
  BY <1>4, WireOK
<1>7. PICK z, y : z = wire'[<<q, v>>] /\ y = wire'[<<p, u>>]
  OBVIOUS
<1>8. z \in Seq(Frames) /\ y \in Seq(Frames)
  <2>1. MeshTypeOK' /\ <<q, v>> \in Conns \X Users /\ <<p, u>> \in Conns \X Users
    BY SettledStep DEF Settled
  <2>2. QED
    BY <1>7, <2>1 DEF MeshTypeOK
<1>9. Passed(z, s, 1, {})
  <2>1. Passed(wire'[<<q, v>>], wire[<<q, v>>], IF q = q /\ v = v THEN 1 ELSE 0,
               IF f.type = "webrtc_offer" /\ v = Owner[q] THEN Answers(v, f, q) ELSE {})
    BY TakenWire
  <2>2. QED
    BY <1>5, <1>7, <2>1
<1>10. PICK A : A = IF f.type = "webrtc_offer" THEN Answers(v, f, p) ELSE {}
  OBVIOUS
<1>11. Passed(y, t, 0, A)
  <2>1. Passed(wire'[<<p, u>>], wire[<<p, u>>], IF p = q /\ u = v THEN 1 ELSE 0,
               IF f.type = "webrtc_offer" /\ u = Owner[q] THEN Answers(v, f, p) ELSE {})
    BY TakenWire
  <2>2. QED
    BY <1>3, <1>6, <1>7, <1>10, <2>1
<1>12. caller'[i][v] = caller[i][v] /\ far'[i][v] = far[i][v]
  BY TakenTables
<1>13. PICK a, b, d : /\ a = Connection(i, v) /\ b = Connection(j, u)
                      /\ d = [call |-> caller'[j][u], far |-> far'[j][u]]
  OBVIOUS
<1>14. a = [call |-> caller'[i][v], far |-> far'[i][v]]
  BY <1>12, <1>13 DEF Connection
<1>15. s # <<>> /\ f = s[1]
  BY <1>5 DEF Takes
<1>16. Offering(i, s, t, a)
  <2>1. Phase(i, j, s, t, a, b)
    BY <1>2, <1>3, <1>5, <1>6, <1>13 DEF LinkOK
  <2>2. QED
    BY <1>15, <2>1 DEF Phase, Answering, Connected
<1>17. PICK o : o = Frame("webrtc_offer", i, i)
  OBVIOUS
<1>18. /\ o.type = "webrtc_offer" /\ o.call = i /\ o.by = i
       /\ s[Len(s)] = o /\ \A n \in DOMAIN s : s[n] = o => n = Len(s)
       /\ a.call = i /\ a.far = Nobody
       /\ \A n \in DOMAIN t : t[n].type = "webrtc_answer" => t[n].call # i
  BY <1>16, <1>17 DEF Offering, Frame
<1>19. PICK l \in Nat \ {0} : l = Len(s) /\ DOMAIN s = 1 .. l
  BY <1>15
<1>20. \A n \in DOMAIN y : \/ n \in DOMAIN t /\ y[n] = t[n]
                           \/ y[n] \in A
  <2>1. ASSUME NEW n \in DOMAIN y PROVE (n \in DOMAIN t /\ y[n] = t[n]) \/ y[n] \in A
    <3>1. \/ n + 0 \in DOMAIN t /\ y[n] = t[n + 0]
          \/ y[n] \in A
      BY <1>8, <1>11, FrameWas
    <3>2. n + 0 = n
      BY <1>8
    <3>3. QED
      BY <3>1, <3>2
  <2>2. QED
    BY <2>1
<1>21. CASE l > 1
  <2>1. Len(z) = l - 1 /\ DOMAIN z = 1 .. l - 1 /\ \A n \in 1 .. l - 1 : z[n] = s[n + 1]
    <3>1. Len(z) = l - 1
      BY <1>9, <1>19 DEF Passed
    <3>2. DOMAIN z = 1 .. l - 1
      BY <1>8, <3>1
    <3>3. QED
      BY <1>9, <1>19, <3>1, <3>2 DEF Passed
  <2>2. z # <<>> /\ z[Len(z)] = o /\ \A n \in DOMAIN z : z[n] = o => n = Len(z)
    <3>1. l - 1 \in 1 .. l - 1 /\ z[l - 1] = s[l]
      BY <1>21, <2>1
    <3>2. z # <<>>
      BY <1>21, <2>1
    <3>3. ASSUME NEW n \in 1 .. l - 1, z[n] = o PROVE n = l - 1
      <4>1. n + 1 \in DOMAIN s /\ s[n + 1] = o
        BY <1>19, <2>1, <3>3
      <4>2. n + 1 = l
        BY <1>18, <1>19, <4>1
      <4>3. QED
        BY <4>2
    <3>4. QED
      BY <1>18, <1>19, <2>1, <3>1, <3>2, <3>3
  <2>3. f # o
    BY <1>15, <1>18, <1>19, <1>21
  <2>4. f.type = "webrtc_offer" => f.call # i
    <3>1. f \in Frames
      OBVIOUS
    <3>2. f.type = "webrtc_offer" /\ f.call = i => f = o
      BY <1>1, <1>17 DEF FrameOK, Frame, Frames
    <3>3. QED
      BY <2>3, <3>2
  <2>5. \A n \in DOMAIN y : y[n].type = "webrtc_answer" => y[n].call # i
    <3>1. \A g \in A : g.call # i
      BY <1>10, <2>4 DEF Answers, Frame
    <3>2. QED
      BY <1>18, <1>20, <3>1
  <2>6. Phase(i, j, z, y, a, d)
    BY <1>17, <1>18, <2>2, <2>5 DEF Phase, Offering
  <2>7. QED
    BY <1>2, <1>3, <1>4, <1>7, <1>13, <1>14, <2>6, LinkAlike
<1>22. CASE l = 1
  <2>1. f = o
    BY <1>15, <1>18, <1>19, <1>22
  <2>2. j \in Hearing(v)
    <3>1. mgr[j] \in Mounted
      BY DEF Mounted
    <3>2. j \notin Hearing(v) => <<i, j>> \in missed'
      BY <1>18, <2>1, <3>1, TakenMissed
    <3>3. QED
      BY <3>2 DEF Clean
  <2>3. d.call = i /\ d.far = i
    BY <1>13, <1>18, <2>1, <2>2, TakenTables
  <2>4. z = <<>>
    <3>1. Len(z) = 0
      BY <1>9, <1>19, <1>22 DEF Passed
    <3>2. QED
      BY <1>8, <3>1
  <2>5. A = Answers(v, o, p)
    BY <1>10, <1>18, <2>1
  <2>6. \E n \in DOMAIN y : y[n] = Frame("webrtc_answer", i, j)
    <3>1. Frame("webrtc_answer", i, j) \in A
      BY <1>3, <1>18, <2>2, <2>5 DEF Answers
    <3>2. QED
      BY <1>11, <3>1 DEF Passed
  <2>7. \A g \in A : g.by = j
    <3>1. ASSUME NEW k \in Hearing(v), PageOf(k) = p PROVE k = j
      <4>1. k \in Joins /\ mgr[k] \in Listening /\ UserOf(k) = v
        BY <3>1 DEF Hearing
      <4>2. mgr[k] # "undead" /\ (mgr[k] \in Mounted => k = j)
        BY <4>1, NoOther DEF Clean, Listening, Mounted
      <4>3. QED
        BY <4>1, <4>2 DEF Listening, Mounted
    <3>2. QED
      BY <2>5, <3>1 DEF Answers, Frame
  <2>8. \A n \in DOMAIN y : y[n].type = "webrtc_answer" /\ y[n].call = i => y[n].by = j
    BY <1>18, <1>20, <2>7
  <2>9. Phase(i, j, z, y, a, d)
    BY <1>18, <2>3, <2>4, <2>6, <2>8 DEF Phase, Answering
  <2>10. QED
    BY <1>2, <1>3, <1>4, <1>7, <1>13, <1>14, <2>9, LinkAlike
<1>23. QED
  BY <1>19, <1>21, <1>22

\* A frame from the user of j to that of i is taken: the answer, or a frame that is not
\* meant for i, and that i does not hear.
LEMMA LinkHears ==
  ASSUME Settled, Lines, [MeshNext]_allVars, NEW i, NEW j, NEW u, NEW v, Between(i, j, u, v),
         Clean(i, j)', LinkOK(i, j, u, v), mgr[i] = "ready",
         NEW q \in Conns, NEW f \in Frames, Takes(q, u, f), Owner[q] = v
  PROVE  LinkOK(i, j, u, v)'
<1> USE DEF Between
<1>1. /\ FrameOK(q, u, f) /\ UserOf(f.by) = v /\ PageOf(f.by) = q
      /\ f.by \in Joins /\ f.call \in Joins /\ mgr[f.by] # "none"
      /\ f.type \in {"webrtc_offer", "webrtc_answer", "call_hangup"}
  <2>1. FramesOK /\ u \in Users
    BY DEF Lines
  <2>2. /\ FrameOK(q, u, f) /\ f.by \in Joins /\ f.call \in Joins /\ mgr[f.by] # "none"
        /\ f.type \in {"webrtc_offer", "webrtc_answer", "call_hangup"}
    BY <2>1, TakenFrame
  <2>3. PageOf(f.by) = q
    BY <2>2 DEF FrameOK
  <2>4. UserOf(f.by) = v
    BY <2>2, <2>3, ManagerFacts
  <2>5. QED
    BY <2>2, <2>3, <2>4
<1>2. q = PageOf(j)
  BY <1>1, NoOther DEF Clean, Mounted
<1>3. PICK p \in Conns : p = PageOf(i) /\ p # q
  BY <1>2
<1>4. PageOf(i)' = p /\ PageOf(j)' = q /\ mgr' = mgr /\ MeshTypeOK
  BY <1>2, <1>3, TakenIsQuiet DEF Settled
<1>5. PICK s \in Seq(Frames) : s = wire[<<p, v>>]
  BY <1>4, WireOK
<1>6. PICK t \in Seq(Frames) : t = wire[<<q, u>>]
  BY <1>4, WireOK
<1>7. PICK z, y : z = wire'[<<p, v>>] /\ y = wire'[<<q, u>>]
  OBVIOUS
<1>8. z \in Seq(Frames) /\ y \in Seq(Frames)
  <2>1. MeshTypeOK' /\ <<p, v>> \in Conns \X Users /\ <<q, u>> \in Conns \X Users
    BY SettledStep DEF Settled
  <2>2. QED
    BY <1>7, <2>1 DEF MeshTypeOK
<1>9. Passed(y, t, 1, {})
  <2>1. Passed(wire'[<<q, u>>], wire[<<q, u>>], IF q = q /\ u = u THEN 1 ELSE 0,
               IF f.type = "webrtc_offer" /\ u = Owner[q] THEN Answers(u, f, q) ELSE {})
    BY TakenWire
  <2>2. QED
    BY <1>6, <1>7, <2>1
<1>10. Passed(z, s, 0, IF f.type = "webrtc_offer" THEN Answers(u, f, p) ELSE {})
  <2>1. Passed(wire'[<<p, v>>], wire[<<p, v>>], IF p = q /\ v = u THEN 1 ELSE 0,
               IF f.type = "webrtc_offer" /\ v = Owner[q] THEN Answers(u, f, p) ELSE {})
    BY TakenWire
  <2>2. QED
    BY <1>3, <1>5, <1>7, <2>1
<1>11. caller'[j][u] = caller[j][u] /\ far'[j][u] = far[j][u]
  BY TakenTables
<1>12. PICK a, b, d : /\ a = Connection(i, v) /\ b = Connection(j, u)
                      /\ d = [call |-> caller'[i][v], far |-> far'[i][v]]
  OBVIOUS
<1>13. b = [call |-> caller'[j][u], far |-> far'[j][u]]
  BY <1>11, <1>12 DEF Connection
<1>14. PICK l \in Nat \ {0} : l = Len(t) /\ DOMAIN t = 1 .. l /\ f = t[1]
  BY <1>6 DEF Takes
<1>15. Len(y) = l - 1 /\ DOMAIN y = 1 .. l - 1 /\ \A n \in 1 .. l - 1 : y[n] = t[n + 1]
  <2>1. Len(y) = l - 1
    BY <1>9, <1>14 DEF Passed
  <2>2. DOMAIN y = 1 .. l - 1
    BY <1>8, <2>1
  <2>3. QED
    BY <1>9, <1>14, <2>1, <2>2 DEF Passed
<1>16. Phase(i, j, s, t, a, b)
  BY <1>2, <1>3, <1>5, <1>6, <1>12 DEF LinkOK
<1>17. \A k \in Hearing(u) : k = i
  <2>1. ASSUME NEW k \in Hearing(u) PROVE k = i
    <3>1. k \in Joins /\ mgr[k] \in Listening /\ UserOf(k) = u
      BY <2>1 DEF Hearing
    <3>2. mgr[k] # "undead" /\ (mgr[k] \in Mounted => k = i)
      BY <3>1, NoOther DEF Clean, Listening, Mounted
    <3>3. QED
      BY <3>1, <3>2 DEF Listening, Mounted
  <2>2. QED
    BY <2>1
<1>18. \A n \in DOMAIN y : \E m \in DOMAIN t : y[n] = t[m]
  BY <1>14, <1>15
<1>19. <<j, i>> \notin missed'
  BY DEF Clean
<1>20. ASSUME i \in Hearing(u) PROVE f.type = "webrtc_answer"
  <2>1. ~Stray(f, i)
    BY <1>1, <1>19, <1>20, TakenMissed
  <2>2. i \notin saw[f.by]
    <3>1. NoGlare
      BY DEF Settled, Sockets, RosterInv
    <3>2. CASE f.by = j
      BY <3>1, <3>2 DEF NoGlare
    <3>3. CASE i \in saw[f.by]
      <4>1. InOrder
        BY DEF Lines
      <4>2. mgr[j] \notin Mounted
        BY <1>1, <1>2, <3>3, <4>1 DEF InOrder
      <4>3. QED
        BY <4>2 DEF Mounted
    <3>4. QED
      BY <3>3
  <2>3. f.type # "webrtc_offer"
    BY <1>1, <2>1, <2>2 DEF FrameOK, Stray
  <2>4. f.type # "call_hangup"
    <3>1. ASSUME f.type = "call_hangup" PROVE FALSE
      <4>1. f.by \in saw[i]
        BY <2>1, <2>2, <3>1 DEF Stray
      <4>2. mgr[f.by] = "gone"
        BY <1>1, <3>1 DEF FrameOK
      <4>3. f.by = j
        BY <1>1, <4>1 DEF Lines, OneSeen
      <4>4. QED
        BY <4>2, <4>3
    <3>2. QED
      BY <3>1
  <2>5. QED
    BY <1>1, <2>3, <2>4
<1>21. z = s
  <2>1. IF f.type = "webrtc_offer" THEN Answers(u, f, p) = {} ELSE TRUE
    BY <1>17, <1>20 DEF Answers
  <2>2. Passed(z, s, 0, {})
    BY <1>10, <2>1
  <2>3. QED
    BY <1>8, <2>2, PassedNone
<1>22. CASE i \notin Hearing(u)
  <2>1. d = a
    <3>1. caller'[i][v] = caller[i][v] /\ far'[i][v] = far[i][v]
      BY <1>22, TakenTables
    <3>2. QED
      BY <1>12, <3>1 DEF Connection
  <2>2. f # Frame("webrtc_answer", i, j)
    <3>1. f.by # j
      <4>1. mgr[i] \in Mounted
        BY DEF Mounted
      <4>2. <<f.by, i>> \in missed'
        BY <1>22, <4>1, TakenMissed
      <4>3. QED
        BY <1>19, <4>2
    <3>2. QED
      BY <3>1 DEF Frame
  <2>3. ASSUME Offering(i, s, t, a) PROVE Phase(i, j, z, y, d, b)
    BY <1>18, <1>21, <2>1, <2>3 DEF Offering, Phase
  <2>4. ASSUME Answering(i, j, s, t, a, b) PROVE Phase(i, j, z, y, d, b)
    <3>1. PICK n \in DOMAIN t : t[n] = Frame("webrtc_answer", i, j)
      BY <2>4 DEF Answering
    <3>2. n # 1
      BY <1>14, <2>2, <3>1
    <3>3. n - 1 \in 1 .. l - 1 /\ y[n - 1] = t[n]
      BY <1>14, <1>15, <3>2
    <3>4. \E m \in DOMAIN y : y[m] = Frame("webrtc_answer", i, j)
      BY <1>15, <3>1, <3>3
    <3>5. Answering(i, j, z, y, d, b)
      BY <1>18, <1>21, <2>1, <2>4, <3>4 DEF Answering
    <3>6. QED
      BY <3>5 DEF Phase
  <2>5. ASSUME Connected(i, j, s, a, b) PROVE Phase(i, j, z, y, d, b)
    BY <1>21, <2>1, <2>5 DEF Phase
  <2>6. Phase(i, j, z, y, d, b)
    BY <1>16, <2>3, <2>4, <2>5 DEF Phase
  <2>7. QED
    BY <1>2, <1>3, <1>4, <1>7, <1>12, <1>13, <2>6, LinkAlike
<1>23. CASE i \in Hearing(u)
  <2>1. /\ f.type = "webrtc_answer" /\ d.call = a.call
        /\ d.far = IF a.call = f.call /\ a.far = Nobody THEN f.by ELSE a.far
    <3>1. f.type = "webrtc_answer"
      BY <1>20, <1>23
    <3>2. /\ caller'[i][v] = caller[i][v]
          /\ far'[i][v] = IF caller[i][v] = f.call /\ far[i][v] = Nobody THEN f.by ELSE far[i][v]
      BY <1>23, <3>1, TakenTables
    <3>3. QED
      BY <1>12, <3>1, <3>2 DEF Connection
  <2>2. ASSUME Offering(i, s, t, a) PROVE Phase(i, j, z, y, d, b)
    <3>1. f.call # i
      BY <1>14, <2>1, <2>2 DEF Offering
    <3>2. d.call = i /\ d.far = Nobody
      BY <2>1, <2>2, <3>1 DEF Offering
    <3>3. Offering(i, z, y, d)
      BY <1>18, <1>21, <2>2, <3>2 DEF Offering
    <3>4. QED
      BY <3>3 DEF Phase
  <2>3. ASSUME Answering(i, j, s, t, a, b) PROVE Phase(i, j, z, y, d, b)
    <3>1. CASE f.call = i
      <4>1. f.by = j
        BY <1>14, <2>1, <2>3, <3>1 DEF Answering
      <4>2. Connected(i, j, z, d, b)
        BY <1>21, <2>1, <2>3, <3>1, <4>1 DEF Answering, Connected
      <4>3. QED
        BY <4>2 DEF Phase
    <3>2. CASE f.call # i
      <4>1. PICK n \in DOMAIN t : t[n] = Frame("webrtc_answer", i, j)
        BY <2>3 DEF Answering
      <4>2. n # 1
        BY <1>14, <3>2, <4>1 DEF Frame
      <4>3. n - 1 \in 1 .. l - 1 /\ y[n - 1] = t[n]
        BY <1>14, <1>15, <4>2
      <4>4. \E m \in DOMAIN y : y[m] = Frame("webrtc_answer", i, j)
        BY <1>15, <4>1, <4>3
      <4>5. d.call = i /\ d.far = Nobody
        BY <2>1, <2>3, <3>2 DEF Answering
      <4>6. Answering(i, j, z, y, d, b)
        BY <1>18, <1>21, <2>3, <4>4, <4>5 DEF Answering
      <4>7. QED
        BY <4>6 DEF Phase
    <3>3. QED
      BY <3>1, <3>2
  <2>4. ASSUME Connected(i, j, s, a, b) PROVE Phase(i, j, z, y, d, b)
    <3>1. d.call = i /\ d.far = j
      BY <2>1, <2>4, Absent DEF Connected
    <3>2. Connected(i, j, z, d, b)
      BY <1>21, <2>4, <3>1 DEF Connected
    <3>3. QED
      BY <3>2 DEF Phase
  <2>5. Phase(i, j, z, y, d, b)
    BY <1>16, <2>2, <2>3, <2>4 DEF Phase
  <2>6. QED
    BY <1>2, <1>3, <1>4, <1>7, <1>12, <1>13, <2>5, LinkAlike
<1>24. QED
  BY <1>22, <1>23

LEMMA LinkedStep ==
  ASSUME Settled, Lines, Linked, [MeshNext]_allVars
  PROVE  Linked'
<1> SUFFICES ASSUME NEW u \in Users, NEW v \in Users, u # v, NEW i, i = roster'[u],
                    NEW j, j = roster'[v], Pair(i, j)'
             PROVE  LinkOK(i, j, u, v)'
  BY DEF Linked
<1>1. MeshTypeOK /\ TypeOK /\ TypeOK'
  BY SettledStep DEF Settled, Sockets, RosterInv
<1>2. i \in Joins /\ j \in Joins
  BY <1>1 DEF Pair, TypeOK
<1>3. /\ Between(i, j, u, v) /\ Clean(i, j)'
      /\ UserOf(i)' = UserOf(i) /\ UserOf(j)' = UserOf(j)
      /\ PageOf(i)' = PageOf(i) /\ PageOf(j)' = PageOf(j)
      /\ mgr[i] = "ready" \/ (JoinRoomMesh(i) /\ mgr[i] = "init")
  BY <1>2, PairWas DEF Between, Pair
<1>4. CASE JoinRoomMesh(i) /\ mgr[i] = "init"
  BY <1>3, <1>4, LinkOffered
<1>5. CASE mgr[i] = "ready"
  <2>1. LinkOK(i, j, u, v)
    <3>1. Pair(i, j)
      BY <1>2, <1>3, <1>5, Absent DEF Pair, Between
    <3>2. QED
      BY <1>3, <3>1 DEF Linked, Between
  <2>2. /\ u \in Present /\ v \in Present /\ PageOf(i) \in Conns /\ PageOf(j) \in Conns
        /\ u \notin stale' /\ v \notin stale' /\ mgr[j] \in Mounted /\ mgr[i] \in Mounted
        /\ mgr'[i] \in Mounted /\ mgr'[j] \in Mounted
    <3>1. u \in Present /\ v \in Present
      BY <1>2, <1>3, Absent DEF Between, Present
    <3>2. u \notin stale' /\ v \notin stale'
      BY <1>3 DEF Between, Clean
    <3>3. mgr'[i] \in Mounted /\ mgr'[j] \in Mounted
      BY DEF Pair, Mounted
    <3>4. QED
      BY <1>3, <1>5, <3>1, <3>2, <3>3 DEF Between, Mounted
  <2>3. ASSUME Idle PROVE LinkOK(i, j, u, v)'
    BY <1>3, <2>1, <2>3, LinkKept DEF Idle
  <2>4. ASSUME NEW k \in Joins, JoinRoomMesh(k) PROVE LinkOK(i, j, u, v)'
    BY <1>3, <1>5, <2>1, <2>4, LinkJoins
  <2>5. ASSUME NEW q \in Processes \ Joins, PeerLeft(q) PROVE LinkOK(i, j, u, v)'
    <3>1. UserOf(q) # u /\ UserOf(q) # v
      BY <2>2, <2>5 DEF PeerLeft
    <3>2. /\ caller'[i][v] = caller[i][v] /\ far'[i][v] = far[i][v]
          /\ caller'[j][u] = caller[j][u] /\ far'[j][u] = far[j][u] /\ wire' = wire
      BY <1>1, <1>2, <2>5, <3>1, LeftTables
    <3>3. QED
      BY <1>3, <2>1, <3>2, LinkKept
  <2>6. ASSUME NEW p \in Conns, Unmounted(p) PROVE LinkOK(i, j, u, v)'
    <3>1. Unmount(p)
      BY <2>6 DEF Unmounted
    <3>2. \A k \in MountedOn(p) : mgr'[k] \notin Mounted
      BY <3>1 DEF Unmount, MountedOn, Mounted
    <3>3. i \notin MountedOn(p) /\ j \notin MountedOn(p)
      BY <2>2, <3>2
    <3>4. PageOf(i) # p /\ PageOf(j) # p
      BY <1>2, <2>2, <3>3 DEF MountedOn
    <3>5. /\ caller'[i][v] = caller[i][v] /\ far'[i][v] = far[i][v]
          /\ caller'[j][u] = caller[j][u] /\ far'[j][u] = far[j][u]
      BY <1>2, <3>1, <3>3, UnmountedTables
    <3>6. /\ wire'[<<PageOf(i), v>>] = wire[<<PageOf(i), v>>]
          /\ wire'[<<PageOf(j), u>>] = wire[<<PageOf(j), u>>]
      BY <2>2, <3>1, <3>4, UnmountedWire
    <3>7. QED
      BY <1>3, <2>1, <3>5, <3>6, LinkKept
  <2>7. ASSUME NEW q \in Conns, NEW x \in Users, NEW f \in Frames, Takes(q, x, f)
        PROVE LinkOK(i, j, u, v)'
    <3>1. CASE Owner[q] = u /\ x = v
      BY <1>3, <1>5, <2>1, <2>7, <3>1, LinkAccepts
    <3>2. CASE Owner[q] = v /\ x = u
      BY <1>3, <1>5, <2>1, <2>7, <3>2, LinkHears
    <3>3. CASE ~(Owner[q] = u /\ x = v) /\ ~(Owner[q] = v /\ x = u)
      BY <1>3, <2>1, <2>7, <3>3, LinkAside
    <3>4. QED
      BY <3>1, <3>2, <3>3
  <2>8. QED
    BY <2>3, <2>4, <2>5, <2>6, <2>7, MeshCases
<1>6. QED
  BY <1>3, <1>4, <1>5

----------------------------------------------------------------------------
\* Whom a manager has heard, step by step.

\* While a manager is there, its page says no farewell.
LEMMA NoHangupStep ==
  ASSUME Settled, [MeshNext]_allVars, NEW k \in Joins, mgr[k] \in Mounted, mgr'[k] \in Mounted,
         NEW x \in Users, NoHangup(wire[<<PageOf(k), x>>])
  PROVE  NoHangup(wire'[<<PageOf(k), x>>])
<1>1. PICK p \in Conns : p = PageOf(k)
  BY ManagerFacts DEF Mounted
<1>2. MeshTypeOK /\ MeshTypeOK' /\ <<p, x>> \in Conns \X Users
  BY SettledStep DEF Settled
<1>3. PICK s \in Seq(Frames) : s = wire[<<p, x>>]
  BY <1>2, WireOK
<1>4. PICK t \in Seq(Frames) : t = wire'[<<p, x>>]
  BY <1>2 DEF MeshTypeOK
<1>5. PICK c \in {0, 1}, A \in SUBSET Frames : Passed(t, s, c, A) /\ \A f \in A : NewFrame(p, x, f)
  BY <1>3, <1>4, WirePasses
<1>6. ASSUME NEW f \in A PROVE f.type # "call_hangup"
  <2>1. NewFrame(p, x, f)
    BY <1>5, <1>6
  <2>2. ~Unmount(p)
    <3>1. ASSUME Unmount(p) PROVE mgr'[k] \notin Mounted
      <4>1. k \in MountedOn(p)
        BY <1>1 DEF MountedOn
      <4>2. QED
        BY <3>1, <4>1 DEF Unmount, Mounted
    <3>2. QED
      BY <3>1
  <2>3. \A type, call, by : Frame(type, call, by).type = type
    BY DEF Frame
  <2>4. QED
    BY <2>1, <2>2, <2>3 DEF NewFrame
<1>7. ASSUME NEW b \in DOMAIN t PROVE t[b].type # "call_hangup"
  <2>1. (b + c \in DOMAIN s /\ t[b] = s[b + c]) \/ t[b] \in A
    BY <1>5, FrameWas
  <2>2. QED
    BY <1>1, <1>3, <1>6, <2>1 DEF NoHangup
<1>8. QED
  BY <1>1, <1>4, <1>7 DEF NoHangup

\* Whoever stays for the user of a manager goes on to, or says farewell: the user itself
\* has no farewell under way that closes the connection.
LEMMA StaysStep ==
  ASSUME Settled, Lines, [MeshNext]_allVars, NEW k \in Joins, mgr[k] \in Mounted,
         NEW n \in Joins, NEW w, w = UserOf(k), Stays(n, w), Quiet(k, n)',
         k \in saw[n] \/ NoHangup(wire[<<PageOf(k), UserOf(n)>>])
  PROVE  \/ Stays(n, w)'
         \/ wire'[<<PageOf(n), w>>] = Append(wire[<<PageOf(n), w>>], Frame("call_hangup", n, n))
<1>1. /\ mgr[k] # "none" /\ mgr[n] # "none" /\ mgr[n] \in Spoken
      /\ mgr[n] = "undead" \/ (mgr[n] = "ready" /\ caller[n][w] # Nobody)
  BY DEF Stays, Spoken, Mounted
<1>2. /\ Quiet(k, n) /\ MeshTypeOK /\ w \in Users /\ UserOf(n) \in Users
      /\ PageOf(n) \in Conns /\ PageOf(k) \in Conns /\ Owner[PageOf(k)] = w
      /\ Owner[PageOf(n)] = UserOf(n)
  BY <1>1, QuietWas, ManagerFacts DEF Settled
<1>3. CASE mgr[n] = "undead"
  BY <1>3, ManagersGoForward DEF Stays
<1>4. CASE mgr[n] = "ready" /\ caller[n][w] # Nobody
  <2>1. ASSUME mgr'[n] = "ready", caller'[n][w] # Nobody PROVE Stays(n, w)'
    BY <2>1 DEF Stays
  <2>2. ASSUME Idle PROVE Stays(n, w)'
    BY <1>1, <1>4, <2>1, <2>2 DEF Idle
  <2>3. ASSUME NEW i \in Joins, JoinRoomMesh(i) PROVE Stays(n, w)'
    <3>1. i # n
      BY <1>4, <2>3 DEF JoinRoomMesh
    <3>2. QED
      BY <1>2, <1>4, <2>1, <2>3, <3>1, JoinedTables
  <2>4. ASSUME NEW q \in Processes \ Joins, PeerLeft(q) PROVE Stays(n, w)'
    <3>1. w \in Present
      <4>1. view[PageOf(k)] = "call"
        <5>1. k \in MountedOn(PageOf(k))
          BY DEF MountedOn
        <5>2. QED
          BY <1>2, <5>1 DEF Settled, OneManager
      <4>2. Steady(w) /\ w \notin stale
        BY <1>2 DEF Quiet
      <4>3. QED
        BY <1>2, <4>1, <4>2 DEF Lines, SteadyPresent
    <3>2. w \notin stale'
      <4>1. UserOf(k)' = w
        BY <1>1, ManagerKept
      <4>2. QED
        BY <4>1 DEF Quiet
    <3>3. UserOf(q) # w
      BY <2>4, <3>1, <3>2 DEF PeerLeft
    <3>4. QED
      BY <1>2, <1>4, <2>1, <2>4, <3>3, LeftTables
  <2>5. ASSUME NEW p \in Conns, Unmounted(p)
        PROVE \/ Stays(n, w)'
              \/ wire'[<<PageOf(n), w>>] = Append(wire[<<PageOf(n), w>>], Frame("call_hangup", n, n))
    <3>1. Unmount(p)
      BY <2>5 DEF Unmounted
    <3>2. CASE n \notin MountedOn(p)
      BY <1>2, <1>4, <2>1, <3>1, <3>2, UnmountedTables
    <3>3. CASE n \in MountedOn(p)
      <4>1. p = PageOf(n) /\ MountedOn(p) = {n}
        BY <3>3 DEF MountedOn, Settled, OneManager
      <4>2. HasSocket(p)
        BY <1>1, <1>2, <4>1, SteadyManager DEF Quiet
      <4>3. ~\A h \in MountedOn(p) : caller[h][w] = Nobody
        BY <1>4, <3>3
      <4>4. PICK h \in MountedOn(p) :
              wire'[<<p, w>>] = Append(wire[<<p, w>>], Frame("call_hangup", h, h))
        BY <1>2, <3>1, <4>2, <4>3, UnmountedWire
      <4>5. QED
        BY <4>1, <4>4
    <3>4. QED
      BY <3>2, <3>3
  <2>6. ASSUME NEW q \in Conns, NEW x \in Users, NEW f \in Frames, Takes(q, x, f)
        PROVE Stays(n, w)'
    <3>1. mgr'[n] = "ready"
      BY <1>4, <2>6, TakenIsQuiet
    <3>2. CASE ~(n \in Hearing(x) /\ w = Owner[q])
      BY <1>2, <1>4, <2>1, <2>6, <3>1, <3>2, TakenTables
    <3>3. CASE n \in Hearing(x) /\ w = Owner[q]
      <4>1. /\ FrameOK(q, x, f) /\ f.by \in Joins /\ f.call \in Joins /\ mgr[f.by] # "none"
            /\ f.type \in {"webrtc_offer", "webrtc_answer", "call_hangup"}
            /\ 1 \in DOMAIN wire[<<q, x>>] /\ f = wire[<<q, x>>][1]
        BY <2>6, TakenFrame DEF Lines
      <4>2. PageOf(f.by) = q
        BY <4>1 DEF FrameOK
      <4>3. UserOf(f.by) = w
        BY <3>3, <4>1, <4>2, ManagerFacts
      <4>4. f.type # "call_hangup"
        <5>1. ASSUME f.type = "call_hangup" PROVE FALSE
          <6>1. mgr[f.by] = "gone" /\ f.by # k
            BY <4>1, <5>1 DEF FrameOK, Mounted
          <6>2. PageOf(k) = q
            BY <1>1, <1>2, <4>1, <4>2, <4>3, SteadyManager DEF Quiet
          <6>3. UserOf(n) = x
            BY <3>3 DEF Hearing
          <6>4. k \in saw[n]
            BY <4>1, <5>1, <6>2, <6>3 DEF NoHangup
          <6>5. f.by \notin saw[n]
            BY <4>3, <6>1, <6>4 DEF Lines, OneSeen
          <6>6. n \notin saw[f.by]
            BY <4>1, <4>2, <6>2, <6>4 DEF Lines, InOrder
          <6>7. Stray(f, n)
            BY <5>1, <6>5, <6>6 DEF Stray
          <6>8. <<k, n>> \in missed'
            BY <1>1, <2>6, <3>3, <6>7, TakenMissed
          <6>9. QED
            BY <6>8 DEF Quiet
        <5>2. QED
          BY <5>1
      <4>5. caller'[n][w] # Nobody
        BY <1>2, <1>4, <2>6, <3>3, <4>1, <4>4, Absent, TakenTables
      <4>6. QED
        BY <2>1, <3>1, <4>5
    <3>4. QED
      BY <3>2, <3>3
  <2>7. QED
    BY <2>2, <2>3, <2>4, <2>5, <2>6, MeshCases
<1>5. QED
  BY <1>1, <1>3, <1>4

\* A farewell that is under way goes on to be, unless it is the first frame and taken.
LEMMA FarewellPasses ==
  ASSUME NEW s \in Seq(Frames), NEW t \in Seq(Frames), NEW c \in {0, 1}, NEW A, Passed(t, s, c, A),
         NEW a \in Nat, NEW n, Farewell(s, a + c, n)
  PROVE  Farewell(t, a, n)
<1>1. PICK b \in DOMAIN s : b > a + c /\ s[b].type = "call_hangup" /\ s[b].by = n
  BY DEF Farewell
<1>2. b \in Nat /\ b > c
  BY <1>1
<1>3. b - c \in DOMAIN t /\ t[b - c] = s[b]
  BY <1>2 DEF Passed
<1>4. b - c > a
  BY <1>1, <1>2
<1>5. QED
  BY <1>1, <1>3, <1>4 DEF Farewell

LEMMA FarewellSaid ==
  ASSUME NEW s \in Seq(Frames), NEW n \in Joins, NEW a \in 0 .. Len(s)
  PROVE  Farewell(Append(s, Frame("call_hangup", n, n)), a, n)
<1>1. PICK l \in Nat : l = Len(s) /\ DOMAIN s = 1 .. l
  OBVIOUS
<1>2. PICK f : f = [type |-> "call_hangup", call |-> n, by |-> n] /\ f = Frame("call_hangup", n, n)
  BY DEF Frame
<1>3. PICK t : t = Append(s, f)
  OBVIOUS
<1>4. l + 1 \in DOMAIN t /\ t[l + 1] = f /\ l + 1 > a
  BY <1>1, <1>3
<1>5. QED
  BY <1>2, <1>3, <1>4 DEF Farewell

LEMMA HeardFromStep ==
  ASSUME Settled, Lines, [MeshNext]_allVars, NEW k \in Joins, mgr[k] = "ready", mgr'[k] = "ready",
         NEW u \in Users, NEW n \in Joins, mgr[n] \in Spoken, UserOf(n) = u, Quiet(k, n)',
         Stays(n, UserOf(k)) \/ Farewell(wire'[<<PageOf(n), UserOf(k)>>], 0, n),
         IF caller'[k][u] = k THEN NoHangup(wire[<<PageOf(k), u>>]) ELSE k \in saw[n]
  PROVE  HeardFrom(k, u, n)'
<1>1. /\ mgr[k] # "none" /\ mgr[k] \in Mounted /\ mgr'[k] \in Mounted /\ mgr[n] # "none"
      /\ MeshTypeOK
  BY DEF Mounted, Spoken, Settled
<1>2. PICK w \in Users, p \in Conns, q \in Conns : w = UserOf(k) /\ p = PageOf(n) /\ q = PageOf(k)
  BY <1>1, ManagerFacts
<1>3. /\ UserOf(k)' = w /\ PageOf(n)' = p /\ PageOf(k)' = q /\ saw'[n] = saw[n]
  BY <1>1, <1>2, ManagerKept
<1>4. PICK s \in Seq(Frames) : s = wire[<<p, w>>]
  BY <1>1, WireOK
<1>5. Stays(n, w)' \/ Farewell(wire'[<<p, w>>], 0, n)
  <2>1. CASE Farewell(wire'[<<p, w>>], 0, n)
    BY <2>1
  <2>2. CASE Stays(n, w)
    <3>1. k \in saw[n] \/ NoHangup(wire[<<PageOf(k), UserOf(n)>>])
      OBVIOUS
    <3>2. \/ Stays(n, w)'
          \/ wire'[<<PageOf(n), w>>] = Append(wire[<<PageOf(n), w>>], Frame("call_hangup", n, n))
      BY <1>1, <1>2, <2>2, <3>1, StaysStep
    <3>3. 0 \in 0 .. Len(s)
      OBVIOUS
    <3>4. QED
      BY <1>2, <1>4, <3>2, <3>3, FarewellSaid
  <2>3. QED
    BY <1>2, <2>1, <2>2
<1>6. IF caller'[k][u] = k THEN NoHangup(wire'[<<q, u>>]) ELSE k \in saw'[n]
  BY <1>1, <1>2, <1>3, NoHangupStep
<1>7. QED
  BY <1>3, <1>5, <1>6 DEF HeardFrom, Stays, Farewell, NoHangup

\* A connection of a manager that the step leaves alone.
LEMMA HeardKept ==
  ASSUME Settled, Lines, Heard, [MeshNext]_allVars, NEW k \in Joins, mgr[k] = "ready", mgr'[k] = "ready",
         NEW u \in Users, NEW n \in Joins, far[k][u] = n, far'[k][u] = n,
         caller'[k][u] = caller[k][u], Quiet(k, n)'
  PROVE  HeardFrom(k, u, n)'
<1>1. mgr[n] \in Spoken /\ UserOf(n) = u
  BY Absent DEF Lines, TablesOK, TableOK
<1>2. mgr[k] # "none" /\ mgr[n] # "none" /\ MeshTypeOK /\ MeshTypeOK'
  BY <1>1, SettledStep DEF Spoken, Settled
<1>3. Quiet(k, n)
  BY <1>2, QuietWas
<1>4. HeardFrom(k, u, n)
  BY <1>3 DEF Heard, HeardOK
<1>5. PICK w \in Users, p \in Conns : w = UserOf(k) /\ p = PageOf(n) /\ Owner[p] = u
  BY <1>1, <1>2, ManagerFacts
<1>6. Stays(n, w) \/ Farewell(wire'[<<p, w>>], 0, n)
  <2>1. CASE Farewell(wire[<<p, w>>], 0, n)
    <3>1. PICK s \in Seq(Frames) : s = wire[<<p, w>>] /\ DOMAIN s = 1 .. Len(s)
      BY <1>2, WireOK
    <3>2. <<p, w>> \in Conns \X Users
      OBVIOUS
    <3>3. PICK t \in Seq(Frames) : t = wire'[<<p, w>>]
      BY <1>2, <3>2 DEF MeshTypeOK
    <3>4. PICK c \in {0, 1}, A \in SUBSET Frames :
            Passed(t, s, c, A) /\ (c = 1 => \E f \in Frames : Takes(p, w, f))
      BY <3>1, <3>3, WirePasses
    <3>5. PICK b \in DOMAIN s : s[b].type = "call_hangup" /\ s[b].by = n
      BY <2>1, <3>1 DEF Farewell
    <3>6. CASE b > c
      <4>1. Farewell(s, 0 + c, n)
        BY <3>5, <3>6 DEF Farewell
      <4>2. QED
        BY <3>3, <3>4, <4>1, FarewellPasses
    <3>7. CASE ~(b > c)
      <4>1. b = 1 /\ c = 1
        BY <3>1, <3>7
      <4>2. PICK f \in Frames : Takes(p, w, f)
        BY <3>4, <4>1
      <4>3. f = s[1]
        BY <3>1, <4>2 DEF Takes
      <4>4. HasSocket(PageOf(k))
        BY <1>2, <1>3, SteadyManager DEF Quiet
      <4>5. k \in Hearing(w)
        BY <1>5, <4>4 DEF Hearing, Listening
      <4>6. f.type = "call_hangup" /\ u = Owner[p]
        BY <1>5, <3>5, <4>1, <4>3
      <4>7. far'[k][u] = Nobody
        BY <4>2, <4>5, <4>6, TakenTables
      <4>8. QED
        BY <4>7, Absent
    <3>8. QED
      BY <3>6, <3>7
  <2>2. QED
    BY <1>4, <1>5, <2>1 DEF HeardFrom
<1>7. IF caller'[k][u] = k THEN NoHangup(wire[<<PageOf(k), u>>]) ELSE k \in saw[n]
  BY <1>4 DEF HeardFrom
<1>8. QED
  BY <1>1, <1>5, <1>6, <1>7, HeardFromStep

\* A frame connects a manager: it awaited it, and what was true of the frame under way
\* is true of the connection.
LEMMA HeardNew ==
  ASSUME Settled, Lines, Coming, [MeshNext]_allVars, NEW k \in Joins, mgr[k] = "ready",
         mgr'[k] = "ready", NEW q \in Conns, NEW f \in Frames, NEW w, w = UserOf(k), Takes(q, w, f),
         k \in Hearing(w), NEW u \in Users, u = Owner[q], Quiet(k, f.by)', Awaited(k, f),
         f.type = "webrtc_answer" <=> caller'[k][u] = k
  PROVE  HeardFrom(k, u, f.by)'
<1>0. PICK n \in Joins : n = f.by
  BY DEF Frames
<1>1. /\ FrameOK(q, w, f) /\ 1 \in DOMAIN wire[<<q, w>>] /\ f = wire[<<q, w>>][1]
      /\ mgr[n] \in Spoken /\ mgr[n] # "none" /\ MeshTypeOK /\ MeshTypeOK' /\ mgr[k] # "none" /\ w \in Users
  <2>1. mgr[k] # "none" /\ w \in Users /\ MeshTypeOK /\ MeshTypeOK'
    BY SettledStep, ManagerFacts DEF Settled
  <2>2. /\ FrameOK(q, w, f) /\ 1 \in DOMAIN wire[<<q, w>>] /\ f = wire[<<q, w>>][1]
    BY <2>1, TakenFrame DEF Lines
  <2>3. mgr[n] \in Spoken
    BY <1>0, <2>2 DEF FrameOK
  <2>4. QED
    BY <2>1, <2>2, <2>3 DEF Spoken
<1>2. PageOf(n) = q
  BY <1>0, <1>1 DEF FrameOK
<1>3. UserOf(n) = u
  BY <1>1, <1>2, ManagerFacts
<1>4. Quiet(k, n)
  BY <1>0, <1>1, QuietWas
<1>5. ComingFrom(q, 1, k, f)
  <2>1. ComingOn(q, k)
    BY DEF Coming
  <2>2. QED
    BY <1>0, <1>1, <1>4, <2>1 DEF ComingOn
<1>6. Stays(n, w) \/ Farewell(wire'[<<PageOf(n), w>>], 0, n)
  <2>1. CASE Farewell(wire[<<q, w>>], 1, n)
    <3>1. PICK s \in Seq(Frames) : s = wire[<<q, w>>]
      BY <1>1, WireOK
    <3>2. <<q, w>> \in Conns \X Users
      BY <1>1
    <3>3. PICK t \in Seq(Frames) : t = wire'[<<q, w>>]
      BY <1>1, <3>2 DEF MeshTypeOK
    <3>4. PICK A : Passed(t, s, 1, A)
      <4>1. \E A : Passed(wire'[<<q, w>>], wire[<<q, w>>], IF q = q /\ w = w THEN 1 ELSE 0, A)
        BY <1>1, TakenWire
      <4>2. QED
        BY <3>1, <3>3, <4>1
    <3>5. Farewell(s, 0 + 1, n)
      BY <2>1, <3>1
    <3>6. QED
      BY <1>2, <3>3, <3>4, <3>5, FarewellPasses
  <2>2. QED
    BY <1>0, <1>5, <2>1 DEF ComingFrom
<1>7. IF caller'[k][u] = k THEN NoHangup(wire[<<PageOf(k), u>>]) ELSE k \in saw[n]
  <2>1. CASE f.type = "webrtc_answer"
    BY <1>5, <2>1 DEF ComingFrom
  <2>2. CASE f.type # "webrtc_answer"
    BY <1>0, <2>2 DEF Awaited
  <2>3. QED
    BY <2>1, <2>2
<1>8. QED
  BY <1>0, <1>1, <1>3, <1>6, <1>7, HeardFromStep

LEMMA HeardStep ==
  ASSUME Settled, Lines, Heard, Coming, [MeshNext]_allVars
  PROVE  Heard'
<1> SUFFICES ASSUME NEW k \in Joins, NEW u \in Users, NEW n \in Joins,
                    mgr'[k] = "ready", far'[k][u] = n, Quiet(k, n)'
             PROVE  HeardFrom(k, u, n)'
  BY DEF Heard, HeardOK
<1> DEFINE Goal == HeardFrom(k, u, n)'
<1>1. MeshTypeOK /\ FramesOK /\ TablesOK /\ n # Nobody
  BY Absent DEF Settled, Lines
<1>2. CASE JoinRoomMesh(k) /\ mgr[k] = "init"
  <2>1. far[k][u] = Nobody
    BY <1>2 DEF Lines, TablesOK, TableOK, Spoken
  <2>2. QED
    BY <1>1, <1>2, <2>1, JoinedTables
<1>3. CASE mgr[k] = "ready"
  <2>1. ASSUME far'[k][u] = far[k][u], caller'[k][u] = caller[k][u] PROVE Goal
    BY <1>3, <2>1, HeardKept
  <2>2. ASSUME Idle PROVE Goal
    BY <2>1, <2>2 DEF Idle
  <2>3. ASSUME NEW i \in Joins, JoinRoomMesh(i) PROVE Goal
    <3>1. i # k
      BY <1>3, <2>3 DEF JoinRoomMesh
    <3>2. QED
      BY <1>1, <2>1, <2>3, <3>1, JoinedTables
  <2>4. ASSUME NEW q \in Processes \ Joins, PeerLeft(q) PROVE Goal
    BY <1>1, <2>1, <2>4, LeftTables
  <2>5. ASSUME NEW p \in Conns, Unmounted(p) PROVE Goal
    BY <1>1, <2>1, <2>5, UnmountedTables DEF Unmounted
  <2>6. ASSUME NEW q \in Conns, NEW w \in Users, NEW f \in Frames, Takes(q, w, f) PROVE Goal
    <3>1. CASE ~(k \in Hearing(w) /\ u = Owner[q])
      BY <2>1, <2>6, <3>1, TakenTables
    <3>2. CASE k \in Hearing(w) /\ u = Owner[q]
      <4>1. /\ FrameOK(q, w, f) /\ f.by \in Joins /\ f.call \in Joins /\ mgr[f.by] # "none"
            /\ f.type \in {"webrtc_offer", "webrtc_answer", "call_hangup"}
        <5>1. FrameOK(q, w, f)
          BY <1>1, <2>6, TakenFrame
        <5>2. /\ f.by \in Joins /\ f.call \in Joins
              /\ f.type \in {"webrtc_offer", "webrtc_answer", "call_hangup"}
          BY DEF Frames
        <5>3. QED
          BY <5>1, <5>2 DEF FrameOK, Spoken
      <4>2. PageOf(f.by) = q
        BY <4>1 DEF FrameOK
      <4>3. UserOf(f.by) = u /\ UserOf(k) = w
        BY <3>2, <4>1, <4>2, ManagerFacts DEF Hearing
      <4>4. CASE f.type = "webrtc_offer"
        <5>1. caller'[k][u] = f.call /\ n = f.by /\ f.call = f.by /\ w \in Given(f.by)
          BY <2>6, <3>2, <4>1, <4>4, TakenTables DEF FrameOK
        <5>2. k \in saw[n]
          <6>1. ASSUME k \notin saw[n] PROVE FALSE
            <7>1. Stray(f, k)
              BY <4>3, <4>4, <5>1, <6>1 DEF Stray
            <7>2. <<n, k>> \in missed'
              BY <2>6, <3>2, <4>1, <4>3, <5>1, <7>1, TakenMissed
            <7>3. QED
              BY <7>2 DEF Quiet
          <6>2. QED
            BY <6>1
        <5>3. n # k
          BY <5>2 DEF Settled, Sockets, RosterInv, NoGlare
        <5>4. Awaited(k, f) /\ f.type # "webrtc_answer" /\ caller'[k][u] # k
          BY <4>4, <5>1, <5>2, <5>3 DEF Awaited
        <5>5. QED
          BY <1>3, <2>6, <3>2, <4>3, <5>1, <5>4, HeardNew
      <4>5. CASE f.type = "webrtc_answer"
        <5>1. /\ caller'[k][u] = caller[k][u]
              /\ far'[k][u] = IF caller[k][u] = f.call /\ far[k][u] = Nobody THEN f.by ELSE far[k][u]
          BY <2>6, <3>2, <4>5, TakenTables
        <5>2. CASE ~(caller[k][u] = f.call /\ far[k][u] = Nobody)
          BY <2>1, <5>1, <5>2
        <5>3. CASE caller[k][u] = f.call /\ far[k][u] = Nobody
          <6>1. f.call = k
            BY <1>1, <4>1, <5>3, Absent DEF TablesOK, TableOK
          <6>2. n = f.by /\ Awaited(k, f) /\ caller'[k][u] = k
            BY <4>5, <5>1, <5>3, <6>1 DEF Awaited
          <6>3. QED
            BY <1>3, <2>6, <3>2, <4>3, <4>5, <6>2, HeardNew
        <5>4. QED
          BY <5>2, <5>3
      <4>6. CASE f.type = "call_hangup"
        BY <1>1, <2>6, <3>2, <4>6, TakenTables
      <4>7. QED
        BY <4>1, <4>4, <4>5, <4>6
    <3>3. QED
      BY <3>1, <3>2
  <2>7. QED
    BY <2>2, <2>3, <2>4, <2>5, <2>6, MeshCases
<1>4. QED
  BY <1>2, <1>3, ManagersGoForward

----------------------------------------------------------------------------
\* Whom a manager is about to hear, step by step.

\* What a manager awaits it awaited before, and was mounted.
LEMMA AwaitedWas ==
  ASSUME Settled, Settled', [MeshNext]_allVars, NEW k \in Joins, mgr'[k] \in {"init", "ready"},
         NEW q, NEW x, NEW f \in Frames, FrameOK(q, x, f)', Awaited(k, f)'
  PROVE  mgr[k] \in {"init", "ready"} /\ Awaited(k, f)
<1>1. PICK n \in Joins : n = f.by
  BY DEF Frames
<1>2. mgr'[n] # "none" /\ mgr'[f.call] \in Spoken
  BY <1>1 DEF FrameOK, Spoken
<1>3. TypeOK /\ [Next]_vars
  BY MeshStepMaps DEF Settled, Sockets, RosterInv
<1>4. saw'[n] = saw[n]
  <2>1. pc'[n] \in {"tell", "done"}
    BY <1>2 DEF Settled, ManagersWereJoined
  <2>2. ~ReadRoster(n)
    BY <1>3, <2>1 DEF ReadRoster, TypeOK, Processes
  <2>3. QED
    BY <1>3, <2>2, SawMoves
<1>5. Awaited(k, f)
  BY <1>1, <1>4 DEF Awaited
<1>6. mgr[k] \in {"init", "ready"}
  <2>1. CASE f.type = "webrtc_answer" /\ f.call = k
    <3>1. mgr'[k] # "init"
      BY <1>2, <2>1 DEF Spoken
    <3>2. QED
      BY <3>1, ManagersGoForward
  <2>2. CASE k \in saw[n]
    <3>1. ~EnterRoom(k)
      BY <2>2, ReadIsPast
    <3>2. QED
      BY <3>1, ManagersGoForward
  <2>3. QED
    BY <1>1, <1>5, <2>1, <2>2 DEF Awaited
<1>7. QED
  BY <1>5, <1>6

LEMMA ComingKept ==
  ASSUME Settled, Lines, Coming, [MeshNext]_allVars, NEW k \in Joins,
         mgr[k] \in {"init", "ready"}, mgr'[k] \in {"init", "ready"}, NEW w \in Users, w = UserOf(k),
         NEW q \in Conns, NEW c \in {0, 1}, NEW A, Passed(wire'[<<q, w>>], wire[<<q, w>>], c, A),
         NEW a \in Nat, NEW d \in DOMAIN wire[<<q, w>>], d = a + c,
         NEW f \in Frames, f = wire[<<q, w>>][d], Quiet(k, f.by)', Awaited(k, f)
  PROVE  /\ Stays(f.by, w)' \/ Farewell(wire'[<<q, w>>], a, f.by)
         /\ f.type = "webrtc_answer" => NoHangup(wire'[<<PageOf(k), Owner[q]>>])
<1>1. MeshTypeOK /\ MeshTypeOK' /\ <<q, w>> \in Conns \X Users
  BY SettledStep DEF Settled
<1>2. PICK s \in Seq(Frames) : s = wire[<<q, w>>]
  BY <1>1, WireOK
<1>3. PICK t \in Seq(Frames) : t = wire'[<<q, w>>]
  BY <1>1 DEF MeshTypeOK
<1>4. PICK n \in Joins : n = f.by
  BY DEF Frames
<1>5. FrameOK(q, w, f) /\ mgr[k] # "none" /\ mgr[k] \in Mounted /\ mgr'[k] \in Mounted
  BY DEF Lines, FramesOK, FramesOn, Mounted
<1>6. mgr[n] # "none" /\ PageOf(n) = q
  BY <1>4, <1>5 DEF FrameOK, Spoken
<1>7. UserOf(n) = Owner[q] /\ Owner[q] \in Users
  BY <1>6, ManagerFacts
<1>8. Quiet(k, n)
  BY <1>4, <1>5, <1>6, QuietWas
<1>9. ComingFrom(q, d, k, f)
  <2>1. ComingOn(q, k)
    BY DEF Coming
  <2>2. QED
    BY <1>4, <1>8, <2>1 DEF ComingOn
<1>10. f.type = "webrtc_answer" => NoHangup(wire'[<<PageOf(k), Owner[q]>>])
  BY <1>5, <1>7, <1>9, NoHangupStep DEF ComingFrom
<1>11. Stays(n, w)' \/ Farewell(t, a, n)
  <2>1. CASE Farewell(s, d, n)
    BY <1>2, <1>3, <2>1, FarewellPasses
  <2>2. CASE Stays(n, w)
    <3>1. k \in saw[n] \/ NoHangup(wire[<<PageOf(k), UserOf(n)>>])
      BY <1>4, <1>7, <1>9 DEF ComingFrom, Awaited
    <3>2. \/ Stays(n, w)'
          \/ wire'[<<PageOf(n), w>>] = Append(wire[<<PageOf(n), w>>], Frame("call_hangup", n, n))
      <4>1. Quiet(k, n)'
        BY <1>4
      <4>2. QED
        BY <1>5, <2>2, <3>1, <4>1, StaysStep
    <3>3. a \in 0 .. Len(s)
      <4>1. PICK l \in Nat : l = Len(s) /\ DOMAIN s = 1 .. l
        OBVIOUS
      <4>2. QED
        BY <1>2, <4>1
    <3>4. QED
      BY <1>2, <1>3, <1>6, <3>2, <3>3, FarewellSaid
  <2>3. QED
    BY <1>2, <1>4, <1>9, <2>1, <2>2 DEF ComingFrom
<1>12. QED
  BY <1>3, <1>4, <1>10, <1>11

\* Who offers or answers is there; and the page that has its offer answered has not
\* said farewell, for its offer was the first of its frames under way.
LEMMA ComingNew ==
  ASSUME Settled, Lines, [MeshNext]_allVars, NEW k \in Joins,
         mgr[k] \in {"init", "ready"}, mgr'[k] \in {"init", "ready"}, NEW w \in Users, w = UserOf(k),
         NEW q \in Conns, NEW f \in Frames, NewFrame(q, w, f), Awaited(k, f)
  PROVE  /\ Stays(f.by, w)'
         /\ f.type = "webrtc_answer" => NoHangup(wire'[<<PageOf(k), Owner[q]>>])
<1>1. PICK n \in Joins : n = f.by
  BY DEF Frames
<1>2. \A type, call, by : Frame(type, call, by).type = type /\ Frame(type, call, by).call = call
  BY DEF Frame
<1>3. MeshTypeOK
  BY DEF Settled
<1>4. CASE /\ f = Frame("webrtc_offer", f.by, f.by) /\ JoinRoomMesh(f.by)
           /\ PageOf(f.by) = q /\ w \in Given(f.by)
  <2>1. caller'[n][w] = n
    BY <1>1, <1>3, <1>4, JoinedTables
  <2>2. mgr'[n] \in {"ready", "undead"}
    BY <1>1, <1>3, <1>4 DEF JoinRoomMesh, MeshTypeOK
  <2>3. Stays(n, w)'
    BY <2>1, <2>2, Absent DEF Stays
  <2>4. QED
    BY <1>1, <1>2, <1>4, <2>3
<1>5. ASSUME NEW p \in Conns, NEW x \in Users, NEW g \in Frames,
             /\ Takes(p, x, g) /\ g.type = "webrtc_offer" /\ w = Owner[p]
             /\ f = Frame("webrtc_answer", g.call, f.by) /\ f.by \in Hearing(x) /\ PageOf(f.by) = q
      PROVE  /\ Stays(f.by, w)'
             /\ f.type = "webrtc_answer" => NoHangup(wire'[<<PageOf(k), Owner[q]>>])
  <2>1. f.call = k /\ g.call = k
    BY <1>2, <1>5 DEF Awaited
  <2>2. /\ FrameOK(p, x, g) /\ 1 \in DOMAIN wire[<<p, x>>] /\ g = wire[<<p, x>>][1]
    BY <1>5, TakenFrame DEF Lines
  <2>3. g.by = k /\ PageOf(k) = p
    BY <1>5, <2>1, <2>2 DEF FrameOK
  <2>4. mgr[n] \in Listening /\ UserOf(n) = x
    BY <1>1, <1>5 DEF Hearing
  <2>5. Owner[q] = x
    BY <1>1, <1>5, <2>4, ManagerFacts DEF Listening
  <2>6. Stays(n, w)'
    <3>1. caller'[n][w] = k
      BY <1>1, <1>5, <2>1, TakenTables
    <3>2. mgr' = mgr
      BY <1>5, TakenIsQuiet
    <3>3. QED
      BY <2>4, <3>1, <3>2, Absent DEF Stays, Listening
  <2>7. NoHangup(wire[<<PageOf(k), x>>])
    <3>1. PICK s \in Seq(Frames) : s = wire[<<p, x>>]
      BY <1>3, WireOK
    <3>2. ASSUME NEW b \in DOMAIN s, s[b].type = "call_hangup" PROVE FALSE
      <4>1. mgr[s[1].by] \in Mounted
        BY <2>2, <2>3, <3>1 DEF Mounted
      <4>2. b < 1
        BY <2>2, <3>1, <3>2, <4>1 DEF Lines, HangupsFirst
      <4>3. QED
        BY <4>2
    <3>3. QED
      BY <2>3, <3>1, <3>2 DEF NoHangup
  <2>8. NoHangup(wire'[<<PageOf(k), x>>])
    BY <2>7, NoHangupStep DEF Mounted
  <2>9. QED
    BY <1>1, <2>5, <2>6, <2>8
<1>6. CASE /\ f = Frame("call_hangup", f.by, f.by)
           /\ Unmount(q) /\ f.by \in MountedOn(q) /\ caller[f.by][w] # Nobody
  BY <1>2, <1>6 DEF Awaited
<1>7. QED
  BY <1>4, <1>5, <1>6 DEF NewFrame

LEMMA ComingStep ==
  ASSUME Settled, Lines, Coming, [MeshNext]_allVars
  PROVE  Coming'
<1> SUFFICES ASSUME NEW k \in Joins, NEW q \in Conns, mgr'[k] \in {"init", "ready"},
                    NEW w, w = UserOf(k)', NEW t, t = wire'[<<q, w>>],
                    NEW a \in DOMAIN t, NEW f \in Frames, f = t[a], Quiet(k, f.by)', Awaited(k, f)'
             PROVE  /\ Stays(f.by, w)' \/ Farewell(t, a, f.by)
                    /\ f.type = "webrtc_answer" => NoHangup(wire'[<<PageOf(k)', Owner[q]>>])
  BY DEF Coming, ComingOn, ComingFrom, Stays, Farewell, NoHangup
<1>1. Settled' /\ MeshTypeOK /\ MeshTypeOK' /\ Lines'
  BY SettledStep, LinesStep DEF Settled
<1>2. w \in Users
  <2>1. conn'[k] \in Conns
    BY <1>1 DEF Settled, Sockets, RosterInv, ManagersWereJoined, CallsHaveSockets
  <2>2. QED
    BY <2>1, ProcessesDiffer, OwnerOfConns DEF UserOf
<1>3. FrameOK(q, w, f)'
  BY <1>1, <1>2 DEF Lines, FramesOK, FramesOn
<1>4. mgr[k] \in {"init", "ready"} /\ Awaited(k, f)
  BY <1>1, <1>3, AwaitedWas
<1>5. UserOf(k) = w /\ PageOf(k)' = PageOf(k)
  BY <1>4, ManagerKept
<1>6. <<q, w>> \in Conns \X Users /\ t \in Seq(Frames) /\ a \in Nat
  BY <1>1, <1>2 DEF MeshTypeOK
<1>7. PICK s \in Seq(Frames) : s = wire[<<q, w>>]
  BY <1>1, <1>2, WireOK
<1>8. PICK c \in {0, 1}, A \in SUBSET Frames : Passed(t, s, c, A) /\ \A g \in A : NewFrame(q, w, g)
  BY <1>2, <1>7, WirePasses
<1>9. CASE a + c \in DOMAIN s /\ t[a] = s[a + c]
  <2>0. Passed(wire'[<<q, w>>], wire[<<q, w>>], c, A)
    BY <1>7, <1>8
  <2>1. PICK d \in DOMAIN wire[<<q, w>>] : d = a + c /\ f = wire[<<q, w>>][d]
    BY <1>7, <1>9
  <2>2. /\ Stays(f.by, w)' \/ Farewell(t, a, f.by)
        /\ f.type = "webrtc_answer" => NoHangup(wire'[<<PageOf(k), Owner[q]>>])
    BY <1>2, <1>4, <1>5, <1>6, <2>0, <2>1, ComingKept
  <2>3. QED
    BY <1>5, <2>2
<1>10. CASE t[a] \in A
  <2>1. NewFrame(q, w, f)
    BY <1>8, <1>10
  <2>2. QED
    BY <1>2, <1>4, <1>5, <2>1, ComingNew
<1>11. QED
  BY <1>6, <1>8, <1>9, <1>10, FrameWas

----------------------------------------------------------------------------
\* The invariant of the connections.

LEMMA LinksInit == MeshInit => Links
<1> SUFFICES ASSUME MeshInit PROVE Links
  OBVIOUS
<1>1. Lines
  BY LinesInit
<1>2. roster = [u \in Users |-> Nobody]
  BY DEF MeshInit, Init
<1>3. Linked
  BY <1>2 DEF Linked, Pair
<1>4. \A k \in Joins : mgr[k] = "none"
  BY DEF MeshInit
<1>5. Heard
  BY <1>4 DEF Heard, HeardOK
<1>6. Coming
  BY <1>4 DEF Coming
<1>7. QED
  BY <1>1, <1>3, <1>5, <1>6 DEF Links

\* The tables of the managers and the frames under way agree: the phases of a call
\* between two that nothing has come between, and what they will hear of a farewell.
THEOREM LinksHold == MeshSpec => [](Settled /\ Links)
<1>1. MeshInit => Settled /\ Links
  BY SettledInit, LinksInit
<1>2. (Settled /\ Links) /\ [MeshNext]_allVars => (Settled /\ Links)'
  BY SettledStep, LinesStep, LinkedStep, HeardStep, ComingStep DEF Links
<1>3. QED
  BY <1>1, <1>2, PTL DEF MeshSpec

LEMMA RestConnects ==
  ASSUME Settled, Links
  PROVE  PeersConnect
<1> SUFFICES ASSUME AtRest, NEW u \in Users, NEW v \in Users, u # v,
                    NEW i, i = roster[u], NEW j, j = roster[v], i # Nobody, j # Nobody,
                    mgr[i] = "ready", mgr[j] = "ready"
             PROVE  \/ far[i][v] = j /\ far[j][u] = i /\ caller[i][v] = caller[j][u]
                    \/ i \in raced[j] \/ j \in raced[i]
                    \/ <<i, j>> \in missed \/ <<j, i>> \in missed
                    \/ {u, v} \cap stale # {}
                    \/ Another(u, PageOf(i)) \/ Another(v, PageOf(j))
  BY DEF PeersConnect
<1>1. i \in Joins /\ j \in Joins /\ OnlyOverlapsMiss
  BY DEF Settled, Sockets, RosterInv, TypeOK
<1>2. /\ UserOf(i) = u /\ UserOf(j) = v /\ PageOf(i) \in Conns /\ PageOf(j) \in Conns
  BY <1>1, PairFacts
<1>3. j \in saw[i] \/ i \in saw[j] \/ i \in raced[j] \/ j \in raced[i]
  BY DEF Settled, Sockets, RosterInv, OnlyOverlapsMiss
<1>4. Clean(i, j) \/ i \in raced[j] \/ j \in raced[i]
        \/ <<i, j>> \in missed \/ <<j, i>> \in missed
        \/ {u, v} \cap stale # {}
        \/ Another(u, PageOf(i)) \/ Another(v, PageOf(j))
  BY <1>2 DEF Clean
<1>5. wire[<<PageOf(i), v>>] = <<>> /\ wire[<<PageOf(j), u>>] = <<>>
  <2>1. <<PageOf(i), v>> \in Conns \X Users /\ <<PageOf(j), u>> \in Conns \X Users
    BY <1>2
  <2>2. QED
    BY <2>1 DEF AtRest
<1>6. \A a, b : ~Offering(i, <<>>, <<>>, a) /\ ~Answering(i, j, <<>>, <<>>, a, b)
                  /\ ~Offering(j, <<>>, <<>>, a) /\ ~Answering(j, i, <<>>, <<>>, a, b)
  BY DEF Offering, Answering
<1>7. ASSUME Clean(i, j), j \in saw[i]
      PROVE  far[i][v] = j /\ far[j][u] = i /\ caller[i][v] = caller[j][u]
  <2>1. LinkOK(i, j, u, v)
    BY <1>7 DEF Links, Linked, Pair
  <2>2. Connected(i, j, <<>>, Connection(i, v), Connection(j, u))
    BY <1>5, <1>6, <2>1 DEF LinkOK, Phase
  <2>3. QED
    BY <2>2 DEF Connected, Connection
<1>8. ASSUME Clean(i, j), i \in saw[j]
      PROVE  far[i][v] = j /\ far[j][u] = i /\ caller[i][v] = caller[j][u]
  <2>1. Clean(j, i)
    BY <1>8 DEF Clean
  <2>2. LinkOK(j, i, v, u)
    BY <1>8, <2>1 DEF Links, Linked, Pair
  <2>3. Connected(j, i, <<>>, Connection(j, u), Connection(i, v))
    BY <1>5, <1>6, <2>2 DEF LinkOK, Phase
  <2>4. QED
    BY <2>3 DEF Connected, Connection
<1>9. QED
  BY <1>3, <1>4, <1>7, <1>8

LEMMA RestIsSilent ==
  ASSUME Settled, Links
  PROVE  LeftIsSilent
<1> SUFFICES ASSUME AtRest, NEW k \in Joins, NEW u \in Users, NEW n, n = far[k][u],
                    mgr[k] = "ready", n # Nobody, Steady(u), Steady(UserOf(k)),
                    <<n, k>> \notin missed, <<k, n>> \notin missed,
                    u \notin stale, UserOf(k) \notin stale
             PROVE  mgr[n] \in Listening
  BY DEF LeftIsSilent
<1>1. n \in Joins
  BY DEF Settled, MeshTypeOK
<1>2. mgr[n] \in Spoken /\ UserOf(n) = u
  BY <1>1 DEF Links, Lines, TablesOK, TableOK
<1>3. PageOf(n) \in Conns /\ UserOf(k) \in Users
  BY <1>1, <1>2, ManagerFacts DEF Spoken
<1>4. HeardFrom(k, u, n)
  <2>1. Quiet(k, n)
    BY <1>2 DEF Quiet
  <2>2. QED
    BY <1>1, <2>1 DEF Links, Heard, HeardOK
<1>5. wire[<<PageOf(n), UserOf(k)>>] = <<>>
  <2>1. <<PageOf(n), UserOf(k)>> \in Conns \X Users
    BY <1>3
  <2>2. QED
    BY <2>1 DEF AtRest
<1>6. ~Farewell(<<>>, 0, n)
  BY DEF Farewell
<1>7. QED
  BY <1>4, <1>5, <1>6 DEF HeardFrom, Stays, Listening

\* When all is at rest, those of the roster are connected, in one call, unless one of
\* the listed things came between them, and nobody is connected to a page that left.
THEOREM PeersMeet == MeshSpec => []MeshConnects
<1>1. Settled /\ Links => MeshConnects
  BY RestConnects, RestIsSilent DEF MeshConnects
<1>2. QED
  BY <1>1, LinksHold, PTL
================================================================================
