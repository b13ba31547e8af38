---------------------------------- MODULE Mesh ----------------------------------
(***************************************************************************)
(* The pages of a meeting room and their peer connections, on the roster   *)
(* of module Rooms: RoomPage.tsx, the room cases of dispatch (socket.ts),  *)
(* the mesh of RtcManager (rtc.ts) and its frames through onRtcRelay.      *)
(*                                                                         *)
(* A room_state that finds its page in the hub mounts InCall, which makes  *)
(* an RtcManager; a manager has the name of that join.  Nothing happens to *)
(* a manager until its init is through, that is until ice-config answers   *)
(* and the user has allowed the camera or not: only then does it listen,   *)
(* and offers to the peers the room_state gave it.  The callId of an offer *)
(* is the manager that made it, with the user it is for.                   *)
(*                                                                         *)
(* The frames of the gateway arrive with the step that publishes them;     *)
(* those of a page to another user are under way in the order they were    *)
(* sent.  ICE candidates and media are left out: a connection that has     *)
(* both descriptions is taken to connect.                                  *)
(***************************************************************************)
EXTENDS Rooms, Sequences

ASSUME JoinsAreFinite == IsFiniteSet(Joins)

VARIABLES peers,    \* page -> room.peers of its store
          mgr,      \* manager -> how far it is
          caller,   \* manager -> user -> who made the offer, or Nobody: peers, callIds
          far,      \* manager -> user -> the other end, once its description is set
          wire,     \* <<page, user>> -> frames under way from the page to the user
          missed,   \* <<i, k>>: manager k was not there for a frame of manager i,
                    \* or took one of i's user that was not meant for it
          stale     \* users who left across a join: one they were read by, or one
                    \* of their own, was not through, or they were back already

meshVars == <<peers, mgr, caller, far, wire, missed, stale>>
allVars == <<vars, meshVars>>

PageOf(k) == page[conn[k]]
Given(j) == {UserOf(i) : i \in saw[j]}

\* The one manager of a page that shows a call, and those that hear its socket:
\* "cut" was destroyed before its init was through, "undead" went on nevertheless.
Mounted == {"init", "failed", "ready"}
Listening == {"ready", "undead"}
MountedOn(p) == {k \in Joins : mgr[k] \in Mounted /\ PageOf(k) = p}
Hearing(u) == {k \in Joins : mgr[k] \in Listening /\ UserOf(k) = u /\ HasSocket(PageOf(k))}

Frames == [type : {"webrtc_offer", "webrtc_answer", "call_hangup"}, call : Joins, by : Joins]
Frame(type, call, by) == [type |-> type, call |-> call, by |-> by]

MeshTypeOK ==
  /\ peers \in [Conns -> SUBSET Users]
  /\ mgr \in [Joins -> Mounted \cup Listening \cup {"none", "cut", "gone"}]
  /\ caller \in [Joins -> [Users -> Joins \cup {Nobody}]]
  /\ far \in [Joins -> [Users -> Joins \cup {Nobody}]]
  /\ wire \in [Conns \X Users -> Seq(Frames)]
  /\ missed \subseteq Joins \X Joins
  /\ stale \subseteq Users

MeshInit == /\ Init
            /\ peers = [p \in Conns |-> {}]
            /\ mgr = [j \in Joins |-> "none"]
            /\ caller = [j \in Joins |-> [u \in Users |-> Nobody]]
            /\ far = [j \in Joins |-> [u \in Users |-> Nobody]]
            /\ wire = [d \in Conns \X Users |-> <<>>]
            /\ missed = {}
            /\ stale = {}

----------------------------------------------------------------------------
\* What the gateway tells the pages.

\* room_state replaces the store's room; a page in the hub mounts InCall.
EnterRoom(j) ==
  LET p == PageOf(j) IN
  /\ Enter(j)
  /\ IF state[conn[j]] = "up"
       THEN /\ peers' = [peers EXCEPT ![p] = Given(j)]
            /\ mgr' = IF view[p] = "hub" THEN [mgr EXCEPT ![j] = "init"] ELSE mgr
       ELSE UNCHANGED <<peers, mgr>>
  /\ UNCHANGED <<caller, far, wire, missed, stale>>

\* room_peer_joined to those the joiner was given.
PeerJoined(j) ==
  /\ TellJoined(j)
  /\ peers' = [p \in Conns |->
       IF HasSocket(p) /\ view[p] = "call" /\ Owner[p] \in Given(j)
         THEN peers[p] \cup {UserOf(j)} ELSE peers[p]]
  /\ UNCHANGED <<mgr, caller, far, wire, missed, stale>>

RemovePeer(p) ==
  /\ Remove(p)
  /\ LET u == UserOf(p)
         unsure == \E i \in Joins : \/ pc[i] = "put" /\ u \in Given(i)
                                    \/ pc[i] = "tell" /\ UserOf(i) = u
         again == p \in Leaves /\ view[PageOf(p)] = "call"
     IN stale' = IF unsure \/ again THEN stale \cup {u} ELSE stale
  /\ UNCHANGED <<peers, mgr, caller, far, wire, missed>>

\* closePeer: whatever connection a manager of the set has to the user is closed.
Close(table, managers, u) ==
  [k \in Joins |-> IF k \in managers THEN [table[k] EXCEPT ![u] = Nobody] ELSE table[k]]

\* Mutant: only those who press Leave are announced.
PeerLeftQuietly(p) ==
  /\ TellLeft(p)
  /\ stale' = IF UserOf(p) \in Present THEN stale \cup {UserOf(p)} ELSE stale
  /\ UNCHANGED <<peers, caller, far, mgr, wire, missed>>

\* room_peer_left to those who remain, for the tiles and for closePeer.
PeerLeft(p) ==
  LET u == UserOf(p)
      told == UNION {Hearing(v) : v \in Present}
  IN
  /\ TellLeft(p)
  /\ peers' = [q \in Conns |->
       IF HasSocket(q) /\ view[q] = "call" /\ Owner[q] \in Present
         THEN peers[q] \ {u} ELSE peers[q]]
  /\ caller' = Close(caller, told, u)
  /\ far' = Close(far, told, u)
  /\ stale' = IF u \in Present THEN stale \cup {u} ELSE stale
  /\ UNCHANGED <<mgr, wire, missed>>

----------------------------------------------------------------------------
\* The manager of a page.

\* wsSend for each of the users, on the socket of the page, if it has one.
Sent(p, users, f) ==
  IF HasSocket(p)
    THEN [d \in Conns \X Users |->
           IF d[1] = p /\ d[2] \in users THEN Append(wire[d], f) ELSE wire[d]]
    ELSE wire

\* Mutant: the offers go to whom the page shows now, not to whom the mount was given.
OfferToShown(k) ==
  LET shown == peers[PageOf(k)] IN
  /\ mgr[k] \in {"init", "cut"}
  /\ mgr' = [mgr EXCEPT ![k] = IF @ = "init" THEN "ready" ELSE "undead"]
  /\ caller' = [caller EXCEPT ![k] = [u \in Users |-> IF u \in shown THEN k ELSE @[u]]]
  /\ wire' = Sent(PageOf(k), shown, Frame("webrtc_offer", k, k))
  /\ missed' = IF HasSocket(PageOf(k)) THEN missed ELSE missed \cup ({k} \X Joins)
  /\ UNCHANGED <<vars, peers, far, stale>>

\* init is through: joinRoomMesh offers to all that the mount was given, also if
\* the manager was destroyed meanwhile.
JoinRoomMesh(k) ==
  /\ mgr[k] \in {"init", "cut"}
  /\ mgr' = [mgr EXCEPT ![k] = IF @ = "init" THEN "ready" ELSE "undead"]
  /\ caller' = [caller EXCEPT ![k] = [u \in Users |-> IF u \in Given(k) THEN k ELSE @[u]]]
  /\ wire' = Sent(PageOf(k), Given(k), Frame("webrtc_offer", k, k))
  /\ missed' = IF HasSocket(PageOf(k)) THEN missed ELSE missed \cup ({k} \X Joins)
  /\ UNCHANGED <<vars, peers, far, stale>>

\* ice-config cannot be fetched, and nobody catches it.
InitFails(k) ==
  /\ Losses < MaxLosses /\ mgr[k] \in {"init", "cut"}
  /\ mgr' = [mgr EXCEPT ![k] = IF @ = "init" THEN "failed" ELSE "gone"]
  /\ UNCHANGED <<vars, peers, caller, far, wire, missed, stale>>

\* Mutant: the page goes back to the hub and its manager is not destroyed.
UnmountKeeps(p) ==
  /\ peers' = [peers EXCEPT ![p] = {}]
  /\ UNCHANGED <<mgr, caller, far, wire, missed, stale>>

\* rtc.destroy and room: null.  hangupAll tells every peer there is.
Unmount(p) ==
  LET m == MountedOn(p)
      called == {u \in Users : \E k \in m : caller[k][u] # Nobody}
  IN
  /\ peers' = [peers EXCEPT ![p] = {}]
  /\ mgr' = [k \in Joins |-> IF k \notin m THEN mgr[k]
                             ELSE IF mgr[k] = "init" THEN "cut" ELSE "gone"]
  /\ caller' = [k \in Joins |-> IF k \in m THEN [u \in Users |-> Nobody] ELSE caller[k]]
  /\ far' = [k \in Joins |-> IF k \in m THEN [u \in Users |-> Nobody] ELSE far[k]]
  /\ wire' = IF m = {} THEN wire
             ELSE LET k == CHOOSE k \in m : TRUE
                  IN Sent(p, called, Frame("call_hangup", k, k))
  /\ UNCHANGED <<missed, stale>>

LeavePage(l, c) == Leave(l, c) /\ Unmount(page[c])
LeavePageOffline(p) == LeaveOffline(p) /\ Unmount(p)

----------------------------------------------------------------------------
\* The relay: a frame reaches all pages of the user that have a socket, and in
\* each of them the manager that listens.

\* A late frame.  An offer is meant for a manager its sender was given, a hangup also
\* for one that was given its sender; an answer has its callId.
Stray(f, k) ==
  /\ k \notin saw[f.by]
  /\ \/ f.type = "webrtc_offer" /\ UserOf(k) \in Given(f.by)
     \/ f.type = "call_hangup" /\ f.by \notin saw[k]

\* The first frame from page p to user u is taken off the wire, and was missed by
\* the managers of u that do not listen yet, or have no socket.  Those that listen
\* take it, also one for an earlier manager of u.
Relayed(p, u, f) ==
  /\ missed' = missed
       \cup {<<f.by, k>> : k \in {k \in Joins :
                mgr[k] \in Mounted /\ UserOf(k) = u /\ k \notin Hearing(u)}}
       \cup {i \in Joins : mgr[i] # "none" /\ UserOf(i) = Owner[p]}
              \X {k \in Hearing(u) : Stray(f, k)}
  /\ UNCHANGED <<vars, peers, mgr, stale>>

\* The orders in which the listeners of a page may take a frame.
Orders(managers) == {o \in [1 .. Cardinality(managers) -> managers] :
                       \A k \in managers : \E n \in DOMAIN o : o[n] = k}

\* An offer of the room is accepted at once: newPeer, its description, the answer.
AcceptCall(p, u, f) ==
  LET w == Owner[p]
      on(q) == {k \in Hearing(u) : PageOf(k) = q}
  IN
  /\ f.type = "webrtc_offer"
  /\ Relayed(p, u, f)
  /\ caller' = [k \in Joins |-> IF k \in Hearing(u) THEN [caller[k] EXCEPT ![w] = f.call]
                                                    ELSE caller[k]]
  /\ far' = [k \in Joins |-> IF k \in Hearing(u) THEN [far[k] EXCEPT ![w] = f.by] ELSE far[k]]
  /\ \E order \in [Conns -> UNION {Orders(on(q)) : q \in Conns}] :
       /\ \A q \in Conns : order[q] \in Orders(on(q))
       /\ wire' = [d \in Conns \X Users |->
            LET rest == IF d = <<p, u>> THEN Tail(wire[d]) ELSE wire[d]
                mine == order[d[1]]
            IN IF d[2] # w THEN rest
               ELSE rest \o [n \in DOMAIN mine |-> Frame("webrtc_answer", f.call, mine[n])]]

\* An answer is set where its callId is that of the connection; a second one is
\* refused by the connection itself.
ReceiveAnswer(p, u, f) ==
  LET w == Owner[p] IN
  /\ f.type = "webrtc_answer"
  /\ Relayed(p, u, f)
  /\ far' = [k \in Joins |->
       IF k \in Hearing(u) /\ caller[k][w] = f.call /\ far[k][w] = Nobody
         THEN [far[k] EXCEPT ![w] = f.by] ELSE far[k]]
  /\ wire' = [wire EXCEPT ![<<p, u>>] = Tail(@)]
  /\ UNCHANGED caller

\* A hangup closes the connection to its sender, whichever call it names.
ReceiveHangup(p, u, f) ==
  LET w == Owner[p] IN
  /\ f.type = "call_hangup"
  /\ Relayed(p, u, f)
  /\ caller' = Close(caller, Hearing(u), w)
  /\ far' = Close(far, Hearing(u), w)
  /\ wire' = [wire EXCEPT ![<<p, u>>] = Tail(@)]

OnSignal(p, u) ==
  /\ wire[<<p, u>>] # <<>>
  /\ LET f == Head(wire[<<p, u>>])
     IN  AcceptCall(p, u, f) \/ ReceiveAnswer(p, u, f) \/ ReceiveHangup(p, u, f)

----------------------------------------------------------------------------
\* Steps of the gateway that the pages do not see.
Unseen == \/ \E c \in Conns : \/ Open(c) \/ Drop(c)
                              \/ \E d \in Conns : Reopen(c, d)
                              \/ \E j \in Joins : Join(j, c)
          \/ \E j \in Joins : NotFound(j) \/ ReadRoster(j)
          \/ \E p \in Processes : Fail(p)
          \/ \E dead \in SUBSET Conns : Crash(dead)

MeshNext ==
  \/ Unseen /\ UNCHANGED meshVars
  \/ \E j \in Joins : EnterRoom(j) \/ PeerJoined(j) \/ JoinRoomMesh(j) \/ InitFails(j)
  \/ \E p \in Processes \ Joins : RemovePeer(p) \/ PeerLeft(p)
  \/ \E c \in Conns : LeavePageOffline(c) \/ \E l \in Leaves : LeavePage(l, c)
  \/ \E p \in Conns, u \in Users : OnSignal(p, u)

MeshSpec == MeshInit /\ [][MeshNext]_allVars

----------------------------------------------------------------------------
\* Properties.

AtRest == /\ \A p \in Processes : pc[p] \in {"new", "done"}
          /\ \A d \in Conns \X Users : wire[d] = <<>>
          /\ \A k \in Joins : mgr[k] \notin {"init", "cut"}

\* A further manager that the user has or had: of another tab than page p, or of
\* a page left before its init was through.
Another(u, p) == \E k \in Joins : /\ mgr[k] # "none" /\ UserOf(k) = u
                                  /\ mgr[k] = "undead" \/ PageOf(k) # p

\* webrtc-signaling-flow.md:39-42: the joiner offers to those who are there, and
\* "everyone already present just answers".  So of two users on the roster the
\* managers that mounted with their entries end up connected in one call,
\* unless the joins overlapped, one was not listening yet when the other's frame
\* came, a frame reached one that was meant for an earlier entry of its user, a
\* farewell came after its user was back, or one of the two has a further manager,
\* which answers too, and whose hangup closes the wrong connection.
PeersConnect ==
  AtRest => \A u, v \in Users :
    LET i == roster[u]  j == roster[v] IN
    (u # v /\ i # Nobody /\ j # Nobody /\ mgr[i] = "ready" /\ mgr[j] = "ready") =>
      \/ far[i][v] = j /\ far[j][u] = i /\ caller[i][v] = caller[j][u]
      \/ i \in raced[j] \/ j \in raced[i]
      \/ <<i, j>> \in missed \/ <<j, i>> \in missed
      \/ {u, v} \cap stale # {}
      \/ Another(u, PageOf(i)) \/ Another(v, PageOf(j))

\* A user of one page whose socket never closed: nothing else takes it off the
\* roster, and it hears all that is published to it.
Steady(u) == \E c \in Conns : \A d \in Conns :
               Owner[d] = u => state[d] = IF d = c THEN "up" ELSE "new"

Overlapped(u, v) == \E i, j \in Joins : /\ i \in raced[j] \/ j \in raced[i]
                                        /\ {UserOf(i), UserOf(j)} = {u, v}

\* A page that shows a call is on the roster and shows who else is, no matter how
\* room_state, room_peer_joined and room_peer_left come about, unless two joins
\* overlapped or somebody left across a join.  A page that lost its socket is
\* neither, for it does not join again when it has the next one, and with two
\* pages of a user the one that leaves takes the other off the roster.
TilesAreTrue ==
  AtRest /\ ~faulted => \A p \in Conns : LET u == Owner[p] IN
    (view[p] = "call" /\ Steady(u) /\ u \notin stale) =>
      /\ u \in Present
      /\ \A v \in Users \ {u} : \/ v \in peers[p] <=> v \in Present
                                \/ v \in stale
                                \/ Overlapped(u, v)

\* Nobody stays connected to a page that has left: its hangups, or the
\* room_peer_left, come after all it offered and answered.  Only a page that leaves
\* before its init is through comes back from the hub to offer, and only a late
\* frame of an earlier page connects or parts the wrong two.
LeftIsSilent ==
  AtRest => \A k \in Joins, u \in Users :
    (mgr[k] = "ready" /\ far[k][u] # Nobody /\ Steady(u) /\ Steady(UserOf(k))) =>
      \/ mgr[far[k][u]] \in Listening
      \/ {<<far[k][u], k>>, <<k, far[k][u]>>} \cap missed # {}
      \/ {u, UserOf(k)} \cap stale # {}

MeshConnects == PeersConnect /\ LeftIsSilent

\* A page that shows a call has one manager, any other page has none.
OneManager ==
  \A p \in Conns : IF view[p] = "call" THEN \E k \in Joins : MountedOn(p) = {k}
                                      ELSE MountedOn(p) = {}

\* What OneManager rests on: a manager comes with the room_state of its join, and a
\* socket has carried no frame before it is open, nor has it closed before
\* onDisconnect runs; a page that never lost its socket has its first one.
ManagersWereJoined ==
  \A k \in Joins : mgr[k] # "none" => pc[k] \in {"tell", "done"}

FramesHadSockets ==
  /\ \A p \in Joins \cup Leaves : pc[p] # "new" => state[conn[p]] # "new"
  /\ \A c \in Conns : pc[c] # "new" => state[c] = "closed"

PagesAreOwn ==
  \A c \in Conns :
    /\ Owner[page[c]] = Owner[c]
    /\ page[c] = c \/ \E d \in Conns : Owner[d] = Owner[c] /\ state[d] = "closed"

\* What TilesAreTrue rests on.  Those a joiner read are there when it enters, and it
\* is there itself when it tells them, or left across that join.  And whoever has
\* had one page and one socket all along is on the roster while the page shows a
\* call, with a tile for each of the others: a tile of one who left only until the
\* farewell comes, and none of one who came only until it has told.
ReadersAreTimely ==
  \A j \in Joins : /\ pc[j] = "put" => Given(j) \subseteq Present \cup stale
                   /\ pc[j] = "tell" => UserOf(j) \in Present \cup stale

Undisturbed(p) == ~faulted /\ view[p] = "call" /\ Steady(Owner[p]) /\ Owner[p] \notin stale

Leaving(v) == \E q \in Processes \ Joins : pc[q] = "rest" /\ UserOf(q) = v
Telling(v, w) == pc[roster[v]] = "tell" /\ w \in Given(roster[v])

TileFollows(p, v) ==
  /\ v \in peers[p] => v \in Present \/ Leaving(v)
  /\ v \in Present => v \in peers[p] \/ Telling(v, Owner[p]) \/ Overlapped(Owner[p], v)

TilesFollow ==
  \A p \in Conns : Undisturbed(p) =>
    /\ Owner[p] \in Present
    /\ \A v \in Users \ ({Owner[p]} \cup stale) : TileFollows(p, v)

MeshInv == /\ MeshTypeOK
           /\ OneManager
           /\ ManagersWereJoined
           /\ FramesHadSockets
           /\ PagesAreOwn
           /\ ReadersAreTimely
           /\ TilesFollow
================================================================================
