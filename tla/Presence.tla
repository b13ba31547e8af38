-------------------------------- MODULE Presence --------------------------------
(***************************************************************************)
(* Who is online: onConnect, onDisconnect, the heartbeat, broadcastPresence *)
(* and presenceOf of ws.service.ts, the subscriptions of redis.kv.ts under *)
(* them, and the presence a contact's page shows (socket.ts, ChatPage.tsx). *)
(*                                                                         *)
(* One user connects with several sockets, on one or several instances of  *)
(* the gateway; one contact watches.  onConnect and onDisconnect of a      *)
(* socket run statement by statement between their awaits; commands of an  *)
(* instance go to the KV store, and settle, in one order, so that a        *)
(* command and the code after its await are one action.  SUBSCRIBE and     *)
(* UNSUBSCRIBE go over a connection of their own and are queued.           *)
(***************************************************************************)
EXTENDS Naturals, Sequences

CONSTANTS Conns, Instances,
          Routings,    \* the instances the connections may be routed to: functions
          MaxFaults    \* bound: crashes, failed SUBSCRIBEs, the contact's lost sockets

ASSUME FaultBound == MaxFaults \in Nat
ASSUME RoutingsAreFunctions == Routings \subseteq [Conns -> Instances]
ASSUME NamesDiffer == "unsub" \notin Conns

VARIABLES home,     \* c -> the instance its connection is routed to
          sock,     \* c -> "new", "open" or "closed", as the network has it
          pc,       \* c -> where its onConnect or onDisconnect is
          conns,    \* the sockets registered in their instance's map of the user
          first,    \* those that were the first there
          beats,    \* sockets with a heartbeat frame being handled
          key,      \* presence:{user} is set
          channels, \* instances whose handlers map has the user's channel
          handlers, \* the sockets in those sets
          subq,     \* instance -> (UN)SUBSCRIBEs Redis has not answered
          subbed,   \* instances Redis forwards the channel to
          watching, \* the contact's socket is open
          inbox,    \* presence frames on the way to the contact
          shown,    \* what the contact's page shows
          snap,     \* the snapshot: "none", "asked", what it answers, "done"
          faults,
          cut,      \* a SUBSCRIBE failed, or an instance crashed
          overlap,  \* "offline" was told while a socket was registered
          misled    \* the contact lost a frame, or a snapshot came out of date

sockets == <<home, sock, pc, conns, first>>
channel == <<channels, handlers, subq, subbed>>
contact == <<watching, inbox, shown, snap, misled>>
vars == <<sockets, beats, key, channel, contact, faults, cut, overlap>>

Statuses == {"online", "offline"}
Registered(i) == {c \in conns : home[c] = i}
Handling(i) == {c \in handlers : home[c] = i}
Serving == {c \in Conns : pc[c] = "serving" /\ sock[c] = "open"}
IsOnline == Serving # {}

TypeOK ==
  /\ home \in Routings
  /\ sock \in [Conns -> {"new", "open", "closed"}]
  /\ pc \in [Conns -> {"new", "subscribing", "register", "set", "announce", "serving",
                       "leave", "del", "stamp", "tell", "done", "stuck"}]
  /\ conns \cup first \cup beats \cup handlers \subseteq Conns
  /\ key \in BOOLEAN /\ watching \in BOOLEAN
  /\ channels \cup subbed \subseteq Instances
  /\ subq \in [Instances -> Seq(Conns \cup {"unsub"})]
  /\ inbox \in Seq(Statuses)
  /\ shown \in Statuses \cup {"unknown"}
  /\ snap \in Statuses \cup {"none", "asked", "done"}
  /\ faults \in 0..MaxFaults
  /\ {cut, overlap, misled} \subseteq BOOLEAN

Init == /\ home \in Routings
        /\ sock = [c \in Conns |-> "new"] /\ pc = [c \in Conns |-> "new"]
        /\ conns = {} /\ first = {} /\ beats = {} /\ key = FALSE
        /\ channels = {} /\ handlers = {} /\ subbed = {}
        /\ subq = [i \in Instances |-> <<>>]
        /\ watching = TRUE /\ inbox = <<>> /\ shown = "unknown" /\ snap = "none"
        /\ faults = 0 /\ cut = FALSE /\ overlap = FALSE /\ misled = FALSE

Goto(c, l) == pc' = [pc EXCEPT ![c] = l]
Fault == faults < MaxFaults /\ faults' = faults + 1

----------------------------------------------------------------------------
\* RedisKv.subscribe and the function it returns.

\* The upgrade is through and onConnect subscribes.  The channel's first entry
\* is made before its SUBSCRIBE; who finds one does not wait for it.
Connect(c) ==
  LET i == home[c] IN
  /\ sock[c] = "new" /\ sock' = [sock EXCEPT ![c] = "open"]
  /\ IF i \in channels
     THEN Goto(c, "register") /\ handlers' = handlers \cup {c} /\ UNCHANGED subq
     ELSE Goto(c, "subscribing") /\ subq' = [subq EXCEPT ![i] = Append(@, c)]
          /\ UNCHANGED handlers
  /\ channels' = channels \cup {i}
  /\ UNCHANGED <<home, conns, first, beats, key, subbed, contact, faults, cut, overlap>>

\* Redis answers.  If the entry is gone again, adding the handler throws and
\* onConnect ends there, with the socket open.
Subscribed(i) ==
  /\ subq[i] # <<>> /\ subq' = [subq EXCEPT ![i] = Tail(@)]
  /\ LET c == Head(subq[i]) IN
     IF c = "unsub"
     THEN subbed' = subbed \ {i} /\ UNCHANGED <<pc, handlers>>
     ELSE /\ subbed' = subbed \cup {i}
          /\ IF i \in channels THEN Goto(c, "register") /\ handlers' = handlers \cup {c}
             ELSE Goto(c, "stuck") /\ UNCHANGED handlers
  /\ UNCHANGED <<home, sock, conns, first, beats, key, channels, contact, faults, cut, overlap>>

\* The SUBSCRIBE fails: onConnect ends, and the entry stays.
SubscribeFails(i) ==
  /\ Fault /\ cut' = TRUE
  /\ subq[i] # <<>> /\ Head(subq[i]) # "unsub"
  /\ subq' = [subq EXCEPT ![i] = Tail(@)]
  /\ Goto(Head(subq[i]), "stuck")
  /\ UNCHANGED <<home, sock, conns, first, beats, key, channels, handlers, subbed, contact,
                 overlap>>

\* Mutant: the channel goes with any of its handlers, not with the last.
UnsubscribeAlways(c) ==
  LET i == home[c] IN
  /\ handlers' = handlers \ {c} /\ channels' = channels \ {i}
  /\ subq' = [subq EXCEPT ![i] = Append(@, "unsub")]

Unsubscribe(c) ==
  LET i == home[c] last == Handling(i) \subseteq {c} /\ i \in channels IN
  /\ handlers' = handlers \ {c}
  /\ channels' = IF last THEN channels \ {i} ELSE channels
  /\ subq' = IF last THEN [subq EXCEPT ![i] = Append(@, "unsub")] ELSE subq

----------------------------------------------------------------------------
\* onConnect.

Register(c) ==
  /\ pc[c] = "register" /\ Goto(c, "set")
  /\ conns' = conns \cup {c}
  /\ first' = IF Registered(home[c]) \subseteq {c} THEN first \cup {c} ELSE first
  /\ UNCHANGED <<home, sock, beats, key, channel, contact, faults, cut, overlap>>

SetOnline(c) ==
  /\ pc[c] = "set" /\ Goto(c, IF c \in first THEN "announce" ELSE "serving")
  /\ key' = TRUE
  /\ UNCHANGED <<home, sock, conns, first, beats, channel, contact, faults, cut, overlap>>

\* broadcastPresence, for the one contact: a publish reaches an open socket.
Publish(status) ==
  /\ inbox' = IF watching THEN Append(inbox, status) ELSE inbox
  /\ misled' = (misled \/ ~watching)
  /\ UNCHANGED <<watching, shown, snap>>

\* Then the listeners for frames and for close are attached, late for a socket
\* that has closed by now: its close event is never seen.
Announce(c) ==
  /\ pc[c] = "announce" /\ Goto(c, "serving")
  /\ Publish("online")
  /\ UNCHANGED <<home, sock, conns, first, beats, key, channel, faults, cut, overlap>>

\* A heartbeat frame passes the flood guard first, and sets the key then.
Beat(c) ==
  /\ c \in Serving \ beats /\ beats' = beats \cup {c}
  /\ UNCHANGED <<sockets, key, channel, contact, faults, cut, overlap>>

\* Mutant: only a key that is still there is renewed (SET XX).
HeartbeatRenews(c) ==
  /\ c \in beats /\ beats' = beats \ {c}
  /\ key' = key
  /\ UNCHANGED <<sockets, channel, contact, faults, cut, overlap>>

Heartbeat(c) ==
  /\ c \in beats /\ beats' = beats \ {c}
  /\ key' = TRUE
  /\ UNCHANGED <<sockets, channel, contact, faults, cut, overlap>>

----------------------------------------------------------------------------
\* onDisconnect.

Close(c) ==
  /\ sock[c] = "open" /\ sock' = [sock EXCEPT ![c] = "closed"]
  /\ IF pc[c] = "serving" THEN Goto(c, "leave") /\ Unsubscribe(c)
     ELSE UNCHANGED <<pc, channels, handlers, subq>>
  /\ UNCHANGED <<home, conns, first, beats, key, subbed, contact, faults, cut, overlap>>

\* Mutant: the user's entry is never seen empty.
LeaveQuietly(c) ==
  /\ pc[c] = "leave" /\ Goto(c, "done")
  /\ conns' = conns \ {c}
  /\ UNCHANGED <<home, sock, first, beats, key, channel, contact, faults, cut, overlap>>

\* After the rooms: the map is that of this instance.
Leave(c) ==
  /\ pc[c] = "leave"
  /\ conns' = conns \ {c}
  /\ Goto(c, IF Registered(home[c]) \subseteq {c} THEN "del" ELSE "done")
  /\ UNCHANGED <<home, sock, first, beats, key, channel, contact, faults, cut, overlap>>

Delete(c) == /\ pc[c] = "del" /\ Goto(c, "stamp") /\ key' = FALSE
             /\ UNCHANGED <<home, sock, conns, first, beats, channel, contact, faults, cut,
                            overlap>>

LastSeen(c) == /\ pc[c] = "stamp" /\ Goto(c, "tell")
               /\ UNCHANGED <<home, sock, conns, first, beats, key, channel, contact, faults,
                              cut, overlap>>

TellOffline(c) ==
  /\ pc[c] = "tell" /\ Goto(c, "done")
  /\ Publish("offline")
  /\ overlap' = (overlap \/ conns # {})
  /\ UNCHANGED <<home, sock, conns, first, beats, key, channel, faults, cut>>

----------------------------------------------------------------------------
\* The environment and the contact.

\* 45 s without a heartbeat.
Expire == /\ key /\ ~IsOnline /\ key' = FALSE
          /\ UNCHANGED <<sockets, beats, channel, contact, faults, cut, overlap>>

\* An instance dies, and tells nobody.
Crash(i) ==
  LET S == {c \in Conns : home[c] = i /\ pc[c] # "new"} IN
  /\ Fault /\ cut' = TRUE
  /\ sock' = [c \in Conns |-> IF c \in S THEN "closed" ELSE sock[c]]
  /\ pc' = [c \in Conns |-> IF c \in S THEN "done" ELSE pc[c]]
  /\ conns' = conns \ S /\ beats' = beats \ S /\ handlers' = handlers \ S
  /\ channels' = channels \ {i} /\ subbed' = subbed \ {i}
  /\ subq' = [subq EXCEPT ![i] = <<>>]
  /\ UNCHANGED <<home, first, key, contact, overlap>>

\* A frame is dispatched into the store.
Show == /\ inbox # <<>> /\ inbox' = Tail(inbox) /\ shown' = Head(inbox)
        /\ misled' = (misled \/ snap \in Statuses)
        /\ UNCHANGED <<sockets, beats, key, channel, watching, snap, faults, cut, overlap>>

\* ChatPage mounts and asks for a snapshot; nothing asks for one again.
Ask == /\ snap = "none" /\ snap' = "asked"
       /\ UNCHANGED <<sockets, beats, key, channel, watching, inbox, shown, misled,
                      faults, cut, overlap>>

PresenceOf == /\ snap = "asked"
              /\ snap' = IF key THEN "online" ELSE "offline"
              /\ misled' = (misled \/ key # IsOnline \/ key # (conns # {})
                                    \/ inbox # <<>>)
              /\ UNCHANGED <<sockets, beats, key, channel, watching, inbox, shown,
                             faults, cut, overlap>>

ShowSnapshot == /\ snap \in Statuses /\ snap' = "done" /\ shown' = snap
                /\ UNCHANGED <<sockets, beats, key, channel, watching, inbox, misled,
                               faults, cut, overlap>>

\* The contact's socket closes, and comes back without a new snapshot.
Unwatch == /\ watching /\ Fault /\ watching' = FALSE
           /\ inbox' = <<>> /\ misled' = (misled \/ inbox # <<>>)
           /\ UNCHANGED <<sockets, beats, key, channel, shown, snap, cut, overlap>>
Watch == /\ ~watching /\ watching' = TRUE
         /\ UNCHANGED <<sockets, beats, key, channel, inbox, shown, snap, misled,
                        faults, cut, overlap>>

----------------------------------------------------------------------------
Handler(c) == \/ Register(c) \/ SetOnline(c) \/ Announce(c)
              \/ Leave(c) \/ Delete(c) \/ LastSeen(c) \/ TellOffline(c)
Contact == Show \/ Ask \/ PresenceOf \/ ShowSnapshot \/ Watch

Next == \/ \E c \in Conns : Connect(c) \/ Handler(c) \/ Beat(c) \/ Heartbeat(c) \/ Close(c)
        \/ \E i \in Instances : Subscribed(i) \/ SubscribeFails(i) \/ Crash(i)
        \/ Expire \/ Contact \/ Unwatch

Spec == Init /\ [][Next]_vars

\* What the code starts goes on, pages beat while they are open, and a key
\* nobody renews expires.
FairSpec == /\ Spec
            /\ \A c \in Conns : WF_vars(Handler(c)) /\ WF_vars(Beat(c) \/ Heartbeat(c))
            /\ \A i \in Instances : WF_vars(Subscribed(i))
            /\ WF_vars(Expire)

----------------------------------------------------------------------------
\* Properties.

AtRest == /\ inbox = <<>> /\ snap \notin Statuses
          /\ \A c \in Conns : pc[c] \in {"new", "serving", "done", "stuck"}

\* Registered sockets whose close nobody saw.
Leaked == {c \in conns : pc[c] = "serving" /\ sock[c] = "closed"}

\* No socket is deaf: what is published to the user reaches every socket that is
\* being served, or its channel's SUBSCRIBE is on the way.  Only a SUBSCRIBE that
\* failed before leaves a channel that nobody subscribes to again.
NobodyIsDeaf ==
  \A c \in Serving : LET i == home[c] IN
    /\ c \in handlers
    /\ \/ cut
       \/ i \in subbed /\ \A n \in DOMAIN subq[i] : subq[i][n] # "unsub"
       \/ \E n \in DOMAIN subq[i] :
            /\ subq[i][n] \in Conns
            /\ \A k \in DOMAIN subq[i] : k > n => subq[i][k] # "unsub"

\* The (UN)SUBSCRIBEs of an instance are those of sockets that wait for them, each
\* once.
QueueWaits ==
  \A i \in Instances : \A n \in DOMAIN subq[i] : subq[i][n] # "unsub" =>
    /\ home[subq[i][n]] = i /\ pc[subq[i][n]] = "subscribing"
    /\ \A k \in DOMAIN subq[i] : subq[i][k] = subq[i][n] => k = n

\* When all is answered Redis forwards the channel exactly where it has an entry.
WillForward(i) == IF subq[i] = <<>> THEN i \in subbed
                                    ELSE subq[i][Len(subq[i])] # "unsub"

QueueMatches == \A i \in Instances : IF i \in channels THEN cut \/ WillForward(i)
                                                       ELSE ~WillForward(i)

\* A contact that sees the user online when everything has settled sees right.
\* What leaves a ghost is a socket that closed before its listeners were
\* attached, a crash, a frame the contact lost, or an outdated snapshot.
OnlineIsTrue ==
  AtRest /\ shown = "online" => IsOnline \/ Leaked # {} \/ cut \/ misled

\* A contact that sees the user offline sees right too, unless the farewell of
\* an earlier socket was told after a later one had registered: a status change
\* repairs it, no heartbeat does.  A leaked socket keeps later ones from being the
\* first, but its own "online" is the one they need.
OfflineIsTrue ==
  AtRest /\ shown = "offline" => ~IsOnline \/ overlap \/ misled

\* What they rest on: what the contact will see when all that was published has
\* arrived.  "online" is of a registered socket, or the last to leave has yet to
\* tell; and after "offline" the first socket of every instance has yet to tell.
WillShow == IF inbox # <<>> THEN inbox[Len(inbox)]
            ELSE IF snap \in Statuses THEN snap ELSE shown

FarewellsFollow ==
  WillShow = "online" =>
    conns # {} \/ cut \/ misled \/ \E c \in Conns : pc[c] \in {"del", "stamp", "tell"}

GreetingsFollow ==
  WillShow = "offline" =>
    \/ overlap \/ misled
    \/ \A i \in Instances : Registered(i) # {} =>
         \E c \in Registered(i) \cap first : pc[c] \in {"set", "announce"}

\* A socket is registered from onConnect's entry to onDisconnect's, and handles
\* the channel from its subscription to its close; onConnect starts with the
\* socket.
MapsMatch ==
  /\ \A c \in Conns : sock[c] = "new" => pc[c] = "new"
  /\ conns = {c \in Conns : pc[c] \in {"set", "announce", "serving", "leave"}}
  /\ handlers = {c \in Conns : pc[c] \in {"register", "set", "announce", "serving"}}

HandlersHaveEntries == \A i \in Instances : Handling(i) # {} => i \in channels

\* A channel that Redis forwards has an entry, or its UNSUBSCRIBE is on the way.
ForwardsEnd == \A i \in subbed \ channels : \E n \in DOMAIN subq[i] : subq[i][n] = "unsub"

\* What keeps the subscriptions and the contact right, and nobody is deaf.
PresenceInv ==
  /\ TypeOK
  /\ MapsMatch
  /\ HandlersHaveEntries
  /\ QueueWaits
  /\ QueueMatches
  /\ ForwardsEnd
  /\ FarewellsFollow
  /\ GreetingsFollow
  /\ NobodyIsDeaf

\* Contacts end up with the truth.
ShownIsTrue == OnlineIsTrue /\ OfflineIsTrue

\* The key heals by itself, whatever farewell or late heartbeat came across: it
\* comes to stay for a user who stays, and to be gone for one who left.
KeyHeals == /\ <>[]IsOnline => <>[]key
            /\ <>[](\A c \in Conns : pc[c] \in {"new", "done"}) => <>[]~key
=============================================================================
