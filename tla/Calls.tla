--------------------------------- MODULE Calls ---------------------------------
(***************************************************************************)
(* One-to-one calls: RtcManager (rtc.ts), CallOverlay.tsx, the part of     *)
(* socket.ts that dispatches offers and hangups, and onRtcRelay of         *)
(* ws.service.ts between them.                                             *)
(*                                                                         *)
(* A tab keeps the ring it shows (incoming), the call on its screen        *)
(* (active) and the manager its component holds (current).  Every start    *)
(* and every Accept makes a manager; it works through awaits in which the  *)
(* user may press anything and any frame may arrive:                       *)
(*   "init"   ice-config and getUserMedia; not subscribed to frames yet    *)
(*   "setup"  subscribed, its RTCPeerConnection made, descriptions awaited *)
(*   "done"   the offer or the answer is sent                              *)
(*                                                                         *)
(* The relay keeps no state.  It publishes to the user's channel, so that  *)
(* every connected tab of the addressee gets a frame; an offline addressee *)
(* is answered with an error the client only logs, so the frame is lost.   *)
(* A frame's sdp stands for the manager that made it.  ICE candidates      *)
(* carry no state of the protocol and are left out.                        *)
(***************************************************************************)
EXTENDS Naturals, FiniteSets, SequencesExt

CONSTANTS Users, Tabs,
          Owner,        \* Owner[t] is the user signed in at tab t
          MaxCalls,     \* bound: calls started
          MaxManagers,  \* bound: managers made
          Flaky,        \* tabs that may lose their socket, reload or fail in init
          MaxFaults     \* bound: such faults

ASSUME OwnerOfTabs == Owner \in [Tabs -> Users] /\ Flaky \subseteq Tabs
ASSUME CallBounds == MaxCalls \in Nat /\ MaxManagers \in Nat /\ MaxFaults \in Nat

VARIABLES calls,     \* the calls started: the tab it came from, the user called
          incoming,  \* tab -> the call its ring shows, or 0 (store.incomingCall)
          active,    \* tab -> the call its screen shows, or 0 (store.activeCall)
          current,   \* tab -> the manager of the component's state, or 0
          mgrs,      \* the managers made, dead ones too
          wire,      \* <<from, to>> -> frames between two tabs, in order
          up,        \* tabs whose socket is open
          faults,
          lost,      \* calls with a frame that did not reach every tab
          unheard,   \* calls whose ring gave way to another call
          crossed    \* calls closed without a word by the hangup of another one

screen == <<incoming, active, current>>
history == <<lost, unheard, crossed>>
vars == <<calls, screen, mgrs, wire, up, faults, history>>

Pairs == {p \in Tabs \X Tabs : Owner[p[1]] # Owner[p[2]]}
LivePc == {"new", "offered", "stable"}
TabsOf(u) == {t \in Tabs : Owner[t] = u}

Caller(c) == calls[c].from
Callee(c) == calls[c].to
PartiesOf(c) == {Owner[Caller(c)], Callee(c)}

\* The other user of manager m's call: the key of its map of peers.
Remote(m) == IF mgrs[m].tab = Caller(mgrs[m].call) THEN Callee(mgrs[m].call)
             ELSE Owner[Caller(mgrs[m].call)]
IsLive(m) == mgrs[m].pc \in LivePc
AtWork(m) == IsLive(m) \/ mgrs[m].phase # "done"
Listening(t) == {m \in DOMAIN mgrs : mgrs[m].tab = t /\ mgrs[m].sub}

Frame(type, c, to, m) == [type |-> type, call |-> c, to |-> to, sdp |-> m]
Hangup(m) == Frame("call_hangup", mgrs[m].call, Remote(m), 0)

Managers == [tab : Tabs, call : DOMAIN calls, sub : BOOLEAN, doomed : BOOLEAN,
             second : BOOLEAN, phase : {"init", "setup", "done"}, far : 0..Len(mgrs),
             pc : LivePc \cup {"none", "closed"}]
Frames == [type : {"webrtc_offer", "webrtc_answer", "call_hangup"},
           call : DOMAIN calls, to : Users, sdp : 0..Len(mgrs)]

TypeOK ==
  /\ calls \in Seq([from : Tabs, to : Users])
  /\ incoming \in [Tabs -> 0..Len(calls)] /\ active \in [Tabs -> 0..Len(calls)]
  /\ current \in [Tabs -> 0..Len(mgrs)]
  /\ mgrs \in Seq(Managers)
  /\ wire \in [Pairs -> Seq(Frames)]
  /\ up \subseteq Tabs /\ faults \in 0..MaxFaults
  /\ lost \cup unheard \cup crossed \subseteq DOMAIN calls

Init == /\ calls = <<>> /\ mgrs = <<>>
        /\ incoming = [t \in Tabs |-> 0]
        /\ active = [t \in Tabs |-> 0]
        /\ current = [t \in Tabs |-> 0]
        /\ wire = [p \in Pairs |-> <<>>]
        /\ up = Tabs /\ faults = 0
        /\ lost = {} /\ unheard = {} /\ crossed = {}

----------------------------------------------------------------------------
\* wsSend and onRtcRelay: tab t sends the frames F.  A closed socket sends
\* nothing, and a tab without one gets nothing.
Reaches(t, u, f) == f.to = Owner[u] /\ {t, u} \subseteq up
Appended(w, t, F) ==
  [p \in Pairs |-> LET G == {f \in F : p[1] = t /\ Reaches(t, p[2], f)}
                   IN IF G = {} THEN w[p] ELSE w[p] \o SetToSeq(G)]
GetsToAll(t, f) == TabsOf(f.to) # {} /\ \A u \in TabsOf(f.to) : Reaches(t, u, f)
MissedOf(t, F) == {f.call : f \in {g \in F : ~GetsToAll(t, g)}}
Send(t, F) == /\ wire' = Appended(wire, t, F)
              /\ lost' = lost \cup MissedOf(t, F)

\* destroy: hangupAll hangs up and closes what peers still has, then unsub runs.
\* Before init is through there is neither, and init goes on: such a manager
\* is doomed, which nobody remembers.
Goodbyes(S) == {Hangup(m) : m \in {n \in S : IsLive(n)}}
Closed(r) == [r EXCEPT !.sub = FALSE,
                       !.doomed = r.doomed \/ r.phase = "init",
                       !.pc = IF r.pc \in LivePc THEN "closed" ELSE r.pc]
Destroyed(S) == [m \in DOMAIN mgrs |-> IF m \in S THEN Closed(mgrs[m]) ELSE mgrs[m]]

\* A second manager of a tab is made while an earlier one is at work, which
\* nobody remembers either.
NewManager(t, c) ==
  /\ Len(mgrs) < MaxManagers
  /\ mgrs' = Append(mgrs, [tab |-> t, call |-> c, phase |-> "init", sub |-> FALSE,
                           pc |-> "none", far |-> 0, doomed |-> FALSE,
                           second |-> \E n \in DOMAIN mgrs : mgrs[n].tab = t /\ AtWork(n)])
  /\ current' = [current EXCEPT ![t] = Len(mgrs) + 1]

----------------------------------------------------------------------------
\* The buttons.  An overlay covers the page, so a call is started without one.

\* ChatPage's startCall and the outgoing effect, which makes no manager while
\* the component still holds one.
StartCall(t, u) ==
  /\ active[t] = 0 /\ incoming[t] = 0 /\ u # Owner[t] /\ Len(calls) < MaxCalls
  /\ calls' = Append(calls, [from |-> t, to |-> u])
  /\ active' = [active EXCEPT ![t] = Len(calls) + 1]
  /\ IF current[t] = 0 THEN NewManager(t, Len(calls) + 1)
     ELSE UNCHANGED <<mgrs, current>>
  /\ UNCHANGED <<incoming, wire, up, faults, lost, unheard, crossed>>

\* The ring stays until acceptCall is through, and with it both its buttons.
Accept(t) ==
  /\ incoming[t] # 0 /\ active[t] = 0
  /\ NewManager(t, incoming[t])
  /\ UNCHANGED <<calls, incoming, active, wire, up, faults, lost, unheard, crossed>>

\* Mutant: the ring is put away and the caller is not told.
DeclineSilently(t) ==
  /\ incoming[t] # 0 /\ active[t] = 0
  /\ incoming' = [incoming EXCEPT ![t] = 0]
  /\ UNCHANGED <<calls, active, current, mgrs, wire, up, faults, history>>

Decline(t) ==
  /\ incoming[t] # 0 /\ active[t] = 0
  /\ Send(t, {Frame("call_hangup", incoming[t], Owner[Caller(incoming[t])], 0)})
  /\ incoming' = [incoming EXCEPT ![t] = 0]
  /\ UNCHANGED <<calls, active, current, mgrs, up, faults, unheard, crossed>>

\* Mutant: setRtc(null) is forgotten.
ClearActive(t) == active' = [active EXCEPT ![t] = 0] /\ UNCHANGED current

\* endCall: the manager given is destroyed, the component's state and the
\* screen are cleared whichever call they show.
ClearScreen(t) == /\ current' = [current EXCEPT ![t] = 0]
                  /\ active' = [active EXCEPT ![t] = 0]

\* Mutant: End takes the call off the screen and leaves the manager running.
EndHides(t) ==
  /\ active[t] # 0
  /\ ClearScreen(t)
  /\ UNCHANGED <<calls, incoming, mgrs, wire, up, faults, lost, unheard, crossed>>

\* Mutant: the connection is closed and the other end is not told.
EndSilently(t) ==
  /\ active[t] # 0
  /\ mgrs' = Destroyed({current[t]})
  /\ ClearScreen(t)
  /\ UNCHANGED <<calls, incoming, wire, up, faults, lost, unheard, crossed>>

End(t) ==
  /\ active[t] # 0
  /\ LET S == {current[t]} \ {0} IN Send(t, Goodbyes(S)) /\ mgrs' = Destroyed(S)
  /\ ClearScreen(t)
  /\ UNCHANGED <<calls, incoming, up, faults, unheard, crossed>>

----------------------------------------------------------------------------
\* A manager's script.

\* init is through: it subscribes, and startCall or acceptCall makes its peer.
\* Nobody asks whether the manager was destroyed meanwhile.
InitDone(m) ==
  /\ mgrs[m].phase = "init"
  /\ mgrs' = [mgrs EXCEPT ![m].phase = "setup", ![m].sub = TRUE, ![m].pc = "new"]
  /\ UNCHANGED <<calls, screen, wire, up, faults, history>>

\* The ice-config request fails and the script ends there.
InitFails(m) ==
  /\ mgrs[m].phase = "init" /\ mgrs[m].tab \in Flaky /\ faults < MaxFaults
  /\ mgrs' = [mgrs EXCEPT ![m].phase = "done"]
  /\ faults' = faults + 1
  /\ UNCHANGED <<calls, screen, wire, up, history>>

\* The connection was closed during the setup: the description rejects.
SetupFails(m) ==
  /\ mgrs[m].phase = "setup" /\ mgrs[m].pc = "closed"
  /\ mgrs' = [mgrs EXCEPT ![m].phase = "done"]
  /\ UNCHANGED <<calls, screen, wire, up, faults, history>>

Ready(m, state) ==
  /\ mgrs[m].phase = "setup" /\ mgrs[m].pc = "new"
  /\ mgrs' = [mgrs EXCEPT ![m].phase = "done", ![m].pc = state]
  /\ active' = [active EXCEPT ![mgrs[m].tab] = mgrs[m].call]
  /\ UNCHANGED <<calls, current, up, faults, crossed>>

\* The end of startCall.
Offer(m) ==
  LET t == mgrs[m].tab c == mgrs[m].call IN
  /\ t = Caller(c) /\ Ready(m, "offered")
  /\ Send(t, {Frame("webrtc_offer", c, Callee(c), m)})
  /\ UNCHANGED <<incoming, unheard>>

\* The end of acceptCall: the ring goes, also that of a call which came later.
Answer(m) ==
  LET t == mgrs[m].tab c == mgrs[m].call IN
  /\ t # Caller(c) /\ Ready(m, "stable")
  /\ Send(t, {Frame("webrtc_answer", c, Owner[Caller(c)], m)})
  /\ incoming' = [incoming EXCEPT ![t] = 0]
  /\ unheard' = unheard \cup ({incoming[t]} \ {0, c})

----------------------------------------------------------------------------
\* Frames: the dispatch of socket.ts, then onSignal of each listening manager.

Head1(u, t) == Head(wire[<<u, t>>])
Arrives(u, t, type) == wire[<<u, t>>] # <<>> /\ Head1(u, t).type = type
Taken(u, t) == [wire EXCEPT ![<<u, t>>] = Tail(@)]

\* An offer rings, whatever the tab is doing.
ReceiveOffer(u, t) ==
  /\ Arrives(u, t, "webrtc_offer")
  /\ LET c == Head1(u, t).call IN
     /\ incoming' = [incoming EXCEPT ![t] = c]
     /\ unheard' = unheard \cup ({incoming[t]} \ {0, c})
  /\ wire' = Taken(u, t)
  /\ UNCHANGED <<calls, active, current, mgrs, up, faults, lost, crossed>>

\* Mutant: the answer is taken without a look at its callId.
TakesAny(m, f) == TRUE

\* setRemoteDescription needs an offer that waits.
Takes(m, f) == mgrs[m].call = f.call
Joined(r, n) == [r EXCEPT !.pc = "stable", !.far = n]

ReceiveAnswer(u, t) ==
  /\ Arrives(u, t, "webrtc_answer")
  /\ LET f == Head1(u, t)
         S == {m \in Listening(t) : /\ Remote(m) = Owner[u] /\ Takes(m, f)
                                    /\ mgrs[m].pc = "offered"}
     IN mgrs' = [m \in DOMAIN mgrs |-> IF m \in S THEN Joined(mgrs[m], f.sdp) ELSE mgrs[m]]
  /\ wire' = Taken(u, t)
  /\ UNCHANGED <<calls, screen, up, faults, history>>

StopRing(t, c) ==
  incoming' = IF incoming[t] = c THEN [incoming EXCEPT ![t] = 0] ELSE incoming

\* closePeer(from) looks at the user, not at the call, and ends in onState
\* "closed" even if there was no such peer: endCall destroys each listening
\* manager, which hangs up on anybody else it talks to.
ReceiveHangup(u, t) ==
  /\ Arrives(u, t, "call_hangup")
  /\ LET c == Head1(u, t).call
         S == Listening(t)
         quiet == {m \in S : Remote(m) = Owner[u]}
         F == Goodbyes(S \ quiet)
     IN /\ StopRing(t, c)
        /\ mgrs' = Destroyed(S)
        /\ IF S = {} THEN UNCHANGED <<active, current>> ELSE ClearScreen(t)
        /\ wire' = Appended(Taken(u, t), t, F)
        /\ lost' = lost \cup MissedOf(t, F)
        /\ crossed' = crossed \cup
             {mgrs[m].call : m \in {n \in quiet : IsLive(n) /\ mgrs[n].call # c}}
  /\ UNCHANGED <<calls, up, faults, unheard>>

----------------------------------------------------------------------------
\* The environment.

\* Callers and callees that hear each other.
Connected(m, n) == /\ mgrs[m].call = mgrs[n].call
                   /\ mgrs[m].pc = "stable" /\ mgrs[n].pc = "stable"
                   /\ mgrs[m].far = n \/ mgrs[n].far = m
HasPartner(m) == \E n \in DOMAIN mgrs : Connected(m, n)

\* An answered connection whose other end is not there fails, and onState
\* ends the call.  (A waiting offer has no candidates to check and never does.)
PeerFails(m) ==
  LET t == mgrs[m].tab IN
  /\ mgrs[m].pc = "stable" /\ ~HasPartner(m)
  /\ \A p \in Pairs : \A i \in DOMAIN wire[p] :
        wire[p][i].type = "webrtc_answer" => wire[p][i].sdp # m
  /\ Send(t, Goodbyes({m})) /\ mgrs' = Destroyed({m})
  /\ ClearScreen(t)
  /\ UNCHANGED <<calls, incoming, up, faults, unheard, crossed>>

\* The socket of t closes: what was on the way to it is lost.
Cut(t) == /\ up' = up \ {t}
          /\ wire' = [p \in Pairs |-> IF p[2] = t THEN <<>> ELSE wire[p]]
          /\ t \in Flaky /\ faults < MaxFaults /\ faults' = faults + 1
DrainedTo(t) == UNION {{wire[p][i].call : i \in DOMAIN wire[p]} :
                         p \in {q \in Pairs : q[2] = t}}

Drop(t) == /\ t \in up /\ Cut(t)
           /\ lost' = lost \cup DrainedTo(t)
           /\ UNCHANGED <<calls, screen, mgrs, unheard, crossed>>

\* The page is reloaded: no manager of it is left to say goodbye.
Gone(r) == [r EXCEPT !.phase = "done", !.sub = FALSE, !.pc = "closed"]
Reload(t) ==
  /\ Cut(t)
  /\ lost' = lost \cup {c \in DOMAIN calls : Owner[t] \in PartiesOf(c)}
  /\ incoming' = [incoming EXCEPT ![t] = 0]
  /\ ClearScreen(t)
  /\ mgrs' = [m \in DOMAIN mgrs |-> IF mgrs[m].tab = t THEN Gone(mgrs[m]) ELSE mgrs[m]]
  /\ UNCHANGED <<calls, unheard, crossed>>

Reconnect(t) == /\ t \notin up /\ up' = up \cup {t}
                /\ UNCHANGED <<calls, screen, mgrs, wire, faults, history>>

----------------------------------------------------------------------------
Buttons(t) == (\E u \in Users : StartCall(t, u)) \/ Accept(t) \/ Decline(t) \/ End(t)
Script(m) == InitDone(m) \/ SetupFails(m) \/ Offer(m) \/ Answer(m)
Receive(u, t) == ReceiveOffer(u, t) \/ ReceiveAnswer(u, t) \/ ReceiveHangup(u, t)
Environment == \E t \in Tabs : Drop(t) \/ Reload(t) \/ Reconnect(t)

Next == \/ \E t \in Tabs : Buttons(t)
        \/ \E m \in DOMAIN mgrs : Script(m) \/ InitFails(m) \/ PeerFails(m)
        \/ \E p \in Pairs : Receive(p[1], p[2])
        \/ Environment

Spec == Init /\ [][Next]_vars

----------------------------------------------------------------------------
\* Properties.

OnWire(c, type, t) == \E p \in Pairs : \E i \in DOMAIN wire[p] :
                        p[2] = t /\ wire[p][i].call = c /\ wire[p][i].type = type

\* A component never holds on to a manager that is through, which would keep
\* the next call from getting one: its call is on the screen, or its accept runs
\* or failed in init.
CallsInv ==
  /\ TypeOK
  /\ \A t \in Tabs : current[t] # 0 =>
        LET m == mgrs[current[t]] IN
        /\ m.tab = t
        /\ active[t] # 0 \/ m.phase # "done" \/ m.pc = "none"

\* A caller never takes the answer to an earlier, given up call for the answer
\* to the one it is making: the manager it is joined to answered this call.
AnswerIsForThisCall ==
  \A m \in DOMAIN mgrs :
    mgrs[m].far # 0 => LET n == mgrs[m].far IN
      /\ mgrs[n].call = mgrs[m].call /\ Owner[mgrs[n].tab] = Remote(m)

\* No connection, and no camera with it, lives on behind the user's back: a
\* manager with a live connection is the one the screen shows and its End button
\* destroys.  What breaks it is an End while init runs, which init survives, and
\* an Accept while the tab is still at work on another, of the same ring or not.
NoHiddenCall ==
  \A m \in DOMAIN mgrs : LET t == mgrs[m].tab IN
    IsLive(m) /\ mgrs[m].phase = "done" =>
      \/ current[t] = m /\ active[t] = mgrs[m].call
      \/ \E n \in DOMAIN mgrs : mgrs[n].tab = t /\ (mgrs[n].doomed \/ mgrs[n].second)

\* A caller waits only while somebody is asked: once the offer has arrived, a
\* tab of the callee rings with it until the answer or the hangup is on the way.
\* It waits in vain only after a lost frame, or when another call took the
\* ring's place; what closes the callee's connection during the setup leaves the
\* ring.
RingsWhereCalled ==
  \A m \in DOMAIN mgrs : LET c == mgrs[m].call IN
    mgrs[m].pc = "offered" =>
      \/ c \in lost \cup unheard
      \/ OnWire(c, "webrtc_answer", mgrs[m].tab) \/ OnWire(c, "call_hangup", mgrs[m].tab)
      \/ \E t \in TabsOf(Callee(c)) :
            incoming[t] = c \/ OnWire(c, "webrtc_offer", t)

\* A ring is that of a caller who still waits, or its hangup is on the way.
\* What leaves a ghost ring is a lost frame, a hangup of another call between
\* the two, an End that cut the tab's own Accept short, or another tab of the
\* callee that declined: the caller does not pass a hangup on.
RingIsReal ==
  \A t \in Tabs : LET c == incoming[t] IN
    c # 0 => \/ \E m \in DOMAIN mgrs : /\ mgrs[m].call = c /\ mgrs[m].tab = Caller(c)
                                       /\ IsLive(m)
             \/ OnWire(c, "call_hangup", t)
             \/ c \in lost \cup crossed
             \/ \E n \in DOMAIN mgrs : /\ mgrs[n].call = c /\ mgrs[n].tab = t
                                       /\ mgrs[n].pc = "closed"
             \/ TabsOf(Owner[t]) # {t}

\* Callers and rings belong to each other.
RingsMatchCalls == RingsWhereCalled /\ RingIsReal

\* A caller is not left talking to nobody: the connection that answered it is
\* there, or its hangup is on the way.  Only a lost frame, or a hangup of
\* another call between the two, ends one side without the other.
NoCallerAlone ==
  \A m \in DOMAIN mgrs : LET c == mgrs[m].call IN
    mgrs[m].far # 0 /\ IsLive(m) =>
      \/ IsLive(mgrs[m].far)
      \/ OnWire(c, "call_hangup", mgrs[m].tab)
      \/ c \in lost \cup crossed
=============================================================================
