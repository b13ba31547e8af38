------------------------------- MODULE WebClient -------------------------------
(***************************************************************************)
(* One tab of the web client and one conversation: its socket (socket.ts), *)
(* its store of messages (store.ts), the composer and the thread           *)
(* (ChatPage.tsx), and of the gateway what the tab sees: when its socket   *)
(* is subscribed and listened to (onConnect), the answers of a             *)
(* chat_message frame in their order, and the pages of history.            *)
(*                                                                         *)
(* A callback of the browser runs to its end, so that an event and what    *)
(* dispatch does with it are one action; a fetch is a process, asked and   *)
(* then answered, with the cursor it was started with.                     *)
(*                                                                         *)
(* createdAt is the place of a row in the order of commits.  A message     *)
(* that waits for its send_ack has the time of the tab's clock, which may  *)
(* be up to MaxSkew rows before or behind the service's.                   *)
(***************************************************************************)
EXTENDS Integers, FiniteSets, SequencesExt

CONSTANTS Own,         \* messages of the user, from this tab or another device
          Theirs,      \* messages of the peer
          PageSize,    \* limit of history
          MaxSkew,     \* bound: how far the tab's clock is off
          MaxDrops,    \* bound: sockets lost
          MaxFailures  \* bound: calls that fail, presence keys that expire

Messages == Own \cup Theirs

ASSUME KindsDiffer == Own \cap Theirs = {}
ASSUME MessagesAreFinite == IsFiniteSet(Messages)
ASSUME BoundsAreNumbers == /\ PageSize \in Nat \ {0} /\ MaxSkew \in Nat
                           /\ MaxDrops \in Nat /\ MaxFailures \in Nat

VARIABLES phase,   \* message -> where its handler is
          time,    \* message -> created_at, 0 before it is stored
          seen,    \* own message -> 0, 1 delivered to or 2 read by the peer
          sock,    \* "closed" or "open", as the tab sees it
          gate,    \* the gateway's half: "off", "subscribed", "listening"
          token,   \* the access token in memory: "fresh" or "stale"
          list,    \* messages[convId]: a sequence of entries
          mine,    \* own messages that this tab composed
          shown,   \* the thread is on screen
          fetch,   \* the request of the thread, and of the resync, or Idle
          here,    \* messages whose handler answers to the present socket
          told,    \* messages of the peer whose delivery_ack got through
          pulled,  \* own messages that a resync brought to the list
          drops, failures

server == <<phase, time, seen>>
client == <<list, mine, shown, told, pulled>>
link == <<sock, gate, here>>
tabVars == <<server, client, link, token, fetch, drops, failures>>

Rank == [pending |-> 0, sent |-> 1, delivered |-> 2, read |-> 3]
Times == 0 .. Cardinality(Messages)
Stamps == -MaxSkew .. Cardinality(Messages) + MaxSkew
NoSince == -MaxSkew - 1
Entries == [id : Messages, at : Stamps, status : DOMAIN Rank]
Idle == [step |-> "idle", since |-> NoSince, page |-> {}]
Fetches == {"open", "resync"}

Stored == {m \in Messages : time[m] # 0}
Listed == {list[i].id : i \in DOMAIN list}
Now == Cardinality(Stored)

TabTypeOK ==
  /\ phase \in [Messages -> {"none", "wire", "handled", "stored", "acked", "done", "lost"}]
  /\ time \in [Messages -> Times]
  /\ seen \in [Own -> 0 .. 2]
  /\ sock \in {"closed", "open"}
  /\ gate \in {"off", "subscribed", "listening"}
  /\ token \in {"fresh", "stale"}
  /\ list \in Seq(Entries)
  /\ shown \in BOOLEAN
  /\ fetch \in [Fetches -> [step : {"idle", "asked", "answered"},
                            since : Stamps \cup {NoSince},
                            page : SUBSET Messages]]
  /\ mine \subseteq Own
  /\ here \subseteq Own
  /\ told \subseteq Theirs
  /\ pulled \subseteq Own
  /\ drops \in 0 .. MaxDrops
  /\ failures \in 0 .. MaxFailures

TabInit ==
  /\ phase = [m \in Messages |-> "none"]
  /\ time = [m \in Messages |-> 0]
  /\ seen = [m \in Own |-> 0]
  /\ sock = "closed" /\ gate = "off" /\ token = "fresh"
  /\ list = << >> /\ mine = {} /\ shown = FALSE
  /\ fetch = [f \in Fetches |-> Idle]
  /\ here = {} /\ told = {} /\ pulled = {}
  /\ drops = 0 /\ failures = 0

----------------------------------------------------------------------------
\* The store.

\* Array.sort by createdAt, which is stable.
Before(s, i, j) == s[i].at < s[j].at \/ (s[i].at = s[j].at /\ i < j)
Place(s, i) == 1 + Cardinality({j \in DOMAIN s : Before(s, j, i)})
Sorted(s) == [k \in DOMAIN s |-> s[CHOOSE i \in DOMAIN s : Place(s, i) = k]]

\* Mutant: dedupe by serverMsgId, which a pending entry does not have.
AddByServerId(entries, e) ==
  IF \E i \in DOMAIN entries : entries[i].id = e.id /\ entries[i].status # "pending"
    THEN entries ELSE Sorted(Append(entries, e))

\* addMessage: dedupe by clientMsgId.
AddMessage(entries, e) ==
  IF \E i \in DOMAIN entries : entries[i].id = e.id
    THEN entries ELSE Sorted(Append(entries, e))

\* patchMessage: the list is not sorted again.
PatchMessage(entries, m, at) ==
  [i \in DOMAIN entries |->
     IF entries[i].id = m THEN [id |-> m, at |-> at, status |-> "sent"] ELSE entries[i]]

\* Mutant: the receipt is not compared with the status the entry has.
MarkAlways(entries, m, status) ==
  [i \in DOMAIN entries |->
     IF entries[i].id = m /\ entries[i].status # "pending"
       THEN [entries[i] EXCEPT !.status = status] ELSE entries[i]]

\* markStatuses: a pending entry has no serverMsgId to be named by.
MarkStatuses(entries, m, status) ==
  [i \in DOMAIN entries |->
     IF /\ entries[i].id = m /\ entries[i].status # "pending"
        /\ Rank[status] > Rank[entries[i].status]
       THEN [entries[i] EXCEPT !.status = status] ELSE entries[i]]

\* history: the rows after the cursor, oldest first, or else the newest page.
Page(since) ==
  LET after(m) == {n \in Stored : time[n] > time[m]}
      new == {m \in Stored : time[m] > since}
  IN  IF since = NoSince
        THEN {m \in Stored : Cardinality(after(m)) < PageSize}
        ELSE {m \in new : Cardinality(new \ after(m)) <= PageSize}

----------------------------------------------------------------------------
\* The socket.

\* wsConnect and onopen.  The upgrade is refused with a stale token, and onclose
\* tries again.  resync takes its cursor from the store as it is now: the last
\* entry of the list, whatever it is.  (Bound: one resync at a time.)
Connect ==
  /\ sock = "closed" /\ token = "fresh" /\ fetch["resync"] = Idle
  /\ sock' = "open"
  /\ fetch' = IF shown
                THEN [fetch EXCEPT !["resync"] =
                       [step |-> "asked", page |-> {},
                        since |-> IF list = << >> THEN NoSince ELSE Last(list).at]]
                ELSE fetch
  /\ UNCHANGED <<server, client, gate, here, token, drops, failures>>

\* onConnect in the gateway, after the upgrade: deliver:{user} is subscribed ...
Subscribe ==
  /\ sock = "open" /\ gate = "off"
  /\ gate' = "subscribed"
  /\ UNCHANGED <<server, client, sock, here, token, fetch, drops, failures>>

\* ... and when presence is set and told, the listener for frames is attached.
Listen ==
  /\ gate = "subscribed"
  /\ gate' = "listening"
  /\ UNCHANGED <<server, client, sock, here, token, fetch, drops, failures>>

\* The socket is lost with the frames on it.  Handlers go on without it.
LoseSocket ==
  /\ sock = "open" /\ drops < MaxDrops
  /\ sock' = "closed" /\ gate' = "off" /\ here' = {}
  /\ phase' = [m \in Messages |-> IF phase[m] = "wire" THEN "lost" ELSE phase[m]]
  /\ drops' = drops + 1
  /\ UNCHANGED <<time, seen, client, token, fetch, failures>>

\* The access token's 15 minutes are over.
Expire ==
  /\ token = "fresh"
  /\ token' = "stale"
  /\ UNCHANGED <<server, client, link, fetch, drops, failures>>

----------------------------------------------------------------------------
\* Messages.

\* sendMessage: the store first, then the socket if it is open.  Nothing sends
\* the frame again.
Compose(m, stamp) ==
  /\ m \in Own /\ phase[m] = "none" /\ shown
  /\ stamp \in Now - MaxSkew .. Now + MaxSkew
  /\ list' = AddMessage(list, [id |-> m, at |-> stamp, status |-> "pending"])
  /\ phase' = [phase EXCEPT ![m] = IF sock = "open" THEN "wire" ELSE "lost"]
  /\ mine' = mine \cup {m}
  /\ UNCHANGED <<time, seen, shown, told, pulled, link, token, fetch, drops, failures>>

\* A frame that comes before the listener is there is heard by nobody.
Overhear(m) ==
  /\ phase[m] = "wire" /\ gate # "listening"
  /\ phase' = [phase EXCEPT ![m] = "lost"]
  /\ UNCHANGED <<time, seen, client, link, token, fetch, drops, failures>>

ReceiveFrame(m) ==
  /\ phase[m] = "wire" /\ gate = "listening"
  /\ phase' = [phase EXCEPT ![m] = "handled"]
  /\ here' = here \cup {m}
  /\ UNCHANGED <<time, seen, client, sock, gate, token, fetch, drops, failures>>

\* The row is inserted by the handler of the frame ...
Commit(m) ==
  /\ phase[m] = "handled"
  /\ phase' = [phase EXCEPT ![m] = "stored"]
  /\ time' = [time EXCEPT ![m] = Now + 1]
  /\ UNCHANGED <<seen, client, link, token, fetch, drops, failures>>

\* ... or of one by the peer or another device, whose ack goes elsewhere.
CommitOther(m) ==
  /\ phase[m] = "none"
  /\ phase' = [phase EXCEPT ![m] = "acked"]
  /\ time' = [time EXCEPT ![m] = Now + 1]
  /\ UNCHANGED <<seen, client, link, token, fetch, drops, failures>>

\* send_ack, to the socket the frame came by.
Ack(m) ==
  /\ phase[m] = "stored"
  /\ phase' = [phase EXCEPT ![m] = "acked"]
  /\ list' = IF m \in here THEN PatchMessage(list, m, time[m]) ELSE list
  /\ UNCHANGED <<time, seen, mine, shown, told, pulled, link, token, fetch, drops, failures>>

\* The fan-out comes to this user, and dispatch adds the message and, for one
\* of the peer, sends a delivery_ack.
FanOut(m) ==
  /\ phase[m] = "acked"
  /\ phase' = [phase EXCEPT ![m] = "done"]
  /\ IF gate = "off"
       THEN UNCHANGED <<list, told>>
       ELSE /\ list' = AddMessage(list, [id |-> m, at |-> time[m],
                         status |-> IF m \in Own THEN "sent" ELSE "delivered"])
            /\ told' = IF gate = "listening" THEN told \cup ({m} \cap Theirs) ELSE told
  /\ UNCHANGED <<time, seen, mine, shown, pulled, link, token, fetch, drops, failures>>

\* The presence key is not set yet, or expired between late heartbeats: a
\* message of the peer goes to push and not to the open socket.
Miss(m) ==
  /\ m \in Theirs /\ phase[m] = "acked" /\ gate # "off"
  /\ gate = "subscribed" \/ failures < MaxFailures
  /\ failures' = IF gate = "subscribed" THEN failures ELSE failures + 1
  /\ phase' = [phase EXCEPT ![m] = "done"]
  /\ UNCHANGED <<time, seen, client, link, token, fetch, drops>>

\* An awaited call of the handler throws (or the flood guard refuses the
\* frame).  The tab only logs the error frame.
Throw(m) ==
  /\ failures < MaxFailures
  /\ phase[m] \in {"handled", "stored", "acked"}
  /\ phase' = [phase EXCEPT ![m] = IF @ = "handled" THEN "lost" ELSE "done"]
  /\ failures' = failures + 1
  /\ UNCHANGED <<time, seen, client, link, token, fetch, drops>>

\* The peer's client acknowledges a message ...
Acknowledge(m) ==
  /\ m \in Own \cap Stored /\ seen[m] < 2
  /\ seen' = [seen EXCEPT ![m] = @ + 1]
  /\ UNCHANGED <<phase, time, client, link, token, fetch, drops, failures>>

\* ... and a receipt reaches the tab, some time later, once or again, in any
\* order, or never.
Tick(m, status) ==
  /\ m \in Own /\ gate # "off"
  /\ status \in {"delivered", "read"} /\ Rank[status] <= seen[m] + 1
  /\ list' = MarkStatuses(list, m, status)
  /\ UNCHANGED <<server, mine, shown, told, pulled, link, token, fetch, drops, failures>>

----------------------------------------------------------------------------
\* The thread and its pages.

\* Opening a thread asks for the newest page.  (Bound: one request at a time.)
OpenThread ==
  /\ ~shown /\ fetch["open"] = Idle
  /\ shown' = TRUE
  /\ fetch' = [fetch EXCEPT !["open"].step = "asked"]
  /\ UNCHANGED <<server, list, mine, told, pulled, link, token, drops, failures>>

CloseThread ==
  /\ shown
  /\ shown' = FALSE
  /\ UNCHANGED <<server, list, mine, told, pulled, link, token, fetch, drops, failures>>

\* Mutant: a call that meets a 401 does not refresh the token.
AnswerOnly(f) ==
  /\ fetch[f].step = "asked"
  /\ fetch' = [fetch EXCEPT ![f].step = "answered", ![f].page = Page(fetch[f].since)]
  /\ UNCHANGED <<server, client, link, token, drops, failures>>

\* The service answers; a stale token has been refreshed on the way (api.ts).
AnswerFetch(f) ==
  /\ fetch[f].step = "asked"
  /\ fetch' = [fetch EXCEPT ![f].step = "answered", ![f].page = Page(fetch[f].since)]
  /\ token' = "fresh"
  /\ UNCHANGED <<server, client, link, drops, failures>>

\* The call fails: resync waits for the next reconnect, opening for nothing.
FailFetch(f) ==
  /\ fetch[f].step # "idle" /\ failures < MaxFailures
  /\ fetch' = [fetch EXCEPT ![f] = Idle]
  /\ failures' = failures + 1
  /\ UNCHANGED <<server, client, link, token, drops>>

\* The rows of a page are added one by one, oldest first, and the list is sorted
\* with each that is new: in the end, once with all of them.
RowOf(m, ownStatus) == [id |-> m, at |-> time[m],
                        status |-> IF m \in Own THEN ownStatus ELSE "delivered"]
AddPage(entries, page, ownStatus) ==
  LET new == {m \in page : \A i \in DOMAIN entries : entries[i].id # m}
  IN  IF new = {} THEN entries
      ELSE Sorted(entries \o SetToSeq({RowOf(m, ownStatus) : m \in new}))

\* Mutant: what the page brings is not acknowledged.
ShowPageOnly ==
  /\ fetch["open"].step = "answered"
  /\ list' = AddPage(list, fetch["open"].page, "sent")
  /\ fetch' = [fetch EXCEPT !["open"] = Idle]
  /\ UNCHANGED <<server, mine, shown, told, pulled, link, token, drops, failures>>

\* The answer to opening: own messages are sent, and the page is acknowledged.
ShowPage ==
  /\ fetch["open"].step = "answered"
  /\ list' = AddPage(list, fetch["open"].page, "sent")
  /\ told' = IF sock = "open" /\ gate = "listening"
               THEN told \cup (fetch["open"].page \cap Theirs) ELSE told
  /\ fetch' = [fetch EXCEPT !["open"] = Idle]
  /\ UNCHANGED <<server, mine, shown, pulled, link, token, drops, failures>>

\* The answer to a resync: every row is called delivered, own ones too.
Resync ==
  /\ fetch["resync"].step = "answered"
  /\ list' = AddPage(list, fetch["resync"].page, "delivered")
  /\ pulled' = pulled \cup ((fetch["resync"].page \cap Own) \ Listed)
  /\ fetch' = [fetch EXCEPT !["resync"] = Idle]
  /\ UNCHANGED <<server, mine, shown, told, link, token, drops, failures>>

----------------------------------------------------------------------------
Handler(m) == Overhear(m) \/ ReceiveFrame(m) \/ Commit(m) \/ Ack(m) \/ FanOut(m)

TabNext ==
  \/ Connect \/ Subscribe \/ Listen \/ LoseSocket \/ Expire
  \/ OpenThread \/ CloseThread \/ ShowPage \/ Resync
  \/ \E f \in Fetches : AnswerFetch(f) \/ FailFetch(f)
  \/ \E m \in Messages : \/ Handler(m) \/ CommitOther(m) \/ Miss(m) \/ Throw(m)
                         \/ Acknowledge(m)
                         \/ \E stamp \in Stamps : Compose(m, stamp)
                         \/ \E status \in DOMAIN Rank : Tick(m, status)

TabSpec == TabInit /\ [][TabNext]_tabVars

\* Calls settle, frames are handled, and the timer of onclose reconnects: it
\* fires within 30 seconds and a token lives 15 minutes, so that it is not for
\* ever that the token is stale whenever it fires.
FairSpec == /\ TabSpec
            /\ WF_tabVars(Subscribe \/ Listen)
            /\ \A m \in Messages : WF_tabVars(Handler(m))
            /\ WF_tabVars(AnswerFetch("open") \/ ShowPage)
            /\ WF_tabVars(AnswerFetch("resync") \/ Resync)
            /\ SF_tabVars(Connect)

\* A user who comes back to the thread again and again.
UsedSpec == /\ FairSpec
            /\ WF_tabVars(OpenThread \/ CloseThread)

----------------------------------------------------------------------------
\* Properties.

\* An entry is one message's, and what it says is the row's: however live
\* frames, pages, acks and receipts overlap, a message is shown once, and it
\* waits for its send_ack exactly as long as none came (store.ts:76-85).
EntriesAreRows ==
  /\ \A i, j \in DOMAIN list : list[i].id = list[j].id => i = j
  /\ \A i \in DOMAIN list :
       LET e == list[i]
       IN  IF e.status = "pending"
             THEN e.id \in mine /\ ~(e.id \in here /\ phase[e.id] = "acked")
             ELSE e.id \in Stored /\ e.at = time[e.id]

\* The second tick means that the peer's client has the message, and the blue
\* one that the peer read it (websocket-protocol.md:49-52), unless the message
\* was written on another device and came by a resync, which calls all it
\* brings delivered (socket.ts:88).
TicksHaveACause ==
  \A i \in DOMAIN list :
    LET e == list[i]
    IN  (e.id \in Own /\ Rank[e.status] > 1)
          => \/ seen[e.id] >= Rank[e.status] - 1
             \/ e.status = "delivered" /\ e.id \in pulled \ mine

TabInv == TabTypeOK /\ EntriesAreRows /\ TicksHaveACause

\* No status is taken back, and no message disappears, while the tab lives.
StatusNeverFalls ==
  [][\A i \in DOMAIN list : \E j \in DOMAIN list' :
       list'[j].id = list[i].id /\ Rank[list'[j].status] >= Rank[list[i].status]]_tabVars

\* The one healer, for a tab that is used: whatever was missed, if it is no
\* more than a page, is shown once the thread is opened again, and only then is
\* its author told, for a resync acknowledges nothing (ChatPage.tsx:178-191).
MissedArrives ==
  \A m \in Messages :
    (m \in Stored) ~> (m \in Listed /\ (m \in Theirs => m \in told))

\* A lost socket comes back, even if its token has expired, provided some REST
\* call refreshes it (websocket-protocol.md:22-23).
ComesBack == (sock = "closed") ~> (sock = "open")
===============================================================================
