----------------------------- MODULE Presence_proofs -----------------------------
(***************************************************************************)
(* The presence of a user with any number of sockets on any number of      *)
(* instances: every served socket hears what is published to the user, and *)
(* the contact ends up with the truth.                                     *)
(***************************************************************************)
EXTENDS Presence, TLAPS, SequenceTheorems

\* PresenceInv without what follows from the rest of it.
Core == /\ TypeOK
        /\ MapsMatch
        /\ HandlersHaveEntries
        /\ QueueWaits
        /\ QueueMatches
        /\ FarewellsFollow
        /\ GreetingsFollow

\* Of a queue, what is left when its head is answered.
LEMMA TailFacts ==
  ASSUME NEW S, NEW s \in Seq(S), s # <<>>
  PROVE  /\ Head(s) \in S /\ Head(s) = s[1] /\ 1 \in DOMAIN s
         /\ Tail(s) \in Seq(S)
         /\ Len(s) \in Nat \ {0} /\ DOMAIN s = 1 .. Len(s)
         /\ Len(Tail(s)) = Len(s) - 1 /\ DOMAIN Tail(s) = 1 .. Len(Tail(s))
         /\ \A k \in DOMAIN Tail(s) : k + 1 \in DOMAIN s /\ Tail(s)[k] = s[k + 1]
         /\ Len(s) = 1 => Tail(s) = <<>>
         /\ Len(s) # 1 => Tail(s) # <<>> /\ Tail(s)[Len(Tail(s))] = s[Len(s)]
<1>1. /\ Len(s) \in Nat \ {0} /\ DOMAIN s = 1 .. Len(s)
      /\ Head(s) \in S /\ Tail(s) \in Seq(S)
      /\ Len(Tail(s)) = Len(s) - 1
      /\ \A k \in 1 .. Len(Tail(s)) : Tail(s)[k] = s[k + 1]
  BY HeadTailProperties, EmptySeq, LenProperties
<1>2. DOMAIN Tail(s) = 1 .. Len(Tail(s))
  BY <1>1, LenProperties
<1>3. Head(s) = s[1]
  OBVIOUS
<1>4. \A t \in Seq(S) : t = <<>> <=> Len(t) = 0
  <2>1. Len(<<>>) = 0
    BY EmptySeq
  <2>2. \A t \in Seq(S) : t # <<>> => Len(t) \in Nat \ {0}
    BY EmptySeq
  <2>3. QED
    BY <2>1, <2>2
<1>5. ASSUME Len(s) = 1 PROVE Tail(s) = <<>>
  <2>1. Len(Tail(s)) = 0
    BY <1>1, <1>5
  <2>2. QED
    BY <1>1, <1>4, <2>1
<1>6. ASSUME Len(s) # 1 PROVE Tail(s) # <<>> /\ Tail(s)[Len(Tail(s))] = s[Len(s)]
  <2>1. Len(Tail(s)) \in 1 .. Len(Tail(s)) /\ Len(Tail(s)) + 1 = Len(s) /\ Len(Tail(s)) # 0
    BY <1>1, <1>6
  <2>2. Tail(s) # <<>>
    BY <1>1, <1>4, <2>1
  <2>3. QED
    BY <1>1, <2>1, <2>2
<1>7. 1 \in DOMAIN s
  BY <1>1
<1>8. ASSUME NEW k \in DOMAIN Tail(s) PROVE k + 1 \in DOMAIN s
  <2>1. k \in 1 .. Len(Tail(s))
    BY <1>2
  <2>2. QED
    BY <1>1, <2>1
<1>9. QED
  BY <1>1, <1>2, <1>3, <1>5, <1>6, <1>7, <1>8

\* And when a command is queued.
LEMMA AppendFacts ==
  ASSUME NEW S, NEW s \in Seq(S), NEW x \in S
  PROVE  /\ Append(s, x) \in Seq(S) /\ Append(s, x) # <<>>
         /\ Len(s) \in Nat /\ DOMAIN s = 1 .. Len(s)
         /\ Len(Append(s, x)) = Len(s) + 1
         /\ DOMAIN Append(s, x) = 1 .. Len(Append(s, x))
         /\ \A k \in DOMAIN s : Append(s, x)[k] = s[k]
         /\ Append(s, x)[Len(Append(s, x))] = x
BY AppendProperties, LenProperties

LEMMA InitCore == Init => Core
<1> SUFFICES ASSUME Init PROVE Core
  OBVIOUS
<1>1. TypeOK
  <2>1. subq \in [Instances -> Seq(Conns \cup {"unsub"})] /\ inbox \in Seq(Statuses)
    BY EmptySeq DEF Init
  <2>2. /\ sock \in [Conns -> {"new", "open", "closed"}]
        /\ pc \in [Conns -> {"new", "subscribing", "register", "set", "announce", "serving",
                             "leave", "del", "stamp", "tell", "done", "stuck"}]
    BY DEF Init
  <2>3. home \in Routings /\ conns \cup first \cup beats \cup handlers \subseteq Conns
    BY DEF Init
  <2>4. channels \cup subbed \subseteq Instances /\ faults \in 0..MaxFaults
    BY FaultBound DEF Init
  <2>5. /\ key \in BOOLEAN /\ watching \in BOOLEAN /\ {cut, overlap, misled} \subseteq BOOLEAN
        /\ shown \in Statuses \cup {"unknown"} /\ snap \in Statuses \cup {"none", "asked", "done"}
    BY DEF Init, Statuses
  <2>6. QED
    BY <2>1, <2>2, <2>3, <2>4, <2>5 DEF TypeOK
<1>2. MapsMatch /\ HandlersHaveEntries
  BY DEF Init, MapsMatch, HandlersHaveEntries, Handling
<1>3. QueueWaits /\ QueueMatches
  BY DEF Init, QueueWaits, QueueMatches, WillForward
<1>4. WillShow = "unknown"
  BY DEF Init, WillShow, Statuses
<1>5. FarewellsFollow /\ GreetingsFollow
  BY <1>4 DEF FarewellsFollow, GreetingsFollow
<1>6. QED
  BY <1>1, <1>2, <1>3, <1>5 DEF Core

----------------------------------------------------------------------------
\* The queue of (UN)SUBSCRIBEs.

\* A command that is appended decides what Redis will forward.
LEMMA AppendDecides ==
  ASSUME TypeOK, NEW i \in Instances, NEW x \in Conns \cup {"unsub"},
         subq' = [subq EXCEPT ![i] = Append(@, x)], subbed' = subbed
  PROVE  /\ subq' \in [Instances -> Seq(Conns \cup {"unsub"})]
         /\ WillForward(i)' <=> x # "unsub"
         /\ \A j \in Instances \ {i} : WillForward(j)' <=> WillForward(j)
<1>1. subq[i] \in Seq(Conns \cup {"unsub"}) /\ subq'[i] = Append(subq[i], x)
  BY DEF TypeOK
<1>2. subq'[i] # <<>> /\ subq'[i][Len(subq'[i])] = x
  BY <1>1, AppendFacts
<1>3. subq' \in [Instances -> Seq(Conns \cup {"unsub"})]
  BY <1>1 DEF TypeOK
<1>4. \A j \in Instances \ {i} : subq'[j] = subq[j]
  BY DEF TypeOK
<1>5. QED
  BY <1>2, <1>3, <1>4 DEF WillForward

\* An answer that follows the command it answers changes nothing of that, nor does
\* one that is not the last.
LEMMA AnswersFollow ==
  ASSUME TypeOK, NEW i \in Instances, subq[i] # <<>>,
         subq' = [subq EXCEPT ![i] = Tail(@)],
         \A j \in Instances \ {i} : j \in subbed' <=> j \in subbed
  PROVE  /\ subq' \in [Instances -> Seq(Conns \cup {"unsub"})]
         /\ Head(subq[i]) \in Conns \cup {"unsub"}
         /\ \/ Len(subq[i]) > 1
            \/ i \in subbed' <=> Head(subq[i]) # "unsub"
            => (WillForward(i)' <=> WillForward(i))
         /\ \A j \in Instances \ {i} : WillForward(j)' <=> WillForward(j)
<1>1. subq[i] \in Seq(Conns \cup {"unsub"}) /\ subq'[i] = Tail(subq[i])
  BY DEF TypeOK
<1>2. subq' \in [Instances -> Seq(Conns \cup {"unsub"})] /\ Head(subq[i]) \in Conns \cup {"unsub"}
  BY <1>1 DEF TypeOK
<1>3. \A j \in Instances \ {i} : subq'[j] = subq[j]
  BY DEF TypeOK
<1>4. CASE Len(subq[i]) > 1
  <2>1. subq'[i] # <<>> /\ subq'[i][Len(subq'[i])] = subq[i][Len(subq[i])]
    BY <1>1, <1>4, TailFacts
  <2>2. QED
    BY <1>2, <1>3, <2>1 DEF WillForward
<1>5. CASE ~(Len(subq[i]) > 1)
  <2>1. Len(subq[i]) = 1
    BY <1>1, <1>5, TailFacts
  <2>2. subq'[i] = <<>> /\ Head(subq[i]) = subq[i][Len(subq[i])]
    BY <1>1, <2>1, TailFacts
  <2>3. QED
    BY <1>2, <1>3, <2>1, <2>2 DEF WillForward
<1>6. QED
  BY <1>4, <1>5

\* Sockets that start to wait come last, and once.
LEMMA QueueGrows ==
  ASSUME TypeOK, QueueWaits, NEW i \in Instances, NEW x \in Conns \cup {"unsub"},
         subq' = [subq EXCEPT ![i] = Append(@, x)], home' = home,
         x # "unsub" => home[x] = i /\ pc[x] # "subscribing" /\ pc'[x] = "subscribing",
         \A c \in Conns : pc[c] = "subscribing" => pc'[c] = "subscribing"
  PROVE  QueueWaits'
<1> SUFFICES ASSUME NEW j \in Instances, NEW n \in DOMAIN subq'[j], subq'[j][n] # "unsub"
             PROVE  /\ home[subq'[j][n]] = j /\ pc'[subq'[j][n]] = "subscribing"
                    /\ \A k \in DOMAIN subq'[j] : subq'[j][k] = subq'[j][n] => k = n
  BY DEF QueueWaits
<1>1. subq[i] \in Seq(Conns \cup {"unsub"}) /\ subq[j] \in Seq(Conns \cup {"unsub"})
  BY DEF TypeOK
<1>2. CASE j # i
  <2>1. subq'[j] = subq[j]
    BY <1>2 DEF TypeOK
  <2>2. QED
    BY <1>1, <2>1 DEF QueueWaits
<1>3. CASE j = i
  <2>1. subq'[i] = Append(subq[i], x)
    BY DEF TypeOK
  <2>2. \A k \in DOMAIN subq[i] : subq[i][k] # x \/ x = "unsub"
    BY DEF QueueWaits
  <2>3. DOMAIN subq'[i] = DOMAIN subq[i] \cup {Len(subq[i]) + 1}
    BY <1>1, <2>1, AppendFacts
  <2>4. \A k \in DOMAIN subq[i] : subq'[i][k] = subq[i][k] /\ k # Len(subq[i]) + 1
    BY <1>1, <2>1, AppendFacts
  <2>5. subq'[i][Len(subq[i]) + 1] = x
    BY <1>1, <2>1, AppendFacts
  <2>6. CASE n \in DOMAIN subq[i]
    <3>1. subq[i][n] # "unsub" /\ subq[i][n] \in Conns
      BY <1>1, <1>3, <2>4, <2>6
    <3>2. QED
      BY <1>3, <2>2, <2>3, <2>4, <2>5, <2>6, <3>1 DEF QueueWaits
  <2>7. CASE n = Len(subq[i]) + 1
    BY <1>3, <2>2, <2>3, <2>4, <2>5, <2>7
  <2>8. QED
    BY <1>3, <2>3, <2>6, <2>7
<1>4. QED
  BY <1>2, <1>3

\* The socket whose SUBSCRIBE is answered waits no longer, the others do.
LEMMA QueueShrinks ==
  ASSUME TypeOK, QueueWaits, NEW i \in Instances, subq[i] # <<>>,
         subq' = [subq EXCEPT ![i] = Tail(@)], home' = home,
         \A c \in Conns : c # Head(subq[i]) => pc'[c] = pc[c],
         Head(subq[i]) = "unsub" => pc' = pc
  PROVE  QueueWaits'
<1> SUFFICES ASSUME NEW j \in Instances, NEW n \in DOMAIN subq'[j], subq'[j][n] # "unsub"
             PROVE  /\ home[subq'[j][n]] = j /\ pc'[subq'[j][n]] = "subscribing"
                    /\ \A k \in DOMAIN subq'[j] : subq'[j][k] = subq'[j][n] => k = n
  BY DEF QueueWaits
<1>1. subq[i] \in Seq(Conns \cup {"unsub"}) /\ subq[j] \in Seq(Conns \cup {"unsub"})
  BY DEF TypeOK
<1>2. Head(subq[i]) = subq[i][1] /\ 1 \in DOMAIN subq[i]
  BY <1>1, TailFacts
<1>3. CASE j # i
  <2>1. subq'[j] = subq[j]
    BY <1>3 DEF TypeOK
  <2>2. /\ subq[j][n] \in Conns
        /\ home[subq[j][n]] = j /\ pc[subq[j][n]] = "subscribing"
    <3>1. n \in DOMAIN subq[j] /\ subq[j][n] # "unsub"
      BY <2>1
    <3>2. subq[j][n] \in Conns
      BY <1>1, <3>1, LenProperties
    <3>3. QED
      BY <3>1, <3>2 DEF QueueWaits
  <2>3. subq[j][n] # Head(subq[i])
    BY <1>2, <1>3, <2>1, <2>2 DEF QueueWaits
  <2>4. pc'[subq[j][n]] = "subscribing"
    BY <2>2, <2>3
  <2>5. \A k \in DOMAIN subq[j] : subq[j][k] = subq[j][n] => k = n
    BY <2>1, <2>2 DEF QueueWaits
  <2>6. QED
    BY <2>1, <2>2, <2>4, <2>5
<1>4. CASE j = i
  <2>1. subq'[i] = Tail(subq[i])
    BY DEF TypeOK
  <2>2. \A k \in DOMAIN subq'[i] : /\ k \in Nat /\ k > 0
                                   /\ k + 1 \in DOMAIN subq[i] /\ subq'[i][k] = subq[i][k + 1]
    <3>1. Len(subq[i]) \in Nat \ {0} /\ DOMAIN subq'[i] = 1 .. (Len(subq[i]) - 1)
      BY <1>1, <2>1, TailFacts
    <3>2. \A k \in DOMAIN Tail(subq[i]) : /\ k + 1 \in DOMAIN subq[i]
                                          /\ Tail(subq[i])[k] = subq[i][k + 1]
      BY <1>1, TailFacts
    <3>3. QED
      BY <2>1, <3>1, <3>2
  <2>3. subq[i][n + 1] # "unsub" /\ subq[i][n + 1] \in Conns
    BY <1>1, <1>4, <2>2, LenProperties
  <2>4. subq[i][n + 1] # Head(subq[i])
    BY <1>2, <1>4, <2>2, <2>3 DEF QueueWaits
  <2>5. \A k \in DOMAIN subq'[i] : subq[i][k + 1] = subq[i][n + 1] => k + 1 = n + 1
    BY <1>4, <2>2, <2>3 DEF QueueWaits
  <2>6. home[subq[i][n + 1]] = i /\ pc[subq[i][n + 1]] = "subscribing"
    BY <1>4, <2>2, <2>3 DEF QueueWaits
  <2>7. subq'[i][n] = subq[i][n + 1]
    BY <1>4, <2>2
  <2>8. pc'[subq'[i][n]] = "subscribing"
    BY <2>3, <2>4, <2>6, <2>7
  <2>9. ASSUME NEW k \in DOMAIN subq'[i], subq'[i][k] = subq'[i][n] PROVE k = n
    <3>1. k \in Nat /\ n \in Nat /\ k + 1 = n + 1
      BY <1>4, <2>2, <2>5, <2>7, <2>9
    <3>2. QED
      BY <3>1
  <2>10. QED
    BY <1>4, <2>6, <2>7, <2>8, <2>9
<1>5. QED
  BY <1>3, <1>4

----------------------------------------------------------------------------
\* What the contact will see is changed by frames and snapshots alone.
LEMMA ContactUntouched ==
  ASSUME UNCHANGED contact
  PROVE  WillShow' = WillShow
BY DEF contact, WillShow

\* An open contact will see the status that is published last; a closed one is misled.
LEMMA PublishShows ==
  ASSUME TypeOK, NEW status \in Statuses, Publish(status)
  PROVE  /\ WillShow' = status \/ misled'
         /\ misled => misled'
         /\ inbox' \in Seq(Statuses) /\ misled' \in BOOLEAN
<1>1. CASE watching
  <2>1. inbox' # <<>> /\ inbox'[Len(inbox')] = status /\ inbox' \in Seq(Statuses)
    BY <1>1, AppendFacts DEF Publish, TypeOK
  <2>2. QED
    BY <1>1, <2>1 DEF WillShow, Publish, TypeOK
<1>2. CASE ~watching
  BY <1>2 DEF Publish, TypeOK
<1>3. QED
  BY <1>1, <1>2

\* A frame that is shown, and a snapshot that is shown, were what the contact would
\* see, or it is misled.
LEMMA ShowKeeps ==
  ASSUME TypeOK, Show \/ ShowSnapshot
  PROVE  /\ WillShow' = WillShow \/ misled'
         /\ misled => misled'
<1>1. CASE Show
  <2>1. inbox \in Seq(Statuses) /\ inbox # <<>> /\ inbox' = Tail(inbox)
    BY <1>1 DEF Show, TypeOK
  <2>2. CASE Len(inbox) = 1
    <3>1. inbox' = <<>> /\ Head(inbox) = inbox[Len(inbox)]
      BY <2>1, <2>2, TailFacts
    <3>2. QED
      BY <1>1, <2>1, <3>1 DEF Show, WillShow
  <2>3. CASE Len(inbox) # 1
    <3>1. inbox' # <<>> /\ inbox'[Len(inbox')] = inbox[Len(inbox)]
      BY <2>1, <2>3, TailFacts
    <3>2. QED
      BY <1>1, <2>1, <3>1 DEF Show, WillShow
  <2>4. QED
    BY <2>2, <2>3
<1>2. CASE ShowSnapshot
  BY <1>2 DEF ShowSnapshot, WillShow, Statuses
<1>3. QED
  BY <1>1, <1>2

----------------------------------------------------------------------------
\* Steps that neither queue nor answer a command leave the queues right.
LEMMA QueueUntouched ==
  ASSUME TypeOK, QueueWaits, QueueMatches, UNCHANGED <<home, channels, subq, subbed>>,
         cut => cut',
         \A c \in Conns : pc[c] = "subscribing" => pc'[c] = "subscribing"
  PROVE  QueueWaits' /\ QueueMatches'
<1>1. QueueMatches'
  BY DEF QueueMatches, WillForward
<1>2. \A i \in Instances : \A n \in DOMAIN subq[i] : subq[i][n] \in Conns \cup {"unsub"}
  BY LenProperties DEF TypeOK
<1>3. QueueWaits'
  BY <1>2 DEF QueueWaits
<1>4. QED
  BY <1>1, <1>3

\* A step that shows the contact nothing new needs to keep the promises alone.
LEMMA PromisesKept ==
  ASSUME FarewellsFollow, GreetingsFollow, UNCHANGED <<home, contact>>,
         cut => cut', overlap => overlap',
         conns' # {} \/ cut' \/ (\E c \in Conns : pc'[c] \in {"del", "stamp", "tell"})
           \/ ~(conns # {} \/ cut \/ \E c \in Conns : pc[c] \in {"del", "stamp", "tell"}),
         \A i \in Instances : Registered(i)' # {} =>
           \/ \E c \in Registered(i)' \cap first' : pc'[c] \in {"set", "announce"}
           \/ /\ Registered(i) # {}
              /\ ~\E c \in Registered(i) \cap first : pc[c] \in {"set", "announce"}
  PROVE  FarewellsFollow' /\ GreetingsFollow'
<1>1. WillShow' = WillShow /\ misled' = misled
  BY ContactUntouched DEF contact
<1>2. FarewellsFollow'
  BY <1>1 DEF FarewellsFollow
<1>3. GreetingsFollow'
  BY <1>1 DEF GreetingsFollow
<1>4. QED
  BY <1>2, <1>3

----------------------------------------------------------------------------
\* Every step keeps the core, one case per action and one step per conjunct.
LEMMA StepCore == Core /\ [Next]_vars => Core'
<1> SUFFICES ASSUME Core, [Next]_vars PROVE Core'
  OBVIOUS
<1> USE NamesDiffer, RoutingsAreFunctions, FaultBound DEF Core
<1>h. home \in [Conns -> Instances]
  BY DEF TypeOK
<1>1. ASSUME NEW c \in Conns, Register(c) PROVE Core'
  <2>1. TypeOK'
    BY <1>1 DEF Register, Goto, sockets, channel, contact, TypeOK
  <2>2. MapsMatch' /\ HandlersHaveEntries'
    BY <1>1 DEF Register, Goto, sockets, channel, contact, TypeOK, MapsMatch, HandlersHaveEntries, Handling
  <2>3. QueueWaits' /\ QueueMatches'
    <3>1. UNCHANGED <<home, channels, subq, subbed>> /\ cut' = cut
      BY <1>1 DEF Register, Goto, sockets, channel, contact
    <3>2. \A d \in Conns : pc[d] = "subscribing" => pc'[d] = "subscribing"
      BY <1>1 DEF Register, Goto, sockets, channel, contact, TypeOK
    <3>3. QED
      BY <3>1, <3>2, QueueUntouched
  <2>4. FarewellsFollow' /\ GreetingsFollow'
    <3>1. UNCHANGED <<home, contact, cut, overlap>>
      BY <1>1 DEF Register, Goto, sockets, channel, contact
    <3>2. conns' # {} \/ (\E d \in Conns : pc'[d] \in {"del", "stamp", "tell"})
            \/ ~(conns # {} \/ \E d \in Conns : pc[d] \in {"del", "stamp", "tell"})
      BY <1>1 DEF Register, Goto, sockets, channel, contact, TypeOK, MapsMatch, Registered
    <3>3. ASSUME NEW i \in Instances, Registered(i)' # {}
          PROVE  \/ \E d \in Registered(i)' \cap first' : pc'[d] \in {"set", "announce"}
                 \/ /\ Registered(i) # {}
                    /\ ~\E d \in Registered(i) \cap first : pc[d] \in {"set", "announce"}
      BY <1>1, <3>3 DEF Register, Goto, sockets, channel, contact, TypeOK, MapsMatch, Registered
    <3>4. QED
      BY <3>1, <3>2, <3>3, PromisesKept
  <2>5. QED
    BY <2>1, <2>2, <2>3, <2>4
<1>2. ASSUME NEW c \in Conns, SetOnline(c) PROVE Core'
  <2>1. TypeOK'
    BY <1>2 DEF SetOnline, Goto, sockets, channel, contact, TypeOK
  <2>2. MapsMatch' /\ HandlersHaveEntries'
    BY <1>2 DEF SetOnline, Goto, sockets, channel, contact, TypeOK, MapsMatch, HandlersHaveEntries, Handling
  <2>3. QueueWaits' /\ QueueMatches'
    <3>1. UNCHANGED <<home, channels, subq, subbed>> /\ cut' = cut
      BY <1>2 DEF SetOnline, Goto, sockets, channel, contact
    <3>2. \A d \in Conns : pc[d] = "subscribing" => pc'[d] = "subscribing"
      BY <1>2 DEF SetOnline, Goto, sockets, channel, contact, TypeOK
    <3>3. QED
      BY <3>1, <3>2, QueueUntouched
  <2>4. FarewellsFollow' /\ GreetingsFollow'
    <3>1. UNCHANGED <<home, contact, cut, overlap>>
      BY <1>2 DEF SetOnline, Goto, sockets, channel, contact
    <3>2. conns' # {} \/ (\E d \in Conns : pc'[d] \in {"del", "stamp", "tell"})
            \/ ~(conns # {} \/ \E d \in Conns : pc[d] \in {"del", "stamp", "tell"})
      BY <1>2 DEF SetOnline, Goto, sockets, channel, contact, TypeOK, MapsMatch, Registered
    <3>3. ASSUME NEW i \in Instances, Registered(i)' # {}
          PROVE  \/ \E d \in Registered(i)' \cap first' : pc'[d] \in {"set", "announce"}
                 \/ /\ Registered(i) # {}
                    /\ ~\E d \in Registered(i) \cap first : pc[d] \in {"set", "announce"}
      BY <1>2, <3>3 DEF SetOnline, Goto, sockets, channel, contact, TypeOK, MapsMatch, Registered
    <3>4. QED
      BY <3>1, <3>2, <3>3, PromisesKept
  <2>5. QED
    BY <2>1, <2>2, <2>3, <2>4
<1>3. ASSUME NEW c \in Conns, Beat(c) PROVE Core'
  <2>1. TypeOK'
    BY <1>3 DEF Beat, Serving, sockets, channel, contact, TypeOK
  <2>2. MapsMatch' /\ HandlersHaveEntries'
    BY <1>3 DEF Beat, Serving, sockets, channel, contact, TypeOK, MapsMatch, HandlersHaveEntries, Handling
  <2>3. QueueWaits' /\ QueueMatches'
    <3>1. UNCHANGED <<home, channels, subq, subbed>> /\ cut' = cut
      BY <1>3 DEF Beat, Serving, sockets, channel, contact
    <3>2. \A d \in Conns : pc[d] = "subscribing" => pc'[d] = "subscribing"
      BY <1>3 DEF Beat, Serving, sockets, channel, contact, TypeOK
    <3>3. QED
      BY <3>1, <3>2, QueueUntouched
  <2>4. FarewellsFollow' /\ GreetingsFollow'
    <3>1. UNCHANGED <<home, contact, cut, overlap>>
      BY <1>3 DEF Beat, Serving, sockets, channel, contact
    <3>2. conns' # {} \/ (\E d \in Conns : pc'[d] \in {"del", "stamp", "tell"})
            \/ ~(conns # {} \/ \E d \in Conns : pc[d] \in {"del", "stamp", "tell"})
      BY <1>3 DEF Beat, Serving, sockets, channel, contact, TypeOK, MapsMatch, Registered
    <3>3. ASSUME NEW i \in Instances, Registered(i)' # {}
          PROVE  \/ \E d \in Registered(i)' \cap first' : pc'[d] \in {"set", "announce"}
                 \/ /\ Registered(i) # {}
                    /\ ~\E d \in Registered(i) \cap first : pc[d] \in {"set", "announce"}
      BY <1>3, <3>3 DEF Beat, Serving, sockets, channel, contact, TypeOK, MapsMatch, Registered
    <3>4. QED
      BY <3>1, <3>2, <3>3, PromisesKept
  <2>5. QED
    BY <2>1, <2>2, <2>3, <2>4
<1>4. ASSUME NEW c \in Conns, Heartbeat(c) PROVE Core'
  <2>1. TypeOK'
    BY <1>4 DEF Heartbeat, sockets, channel, contact, TypeOK
  <2>2. MapsMatch' /\ HandlersHaveEntries'
    BY <1>4 DEF Heartbeat, sockets, channel, contact, TypeOK, MapsMatch, HandlersHaveEntries, Handling
  <2>3. QueueWaits' /\ QueueMatches'
    <3>1. UNCHANGED <<home, channels, subq, subbed>> /\ cut' = cut
      BY <1>4 DEF Heartbeat, sockets, channel, contact
    <3>2. \A d \in Conns : pc[d] = "subscribing" => pc'[d] = "subscribing"
      BY <1>4 DEF Heartbeat, sockets, channel, contact, TypeOK
    <3>3. QED
      BY <3>1, <3>2, QueueUntouched
  <2>4. FarewellsFollow' /\ GreetingsFollow'
    <3>1. UNCHANGED <<home, contact, cut, overlap>>
      BY <1>4 DEF Heartbeat, sockets, channel, contact
    <3>2. conns' # {} \/ (\E d \in Conns : pc'[d] \in {"del", "stamp", "tell"})
            \/ ~(conns # {} \/ \E d \in Conns : pc[d] \in {"del", "stamp", "tell"})
      BY <1>4 DEF Heartbeat, sockets, channel, contact, TypeOK, MapsMatch, Registered
    <3>3. ASSUME NEW i \in Instances, Registered(i)' # {}
          PROVE  \/ \E d \in Registered(i)' \cap first' : pc'[d] \in {"set", "announce"}
                 \/ /\ Registered(i) # {}
                    /\ ~\E d \in Registered(i) \cap first : pc[d] \in {"set", "announce"}
      BY <1>4, <3>3 DEF Heartbeat, sockets, channel, contact, TypeOK, MapsMatch, Registered
    <3>4. QED
      BY <3>1, <3>2, <3>3, PromisesKept
  <2>5. QED
    BY <2>1, <2>2, <2>3, <2>4
<1>5. ASSUME NEW c \in Conns, Leave(c) PROVE Core'
  <2>1. TypeOK'
    BY <1>5 DEF Leave, Goto, sockets, channel, contact, TypeOK
  <2>2. MapsMatch' /\ HandlersHaveEntries'
    BY <1>5 DEF Leave, Goto, sockets, channel, contact, TypeOK, MapsMatch, HandlersHaveEntries, Handling
  <2>3. QueueWaits' /\ QueueMatches'
    <3>1. UNCHANGED <<home, channels, subq, subbed>> /\ cut' = cut
      BY <1>5 DEF Leave, Goto, sockets, channel, contact
    <3>2. \A d \in Conns : pc[d] = "subscribing" => pc'[d] = "subscribing"
      BY <1>5 DEF Leave, Goto, sockets, channel, contact, TypeOK
    <3>3. QED
      BY <3>1, <3>2, QueueUntouched
  <2>4. FarewellsFollow' /\ GreetingsFollow'
    <3>1. UNCHANGED <<home, contact, cut, overlap>>
      BY <1>5 DEF Leave, Goto, sockets, channel, contact
    <3>2. conns' # {} \/ (\E d \in Conns : pc'[d] \in {"del", "stamp", "tell"})
            \/ ~(conns # {} \/ \E d \in Conns : pc[d] \in {"del", "stamp", "tell"})
      BY <1>5 DEF Leave, Goto, sockets, channel, contact, TypeOK, MapsMatch, Registered
    <3>3. ASSUME NEW i \in Instances, Registered(i)' # {}
          PROVE  \/ \E d \in Registered(i)' \cap first' : pc'[d] \in {"set", "announce"}
                 \/ /\ Registered(i) # {}
                    /\ ~\E d \in Registered(i) \cap first : pc[d] \in {"set", "announce"}
      BY <1>5, <3>3 DEF Leave, Goto, sockets, channel, contact, TypeOK, MapsMatch, Registered
    <3>4. QED
      BY <3>1, <3>2, <3>3, PromisesKept
  <2>5. QED
    BY <2>1, <2>2, <2>3, <2>4
<1>6. ASSUME NEW c \in Conns, Delete(c) PROVE Core'
  <2>1. TypeOK'
    BY <1>6 DEF Delete, Goto, sockets, channel, contact, TypeOK
  <2>2. MapsMatch' /\ HandlersHaveEntries'
    BY <1>6 DEF Delete, Goto, sockets, channel, contact, TypeOK, MapsMatch, HandlersHaveEntries, Handling
  <2>3. QueueWaits' /\ QueueMatches'
    <3>1. UNCHANGED <<home, channels, subq, subbed>> /\ cut' = cut
      BY <1>6 DEF Delete, Goto, sockets, channel, contact
    <3>2. \A d \in Conns : pc[d] = "subscribing" => pc'[d] = "subscribing"
      BY <1>6 DEF Delete, Goto, sockets, channel, contact, TypeOK
    <3>3. QED
      BY <3>1, <3>2, QueueUntouched
  <2>4. FarewellsFollow' /\ GreetingsFollow'
    <3>1. UNCHANGED <<home, contact, cut, overlap>>
      BY <1>6 DEF Delete, Goto, sockets, channel, contact
    <3>2. conns' # {} \/ (\E d \in Conns : pc'[d] \in {"del", "stamp", "tell"})
            \/ ~(conns # {} \/ \E d \in Conns : pc[d] \in {"del", "stamp", "tell"})
      BY <1>6 DEF Delete, Goto, sockets, channel, contact, TypeOK, MapsMatch, Registered
    <3>3. ASSUME NEW i \in Instances, Registered(i)' # {}
          PROVE  \/ \E d \in Registered(i)' \cap first' : pc'[d] \in {"set", "announce"}
                 \/ /\ Registered(i) # {}
                    /\ ~\E d \in Registered(i) \cap first : pc[d] \in {"set", "announce"}
      BY <1>6, <3>3 DEF Delete, Goto, sockets, channel, contact, TypeOK, MapsMatch, Registered
    <3>4. QED
      BY <3>1, <3>2, <3>3, PromisesKept
  <2>5. QED
    BY <2>1, <2>2, <2>3, <2>4
<1>7. ASSUME NEW c \in Conns, LastSeen(c) PROVE Core'
  <2>1. TypeOK'
    BY <1>7 DEF LastSeen, Goto, sockets, channel, contact, TypeOK
  <2>2. MapsMatch' /\ HandlersHaveEntries'
    BY <1>7 DEF LastSeen, Goto, sockets, channel, contact, TypeOK, MapsMatch, HandlersHaveEntries, Handling
  <2>3. QueueWaits' /\ QueueMatches'
    <3>1. UNCHANGED <<home, channels, subq, subbed>> /\ cut' = cut
      BY <1>7 DEF LastSeen, Goto, sockets, channel, contact
    <3>2. \A d \in Conns : pc[d] = "subscribing" => pc'[d] = "subscribing"
      BY <1>7 DEF LastSeen, Goto, sockets, channel, contact, TypeOK
    <3>3. QED
      BY <3>1, <3>2, QueueUntouched
  <2>4. FarewellsFollow' /\ GreetingsFollow'
    <3>1. UNCHANGED <<home, contact, cut, overlap>>
      BY <1>7 DEF LastSeen, Goto, sockets, channel, contact
    <3>2. conns' # {} \/ (\E d \in Conns : pc'[d] \in {"del", "stamp", "tell"})
            \/ ~(conns # {} \/ \E d \in Conns : pc[d] \in {"del", "stamp", "tell"})
      BY <1>7 DEF LastSeen, Goto, sockets, channel, contact, TypeOK, MapsMatch, Registered
    <3>3. ASSUME NEW i \in Instances, Registered(i)' # {}
          PROVE  \/ \E d \in Registered(i)' \cap first' : pc'[d] \in {"set", "announce"}
                 \/ /\ Registered(i) # {}
                    /\ ~\E d \in Registered(i) \cap first : pc[d] \in {"set", "announce"}
      BY <1>7, <3>3 DEF LastSeen, Goto, sockets, channel, contact, TypeOK, MapsMatch, Registered
    <3>4. QED
      BY <3>1, <3>2, <3>3, PromisesKept
  <2>5. QED
    BY <2>1, <2>2, <2>3, <2>4
<1>8. CASE Expire
  <2>1. TypeOK'
    BY <1>8 DEF Expire, sockets, channel, contact, TypeOK
  <2>2. MapsMatch' /\ HandlersHaveEntries'
    BY <1>8 DEF Expire, sockets, channel, contact, TypeOK, MapsMatch, HandlersHaveEntries, Handling
  <2>3. QueueWaits' /\ QueueMatches'
    <3>1. UNCHANGED <<home, channels, subq, subbed>> /\ cut' = cut
      BY <1>8 DEF Expire, sockets, channel, contact
    <3>2. \A d \in Conns : pc[d] = "subscribing" => pc'[d] = "subscribing"
      BY <1>8 DEF Expire, sockets, channel, contact, TypeOK
    <3>3. QED
      BY <3>1, <3>2, QueueUntouched
  <2>4. FarewellsFollow' /\ GreetingsFollow'
    <3>1. UNCHANGED <<home, contact, overlap>> /\ (cut => cut')
      BY <1>8 DEF Expire, sockets, channel, contact
    <3>2. conns' # {} \/ cut' \/ (\E d \in Conns : pc'[d] \in {"del", "stamp", "tell"})
            \/ ~(conns # {} \/ \E d \in Conns : pc[d] \in {"del", "stamp", "tell"})
      BY <1>8 DEF Expire, sockets, channel, contact, TypeOK, MapsMatch, Registered
    <3>3. ASSUME NEW j \in Instances, Registered(j)' # {}
          PROVE  \/ \E d \in Registered(j)' \cap first' : pc'[d] \in {"set", "announce"}
                 \/ /\ Registered(j) # {}
                    /\ ~\E d \in Registered(j) \cap first : pc[d] \in {"set", "announce"}
      BY <1>8, <3>3, <1>h DEF Expire, sockets, channel, contact, TypeOK, MapsMatch, Registered
    <3>4. QED
      BY <3>1, <3>2, <3>3, PromisesKept
  <2>5. QED
    BY <2>1, <2>2, <2>3, <2>4
<1>9. ASSUME NEW c \in Conns, Announce(c) PROVE Core'
  <2>0. /\ WillShow' = "online" \/ misled'
        /\ misled => misled'
        /\ inbox' \in Seq(Statuses) /\ misled' \in BOOLEAN
    BY <1>9, PublishShows DEF Announce, Statuses
  <2>1. TypeOK'
    BY <1>9, <2>0 DEF Announce, Goto, Publish, sockets, channel, contact, TypeOK
  <2>2. MapsMatch' /\ HandlersHaveEntries'
    BY <1>9 DEF Announce, Goto, Publish, sockets, channel, contact, TypeOK, MapsMatch, HandlersHaveEntries, Handling
  <2>3. QueueWaits' /\ QueueMatches'
    <3>1. UNCHANGED <<home, channels, subq, subbed>> /\ cut' = cut
      BY <1>9 DEF Announce, Goto, Publish, sockets, channel, contact
    <3>2. \A d \in Conns : pc[d] = "subscribing" => pc'[d] = "subscribing"
      BY <1>9 DEF Announce, Goto, Publish, sockets, channel, contact, TypeOK
    <3>3. QED
      BY <3>1, <3>2, QueueUntouched
  <2>4. FarewellsFollow' /\ GreetingsFollow'
    BY <1>9, <2>0 DEF Announce, Goto, sockets, channel, MapsMatch, TypeOK, FarewellsFollow,
                      GreetingsFollow
  <2>5. QED
    BY <2>1, <2>2, <2>3, <2>4
<1>10. ASSUME NEW c \in Conns, TellOffline(c) PROVE Core'
  <2>0. /\ WillShow' = "offline" \/ misled'
        /\ misled => misled'
        /\ inbox' \in Seq(Statuses) /\ misled' \in BOOLEAN
    BY <1>10, PublishShows DEF TellOffline, Statuses
  <2>1. TypeOK'
    BY <1>10, <2>0 DEF TellOffline, Goto, Publish, sockets, channel, contact, TypeOK
  <2>2. MapsMatch' /\ HandlersHaveEntries'
    BY <1>10 DEF TellOffline, Goto, Publish, sockets, channel, contact, TypeOK, MapsMatch, HandlersHaveEntries, Handling
  <2>3. QueueWaits' /\ QueueMatches'
    <3>1. UNCHANGED <<home, channels, subq, subbed>> /\ cut' = cut
      BY <1>10 DEF TellOffline, Goto, Publish, sockets, channel, contact
    <3>2. \A d \in Conns : pc[d] = "subscribing" => pc'[d] = "subscribing"
      BY <1>10 DEF TellOffline, Goto, Publish, sockets, channel, contact, TypeOK
    <3>3. QED
      BY <3>1, <3>2, QueueUntouched
  <2>4. FarewellsFollow' /\ GreetingsFollow'
    BY <1>10, <2>0 DEF TellOffline, FarewellsFollow, GreetingsFollow, Registered
  <2>5. QED
    BY <2>1, <2>2, <2>3, <2>4
<1>11. CASE Show \/ ShowSnapshot
  <2>0. UNCHANGED <<sockets, beats, key, channel, watching, faults, cut, overlap>>
    BY <1>11 DEF Show, ShowSnapshot
  <2>1. TypeOK'
    <3>1. inbox' \in Seq(Statuses)
      <4>1. inbox \in Seq(Statuses)
        BY DEF TypeOK
      <4>2. inbox # <<>> => Tail(inbox) \in Seq(Statuses)
        BY <4>1, TailFacts
      <4>3. QED
        BY <1>11, <4>1, <4>2 DEF Show, ShowSnapshot
    <3>2. shown' \in Statuses /\ snap' \in Statuses \cup {"none", "asked", "done"}
      BY <1>11, TailFacts DEF Show, ShowSnapshot, TypeOK
    <3>3. misled' \in BOOLEAN
      BY <1>11 DEF Show, ShowSnapshot, TypeOK
    <3>4. QED
      BY <2>0, <3>1, <3>2, <3>3 DEF TypeOK, sockets, channel
  <2>2. MapsMatch' /\ HandlersHaveEntries'
    BY <2>0 DEF MapsMatch, HandlersHaveEntries, Handling, sockets, channel
  <2>3. QueueWaits' /\ QueueMatches'
    BY <2>0, QueueUntouched DEF sockets, channel
  <2>4. FarewellsFollow' /\ GreetingsFollow'
    <3>1. (WillShow' = WillShow \/ misled') /\ (misled => misled')
      BY <1>11, ShowKeeps
    <3>2. QED
      BY <2>0, <3>1 DEF FarewellsFollow, GreetingsFollow, Registered, sockets
  <2>5. QED
    BY <2>1, <2>2, <2>3, <2>4
<1>12. CASE Ask \/ PresenceOf \/ Unwatch \/ Watch
  <2>0. UNCHANGED <<sockets, beats, key, channel, cut, overlap>>
    BY <1>12 DEF Ask, PresenceOf, Unwatch, Watch
  <2>1. TypeOK'
    <3>1. inbox \in Seq(Statuses) /\ <<>> \in Seq(Statuses)
      BY EmptySeq DEF TypeOK
    <3>2. inbox' = inbox \/ inbox' = <<>>
      BY <1>12 DEF Ask, PresenceOf, Unwatch, Watch
    <3>3. snap' \in Statuses \cup {"none", "asked", "done"} /\ shown' = shown
      BY <1>12 DEF Ask, PresenceOf, Unwatch, Watch, TypeOK, Statuses
    <3>4. watching' \in BOOLEAN /\ misled' \in BOOLEAN
      BY <1>12 DEF Ask, PresenceOf, Unwatch, Watch, TypeOK
    <3>5. faults' \in 0..MaxFaults
      BY <1>12 DEF Ask, PresenceOf, Unwatch, Watch, TypeOK, Fault
    <3>6. QED
      BY <2>0, <3>1, <3>2, <3>3, <3>4, <3>5 DEF TypeOK, sockets, channel
  <2>2. MapsMatch' /\ HandlersHaveEntries'
    BY <2>0 DEF MapsMatch, HandlersHaveEntries, Handling, sockets, channel
  <2>3. QueueWaits' /\ QueueMatches'
    BY <2>0, QueueUntouched DEF sockets, channel
  <2>4. FarewellsFollow' /\ GreetingsFollow'
    <3>1. CASE Ask \/ Unwatch \/ Watch
      <4>1. (WillShow' = WillShow \/ misled') /\ (misled => misled')
        <5>1. CASE Ask
          BY <5>1 DEF Ask, WillShow, Statuses
        <5>2. CASE Unwatch
          BY <5>2 DEF Unwatch, WillShow
        <5>3. CASE Watch
          BY <5>3 DEF Watch, WillShow
        <5>4. QED
          BY <3>1, <5>1, <5>2, <5>3
      <4>2. QED
        BY <2>0, <4>1 DEF FarewellsFollow, GreetingsFollow, Registered, sockets
    <3>2. CASE PresenceOf
      <4>1. misled' \/ WillShow' = IF conns = {} THEN "offline" ELSE "online"
        BY <3>2 DEF PresenceOf, WillShow, Statuses
      <4>2. QED
        BY <2>0, <4>1 DEF FarewellsFollow, GreetingsFollow, Registered, sockets
    <3>3. QED
      BY <1>12, <3>1, <3>2
  <2>5. QED
    BY <2>1, <2>2, <2>3, <2>4
<1>13. ASSUME NEW c \in Conns, Connect(c) PROVE Core'
  <2> DEFINE i == home[c]
  <2>1. i \in Instances /\ pc[c] = "new" /\ c \notin conns /\ c \notin handlers
    BY <1>13, <1>h DEF Connect, MapsMatch
  <2>2. /\ home' = home /\ channels' = channels \cup {i} /\ subbed' = subbed
        /\ UNCHANGED <<conns, first, beats, key, contact, faults, cut, overlap>>
        /\ sock' = [sock EXCEPT ![c] = "open"]
    BY <1>13 DEF Connect
  <2>3. CASE i \in channels
    <3>1. channels' = channels /\ subq' = subq /\ handlers' = handlers \cup {c}
          /\ pc' = [pc EXCEPT ![c] = "register"]
      BY <1>13, <2>2, <2>3 DEF Connect, Goto
    <3>2. TypeOK'
      BY <2>2, <3>1 DEF TypeOK, contact
    <3>3. MapsMatch' /\ HandlersHaveEntries'
      BY <2>1, <2>2, <2>3, <3>1 DEF TypeOK, MapsMatch, HandlersHaveEntries, Handling
    <3>4. QueueWaits' /\ QueueMatches'
      <4>1. \A d \in Conns : pc[d] = "subscribing" => pc'[d] = "subscribing"
        BY <2>1, <3>1 DEF TypeOK
      <4>2. QED
        BY <2>2, <3>1, <4>1, QueueUntouched
    <3>5. FarewellsFollow' /\ GreetingsFollow'
      <4>1. WillShow' = WillShow /\ UNCHANGED <<home, conns, first, misled, cut, overlap>>
        BY <2>2, ContactUntouched DEF contact
      <4>2. \A d \in Conns \ {c} : pc'[d] = pc[d]
        BY <3>1 DEF TypeOK
      <4>3. \A j \in Instances : Registered(j)' = Registered(j) /\ c \notin Registered(j)
                                /\ Registered(j) \subseteq Conns
        BY <2>1, <4>1 DEF Registered, MapsMatch
      <4>4. FarewellsFollow'
        BY <2>1, <4>1, <4>2 DEF FarewellsFollow
      <4>5. GreetingsFollow'
        BY <4>1, <4>2, <4>3 DEF GreetingsFollow
      <4>6. QED
        BY <4>4, <4>5
    <3>6. QED
      BY <3>2, <3>3, <3>4, <3>5
  <2>4. CASE i \notin channels
    <3>1. subq' = [subq EXCEPT ![i] = Append(@, c)] /\ handlers' = handlers
          /\ pc' = [pc EXCEPT ![c] = "subscribing"]
      BY <1>13, <2>4 DEF Connect, Goto
    <3>2. /\ subq' \in [Instances -> Seq(Conns \cup {"unsub"})]
          /\ WillForward(i)' <=> c # "unsub"
          /\ \A j \in Instances \ {i} : WillForward(j)' <=> WillForward(j)
      BY <2>1, <2>2, <3>1, AppendDecides
    <3>3. TypeOK'
      BY <2>1, <2>2, <3>1, <3>2 DEF TypeOK, contact
    <3>4. MapsMatch' /\ HandlersHaveEntries'
      BY <2>1, <2>2, <3>1 DEF TypeOK, MapsMatch, HandlersHaveEntries, Handling
    <3>5. QueueMatches'
      BY <2>2, <3>2 DEF QueueMatches
    <3>6. QueueWaits'
      <4>1. /\ pc[c] # "subscribing" /\ pc'[c] = "subscribing"
            /\ \A d \in Conns : pc[d] = "subscribing" => pc'[d] = "subscribing"
        BY <2>1, <3>1 DEF TypeOK
      <4>2. QED
        BY <2>1, <2>2, <3>1, <4>1, QueueGrows
    <3>7. FarewellsFollow' /\ GreetingsFollow'
      <4>1. WillShow' = WillShow /\ UNCHANGED <<home, conns, first, misled, cut, overlap>>
        BY <2>2, ContactUntouched DEF contact
      <4>2. \A d \in Conns \ {c} : pc'[d] = pc[d]
        BY <3>1 DEF TypeOK
      <4>3. \A j \in Instances : Registered(j)' = Registered(j) /\ c \notin Registered(j)
                                /\ Registered(j) \subseteq Conns
        BY <2>1, <4>1 DEF Registered, MapsMatch
      <4>4. FarewellsFollow'
        BY <2>1, <4>1, <4>2 DEF FarewellsFollow
      <4>5. GreetingsFollow'
        BY <4>1, <4>2, <4>3 DEF GreetingsFollow
      <4>6. QED
        BY <4>4, <4>5
    <3>8. QED
      BY <3>3, <3>4, <3>5, <3>6, <3>7
  <2>5. QED
    BY <2>3, <2>4
<1>14. ASSUME NEW c \in Conns, Close(c) PROVE Core'
  <2> DEFINE i == home[c]
  <2>1. i \in Instances /\ sock' = [sock EXCEPT ![c] = "closed"]
        /\ UNCHANGED <<home, conns, first, beats, key, subbed, contact, faults, cut, overlap>>
    BY <1>14, <1>h DEF Close
  <2>2. CASE pc[c] # "serving"
    <3>1. UNCHANGED <<pc, channels, handlers, subq>>
      BY <1>14, <2>2 DEF Close
    <3>2. TypeOK' /\ MapsMatch' /\ HandlersHaveEntries'
      BY <2>1, <3>1 DEF TypeOK, contact, MapsMatch, HandlersHaveEntries, Handling
    <3>3. QueueWaits' /\ QueueMatches'
      BY <2>1, <3>1, QueueUntouched
    <3>4. FarewellsFollow' /\ GreetingsFollow'
      BY <2>1, <3>1, ContactUntouched
         DEF FarewellsFollow, GreetingsFollow, Registered, contact
    <3>5. QED
      BY <3>2, <3>3, <3>4
  <2>3. CASE pc[c] = "serving"
    <3>1. pc' = [pc EXCEPT ![c] = "leave"] /\ handlers' = handlers \ {c} /\ Unsubscribe(c)
      BY <1>14, <2>3 DEF Close, Goto, Unsubscribe
    <3>2. c \in handlers /\ i \in channels
      BY <2>1, <2>3 DEF MapsMatch, HandlersHaveEntries, Handling
    <3>3. \A d \in Conns : pc[d] = "subscribing" <=> pc'[d] = "subscribing"
      BY <2>3, <3>1 DEF TypeOK
    <3>4. FarewellsFollow' /\ GreetingsFollow'
      <4>1. WillShow' = WillShow /\ UNCHANGED <<home, conns, first, misled, cut, overlap>>
        BY <2>1, ContactUntouched DEF contact
      <4>2. \A d \in Conns \ {c} : pc'[d] = pc[d]
        BY <3>1 DEF TypeOK
      <4>3. \A j \in Instances : Registered(j)' = Registered(j) /\ Registered(j) \subseteq Conns
        BY <4>1 DEF Registered, MapsMatch
      <4>4. FarewellsFollow'
        BY <2>3, <4>1, <4>2 DEF FarewellsFollow
      <4>5. GreetingsFollow'
        BY <2>3, <4>1, <4>2, <4>3 DEF GreetingsFollow
      <4>6. QED
        BY <4>4, <4>5
    <3>5. MapsMatch'
      BY <2>1, <2>3, <3>1 DEF TypeOK, MapsMatch
    <3>6. CASE Handling(i) \subseteq {c}
      <4>1. channels' = channels \ {i} /\ subq' = [subq EXCEPT ![i] = Append(@, "unsub")]
        BY <3>1, <3>2, <3>6 DEF Unsubscribe
      <4>2. /\ subq' \in [Instances -> Seq(Conns \cup {"unsub"})]
            /\ ~WillForward(i)'
            /\ \A j \in Instances \ {i} : WillForward(j)' <=> WillForward(j)
        BY <2>1, <4>1, AppendDecides
      <4>3. TypeOK'
        BY <2>1, <3>1, <4>1, <4>2 DEF TypeOK, contact
      <4>4. HandlersHaveEntries'
        BY <2>1, <3>1, <3>6, <4>1 DEF HandlersHaveEntries, Handling
      <4>5. QueueMatches'
        BY <2>1, <4>1, <4>2 DEF QueueMatches
      <4>6. QueueWaits'
        BY <2>1, <3>3, <4>1, QueueGrows
      <4>7. QED
        BY <3>4, <3>5, <4>3, <4>4, <4>5, <4>6
    <3>7. CASE ~(Handling(i) \subseteq {c})
      <4>1. channels' = channels /\ subq' = subq
        BY <3>1, <3>7 DEF Unsubscribe
      <4>2. TypeOK'
        BY <2>1, <3>1, <4>1 DEF TypeOK, contact
      <4>3. HandlersHaveEntries'
        BY <2>1, <3>1, <4>1 DEF HandlersHaveEntries, Handling
      <4>4. QueueWaits' /\ QueueMatches'
        BY <2>1, <3>3, <4>1, QueueUntouched
      <4>5. QED
        BY <3>4, <3>5, <4>2, <4>3, <4>4
    <3>8. QED
      BY <3>6, <3>7
  <2>4. QED
    BY <2>2, <2>3
<1>15. ASSUME NEW i \in Instances, Subscribed(i) \/ SubscribeFails(i) PROVE Core'
  <2> DEFINE c == Head(subq[i])
  <2>1. /\ subq[i] # <<>> /\ subq' = [subq EXCEPT ![i] = Tail(@)]
        /\ UNCHANGED <<home, sock, conns, first, beats, key, channels, contact, overlap>>
    BY <1>15 DEF Subscribed, SubscribeFails
  <2>2. subq[i] \in Seq(Conns \cup {"unsub"})
    BY DEF TypeOK
  <2>3. /\ c \in Conns \cup {"unsub"}
        /\ c # "unsub" => c \in Conns /\ home[c] = i /\ pc[c] = "subscribing"
    <3>1. c \in Conns \cup {"unsub"} /\ c = subq[i][1] /\ 1 \in DOMAIN subq[i]
      BY <2>1, <2>2, TailFacts
    <3>2. QED
      BY <3>1 DEF QueueWaits
  <2>4. \A j \in Instances \ {i} : j \in subbed' <=> j \in subbed
    BY <1>15 DEF Subscribed, SubscribeFails
  <2>5. /\ subq' \in [Instances -> Seq(Conns \cup {"unsub"})]
        /\ Len(subq[i]) > 1 \/ (i \in subbed' <=> c # "unsub") => (WillForward(i)' <=> WillForward(i))
        /\ \A j \in Instances \ {i} : WillForward(j)' <=> WillForward(j)
    BY <2>1, <2>4, AnswersFollow
  <2>6. /\ c = "unsub" => pc' = pc /\ handlers' = handlers
        /\ c # "unsub" =>
             \/ pc' = [pc EXCEPT ![c] = "stuck"] /\ handlers' = handlers
             \/ /\ pc' = [pc EXCEPT ![c] = "register"] /\ handlers' = handlers \cup {c}
                /\ i \in channels
    BY <1>15 DEF Subscribed, SubscribeFails, Goto
  <2>7. subbed' \subseteq Instances /\ faults' \in 0..MaxFaults /\ cut' \in BOOLEAN /\ (cut => cut')
    <3>1. subbed' \subseteq Instances
      BY <1>15 DEF Subscribed, SubscribeFails, TypeOK
    <3>2. faults' \in 0..MaxFaults
      BY <1>15 DEF Subscribed, SubscribeFails, Fault, TypeOK
    <3>3. cut' \in BOOLEAN /\ (cut => cut')
      <4>1. cut \in BOOLEAN
        BY DEF TypeOK
      <4>2. cut' = cut \/ cut' = TRUE
        BY <1>15 DEF Subscribed, SubscribeFails
      <4>3. QED
        BY <4>1, <4>2
    <3>4. QED
      BY <3>1, <3>2, <3>3
  <2>8. TypeOK'
    <3>1. /\ pc' \in [Conns -> {"new", "subscribing", "register", "set", "announce", "serving",
                               "leave", "del", "stamp", "tell", "done", "stuck"}]
          /\ handlers' \subseteq Conns
      BY <2>3, <2>6 DEF TypeOK
    <3>2. QED
      BY <2>1, <2>5, <2>7, <3>1 DEF TypeOK, contact
  <2>9. MapsMatch' /\ HandlersHaveEntries'
    BY <2>1, <2>3, <2>6 DEF TypeOK, MapsMatch, HandlersHaveEntries, Handling
  <2>10. QueueWaits'
    <3>1. \A d \in Conns : d # c => pc'[d] = pc[d]
      BY <2>3, <2>6 DEF TypeOK
    <3>2. QED
      BY <2>1, <2>6, <3>1, QueueShrinks
  <2>11. QueueMatches'
    <3>1. CASE Subscribed(i)
      <4>1. i \in subbed' <=> c # "unsub"
        BY <3>1 DEF Subscribed
      <4>2. QED
        BY <2>1, <2>5, <2>7, <4>1 DEF QueueMatches
    <3>2. CASE SubscribeFails(i)
      <4>1. cut' /\ c # "unsub"
        BY <3>2 DEF SubscribeFails
      <4>2. i \in channels \/ Len(subq[i]) > 1
        <5>1. SUFFICES ASSUME i \notin channels PROVE Len(subq[i]) > 1
          OBVIOUS
        <5>2. subq[i][Len(subq[i])] = "unsub"
          BY <2>1, <5>1 DEF QueueMatches, WillForward
        <5>3. c = subq[i][1] /\ Len(subq[i]) \in Nat \ {0}
          BY <2>1, <2>2, TailFacts
        <5>4. QED
          BY <4>1, <5>2, <5>3
      <4>3. QED
        BY <2>1, <2>5, <4>1, <4>2 DEF QueueMatches
    <3>3. QED
      BY <1>15, <3>1, <3>2
  <2>12. FarewellsFollow' /\ GreetingsFollow'
    <3>1. \A d \in Conns : pc[d] # "subscribing" => pc'[d] = pc[d]
      BY <2>3, <2>6 DEF TypeOK
    <3>2. QED
      BY <2>1, <2>7, <3>1, ContactUntouched
         DEF FarewellsFollow, GreetingsFollow, Registered, contact, MapsMatch
  <2>13. QED
    BY <2>8, <2>9, <2>10, <2>11, <2>12
<1>16. ASSUME NEW i \in Instances, Crash(i) PROVE Core'
  <2> DEFINE S == {c \in Conns : home[c] = i /\ pc[c] # "new"}
  <2>1. /\ sock' = [c \in Conns |-> IF c \in S THEN "closed" ELSE sock[c]]
        /\ pc' = [c \in Conns |-> IF c \in S THEN "done" ELSE pc[c]]
        /\ conns' = conns \ S /\ beats' = beats \ S /\ handlers' = handlers \ S
        /\ channels' = channels \ {i} /\ subbed' = subbed \ {i}
        /\ subq' = [subq EXCEPT ![i] = <<>>]
        /\ cut' = TRUE /\ faults' \in 0..MaxFaults
        /\ UNCHANGED <<home, first, key, contact, overlap>>
    BY <1>16 DEF Crash, Fault, TypeOK
  <2>2. subq' \in [Instances -> Seq(Conns \cup {"unsub"})]
    <3>1. <<>> \in Seq(Conns \cup {"unsub"})
      BY EmptySeq
    <3>2. QED
      BY <2>1, <3>1 DEF TypeOK
  <2>3. subq'[i] = <<>> /\ \A j \in Instances \ {i} : subq'[j] = subq[j]
    BY <2>1 DEF TypeOK
  <2>4. TypeOK'
    BY <2>1, <2>2 DEF TypeOK, contact
  <2>5. MapsMatch' /\ HandlersHaveEntries'
    BY <2>1 DEF TypeOK, MapsMatch, HandlersHaveEntries, Handling
  <2>6. QueueMatches'
    BY <2>1, <2>3 DEF QueueMatches, WillForward
  <2>7. QueueWaits'
    <3>1. SUFFICES ASSUME NEW j \in Instances, NEW n \in DOMAIN subq'[j], subq'[j][n] # "unsub"
                   PROVE  /\ home[subq'[j][n]] = j /\ pc'[subq'[j][n]] = "subscribing"
                          /\ \A k \in DOMAIN subq'[j] : subq'[j][k] = subq'[j][n] => k = n
      BY <2>1 DEF QueueWaits
    <3>2. j # i /\ subq'[j] = subq[j]
      BY <2>3, EmptySeq
    <3>3. n \in DOMAIN subq[j] /\ subq[j][n] # "unsub"
      BY <3>1, <3>2
    <3>4. subq[j] \in Seq(Conns \cup {"unsub"})
      BY DEF TypeOK
    <3>5. subq[j][n] \in Conns
      BY <3>3, <3>4, LenProperties
    <3>6. /\ home[subq[j][n]] = j /\ pc[subq[j][n]] = "subscribing"
          /\ \A k \in DOMAIN subq[j] : subq[j][k] = subq[j][n] => k = n
      BY <3>3, <3>5 DEF QueueWaits
    <3>7. pc'[subq[j][n]] = "subscribing"
      BY <2>1, <3>2, <3>5, <3>6
    <3>8. QED
      BY <3>2, <3>6, <3>7
  <2>8. FarewellsFollow'
    BY <2>1 DEF FarewellsFollow
  <2>9. GreetingsFollow'
    <3>1. WillShow' = WillShow /\ misled' = misled
      BY <2>1, ContactUntouched DEF contact
    <3>2. Registered(i)' = {}
      BY <2>1 DEF Registered, MapsMatch
    <3>3. \A j \in Instances \ {i} : /\ Registered(j)' = Registered(j)
                                     /\ \A d \in Registered(j) : pc'[d] = pc[d]
      BY <2>1 DEF Registered, MapsMatch
    <3>4. QED
      BY <2>1, <3>1, <3>2, <3>3 DEF GreetingsFollow
  <2>10. QED
    BY <2>4, <2>5, <2>6, <2>7, <2>8, <2>9
<1>17. CASE UNCHANGED vars
  <2>1. TypeOK'
    BY <1>17 DEF vars, sockets, channel, contact, TypeOK
  <2>2. MapsMatch' /\ HandlersHaveEntries'
    BY <1>17 DEF vars, sockets, channel, MapsMatch, HandlersHaveEntries, Handling
  <2>3. QueueWaits' /\ QueueMatches'
    BY <1>17, QueueUntouched DEF vars, sockets, channel
  <2>4. FarewellsFollow' /\ GreetingsFollow'
    BY <1>17, ContactUntouched DEF vars, sockets, contact, FarewellsFollow, GreetingsFollow,
                                   Registered
  <2>5. QED
    BY <2>1, <2>2, <2>3, <2>4
<1>18. QED
  BY <1>1, <1>2, <1>3, <1>4, <1>5, <1>6, <1>7, <1>8, <1>9, <1>10, <1>11, <1>12, <1>13, <1>14,
     <1>15, <1>16, <1>17 DEF Next, Handler, Contact

\* What follows from the core: nobody is deaf, and what Redis forwards for no
\* handler ends.
LEMMA CoreGivesInv == Core => PresenceInv
<1> SUFFICES ASSUME Core PROVE PresenceInv
  OBVIOUS
<1>1. \A i \in Instances : subq[i] # <<>> => Len(subq[i]) \in DOMAIN subq[i]
                           /\ (subq[i][Len(subq[i])] # "unsub" => subq[i][Len(subq[i])] \in Conns)
                           /\ \A k \in DOMAIN subq[i] : ~(k > Len(subq[i]))
  <2> SUFFICES ASSUME NEW i \in Instances, subq[i] # <<>>
               PROVE  /\ Len(subq[i]) \in DOMAIN subq[i]
                      /\ subq[i][Len(subq[i])] # "unsub" => subq[i][Len(subq[i])] \in Conns
                      /\ \A k \in DOMAIN subq[i] : ~(k > Len(subq[i]))
    OBVIOUS
  <2>1. subq[i] \in Seq(Conns \cup {"unsub"})
    BY DEF Core, TypeOK
  <2>2. Len(subq[i]) \in Nat \ {0} /\ DOMAIN subq[i] = 1 .. Len(subq[i])
    BY <2>1, TailFacts
  <2>3. Len(subq[i]) \in DOMAIN subq[i] /\ \A k \in DOMAIN subq[i] : ~(k > Len(subq[i]))
    BY <2>2
  <2>4. subq[i][Len(subq[i])] \in Conns \cup {"unsub"}
    BY <2>1, <2>2, <2>3, LenProperties
  <2>5. QED
    BY <2>3, <2>4
<1>2. ForwardsEnd
  <2> SUFFICES ASSUME NEW i \in subbed \ channels
               PROVE  \E n \in DOMAIN subq[i] : subq[i][n] = "unsub"
    BY DEF ForwardsEnd
  <2>1. i \in Instances
    BY DEF Core, TypeOK
  <2>2. subq[i] # <<>> /\ subq[i][Len(subq[i])] = "unsub"
    BY <2>1 DEF Core, QueueMatches, WillForward
  <2>3. QED
    BY <1>1, <2>1, <2>2
<1>3. NobodyIsDeaf
  <2> SUFFICES ASSUME NEW c \in Serving
               PROVE  LET i == home[c] IN
                 /\ c \in handlers
                 /\ \/ cut
                    \/ i \in subbed /\ \A n \in DOMAIN subq[i] : subq[i][n] # "unsub"
                    \/ \E n \in DOMAIN subq[i] :
                         /\ subq[i][n] \in Conns
                         /\ \A k \in DOMAIN subq[i] : k > n => subq[i][k] # "unsub"
    BY DEF NobodyIsDeaf
  <2> DEFINE i == home[c]
  <2>1. c \in Conns /\ c \in handlers /\ i \in Instances
    BY RoutingsAreFunctions DEF Core, TypeOK, MapsMatch, Serving
  <2>2. i \in channels
    BY <2>1 DEF Core, HandlersHaveEntries, Handling
  <2>3. cut \/ WillForward(i)
    BY <2>1, <2>2 DEF Core, QueueMatches
  <2>4. CASE subq[i] = <<>> /\ i \in subbed
    <3>1. DOMAIN subq[i] = {}
      BY <2>4, EmptySeq
    <3>2. QED
      BY <2>1, <2>4, <3>1
  <2>5. CASE subq[i] # <<>> /\ subq[i][Len(subq[i])] # "unsub"
    <3>1. /\ Len(subq[i]) \in DOMAIN subq[i] /\ subq[i][Len(subq[i])] \in Conns
          /\ \A k \in DOMAIN subq[i] : k > Len(subq[i]) => subq[i][k] # "unsub"
      BY <1>1, <2>1, <2>5
    <3>2. QED
      BY <2>1, <3>1
  <2>6. QED
    BY <2>1, <2>3, <2>4, <2>5 DEF WillForward
<1>4. QED
  BY <1>2, <1>3 DEF Core, PresenceInv

\* The handlers, the subscriptions and what the contact will see are right in every
\* interleaving of onConnect, onDisconnect, answers, crashes and lost frames.
THEOREM PresenceSafety == Spec => []PresenceInv
<1>1. Spec => []Core
  BY InitCore, StepCore, PTL DEF Spec
<1>2. QED
  BY <1>1, CoreGivesInv, PTL

\* What is published to a user reaches every socket that is being served, or the
\* SUBSCRIBE is on the way, unless one failed or an instance crashed.
THEOREM EveryoneHears == Spec => []NobodyIsDeaf
<1>1. PresenceInv => NobodyIsDeaf
  BY DEF PresenceInv
<1>2. QED
  BY <1>1, PresenceSafety, PTL

\* A contact whose page has everything that was published sees the user's true
\* status, but for the causes that OnlineIsTrue and OfflineIsTrue name.
THEOREM ContactsSeeTheTruth == Spec => []ShownIsTrue
<1>1. PresenceInv => ShownIsTrue
  <2> SUFFICES ASSUME PresenceInv, AtRest
               PROVE  /\ shown = "online" => IsOnline \/ Leaked # {} \/ cut \/ misled
                      /\ shown = "offline" => ~IsOnline \/ overlap \/ misled
    BY DEF ShownIsTrue, OnlineIsTrue, OfflineIsTrue
  <2>1. WillShow = shown
    BY DEF AtRest, WillShow
  <2>2. \A c \in conns : c \in Conns /\ pc[c] = "serving" /\ sock[c] \in {"open", "closed"}
    BY DEF PresenceInv, TypeOK, MapsMatch, AtRest
  <2>3. ASSUME shown = "online" PROVE IsOnline \/ Leaked # {} \/ cut \/ misled
    <3>1. conns # {} \/ cut \/ misled
      BY <2>1, <2>3 DEF PresenceInv, FarewellsFollow, AtRest
    <3>2. QED
      BY <2>2, <3>1 DEF IsOnline, Serving, Leaked
  <2>4. ASSUME shown = "offline" PROVE ~IsOnline \/ overlap \/ misled
    <3> SUFFICES ASSUME NEW c \in Serving PROVE overlap \/ misled
      BY DEF IsOnline
    <3>1. c \in conns /\ home[c] \in Instances
      BY RoutingsAreFunctions DEF PresenceInv, TypeOK, MapsMatch, Serving
    <3>2. Registered(home[c]) # {}
      BY <3>1 DEF Registered
    <3>3. \A d \in Registered(home[c]) : pc[d] = "serving"
      BY <2>2 DEF Registered
    <3>4. QED
      BY <2>1, <2>4, <3>1, <3>2, <3>3 DEF PresenceInv, GreetingsFollow
  <2>5. QED
    BY <2>3, <2>4
<1>2. QED
  BY <1>1, PresenceSafety, PTL
===============================================================================
