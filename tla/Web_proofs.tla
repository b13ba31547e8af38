------------------------------ MODULE Web_proofs ------------------------------
(***************************************************************************)
(* The proofs about the web client.  First a tab's store of messages       *)
(* (WebClient), for any number of messages, page size and skew: entries    *)
(* say what their rows say, and no status is taken back.  Then one-to-one  *)
(* calls (Calls), for any number of users, tabs, calls, managers and       *)
(* faults: a manager takes the answer to its own call, no connection is    *)
(* hidden from the user, callers and rings belong to each other, and a     *)
(* caller is not left alone.                                               *)
(***************************************************************************)
EXTENDS Calls, WebClient, FiniteSetTheorems, SequenceTheorems, TLAPS

\* SetToSeq lists a finite set, each of its elements once.
LEMMA SetsAreListed ==
  ASSUME NEW S, IsFiniteSet(S)
  PROVE  /\ SetToSeq(S) \in Seq(S)
         /\ \A x \in S : \E i \in DOMAIN SetToSeq(S) : SetToSeq(S)[i] = x
         /\ \A i, j \in DOMAIN SetToSeq(S) : SetToSeq(S)[i] = SetToSeq(S)[j] => i = j
<1> DEFINE n == Cardinality(S)
           Lists == {f \in [1..n -> S] : IsInjective(f)}
<1>1. n \in Nat /\ ExistsBijection(1..n, S)
  BY FS_CardinalityType
<1>2. PICK g \in Bijection(1..n, S) : TRUE
  BY <1>1 DEF ExistsBijection
<1>3. g \in [1..n -> S] /\ IsInjective(g)
  BY <1>2 DEF Bijection, Injection
<1>4. SetToSeq(S) \in [1..n -> S] /\ IsInjective(SetToSeq(S))
  BY <1>3 DEF SetToSeq
<1>5. IsFiniteSet(1..n) /\ Cardinality(1..n) = n
  BY <1>1, FS_Interval
<1>6. SetToSeq(S) \in Surjection(1..n, S)
  BY <1>1, <1>4, <1>5, FS_Injection DEF Injection
<1>7. SetToSeq(S) \in Seq(S)
  BY <1>1, <1>4, SeqDef
<1>8. QED
  BY <1>4, <1>6, <1>7 DEF Surjection, IsInjective

\* The numbers of messages and the stamps.
LEMMA Stamped ==
  /\ Cardinality(Messages) \in Nat /\ IsFiniteSet(Messages)
  /\ Times \subseteq Stamps /\ Stamps \subseteq Int /\ MaxSkew \in Nat
<1>1. Cardinality(Messages) \in Nat
  BY MessagesAreFinite, FS_CardinalityType
<1>2. QED
  BY <1>1, MessagesAreFinite, BoundsAreNumbers DEF Times, Stamps

\* What is in a list is an entry.
LEMMA EntryOfList ==
  ASSUME NEW s \in Seq(Entries), NEW k \in DOMAIN s
  PROVE  /\ s[k] \in Entries /\ s[k].id \in Messages /\ s[k].at \in Stamps
         /\ s[k].at \in Int /\ s[k].status \in DOMAIN Rank
<1>1. DOMAIN s = 1..Len(s)
  BY LenProperties
<1>2. s[k] \in Entries
  BY <1>1, ElementOfSeq
<1>3. s[k].id \in Messages /\ s[k].at \in Stamps /\ s[k].status \in DOMAIN Rank
  BY <1>2 DEF Entries
<1>4. QED
  BY <1>2, <1>3, Stamped

\* Sorting gives each entry a place of its own, ...
LEMMA PlacesDiffer ==
  ASSUME NEW s \in Seq(Entries), NEW i \in DOMAIN s, NEW j \in DOMAIN s, i # j
  PROVE  Place(s, i) \in DOMAIN s /\ Place(s, i) # Place(s, j)
<1> DEFINE Those(k) == {l \in DOMAIN s : Before(s, l, k)}
<1>1. PICK n \in Nat : n = Len(s) /\ DOMAIN s = 1..n
  BY LenProperties
<1>2. \A k \in DOMAIN s : s[k].at \in Int
  BY EntryOfList
<1>3. IsFiniteSet(DOMAIN s) /\ Cardinality(DOMAIN s) = n
  <2>1. n \in Nat /\ n - 1 + 1 = n /\ 1 \in Int /\ n \in Int /\ ~(1 > n)
    BY <1>1
  <2>2. IsFiniteSet(1..n) /\ Cardinality(1..n) = n - 1 + 1
    BY <2>1, FS_Interval
  <2>3. QED
    BY <1>1, <2>1, <2>2
<1>4. ASSUME NEW k \in DOMAIN s
      PROVE  /\ IsFiniteSet(Those(k)) /\ Cardinality(Those(k)) \in Nat
             /\ Cardinality(Those(k)) < n
  <2>1. k \notin Those(k)
    BY <1>1, <1>2 DEF Before
  <2>2. IsFiniteSet(DOMAIN s \ {k}) /\ Cardinality(DOMAIN s \ {k}) = n - 1
    BY <1>3, FS_RemoveElement
  <2>3. Those(k) \in SUBSET (DOMAIN s \ {k})
    BY <2>1
  <2>4. IsFiniteSet(Those(k)) /\ Cardinality(Those(k)) <= n - 1
    BY <2>2, <2>3, FS_Subset
  <2>5. QED
    BY <1>1, <2>4, FS_CardinalityType
<1>5. ASSUME NEW k \in DOMAIN s, NEW l \in DOMAIN s, Before(s, k, l)
      PROVE  Cardinality(Those(k)) # Cardinality(Those(l))
  <2>1. Those(k) \in SUBSET Those(l)
    BY <1>1, <1>2, <1>5 DEF Before
  <2>2. k \in Those(l) /\ k \notin Those(k)
    BY <1>1, <1>2, <1>5 DEF Before
  <2>3. IsFiniteSet(Those(l))
    BY <1>4
  <2>4. QED
    BY <2>1, <2>2, <2>3, FS_Subset
<1>6. Before(s, i, j) \/ Before(s, j, i)
  BY <1>1, <1>2 DEF Before
<1>7. Cardinality(Those(i)) # Cardinality(Those(j))
  BY <1>5, <1>6
<1>8. Place(s, i) = 1 + Cardinality(Those(i)) /\ Place(s, j) = 1 + Cardinality(Those(j))
  BY DEF Place
<1> HIDE DEF Those
<1>9. PICK c \in Nat : c = Cardinality(Those(i)) /\ c < n
  BY <1>4
<1>10. PICK d \in Nat : d = Cardinality(Those(j)) /\ d < n
  BY <1>4
<1>11. c # d /\ Place(s, i) = 1 + c /\ Place(s, j) = 1 + d
  BY <1>7, <1>8, <1>9, <1>10
<1>12. 1 + c \in 1..n /\ 1 + c # 1 + d
  <2>1. c # d /\ c \in Nat /\ d \in Nat /\ c < n
    BY <1>9, <1>10, <1>11
  <2>2. QED
    BY <2>1
<1>13. QED
  BY <1>1, <1>11, <1>12

\* ... so that it only moves them.
IsMoved(l, s) ==
  /\ l \in Seq(Entries) /\ DOMAIN l = DOMAIN s
  /\ \E f \in [DOMAIN s -> DOMAIN s] :
       /\ \A k \in DOMAIN s : l[k] = s[f[k]]
       /\ \A i, j \in DOMAIN s : f[i] = f[j] => i = j
       /\ \A i \in DOMAIN s : \E k \in DOMAIN s : f[k] = i
LEMMA SortedIsMoved ==
  ASSUME NEW s \in Seq(Entries)
  PROVE  IsMoved(Sorted(s), s)
<1>1. PICK n \in Nat : n = Len(s) /\ DOMAIN s = 1..n
  BY LenProperties
<1>2. \A i \in DOMAIN s : Place(s, i) \in DOMAIN s
  <2>1. SUFFICES ASSUME NEW i \in DOMAIN s PROVE Place(s, i) \in DOMAIN s
    OBVIOUS
  <2>2. CASE \E j \in DOMAIN s : i # j
    BY <2>2, PlacesDiffer
  <2>3. CASE DOMAIN s = {i}
    <3>1. n = 1 /\ i = 1
      <4>1. n \in Nat /\ 1 \in 1..n /\ n \in 1..n
        BY <1>1
      <4>2. 1 = i /\ n = i
        BY <1>1, <2>3, <4>1
      <4>3. QED
        BY <4>2
    <3>2. {j \in DOMAIN s : Before(s, j, i)} = {}
      <4>1. s[i].at \in Int
        BY EntryOfList
      <4>2. QED
        BY <2>3, <3>1, <4>1 DEF Before
    <3>3. Cardinality({j \in DOMAIN s : Before(s, j, i)}) = 0
      BY <3>2, FS_EmptySet
    <3>5. Place(s, i) = 1
      BY <3>3 DEF Place
    <3>4. QED
      BY <2>3, <3>1, <3>5
  <2>4. QED
    BY <2>2, <2>3
<1>3. \A i, j \in DOMAIN s : Place(s, i) = Place(s, j) => i = j
  BY PlacesDiffer
<1> DEFINE g == [i \in DOMAIN s |-> Place(s, i)]
           f == [k \in DOMAIN s |-> CHOOSE i \in DOMAIN s : Place(s, i) = k]
<1>4. g \in Injection(DOMAIN s, DOMAIN s)
  BY <1>2, <1>3 DEF Injection, IsInjective
<1>5. IsFiniteSet(DOMAIN s)
  BY <1>1, FS_Interval
<1>6. g \in Surjection(DOMAIN s, DOMAIN s)
  BY <1>4, <1>5, FS_Injection
<1>7. \A k \in DOMAIN s : \E i \in DOMAIN s : Place(s, i) = k
  BY <1>6 DEF Surjection
<1>8. \A k \in DOMAIN s : f[k] \in DOMAIN s /\ Place(s, f[k]) = k
  BY <1>7
<1>9. f \in [DOMAIN s -> DOMAIN s] /\ (\A k \in DOMAIN s : Sorted(s)[k] = s[f[k]])
  BY <1>8 DEF Sorted
<1>10. \A i, j \in DOMAIN s : f[i] = f[j] => i = j
  BY <1>8
<1>11. \A i \in DOMAIN s : \E k \in DOMAIN s : f[k] = i
  BY <1>2, <1>3, <1>8
<1>12. Sorted(s) \in Seq(Entries) /\ DOMAIN Sorted(s) = DOMAIN s
  <2>1. \A k \in DOMAIN s : Sorted(s)[k] \in Entries
    BY <1>1, <1>9, ElementOfSeq
  <2>2. Sorted(s) \in [1..n -> Entries]
    BY <1>1, <2>1 DEF Sorted
  <2>3. QED
    BY <1>1, <2>2, SeqDef
<1>13. QED
  <2> HIDE DEF f
  <2> QED
    BY <1>9, <1>10, <1>11, <1>12 DEF IsMoved

----------------------------------------------------------------------------
\* The inductive invariant.

\* What is said of one entry.
Cause(e) ==
  (e.id \in Own /\ Rank[e.status] > 1)
    => \/ seen[e.id] >= Rank[e.status] - 1
       \/ e.status = "delivered" /\ e.id \in pulled \ mine
IsRow(e) ==
  IF e.status = "pending"
    THEN e.id \in mine /\ ~(e.id \in here /\ phase[e.id] = "acked")
    ELSE e.id \in Stored /\ e.at = time[e.id]

\* An entry of this tab that waits no longer was acknowledged, ...
Settled(e) ==
  (e.id \in mine /\ e.status # "pending") => phase[e.id] \in {"acked", "done"}
EntryOK(e) == Cause(e) /\ IsRow(e) /\ Settled(e)

\* ... a message has a row once its handler has inserted one, ...
Inserted == {"stored", "acked", "done"}
PhasesAgree == \A m \in Messages : m \in Stored <=> phase[m] \in Inserted

\* ... a frame was composed, and a message composed is in the list, ...
ComposedHere ==
  /\ here \subseteq mine
  /\ \A m \in mine : phase[m] # "none" /\ m \in Listed
  /\ \A m \in Messages : phase[m] \in {"wire", "handled", "stored"} => m \in mine

\* ... and pages are of rows.
PagesAreStored == \A f \in Fetches : fetch[f].page \subseteq Stored

OneEach(l) == \A i, j \in DOMAIN l : l[i].id = l[j].id => i = j
TabIInv ==
  /\ TabTypeOK
  /\ OneEach(list)
  /\ \A i \in DOMAIN list : EntryOK(list[i])
  /\ PhasesAgree
  /\ ComposedHere
  /\ PagesAreStored

----------------------------------------------------------------------------
\* The operators of the store.

\* l is s with the entries of T.
IsAdded(l, s, T) ==
  /\ l \in Seq(Entries) /\ OneEach(l)
  /\ \A i \in DOMAIN s : \E k \in DOMAIN l : l[k] = s[i]
  /\ \A k \in DOMAIN l : l[k] \in T \/ (\E i \in DOMAIN s : l[k] = s[i])
  /\ \A e \in T : \E k \in DOMAIN l : l[k] = e

\* Two lists put together and sorted hold the entries of both.
LEMMA JoinedIsAdded ==
  ASSUME NEW s \in Seq(Entries), NEW q \in Seq(Entries), OneEach(s), OneEach(q),
         \A i \in DOMAIN s, j \in DOMAIN q : s[i].id # q[j].id
  PROVE  IsAdded(Sorted(s \o q), s, {q[j] : j \in DOMAIN q})
<1> DEFINE u == s \o q
           l == Sorted(u)
           T == {q[j] : j \in DOMAIN q}
<1>1. PICK a \in Nat : a = Len(s) /\ DOMAIN s = 1..a
  BY LenProperties
<1>2. PICK b \in Nat : b = Len(q) /\ DOMAIN q = 1..b
  BY LenProperties
<1>3. /\ u \in Seq(Entries) /\ DOMAIN u = 1..(a + b)
      /\ \A i \in 1..(a + b) : u[i] = IF i <= a THEN s[i] ELSE q[i - a]
  BY <1>1, <1>2, ConcatProperties, LenProperties
<1>4. OneEach(u)
  <2>1. SUFFICES ASSUME NEW i \in DOMAIN u, NEW j \in DOMAIN u, u[i].id = u[j].id
                 PROVE  i = j
    BY DEF OneEach
  <2>2. i \in 1..(a + b) /\ j \in 1..(a + b)
    BY <1>3
  <2>3. CASE i <= a /\ j <= a
    BY <1>1, <1>3, <2>1, <2>2, <2>3 DEF OneEach
  <2>4. CASE i > a /\ j > a
    <3>1. i - a \in DOMAIN q /\ j - a \in DOMAIN q /\ q[i - a].id = q[j - a].id
      BY <1>1, <1>2, <1>3, <2>1, <2>2, <2>4
    <3>2. i - a = j - a
      BY <3>1 DEF OneEach
    <3>3. QED
      BY <1>1, <2>2, <3>2
  <2>5. CASE i <= a /\ j > a
    <3>1. i \in DOMAIN s /\ j - a \in DOMAIN q /\ s[i].id = q[j - a].id
      BY <1>1, <1>2, <1>3, <2>1, <2>2, <2>5
    <3>2. QED
      BY <3>1
  <2>6. CASE i > a /\ j <= a
    <3>1. j \in DOMAIN s /\ i - a \in DOMAIN q /\ s[j].id = q[i - a].id
      BY <1>1, <1>2, <1>3, <2>1, <2>2, <2>6
    <3>2. QED
      BY <3>1
  <2>7. QED
    BY <1>1, <2>2, <2>3, <2>4, <2>5, <2>6
<1>5. \A i \in DOMAIN s : i \in DOMAIN u /\ u[i] = s[i]
  BY <1>1, <1>2, <1>3
<1>6. \A j \in DOMAIN q : a + j \in DOMAIN u /\ u[a + j] = q[j]
  <2>1. SUFFICES ASSUME NEW j \in DOMAIN q
                 PROVE  a + j \in DOMAIN u /\ u[a + j] = q[j]
    OBVIOUS
  <2>2. a + j \in 1..(a + b) /\ ~(a + j <= a) /\ a + j - a = j
    BY <1>1, <1>2
  <2>3. QED
    BY <1>3, <2>2
<1>7. \A k \in DOMAIN u : u[k] \in T \/ (\E i \in DOMAIN s : u[k] = s[i])
  <2>1. SUFFICES ASSUME NEW k \in DOMAIN u
                 PROVE  u[k] \in T \/ (\E i \in DOMAIN s : u[k] = s[i])
    OBVIOUS
  <2>2. CASE k <= a
    BY <1>1, <1>2, <1>3, <2>2
  <2>3. CASE k > a
    <3>1. k - a \in DOMAIN q /\ u[k] = q[k - a]
      BY <1>1, <1>2, <1>3, <2>3
    <3>2. QED
      BY <3>1
  <2>4. QED
    BY <1>1, <1>3, <2>2, <2>3
<1> HIDE DEF u
<1>8. IsMoved(l, u)
  BY <1>3, SortedIsMoved
<1>9. PICK f \in [DOMAIN u -> DOMAIN u] :
        /\ \A k \in DOMAIN u : l[k] = u[f[k]]
        /\ \A i, j \in DOMAIN u : f[i] = f[j] => i = j
        /\ \A i \in DOMAIN u : \E k \in DOMAIN u : f[k] = i
  BY <1>8 DEF IsMoved
<1> HIDE DEF T, l
<1>10. l \in Seq(Entries) /\ DOMAIN l = DOMAIN u
  BY <1>8 DEF IsMoved
<1>11. OneEach(l)
  <2>1. SUFFICES ASSUME NEW i \in DOMAIN l, NEW j \in DOMAIN l, l[i].id = l[j].id
                 PROVE  i = j
    BY DEF OneEach
  <2>2. f[i] \in DOMAIN u /\ f[j] \in DOMAIN u /\ u[f[i]].id = u[f[j]].id
    BY <1>9, <1>10, <2>1
  <2>3. f[i] = f[j]
    BY <1>4, <2>2 DEF OneEach
  <2>4. QED
    BY <1>9, <1>10, <2>3
<1>12. \A i \in DOMAIN u : \E k \in DOMAIN l : l[k] = u[i]
  BY <1>9, <1>10
<1>13. \A k \in DOMAIN l : l[k] \in T \/ (\E i \in DOMAIN s : l[k] = s[i])
  <2>1. SUFFICES ASSUME NEW k \in DOMAIN l
                 PROVE  l[k] \in T \/ (\E i \in DOMAIN s : l[k] = s[i])
    OBVIOUS
  <2>2. f[k] \in DOMAIN u /\ l[k] = u[f[k]]
    BY <1>9, <1>10
  <2>3. QED
    BY <1>7, <2>2
<1>14. \A i \in DOMAIN s : \E k \in DOMAIN l : l[k] = s[i]
  <2>1. SUFFICES ASSUME NEW i \in DOMAIN s PROVE \E k \in DOMAIN l : l[k] = s[i]
    OBVIOUS
  <2>2. i \in DOMAIN u /\ u[i] = s[i]
    BY <1>5
  <2>3. QED
    BY <1>12, <2>2
<1>15. \A e \in T : \E k \in DOMAIN l : l[k] = e
  <2>1. SUFFICES ASSUME NEW e \in T PROVE \E k \in DOMAIN l : l[k] = e
    OBVIOUS
  <2>2. PICK j \in DOMAIN q : e = q[j]
    BY DEF T
  <2>3. PICK i \in DOMAIN u : u[i] = e
    BY <1>6, <2>2
  <2>4. QED
    BY <1>12, <2>3
<1>16. IsAdded(l, s, T)
  BY <1>10, <1>11, <1>13, <1>14, <1>15 DEF IsAdded
<1>17. QED
  BY <1>16 DEF l, T, u

\* addMessage adds what is not there.
LEMMA AddMessageAdds ==
  ASSUME NEW s \in Seq(Entries), OneEach(s), NEW e \in Entries
  PROVE  \/ (\E i \in DOMAIN s : s[i].id = e.id) /\ AddMessage(s, e) = s
         \/ /\ \A i \in DOMAIN s : s[i].id # e.id
            /\ IsAdded(AddMessage(s, e), s, {e})
<1>1. CASE \E i \in DOMAIN s : s[i].id = e.id
  BY <1>1 DEF AddMessage
<1>2. CASE \A i \in DOMAIN s : s[i].id # e.id
  <2> DEFINE q == <<e>>
  <2>1. q \in Seq(Entries) /\ DOMAIN q = {1} /\ q[1] = e
    OBVIOUS
  <2>2. OneEach(q) /\ {q[j] : j \in DOMAIN q} = {e}
    BY <2>1 DEF OneEach
  <2>3. \A i \in DOMAIN s, j \in DOMAIN q : s[i].id # q[j].id
    BY <1>2, <2>1
  <2>4. Append(s, e) = s \o q
    OBVIOUS
  <2>5. AddMessage(s, e) = Sorted(s \o q)
    BY <1>2, <2>4 DEF AddMessage
  <2> HIDE DEF q
  <2>6. IsAdded(Sorted(s \o q), s, {q[j] : j \in DOMAIN q})
    BY <2>1, <2>2, <2>3, JoinedIsAdded
  <2>7. QED
    BY <1>2, <2>2, <2>5, <2>6
<1>3. QED
  BY <1>1, <1>2

\* The rows of a page are added that are not there.
LEMMA AddPageAdds ==
  ASSUME NEW s \in Seq(Entries), OneEach(s), time \in [Messages -> Times],
         NEW page \in SUBSET Messages, NEW own \in {"sent", "delivered"}
  PROVE  IsAdded(AddPage(s, page, own), s,
                 {RowOf(m, own) : m \in {m \in page : \A i \in DOMAIN s : s[i].id # m}})
<1> DEFINE new == {m \in page : \A i \in DOMAIN s : s[i].id # m}
           rows == {RowOf(m, own) : m \in new}
           q == SetToSeq(rows)
<1>1. new \in SUBSET Messages /\ IsFiniteSet(new)
  BY Stamped, FS_Subset
<1>2. \A m \in new : RowOf(m, own) \in Entries /\ RowOf(m, own).id = m
  <2>1. SUFFICES ASSUME NEW m \in new
                 PROVE  RowOf(m, own) \in Entries /\ RowOf(m, own).id = m
    OBVIOUS
  <2>2. m \in Messages /\ time[m] \in Stamps
    BY <1>1, Stamped
  <2>3. (IF m \in Own THEN own ELSE "delivered") \in DOMAIN Rank
    BY DEF Rank
  <2>4. QED
    BY <2>2, <2>3 DEF RowOf, Entries
<1> HIDE DEF new
<1>3. CASE new = {}
  <2>1. AddPage(s, page, own) = s
    BY <1>3 DEF AddPage, new
  <2>2. QED
    BY <1>3, <2>1 DEF IsAdded, new
<1>4. CASE new # {}
  <2>1. IsFiniteSet(rows)
    <3> DEFINE g == [m \in new |-> RowOf(m, own)]
    <3>1. g \in Surjection(new, rows)
      BY DEF Surjection
    <3>2. QED
      BY <1>1, <3>1, FS_Surjection
  <2>2. rows \subseteq Entries
    BY <1>2
  <2>3. q \in Seq(rows)
    BY <2>1, SetsAreListed
  <2>4. q \in Seq(Entries)
    BY <2>2, <2>3
  <2>5. \A j \in DOMAIN q : q[j] \in rows
    BY <2>3, LenProperties, ElementOfSeq
  <2>6. \A i, j \in DOMAIN q : q[i] = q[j] => i = j
    BY <2>1, SetsAreListed
  <2>7. {q[j] : j \in DOMAIN q} = rows
    <3>1. \A x \in rows : \E j \in DOMAIN q : q[j] = x
      BY <2>1, SetsAreListed
    <3> HIDE DEF q, rows
    <3>2. QED
      BY <2>5, <3>1
  <2>8. \A x, y \in rows : x.id = y.id => x = y
    BY <1>2
  <2>9. \A x \in rows : \A i \in DOMAIN s : s[i].id # x.id
    BY <1>2 DEF new
  <2>10. AddPage(s, page, own) = Sorted(s \o q)
    BY <1>4 DEF AddPage, new
  <2> HIDE DEF q, rows
  <2>11. OneEach(q)
    BY <2>5, <2>6, <2>8 DEF OneEach
  <2>12. \A i \in DOMAIN s, j \in DOMAIN q : s[i].id # q[j].id
    BY <2>5, <2>9
  <2>13. IsAdded(Sorted(s \o q), s, {q[j] : j \in DOMAIN q})
    BY <2>4, <2>11, <2>12, JoinedIsAdded
  <2>14. QED
    BY <2>7, <2>10, <2>13 DEF rows, new
<1>5. QED
  BY <1>3, <1>4

\* patchMessage and markStatuses change entries in their places.
LEMMA PatchMessageKeeps ==
  ASSUME NEW s \in Seq(Entries), OneEach(s), NEW m \in Messages, NEW at \in Stamps
  PROVE  /\ PatchMessage(s, m, at) \in Seq(Entries) /\ OneEach(PatchMessage(s, m, at))
         /\ DOMAIN PatchMessage(s, m, at) = DOMAIN s
         /\ \A i \in DOMAIN s :
              PatchMessage(s, m, at)[i]
                = IF s[i].id = m THEN [id |-> m, at |-> at, status |-> "sent"] ELSE s[i]
<1> DEFINE l == PatchMessage(s, m, at)
<1>1. PICK n \in Nat : n = Len(s) /\ DOMAIN s = 1..n
  BY LenProperties
<1>2. /\ DOMAIN l = DOMAIN s
      /\ \A i \in DOMAIN s :
           l[i] = IF s[i].id = m THEN [id |-> m, at |-> at, status |-> "sent"] ELSE s[i]
  BY DEF PatchMessage
<1>3. \A i \in DOMAIN s : l[i] \in Entries /\ l[i].id = s[i].id
  <2>1. [id |-> m, at |-> at, status |-> "sent"] \in Entries
    BY DEF Entries, Rank
  <2>2. QED
    BY <1>2, <2>1, EntryOfList
<1>4. l \in [1..n -> Entries]
  BY <1>1, <1>3 DEF PatchMessage
<1>5. l \in Seq(Entries)
  BY <1>1, <1>4, SeqDef
<1> HIDE DEF l
<1>6. OneEach(l)
  BY <1>2, <1>3 DEF OneEach
<1>7. QED
  BY <1>2, <1>5, <1>6 DEF l

LEMMA MarkStatusesKeeps ==
  ASSUME NEW s \in Seq(Entries), OneEach(s), NEW m \in Messages, NEW status \in DOMAIN Rank
  PROVE  /\ MarkStatuses(s, m, status) \in Seq(Entries) /\ OneEach(MarkStatuses(s, m, status))
         /\ DOMAIN MarkStatuses(s, m, status) = DOMAIN s
         /\ \A i \in DOMAIN s :
              \/ MarkStatuses(s, m, status)[i] = s[i]
              \/ /\ s[i].id = m /\ s[i].status # "pending"
                 /\ Rank[status] > Rank[s[i].status]
                 /\ MarkStatuses(s, m, status)[i]
                      = [id |-> m, at |-> s[i].at, status |-> status]
<1> DEFINE l == MarkStatuses(s, m, status)
<1>1. PICK n \in Nat : n = Len(s) /\ DOMAIN s = 1..n
  BY LenProperties
<1>2. DOMAIN l = DOMAIN s
  BY DEF MarkStatuses
<1>3. ASSUME NEW i \in DOMAIN s
      PROVE  \/ l[i] = s[i]
             \/ /\ s[i].id = m /\ s[i].status # "pending"
                /\ Rank[status] > Rank[s[i].status]
                /\ l[i] = [id |-> m, at |-> s[i].at, status |-> status]
  <2>1. s[i] \in [id : Messages, at : Stamps, status : DOMAIN Rank]
    BY EntryOfList DEF Entries
  <2>2. s[i].id = m
          => [s[i] EXCEPT !.status = status] = [id |-> m, at |-> s[i].at, status |-> status]
    BY <2>1
  <2>3. QED
    BY <2>2 DEF MarkStatuses
<1>4. \A i \in DOMAIN s : l[i] \in Entries /\ l[i].id = s[i].id
  <2>1. SUFFICES ASSUME NEW i \in DOMAIN s PROVE l[i] \in Entries /\ l[i].id = s[i].id
    OBVIOUS
  <2>2. s[i] \in Entries /\ s[i].at \in Stamps
    BY EntryOfList
  <2>3. [id |-> m, at |-> s[i].at, status |-> status] \in Entries
    BY <2>2 DEF Entries
  <2> HIDE DEF l
  <2>4. QED
    BY <1>3, <2>2, <2>3
<1>5. l \in [1..n -> Entries]
  BY <1>1, <1>4 DEF MarkStatuses
<1>6. l \in Seq(Entries)
  BY <1>1, <1>5, SeqDef
<1> HIDE DEF l
<1>7. OneEach(l)
  BY <1>2, <1>4 DEF OneEach
<1>8. QED
  BY <1>2, <1>3, <1>6, <1>7 DEF l

\* history's pages are of rows.
LEMMA PageIsStored ==
  ASSUME NEW since PROVE Page(since) \subseteq Stored
BY DEF Page

\* The rows so far have numbers of their own, and the next has one too.
LEMMA NextTime ==
  ASSUME time \in [Messages -> Times], NEW m \in Messages, m \notin Stored
  PROVE  Now + 1 \in Times \ {0}
<1>1. Stored \cup {m} \in SUBSET Messages
  BY DEF Stored
<1>2. IsFiniteSet(Stored) /\ Now \in Nat
  <2>1. Stored \in SUBSET Messages
    BY <1>1
  <2>2. IsFiniteSet(Stored)
    BY <2>1, Stamped, FS_Subset
  <2>3. QED
    BY <2>2, FS_CardinalityType DEF Now
<1>3. Cardinality(Stored \cup {m}) = Now + 1
  BY <1>2, FS_AddElement DEF Now
<1>4. Cardinality(Stored \cup {m}) <= Cardinality(Messages)
  BY <1>1, Stamped, FS_Subset
<1>5. QED
  BY <1>2, <1>3, <1>4, Stamped DEF Times

----------------------------------------------------------------------------
\* The steps.

\* What an entry says is still so when its message goes on.
LEMMA EntryStays ==
  ASSUME TabIInv, NEW e \in Entries, EntryOK(e),
         e.id \in mine' <=> e.id \in mine,
         pulled \subseteq pulled',
         e.id \in Own => seen' \in [Own -> 0 .. 2] /\ seen'[e.id] >= seen[e.id],
         time[e.id] # 0 => time'[e.id] = time[e.id],
         phase[e.id] \in {"acked", "done"} => phase'[e.id] \in {"acked", "done"},
         e.status = "pending" => ~(e.id \in here' /\ phase'[e.id] = "acked")
  PROVE  EntryOK(e)'
<1>1. e.id \in Messages /\ e.status \in DOMAIN Rank /\ Rank[e.status] \in Int
  BY DEF Entries, Rank
<1>2. IsRow(e)'
  BY <1>1 DEF EntryOK, IsRow, Stored
<1>3. Settled(e)'
  BY <1>1 DEF EntryOK, Settled
<1>4. Cause(e)'
  <2>1. SUFFICES ASSUME e.id \in Own, Rank[e.status] > 1
                 PROVE  \/ seen'[e.id] >= Rank[e.status] - 1
                        \/ e.status = "delivered" /\ e.id \in pulled' \ mine'
    BY DEF Cause
  <2>2. seen[e.id] \in Int /\ seen'[e.id] \in Int
    BY <2>1 DEF TabIInv, TabTypeOK
  <2>3. QED
    BY <1>1, <2>1, <2>2 DEF EntryOK, Cause
<1>5. QED
  BY <1>2, <1>3, <1>4 DEF EntryOK

\* The parts of the next state, for a list l.
LEMMA PutTogether ==
  ASSUME NEW l, l = list', TabTypeOK', OneEach(l), \A i \in DOMAIN l : EntryOK(l[i])',
         PhasesAgree', ComposedHere', PagesAreStored'
  PROVE  TabIInv'
<1>1. OneEach(list)'
  BY DEF OneEach
<1>2. (\A i \in DOMAIN list : EntryOK(list[i]))'
  BY DEF EntryOK, Cause, IsRow, Settled, Stored
<1>3. QED
  BY <1>1, <1>2 DEF TabIInv

\* A step that leaves the list alone has to keep what its entries say.
LEMMA ListStays ==
  ASSUME TabIInv, UNCHANGED list, TabTypeOK', PhasesAgree', ComposedHere', PagesAreStored',
         \A e \in Entries : EntryOK(e) => EntryOK(e)'
  PROVE  TabIInv'
<1>1. PICK l : l = list
  OBVIOUS
<1>2. l = list' /\ OneEach(l) /\ l \in Seq(Entries)
  BY <1>1 DEF TabIInv, TabTypeOK, OneEach
<1>3. \A i \in DOMAIN l : EntryOK(l[i])
  BY <1>1 DEF TabIInv
<1>4. \A i \in DOMAIN l : EntryOK(l[i])'
  BY <1>2, <1>3, EntryOfList
<1>5. QED
  BY <1>2, <1>4, PutTogether

\* The socket, the token, the thread and the requests change nothing of that.
LEMMA QuietSteps ==
  ASSUME TabIInv, UNCHANGED <<server, list, mine, pulled, here>>, TabTypeOK',
         PagesAreStored'
  PROVE  TabIInv'
<1>1. UNCHANGED <<phase, time, seen, list, mine, pulled, here>>
  BY DEF server
<1>2. PhasesAgree' /\ ComposedHere'
  BY <1>1 DEF TabIInv, PhasesAgree, ComposedHere, Stored, Listed
<1>3. ASSUME NEW e \in Entries, EntryOK(e) PROVE EntryOK(e)'
  BY <1>1, <1>3 DEF EntryOK, Cause, IsRow, Settled, Stored
<1>4. QED
  BY <1>1, <1>2, <1>3, ListStays

\* The cursor of a resync is a time or none.
LEMMA Cursors ==
  ASSUME TabTypeOK
  PROVE  (IF list = << >> THEN NoSince ELSE Last(list).at) \in Stamps \cup {NoSince}
<1>1. CASE list = << >>
  BY <1>1
<1>2. CASE list # << >>
  <2>1. list \in Seq(Entries) /\ DOMAIN list = 1..Len(list) /\ Len(list) \in Nat
    BY LenProperties DEF TabTypeOK
  <2>2. Len(list) \in DOMAIN list
    BY <1>2, <2>1, EmptySeq
  <2>3. list[Len(list)].at \in Stamps
    BY <2>1, <2>2, EntryOfList
  <2>4. QED
    BY <1>2, <2>3 DEF Last
<1>3. QED
  BY <1>1, <1>2

LEMMA LinkSteps ==
  ASSUME TabIInv
  PROVE  /\ Connect => TabIInv'
         /\ Subscribe => TabIInv'
         /\ Listen => TabIInv'
         /\ Expire => TabIInv'
<1>1. TabTypeOK /\ PagesAreStored
  BY DEF TabIInv
<1>2. ASSUME Connect PROVE TabIInv'
  <2> DEFINE since == IF list = << >> THEN NoSince ELSE Last(list).at
  <2>1. since \in Stamps \cup {NoSince}
    BY <1>1, Cursors
  <2>2. fetch' \in [Fetches -> [step : {"idle", "asked", "answered"},
                                since : Stamps \cup {NoSince}, page : SUBSET Messages]]
    <3>1. fetch' = IF shown
                     THEN [fetch EXCEPT !["resync"] =
                            [step |-> "asked", page |-> {}, since |-> since]]
                     ELSE fetch
      BY <1>2 DEF Connect
    <3> HIDE DEF since
    <3>2. QED
      BY <1>1, <2>1, <3>1 DEF TabTypeOK, Fetches
  <2>3. \A f \in Fetches : fetch'[f].page \subseteq fetch[f].page
    BY <1>1, <1>2 DEF Connect, TabTypeOK, Fetches
  <2>4. UNCHANGED <<server, client, gate, here, token, drops, failures>> /\ sock' = "open"
    BY <1>2 DEF Connect
  <2>5. TabTypeOK'
    BY <1>1, <2>2, <2>4 DEF TabTypeOK, server, client
  <2>6. PagesAreStored'
    BY <1>1, <2>3, <2>4 DEF PagesAreStored, Stored, server
  <2>7. QED
    BY <2>4, <2>5, <2>6, QuietSteps DEF client
<1>3. ASSUME Subscribe \/ Listen \/ Expire PROVE TabIInv'
  <2>1. /\ UNCHANGED <<phase, time, seen, list, mine, shown, told, pulled, sock, here, fetch,
                       drops, failures>>
        /\ gate' \in {"off", "subscribed", "listening"} /\ token' \in {"fresh", "stale"}
    BY <1>1, <1>3 DEF Subscribe, Listen, Expire, server, client, link, TabTypeOK
  <2>2. TabTypeOK'
    BY <1>1, <2>1 DEF TabTypeOK
  <2>3. PagesAreStored'
    BY <1>1, <2>1 DEF PagesAreStored, Stored
  <2>4. QED
    BY <2>1, <2>2, <2>3, QuietSteps DEF server
<1>4. QED
  BY <1>2, <1>3

LEMMA LoseSocketStep ==
  ASSUME TabIInv, LoseSocket
  PROVE  TabIInv'
<1>1. /\ sock' = "closed" /\ gate' = "off" /\ here' = {} /\ drops' = drops + 1
      /\ drops < MaxDrops
      /\ phase' = [m \in Messages |-> IF phase[m] = "wire" THEN "lost" ELSE phase[m]]
      /\ UNCHANGED <<time, seen, list, mine, shown, told, pulled, token, fetch, failures>>
  BY DEF LoseSocket, client
<1>2. TabTypeOK'
  BY <1>1, BoundsAreNumbers DEF TabIInv, TabTypeOK
<1>3. PhasesAgree' /\ ComposedHere' /\ PagesAreStored'
  <2>1. PhasesAgree'
    BY <1>1 DEF TabIInv, PhasesAgree, Stored, Inserted
  <2>2. ComposedHere'
    <3>1. \A m \in Messages : phase'[m] \in {"wire", "handled", "stored"} => m \in mine
      BY <1>1 DEF TabIInv, ComposedHere
    <3>2. \A m \in mine : phase'[m] # "none" /\ m \in Listed
      BY <1>1 DEF TabIInv, ComposedHere, TabTypeOK, Messages
    <3>3. QED
      BY <1>1, <3>1, <3>2 DEF ComposedHere, Listed
  <2>3. PagesAreStored'
    BY <1>1 DEF TabIInv, PagesAreStored, Stored
  <2>4. QED
    BY <2>1, <2>2, <2>3
<1>4. ASSUME NEW e \in Entries, EntryOK(e) PROVE EntryOK(e)'
  <2>1. e.id \in Messages
    BY DEF Entries
  <2>2. phase[e.id] \in {"acked", "done"} => phase'[e.id] \in {"acked", "done"}
    BY <1>1, <2>1
  <2>3. e.id \in Own => seen' \in [Own -> 0 .. 2] /\ seen'[e.id] >= seen[e.id]
    <3>1. seen \in [Own -> 0 .. 2] /\ seen' = seen
      BY <1>1 DEF TabIInv, TabTypeOK
    <3>2. QED
      BY <3>1
  <2>4. QED
    BY <1>1, <1>4, <2>2, <2>3, EntryStays
<1>5. QED
  BY <1>1, <1>2, <1>3, <1>4, ListStays

LEMMA ThreadSteps ==
  ASSUME TabIInv
  PROVE  /\ OpenThread => TabIInv'
         /\ CloseThread => TabIInv'
         /\ \A f \in Fetches : AnswerFetch(f) => TabIInv'
         /\ \A f \in Fetches : FailFetch(f) => TabIInv'
<1>1. TabTypeOK /\ PagesAreStored
  BY DEF TabIInv
<1>2. ASSUME OpenThread \/ CloseThread PROVE TabIInv'
  <2>1. /\ UNCHANGED <<phase, time, seen, list, mine, told, pulled, sock, gate, here, token,
                       drops, failures>>
        /\ shown' \in BOOLEAN
    BY <1>2 DEF OpenThread, CloseThread, server, link
  <2>2. /\ fetch' \in [Fetches -> [step : {"idle", "asked", "answered"},
                                   since : Stamps \cup {NoSince}, page : SUBSET Messages]]
        /\ \A f \in Fetches : fetch'[f].page = fetch[f].page
    BY <1>1, <1>2 DEF OpenThread, CloseThread, TabTypeOK, Fetches
  <2>3. TabTypeOK'
    BY <1>1, <2>1, <2>2 DEF TabTypeOK
  <2>4. PagesAreStored'
    BY <1>1, <2>1, <2>2 DEF PagesAreStored, Stored
  <2>5. QED
    BY <2>1, <2>3, <2>4, QuietSteps DEF server
<1>3. ASSUME NEW f \in Fetches, AnswerFetch(f) PROVE TabIInv'
  <2>1. /\ UNCHANGED <<phase, time, seen, list, mine, shown, told, pulled, sock, gate, here,
                       drops, failures>>
        /\ token' = "fresh"
        /\ fetch' = [fetch EXCEPT ![f].step = "answered", ![f].page = Page(fetch[f].since)]
    BY <1>3 DEF AnswerFetch, server, client, link
  <2>2. PICK page : page = Page(fetch[f].since) /\ page \subseteq Stored
    BY PageIsStored
  <2>3. page \subseteq Messages
    BY <2>2 DEF Stored
  <2>4. /\ fetch' \in [Fetches -> [step : {"idle", "asked", "answered"},
                                   since : Stamps \cup {NoSince}, page : SUBSET Messages]]
        /\ \A g \in Fetches : fetch'[g].page = IF g = f THEN page ELSE fetch[g].page
    BY <1>1, <2>1, <2>2, <2>3 DEF TabTypeOK
  <2>5. TabTypeOK'
    BY <1>1, <2>1, <2>4 DEF TabTypeOK
  <2>6. PagesAreStored'
    BY <1>1, <2>1, <2>2, <2>4 DEF PagesAreStored, Stored
  <2>7. QED
    BY <2>1, <2>5, <2>6, QuietSteps DEF server
<1>4. ASSUME NEW f \in Fetches, FailFetch(f) PROVE TabIInv'
  <2>1. /\ UNCHANGED <<phase, time, seen, list, mine, shown, told, pulled, sock, gate, here,
                       token, drops>>
        /\ failures < MaxFailures /\ failures' = failures + 1
        /\ fetch' = [fetch EXCEPT ![f] = Idle]
    BY <1>4 DEF FailFetch, server, client, link
  <2>2. /\ fetch' \in [Fetches -> [step : {"idle", "asked", "answered"},
                                   since : Stamps \cup {NoSince}, page : SUBSET Messages]]
        /\ \A g \in Fetches : fetch'[g].page \subseteq fetch[g].page
    BY <1>1, <2>1 DEF TabTypeOK, Idle
  <2>3. TabTypeOK'
    BY <1>1, <2>1, <2>2, BoundsAreNumbers DEF TabTypeOK
  <2>4. PagesAreStored'
    BY <1>1, <2>1, <2>2 DEF PagesAreStored, Stored
  <2>5. QED
    BY <2>1, <2>3, <2>4, QuietSteps DEF server
<1>5. QED
  BY <1>2, <1>3, <1>4

\* One handler goes on and no entry is touched: that is the case unless a row
\* gets its time or is acknowledged to the socket that is still there.
LEMMA HandlerGoesOn ==
  ASSUME TabIInv, NEW m \in Messages, NEW p, TabTypeOK',
         phase' = [phase EXCEPT ![m] = p],
         UNCHANGED <<time, seen, list, mine, pulled, fetch>>,
         p # "none", here' \subseteq mine,
         p \in {"wire", "handled", "stored"} => m \in mine,
         phase[m] \in Inserted <=> p \in Inserted,
         phase[m] \in {"acked", "done"} => p \in {"acked", "done"},
         \A e \in Entries :
           EntryOK(e) /\ e.status = "pending" => ~(e.id \in here' /\ phase'[e.id] = "acked")
  PROVE  TabIInv'
<1>1. phase \in [Messages -> {"none", "wire", "handled", "stored", "acked", "done", "lost"}]
  BY DEF TabIInv, TabTypeOK
<1>2. \A n \in Messages : phase'[n] = IF n = m THEN p ELSE phase[n]
  BY <1>1
<1>3. PhasesAgree'
  BY <1>2 DEF TabIInv, PhasesAgree, Stored
<1>4. ComposedHere'
  <2>1. \A n \in Messages : phase'[n] \in {"wire", "handled", "stored"} => n \in mine
    BY <1>2 DEF TabIInv, ComposedHere
  <2>2. \A n \in mine : phase'[n] # "none" /\ n \in Listed
    BY <1>2 DEF TabIInv, ComposedHere, TabTypeOK, Messages
  <2>3. QED
    BY <2>1, <2>2 DEF ComposedHere, Listed
<1>5. PagesAreStored'
  BY DEF TabIInv, PagesAreStored, Stored
<1>6. ASSUME NEW e \in Entries, EntryOK(e) PROVE EntryOK(e)'
  <2>1. e.id \in Messages
    BY DEF Entries
  <2>2. phase[e.id] \in {"acked", "done"} => phase'[e.id] \in {"acked", "done"}
    BY <1>2, <2>1
  <2>3. e.id \in Own => seen' \in [Own -> 0 .. 2] /\ seen'[e.id] >= seen[e.id]
    <3>1. seen \in [Own -> 0 .. 2] /\ seen' = seen
      BY DEF TabIInv, TabTypeOK
    <3>2. QED
      BY <3>1
  <2>4. e.status = "pending" => ~(e.id \in here' /\ phase'[e.id] = "acked")
    BY <1>6
  <2>5. QED
    BY <1>6, <2>2, <2>3, <2>4, EntryStays
<1>7. QED
  BY <1>3, <1>4, <1>5, <1>6, ListStays

LEMMA HandlerSteps ==
  ASSUME TabIInv, NEW m \in Messages
  PROVE  /\ Overhear(m) => TabIInv'
         /\ ReceiveFrame(m) => TabIInv'
         /\ Miss(m) => TabIInv'
         /\ Throw(m) => TabIInv'
<1>1. TabTypeOK /\ ComposedHere
  BY DEF TabIInv
<1>2. \A e \in Entries : e.id \in Messages
  BY DEF Entries
<1>3. \A p : phase' = [phase EXCEPT ![m] = p]
               => \A n \in Messages : phase'[n] = IF n = m THEN p ELSE phase[n]
  BY <1>1 DEF TabTypeOK
<1>4. ASSUME Overhear(m) PROVE TabIInv'
  <2>1. /\ phase[m] = "wire" /\ phase' = [phase EXCEPT ![m] = "lost"]
        /\ UNCHANGED <<time, seen, list, mine, shown, told, pulled, sock, gate, here, token,
                       fetch, drops, failures>>
    BY <1>4 DEF Overhear, client, link
  <2>2. TabTypeOK'
    BY <1>1, <2>1 DEF TabTypeOK
  <2>3. \A e \in Entries :
          EntryOK(e) /\ e.status = "pending" => ~(e.id \in here' /\ phase'[e.id] = "acked")
    BY <1>2, <1>3, <2>1 DEF EntryOK, IsRow
  <2>4. QED
    BY <1>1, <2>1, <2>2, <2>3, HandlerGoesOn DEF ComposedHere, Inserted
<1>5. ASSUME ReceiveFrame(m) PROVE TabIInv'
  <2>1. /\ phase[m] = "wire" /\ phase' = [phase EXCEPT ![m] = "handled"]
        /\ here' = here \cup {m}
        /\ UNCHANGED <<time, seen, list, mine, shown, told, pulled, sock, gate, token, fetch,
                       drops, failures>>
    BY <1>5 DEF ReceiveFrame, client
  <2>2. m \in mine /\ m \in Own
    BY <1>1, <2>1 DEF ComposedHere, TabTypeOK
  <2>3. TabTypeOK'
    BY <1>1, <2>1, <2>2 DEF TabTypeOK
  <2>4. \A e \in Entries :
          EntryOK(e) /\ e.status = "pending" => ~(e.id \in here' /\ phase'[e.id] = "acked")
    BY <1>2, <1>3, <2>1 DEF EntryOK, IsRow
  <2>5. QED
    BY <1>1, <2>1, <2>2, <2>3, <2>4, HandlerGoesOn DEF ComposedHere, Inserted
<1>6. ASSUME Miss(m) PROVE TabIInv'
  <2>1. /\ phase[m] = "acked" /\ phase' = [phase EXCEPT ![m] = "done"]
        /\ failures' \in 0 .. MaxFailures
        /\ UNCHANGED <<time, seen, list, mine, shown, told, pulled, sock, gate, here, token,
                       fetch, drops>>
    BY <1>1, <1>6, BoundsAreNumbers DEF Miss, client, link, TabTypeOK
  <2>2. TabTypeOK'
    BY <1>1, <2>1 DEF TabTypeOK
  <2>3. \A e \in Entries :
          EntryOK(e) /\ e.status = "pending" => ~(e.id \in here' /\ phase'[e.id] = "acked")
    BY <1>2, <1>3, <2>1 DEF EntryOK, IsRow
  <2>4. QED
    BY <1>1, <2>1, <2>2, <2>3, HandlerGoesOn DEF ComposedHere, Inserted
<1>7. ASSUME Throw(m) PROVE TabIInv'
  <2>0. PICK p : p = IF phase[m] = "handled" THEN "lost" ELSE "done"
    OBVIOUS
  <2>1. /\ phase[m] \in {"handled", "stored", "acked"} /\ phase' = [phase EXCEPT ![m] = p]
        /\ failures' \in 0 .. MaxFailures
        /\ UNCHANGED <<time, seen, list, mine, shown, told, pulled, sock, gate, here, token,
                       fetch, drops>>
    BY <1>1, <1>7, <2>0, BoundsAreNumbers DEF Throw, client, link, TabTypeOK
  <2>2. TabTypeOK'
    BY <1>1, <2>0, <2>1 DEF TabTypeOK
  <2>3. \A e \in Entries :
          EntryOK(e) /\ e.status = "pending" => ~(e.id \in here' /\ phase'[e.id] = "acked")
    BY <1>2, <1>3, <2>0, <2>1 DEF EntryOK, IsRow
  <2>4. QED
    <3>1. /\ p # "none" /\ p \notin {"wire", "handled", "stored"}
          /\ phase[m] \in Inserted <=> p \in Inserted
          /\ phase[m] \in {"acked", "done"} => p \in {"acked", "done"}
      BY <2>0, <2>1 DEF Inserted
    <3>2. QED
      BY <1>1, <2>1, <2>2, <2>3, <3>1, HandlerGoesOn DEF ComposedHere
<1>8. QED
  BY <1>4, <1>5, <1>6, <1>7

\* A row gets the next time, when none of its messages has an entry that says more.
LEMMA CommitSteps ==
  ASSUME TabIInv, NEW m \in Messages, Commit(m) \/ CommitOther(m)
  PROVE  TabIInv'
<1>1. TabTypeOK /\ ComposedHere /\ PhasesAgree /\ PagesAreStored
  BY DEF TabIInv
<1>2. PICK p \in {"stored", "acked"} :
        /\ phase' = [phase EXCEPT ![m] = p]
        /\ p = "stored" => phase[m] = "handled"
        /\ p = "acked" => phase[m] = "none"
  BY DEF Commit, CommitOther
<1>3. UNCHANGED <<seen, list, mine, shown, told, pulled, sock, gate, here, token, fetch,
                  drops, failures>>
  BY DEF Commit, CommitOther, client, link
<1>4. m \notin Stored
  BY <1>1, <1>2 DEF PhasesAgree, Inserted
<1>5. PICK t \in Times \ {0} : time' = [time EXCEPT ![m] = t]
  <2>1. Now + 1 \in Times \ {0}
    BY <1>1, <1>4, NextTime DEF TabTypeOK
  <2>2. QED
    BY <2>1 DEF Commit, CommitOther
<1>6. \A n \in Messages : /\ phase'[n] = IF n = m THEN p ELSE phase[n]
                          /\ time'[n] = IF n = m THEN t ELSE time[n]
  BY <1>1, <1>2, <1>5 DEF TabTypeOK
<1>7. TabTypeOK'
  BY <1>1, <1>2, <1>3, <1>5 DEF TabTypeOK
<1>8. t # 0
  BY <1>5
<1>9. PhasesAgree'
  BY <1>1, <1>6, <1>8 DEF PhasesAgree, Stored, Inserted
<1>10. ComposedHere'
  <2>1. p = "stored" => m \in mine
    BY <1>1, <1>2 DEF ComposedHere
  <2>2. \A n \in Messages : phase'[n] \in {"wire", "handled", "stored"} => n \in mine
    BY <1>1, <1>6, <2>1 DEF ComposedHere
  <2>3. \A n \in mine : phase'[n] # "none" /\ n \in Listed
    BY <1>1, <1>6 DEF ComposedHere, TabTypeOK, Messages
  <2>4. QED
    BY <1>1, <1>3, <2>2, <2>3 DEF ComposedHere, Listed
<1>11. PagesAreStored'
  BY <1>1, <1>3, <1>6, <1>8 DEF PagesAreStored, Stored
<1>12. ASSUME NEW e \in Entries, EntryOK(e) PROVE EntryOK(e)'
  <2>1. e.id \in Messages
    BY DEF Entries
  <2>2. phase[e.id] \in {"acked", "done"} => phase'[e.id] \in {"acked", "done"}
    BY <1>2, <1>6, <2>1
  <2>3. e.id \in Own => seen' \in [Own -> 0 .. 2] /\ seen'[e.id] >= seen[e.id]
    BY <1>1, <1>3 DEF TabTypeOK
  <2>4. time[e.id] # 0 => time'[e.id] = time[e.id]
    BY <1>4, <1>6, <2>1 DEF Stored
  <2>5. e.status = "pending" => ~(e.id \in here' /\ phase'[e.id] = "acked")
    BY <1>1, <1>2, <1>3, <1>6, <1>12, <2>1 DEF EntryOK, IsRow, ComposedHere
  <2>6. QED
    BY <1>3, <1>12, <2>2, <2>3, <2>4, <2>5, EntryStays
<1>13. QED
  BY <1>3, <1>7, <1>9, <1>10, <1>11, <1>12, ListStays

LEMMA AcknowledgeStep ==
  ASSUME TabIInv, NEW m \in Messages, Acknowledge(m)
  PROVE  TabIInv'
<1>1. TabTypeOK /\ ComposedHere /\ PhasesAgree /\ PagesAreStored
  BY DEF TabIInv
<1>2. /\ m \in Own /\ seen[m] < 2 /\ seen' = [seen EXCEPT ![m] = seen[m] + 1]
      /\ UNCHANGED <<phase, time, list, mine, shown, told, pulled, sock, gate, here, token,
                     fetch, drops, failures>>
  BY DEF Acknowledge, client, link
<1>3. seen' \in [Own -> 0 .. 2] /\ \A n \in Own : seen'[n] >= seen[n]
  BY <1>1, <1>2 DEF TabTypeOK
<1>4. TabTypeOK'
  BY <1>1, <1>2, <1>3 DEF TabTypeOK
<1>5. PhasesAgree' /\ ComposedHere' /\ PagesAreStored'
  BY <1>1, <1>2 DEF PhasesAgree, ComposedHere, PagesAreStored, Stored, Listed
<1>6. ASSUME NEW e \in Entries, EntryOK(e) PROVE EntryOK(e)'
  <2>1. e.status = "pending" => ~(e.id \in here' /\ phase'[e.id] = "acked")
    BY <1>2, <1>6 DEF EntryOK, IsRow
  <2>2. QED
    BY <1>2, <1>3, <1>6, <2>1, EntryStays
<1>7. QED
  BY <1>2, <1>4, <1>5, <1>6, ListStays

\* An entry in the list keeps what it says, and its message is known.
LEMMA Known ==
  ASSUME TabIInv, NEW i \in DOMAIN list
  PROVE  /\ list[i] \in Entries /\ EntryOK(list[i]) /\ list[i].id \in Messages
         /\ phase[list[i].id] # "none"
<1>1. list[i] \in Entries /\ EntryOK(list[i]) /\ list[i].id \in Messages
  BY EntryOfList DEF TabIInv, TabTypeOK
<1>2. phase[list[i].id] # "none"
  BY <1>1 DEF TabIInv, EntryOK, IsRow, ComposedHere, PhasesAgree, Inserted
<1>3. QED
  BY <1>1, <1>2

\* New entries have to say what is so.
LEMMA ListGrows ==
  ASSUME TabIInv, NEW T, NEW l, l = list', IsAdded(l, list, T),
         TabTypeOK', PhasesAgree', PagesAreStored',
         here' \subseteq mine',
         \A m \in mine' : phase'[m] # "none" /\ (m \in mine \/ \E e \in T : e.id = m),
         \A m \in Messages : phase'[m] \in {"wire", "handled", "stored"} => m \in mine',
         \A e \in T : EntryOK(e)',
         \A i \in DOMAIN list : EntryOK(list[i]) => \A e : e = list[i] => EntryOK(e)'
  PROVE  TabIInv'
<1>1. PICK s : s = list /\ s \in Seq(Entries)
  BY DEF TabIInv, TabTypeOK
<1>2. /\ l \in Seq(Entries) /\ OneEach(l)
      /\ \A i \in DOMAIN s : \E k \in DOMAIN l : l[k] = s[i]
      /\ \A k \in DOMAIN l : l[k] \in T \/ (\E i \in DOMAIN s : l[k] = s[i])
      /\ \A e \in T : \E k \in DOMAIN l : l[k] = e
  BY <1>1 DEF IsAdded
<1>3. \A i \in DOMAIN s : EntryOK(s[i])'
  <2>1. SUFFICES ASSUME NEW i \in DOMAIN s PROVE EntryOK(s[i])'
    OBVIOUS
  <2>2. i \in DOMAIN list /\ EntryOK(list[i]) /\ s[i] = list[i]
    BY <1>1 DEF TabIInv
  <2>3. PICK e : e = s[i]
    OBVIOUS
  <2>4. EntryOK(e)'
    BY <2>2, <2>3
  <2>5. QED
    BY <2>3, <2>4
<1>4. \A k \in DOMAIN l : EntryOK(l[k])'
  <2>1. SUFFICES ASSUME NEW k \in DOMAIN l PROVE EntryOK(l[k])'
    OBVIOUS
  <2>2. CASE l[k] \in T
    BY <2>2
  <2>3. CASE \E i \in DOMAIN s : l[k] = s[i]
    <3>1. PICK i \in DOMAIN s : l[k] = s[i]
      BY <2>3
    <3>2. PICK e : e = s[i]
      OBVIOUS
    <3>3. EntryOK(e)' /\ e = l[k]
      BY <1>3, <3>1, <3>2
    <3>4. QED
      BY <3>3
  <2>4. QED
    BY <1>2, <2>2, <2>3
<1>5. \A m \in mine' : \E k \in DOMAIN l : l[k].id = m
  <2>1. SUFFICES ASSUME NEW m \in mine' PROVE \E k \in DOMAIN l : l[k].id = m
    OBVIOUS
  <2>2. CASE m \in mine
    <3>1. PICK i \in DOMAIN s : s[i].id = m
      BY <1>1, <2>2 DEF TabIInv, ComposedHere, Listed
    <3>2. QED
      BY <1>2, <3>1
  <2>3. CASE \E e \in T : e.id = m
    BY <1>2, <2>3
  <2>4. QED
    BY <2>2, <2>3
<1>6. ComposedHere'
  BY <1>5 DEF ComposedHere, Listed
<1>7. QED
  BY <1>2, <1>4, <1>6, PutTogether

\* An entry of the list, when another message is composed or this one is told.
LEMMA ComposeStep ==
  ASSUME TabIInv, NEW m \in Messages, NEW stamp \in Stamps, Compose(m, stamp)
  PROVE  TabIInv'
<1>1. TabTypeOK /\ ComposedHere /\ PhasesAgree /\ PagesAreStored /\ OneEach(list)
  BY DEF TabIInv
<1>2. PICK e : e = [id |-> m, at |-> stamp, status |-> "pending"]
  OBVIOUS
<1>3. PICK p \in {"wire", "lost"} : phase' = [phase EXCEPT ![m] = p]
  BY DEF Compose
<1>4. /\ m \in Own /\ phase[m] = "none"
      /\ list' = AddMessage(list, e) /\ mine' = mine \cup {m}
      /\ UNCHANGED <<time, seen, shown, told, pulled, sock, gate, here, token, fetch, drops,
                     failures>>
  BY <1>2 DEF Compose, link
<1>5. \A n \in Messages : phase'[n] = IF n = m THEN p ELSE phase[n]
  BY <1>1, <1>3 DEF TabTypeOK
<1>6. e \in Entries /\ e.id = m /\ e.status = "pending"
  BY <1>2 DEF Entries, Rank
<1>7. \A i \in DOMAIN list : list[i].id # m
  BY <1>4, Known
<1>8. PICK l : l = list'
  OBVIOUS
<1>9. IsAdded(l, list, {e}) /\ l \in Seq(Entries)
  <2>1. list \in Seq(Entries)
    BY <1>1 DEF TabTypeOK
  <2>2. IsAdded(AddMessage(list, e), list, {e})
    BY <1>1, <1>6, <1>7, <2>1, AddMessageAdds
  <2>3. QED
    BY <1>4, <1>8, <2>2 DEF IsAdded
<1>10. TabTypeOK'
  BY <1>1, <1>3, <1>4, <1>8, <1>9 DEF TabTypeOK
<1>11. PhasesAgree' /\ PagesAreStored'
  <2>1. PhasesAgree'
    BY <1>1, <1>4, <1>5 DEF PhasesAgree, Stored, Inserted
  <2>2. PagesAreStored'
    BY <1>1, <1>4 DEF PagesAreStored, Stored
  <2>3. QED
    BY <2>1, <2>2
<1>12. EntryOK(e)'
  BY <1>3, <1>4, <1>5, <1>6 DEF EntryOK, Cause, IsRow, Settled, Rank
<1>13. ASSUME NEW i \in DOMAIN list, EntryOK(list[i]), NEW g, g = list[i] PROVE EntryOK(g)'
  <2>1. g \in Entries /\ EntryOK(g) /\ g.id \in Messages /\ g.id # m
    BY <1>7, <1>13, Known
  <2>2. g.id \in Own => seen' \in [Own -> 0 .. 2] /\ seen'[g.id] >= seen[g.id]
    BY <1>1, <1>4 DEF TabTypeOK
  <2>3. g.status = "pending" => ~(g.id \in here' /\ phase'[g.id] = "acked")
    BY <1>4, <1>5, <2>1 DEF EntryOK, IsRow
  <2>4. phase[g.id] \in {"acked", "done"} => phase'[g.id] \in {"acked", "done"}
    BY <1>5, <2>1
  <2>5. g.id \in mine' <=> g.id \in mine
    BY <1>4, <2>1
  <2>6. QED
    BY <1>4, <2>1, <2>2, <2>3, <2>4, <2>5, EntryStays
<1>14. /\ here' \subseteq mine'
       /\ \A n \in mine' : phase'[n] # "none" /\ (n \in mine \/ \E x \in {e} : x.id = n)
       /\ \A n \in Messages : phase'[n] \in {"wire", "handled", "stored"} => n \in mine'
  BY <1>1, <1>3, <1>4, <1>5, <1>6 DEF ComposedHere, TabTypeOK, Messages
<1>15. QED
  BY <1>8, <1>9, <1>10, <1>11, <1>12, <1>13, <1>14, ListGrows

LEMMA FanOutStep ==
  ASSUME TabIInv, NEW m \in Messages, FanOut(m)
  PROVE  TabIInv'
<1>1. TabTypeOK /\ ComposedHere /\ PhasesAgree /\ PagesAreStored /\ OneEach(list)
  BY DEF TabIInv
<1>2. /\ phase[m] = "acked" /\ phase' = [phase EXCEPT ![m] = "done"]
      /\ UNCHANGED <<time, seen, mine, shown, pulled, sock, gate, here, token, fetch, drops,
                     failures>>
  BY DEF FanOut, link
<1>3. \A n \in Messages : phase'[n] = IF n = m THEN "done" ELSE phase[n]
  BY <1>1, <1>2 DEF TabTypeOK
<1>4. told' \subseteq Theirs
  BY <1>1 DEF FanOut, TabTypeOK
<1>5. PICK e : e = [id |-> m, at |-> time[m],
                    status |-> IF m \in Own THEN "sent" ELSE "delivered"]
  OBVIOUS
<1>6. list' = list \/ list' = AddMessage(list, e)
  BY <1>5 DEF FanOut
<1>7. e \in Entries /\ e.id = m /\ e.at = time[m] /\ e.status \in {"sent", "delivered"}
      /\ (m \in Own => e.status = "sent")
  <2>1. time[m] \in Stamps
    BY <1>1, Stamped DEF TabTypeOK
  <2>2. QED
    BY <1>5, <2>1 DEF Entries, Rank
<1>8. m \in Stored
  BY <1>1, <1>2 DEF PhasesAgree, Inserted
<1>9. CASE list' = list
  <2>1. TabTypeOK'
    BY <1>1, <1>2, <1>4, <1>9 DEF TabTypeOK
  <2>2. \A g \in Entries :
          EntryOK(g) /\ g.status = "pending" => ~(g.id \in here' /\ phase'[g.id] = "acked")
    BY <1>2, <1>3 DEF EntryOK, IsRow, Entries
  <2>3. QED
    BY <1>1, <1>2, <1>9, <2>1, <2>2, HandlerGoesOn DEF ComposedHere, Inserted
<1>10. CASE list' = AddMessage(list, e) /\ list' # list
  <2>1. PICK l : l = list'
    OBVIOUS
  <2>2. IsAdded(l, list, {e}) /\ l \in Seq(Entries)
    <3>1. list \in Seq(Entries)
      BY <1>1 DEF TabTypeOK
    <3>2. IsAdded(AddMessage(list, e), list, {e})
      BY <1>1, <1>7, <1>10, <3>1, AddMessageAdds
    <3>3. QED
      BY <1>10, <2>1, <3>2 DEF IsAdded
  <2>3. TabTypeOK'
    BY <1>1, <1>2, <1>4, <2>1, <2>2 DEF TabTypeOK
  <2>4. PhasesAgree' /\ PagesAreStored'
    <3>1. PhasesAgree'
      BY <1>1, <1>2, <1>3 DEF PhasesAgree, Stored, Inserted
    <3>2. PagesAreStored'
      BY <1>1, <1>2 DEF PagesAreStored, Stored
    <3>3. QED
      BY <3>1, <3>2
  <2>5. EntryOK(e)'
    BY <1>2, <1>3, <1>7, <1>8 DEF EntryOK, Cause, IsRow, Settled, Rank, Stored
  <2>6. ASSUME NEW i \in DOMAIN list, EntryOK(list[i]), NEW g, g = list[i] PROVE EntryOK(g)'
    <3>1. g \in Entries /\ EntryOK(g) /\ g.id \in Messages
      BY <2>6, Known
    <3>2. g.id \in Own => seen' \in [Own -> 0 .. 2] /\ seen'[g.id] >= seen[g.id]
      BY <1>1, <1>2 DEF TabTypeOK
    <3>3. g.status = "pending" => ~(g.id \in here' /\ phase'[g.id] = "acked")
      BY <1>2, <1>3, <3>1 DEF EntryOK, IsRow
    <3>4. phase[g.id] \in {"acked", "done"} => phase'[g.id] \in {"acked", "done"}
      BY <1>3, <3>1
    <3>5. QED
      BY <1>2, <3>1, <3>2, <3>3, <3>4, EntryStays
  <2>7. /\ here' \subseteq mine'
        /\ \A n \in mine' : phase'[n] # "none" /\ (n \in mine \/ \E x \in {e} : x.id = n)
        /\ \A n \in Messages : phase'[n] \in {"wire", "handled", "stored"} => n \in mine'
    BY <1>1, <1>2, <1>3 DEF ComposedHere, TabTypeOK, Messages
  <2>8. QED
    BY <2>1, <2>2, <2>3, <2>4, <2>5, <2>6, <2>7, ListGrows
<1>11. QED
  BY <1>6, <1>9, <1>10

\* The entries of a list whose entries change in their places.
LEMMA ListChanges ==
  ASSUME TabIInv, NEW l, l = list', l \in Seq(Entries), OneEach(l), DOMAIN l = DOMAIN list,
         \A i \in DOMAIN list : l[i].id = list[i].id,
         \A i \in DOMAIN l : \A e : e = l[i] => EntryOK(e)',
         TabTypeOK', PhasesAgree', PagesAreStored', UNCHANGED <<mine, here>>,
         \A m \in mine : phase'[m] # "none",
         \A m \in Messages : phase'[m] \in {"wire", "handled", "stored"} => m \in mine
  PROVE  TabIInv'
<1>1. \A m \in mine : \E k \in DOMAIN l : l[k].id = m
  BY DEF TabIInv, ComposedHere, Listed
<1>2. ComposedHere'
  BY <1>1 DEF TabIInv, ComposedHere, Listed
<1>3. \A i \in DOMAIN l : EntryOK(l[i])'
  <2>1. SUFFICES ASSUME NEW i \in DOMAIN l PROVE EntryOK(l[i])'
    OBVIOUS
  <2>2. PICK e : e = l[i]
    OBVIOUS
  <2>3. EntryOK(e)'
    BY <2>2
  <2>4. QED
    BY <2>2, <2>3
<1>4. QED
  BY <1>2, <1>3, PutTogether

LEMMA AckStep ==
  ASSUME TabIInv, NEW m \in Messages, Ack(m)
  PROVE  TabIInv'
<1>1. TabTypeOK /\ ComposedHere /\ PhasesAgree /\ PagesAreStored /\ OneEach(list)
  BY DEF TabIInv
<1>2. /\ phase[m] = "stored" /\ phase' = [phase EXCEPT ![m] = "acked"]
      /\ list' = IF m \in here THEN PatchMessage(list, m, time[m]) ELSE list
      /\ UNCHANGED <<time, seen, mine, shown, told, pulled, sock, gate, here, token, fetch,
                     drops, failures>>
  BY DEF Ack, link
<1>3. \A n \in Messages : phase'[n] = IF n = m THEN "acked" ELSE phase[n]
  BY <1>1, <1>2 DEF TabTypeOK
<1>4. CASE m \notin here
  <2>1. TabTypeOK'
    BY <1>1, <1>2, <1>4 DEF TabTypeOK
  <2>2. \A e \in Entries :
          EntryOK(e) /\ e.status = "pending" => ~(e.id \in here' /\ phase'[e.id] = "acked")
    BY <1>2, <1>3, <1>4 DEF EntryOK, IsRow, Entries
  <2>3. QED
    BY <1>1, <1>2, <1>4, <2>1, <2>2, HandlerGoesOn DEF ComposedHere, Inserted
<1>5. CASE m \in here
  <2>1. PICK l : l = PatchMessage(list, m, time[m])
    OBVIOUS
  <2>2. PICK x : x = [id |-> m, at |-> time[m], status |-> "sent"]
    OBVIOUS
  <2>3. /\ l \in Seq(Entries) /\ OneEach(l) /\ DOMAIN l = DOMAIN list
        /\ \A i \in DOMAIN list : l[i] = IF list[i].id = m THEN x ELSE list[i]
    <3>1. list \in Seq(Entries) /\ time[m] \in Stamps
      BY <1>1, Stamped DEF TabTypeOK
    <3>2. QED
      BY <1>1, <2>1, <2>2, <3>1, PatchMessageKeeps
  <2>4. l = list'
    BY <1>2, <1>5, <2>1
  <2>5. x.id = m /\ x.at = time[m] /\ x.status = "sent"
    BY <2>2
  <2>6. TabTypeOK'
    BY <1>1, <1>2, <2>3, <2>4 DEF TabTypeOK
  <2>7. PhasesAgree' /\ PagesAreStored'
    <3>1. PhasesAgree'
      BY <1>1, <1>2, <1>3 DEF PhasesAgree, Stored, Inserted
    <3>2. PagesAreStored'
      BY <1>1, <1>2 DEF PagesAreStored, Stored
    <3>3. QED
      BY <3>1, <3>2
  <2>8. EntryOK(x)'
    <3>1. m \in Stored
      BY <1>1, <1>2 DEF PhasesAgree, Inserted
    <3>2. QED
      BY <1>2, <1>3, <2>5, <3>1 DEF EntryOK, Cause, IsRow, Settled, Rank, Stored
  <2>9. ASSUME NEW i \in DOMAIN l, NEW g, g = l[i] PROVE EntryOK(g)'
    <3>1. CASE g = x
      BY <2>8, <3>1
    <3>2. CASE g = list[i] /\ list[i].id # m
      <4>1. g \in Entries /\ EntryOK(g) /\ g.id \in Messages /\ g.id # m
        BY <2>3, <2>9, <3>2, Known
      <4>2. g.id \in Own => seen' \in [Own -> 0 .. 2] /\ seen'[g.id] >= seen[g.id]
        BY <1>1, <1>2 DEF TabTypeOK
      <4>3. g.status = "pending" => ~(g.id \in here' /\ phase'[g.id] = "acked")
        BY <1>2, <1>3, <4>1 DEF EntryOK, IsRow
      <4>4. phase[g.id] \in {"acked", "done"} => phase'[g.id] \in {"acked", "done"}
        BY <1>3, <4>1
      <4>5. QED
        BY <1>2, <4>1, <4>2, <4>3, <4>4, EntryStays
    <3>3. QED
      BY <2>3, <2>9, <3>1, <3>2
  <2>10. \A i \in DOMAIN list : l[i].id = list[i].id
    BY <2>3, <2>5
  <2>11. /\ \A n \in mine : phase'[n] # "none"
         /\ \A n \in Messages : phase'[n] \in {"wire", "handled", "stored"} => n \in mine
    BY <1>1, <1>3 DEF ComposedHere, TabTypeOK, Messages
  <2>12. QED
    BY <1>2, <2>3, <2>4, <2>6, <2>7, <2>9, <2>10, <2>11, ListChanges
<1>6. QED
  BY <1>4, <1>5

LEMMA TickStep ==
  ASSUME TabIInv, NEW m \in Messages, NEW status \in DOMAIN Rank, Tick(m, status)
  PROVE  TabIInv'
<1>1. TabTypeOK /\ ComposedHere /\ PhasesAgree /\ PagesAreStored /\ OneEach(list)
  BY DEF TabIInv
<1>2. /\ m \in Own /\ status \in {"delivered", "read"} /\ Rank[status] <= seen[m] + 1
      /\ list' = MarkStatuses(list, m, status)
      /\ UNCHANGED <<phase, time, seen, mine, shown, told, pulled, sock, gate, here, token,
                     fetch, drops, failures>>
  BY DEF Tick, server, link
<1>3. PICK l : l = MarkStatuses(list, m, status)
  OBVIOUS
<1>4. /\ l \in Seq(Entries) /\ OneEach(l) /\ DOMAIN l = DOMAIN list
      /\ \A i \in DOMAIN list :
           \/ l[i] = list[i]
           \/ /\ list[i].id = m /\ list[i].status # "pending"
              /\ l[i] = [id |-> m, at |-> list[i].at, status |-> status]
  <2>1. list \in Seq(Entries)
    BY <1>1 DEF TabTypeOK
  <2>2. QED
    BY <1>1, <1>3, <2>1, MarkStatusesKeeps
<1>5. TabTypeOK'
  BY <1>1, <1>2, <1>3, <1>4 DEF TabTypeOK
<1>6. PhasesAgree' /\ PagesAreStored'
  BY <1>1, <1>2 DEF PhasesAgree, PagesAreStored, Stored
<1>7. ASSUME NEW i \in DOMAIN l, NEW g, g = l[i] PROVE EntryOK(g)'
  <2>1. PICK e : e = list[i]
    OBVIOUS
  <2>2. e \in Entries /\ EntryOK(e) /\ e.id \in Messages
    BY <1>4, <1>7, <2>1, Known
  <2>3. CASE g = e
    BY <1>2, <2>2, <2>3 DEF EntryOK, Cause, IsRow, Settled, Stored
  <2>4. CASE /\ e.id = m /\ e.status # "pending"
             /\ g = [id |-> m, at |-> e.at, status |-> status]
    <3>1. g.id = m /\ g.at = e.at /\ g.status = status
      BY <2>4
    <3>2. IsRow(g)' /\ Settled(g)'
      BY <1>2, <2>2, <2>4, <3>1 DEF EntryOK, IsRow, Settled, Stored
    <3>3. Cause(g)'
      <4>1. seen[m] \in Int /\ Rank[status] \in Int /\ seen' = seen
        BY <1>1, <1>2 DEF TabTypeOK, Rank
      <4>2. seen'[g.id] >= Rank[g.status] - 1
        BY <1>2, <3>1, <4>1
      <4>3. QED
        BY <4>2 DEF Cause
    <3>4. QED
      BY <3>2, <3>3 DEF EntryOK
  <2>5. QED
    BY <1>4, <1>7, <2>1, <2>3, <2>4
<1>8. \A i \in DOMAIN list : l[i].id = list[i].id
  BY <1>4
<1>9. /\ \A n \in mine : phase'[n] # "none"
      /\ \A n \in Messages : phase'[n] \in {"wire", "handled", "stored"} => n \in mine
  BY <1>1, <1>2 DEF ComposedHere
<1>10. QED
  BY <1>2, <1>3, <1>4, <1>5, <1>6, <1>7, <1>8, <1>9, ListChanges

\* A page brings rows, and those of the user that this tab did not compose.
LEMMA PageSteps ==
  ASSUME TabIInv, ShowPage \/ Resync
  PROVE  TabIInv'
<1>1. TabTypeOK /\ ComposedHere /\ PhasesAgree /\ PagesAreStored /\ OneEach(list)
  BY DEF TabIInv
<1>2. PICK f \in Fetches :
        /\ fetch' = [fetch EXCEPT ![f] = Idle]
        /\ IF f = "open" THEN ShowPage ELSE Resync
  BY DEF ShowPage, Resync, Fetches
<1>3. PICK page : page = fetch[f].page /\ page \subseteq Stored
  BY <1>1 DEF PagesAreStored
<1>4. PICK own : own = IF f = "open" THEN "sent" ELSE "delivered"
  OBVIOUS
<1>5. /\ list' = AddPage(list, page, own)
      /\ UNCHANGED <<phase, time, seen, mine, shown, sock, gate, here, token, drops, failures>>
  BY <1>2, <1>3, <1>4 DEF ShowPage, Resync, Fetches, server, link
<1>6. pulled' = IF f = "open" THEN pulled ELSE pulled \cup ((page \cap Own) \ Listed)
  BY <1>2, <1>3 DEF ShowPage, Resync, Fetches
<1>7. told' \subseteq Theirs
  BY <1>1, <1>2 DEF ShowPage, Resync, Fetches, TabTypeOK
<1>8. PICK new : new = {m \in page : \A i \in DOMAIN list : list[i].id # m}
  OBVIOUS
<1>9. PICK T : T = {RowOf(m, own) : m \in new}
  OBVIOUS
<1>10. PICK l : l = list'
  OBVIOUS
<1>11. page \in SUBSET Messages
  BY <1>3 DEF Stored
<1>12. IsAdded(l, list, T) /\ l \in Seq(Entries)
  <2>1. list \in Seq(Entries) /\ time \in [Messages -> Times] /\ own \in {"sent", "delivered"}
    BY <1>1, <1>4 DEF TabTypeOK
  <2>2. IsAdded(AddPage(list, page, own), list, T)
    BY <1>1, <1>8, <1>9, <1>11, <2>1, AddPageAdds
  <2>3. QED
    BY <1>5, <1>10, <2>2 DEF IsAdded
<1>13. TabTypeOK'
  <2>1. pulled' \subseteq Own
    BY <1>1, <1>6 DEF TabTypeOK
  <2>2. fetch' \in [Fetches -> [step : {"idle", "asked", "answered"},
                                since : Stamps \cup {NoSince}, page : SUBSET Messages]]
    BY <1>1, <1>2 DEF TabTypeOK, Idle
  <2>3. QED
    BY <1>1, <1>5, <1>7, <1>10, <1>12, <2>1, <2>2 DEF TabTypeOK
<1>14. PhasesAgree'
  BY <1>1, <1>5 DEF PhasesAgree, Stored
<1>15. PagesAreStored'
  BY <1>1, <1>2, <1>5 DEF PagesAreStored, Stored, Idle, TabTypeOK
<1>16. ASSUME NEW e \in T PROVE EntryOK(e)'
  <2>1. PICK m \in new : e = RowOf(m, own)
    BY <1>9
  <2>2. /\ m \in Stored /\ m \in page /\ m \notin Listed /\ m \notin mine
        /\ phase[m] \in Inserted
    <3>1. m \in page /\ m \notin Listed
      BY <1>8 DEF Listed
    <3>2. QED
      BY <1>1, <1>3, <1>11, <3>1 DEF ComposedHere, PhasesAgree
  <2>3. /\ e.id = m /\ e.at = time[m] /\ e.status # "pending"
        /\ m \in Own => e.status = own
    BY <1>4, <2>1 DEF RowOf
  <2>4. IsRow(e)' /\ Settled(e)'
    BY <1>5, <2>2, <2>3 DEF IsRow, Settled, Stored
  <2>5. Cause(e)'
    <3>1. CASE m \notin Own \/ own = "sent"
      BY <2>3, <3>1 DEF Cause, Rank
    <3>2. CASE m \in Own /\ own = "delivered"
      <4>1. m \in pulled' /\ m \notin mine'
        BY <1>4, <1>5, <1>6, <2>2, <3>2
      <4>2. QED
        BY <2>3, <3>2, <4>1 DEF Cause
    <3>3. QED
      BY <1>4, <3>1, <3>2
  <2>6. QED
    BY <2>4, <2>5 DEF EntryOK
<1>17. ASSUME NEW i \in DOMAIN list, EntryOK(list[i]), NEW g, g = list[i] PROVE EntryOK(g)'
  <2>1. g \in Entries /\ EntryOK(g) /\ g.id \in Messages
    BY <1>17, Known
  <2>2. g.id \in Own => seen' \in [Own -> 0 .. 2] /\ seen'[g.id] >= seen[g.id]
    BY <1>1, <1>5 DEF TabTypeOK
  <2>3. g.status = "pending" => ~(g.id \in here' /\ phase'[g.id] = "acked")
    BY <1>5, <2>1 DEF EntryOK, IsRow
  <2>4. pulled \subseteq pulled'
    BY <1>6
  <2>5. QED
    BY <1>5, <2>1, <2>2, <2>3, <2>4, EntryStays
<1>18. /\ here' \subseteq mine'
       /\ \A n \in mine' : phase'[n] # "none" /\ (n \in mine \/ \E x \in T : x.id = n)
       /\ \A n \in Messages : phase'[n] \in {"wire", "handled", "stored"} => n \in mine'
  BY <1>1, <1>5 DEF ComposedHere
<1>19. QED
  BY <1>10, <1>12, <1>13, <1>14, <1>15, <1>16, <1>17, <1>18, ListGrows

----------------------------------------------------------------------------
LEMMA TabStep ==
  ASSUME TabIInv, [TabNext]_tabVars
  PROVE  TabIInv'
<1>1. CASE UNCHANGED tabVars
  <2>1. UNCHANGED <<phase, time, seen, sock, gate, token, list, mine, shown, fetch, here,
                    told, pulled, drops, failures>>
    BY <1>1 DEF tabVars, server, client, link
  <2>2. TabTypeOK' /\ PagesAreStored'
    BY <2>1 DEF TabIInv, TabTypeOK, PagesAreStored, Stored
  <2>3. QED
    BY <2>1, <2>2, QuietSteps DEF server
<1>2. CASE Connect \/ Subscribe \/ Listen \/ LoseSocket \/ Expire
  BY <1>2, LinkSteps, LoseSocketStep
<1>3. CASE OpenThread \/ CloseThread \/ ShowPage \/ Resync
  BY <1>3, ThreadSteps, PageSteps
<1>4. CASE \E f \in Fetches : AnswerFetch(f) \/ FailFetch(f)
  BY <1>4, ThreadSteps
<1>5. ASSUME NEW m \in Messages, Handler(m) PROVE TabIInv'
  BY <1>5, HandlerSteps, CommitSteps, AckStep, FanOutStep DEF Handler
<1>6. ASSUME NEW m \in Messages, CommitOther(m) \/ Miss(m) \/ Throw(m) \/ Acknowledge(m)
      PROVE  TabIInv'
  BY <1>6, HandlerSteps, CommitSteps, AcknowledgeStep
<1>7. ASSUME NEW m \in Messages, NEW stamp \in Stamps, Compose(m, stamp) PROVE TabIInv'
  BY <1>7, ComposeStep
<1>8. ASSUME NEW m \in Messages, NEW status \in DOMAIN Rank, Tick(m, status) PROVE TabIInv'
  BY <1>8, TickStep
<1>9. QED
  BY <1>1, <1>2, <1>3, <1>4, <1>5, <1>6, <1>7, <1>8 DEF TabNext

LEMMA TabStart ==
  ASSUME TabInit
  PROVE  TabIInv
<1>1. list = << >> /\ DOMAIN list = {} /\ list \in Seq(Entries)
  BY DEF TabInit
<1>2. TabTypeOK
  <2>1. 0 \in Times /\ 0 \in 0 .. MaxDrops /\ 0 \in 0 .. MaxFailures
    BY Stamped, BoundsAreNumbers DEF Times
  <2>2. Idle \in [step : {"idle", "asked", "answered"}, since : Stamps \cup {NoSince},
                  page : SUBSET Messages]
    BY DEF Idle
  <2>3. fetch \in [Fetches -> [step : {"idle", "asked", "answered"},
                               since : Stamps \cup {NoSince}, page : SUBSET Messages]]
    BY <2>2 DEF TabInit
  <2>4. /\ phase \in [Messages -> {"none", "wire", "handled", "stored", "acked", "done", "lost"}]
        /\ time \in [Messages -> Times] /\ seen \in [Own -> 0 .. 2]
    BY <2>1 DEF TabInit
  <2>5. /\ mine \subseteq Own /\ here \subseteq Own /\ told \subseteq Theirs
        /\ pulled \subseteq Own /\ shown \in BOOLEAN
        /\ drops \in 0 .. MaxDrops /\ failures \in 0 .. MaxFailures
        /\ sock \in {"closed", "open"} /\ gate \in {"off", "subscribed", "listening"}
        /\ token \in {"fresh", "stale"}
    BY <2>1 DEF TabInit
  <2>6. QED
    BY <1>1, <2>3, <2>4, <2>5 DEF TabTypeOK
<1>3. OneEach(list) /\ \A i \in DOMAIN list : EntryOK(list[i])
  BY <1>1 DEF OneEach
<1>4. PhasesAgree
  BY DEF TabInit, PhasesAgree, Stored, Inserted
<1>5. ComposedHere
  BY DEF TabInit, ComposedHere
<1>6. PagesAreStored
  BY DEF TabInit, PagesAreStored, Idle
<1>7. QED
  BY <1>2, <1>3, <1>4, <1>5, <1>6 DEF TabIInv

\* The invariant the rest follows from: entries say what their rows say, rows
\* belong to handlers that inserted one, and what the tab composed is listed
\* (store.ts:76-120, ws.service.ts).
THEOREM TabInductive == TabSpec => []TabIInv
<1>1. TabInit => TabIInv
  BY TabStart
<1>2. TabIInv /\ [TabNext]_tabVars => TabIInv'
  BY TabStep
<1>3. QED
  BY <1>1, <1>2, PTL DEF TabSpec

\* However live frames, pages, acks and receipts overlap, for any number of
\* messages, page size and skew: a message is shown once, waits for its send_ack
\* as long as none came, and has no tick without a cause (store.ts:76-85,
\* socket.ts:88).
THEOREM TabIsSound == TabSpec => []TabInv
<1>1. TabIInv => TabInv
  <2>1. SUFFICES ASSUME TabIInv PROVE TabInv
    OBVIOUS
  <2>2. EntriesAreRows
    BY <2>1 DEF TabIInv, OneEach, EntryOK, IsRow, EntriesAreRows
  <2>3. TicksHaveACause
    BY <2>1 DEF TabIInv, EntryOK, Cause, TicksHaveACause
  <2>4. QED
    BY <2>1, <2>2, <2>3 DEF TabIInv, TabInv
<1>2. QED
  BY <1>1, TabInductive, PTL

\* What is in a list, and a status no lower, is in the next.
Stays(l, k) ==
  \A i \in DOMAIN l : \E j \in DOMAIN k : k[j].id = l[i].id /\ Rank[k[j].status] >= Rank[l[i].status]
LEMMA GrownStays ==
  ASSUME NEW l \in Seq(Entries), NEW k, NEW T, IsAdded(k, l, T)
  PROVE  Stays(l, k)
<1>1. \A i \in DOMAIN l : Rank[l[i].status] \in Int
  BY EntryOfList DEF Rank
<1>2. QED
  BY <1>1 DEF IsAdded, Stays
LEMMA SameStays ==
  ASSUME NEW l \in Seq(Entries)
  PROVE  Stays(l, l)
<1>1. \A i \in DOMAIN l : Rank[l[i].status] \in Int
  BY EntryOfList DEF Rank
<1>2. QED
  BY <1>1 DEF Stays

LEMMA AddMessageStays ==
  ASSUME TabIInv, NEW e \in Entries, list' = AddMessage(list, e)
  PROVE  Stays(list, list')
<1>1. list \in Seq(Entries) /\ OneEach(list)
  BY DEF TabIInv, TabTypeOK
<1>2. list' = list \/ IsAdded(list', list, {e})
  BY <1>1, AddMessageAdds
<1>3. QED
  BY <1>1, <1>2, GrownStays, SameStays

LEMMA AddPageStays ==
  ASSUME TabIInv, NEW page, page \subseteq Stored, NEW own \in {"sent", "delivered"},
         list' = AddPage(list, page, own)
  PROVE  Stays(list, list')
<1>1. list \in Seq(Entries) /\ OneEach(list) /\ time \in [Messages -> Times]
  BY DEF TabIInv, TabTypeOK
<1>2. page \in SUBSET Messages
  BY DEF Stored
<1>3. PICK T : IsAdded(list', list, T)
  BY <1>1, <1>2, AddPageAdds
<1>4. QED
  BY <1>1, <1>3, GrownStays

LEMMA AckStays ==
  ASSUME TabIInv, NEW m \in Messages, Ack(m)
  PROVE  Stays(list, list')
<1>1. list \in Seq(Entries) /\ OneEach(list) /\ time[m] \in Stamps
  BY Stamped DEF TabIInv, TabTypeOK
<1>2. CASE m \notin here
  <2>1. list' = list
    BY <1>2 DEF Ack
  <2>2. QED
    BY <1>1, <2>1, SameStays
<1>3. CASE m \in here
  <2>1. PICK l : l = PatchMessage(list, m, time[m])
    OBVIOUS
  <2>2. l = list'
    BY <1>3, <2>1 DEF Ack
  <2>3. PICK x : x = [id |-> m, at |-> time[m], status |-> "sent"]
    OBVIOUS
  <2>4. /\ DOMAIN l = DOMAIN list
        /\ \A i \in DOMAIN list : l[i] = IF list[i].id = m THEN x ELSE list[i]
    BY <1>1, <2>1, <2>3, PatchMessageKeeps
  <2>5. ASSUME NEW i \in DOMAIN list
        PROVE  l[i].id = list[i].id /\ Rank[l[i].status] >= Rank[list[i].status]
    <3>1. list[i] \in Entries /\ EntryOK(list[i])
      BY Known
    <3>2. CASE list[i].id = m
      <4>1. m \in mine /\ phase[m] = "stored"
        BY <1>3 DEF Ack, TabIInv, ComposedHere
      <4>2. list[i].status = "pending"
        BY <3>1, <3>2, <4>1 DEF EntryOK, Settled
      <4>3. l[i] = x /\ x.id = m /\ x.status = "sent"
        BY <2>3, <2>4, <3>2
      <4>4. QED
        BY <3>2, <4>2, <4>3 DEF Rank
    <3>3. CASE list[i].id # m
      <4>1. Rank[list[i].status] \in Int
        BY <3>1 DEF Entries, Rank
      <4>2. QED
        BY <2>4, <3>3, <4>1
    <3>4. QED
      BY <3>2, <3>3
  <2>6. Stays(list, l)
    BY <2>4, <2>5 DEF Stays
  <2>7. QED
    BY <2>2, <2>6
<1>4. QED
  BY <1>2, <1>3

LEMMA TickStays ==
  ASSUME TabIInv, NEW m \in Messages, NEW status \in DOMAIN Rank, Tick(m, status)
  PROVE  Stays(list, list')
<1>1. list \in Seq(Entries) /\ OneEach(list)
  BY DEF TabIInv, TabTypeOK
<1>2. PICK l : l = MarkStatuses(list, m, status)
  OBVIOUS
<1>3. l = list'
  BY <1>2 DEF Tick
<1>4. /\ DOMAIN l = DOMAIN list
      /\ \A i \in DOMAIN list :
           \/ l[i] = list[i]
           \/ /\ list[i].id = m /\ Rank[status] > Rank[list[i].status]
              /\ l[i] = [id |-> m, at |-> list[i].at, status |-> status]
  BY <1>1, <1>2, MarkStatusesKeeps
<1>5. ASSUME NEW i \in DOMAIN list
      PROVE  l[i].id = list[i].id /\ Rank[l[i].status] >= Rank[list[i].status]
  <2>1. Rank[list[i].status] \in Int /\ Rank[status] \in Int
    BY <1>1, EntryOfList DEF Rank
  <2>2. CASE l[i] = list[i]
    BY <2>1, <2>2
  <2>3. CASE /\ list[i].id = m /\ Rank[status] > Rank[list[i].status]
             /\ l[i] = [id |-> m, at |-> list[i].at, status |-> status]
    BY <2>1, <2>3
  <2>4. QED
    BY <1>4, <2>2, <2>3
<1>6. Stays(list, l)
  BY <1>4, <1>5 DEF Stays
<1>7. QED
  BY <1>3, <1>6

LEMMA TabStepStays ==
  ASSUME TabIInv, [TabNext]_tabVars
  PROVE  Stays(list, list')
<1>1. list \in Seq(Entries) /\ PagesAreStored
  BY DEF TabIInv, TabTypeOK
<1>2. CASE UNCHANGED list
  BY <1>1, <1>2, SameStays
<1>3. CASE ShowPage \/ Resync
  <2>1. fetch["open"].page \subseteq Stored /\ fetch["resync"].page \subseteq Stored
    BY <1>1 DEF PagesAreStored, Fetches
  <2>2. \E f \in Fetches, own \in {"sent", "delivered"} :
          list' = AddPage(list, fetch[f].page, own)
    BY <1>3 DEF ShowPage, Resync, Fetches
  <2>3. QED
    BY <1>1, <2>2, AddPageStays DEF PagesAreStored
<1>4. ASSUME NEW m \in Messages, FanOut(m) PROVE Stays(list, list')
  <2>1. PICK e : e = [id |-> m, at |-> time[m],
                      status |-> IF m \in Own THEN "sent" ELSE "delivered"]
    OBVIOUS
  <2>2. time[m] \in Stamps
    BY Stamped DEF TabIInv, TabTypeOK
  <2>3. e \in Entries
    BY <2>1, <2>2 DEF Entries, Rank
  <2>4. list' = list \/ list' = AddMessage(list, e)
    BY <1>4, <2>1 DEF FanOut
  <2>5. QED
    BY <1>2, <2>3, <2>4, AddMessageStays
<1>5. ASSUME NEW m \in Messages, NEW stamp \in Stamps, Compose(m, stamp)
      PROVE  Stays(list, list')
  <2>1. PICK e : e = [id |-> m, at |-> stamp, status |-> "pending"]
    OBVIOUS
  <2>2. e \in Entries
    BY <2>1 DEF Entries, Rank
  <2>3. list' = AddMessage(list, e)
    BY <1>5, <2>1 DEF Compose
  <2>4. QED
    BY <2>2, <2>3, AddMessageStays
<1>6. ASSUME NEW m \in Messages,
             Overhear(m) \/ ReceiveFrame(m) \/ Commit(m) \/ CommitOther(m) \/ Miss(m)
               \/ Throw(m) \/ Acknowledge(m)
      PROVE  UNCHANGED list
  BY <1>6 DEF Overhear, ReceiveFrame, Commit, CommitOther, Miss, Throw, Acknowledge, client
<1>7. ASSUME Connect \/ Subscribe \/ Listen \/ LoseSocket \/ Expire \/ OpenThread
               \/ CloseThread \/ UNCHANGED tabVars
               \/ \E f \in Fetches : AnswerFetch(f) \/ FailFetch(f)
      PROVE  UNCHANGED list
  BY <1>7 DEF Connect, Subscribe, Listen, LoseSocket, Expire, OpenThread, CloseThread,
     AnswerFetch, FailFetch, client, tabVars
<1>8. QED
  BY <1>2, <1>3, <1>4, <1>5, <1>6, <1>7, AckStays, TickStays DEF TabNext, Handler

\* No status is taken back and no message disappears while the tab lives,
\* whatever order acks, receipts and pages come in (store.ts:76-120).
THEOREM StatusesNeverFall == TabSpec => StatusNeverFalls
<1>1. TabIInv /\ [TabNext]_tabVars
        => [\A i \in DOMAIN list : \E j \in DOMAIN list' :
              list'[j].id = list[i].id /\ Rank[list'[j].status] >= Rank[list[i].status]]_tabVars
  BY TabStepStays DEF Stays
<1>2. QED
  BY <1>1, TabInductive, PTL DEF TabSpec, StatusNeverFalls

----------------------------------------------------------------------------
\* Calls.

\* What Send makes of the frames s of wire p: behind them, in any order, is each
\* frame of F that reaches the tab at its end, once.
IsAppended(v, s, p, t, F) ==
  /\ v \in Seq(Frames)
  /\ Len(v) \in Nat /\ Len(s) \in Nat /\ Len(s) <= Len(v)
  /\ \A i \in 1..Len(s) : v[i] = s[i]
  /\ \A i \in Len(s) + 1..Len(v) :
       p[1] = t /\ v[i] \in F /\ Reaches(t, p[2], v[i])
  /\ \A f \in F : p[1] = t /\ Reaches(t, p[2], f)
       => \E i \in Len(s) + 1..Len(v) : v[i] = f
  /\ \A i, j \in Len(s) + 1..Len(v) : v[i] = v[j] => i = j

LEMMA AppendedFrames ==
  ASSUME NEW w \in [Pairs -> Seq(Frames)], NEW t \in Tabs, NEW F \in SUBSET Frames,
         IsFiniteSet(F), NEW p \in Pairs
  PROVE  IsAppended(Appended(w, t, F)[p], w[p], p, t, F)
<1>0. PICK v : v = Appended(w, t, F)[p]
  OBVIOUS
<1> DEFINE G == {f \in F : p[1] = t /\ Reaches(t, p[2], f)}
<1>1. v = IF G = {} THEN w[p] ELSE w[p] \o SetToSeq(G)
  BY <1>0 DEF Appended
<1>2. w[p] \in Seq(Frames) /\ Len(w[p]) \in Nat
  BY LenProperties
<1> DEFINE Goal == IsAppended(v, w[p], p, t, F)
<1>3. ASSUME G = {} PROVE Goal
  <2>1. v = w[p]
    BY <1>1, <1>3
  <2>2. QED
    BY <1>2, <1>3, <2>1 DEF IsAppended
<1>4. ASSUME G # {} PROVE Goal
  <2>1. IsFiniteSet(G) /\ G \subseteq Frames
    BY FS_Subset
  <2>2. PICK s : s = SetToSeq(G)
    OBVIOUS
  <2>3. /\ s \in Seq(G) /\ s \in Seq(Frames)
        /\ \A x \in G : \E i \in DOMAIN s : s[i] = x
        /\ \A i, j \in DOMAIN s : s[i] = s[j] => i = j
    BY <2>1, <2>2, SetsAreListed, SeqMonotonic
  <2>4. Len(s) \in Nat /\ DOMAIN s = 1..Len(s)
    BY <2>3, LenProperties
  <2>5. \A i \in 1..Len(s) : s[i] \in G
    BY <2>3, ElementOfSeq
  <2>6. PICK k \in Nat : k = Len(w[p])
    BY <1>2
  <2>7. PICK l \in Nat : l = Len(s)
    <3>1. Len(s) \in Nat
      BY <2>4
    <3>2. QED
      BY <3>1
  <2>8. /\ v \in Seq(Frames) /\ Len(v) = k + l
        /\ \A i \in 1..k + l : v[i] = IF i <= k THEN w[p][i] ELSE s[i - k]
    BY <1>1, <1>2, <1>4, <2>2, <2>3, <2>6, <2>7, ConcatProperties
  <2> HIDE DEF G
  <2>9. ASSUME NEW i \in k + 1..k + l
        PROVE  i - k \in 1..l /\ v[i] = s[i - k]
    <3>1. i \in 1..k + l /\ ~(i <= k) /\ i - k \in 1..l
      BY <2>9
    <3>2. QED
      BY <2>8, <3>1
  <2>10. ASSUME NEW i \in 1..l
         PROVE  i + k \in k + 1..k + l /\ v[i + k] = s[i]
    <3>1. i + k \in k + 1..k + l /\ (i + k) - k = i
      BY <2>10
    <3>2. QED
      BY <2>9, <3>1
  <2>11. \A i \in k + 1..k + l : v[i] \in G
    BY <2>5, <2>7, <2>9
  <2>12. ASSUME NEW f \in G PROVE \E i \in k + 1..k + l : v[i] = f
    <3>1. PICK i \in 1..l : s[i] = f
      BY <2>3, <2>4, <2>7
    <3>2. QED
      BY <2>10, <3>1
  <2>13. ASSUME NEW i \in k + 1..k + l, NEW j \in k + 1..k + l, v[i] = v[j]
         PROVE  i = j
    <3>1. PICK a \in 1..l, b \in 1..l : a = i - k /\ b = j - k
      BY <2>9
    <3>2. s[a] = s[b] /\ a \in DOMAIN s /\ b \in DOMAIN s
      BY <2>4, <2>7, <2>9, <2>13, <3>1
    <3>3. a = b
      BY <2>3, <3>2
    <3>4. QED
      BY <3>1, <3>3
  <2>14. k <= k + l /\ k + l \in Nat /\ \A i \in 1..k : i \in 1..k + l /\ i <= k
    OBVIOUS
  <2>15. QED
    BY <2>6, <2>8, <2>11, <2>12, <2>13, <2>14 DEF G, IsAppended
<1>5. QED
  BY <1>0, <1>3, <1>4
----------------------------------------------------------------------------
\* Types.

\* What TypeOK says of each element of the sequences.
LEMMA Elements ==
  ASSUME TypeOK
  PROVE  /\ Len(calls) \in Nat /\ DOMAIN calls = 1..Len(calls)
         /\ \A c \in DOMAIN calls : calls[c] \in [from : Tabs, to : Users]
         /\ Len(mgrs) \in Nat /\ DOMAIN mgrs = 1..Len(mgrs)
         /\ \A m \in DOMAIN mgrs : mgrs[m] \in Managers
         /\ \A p \in Pairs : /\ wire[p] \in Seq(Frames)
                             /\ Len(wire[p]) \in Nat
                             /\ DOMAIN wire[p] = 1..Len(wire[p])
                             /\ \A i \in DOMAIN wire[p] : wire[p][i] \in Frames
<1> USE DEF TypeOK
<1>1. Len(calls) \in Nat /\ DOMAIN calls = 1..Len(calls)
  BY LenProperties
<1>2. \A c \in DOMAIN calls : calls[c] \in [from : Tabs, to : Users]
  BY <1>1, ElementOfSeq
<1>3. Len(mgrs) \in Nat /\ DOMAIN mgrs = 1..Len(mgrs)
  BY LenProperties
<1>4. \A m \in DOMAIN mgrs : mgrs[m] \in Managers
  BY <1>3, ElementOfSeq
<1>5. ASSUME NEW p \in Pairs
      PROVE  /\ wire[p] \in Seq(Frames)
             /\ Len(wire[p]) \in Nat
             /\ DOMAIN wire[p] = 1..Len(wire[p])
             /\ \A i \in DOMAIN wire[p] : wire[p][i] \in Frames
  <2>1. wire[p] \in Seq(Frames)
    OBVIOUS
  <2>2. Len(wire[p]) \in Nat /\ DOMAIN wire[p] = 1..Len(wire[p])
    BY <2>1, LenProperties
  <2>3. QED
    BY <2>1, <2>2, ElementOfSeq
<1>6. QED
  BY <1>1, <1>2, <1>3, <1>4, <1>5

\* The users and the tabs of a call, and the user at the other end of a manager.
LEMMA Ends ==
  ASSUME TypeOK
  PROVE  /\ \A c \in DOMAIN calls : /\ Caller(c) \in Tabs /\ Callee(c) \in Users
                                    /\ Owner[Caller(c)] \in Users
         /\ \A m \in DOMAIN mgrs : /\ mgrs[m].tab \in Tabs
                                   /\ mgrs[m].call \in DOMAIN calls
                                   /\ Remote(m) \in Users
<1>1. \A c \in DOMAIN calls : /\ Caller(c) \in Tabs /\ Callee(c) \in Users
                              /\ Owner[Caller(c)] \in Users
  BY Elements, OwnerOfTabs DEF Caller, Callee
<1>2. \A m \in DOMAIN mgrs : mgrs[m].tab \in Tabs /\ mgrs[m].call \in DOMAIN calls
  BY Elements DEF Managers
<1>3. QED
  BY <1>1, <1>2 DEF Remote

\* The goodbyes of some managers are frames, and finitely many.
LEMMA GoodbyesAreFrames ==
  ASSUME TypeOK, NEW S \in SUBSET DOMAIN mgrs
  PROVE  Goodbyes(S) \subseteq Frames /\ IsFiniteSet(Goodbyes(S))
<1> DEFINE L == {n \in S : IsLive(n)}
           g == [m \in L |-> Hangup(m)]
<1>1. \A m \in DOMAIN mgrs : Hangup(m) \in Frames
  BY Elements, Ends DEF Hangup, Frame, Frames
<1>2. IsFiniteSet(L)
  <2>1. IsFiniteSet(DOMAIN mgrs)
    BY Elements, FS_Interval
  <2>2. L \in SUBSET DOMAIN mgrs
    OBVIOUS
  <2>3. QED
    BY <2>1, <2>2, FS_Subset
<1>3. g \in Surjection(L, Goodbyes(S))
  BY DEF Goodbyes, Surjection
<1> HIDE DEF L, g
<1>4. IsFiniteSet(Goodbyes(S))
  BY <1>2, <1>3, FS_Surjection
<1>5. QED
  BY <1>1, <1>4 DEF Goodbyes

\* Appended and MissedOf keep the types.
LEMMA SentTypes ==
  ASSUME TypeOK, NEW t \in Tabs, NEW F \in SUBSET Frames, IsFiniteSet(F),
         NEW w \in [Pairs -> Seq(Frames)]
  PROVE  /\ Appended(w, t, F) \in [Pairs -> Seq(Frames)]
         /\ MissedOf(t, F) \subseteq DOMAIN calls
<1>1. PICK v : v = Appended(w, t, F)
  OBVIOUS
<1>2. v = [p \in Pairs |-> v[p]]
  BY <1>1 DEF Appended
<1>3. \A p \in Pairs : v[p] \in Seq(Frames)
  BY <1>1, AppendedFrames DEF IsAppended
<1>4. MissedOf(t, F) \subseteq DOMAIN calls
  BY DEF MissedOf, Frames
<1>5. QED
  BY <1>1, <1>2, <1>3, <1>4

\* r is what is left of manager m when it is destroyed: it is unsubscribed, and
\* its connection, if it has one, is closed.
IsClosed(m, r) ==
  /\ r.tab = mgrs[m].tab /\ r.call = mgrs[m].call /\ r.second = mgrs[m].second
  /\ r.phase = mgrs[m].phase /\ r.far = mgrs[m].far
  /\ r.doomed <=> (mgrs[m].doomed \/ mgrs[m].phase = "init")
  /\ r.sub = FALSE
  /\ r.pc = IF IsLive(m) THEN "closed" ELSE mgrs[m].pc

LEMMA DestroyedTypes ==
  ASSUME TypeOK, NEW S, NEW d, d = Destroyed(S)
  PROVE  /\ d \in Seq(Managers) /\ Len(d) = Len(mgrs) /\ DOMAIN d = DOMAIN mgrs
         /\ \A m \in DOMAIN mgrs : /\ m \notin S => d[m] = mgrs[m]
                                   /\ m \in S => IsClosed(m, d[m])
<1>1. ASSUME NEW r \in Managers
      PROVE  /\ Closed(r) \in Managers
             /\ Closed(r).tab = r.tab /\ Closed(r).call = r.call
             /\ Closed(r).phase = r.phase /\ Closed(r).far = r.far
             /\ Closed(r).second = r.second
             /\ Closed(r).sub = FALSE
             /\ Closed(r).doomed <=> (r.doomed \/ r.phase = "init")
             /\ Closed(r).pc = IF r.pc \in LivePc THEN "closed" ELSE r.pc
  <2>1. PICK b, c : /\ b = (r.doomed \/ r.phase = "init")
                    /\ c = IF r.pc \in LivePc THEN "closed" ELSE r.pc
    OBVIOUS
  <2>2. b \in BOOLEAN /\ c \in LivePc \cup {"none", "closed"}
    BY <2>1 DEF Managers
  <2>3. Closed(r) = [r EXCEPT !.sub = FALSE, !.doomed = b, !.pc = c]
    BY <2>1 DEF Closed
  <2>4. /\ Closed(r) \in Managers
        /\ Closed(r).tab = r.tab /\ Closed(r).call = r.call
        /\ Closed(r).phase = r.phase /\ Closed(r).far = r.far
        /\ Closed(r).second = r.second
        /\ Closed(r).sub = FALSE /\ Closed(r).doomed = b /\ Closed(r).pc = c
    BY <2>2, <2>3 DEF Managers
  <2>5. QED
    BY <2>1, <2>4
<1>2. /\ d = [m \in DOMAIN mgrs |-> IF m \in S THEN Closed(mgrs[m]) ELSE mgrs[m]]
      /\ DOMAIN d = DOMAIN mgrs
  BY DEF Destroyed
<1>3. \A m \in DOMAIN mgrs : d[m] = IF m \in S THEN Closed(mgrs[m]) ELSE mgrs[m]
  BY <1>2
<1>4. \A m \in DOMAIN mgrs : mgrs[m] \in Managers /\ d[m] \in Managers
  BY <1>1, <1>3, Elements
<1>5. d \in [1..Len(mgrs) -> Managers]
  BY <1>2, <1>4, Elements
<1>6. d \in Seq(Managers)
  BY <1>5, Elements, SeqDef
<1>7. Len(d) = Len(mgrs)
  BY <1>2, <1>6, Elements, LenProperties
<1>8. ASSUME NEW m \in DOMAIN mgrs
      PROVE  (m \notin S => d[m] = mgrs[m]) /\ (m \in S => IsClosed(m, d[m]))
  <2>1. CASE m \in S
    <3>1. PICK r \in Managers : r = mgrs[m]
      BY <1>4
    <3>2. d[m] = Closed(r)
      BY <1>3, <2>1, <3>1
    <3>3. IsLive(m) <=> r.pc \in LivePc
      BY <3>1 DEF IsLive
    <3>4. /\ Closed(r).tab = mgrs[m].tab /\ Closed(r).call = mgrs[m].call
          /\ Closed(r).phase = mgrs[m].phase /\ Closed(r).far = mgrs[m].far
          /\ Closed(r).second = mgrs[m].second
          /\ Closed(r).sub = FALSE
      BY <1>1, <3>1
    <3>5. Closed(r).doomed <=> (mgrs[m].doomed \/ mgrs[m].phase = "init")
      BY <1>1, <3>1, Zenon
    <3>6. Closed(r).pc = IF IsLive(m) THEN "closed" ELSE mgrs[m].pc
      BY <1>1, <3>1, <3>3
    <3>7. IsClosed(m, Closed(r))
      BY <3>4, <3>5, <3>6 DEF IsClosed
    <3>8. QED
      BY <2>1, <3>2, <3>7
  <2>2. CASE m \notin S
    BY <1>3, <2>2
  <2>3. QED
    BY <2>1, <2>2
<1>9. QED
  BY <1>2, <1>6, <1>7, <1>8

\* Taking the first frame from a wire.
LEMMA TakenFrames ==
  ASSUME TypeOK, NEW u \in Tabs, NEW t \in Tabs, <<u, t>> \in Pairs,
         wire[<<u, t>>] # << >>, NEW v, v = Taken(u, t)
  PROVE  /\ v \in [Pairs -> Seq(Frames)]
         /\ \A p \in Pairs : p # <<u, t>> => v[p] = wire[p]
         /\ 1 \in DOMAIN wire[<<u, t>>]
         /\ Head1(u, t) = wire[<<u, t>>][1] /\ Head1(u, t) \in Frames
         /\ Len(wire[<<u, t>>]) = Len(v[<<u, t>>]) + 1
         /\ \A i \in DOMAIN v[<<u, t>>] :
              i + 1 \in DOMAIN wire[<<u, t>>] /\ v[<<u, t>>][i] = wire[<<u, t>>][i + 1]
         /\ \A i \in DOMAIN wire[<<u, t>>] :
              i # 1 => /\ i - 1 \in DOMAIN v[<<u, t>>]
                       /\ v[<<u, t>>][i - 1] = wire[<<u, t>>][i]
<1>1. PICK p \in Pairs : p = <<u, t>>
  OBVIOUS
<1>2. PICK s : s = wire[p]
  OBVIOUS
<1>3. wire \in [Pairs -> Seq(Frames)] /\ s \in Seq(Frames) /\ s # << >>
  BY <1>1, <1>2 DEF TypeOK
<1>4. v = [wire EXCEPT ![p] = Tail(s)]
  BY <1>1, <1>2 DEF Taken
<1>5. /\ Head(s) \in Frames /\ Tail(s) \in Seq(Frames)
      /\ Len(Tail(s)) = Len(s) - 1
      /\ \A i \in 1..Len(Tail(s)) : Tail(s)[i] = s[i + 1]
      /\ Len(s) \in Nat \ {0} /\ DOMAIN s = 1..Len(s)
  BY <1>3, HeadTailProperties, LenProperties, EmptySeq
<1>6. v[p] = Tail(s) /\ Len(v[p]) \in Nat /\ DOMAIN v[p] = 1..Len(v[p])
  BY <1>3, <1>4, <1>5, LenProperties
<1>7. v \in [Pairs -> Seq(Frames)] /\ \A q \in Pairs : q # p => v[q] = wire[q]
  BY <1>3, <1>4, <1>5
<1>8. PICK n \in Nat : n = Len(v[p])
  BY <1>6
<1>9. DOMAIN s = 1..n + 1 /\ DOMAIN v[p] = 1..n /\ Len(s) = n + 1
  BY <1>5, <1>6, <1>8
<1>10. \A i \in 1..n : v[p][i] = s[i + 1]
  BY <1>5, <1>6, <1>8
<1>11. ASSUME NEW i \in 1..n + 1, i # 1 PROVE i - 1 \in 1..n /\ v[p][i - 1] = s[i]
  <2>1. PICK j \in 1..n : j = i - 1 /\ j + 1 = i
    BY <1>11
  <2>2. QED
    BY <1>10, <2>1
<1>12. \A i \in 1..n : i + 1 \in 1..n + 1
  OBVIOUS
<1>13. Head1(u, t) = s[1]
  BY <1>1, <1>2 DEF Head1
<1>14. s[1] = Head(s)
  BY DEF Head
<1>15. 1 \in DOMAIN wire[p] /\ Len(wire[p]) = Len(v[p]) + 1
  BY <1>2, <1>8, <1>9
<1>16. Head1(u, t) = wire[p][1] /\ Head1(u, t) \in Frames
  BY <1>2, <1>5, <1>13, <1>14
<1>17. /\ \A i \in DOMAIN v[p] : i + 1 \in DOMAIN wire[p] /\ v[p][i] = wire[p][i + 1]
       /\ \A i \in DOMAIN wire[p] :
            i # 1 => i - 1 \in DOMAIN v[p] /\ v[p][i - 1] = wire[p][i]
  BY <1>2, <1>9, <1>10, <1>11, <1>12
<1>18. QED
  BY <1>1, <1>7, <1>15, <1>16, <1>17

\* While no call is started and no manager made, the types are the same ...
LEMMA SameTypes ==
  ASSUME calls' = calls, Len(mgrs') = Len(mgrs)
  PROVE  Managers' = Managers /\ Frames' = Frames
BY DEF Managers, Frames

\* ... and they are wider then.
LEMMA WiderTypes ==
  ASSUME TypeOK, calls' \in Seq([from : Tabs, to : Users]), Len(calls) <= Len(calls'),
         Len(mgrs') \in Nat, Len(mgrs) <= Len(mgrs')
  PROVE  /\ mgrs \in Seq(Managers') /\ wire \in [Pairs -> Seq(Frames')]
         /\ DOMAIN calls \subseteq DOMAIN calls'
         /\ incoming \in [Tabs -> 0..Len(calls')] /\ active \in [Tabs -> 0..Len(calls')]
         /\ current \in [Tabs -> 0..Len(mgrs')]
<1>1. Len(calls') \in Nat /\ DOMAIN calls' = 1..Len(calls')
  BY LenProperties
<1>2. DOMAIN calls \subseteq DOMAIN calls'
  BY <1>1, Elements
<1>3. /\ \A n \in 0..Len(mgrs) : n \in 0..Len(mgrs')
      /\ \A n \in 0..Len(calls) : n \in 0..Len(calls')
  BY <1>1, Elements
<1>4. Managers \subseteq Managers' /\ Frames \subseteq Frames'
  BY <1>2, <1>3 DEF Managers, Frames
<1>5. mgrs \in Seq(Managers')
  BY <1>4, SeqMonotonic DEF TypeOK
<1>6. wire \in [Pairs -> Seq(Frames')]
  <2>1. \A p \in Pairs : wire[p] \in Seq(Frames')
    BY <1>4, Elements, SeqMonotonic
  <2>2. QED
    BY <2>1 DEF TypeOK
<1>7. QED
  BY <1>2, <1>3, <1>5, <1>6 DEF TypeOK

\* A new manager is the last one, and has done nothing yet.
LEMMA NewManagerTypes ==
  ASSUME TypeOK, calls' \in Seq([from : Tabs, to : Users]), Len(calls) <= Len(calls'),
         NEW t \in Tabs, NEW c \in DOMAIN calls', NewManager(t, c)
  PROVE  /\ mgrs' \in Seq(Managers') /\ Len(mgrs') = Len(mgrs) + 1
         /\ DOMAIN mgrs' = DOMAIN mgrs \cup {Len(mgrs) + 1}
         /\ Len(mgrs) + 1 \notin DOMAIN mgrs
         /\ current' \in [Tabs -> 0..Len(mgrs')]
         /\ \A m \in DOMAIN mgrs : mgrs'[m] = mgrs[m]
         /\ LET r == mgrs'[Len(mgrs) + 1]
            IN  /\ r.tab = t /\ r.call = c /\ r.phase = "init" /\ r.sub = FALSE
                /\ r.pc = "none" /\ r.far = 0 /\ r.doomed = FALSE
                /\ r.second <=> \E n \in DOMAIN mgrs : mgrs[n].tab = t /\ AtWork(n)
<1> DEFINE b == \E n \in DOMAIN mgrs : mgrs[n].tab = t /\ AtWork(n)
           r == [tab |-> t, call |-> c, phase |-> "init", sub |-> FALSE,
                 pc |-> "none", far |-> 0, doomed |-> FALSE, second |-> b]
<1>1. /\ mgrs' = Append(mgrs, r)
      /\ current' = [current EXCEPT ![t] = Len(mgrs) + 1]
  BY DEF NewManager
<1>2. b \in BOOLEAN
  OBVIOUS
<1>3. /\ r.tab = t /\ r.call = c /\ r.phase = "init" /\ r.sub = FALSE
      /\ r.pc = "none" /\ r.far = 0 /\ r.doomed = FALSE /\ r.second = b
      /\ r = [tab |-> t, call |-> c, phase |-> "init", sub |-> FALSE,
              pc |-> "none", far |-> 0, doomed |-> FALSE, second |-> b]
  OBVIOUS
<1> HIDE DEF b, r
<1>4. Len(mgrs') = Len(mgrs) + 1 /\ Len(mgrs') \in Nat /\ Len(mgrs) \in Nat
  <2>1. mgrs \in Seq(Managers \cup {r})
    BY SeqMonotonic DEF TypeOK
  <2>2. QED
    BY <1>1, <2>1, AppendProperties, LenProperties
<1>5. mgrs \in Seq(Managers')
  BY <1>4, WiderTypes
<1>6. r \in Managers'
  BY <1>2, <1>3, <1>4 DEF Managers
<1>7. /\ mgrs' \in Seq(Managers')
      /\ \A m \in 1..Len(mgrs) : mgrs'[m] = mgrs[m]
      /\ mgrs'[Len(mgrs) + 1] = r
  <2>1. PICK T : T = Managers'
    OBVIOUS
  <2>2. mgrs \in Seq(T) /\ r \in T
    BY <1>5, <1>6, <2>1
  <2>3. QED
    BY <1>1, <2>1, <2>2, AppendProperties
<1>8. DOMAIN mgrs = 1..Len(mgrs) /\ DOMAIN mgrs' = 1..Len(mgrs) + 1
  BY <1>4, <1>7, Elements, LenProperties
<1>9. DOMAIN mgrs' = DOMAIN mgrs \cup {Len(mgrs) + 1} /\ Len(mgrs) + 1 \notin DOMAIN mgrs
  BY <1>4, <1>8
<1>10. current' \in [Tabs -> 0..Len(mgrs')]
  BY <1>1, <1>4 DEF TypeOK
<1>11. /\ mgrs'[Len(mgrs) + 1].tab = t /\ mgrs'[Len(mgrs) + 1].call = c
       /\ mgrs'[Len(mgrs) + 1].phase = "init" /\ mgrs'[Len(mgrs) + 1].sub = FALSE
       /\ mgrs'[Len(mgrs) + 1].pc = "none" /\ mgrs'[Len(mgrs) + 1].far = 0
       /\ mgrs'[Len(mgrs) + 1].doomed = FALSE
  BY <1>3, <1>7
<1>12. mgrs'[Len(mgrs) + 1].second <=> \E n \in DOMAIN mgrs : mgrs[n].tab = t /\ AtWork(n)
  <2>1. mgrs'[Len(mgrs) + 1].second = b
    BY <1>3, <1>7
  <2>2. QED
    BY <2>1 DEF b
<1>13. QED
  BY <1>4, <1>7, <1>8, <1>9, <1>10, <1>11, <1>12

\* One manager changes.
LEMMA OneManagerChanges ==
  ASSUME TypeOK, NEW m \in DOMAIN mgrs, NEW r \in Managers, NEW v, v = [mgrs EXCEPT ![m] = r]
  PROVE  /\ v \in Seq(Managers) /\ Len(v) = Len(mgrs) /\ DOMAIN v = DOMAIN mgrs
         /\ v[m] = r /\ \A n \in DOMAIN mgrs : n # m => v[n] = mgrs[n]
<1>1. mgrs \in Seq(Managers) /\ m \in 1..Len(mgrs)
  BY Elements DEF TypeOK
<1>2. v \in Seq(Managers) /\ Len(v) = Len(mgrs)
  BY <1>1, ExceptSeq
<1>3. QED
  BY <1>2

----------------------------------------------------------------------------
\* What each action does to the managers.

\* Of all managers, only m changes: its phase, its subscription, its connection.
Works(m, stage, sub, pc) ==
  /\ mgrs' \in Seq(Managers) /\ Len(mgrs') = Len(mgrs) /\ DOMAIN mgrs' = DOMAIN mgrs
  /\ \A n \in DOMAIN mgrs : n # m => mgrs'[n] = mgrs[n]
  /\ mgrs'[m].tab = mgrs[m].tab /\ mgrs'[m].call = mgrs[m].call
  /\ mgrs'[m].far = mgrs[m].far
  /\ mgrs'[m].doomed = mgrs[m].doomed /\ mgrs'[m].second = mgrs[m].second
  /\ mgrs'[m].phase = stage /\ mgrs'[m].sub = sub /\ mgrs'[m].pc = pc

LEMMA ManagerWorks ==
  ASSUME TypeOK, NEW m \in DOMAIN mgrs, NEW stage \in {"init", "setup", "done"},
         NEW sub \in BOOLEAN, NEW pc \in LivePc \cup {"none", "closed"},
         mgrs' = [mgrs EXCEPT ![m] = [mgrs[m] EXCEPT !.phase = stage, !.sub = sub, !.pc = pc]]
  PROVE  Works(m, stage, sub, pc)
<1>1. PICK old \in Managers : old = mgrs[m]
  BY Elements
<1>2. PICK r : r = [old EXCEPT !.phase = stage, !.sub = sub, !.pc = pc]
  OBVIOUS
<1>3. /\ r \in Managers /\ r.tab = old.tab /\ r.call = old.call /\ r.far = old.far
      /\ r.doomed = old.doomed /\ r.second = old.second
      /\ r.phase = stage /\ r.sub = sub /\ r.pc = pc
  BY <1>1, <1>2 DEF Managers
<1>4. PICK v : v = [mgrs EXCEPT ![m] = r]
  OBVIOUS
<1>5. mgrs' = v
  BY <1>1, <1>2, <1>4
<1>6. /\ v \in Seq(Managers) /\ Len(v) = Len(mgrs) /\ DOMAIN v = DOMAIN mgrs
      /\ v[m] = r /\ \A n \in DOMAIN mgrs : n # m => v[n] = mgrs[n]
  <2>1. r \in Managers
    BY <1>3
  <2>2. QED
    BY <1>4, <2>1, OneManagerChanges
<1>7. QED
  BY <1>1, <1>3, <1>5, <1>6 DEF Works

\* The steps of a manager's script.
LEMMA ScriptSteps ==
  ASSUME TypeOK, NEW m \in DOMAIN mgrs
  PROVE  /\ InitDone(m) => Works(m, "setup", TRUE, "new")
         /\ InitFails(m) \/ SetupFails(m) => Works(m, "done", mgrs[m].sub, mgrs[m].pc)
         /\ \A state \in LivePc : Ready(m, state) => Works(m, "done", mgrs[m].sub, state)
<1>1. PICK old \in Managers : old = mgrs[m]
  BY Elements
<1>2. old.phase \in {"init", "setup", "done"} /\ old.sub \in BOOLEAN
      /\ old.pc \in LivePc \cup {"none", "closed"}
  BY <1>1 DEF Managers
<1>3. ASSUME InitDone(m) PROVE Works(m, "setup", TRUE, "new")
  <2>1. mgrs' = [mgrs EXCEPT ![m] =
                   [mgrs[m] EXCEPT !.phase = "setup", !.sub = TRUE, !.pc = "new"]]
    BY <1>3 DEF InitDone
  <2>2. "new" \in LivePc \cup {"none", "closed"}
    BY DEF LivePc
  <2>3. QED
    BY <2>1, <2>2, ManagerWorks, Zenon
<1>4. ASSUME InitFails(m) \/ SetupFails(m) PROVE Works(m, "done", mgrs[m].sub, mgrs[m].pc)
  <2>1. [old EXCEPT !.phase = "done"]
          = [old EXCEPT !.phase = "done", !.sub = old.sub, !.pc = old.pc]
    BY <1>1 DEF Managers
  <2>2. mgrs' = [mgrs EXCEPT ![m] = [old EXCEPT !.phase = "done"]]
    BY <1>1, <1>4 DEF InitFails, SetupFails
  <2>3. mgrs' = [mgrs EXCEPT ![m] =
          [mgrs[m] EXCEPT !.phase = "done", !.sub = mgrs[m].sub, !.pc = mgrs[m].pc]]
    BY <1>1, <2>1, <2>2
  <2>4. QED
    BY <1>1, <1>2, <2>3, ManagerWorks, Zenon
<1>5. ASSUME NEW state \in LivePc, Ready(m, state)
      PROVE  Works(m, "done", mgrs[m].sub, state)
  <2>1. [old EXCEPT !.phase = "done", !.pc = state]
          = [old EXCEPT !.phase = "done", !.sub = old.sub, !.pc = state]
    BY <1>1 DEF Managers
  <2>2. mgrs' = [mgrs EXCEPT ![m] = [old EXCEPT !.phase = "done", !.pc = state]]
    BY <1>1, <1>5 DEF Ready
  <2>3. mgrs' = [mgrs EXCEPT ![m] =
          [mgrs[m] EXCEPT !.phase = "done", !.sub = mgrs[m].sub, !.pc = state]]
    BY <1>1, <2>1, <2>2
  <2>4. QED
    BY <1>1, <1>2, <2>3, ManagerWorks, Zenon
<1>6. QED
  BY <1>3, <1>4, <1>5

\* An answer joins the managers that wait for it.
LEMMA AnswerSteps ==
  ASSUME TypeOK, NEW u \in Tabs, NEW t \in Tabs, <<u, t>> \in Pairs, ReceiveAnswer(u, t)
  PROVE  /\ mgrs' \in Seq(Managers) /\ Len(mgrs') = Len(mgrs) /\ DOMAIN mgrs' = DOMAIN mgrs
         /\ \A n \in DOMAIN mgrs :
              \/ /\ mgrs'[n] = mgrs[n]
                 /\ ~ /\ mgrs[n].tab = t /\ mgrs[n].sub /\ Remote(n) = Owner[u]
                      /\ mgrs[n].call = Head1(u, t).call /\ mgrs[n].pc = "offered"
              \/ /\ mgrs'[n].tab = mgrs[n].tab /\ mgrs'[n].call = mgrs[n].call
                 /\ mgrs'[n].phase = mgrs[n].phase /\ mgrs'[n].sub = mgrs[n].sub
                 /\ mgrs'[n].doomed = mgrs[n].doomed /\ mgrs'[n].second = mgrs[n].second
                 /\ mgrs'[n].pc = "stable" /\ mgrs'[n].far = Head1(u, t).sdp
                 /\ mgrs[n].tab = t /\ Remote(n) = Owner[u]
                 /\ mgrs[n].call = Head1(u, t).call /\ mgrs[n].pc = "offered"
<1> DEFINE f == Head1(u, t)
           S == {m \in Listening(t) : /\ Remote(m) = Owner[u] /\ Takes(m, f)
                                      /\ mgrs[m].pc = "offered"}
           j(m) == Joined(mgrs[m], f.sdp)
<1>1. f \in Frames
  <2>1. wire[<<u, t>>] # << >>
    BY DEF ReceiveAnswer, Arrives
  <2>2. PICK v : v = Taken(u, t)
    OBVIOUS
  <2>3. QED
    BY <2>1, <2>2, TakenFrames
<1>2. mgrs' = [m \in DOMAIN mgrs |-> IF m \in S THEN j(m) ELSE mgrs[m]]
  BY DEF ReceiveAnswer
<1>3. ASSUME NEW n \in DOMAIN mgrs
      PROVE  /\ j(n) \in Managers
             /\ j(n).tab = mgrs[n].tab /\ j(n).call = mgrs[n].call
             /\ j(n).phase = mgrs[n].phase /\ j(n).sub = mgrs[n].sub
             /\ j(n).doomed = mgrs[n].doomed /\ j(n).second = mgrs[n].second
             /\ j(n).pc = "stable" /\ j(n).far = f.sdp
  <2>1. PICK old \in Managers : old = mgrs[n]
    BY Elements
  <2>2. PICK d \in 0..Len(mgrs) : d = f.sdp
    BY <1>1 DEF Frames
  <2>3. j(n) = [old EXCEPT !.pc = "stable", !.far = d]
    BY <2>1, <2>2 DEF Joined
  <2> HIDE DEF j
  <2>4. QED
    BY <2>1, <2>2, <2>3 DEF Managers, LivePc
<1>4. \A n \in S : /\ n \in DOMAIN mgrs /\ mgrs[n].tab = t /\ Remote(n) = Owner[u]
                   /\ mgrs[n].call = f.call /\ mgrs[n].pc = "offered"
  BY DEF Listening, Takes
<1>5. \A n \in DOMAIN mgrs : n \notin S =>
        ~ /\ mgrs[n].tab = t /\ mgrs[n].sub /\ Remote(n) = Owner[u]
          /\ mgrs[n].call = f.call /\ mgrs[n].pc = "offered"
  BY DEF Listening, Takes
<1> HIDE DEF S, j, f
<1>6. /\ DOMAIN mgrs' = DOMAIN mgrs
      /\ \A n \in DOMAIN mgrs : mgrs'[n] = IF n \in S THEN j(n) ELSE mgrs[n]
  BY <1>2
<1>7. \A n \in DOMAIN mgrs : mgrs'[n] \in Managers
  BY <1>3, <1>6, Elements
<1>8. mgrs' \in [1..Len(mgrs) -> Managers]
  BY <1>2, <1>6, <1>7, Elements
<1>9. mgrs' \in Seq(Managers)
  BY <1>8, Elements, SeqDef
<1>10. Len(mgrs') = Len(mgrs)
  BY <1>6, <1>9, Elements, LenProperties
<1>11. ASSUME NEW n \in DOMAIN mgrs
       PROVE  \/ /\ mgrs'[n] = mgrs[n]
                 /\ ~ /\ mgrs[n].tab = t /\ mgrs[n].sub /\ Remote(n) = Owner[u]
                      /\ mgrs[n].call = f.call /\ mgrs[n].pc = "offered"
              \/ /\ mgrs'[n].tab = mgrs[n].tab /\ mgrs'[n].call = mgrs[n].call
                 /\ mgrs'[n].phase = mgrs[n].phase /\ mgrs'[n].sub = mgrs[n].sub
                 /\ mgrs'[n].doomed = mgrs[n].doomed /\ mgrs'[n].second = mgrs[n].second
                 /\ mgrs'[n].pc = "stable" /\ mgrs'[n].far = f.sdp
                 /\ mgrs[n].tab = t /\ Remote(n) = Owner[u]
                 /\ mgrs[n].call = f.call /\ mgrs[n].pc = "offered"
  <2>1. CASE n \in S
    BY <1>3, <1>4, <1>6, <2>1
  <2>2. CASE n \notin S
    BY <1>5, <1>6, <2>2
  <2>3. QED
    BY <2>1, <2>2
<1>12. QED
  BY <1>6, <1>9, <1>10, <1>11 DEF f

\* A reload leaves nothing of the managers of its page.
LEMMA ReloadSteps ==
  ASSUME TypeOK, NEW t \in Tabs, Reload(t)
  PROVE  /\ mgrs' \in Seq(Managers) /\ Len(mgrs') = Len(mgrs) /\ DOMAIN mgrs' = DOMAIN mgrs
         /\ \A n \in DOMAIN mgrs :
              /\ mgrs'[n].tab = mgrs[n].tab /\ mgrs'[n].call = mgrs[n].call
              /\ mgrs'[n].far = mgrs[n].far
              /\ mgrs'[n].doomed = mgrs[n].doomed /\ mgrs'[n].second = mgrs[n].second
              /\ mgrs[n].tab # t => mgrs'[n] = mgrs[n]
              /\ mgrs[n].tab = t => /\ mgrs'[n].phase = "done" /\ mgrs'[n].sub = FALSE
                                    /\ mgrs'[n].pc = "closed"
<1> DEFINE j(m) == Gone(mgrs[m])
<1>1. mgrs' = [m \in DOMAIN mgrs |-> IF mgrs[m].tab = t THEN j(m) ELSE mgrs[m]]
  BY DEF Reload
<1>2. ASSUME NEW n \in DOMAIN mgrs
      PROVE  /\ j(n) \in Managers
             /\ j(n).tab = mgrs[n].tab /\ j(n).call = mgrs[n].call /\ j(n).far = mgrs[n].far
             /\ j(n).doomed = mgrs[n].doomed /\ j(n).second = mgrs[n].second
             /\ j(n).phase = "done" /\ j(n).sub = FALSE /\ j(n).pc = "closed"
  <2>1. PICK old \in Managers : old = mgrs[n]
    BY Elements
  <2>2. j(n) = [old EXCEPT !.phase = "done", !.sub = FALSE, !.pc = "closed"]
    BY <2>1 DEF Gone
  <2> HIDE DEF j
  <2>3. QED
    BY <2>1, <2>2 DEF Managers
<1> HIDE DEF j
<1>3. /\ DOMAIN mgrs' = DOMAIN mgrs
      /\ \A n \in DOMAIN mgrs : mgrs'[n] = IF mgrs[n].tab = t THEN j(n) ELSE mgrs[n]
  BY <1>1
<1>4. \A n \in DOMAIN mgrs : mgrs'[n] \in Managers
  BY <1>2, <1>3, Elements
<1>5. mgrs' \in [1..Len(mgrs) -> Managers]
  BY <1>1, <1>3, <1>4, Elements
<1>6. mgrs' \in Seq(Managers)
  BY <1>5, Elements, SeqDef
<1>7. Len(mgrs') = Len(mgrs)
  BY <1>3, <1>6, Elements, LenProperties
<1>8. ASSUME NEW n \in DOMAIN mgrs
      PROVE  /\ mgrs'[n].tab = mgrs[n].tab /\ mgrs'[n].call = mgrs[n].call
             /\ mgrs'[n].far = mgrs[n].far
             /\ mgrs'[n].doomed = mgrs[n].doomed /\ mgrs'[n].second = mgrs[n].second
             /\ mgrs[n].tab # t => mgrs'[n] = mgrs[n]
             /\ mgrs[n].tab = t => /\ mgrs'[n].phase = "done" /\ mgrs'[n].sub = FALSE
                                   /\ mgrs'[n].pc = "closed"
  <2>1. CASE mgrs[n].tab = t
    <3>1. PICK r : r = j(n)
      OBVIOUS
    <3>2. mgrs'[n] = r
      BY <1>3, <2>1, <3>1
    <3>3. QED
      BY <1>2, <2>1, <3>1, <3>2
  <2>2. CASE mgrs[n].tab # t
    BY <1>3, <2>2
  <2>3. QED
    BY <2>1, <2>2
<1>9. QED
  BY <1>3, <1>6, <1>7, <1>8

\* What a step that starts no call and makes no manager has to keep.
LEMMA TypesKept ==
  ASSUME TypeOK, UNCHANGED calls, Len(mgrs') = Len(mgrs), mgrs' \in Seq(Managers),
         wire' \in [Pairs -> Seq(Frames)],
         incoming' \in [Tabs -> 0..Len(calls)], active' \in [Tabs -> 0..Len(calls)],
         current' \in [Tabs -> 0..Len(mgrs)],
         up' \subseteq Tabs, faults' \in 0..MaxFaults,
         lost' \cup unheard' \cup crossed' \subseteq DOMAIN calls
  PROVE  TypeOK'
<1>1. Managers' = Managers /\ Frames' = Frames
  BY SameTypes
<1>2. calls' = calls /\ calls \in Seq([from : Tabs, to : Users])
  BY DEF TypeOK
<1>3. QED
  BY <1>1, <1>2 DEF TypeOK

\* The buttons keep the types ...
LEMMA ButtonTypes ==
  ASSUME TypeOK, NEW t \in Tabs, Buttons(t)
  PROVE  TypeOK'
<1> DEFINE bodies == /\ \A c \in DOMAIN calls : c \in 0..Len(calls)
                     /\ 0 \in 0..Len(calls) /\ 0 \in 0..Len(mgrs)
<1>0. bodies
  BY Elements
<1> HIDE DEF bodies
<1>1. ASSUME NEW u \in Users, StartCall(t, u) PROVE TypeOK'
  <2>1. /\ calls' \in Seq([from : Tabs, to : Users]) /\ Len(calls') = Len(calls) + 1
        /\ Len(calls) \in Nat /\ DOMAIN calls' = 1..Len(calls) + 1
    <3>1. PICK r : r = [from |-> t, to |-> u]
      OBVIOUS
    <3>2. r \in [from : Tabs, to : Users] /\ calls' = Append(calls, r)
      BY <1>1, <3>1 DEF StartCall
    <3>3. /\ Append(calls, r) \in Seq([from : Tabs, to : Users])
          /\ Len(Append(calls, r)) = Len(calls) + 1 /\ Len(calls) \in Nat
      BY <3>2, AppendProperties, LenProperties DEF TypeOK
    <3>4. DOMAIN calls' = 1..Len(calls')
      BY <3>2, <3>3, LenProperties
    <3>5. QED
      BY <3>2, <3>3, <3>4
  <2>2. Len(calls) + 1 \in DOMAIN calls' /\ Len(calls) <= Len(calls')
    BY <2>1
  <2>3. /\ mgrs' \in Seq(Managers') /\ current' \in [Tabs -> 0..Len(mgrs')]
        /\ Len(mgrs') \in Nat /\ Len(mgrs) <= Len(mgrs')
    <3>1. CASE current[t] = 0
      <4>1. NewManager(t, Len(calls) + 1)
        BY <1>1, <3>1 DEF StartCall
      <4>2. /\ mgrs' \in Seq(Managers') /\ Len(mgrs') = Len(mgrs) + 1
            /\ current' \in [Tabs -> 0..Len(mgrs')]
        BY <2>1, <2>2, <4>1, NewManagerTypes
      <4>3. QED
        BY <4>2, Elements
    <3>2. CASE current[t] # 0
      <4>1. mgrs' = mgrs /\ current' = current
        BY <1>1, <3>2 DEF StartCall
      <4>2. Len(mgrs') \in Nat /\ Len(mgrs) <= Len(mgrs')
        BY <4>1, Elements
      <4>3. QED
        BY <2>1, <2>2, <4>1, <4>2, WiderTypes
    <3>3. QED
      BY <3>1, <3>2
  <2>4. /\ wire \in [Pairs -> Seq(Frames')] /\ DOMAIN calls \subseteq DOMAIN calls'
        /\ incoming \in [Tabs -> 0..Len(calls')] /\ active \in [Tabs -> 0..Len(calls')]
    BY <2>1, <2>2, <2>3, WiderTypes
  <2>5. /\ incoming' = incoming /\ wire' = wire /\ up' = up /\ faults' = faults
        /\ lost' = lost /\ unheard' = unheard /\ crossed' = crossed
        /\ active' = [active EXCEPT ![t] = Len(calls) + 1]
    BY <1>1 DEF StartCall
  <2>6. active' \in [Tabs -> 0..Len(calls')]
    BY <2>1, <2>4, <2>5
  <2>7. lost \cup unheard \cup crossed \subseteq DOMAIN calls'
    BY <2>4 DEF TypeOK
  <2>8. up \subseteq Tabs /\ faults \in 0..MaxFaults
    BY DEF TypeOK
  <2>9. QED
    BY <2>1, <2>3, <2>4, <2>5, <2>6, <2>7, <2>8 DEF TypeOK
<1>2. ASSUME Accept(t) PROVE TypeOK'
  <2>1. /\ UNCHANGED <<calls, incoming, active, wire, up, faults, lost, unheard, crossed>>
        /\ incoming[t] # 0 /\ NewManager(t, incoming[t])
    BY <1>2 DEF Accept
  <2>2. calls' \in Seq([from : Tabs, to : Users]) /\ Len(calls) <= Len(calls')
    BY <2>1, Elements DEF TypeOK
  <2>3. incoming[t] \in DOMAIN calls'
    BY <2>1, Elements DEF TypeOK
  <2>4. /\ mgrs' \in Seq(Managers') /\ Len(mgrs') = Len(mgrs) + 1
        /\ current' \in [Tabs -> 0..Len(mgrs')]
    BY <2>1, <2>2, <2>3, NewManagerTypes
  <2>5. Len(mgrs') \in Nat /\ Len(mgrs) <= Len(mgrs')
    BY <2>4, Elements
  <2>6. wire \in [Pairs -> Seq(Frames')]
    BY <2>2, <2>5, WiderTypes
  <2>7. QED
    BY <2>1, <2>4, <2>6 DEF TypeOK
<1>3. ASSUME Decline(t) PROVE TypeOK'
  <2>1. PICK f : f = Frame("call_hangup", incoming[t], Owner[Caller(incoming[t])], 0)
    OBVIOUS
  <2>2. f \in Frames
    <3>1. PICK c \in DOMAIN calls : c = incoming[t]
      BY <1>3, Elements DEF Decline, TypeOK
    <3>2. PICK o \in Users : o = Owner[Caller(c)]
      BY Ends
    <3>3. f = [type |-> "call_hangup", call |-> c, to |-> o, sdp |-> 0]
      BY <2>1, <3>1, <3>2 DEF Frame
    <3>4. QED
      BY <1>0, <3>3 DEF Frames, bodies
  <2>3. Send(t, {f}) /\ {f} \subseteq Frames /\ IsFiniteSet({f})
    BY <1>3, <2>1, <2>2, FS_Singleton DEF Decline
  <2>4. wire' \in [Pairs -> Seq(Frames)] /\ lost' \subseteq DOMAIN calls
    BY <2>3, SentTypes DEF Send, TypeOK
  <2>5. incoming' \in [Tabs -> 0..Len(calls)]
    BY <1>0, <1>3 DEF Decline, TypeOK, bodies
  <2>6. QED
    BY <1>3, <2>4, <2>5, TypesKept DEF Decline, TypeOK
<1>4. ASSUME End(t) PROVE TypeOK'
  <2>1. PICK S : S = {current[t]} \ {0}
    OBVIOUS
  <2>2. S \subseteq DOMAIN mgrs
    BY <2>1, Elements DEF TypeOK
  <2>3. Send(t, Goodbyes(S)) /\ mgrs' = Destroyed(S) /\ ClearScreen(t)
    BY <1>4, <2>1 DEF End
  <2>4. PICK F : F = Goodbyes(S)
    OBVIOUS
  <2>5. F \subseteq Frames /\ IsFiniteSet(F) /\ Send(t, F)
    BY <2>2, <2>3, <2>4, GoodbyesAreFrames
  <2>6. wire' \in [Pairs -> Seq(Frames)] /\ lost' \subseteq DOMAIN calls
    BY <2>5, SentTypes DEF Send, TypeOK
  <2>7. mgrs' \in Seq(Managers) /\ Len(mgrs') = Len(mgrs)
    <3>1. PICK d : d = Destroyed(S)
      OBVIOUS
    <3>2. QED
      BY <2>3, <3>1, DestroyedTypes
  <2>8. active' \in [Tabs -> 0..Len(calls)] /\ current' \in [Tabs -> 0..Len(mgrs)]
    BY <1>0, <2>3 DEF ClearScreen, TypeOK, bodies
  <2>9. QED
    BY <1>4, <2>6, <2>7, <2>8, TypesKept DEF End, TypeOK
<1>5. QED
  BY <1>1, <1>2, <1>3, <1>4 DEF Buttons

\* ... and so do the scripts of the managers, and their failures, ...
LEMMA ScriptTypes ==
  ASSUME TypeOK, NEW m \in DOMAIN mgrs, Script(m) \/ InitFails(m) \/ PeerFails(m)
  PROVE  TypeOK'
<1>1. PICK t \in Tabs, c \in DOMAIN calls : t = mgrs[m].tab /\ c = mgrs[m].call
  BY Ends
<1>2. /\ c \in 0..Len(calls) /\ 0 \in 0..Len(calls) /\ 0 \in 0..Len(mgrs)
      /\ m \in 0..Len(mgrs)
  BY Elements
<1>3. ASSUME InitDone(m) \/ SetupFails(m) \/ InitFails(m) PROVE TypeOK'
  <2>1. mgrs' \in Seq(Managers) /\ Len(mgrs') = Len(mgrs)
    BY <1>3, ScriptSteps DEF Works
  <2>2. UNCHANGED <<calls, incoming, active, current, wire, up, lost, unheard, crossed>>
    BY <1>3 DEF InitDone, SetupFails, InitFails, screen, history
  <2>3. faults' \in 0..MaxFaults
    <3>1. CASE InitDone(m) \/ SetupFails(m)
      BY <3>1 DEF InitDone, SetupFails, TypeOK
    <3>2. CASE InitFails(m)
      <4>1. faults \in 0..MaxFaults /\ faults < MaxFaults /\ faults' = faults + 1
        BY <3>2 DEF InitFails, TypeOK
      <4>2. QED
        BY <4>1, CallBounds
    <3>3. QED
      BY <1>3, <3>1, <3>2
  <2>4. QED
    BY <2>1, <2>2, <2>3, TypesKept DEF TypeOK
<1>4. ASSUME Offer(m) \/ Answer(m) PROVE TypeOK'
  <2>1. PICK state \in LivePc : Ready(m, state)
    BY <1>4 DEF Offer, Answer, LivePc
  <2>2. mgrs' \in Seq(Managers) /\ Len(mgrs') = Len(mgrs)
    BY <2>1, ScriptSteps DEF Works
  <2>3. /\ UNCHANGED <<calls, current, up, faults, crossed>>
        /\ active' = [active EXCEPT ![t] = c]
    BY <1>1, <2>1 DEF Ready
  <2>4. active' \in [Tabs -> 0..Len(calls)]
    BY <1>2, <2>3 DEF TypeOK
  <2>5. PICK f \in Frames : Send(t, {f})
    <3>1. CASE Offer(m)
      <4>1. Frame("webrtc_offer", c, Callee(c), m) \in Frames
        BY <1>2, Ends DEF Frame, Frames
      <4>2. Send(t, {Frame("webrtc_offer", c, Callee(c), m)})
        BY <1>1, <3>1 DEF Offer
      <4>3. QED
        BY <4>1, <4>2
    <3>2. CASE Answer(m)
      <4>1. Frame("webrtc_answer", c, Owner[Caller(c)], m) \in Frames
        BY <1>2, Ends DEF Frame, Frames
      <4>2. Send(t, {Frame("webrtc_answer", c, Owner[Caller(c)], m)})
        BY <1>1, <3>2 DEF Answer
      <4>3. QED
        BY <4>1, <4>2
    <3>3. QED
      BY <1>4, <3>1, <3>2
  <2>6. wire' \in [Pairs -> Seq(Frames)] /\ lost' \subseteq DOMAIN calls
    <3>1. {f} \subseteq Frames /\ IsFiniteSet({f})
      BY FS_Singleton
    <3>2. QED
      BY <2>5, <3>1, SentTypes DEF Send, TypeOK
  <2>7. /\ incoming' \in [Tabs -> 0..Len(calls)]
        /\ unheard' \subseteq DOMAIN calls
    <3>1. CASE Offer(m)
      BY <3>1 DEF Offer, TypeOK
    <3>2. CASE Answer(m)
      <4>1. /\ incoming' = [incoming EXCEPT ![t] = 0]
            /\ unheard' = unheard \cup ({incoming[t]} \ {0, c})
        BY <1>1, <3>2 DEF Answer
      <4>2. {incoming[t]} \ {0, c} \subseteq DOMAIN calls
        BY Elements DEF TypeOK
      <4>3. QED
        BY <1>2, <4>1, <4>2 DEF TypeOK
    <3>3. QED
      BY <1>4, <3>1, <3>2
  <2>8. QED
    BY <2>2, <2>3, <2>4, <2>6, <2>7, TypesKept DEF TypeOK
<1>5. ASSUME PeerFails(m) PROVE TypeOK'
  <2>1. PICK S : S = {m}
    OBVIOUS
  <2>2. Send(t, Goodbyes(S)) /\ mgrs' = Destroyed(S) /\ ClearScreen(t)
    BY <1>1, <1>5, <2>1 DEF PeerFails
  <2>3. PICK F : F = Goodbyes(S)
    OBVIOUS
  <2>4. F \subseteq Frames /\ IsFiniteSet(F) /\ Send(t, F)
    BY <2>1, <2>2, <2>3, GoodbyesAreFrames
  <2>5. wire' \in [Pairs -> Seq(Frames)] /\ lost' \subseteq DOMAIN calls
    BY <2>4, SentTypes DEF Send, TypeOK
  <2>6. mgrs' \in Seq(Managers) /\ Len(mgrs') = Len(mgrs)
    <3>1. PICK d : d = Destroyed(S)
      OBVIOUS
    <3>2. QED
      BY <2>2, <3>1, DestroyedTypes
  <2>7. active' \in [Tabs -> 0..Len(calls)] /\ current' \in [Tabs -> 0..Len(mgrs)]
    BY <1>2, <2>2 DEF ClearScreen, TypeOK
  <2>8. QED
    BY <1>5, <2>5, <2>6, <2>7, TypesKept DEF PeerFails, TypeOK
<1>6. QED
  BY <1>3, <1>4, <1>5 DEF Script

\* ... what arrives, ...
LEMMA ReceiveTypes ==
  ASSUME TypeOK, NEW u \in Tabs, NEW t \in Tabs, <<u, t>> \in Pairs, Receive(u, t)
  PROVE  TypeOK'
<1>1. PICK w : w = Taken(u, t)
  OBVIOUS
<1>2. wire[<<u, t>>] # << >>
  BY DEF Receive, ReceiveOffer, ReceiveAnswer, ReceiveHangup, Arrives
<1>3. w \in [Pairs -> Seq(Frames)] /\ Head1(u, t) \in Frames
  BY <1>1, <1>2, TakenFrames
<1>4. PICK f \in Frames : f = Head1(u, t)
  BY <1>3
<1>5. /\ f.call \in 0..Len(calls) /\ f.call \in DOMAIN calls
      /\ 0 \in 0..Len(calls) /\ 0 \in 0..Len(mgrs)
  BY Elements DEF Frames
<1>6. ASSUME ReceiveOffer(u, t) PROVE TypeOK'
  <2>1. /\ incoming' = [incoming EXCEPT ![t] = f.call]
        /\ unheard' = unheard \cup ({incoming[t]} \ {0, f.call})
        /\ wire' = w
        /\ UNCHANGED <<calls, active, current, mgrs, up, faults, lost, crossed>>
    BY <1>1, <1>4, <1>6 DEF ReceiveOffer
  <2>2. {incoming[t]} \ {0, f.call} \subseteq DOMAIN calls
    BY Elements DEF TypeOK
  <2>3. QED
    BY <1>3, <1>5, <2>1, <2>2, TypesKept DEF TypeOK
<1>7. ASSUME ReceiveAnswer(u, t) PROVE TypeOK'
  <2>1. wire' = w /\ UNCHANGED <<calls, screen, up, faults, history>>
    BY <1>1, <1>7 DEF ReceiveAnswer
  <2>2. mgrs' \in Seq(Managers) /\ Len(mgrs') = Len(mgrs)
    BY <1>7, AnswerSteps
  <2>3. QED
    BY <1>3, <2>1, <2>2, TypesKept DEF TypeOK, screen, history
<1>8. ASSUME ReceiveHangup(u, t) PROVE TypeOK'
  <2>1. PICK S, quiet : /\ S = Listening(t)
                        /\ quiet = {m \in S : Remote(m) = Owner[u]}
    OBVIOUS
  <2>2. S \subseteq DOMAIN mgrs
    BY <2>1 DEF Listening
  <2>3. PICK F : F = Goodbyes(S \ quiet)
    OBVIOUS
  <2>4. F \subseteq Frames /\ IsFiniteSet(F)
    BY <2>2, <2>3, GoodbyesAreFrames
  <2>5. /\ StopRing(t, f.call)
        /\ mgrs' = Destroyed(S)
        /\ IF S = {} THEN UNCHANGED <<active, current>> ELSE ClearScreen(t)
        /\ wire' = Appended(w, t, F)
        /\ lost' = lost \cup MissedOf(t, F)
        /\ crossed' = crossed \cup
             {mgrs[m].call : m \in {n \in quiet : IsLive(n) /\ mgrs[n].call # f.call}}
        /\ UNCHANGED <<calls, up, faults, unheard>>
    BY <1>1, <1>4, <1>8, <2>1, <2>3 DEF ReceiveHangup
  <2>6. wire' \in [Pairs -> Seq(Frames)] /\ lost' \subseteq DOMAIN calls
    BY <1>3, <2>4, <2>5, SentTypes DEF TypeOK
  <2>7. mgrs' \in Seq(Managers) /\ Len(mgrs') = Len(mgrs)
    <3>1. PICK d : d = Destroyed(S)
      OBVIOUS
    <3>2. QED
      BY <2>5, <3>1, DestroyedTypes
  <2>8. active' \in [Tabs -> 0..Len(calls)] /\ current' \in [Tabs -> 0..Len(mgrs)]
    BY <1>5, <2>5 DEF ClearScreen, TypeOK
  <2>9. incoming' \in [Tabs -> 0..Len(calls)]
    BY <1>5, <2>5 DEF StopRing, TypeOK
  <2>10. crossed' \subseteq DOMAIN calls
    <3>1. PICK X : X = {mgrs[m].call : m \in {n \in quiet : IsLive(n) /\ mgrs[n].call # f.call}}
      OBVIOUS
    <3>2. X \subseteq DOMAIN calls
      BY <2>1, <2>2, <3>1, Ends
    <3>3. QED
      BY <2>5, <3>1, <3>2 DEF TypeOK
  <2>11. QED
    BY <2>5, <2>6, <2>7, <2>8, <2>9, <2>10, TypesKept DEF TypeOK
<1>9. QED
  BY <1>6, <1>7, <1>8 DEF Receive

\* ... and what happens to the tabs.
LEMMA EnvironmentTypes ==
  ASSUME TypeOK, Environment
  PROVE  TypeOK'
<1>1. PICK t \in Tabs : Drop(t) \/ Reload(t) \/ Reconnect(t)
  BY DEF Environment
<1>2. 0 \in 0..Len(calls) /\ 0 \in 0..Len(mgrs)
  BY Elements
<1>3. ASSUME Cut(t)
      PROVE  /\ wire' \in [Pairs -> Seq(Frames)] /\ up' \subseteq Tabs
             /\ faults' \in 0..MaxFaults
  <2>1. wire' \in [Pairs -> Seq(Frames)]
    <3>1. wire' = [p \in Pairs |-> IF p[2] = t THEN << >> ELSE wire[p]]
      BY <1>3 DEF Cut
    <3>2. \A p \in Pairs : (IF p[2] = t THEN << >> ELSE wire[p]) \in Seq(Frames)
      BY Elements, EmptySeq
    <3>3. QED
      BY <3>1, <3>2
  <2>2. QED
    BY <1>3, <2>1, CallBounds DEF Cut, TypeOK
<1>4. ASSUME Drop(t) PROVE TypeOK'
  <2>1. DrainedTo(t) \subseteq DOMAIN calls
    BY Elements DEF DrainedTo, Frames
  <2>2. /\ Cut(t) /\ lost' = lost \cup DrainedTo(t)
        /\ UNCHANGED <<calls, incoming, active, current, mgrs, unheard, crossed>>
    BY <1>4 DEF Drop, screen
  <2>3. QED
    BY <1>3, <2>1, <2>2, TypesKept DEF TypeOK
<1>5. ASSUME Reload(t) PROVE TypeOK'
  <2>1. Cut(t) /\ UNCHANGED <<calls, unheard, crossed>>
    BY <1>5 DEF Reload
  <2>2. lost' \subseteq DOMAIN calls
    BY <1>5 DEF Reload, TypeOK
  <2>3. /\ incoming' \in [Tabs -> 0..Len(calls)] /\ active' \in [Tabs -> 0..Len(calls)]
        /\ current' \in [Tabs -> 0..Len(mgrs)]
    BY <1>2, <1>5 DEF Reload, ClearScreen, TypeOK
  <2>4. mgrs' \in Seq(Managers) /\ Len(mgrs') = Len(mgrs)
    BY <1>5, ReloadSteps
  <2>5. QED
    BY <1>3, <2>1, <2>2, <2>3, <2>4, TypesKept DEF TypeOK
<1>6. ASSUME Reconnect(t) PROVE TypeOK'
  BY <1>6, TypesKept DEF Reconnect, TypeOK, screen, history
<1>7. QED
  BY <1>1, <1>4, <1>5, <1>6

LEMMA TypeStep ==
  ASSUME TypeOK, [Next]_vars
  PROVE  TypeOK'
<1>1. CASE UNCHANGED vars
  BY <1>1, TypesKept DEF vars, screen, history, TypeOK
<1>2. ASSUME NEW p \in Pairs, Receive(p[1], p[2]) PROVE TypeOK'
  <2>1. p[1] \in Tabs /\ p[2] \in Tabs /\ <<p[1], p[2]>> \in Pairs
    BY DEF Pairs
  <2>2. QED
    BY <1>2, <2>1, ReceiveTypes
<1>3. QED
  BY <1>1, <1>2, ButtonTypes, ScriptTypes, EnvironmentTypes DEF Next

----------------------------------------------------------------------------
\* What a step does to one manager.

\* Its script goes on.
Proceeds(m) ==
  \/ InitDone(m) /\ Works(m, "setup", TRUE, "new")
  \/ (InitFails(m) \/ SetupFails(m)) /\ Works(m, "done", mgrs[m].sub, mgrs[m].pc)
  \/ Offer(m) /\ Works(m, "done", mgrs[m].sub, "offered")
  \/ Answer(m) /\ Works(m, "done", mgrs[m].sub, "stable")

SamePerson(m) ==
  /\ mgrs'[m].tab = mgrs[m].tab /\ mgrs'[m].call = mgrs[m].call
  /\ mgrs'[m].second = mgrs[m].second

\* The answer that tab u sent joins it.
Joins(m, u) ==
  /\ <<u, mgrs[m].tab>> \in Pairs /\ ReceiveAnswer(u, mgrs[m].tab)
  /\ Remote(m) = Owner[u] /\ mgrs[m].call = Head1(u, mgrs[m].tab).call
  /\ mgrs[m].pc = "offered"
  /\ SamePerson(m) /\ mgrs'[m].doomed = mgrs[m].doomed
  /\ mgrs'[m].phase = mgrs[m].phase /\ mgrs'[m].sub = mgrs[m].sub
  /\ mgrs'[m].pc = "stable" /\ mgrs'[m].far = Head1(u, mgrs[m].tab).sdp

\* It is destroyed: the user ends, the other end hangs up, the connection fails.
IsDestroyed(m) ==
  /\ \/ \E t \in Tabs : End(t) /\ current[t] = m
     \/ \E p \in Pairs : ReceiveHangup(p[1], p[2]) /\ mgrs[m].tab = p[2] /\ mgrs[m].sub
     \/ PeerFails(m)
  /\ IsClosed(m, mgrs'[m])

IsReloaded(m) ==
  /\ Reload(mgrs[m].tab)
  /\ SamePerson(m) /\ mgrs'[m].far = mgrs[m].far /\ mgrs'[m].doomed = mgrs[m].doomed
  /\ mgrs'[m].phase = "done" /\ mgrs'[m].sub = FALSE /\ mgrs'[m].pc = "closed"

\* It was made, as the last one.
IsMade(m) ==
  /\ m = Len(mgrs) + 1
  /\ \E t \in Tabs :
      /\ \/ (\E u \in Users : StartCall(t, u)) /\ mgrs'[m].call = Len(calls) + 1
         \/ Accept(t) /\ mgrs'[m].call = incoming[t]
      /\ mgrs'[m].tab = t /\ mgrs'[m].phase = "init" /\ mgrs'[m].sub = FALSE
      /\ mgrs'[m].pc = "none" /\ mgrs'[m].far = 0 /\ mgrs'[m].doomed = FALSE
      /\ mgrs'[m].second <=> \E n \in DOMAIN mgrs : mgrs[n].tab = t /\ AtWork(n)
      /\ current' = [current EXCEPT ![t] = m]

\* Nothing else happens to the managers there are.
LEMMA ManagerSteps ==
  ASSUME TypeOK, [Next]_vars, NEW m \in DOMAIN mgrs
  PROVE  /\ m \in DOMAIN mgrs'
         /\ \/ mgrs'[m] = mgrs[m]
            \/ Proceeds(m)
            \/ \E u \in Tabs : Joins(m, u)
            \/ IsDestroyed(m)
            \/ IsReloaded(m)
<1> DEFINE Goal == /\ m \in DOMAIN mgrs'
                   /\ \/ mgrs'[m] = mgrs[m]
                      \/ Proceeds(m)
                      \/ \E u \in Tabs : Joins(m, u)
                      \/ IsDestroyed(m)
                      \/ IsReloaded(m)
<1>1. ASSUME mgrs' = mgrs PROVE Goal
  BY <1>1
<1>2. ASSUME NEW t \in Tabs, NEW c \in DOMAIN calls', NewManager(t, c),
             calls' \in Seq([from : Tabs, to : Users]), Len(calls) <= Len(calls')
      PROVE  Goal
  BY <1>2, NewManagerTypes
<1>3. ASSUME NEW t \in Tabs, NEW u \in Users, StartCall(t, u) PROVE Goal
  <2>1. CASE current[t] # 0
    BY <1>1, <1>3, <2>1 DEF StartCall
  <2>2. CASE current[t] = 0
    <3>1. PICK r \in [from : Tabs, to : Users] : r = [from |-> t, to |-> u]
      OBVIOUS
    <3>2. calls' = Append(calls, r) /\ NewManager(t, Len(calls) + 1)
      BY <1>3, <2>2, <3>1 DEF StartCall
    <3>3. /\ Append(calls, r) \in Seq([from : Tabs, to : Users])
          /\ Len(Append(calls, r)) = Len(calls) + 1 /\ Len(calls) \in Nat
      BY AppendProperties, LenProperties DEF TypeOK
    <3>4. DOMAIN calls' = 1..Len(calls')
      BY <3>2, <3>3, LenProperties
    <3>5. Len(calls) + 1 \in DOMAIN calls' /\ Len(calls) <= Len(calls')
      BY <3>2, <3>3, <3>4
    <3>6. QED
      BY <1>2, <3>2, <3>3, <3>5
  <2>3. QED
    BY <2>1, <2>2
<1>4. ASSUME NEW t \in Tabs, Accept(t) PROVE Goal
  <2>1. calls' = calls /\ incoming[t] \in DOMAIN calls /\ NewManager(t, incoming[t])
    BY <1>4, Elements DEF Accept, TypeOK
  <2>2. calls' \in Seq([from : Tabs, to : Users]) /\ Len(calls) <= Len(calls')
    BY <2>1, Elements DEF TypeOK
  <2>3. QED
    BY <1>2, <2>1, <2>2
<1>5. ASSUME NEW S, mgrs' = Destroyed(S),
             m \in S => \/ \E t \in Tabs : End(t) /\ current[t] = m
                        \/ \E p \in Pairs : /\ ReceiveHangup(p[1], p[2])
                                            /\ mgrs[m].tab = p[2] /\ mgrs[m].sub
                        \/ PeerFails(m)
      PROVE  Goal
  <2>1. PICK d : d = Destroyed(S)
    OBVIOUS
  <2>2. mgrs' = d
    BY <1>5, <2>1
  <2>3. /\ DOMAIN d = DOMAIN mgrs
        /\ m \notin S => d[m] = mgrs[m]
        /\ m \in S => IsClosed(m, d[m])
    BY <2>1, DestroyedTypes
  <2>4. CASE m \notin S
    BY <2>2, <2>3, <2>4
  <2>5. CASE m \in S
    <3>1. IsDestroyed(m)
      BY <1>5, <2>2, <2>3, <2>5 DEF IsDestroyed
    <3>2. QED
      BY <2>2, <2>3, <3>1
  <2>6. QED
    BY <2>4, <2>5
<1>6. ASSUME NEW t \in Tabs, End(t) PROVE Goal
  <2>1. mgrs' = Destroyed({current[t]} \ {0})
    BY <1>6 DEF End
  <2>2. m \in {current[t]} \ {0} => End(t) /\ current[t] = m
    BY <1>6
  <2>3. QED
    BY <1>5, <2>1, <2>2
<1>7. ASSUME NEW n \in DOMAIN mgrs, Script(n) \/ InitFails(n) PROVE Goal
  <2>1. CASE n = m
    <3>1. Proceeds(m)
      <4>1. "offered" \in LivePc /\ "stable" \in LivePc
        BY DEF LivePc
      <4>2. CASE InitDone(m)
        BY <4>2, ScriptSteps DEF Proceeds
      <4>3. CASE InitFails(m) \/ SetupFails(m)
        BY <4>3, ScriptSteps DEF Proceeds
      <4>4. CASE Offer(m)
        BY <4>1, <4>4, ScriptSteps DEF Proceeds, Offer
      <4>5. CASE Answer(m)
        BY <4>1, <4>5, ScriptSteps DEF Proceeds, Answer
      <4>6. QED
        BY <1>7, <2>1, <4>2, <4>3, <4>4, <4>5 DEF Script
    <3>2. DOMAIN mgrs' = DOMAIN mgrs
      BY <3>1 DEF Proceeds, Works
    <3>3. QED
      BY <3>1, <3>2
  <2>2. CASE n # m
    <3>1. \E stage, sub, pc : Works(n, stage, sub, pc)
      <4>1. CASE InitDone(n) \/ InitFails(n) \/ SetupFails(n)
        BY <4>1, ScriptSteps
      <4>2. CASE Offer(n) \/ Answer(n)
        <5>1. PICK state \in LivePc : Ready(n, state)
          BY <4>2 DEF Offer, Answer, LivePc
        <5>2. QED
          BY <5>1, ScriptSteps
      <4>3. QED
        BY <1>7, <4>1, <4>2 DEF Script
    <3>2. DOMAIN mgrs' = DOMAIN mgrs /\ mgrs'[m] = mgrs[m]
      BY <2>2, <3>1 DEF Works
    <3>3. QED
      BY <3>2
  <2>3. QED
    BY <2>1, <2>2
<1>8. ASSUME NEW n \in DOMAIN mgrs, PeerFails(n) PROVE Goal
  <2>1. mgrs' = Destroyed({n})
    BY <1>8 DEF PeerFails
  <2>2. QED
    BY <1>5, <1>8, <2>1
<1>9. ASSUME NEW p \in Pairs, Receive(p[1], p[2]) PROVE Goal
  <2>1. PICK u \in Tabs, t \in Tabs : u = p[1] /\ t = p[2] /\ <<u, t>> \in Pairs
    BY DEF Pairs
  <2>2. CASE ReceiveOffer(u, t)
    BY <1>1, <2>2 DEF ReceiveOffer
  <2>3. CASE ReceiveHangup(u, t)
    <3>1. mgrs' = Destroyed(Listening(t))
      BY <2>3 DEF ReceiveHangup
    <3>2. m \in Listening(t) => mgrs[m].tab = p[2] /\ mgrs[m].sub
      BY <2>1 DEF Listening
    <3>3. QED
      BY <1>5, <2>1, <2>3, <3>1, <3>2
  <2>4. CASE ReceiveAnswer(u, t)
    <3>1. DOMAIN mgrs' = DOMAIN mgrs
      BY <2>1, <2>4, AnswerSteps
    <3>2. mgrs'[m] = mgrs[m] \/ Joins(m, u)
      BY <2>1, <2>4, AnswerSteps DEF Joins, SamePerson
    <3>3. QED
      BY <3>1, <3>2
  <2>5. QED
    BY <1>9, <2>1, <2>2, <2>3, <2>4 DEF Receive
<1>10. ASSUME NEW t \in Tabs, Drop(t) \/ Reconnect(t) PROVE Goal
  BY <1>1, <1>10 DEF Drop, Reconnect
<1>11. ASSUME NEW t \in Tabs, Reload(t) PROVE Goal
  <2>1. CASE mgrs[m].tab = t
    <3>1. IsReloaded(m) /\ DOMAIN mgrs' = DOMAIN mgrs
      BY <1>11, <2>1, ReloadSteps DEF IsReloaded, SamePerson
    <3>2. QED
      BY <3>1
  <2>2. CASE mgrs[m].tab # t
    BY <1>11, <2>2, ReloadSteps
  <2>3. QED
    BY <2>1, <2>2
<1>12. ASSUME NEW t \in Tabs, Decline(t) PROVE Goal
  BY <1>1, <1>12 DEF Decline
<1>13. ASSUME UNCHANGED vars PROVE Goal
  BY <1>1, <1>13 DEF vars
<1> HIDE DEF Goal
<1>14. ASSUME NEW t \in Tabs, Buttons(t) PROVE Goal
  BY <1>3, <1>4, <1>6, <1>12, <1>14 DEF Buttons
<1>15. Goal
  BY <1>7, <1>8, <1>9, <1>10, <1>11, <1>13, <1>14 DEF Next, Environment
<1>16. QED
  BY <1>15 DEF Goal

\* A manager that a step finds afterwards and that was not there was made by it.
LEMMA MadeManagers ==
  ASSUME TypeOK, [Next]_vars, NEW m \in DOMAIN mgrs', m \notin DOMAIN mgrs
  PROVE  IsMade(m)
<1>1. ASSUME mgrs' = mgrs PROVE FALSE
  BY <1>1
<1>2. ASSUME NEW t \in Tabs, NEW c \in DOMAIN calls', NewManager(t, c),
             calls' \in Seq([from : Tabs, to : Users]), Len(calls) <= Len(calls')
      PROVE  /\ mgrs'[m].call = c
             /\ mgrs'[m].tab = t /\ mgrs'[m].phase = "init" /\ mgrs'[m].sub = FALSE
             /\ mgrs'[m].pc = "none" /\ mgrs'[m].far = 0 /\ mgrs'[m].doomed = FALSE
             /\ mgrs'[m].second <=> \E n \in DOMAIN mgrs : mgrs[n].tab = t /\ AtWork(n)
             /\ current' = [current EXCEPT ![t] = m] /\ m = Len(mgrs) + 1
  <2>1. m = Len(mgrs) + 1
    <3>1. DOMAIN mgrs' = DOMAIN mgrs \cup {Len(mgrs) + 1}
      BY <1>2, NewManagerTypes
    <3>2. QED
      BY <3>1
  <2>2. current' = [current EXCEPT ![t] = m]
    BY <1>2, <2>1 DEF NewManager
  <2>3. PICK k : k = Len(mgrs) + 1
    OBVIOUS
  <2>4. LET r == mgrs'[k]
        IN  /\ r.tab = t /\ r.call = c /\ r.phase = "init" /\ r.sub = FALSE
            /\ r.pc = "none" /\ r.far = 0 /\ r.doomed = FALSE
            /\ r.second <=> \E n \in DOMAIN mgrs : mgrs[n].tab = t /\ AtWork(n)
    BY <1>2, <2>3, NewManagerTypes, Zenon
  <2>5. QED
    BY <2>1, <2>2, <2>3, <2>4, Zenon
<1>3. ASSUME NEW t \in Tabs, NEW u \in Users, StartCall(t, u) PROVE IsMade(m)
  <2>1. CASE current[t] # 0
    BY <1>1, <1>3, <2>1 DEF StartCall
  <2>2. CASE current[t] = 0
    <3>1. PICK r \in [from : Tabs, to : Users] : r = [from |-> t, to |-> u]
      OBVIOUS
    <3>2. calls' = Append(calls, r) /\ NewManager(t, Len(calls) + 1)
      BY <1>3, <2>2, <3>1 DEF StartCall
    <3>3. /\ Append(calls, r) \in Seq([from : Tabs, to : Users])
          /\ Len(Append(calls, r)) = Len(calls) + 1 /\ Len(calls) \in Nat
      BY AppendProperties, LenProperties DEF TypeOK
    <3>4. DOMAIN calls' = 1..Len(calls')
      BY <3>2, <3>3, LenProperties
    <3>5. /\ Len(calls) + 1 \in DOMAIN calls' /\ Len(calls) <= Len(calls')
          /\ calls' \in Seq([from : Tabs, to : Users])
      BY <3>2, <3>3, <3>4
    <3>6. PICK c \in DOMAIN calls' : c = Len(calls) + 1
      BY <3>5
    <3>7. /\ mgrs'[m].call = c
          /\ mgrs'[m].tab = t /\ mgrs'[m].phase = "init" /\ mgrs'[m].sub = FALSE
          /\ mgrs'[m].pc = "none" /\ mgrs'[m].far = 0 /\ mgrs'[m].doomed = FALSE
          /\ mgrs'[m].second <=> \E n \in DOMAIN mgrs : mgrs[n].tab = t /\ AtWork(n)
          /\ current' = [current EXCEPT ![t] = m] /\ m = Len(mgrs) + 1
      BY <1>2, <3>2, <3>5, <3>6, Zenon
    <3>8. QED
      BY <1>3, <3>6, <3>7, Zenon DEF IsMade
  <2>3. QED
    BY <2>1, <2>2
<1>4. ASSUME NEW t \in Tabs, Accept(t) PROVE IsMade(m)
  <2>1. calls' = calls /\ incoming[t] \in DOMAIN calls /\ NewManager(t, incoming[t])
    BY <1>4, Elements DEF Accept, TypeOK
  <2>2. calls' \in Seq([from : Tabs, to : Users]) /\ Len(calls) <= Len(calls')
    BY <2>1, Elements DEF TypeOK
  <2>3. PICK c \in DOMAIN calls' : c = incoming[t]
    BY <2>1
  <2>4. /\ mgrs'[m].call = c
        /\ mgrs'[m].tab = t /\ mgrs'[m].phase = "init" /\ mgrs'[m].sub = FALSE
        /\ mgrs'[m].pc = "none" /\ mgrs'[m].far = 0 /\ mgrs'[m].doomed = FALSE
        /\ mgrs'[m].second <=> \E n \in DOMAIN mgrs : mgrs[n].tab = t /\ AtWork(n)
        /\ current' = [current EXCEPT ![t] = m] /\ m = Len(mgrs) + 1
    BY <1>2, <2>1, <2>2, <2>3, Zenon
  <2>5. QED
    BY <1>4, <2>3, <2>4, Zenon DEF IsMade
<1>5. ASSUME NEW S, mgrs' = Destroyed(S) PROVE FALSE
  BY <1>5 DEF Destroyed
<1>6. ASSUME NEW t \in Tabs, Buttons(t) PROVE IsMade(m)
  BY <1>1, <1>3, <1>4, <1>5, <1>6 DEF Buttons, Decline, End
<1>7. ASSUME NEW n \in DOMAIN mgrs, Script(n) \/ InitFails(n) \/ PeerFails(n) PROVE FALSE
  <2>1. CASE InitDone(n) \/ InitFails(n) \/ SetupFails(n)
    BY <2>1, ScriptSteps DEF Works
  <2>2. CASE Offer(n) \/ Answer(n)
    <3>1. PICK state \in LivePc : Ready(n, state)
      BY <2>2 DEF Offer, Answer, LivePc
    <3>2. QED
      BY <3>1, ScriptSteps DEF Works
  <2>3. CASE PeerFails(n)
    BY <1>5, <2>3 DEF PeerFails
  <2>4. QED
    BY <1>7, <2>1, <2>2, <2>3 DEF Script
<1>8. ASSUME NEW p \in Pairs, Receive(p[1], p[2]) PROVE FALSE
  <2>1. PICK u \in Tabs, t \in Tabs : u = p[1] /\ t = p[2] /\ <<u, t>> \in Pairs
    BY DEF Pairs
  <2>2. CASE ReceiveAnswer(u, t)
    BY <2>1, <2>2, AnswerSteps
  <2>3. QED
    BY <1>1, <1>5, <1>8, <2>1, <2>2 DEF Receive, ReceiveOffer, ReceiveHangup
<1>9. ASSUME NEW t \in Tabs, Reload(t) PROVE FALSE
  BY <1>9, ReloadSteps
<1>10. QED
  BY <1>1, <1>6, <1>7, <1>8, <1>9 DEF Next, Environment, Drop, Reconnect, vars

----------------------------------------------------------------------------
\* The inductive invariant.

\* Manager m is that of the call's caller.
LeadsCall(m) == mgrs[m].tab = Caller(mgrs[m].call)
\* The caller's manager has sent its offer.
Called == {"offered", "stable", "closed"}
Announced(c) == \E m \in DOMAIN mgrs : /\ mgrs[m].call = c /\ LeadsCall(m)
                                       /\ mgrs[m].pc \in Called
\* The caller has given up.
CallerGone(c) == \A m \in DOMAIN mgrs : mgrs[m].call = c /\ LeadsCall(m)
                                          => mgrs[m].pc = "closed"
\* Tab t had a connection for call c.
HasClosed(t, c) == \E n \in DOMAIN mgrs : /\ mgrs[n].call = c /\ mgrs[n].tab = t
                                          /\ mgrs[n].pc = "closed"
Trouble(t) == \E n \in DOMAIN mgrs : mgrs[n].tab = t /\ (mgrs[n].doomed \/ mgrs[n].second)
Alone(t) == TabsOf(Owner[t]) = {t}

\* How far a manager is, and what belongs to it: it listens as long as its
\* connection lives; only the caller's offers and has an answer's manager at the
\* far end; the callee's was made after the offer was sent.
ManagersAreSound ==
  \A m \in DOMAIN mgrs : LET r == mgrs[m] IN
    /\ r.sub <=> IsLive(m)
    /\ r.phase = "init" => r.pc = "none"
    /\ r.phase = "setup" => r.pc \in {"new", "closed"}
    /\ r.phase = "done" => r.pc # "new"
    /\ r.pc = "offered" => LeadsCall(m)
    /\ r.far # 0 => LeadsCall(m) /\ r.pc \in {"stable", "closed"}
    /\ LeadsCall(m) \/ (Owner[r.tab] = Callee(r.call) /\ Announced(r.call))

\* Nobody calls himself, and one manager makes a call.
CallsAreBetweenTwo == \A c \in DOMAIN calls : Owner[Caller(c)] # Callee(c)
OneManagerCalls ==
  \A m, n \in DOMAIN mgrs : mgrs[m].call = mgrs[n].call /\ LeadsCall(m) /\ LeadsCall(n)
                              => m = n

\* The manager a component holds is one of its tab, not closed.
ComponentsHoldWork ==
  \A t \in Tabs : current[t] # 0 =>
    LET m == mgrs[current[t]] IN
    /\ m.tab = t /\ m.pc # "closed"
    /\ active[t] # 0 \/ m.phase # "done" \/ m.pc = "none"

\* Where init was not cut short and no second manager was made, the component
\* holds the one at work, and the screen shows its call.
ScreensShowWork ==
  \A m \in DOMAIN mgrs : LET t == mgrs[m].tab IN
    ~Trouble(t) /\ (IsLive(m) \/ mgrs[m].phase = "init") =>
      /\ current[t] = m
      /\ IsLive(m) /\ mgrs[m].phase = "done" => active[t] = mgrs[m].call

\* A frame is from one end of its call to the other, after the offer.  Offers
\* are of the caller and answers of the callee, each made by the manager its
\* sdp names; a caller that hangs up is gone.
FrameIsTheirs(p, f) ==
  LET c == f.call n == f.sdp IN
  /\ f.to = Owner[p[2]] /\ Announced(c)
  /\ \/ p[1] = Caller(c) /\ f.to = Callee(c)
     \/ Owner[p[1]] = Callee(c) /\ f.to = Owner[Caller(c)]
  /\ f.type \in {"webrtc_offer", "webrtc_answer"} =>
       n \in DOMAIN mgrs /\ mgrs[n].call = c /\ mgrs[n].tab = p[1]
  /\ f.type = "webrtc_offer" => p[1] = Caller(c) /\ mgrs[n].pc \in Called
  /\ f.type = "webrtc_answer" => p[1] # Caller(c)
  /\ f.type = "call_hangup" /\ p[1] = Caller(c) => CallerGone(c)
FramesAreTheirs == \A p \in Pairs : \A i \in DOMAIN wire[p] : FrameIsTheirs(p, wire[p][i])

\* A ring is of a call to the tab's user, whose offer was sent.
RingsAreForMe == \A t \in Tabs : LET c == incoming[t] IN
                   c # 0 => Owner[t] = Callee(c) /\ Announced(c)

\* The manager that made an offer or an answer on its way still lives, or its
\* hangup follows, or its call is one that something went wrong with; ...
HangsUpAfter(p, i) == \E j \in DOMAIN wire[p] : /\ j > i /\ wire[p][j].type = "call_hangup"
                                                /\ wire[p][j].call = wire[p][i].call
AnswersStand ==
  \A p \in Pairs : \A i \in DOMAIN wire[p] : LET f == wire[p][i] IN
    f.type = "webrtc_answer" => \/ IsLive(f.sdp) \/ HangsUpAfter(p, i)
                                \/ f.call \in lost \cup crossed \/ CallerGone(f.call)
OffersStand ==
  \A p \in Pairs : \A i \in DOMAIN wire[p] : LET f == wire[p][i] IN
    f.type = "webrtc_offer" => \/ IsLive(f.sdp) \/ HangsUpAfter(p, i)
                               \/ f.call \in lost \cup crossed
                               \/ HasClosed(p[2], f.call) \/ ~Alone(p[2])

\* ... and a tab that hung up a call it was asked for neither rings nor will.
NoOffer(t, c) == ~OnWire(c, "webrtc_offer", t)
RefusalsAreFinal ==
  \A p \in Pairs : \A i \in DOMAIN wire[p] : LET c == wire[p][i].call IN
    wire[p][i].type = "call_hangup" /\ p[1] # Caller(c) =>
      HasClosed(p[1], c) \/ (incoming[p[1]] # c /\ NoOffer(p[1], c))

\* A call is offered once.
OfferedOnce ==
  /\ \A t \in Tabs : incoming[t] # 0 => NoOffer(t, incoming[t])
  /\ \A p \in Pairs : \A i, j \in DOMAIN wire[p] :
       /\ wire[p][i].type = "webrtc_offer" /\ wire[p][j].type = "webrtc_offer"
       /\ wire[p][i].call = wire[p][j].call
       => i = j

\* Who takes part in what, on which the rest is built ...
Parts == /\ TypeOK /\ ManagersAreSound /\ CallsAreBetweenTwo /\ OneManagerCalls
         /\ ComponentsHoldWork /\ FramesAreTheirs /\ RingsAreForMe
IInv == /\ Parts /\ ScreensShowWork /\ AnswersStand /\ OffersStand
        /\ RefusalsAreFinal /\ OfferedOnce
        /\ AnswerIsForThisCall /\ RingsMatchCalls /\ NoCallerAlone

----------------------------------------------------------------------------
\* What no step undoes.

\* A call stays what it is, and only StartCall adds one; what went wrong with a
\* call is not forgotten.
LEMMA CallsGoOn ==
  ASSUME TypeOK, [Next]_vars
  PROVE  /\ calls' = calls \/ \E t \in Tabs, u \in Users : StartCall(t, u)
         /\ \A c \in DOMAIN calls : /\ c \in DOMAIN calls' /\ c # Len(calls) + 1
                                    /\ Caller(c)' = Caller(c) /\ Callee(c)' = Callee(c)
         /\ lost \subseteq lost' /\ unheard \subseteq unheard' /\ crossed \subseteq crossed'
<1> DEFINE More == lost \subseteq lost' /\ unheard \subseteq unheard' /\ crossed \subseteq crossed'
<1>1. ASSUME NEW t \in Tabs, Buttons(t)
      PROVE  (calls' = calls \/ \E u \in Users : StartCall(t, u)) /\ More
  BY <1>1 DEF Buttons, Accept, Decline, End, Send, StartCall
<1>2. ASSUME NEW m \in DOMAIN mgrs, Script(m) \/ InitFails(m) \/ PeerFails(m)
      PROVE  calls' = calls /\ More
  BY <1>2 DEF Script, InitDone, SetupFails, Offer, Answer, Ready, InitFails, PeerFails, Send,
              history
<1>3. ASSUME NEW p \in Pairs, Receive(p[1], p[2])
      PROVE  calls' = calls /\ More
  BY <1>3 DEF Receive, ReceiveOffer, ReceiveAnswer, ReceiveHangup, history
<1>4. ASSUME Environment
      PROVE  calls' = calls /\ More
  <2>1. ASSUME NEW t \in Tabs, Reload(t) PROVE calls' = calls /\ More
    BY <2>1 DEF Reload
  <2>2. QED
    BY <1>4, <2>1 DEF Environment, Drop, Reconnect, history
<1>5. ASSUME UNCHANGED vars
      PROVE  calls' = calls /\ More
  BY <1>5 DEF vars, history
<1>6. (calls' = calls \/ \E t \in Tabs, u \in Users : StartCall(t, u)) /\ More
  BY <1>1, <1>2, <1>3, <1>4, <1>5 DEF Next
<1> HIDE DEF More
<1>7. ASSUME NEW t \in Tabs, NEW u \in Users, StartCall(t, u), NEW c \in DOMAIN calls
      PROVE  c \in DOMAIN calls' /\ calls'[c] = calls[c]
  <2>1. PICK r \in [from : Tabs, to : Users] : calls' = Append(calls, r)
    BY <1>7 DEF StartCall
  <2>2. /\ Append(calls, r) \in Seq([from : Tabs, to : Users])
        /\ Len(Append(calls, r)) = Len(calls) + 1 /\ Len(calls) \in Nat
        /\ \A i \in 1..Len(calls) : Append(calls, r)[i] = calls[i]
    BY AppendProperties, LenProperties DEF TypeOK
  <2>3. DOMAIN calls' = 1..Len(calls) + 1 /\ DOMAIN calls = 1..Len(calls)
    BY <2>1, <2>2, LenProperties, Elements
  <2>4. QED
    BY <2>1, <2>2, <2>3
<1>8. ASSUME NEW c \in DOMAIN calls
      PROVE  c \in DOMAIN calls' /\ calls'[c] = calls[c] /\ c # Len(calls) + 1
  BY <1>6, <1>7, Elements
<1>9. QED
  BY <1>6, <1>8 DEF More, Caller, Callee

\* Nor does a manager change its tab and call; one that closed stays closed, one
\* that offered has offered, and one that is through does not start again.
LEMMA ManagersGoOn ==
  ASSUME TypeOK, ManagersAreSound, [Next]_vars, NEW m \in DOMAIN mgrs
  PROVE  /\ m \in DOMAIN mgrs'
         /\ mgrs'[m].tab = mgrs[m].tab /\ mgrs'[m].call = mgrs[m].call
         /\ LeadsCall(m)' <=> LeadsCall(m)
         /\ Remote(m)' = Remote(m)
         /\ mgrs[m].pc = "closed" => mgrs'[m].pc = "closed"
         /\ mgrs[m].pc \in Called => mgrs'[m].pc \in Called
         /\ mgrs[m].doomed \/ mgrs[m].second => mgrs'[m].doomed \/ mgrs'[m].second
         /\ mgrs[m].phase = "done" => mgrs'[m].phase = "done"
         /\ IsLive(m)' \/ mgrs'[m].phase = "init" => IsLive(m) \/ mgrs[m].phase = "init"
<1>1. CASE mgrs'[m] = mgrs[m]
  BY <1>1, ManagerSteps, CallsGoOn, Ends DEF LeadsCall, Remote, IsLive
<1>2. m \in DOMAIN mgrs'
  BY ManagerSteps
<1>3. ASSUME mgrs'[m].tab = mgrs[m].tab, mgrs'[m].call = mgrs[m].call
      PROVE  (LeadsCall(m)' <=> LeadsCall(m)) /\ Remote(m)' = Remote(m)
  <2>1. PICK c \in DOMAIN calls : c = mgrs[m].call
    BY Ends
  <2>2. Caller(c)' = Caller(c) /\ Callee(c)' = Callee(c)
    BY CallsGoOn
  <2>3. QED
    BY <1>3, <2>1, <2>2 DEF LeadsCall, Remote, Caller, Callee
<1>4. CASE Proceeds(m)
  <2>1. /\ mgrs'[m].tab = mgrs[m].tab /\ mgrs'[m].call = mgrs[m].call
        /\ mgrs'[m].doomed = mgrs[m].doomed /\ mgrs'[m].second = mgrs[m].second
    BY <1>4 DEF Proceeds, Works
  <2>2. /\ mgrs[m].pc = "closed" => mgrs'[m].pc = "closed"
        /\ mgrs[m].pc \in Called => mgrs'[m].pc \in Called
        /\ mgrs[m].phase = "done" => mgrs'[m].phase = "done"
        /\ IsLive(m)' \/ mgrs'[m].phase = "init" => IsLive(m) \/ mgrs[m].phase = "init"
    BY <1>4 DEF Proceeds, Works, InitDone, InitFails, SetupFails, Offer, Answer, Ready,
                ManagersAreSound, Called, IsLive, LivePc
  <2>3. QED
    BY <1>2, <1>3, <2>1, <2>2, Zenon
<1>5. ASSUME NEW u \in Tabs, Joins(m, u)
      PROVE  /\ mgrs'[m].tab = mgrs[m].tab /\ mgrs'[m].call = mgrs[m].call
             /\ mgrs[m].pc = "closed" => mgrs'[m].pc = "closed"
             /\ mgrs[m].pc \in Called => mgrs'[m].pc \in Called
             /\ mgrs[m].doomed \/ mgrs[m].second => mgrs'[m].doomed \/ mgrs'[m].second
             /\ mgrs[m].phase = "done" => mgrs'[m].phase = "done"
             /\ IsLive(m)' \/ mgrs'[m].phase = "init" => IsLive(m) \/ mgrs[m].phase = "init"
  BY <1>5 DEF Joins, SamePerson, Called, IsLive, LivePc
<1>6. CASE IsDestroyed(m)
  <2>1. /\ mgrs'[m].tab = mgrs[m].tab /\ mgrs'[m].call = mgrs[m].call
        /\ mgrs[m].doomed \/ mgrs[m].second => mgrs'[m].doomed \/ mgrs'[m].second
    BY <1>6, Zenon DEF IsDestroyed, IsClosed
  <2>2. /\ mgrs[m].pc = "closed" => mgrs'[m].pc = "closed"
        /\ mgrs[m].pc \in Called => mgrs'[m].pc \in Called
        /\ mgrs[m].phase = "done" => mgrs'[m].phase = "done"
        /\ IsLive(m)' \/ mgrs'[m].phase = "init" => IsLive(m) \/ mgrs[m].phase = "init"
    BY <1>6 DEF IsDestroyed, IsClosed, Called, IsLive, LivePc
  <2>3. QED
    BY <1>2, <1>3, <2>1, <2>2, Zenon
<1>7. CASE IsReloaded(m)
  <2>1. /\ mgrs'[m].tab = mgrs[m].tab /\ mgrs'[m].call = mgrs[m].call
        /\ mgrs[m].pc = "closed" => mgrs'[m].pc = "closed"
        /\ mgrs[m].pc \in Called => mgrs'[m].pc \in Called
        /\ mgrs[m].doomed \/ mgrs[m].second => mgrs'[m].doomed \/ mgrs'[m].second
        /\ mgrs[m].phase = "done" => mgrs'[m].phase = "done"
        /\ IsLive(m)' \/ mgrs'[m].phase = "init" => IsLive(m) \/ mgrs[m].phase = "init"
    BY <1>7 DEF IsReloaded, SamePerson, Called, IsLive, LivePc
  <2>2. QED
    BY <1>2, <1>3, <2>1, Zenon
<1>8. QED
  BY <1>1, <1>2, <1>3, <1>4, <1>5, <1>6, <1>7, ManagerSteps, Zenon

\* The manager a start makes leads its call, which is new; that of an Accept is
\* at the other end of a call that was announced.
LEMMA MadeForACall ==
  ASSUME Parts, [Next]_vars, NEW m \in DOMAIN mgrs', m \notin DOMAIN mgrs
  PROVE  \/ LeadsCall(m)' /\ mgrs'[m].call \notin DOMAIN calls
         \/ /\ ~LeadsCall(m)' /\ mgrs'[m].call \in DOMAIN calls
            /\ Owner[mgrs'[m].tab] = Callee(mgrs'[m].call) /\ Announced(mgrs'[m].call)
<1> USE DEF Parts
<1>1. PICK t \in Tabs :
        /\ \/ (\E u \in Users : StartCall(t, u)) /\ mgrs'[m].call = Len(calls) + 1
           \/ Accept(t) /\ mgrs'[m].call = incoming[t]
        /\ mgrs'[m].tab = t
  BY MadeManagers DEF IsMade
<1>2. ASSUME NEW u \in Users, StartCall(t, u), mgrs'[m].call = Len(calls) + 1
      PROVE  LeadsCall(m)' /\ mgrs'[m].call \notin DOMAIN calls
  <2>1. PICK r \in [from : Tabs, to : Users] : r = [from |-> t, to |-> u]
    OBVIOUS
  <2>2. calls' = Append(calls, r)
    BY <1>2, <2>1 DEF StartCall
  <2>3. Append(calls, r)[Len(calls) + 1] = r
    BY AppendProperties DEF TypeOK
  <2>4. mgrs'[m].call \notin DOMAIN calls
    BY <1>2, Elements
  <2>5. QED
    BY <1>1, <1>2, <2>1, <2>2, <2>3, <2>4 DEF LeadsCall, Caller
<1>3. ASSUME Accept(t), mgrs'[m].call = incoming[t]
      PROVE  /\ ~LeadsCall(m)' /\ mgrs'[m].call \in DOMAIN calls
             /\ Owner[mgrs'[m].tab] = Callee(mgrs'[m].call) /\ Announced(mgrs'[m].call)
  <2>1. calls' = calls /\ incoming[t] # 0 /\ incoming[t] \in DOMAIN calls
    BY <1>3, Elements DEF Accept, TypeOK
  <2>2. Owner[t] = Callee(incoming[t]) /\ Announced(incoming[t])
    BY <2>1 DEF RingsAreForMe
  <2>3. Owner[Caller(incoming[t])] # Owner[t]
    BY <2>1, <2>2 DEF CallsAreBetweenTwo
  <2>4. QED
    BY <1>1, <1>3, <2>1, <2>2, <2>3 DEF LeadsCall, Caller
<1>4. QED
  BY <1>1, <1>2, <1>3

\* What the invariant says of a call or a tab and no step undoes.
LEMMA FactsGoOn ==
  ASSUME Parts, [Next]_vars
  PROVE  /\ \A c \in DOMAIN calls : Announced(c) => Announced(c)'
         /\ \A c \in DOMAIN calls : CallerGone(c) => CallerGone(c)'
         /\ \A t \in Tabs, c \in DOMAIN calls : HasClosed(t, c) => HasClosed(t, c)'
         /\ \A t \in Tabs : Trouble(t) => Trouble(t)'
<1> USE DEF Parts
<1>1. ASSUME NEW c \in DOMAIN calls, Announced(c) PROVE Announced(c)'
  BY <1>1, ManagersGoOn DEF Announced
<1>2. ASSUME NEW c \in DOMAIN calls, CallerGone(c) PROVE CallerGone(c)'
  <2>1. ASSUME NEW m \in DOMAIN mgrs', mgrs'[m].call = c, LeadsCall(m)'
        PROVE  mgrs'[m].pc = "closed"
    <3>1. m \in DOMAIN mgrs
      BY <2>1, MadeForACall
    <3>2. QED
      BY <1>2, <2>1, <3>1, ManagersGoOn DEF CallerGone
  <2>2. QED
    BY <2>1 DEF CallerGone
<1>3. ASSUME NEW t \in Tabs, NEW c \in DOMAIN calls, HasClosed(t, c) PROVE HasClosed(t, c)'
  BY <1>3, ManagersGoOn DEF HasClosed
<1>4. ASSUME NEW t \in Tabs, Trouble(t) PROVE Trouble(t)'
  <2>1. PICK n \in DOMAIN mgrs : mgrs[n].tab = t /\ (mgrs[n].doomed \/ mgrs[n].second)
    BY <1>4 DEF Trouble
  <2>2. /\ n \in DOMAIN mgrs' /\ mgrs'[n].tab = t
        /\ mgrs'[n].doomed \/ mgrs'[n].second
    BY <2>1, ManagersGoOn, Zenon
  <2>3. QED
    BY <2>2, Zenon DEF Trouble
<1>5. QED
  BY <1>1, <1>2, <1>3, <1>4, Zenon

LEMMA SoundStep ==
  ASSUME Parts, [Next]_vars
  PROVE  ManagersAreSound'
<1> USE DEF Parts
<1> DEFINE Sound(m) == LET r == mgrs[m] IN
             /\ r.sub <=> IsLive(m)
             /\ r.phase = "init" => r.pc = "none"
             /\ r.phase = "setup" => r.pc \in {"new", "closed"}
             /\ r.phase = "done" => r.pc # "new"
             /\ r.pc = "offered" => LeadsCall(m)
             /\ r.far # 0 => LeadsCall(m) /\ r.pc \in {"stable", "closed"}
             /\ LeadsCall(m) \/ (Owner[r.tab] = Callee(r.call) /\ Announced(r.call))
<1>1. ASSUME NEW m \in DOMAIN mgrs', m \notin DOMAIN mgrs
      PROVE  Sound(m)'
  <2>1. /\ mgrs'[m].phase = "init" /\ mgrs'[m].sub = FALSE
        /\ mgrs'[m].pc = "none" /\ mgrs'[m].far = 0
    BY <1>1, MadeManagers DEF IsMade
  <2>2. ~LeadsCall(m)' => /\ Owner[mgrs'[m].tab] = Callee(mgrs[m].call)'
                          /\ Announced(mgrs[m].call)'
    <3>1. PICK c : c = mgrs'[m].call
      OBVIOUS
    <3>2. ~LeadsCall(m)' =>
            c \in DOMAIN calls /\ Owner[mgrs'[m].tab] = Callee(c) /\ Announced(c)
      BY <1>1, <3>1, MadeForACall
    <3>3. QED
      BY <3>1, <3>2, CallsGoOn, FactsGoOn DEF Callee, Announced
  <2>3. QED
    BY <2>1, <2>2 DEF IsLive, LivePc
<1>2. ASSUME NEW m \in DOMAIN mgrs PROVE Sound(m)'
  <2>1. Sound(m)
    BY DEF ManagersAreSound
  <2>2. /\ m \in DOMAIN mgrs'
        /\ mgrs'[m].tab = mgrs[m].tab /\ mgrs'[m].call = mgrs[m].call
        /\ LeadsCall(m)' <=> LeadsCall(m)
    BY ManagersGoOn
  <2>3. LeadsCall(m)' \/ (Owner[mgrs'[m].tab] = Callee(mgrs[m].call)'
                            /\ Announced(mgrs[m].call)')
    <3>1. PICK c \in DOMAIN calls : c = mgrs[m].call
      BY Ends
    <3>2. LeadsCall(m) \/ (Owner[mgrs[m].tab] = Callee(c) /\ Announced(c))
      BY <2>1, <3>1
    <3>3. Announced(c) => Announced(c)'
      BY FactsGoOn
    <3>4. Callee(c)' = Callee(c)
      BY CallsGoOn
    <3>5. QED
      BY <2>2, <3>1, <3>2, <3>3, <3>4 DEF Callee, Announced
  <2>4. /\ mgrs'[m].sub <=> IsLive(m)'
        /\ mgrs'[m].phase = "init" => mgrs'[m].pc = "none"
        /\ mgrs'[m].phase = "setup" => mgrs'[m].pc \in {"new", "closed"}
        /\ mgrs'[m].phase = "done" => mgrs'[m].pc # "new"
        /\ mgrs'[m].pc = "offered" => LeadsCall(m)'
        /\ mgrs'[m].far # 0 => LeadsCall(m)' /\ mgrs'[m].pc \in {"stable", "closed"}
    <3>1. CASE mgrs'[m] = mgrs[m]
      BY <2>1, <2>2, <3>1 DEF IsLive
    <3>2. CASE Proceeds(m)
      BY <2>1, <2>2, <3>2 DEF Proceeds, Works, InitDone, InitFails, SetupFails, Offer, Answer,
                              Ready, IsLive, LivePc, LeadsCall
    <3>3. ASSUME NEW u \in Tabs, Joins(m, u)
          PROVE  /\ mgrs'[m].sub <=> IsLive(m)'
                 /\ mgrs'[m].phase = "init" => mgrs'[m].pc = "none"
                 /\ mgrs'[m].phase = "setup" => mgrs'[m].pc \in {"new", "closed"}
                 /\ mgrs'[m].phase = "done" => mgrs'[m].pc # "new"
                 /\ mgrs'[m].pc = "offered" => LeadsCall(m)'
                 /\ mgrs'[m].far # 0 => LeadsCall(m)' /\ mgrs'[m].pc \in {"stable", "closed"}
      BY <2>1, <2>2, <3>3 DEF Joins, IsLive, LivePc
    <3>4. CASE IsDestroyed(m)
      BY <2>1, <2>2, <3>4 DEF IsDestroyed, IsClosed, IsLive, LivePc
    <3>5. CASE IsReloaded(m)
      BY <2>1, <2>2, <3>5 DEF IsReloaded, IsLive, LivePc
    <3>6. QED
      BY <3>1, <3>2, <3>3, <3>4, <3>5, ManagerSteps, Zenon
  <2>5. QED
    BY <2>2, <2>3, <2>4, Zenon
<1>3. ASSUME NEW m \in DOMAIN mgrs' PROVE Sound(m)'
  BY <1>1, <1>2, Zenon
<1>4. QED
  BY <1>3 DEF ManagersAreSound

\* A call that is started is to somebody else, and nobody makes one again.
LEMMA CallersStep ==
  ASSUME Parts, [Next]_vars
  PROVE  CallsAreBetweenTwo' /\ OneManagerCalls'
<1> USE DEF Parts
<1>1. CallsAreBetweenTwo'
  <2>1. CASE calls' = calls
    BY <2>1 DEF CallsAreBetweenTwo, Caller, Callee
  <2>2. ASSUME NEW t \in Tabs, NEW u \in Users, StartCall(t, u)
        PROVE  CallsAreBetweenTwo'
    <3>1. PICK r \in [from : Tabs, to : Users] : r = [from |-> t, to |-> u]
      OBVIOUS
    <3>2. calls' = Append(calls, r) /\ Owner[r.from] # r.to
      BY <2>2, <3>1 DEF StartCall
    <3>3. /\ Append(calls, r) \in Seq([from : Tabs, to : Users])
          /\ Len(Append(calls, r)) = Len(calls) + 1 /\ Len(calls) \in Nat
          /\ \A i \in 1..Len(calls) : Append(calls, r)[i] = calls[i]
          /\ Append(calls, r)[Len(calls) + 1] = r
      BY AppendProperties, LenProperties DEF TypeOK
    <3>4. DOMAIN calls' = 1..Len(calls) + 1 /\ DOMAIN calls = 1..Len(calls)
      BY <3>2, <3>3, LenProperties, Elements
    <3>5. ASSUME NEW c \in DOMAIN calls' PROVE Owner[calls'[c].from] # calls'[c].to
      <4>1. c \in DOMAIN calls \/ c = Len(calls) + 1
        BY <3>3, <3>4
      <4>2. QED
        BY <3>2, <3>3, <3>4, <4>1 DEF CallsAreBetweenTwo, Caller, Callee
    <3>6. QED
      BY <3>5 DEF CallsAreBetweenTwo, Caller, Callee
  <2>3. QED
    BY <2>1, <2>2, CallsGoOn
<1>2. ASSUME NEW m \in DOMAIN mgrs', NEW n \in DOMAIN mgrs',
             mgrs'[m].call = mgrs'[n].call, LeadsCall(m)', LeadsCall(n)'
      PROVE  m = n
  <2>1. ASSUME NEW i \in DOMAIN mgrs', LeadsCall(i)'
        PROVE  i \in DOMAIN mgrs <=> mgrs'[i].call \in DOMAIN calls
    BY <2>1, MadeForACall, ManagersGoOn, Ends
  <2>2. CASE m \in DOMAIN mgrs /\ n \in DOMAIN mgrs
    BY <1>2, <2>2, ManagersGoOn DEF OneManagerCalls
  <2>3. CASE m \notin DOMAIN mgrs /\ n \notin DOMAIN mgrs
    BY <2>3, MadeManagers DEF IsMade
  <2>4. QED
    BY <1>2, <2>1, <2>2, <2>3
<1>3. QED
  BY <1>1, <1>2 DEF OneManagerCalls

----------------------------------------------------------------------------
\* Components and screens.

\* What changes the manager a component holds, and what the call on its screen.
LEMMA ScreenSteps ==
  ASSUME TypeOK, [Next]_vars, NEW t \in Tabs
  PROVE  /\ current'[t] # current[t] =>
              \/ current[t] = 0 /\ current'[t] = Len(mgrs) + 1
              \/ Accept(t) /\ current'[t] = Len(mgrs) + 1
              \/ /\ current'[t] = 0 /\ active'[t] = 0
                 /\ \/ End(t) \/ Reload(t)
                    \/ \E u \in Tabs : /\ <<u, t>> \in Pairs /\ ReceiveHangup(u, t)
                                       /\ Listening(t) # {}
                    \/ \E m \in DOMAIN mgrs : PeerFails(m) /\ mgrs[m].tab = t
         /\ active'[t] # active[t] =>
              \/ current'[t] = 0 /\ active'[t] = 0
              \/ active[t] = 0 /\ active'[t] # 0 /\ \E u \in Users : StartCall(t, u)
              \/ \E m \in DOMAIN mgrs : /\ Offer(m) \/ Answer(m)
                                        /\ mgrs[m].tab = t /\ active'[t] = mgrs[m].call
<1> DEFINE Held == current'[t] # current[t] =>
              \/ current[t] = 0 /\ current'[t] = Len(mgrs) + 1
              \/ Accept(t) /\ current'[t] = Len(mgrs) + 1
              \/ /\ current'[t] = 0 /\ active'[t] = 0
                 /\ \/ End(t) \/ Reload(t)
                    \/ \E u \in Tabs : /\ <<u, t>> \in Pairs /\ ReceiveHangup(u, t)
                                       /\ Listening(t) # {}
                    \/ \E m \in DOMAIN mgrs : PeerFails(m) /\ mgrs[m].tab = t
           Shown == active'[t] # active[t] =>
              \/ current'[t] = 0 /\ active'[t] = 0
              \/ active[t] = 0 /\ active'[t] # 0 /\ \E u \in Users : StartCall(t, u)
              \/ \E m \in DOMAIN mgrs : /\ Offer(m) \/ Answer(m)
                                        /\ mgrs[m].tab = t /\ active'[t] = mgrs[m].call
<1>0. /\ current \in [Tabs -> 0..Len(mgrs)] /\ active \in [Tabs -> 0..Len(calls)]
      /\ Len(calls) \in Nat
  BY Elements DEF TypeOK
<1>1. ASSUME current' = current, active' = active PROVE Held /\ Shown
  BY <1>1
<1>2. ASSUME NEW s \in Tabs, ClearScreen(s)
      PROVE  /\ s = t => current'[t] = 0 /\ active'[t] = 0
             /\ s # t => current'[t] = current[t] /\ active'[t] = active[t]
  BY <1>0, <1>2 DEF ClearScreen
<1>3. ASSUME NEW s \in Tabs, NEW u \in Users, StartCall(s, u) PROVE Held /\ Shown
  <2>1. /\ active' = [active EXCEPT ![s] = Len(calls) + 1] /\ active[s] = 0
        /\ \/ current' = current
           \/ current[s] = 0 /\ current' = [current EXCEPT ![s] = Len(mgrs) + 1]
    BY <1>3 DEF StartCall, NewManager
  <2>2. CASE s = t
    BY <1>0, <1>3, <2>1, <2>2
  <2>3. CASE s # t
    BY <1>0, <2>1, <2>3
  <2>4. QED
    BY <2>2, <2>3
<1>4. ASSUME NEW s \in Tabs, Accept(s) PROVE Held /\ Shown
  <2>1. active' = active /\ current' = [current EXCEPT ![s] = Len(mgrs) + 1]
    BY <1>4 DEF Accept, NewManager
  <2>2. CASE s = t
    BY <1>0, <1>4, <2>1, <2>2
  <2>3. CASE s # t
    BY <1>0, <2>1, <2>3
  <2>4. QED
    BY <2>2, <2>3
<1>5. ASSUME NEW s \in Tabs, End(s) \/ Reload(s) PROVE Held /\ Shown
  <2>1. ClearScreen(s)
    BY <1>5 DEF End, Reload
  <2>2. QED
    BY <1>2, <1>5, <2>1
<1>6. ASSUME NEW m \in DOMAIN mgrs, PeerFails(m) PROVE Held /\ Shown
  <2>1. ClearScreen(mgrs[m].tab) /\ mgrs[m].tab \in Tabs
    BY <1>6, Ends DEF PeerFails
  <2>2. QED
    BY <1>2, <1>6, <2>1
<1>7. ASSUME NEW m \in DOMAIN mgrs, Offer(m) \/ Answer(m) PROVE Held /\ Shown
  <2>1. /\ mgrs[m].tab \in Tabs /\ current' = current
        /\ active' = [active EXCEPT ![mgrs[m].tab] = mgrs[m].call]
    BY <1>7, Ends DEF Offer, Answer, Ready
  <2>2. CASE mgrs[m].tab = t
    BY <1>0, <1>7, <2>1, <2>2
  <2>3. CASE mgrs[m].tab # t
    BY <1>0, <2>1, <2>3
  <2>4. QED
    BY <2>2, <2>3
<1>8. ASSUME NEW p \in Pairs, Receive(p[1], p[2]) PROVE Held /\ Shown
  <2>1. PICK u \in Tabs, s \in Tabs : u = p[1] /\ s = p[2] /\ <<u, s>> \in Pairs
    BY DEF Pairs
  <2>2. CASE ReceiveOffer(u, s) \/ ReceiveAnswer(u, s)
    BY <1>1, <2>2 DEF ReceiveOffer, ReceiveAnswer, screen
  <2>3. CASE ReceiveHangup(u, s)
    <3>1. IF Listening(s) = {} THEN UNCHANGED <<active, current>> ELSE ClearScreen(s)
      BY <2>3 DEF ReceiveHangup
    <3>2. QED
      BY <1>1, <1>2, <2>1, <2>3, <3>1
  <2>4. QED
    BY <1>8, <2>1, <2>2, <2>3 DEF Receive
<1>9. ASSUME NEW m \in DOMAIN mgrs, InitDone(m) \/ SetupFails(m) \/ InitFails(m)
      PROVE  Held /\ Shown
  BY <1>1, <1>9 DEF InitDone, SetupFails, InitFails, screen
<1>10. ASSUME NEW s \in Tabs, Decline(s) \/ Drop(s) \/ Reconnect(s) PROVE Held /\ Shown
  BY <1>1, <1>10 DEF Decline, Drop, Reconnect, screen
<1>11. ASSUME UNCHANGED vars PROVE Held /\ Shown
  BY <1>1, <1>11 DEF vars, screen
<1> HIDE DEF Held, Shown
<1>12. Held /\ Shown
  BY <1>3, <1>4, <1>5, <1>6, <1>7, <1>8, <1>9, <1>10, <1>11
     DEF Next, Buttons, Script, Environment
<1>13. QED
  BY <1>12 DEF Held, Shown

LEMMA ComponentsStep ==
  ASSUME Parts, [Next]_vars
  PROVE  ComponentsHoldWork'
<1> USE DEF Parts
<1> SUFFICES ASSUME NEW t \in Tabs, NEW m, m = current'[t], m # 0
             PROVE  /\ mgrs'[m].tab = t /\ mgrs'[m].pc # "closed"
                    /\ active'[t] # 0 \/ mgrs'[m].phase # "done" \/ mgrs'[m].pc = "none"
  BY DEF ComponentsHoldWork
<1>1. m \in DOMAIN mgrs'
  <2>1. TypeOK'
    BY TypeStep
  <2>2. Len(mgrs') \in Nat /\ DOMAIN mgrs' = 1..Len(mgrs') /\ m \in 0..Len(mgrs')
    BY <2>1, LenProperties DEF TypeOK
  <2>3. QED
    BY <2>2
<1>2. CASE m \notin DOMAIN mgrs
  <2>1. PICK s \in Tabs : /\ mgrs'[m].tab = s /\ mgrs'[m].phase = "init"
                          /\ mgrs'[m].pc = "none"
                          /\ current' = [current EXCEPT ![s] = m]
    BY <1>1, <1>2, MadeManagers DEF IsMade
  <2>2. current[t] # m
    BY <1>2, Elements DEF TypeOK
  <2>3. s = t
    BY <2>1, <2>2 DEF TypeOK
  <2>4. QED
    BY <2>1, <2>3
<1>3. CASE m \in DOMAIN mgrs
  <2>1. current[t] = m /\ (active'[t] = 0 => active[t] = 0)
    <3>1. m # Len(mgrs) + 1
      BY <1>3, Elements
    <3>2. current[t] = m
      BY <3>1, ScreenSteps
    <3>3. \A n \in DOMAIN mgrs : mgrs[n].call # 0
      BY Ends, Elements
    <3>4. active'[t] = 0 => active[t] = 0
      BY <3>3, ScreenSteps
    <3>5. QED
      BY <3>2, <3>4
  <2>2. /\ mgrs[m].tab = t /\ mgrs[m].pc # "closed"
        /\ active[t] # 0 \/ mgrs[m].phase # "done" \/ mgrs[m].pc = "none"
    BY <2>1 DEF ComponentsHoldWork
  <2>3. CASE mgrs'[m] = mgrs[m]
    BY <2>1, <2>2, <2>3
  <2>4. CASE Proceeds(m)
    <3>1. CASE Offer(m) \/ Answer(m)
      <4>1. active' = [active EXCEPT ![t] = mgrs[m].call] /\ mgrs[m].call \in DOMAIN calls
        BY <1>3, <2>2, <3>1, Ends DEF Offer, Answer, Ready
      <4>2. active'[t] # 0
        <5>1. mgrs[m].call # 0
          BY <4>1, Elements
        <5>2. QED
          BY <4>1, <5>1 DEF TypeOK
      <4>3. mgrs'[m].tab = t /\ mgrs'[m].pc # "closed"
        BY <2>2, <2>4 DEF Proceeds, Works
      <4>4. QED
        BY <4>2, <4>3
    <3>2. CASE ~(Offer(m) \/ Answer(m))
      <4>1. CASE InitDone(m) /\ Works(m, "setup", TRUE, "new")
        BY <2>2, <4>1 DEF Works
      <4>2. CASE (InitFails(m) \/ SetupFails(m)) /\ Works(m, "done", mgrs[m].sub, mgrs[m].pc)
        <5>1. mgrs[m].pc = "none"
          BY <1>3, <2>2, <4>2 DEF InitFails, SetupFails, ManagersAreSound
        <5>2. QED
          BY <2>2, <4>2, <5>1 DEF Works
      <4>3. QED
        BY <2>4, <3>2, <4>1, <4>2 DEF Proceeds
    <3>3. QED
      BY <3>1, <3>2
  <2>5. ASSUME NEW u \in Tabs, Joins(m, u)
        PROVE  /\ mgrs'[m].tab = t /\ mgrs'[m].pc # "closed"
               /\ active'[t] # 0 \/ mgrs'[m].phase # "done" \/ mgrs'[m].pc = "none"
    BY <2>1, <2>2, <2>5 DEF Joins, SamePerson
  <2>6. CASE IsDestroyed(m)
    <3>1. ASSUME NEW s \in Tabs, End(s), current[s] = m PROVE FALSE
      <4>1. s = t
        BY <1>3, <2>2, <3>1, Elements DEF ComponentsHoldWork
      <4>2. QED
        BY <3>1, <4>1 DEF End, ClearScreen, TypeOK
    <3>2. ASSUME NEW p \in Pairs, ReceiveHangup(p[1], p[2]), mgrs[m].tab = p[2], mgrs[m].sub
          PROVE  FALSE
      <4>1. m \in Listening(t) /\ p[2] = t
        BY <1>3, <2>2, <3>2 DEF Listening
      <4>2. ClearScreen(t)
        BY <3>2, <4>1 DEF ReceiveHangup
      <4>3. QED
        BY <4>2 DEF ClearScreen, TypeOK
    <3>3. ASSUME PeerFails(m) PROVE FALSE
      BY <2>2, <3>3 DEF PeerFails, ClearScreen, TypeOK
    <3>4. QED
      BY <2>6, <3>1, <3>2, <3>3 DEF IsDestroyed
  <2>7. CASE IsReloaded(m)
    BY <2>2, <2>7 DEF IsReloaded, Reload, ClearScreen, TypeOK
  <2>8. QED
    BY <1>3, <2>3, <2>4, <2>5, <2>6, <2>7, ManagerSteps
<1>4. QED
  BY <1>2, <1>3

LEMMA ScreensStep ==
  ASSUME Parts, ScreensShowWork, [Next]_vars
  PROVE  ScreensShowWork'
<1> USE DEF Parts
<1> SUFFICES ASSUME NEW m \in DOMAIN mgrs', NEW t, t = mgrs'[m].tab, ~Trouble(t)',
                    IsLive(m)' \/ mgrs'[m].phase = "init"
             PROVE  /\ current'[t] = m
                    /\ IsLive(m)' /\ mgrs'[m].phase = "done" => active'[t] = mgrs'[m].call
  BY DEF ScreensShowWork, Trouble
<1>1. CASE m \notin DOMAIN mgrs
  <2>1. PICK s \in Tabs : /\ mgrs'[m].tab = s /\ mgrs'[m].pc = "none"
                          /\ current' = [current EXCEPT ![s] = m]
    BY <1>1, MadeManagers DEF IsMade
  <2>2. current'[t] = m /\ ~IsLive(m)'
    BY <2>1 DEF TypeOK, IsLive, LivePc
  <2>3. QED
    BY <2>2
<1>2. CASE m \in DOMAIN mgrs
  <2>1. /\ mgrs[m].tab = t /\ mgrs'[m].call = mgrs[m].call /\ t \in Tabs
        /\ mgrs[m].phase = "done" => mgrs'[m].phase = "done"
        /\ IsLive(m) \/ mgrs[m].phase = "init"
    BY <1>2, ManagersGoOn, Ends
  <2>2. ~Trouble(t)
    BY <2>1, FactsGoOn
  <2>3. \A n \in DOMAIN mgrs : mgrs[n].tab = t /\ IsLive(n) => n = m
    BY <1>2, <2>1, <2>2 DEF ScreensShowWork
  <2>4. /\ current[t] = m /\ m # 0
        /\ IsLive(m) /\ mgrs[m].phase = "done" => active[t] = mgrs[m].call
    BY <1>2, <2>1, <2>2, Elements DEF ScreensShowWork
  <2>5. ASSUME IsClosed(m, mgrs'[m]) PROVE FALSE
    <3>1. ~IsLive(m)'
      BY <2>5 DEF IsClosed, IsLive, LivePc
    <3>2. mgrs'[m].phase = "init" /\ mgrs[m].phase = "init"
      BY <2>5, <3>1 DEF IsClosed
    <3>3. mgrs'[m].doomed
      BY <2>5, <3>2, Zenon DEF IsClosed
    <3>4. m \in DOMAIN mgrs' /\ mgrs'[m].tab = t
      OBVIOUS
    <3>5. Trouble(t)'
      BY <3>3, <3>4, Zenon DEF Trouble
    <3>6. QED
      BY <3>5
  <2>6. current'[t] = m
    <3>1. ASSUME Accept(t), current'[t] = Len(mgrs) + 1 PROVE FALSE
      <4>1. PICK k \in DOMAIN mgrs' : k = Len(mgrs) + 1 /\ k \notin DOMAIN mgrs
        <5>1. incoming[t] \in DOMAIN calls' /\ NewManager(t, incoming[t]) /\ calls' = calls
          BY <2>1, <3>1, Elements DEF Accept, TypeOK
        <5>2. calls' \in Seq([from : Tabs, to : Users]) /\ Len(calls) <= Len(calls')
          BY <5>1, Elements DEF TypeOK
        <5>3. /\ DOMAIN mgrs' = DOMAIN mgrs \cup {Len(mgrs) + 1}
              /\ Len(mgrs) + 1 \notin DOMAIN mgrs
          BY <2>1, <5>1, <5>2, NewManagerTypes
        <5>4. QED
          BY <5>3
      <4>2. PICK s \in Tabs :
              /\ mgrs'[k].tab = s
              /\ mgrs'[k].second <=> \E n \in DOMAIN mgrs : mgrs[n].tab = s /\ AtWork(n)
              /\ current' = [current EXCEPT ![s] = k]
        BY <4>1, MadeManagers DEF IsMade
      <4>3. s = t
        <5>1. current[t] # k
          BY <1>2, <2>4, <4>1
        <5>2. QED
          BY <2>1, <3>1, <4>1, <4>2, <5>1 DEF TypeOK
      <4>4. AtWork(m)
        BY <2>1 DEF AtWork
      <4>5. mgrs'[k].second
        BY <1>2, <2>1, <4>2, <4>3, <4>4, Zenon
      <4>6. Trouble(t)'
        BY <4>2, <4>3, <4>5, Zenon DEF Trouble
      <4>7. QED
        BY <4>6
    <3>2. ASSUME NEW S, mgrs' = Destroyed(S), m \in S PROVE FALSE
      BY <1>2, <2>5, <3>2, DestroyedTypes
    <3>3. ASSUME End(t) PROVE FALSE
      <4>1. mgrs' = Destroyed({current[t]} \ {0}) /\ m \in {current[t]} \ {0}
        BY <2>4, <3>3 DEF End
      <4>2. QED
        BY <3>2, <4>1
    <3>4. ASSUME Reload(t) PROVE FALSE
      BY <1>2, <2>1, <3>4, ReloadSteps DEF IsLive, LivePc
    <3>5. ASSUME NEW u \in Tabs, ReceiveHangup(u, t), Listening(t) # {} PROVE FALSE
      <4>1. PICK n \in DOMAIN mgrs : n \in Listening(t) /\ mgrs[n].tab = t /\ mgrs[n].sub
        BY <3>5 DEF Listening
      <4>2. IsLive(n)
        BY <4>1 DEF ManagersAreSound
      <4>3. m \in Listening(t) /\ mgrs' = Destroyed(Listening(t))
        BY <2>3, <3>5, <4>1, <4>2 DEF ReceiveHangup
      <4>4. QED
        BY <3>2, <4>3
    <3>6. ASSUME NEW n \in DOMAIN mgrs, PeerFails(n), mgrs[n].tab = t PROVE FALSE
      <4>1. IsLive(n)
        BY <3>6 DEF PeerFails, IsLive, LivePc
      <4>2. mgrs' = Destroyed({m})
        BY <2>3, <3>6, <4>1 DEF PeerFails
      <4>3. QED
        BY <3>2, <4>2
    <3>7. QED
      BY <2>1, <2>4, <3>1, <3>3, <3>4, <3>5, <3>6, ScreenSteps
  <2>7. ASSUME IsLive(m)', mgrs'[m].phase = "done" PROVE active'[t] = mgrs[m].call
    <3>1. ASSUME NEW n \in DOMAIN mgrs, Offer(n) \/ Answer(n), mgrs[n].tab = t,
                 active'[t] = mgrs[n].call
          PROVE  active'[t] = mgrs[m].call
      <4>1. IsLive(n)
        BY <3>1 DEF Offer, Answer, Ready, IsLive, LivePc
      <4>2. QED
        BY <2>3, <3>1, <4>1
    <3>2. ASSUME mgrs[m].phase = "done" PROVE active'[t] = mgrs[m].call
      <4>1. active[t] = mgrs[m].call /\ active[t] # 0
        <5>1. IsLive(m)
          BY <2>1, <3>2
        <5>2. mgrs[m].call # 0
          BY <1>2, Ends, Elements
        <5>3. QED
          BY <2>4, <3>2, <5>1, <5>2
      <4>2. QED
        BY <2>1, <2>4, <2>6, <3>1, <4>1, ScreenSteps
    <3>3. ASSUME mgrs[m].phase # "done" PROVE active'[t] = mgrs[m].call
      <4>1. Offer(m) \/ Answer(m)
        <5>1. mgrs'[m] # mgrs[m]
          BY <2>7, <3>3
        <5>2. ASSUME NEW u \in Tabs, Joins(m, u) PROVE FALSE
          BY <2>7, <3>3, <5>2 DEF Joins
        <5>3. ~IsDestroyed(m) /\ ~IsReloaded(m)
          BY <2>7, <3>3 DEF IsDestroyed, IsClosed, IsReloaded, IsLive, LivePc
        <5>4. CASE Proceeds(m)
          BY <1>2, <2>7, <5>4 DEF Proceeds, Works, InitFails, SetupFails, ManagersAreSound,
                                  IsLive, LivePc
        <5>5. QED
          BY <1>2, <5>1, <5>2, <5>3, <5>4, ManagerSteps
      <4>2. active' = [active EXCEPT ![t] = mgrs[m].call]
        BY <2>1, <4>1 DEF Offer, Answer, Ready
      <4>3. QED
        BY <2>1, <4>2 DEF TypeOK
    <3>4. QED
      BY <3>2, <3>3
  <2>8. QED
    BY <2>1, <2>6, <2>7
<1>3. QED
  BY <1>1, <1>2

----------------------------------------------------------------------------
\* What a step does to a wire.

\* The frames that are put on it: an offer, an answer, a refusal, or the hangup
\* of a manager that closes.
IsSent(p, f) ==
  /\ f.to = Owner[p[2]]
  /\ \/ \E m \in DOMAIN mgrs :
          /\ Offer(m) /\ p[1] = mgrs[m].tab
          /\ f = Frame("webrtc_offer", mgrs[m].call, Callee(mgrs[m].call), m)
     \/ \E m \in DOMAIN mgrs :
          /\ Answer(m) /\ p[1] = mgrs[m].tab
          /\ f = Frame("webrtc_answer", mgrs[m].call, Owner[Caller(mgrs[m].call)], m)
     \/ /\ Decline(p[1])
        /\ f = Frame("call_hangup", incoming[p[1]], Owner[Caller(incoming[p[1]])], 0)
     \/ \E m \in DOMAIN mgrs :
          /\ mgrs[m].tab = p[1] /\ IsLive(m) /\ mgrs'[m].pc = "closed"
          /\ f = Hangup(m)

\* The first k frames of wire p are taken off, the others move up, and what is
\* behind them is sent now, each once.
Moves(p, k) ==
  /\ k \in 0..Len(wire[p])
  /\ Len(wire'[p]) \in Nat /\ DOMAIN wire'[p] = 1..Len(wire'[p])
  /\ \A i \in DOMAIN wire[p] :
       i > k => i - k \in DOMAIN wire'[p] /\ wire'[p][i - k] = wire[p][i]
  /\ \A i \in DOMAIN wire'[p] :
       \/ i + k \in DOMAIN wire[p] /\ wire'[p][i] = wire[p][i + k]
       \/ i + k > Len(wire[p]) /\ IsSent(p, wire'[p][i])
  /\ \A i, j \in DOMAIN wire'[p] :
       i + k > Len(wire[p]) /\ j + k > Len(wire[p]) /\ wire'[p][i] = wire'[p][j] => i = j

LEMMA ShiftMoves ==
  ASSUME TypeOK, NEW p \in Pairs, NEW k \in Nat, NEW s \in Seq(Frames),
         Len(s) + k = Len(wire[p]), \A i \in 1..Len(s) : s[i] = wire[p][i + k],
         NEW v \in Seq(Frames), wire'[p] = v, Len(s) <= Len(v),
         \A i \in 1..Len(s) : v[i] = s[i],
         \A i \in Len(s) + 1..Len(v) : IsSent(p, v[i]),
         \A i, j \in Len(s) + 1..Len(v) : v[i] = v[j] => i = j
  PROVE  Moves(p, k)
<1>1. PICK n \in Nat : n = Len(s)
  BY LenProperties
<1>2. PICK l \in Nat : l = Len(v)
  <2>1. Len(v) \in Nat
    BY LenProperties
  <2>2. QED
    BY <2>1
<1>3. /\ Len(wire[p]) = n + k /\ DOMAIN wire[p] = 1..n + k /\ n <= l
      /\ DOMAIN v = 1..l
  BY <1>1, <1>2, Elements, LenProperties
<1>4. ASSUME NEW i \in 1..n + k, i > k
      PROVE  i - k \in 1..l /\ v[i - k] = wire[p][i]
  <2>1. PICK j \in 1..n : j = i - k /\ j + k = i /\ j \in 1..l
    BY <1>3, <1>4
  <2>2. QED
    BY <1>1, <2>1
<1>5. ASSUME NEW i \in 1..l
      PROVE  \/ i + k \in 1..n + k /\ v[i] = wire[p][i + k]
             \/ i + k > n + k /\ IsSent(p, v[i])
  <2>1. CASE i <= n
    <3>1. i \in 1..n /\ i + k \in 1..n + k
      BY <2>1
    <3>2. QED
      BY <1>1, <3>1
  <2>2. CASE i > n
    <3>1. i \in n + 1..l /\ i + k > n + k
      BY <2>2
    <3>2. QED
      BY <1>1, <1>2, <3>1
  <2>3. QED
    BY <2>1, <2>2
<1>6. ASSUME NEW i \in 1..l, NEW j \in 1..l, i + k > n + k, j + k > n + k, v[i] = v[j]
      PROVE  i = j
  <2>1. i \in n + 1..l /\ j \in n + 1..l
    BY <1>6
  <2>2. QED
    BY <1>1, <1>2, <1>6, <2>1
<1>7. k \in 0..n + k
  OBVIOUS
<1>8. /\ k \in 0..Len(wire[p])
      /\ Len(wire'[p]) \in Nat /\ DOMAIN wire'[p] = 1..Len(wire'[p])
      /\ wire'[p] = v /\ DOMAIN wire'[p] = 1..l /\ DOMAIN wire[p] = 1..n + k
      /\ Len(wire[p]) = n + k
  BY <1>2, <1>3, <1>7
<1>9. \A i \in DOMAIN wire[p] :
        i > k => i - k \in DOMAIN wire'[p] /\ wire'[p][i - k] = wire[p][i]
  BY <1>4, <1>8
<1>10. \A i \in DOMAIN wire'[p] :
         \/ i + k \in DOMAIN wire[p] /\ wire'[p][i] = wire[p][i + k]
         \/ i + k > Len(wire[p]) /\ IsSent(p, wire'[p][i])
  <2>1. ASSUME NEW i \in 1..l
        PROVE  \/ i + k \in DOMAIN wire[p] /\ v[i] = wire[p][i + k]
               \/ i + k > Len(wire[p]) /\ IsSent(p, v[i])
    BY <1>5, <1>8
  <2>2. QED
    BY <1>8, <2>1
<1>11. \A i, j \in DOMAIN wire'[p] :
         i + k > Len(wire[p]) /\ j + k > Len(wire[p]) /\ wire'[p][i] = wire'[p][j] => i = j
  BY <1>6, <1>8
<1>12. QED
  BY <1>8, <1>9, <1>10, <1>11 DEF Moves

\* A wire nothing is sent on or taken from, and the wires of a tab that sends the
\* frames F.
LEMMA StillMoves ==
  ASSUME TypeOK, NEW p \in Pairs, wire'[p] = wire[p]
  PROVE  Moves(p, 0)
<1>1. PICK s \in Seq(Frames) : s = wire[p]
  BY Elements
<1>2. PICK n \in Nat : n = Len(s)
  BY LenProperties
<1>3. \A i \in 1..n : s[i] = wire[p][i + 0]
  BY <1>1
<1>4. QED
  BY <1>1, <1>2, <1>3, ShiftMoves

LEMMA TakingMoves ==
  ASSUME TypeOK, NEW u \in Tabs, NEW t \in Tabs, <<u, t>> \in Pairs, wire[<<u, t>>] # << >>,
         NEW w, w = Taken(u, t), wire'[<<u, t>>] = w[<<u, t>>]
  PROVE  Moves(<<u, t>>, 1)
<1>1. PICK p \in Pairs : p = <<u, t>>
  OBVIOUS
<1>2. /\ w[p] \in Seq(Frames) /\ Len(wire[p]) = Len(w[p]) + 1
      /\ \A i \in DOMAIN w[p] : w[p][i] = wire[p][i + 1]
  BY <1>1, TakenFrames
<1>3. PICK s \in Seq(Frames) : s = w[p]
  BY <1>2
<1>4. Len(s) \in Nat /\ DOMAIN s = 1..Len(s)
  BY LenProperties
<1>5. \A i \in 1..Len(s) : s[i] = wire[p][i + 1]
  BY <1>2, <1>3, <1>4
<1>6. wire'[p] = s /\ Len(s) + 1 = Len(wire[p]) /\ Len(s) <= Len(s)
  BY <1>1, <1>2, <1>3, <1>4
<1>7. \A i \in Len(s) + 1..Len(s) : FALSE
  BY <1>4
<1>8. Moves(p, 1)
  BY <1>5, <1>6, <1>7, ShiftMoves
<1>9. QED
  BY <1>1, <1>8

LEMMA SendingMoves ==
  ASSUME TypeOK, NEW t \in Tabs, NEW F \in SUBSET Frames, IsFiniteSet(F),
         NEW w \in [Pairs -> Seq(Frames)], wire' = Appended(w, t, F),
         NEW p \in Pairs, w[p] = wire[p],
         \A f \in F : p[1] = t /\ f.to = Owner[p[2]] => IsSent(p, f)
  PROVE  Moves(p, 0)
<1>1. PICK v : v = wire'[p]
  OBVIOUS
<1>2. v = Appended(w, t, F)[p]
  BY <1>1
<1>3. PICK s \in Seq(Frames) : s = wire[p]
  BY Elements
<1>4. PICK n \in Nat : n = Len(s)
  BY LenProperties
<1>5. /\ v \in Seq(Frames) /\ Len(v) \in Nat /\ n <= Len(v)
      /\ \A i \in 1..n : v[i] = s[i]
      /\ \A i \in n + 1..Len(v) : p[1] = t /\ v[i] \in F /\ Reaches(t, p[2], v[i])
      /\ \A i, j \in n + 1..Len(v) : v[i] = v[j] => i = j
  <2>1. IsAppended(v, w[p], p, t, F)
    BY <1>2, AppendedFrames
  <2>2. n = Len(w[p]) /\ w[p] = s
    BY <1>3, <1>4
  <2>3. QED
    BY <2>1, <2>2 DEF IsAppended
<1>6. \A i \in n + 1..Len(v) : IsSent(p, v[i])
  BY <1>5 DEF Reaches
<1>7. \A i \in 1..Len(s) : s[i] = wire[p][i + 0]
  BY <1>3
<1>8. /\ v \in Seq(Frames) /\ wire'[p] = v /\ Len(s) <= Len(v)
      /\ \A i \in 1..Len(s) : v[i] = s[i]
      /\ \A i \in Len(s) + 1..Len(v) : IsSent(p, v[i])
      /\ \A i, j \in Len(s) + 1..Len(v) : v[i] = v[j] => i = j
  BY <1>1, <1>4, <1>5, <1>6
<1>9. Len(s) + 0 = Len(wire[p])
  BY <1>3, <1>4
<1>10. QED
  BY <1>7, <1>8, <1>9, ShiftMoves

\* A frame that is sent is on the way to every tab of its addressee, behind what
\* was there, or its call is one with a lost frame.
IsPosted(f, t, w) ==
  \/ f.call \in lost'
  \/ /\ TabsOf(f.to) # {}
     /\ \A u \in TabsOf(f.to) : <<t, u>> \in Pairs =>
          \E j \in DOMAIN wire'[<<t, u>>] :
            j > Len(w[<<t, u>>]) /\ wire'[<<t, u>>][j] = f

LEMMA SentFrames ==
  ASSUME TypeOK, NEW t \in Tabs, NEW F \in SUBSET Frames, IsFiniteSet(F),
         NEW w \in [Pairs -> Seq(Frames)], wire' = Appended(w, t, F),
         lost' = lost \cup MissedOf(t, F), NEW f \in F
  PROVE  IsPosted(f, t, w)
<1>1. CASE ~GetsToAll(t, f)
  BY <1>1 DEF MissedOf, IsPosted
<1>2. CASE GetsToAll(t, f)
  <2>1. ASSUME NEW u \in TabsOf(f.to), <<t, u>> \in Pairs
        PROVE  \E j \in DOMAIN wire'[<<t, u>>] :
                 j > Len(w[<<t, u>>]) /\ wire'[<<t, u>>][j] = f
    <3>1. PICK p \in Pairs : p = <<t, u>> /\ p[1] = t /\ p[2] = u
      BY <2>1
    <3>2. Reaches(t, p[2], f)
      BY <1>2, <3>1 DEF GetsToAll
    <3>3. PICK v : v = wire'[p]
      OBVIOUS
    <3>4. v = Appended(w, t, F)[p]
      BY <3>3
    <3>5. IsAppended(v, w[p], p, t, F)
      BY <3>4, AppendedFrames
    <3>6. PICK i \in Len(w[p]) + 1..Len(v) : v[i] = f
      BY <3>1, <3>2, <3>5 DEF IsAppended
    <3>7. DOMAIN v = 1..Len(v) /\ Len(v) \in Nat /\ Len(w[p]) \in Nat
      BY <3>5, LenProperties DEF IsAppended
    <3>8. i \in DOMAIN v /\ i > Len(w[p])
      BY <3>6, <3>7
    <3>9. QED
      BY <3>1, <3>3, <3>6, <3>8
  <2>2. QED
    BY <1>2, <2>1 DEF GetsToAll, IsPosted
<1>3. QED
  BY <1>1, <1>2

\* The goodbyes of managers of tab t are hangups of managers that close.
LEMMA GoodbyesAreSent ==
  ASSUME TypeOK, NEW t \in Tabs, NEW S \in SUBSET DOMAIN mgrs, mgrs' = Destroyed(S),
         \A m \in S : mgrs[m].tab = t,
         NEW D \in SUBSET S, NEW f \in Goodbyes(D), NEW p \in Pairs,
         p[1] = t, f.to = Owner[p[2]]
  PROVE  IsSent(p, f)
<1>1. PICK m \in D : IsLive(m) /\ f = Hangup(m)
  BY DEF Goodbyes
<1>2. PICK d : d = Destroyed(S)
  OBVIOUS
<1>3. IsClosed(m, d[m])
  BY <1>1, <1>2, DestroyedTypes
<1>4. mgrs'[m].pc = "closed"
  BY <1>1, <1>2, <1>3 DEF IsClosed
<1>5. m \in DOMAIN mgrs /\ mgrs[m].tab = p[1]
  OBVIOUS
<1>6. QED
  BY <1>1, <1>4, <1>5 DEF IsSent

\* Every step moves a wire: its first frame arrives, or nothing is taken off, or
\* all of it is, and then its calls have lost a frame.
LEMMA WireSteps ==
  ASSUME Parts, [Next]_vars, NEW p \in Pairs
  PROVE  \/ Moves(p, 0)
         \/ Moves(p, 1) /\ Receive(p[1], p[2])
         \/ wire'[p] = << >> /\ \A i \in DOMAIN wire[p] : wire[p][i].call \in lost'
<1> USE DEF Parts
<1> DEFINE Goal == \/ Moves(p, 0)
                   \/ Moves(p, 1) /\ Receive(p[1], p[2])
                   \/ wire'[p] = << >> /\ \A i \in DOMAIN wire[p] : wire[p][i].call \in lost'
<1>0. wire \in [Pairs -> Seq(Frames)] /\ p[1] \in Tabs /\ p[2] \in Tabs /\ p = <<p[1], p[2]>>
  BY DEF TypeOK, Pairs
<1>1. ASSUME wire' = wire PROVE Goal
  BY <1>1, StillMoves
<1>2. ASSUME NEW t \in Tabs, NEW f \in Frames, Send(t, {f}),
             p[1] = t /\ f.to = Owner[p[2]] => IsSent(p, f)
      PROVE  Goal
  <2>1. PICK F : F = {f}
    OBVIOUS
  <2>2. F \subseteq Frames /\ IsFiniteSet(F) /\ wire' = Appended(wire, t, F)
    BY <1>2, <2>1, FS_Singleton DEF Send
  <2>3. \A g \in F : p[1] = t /\ g.to = Owner[p[2]] => IsSent(p, g)
    BY <1>2, <2>1
  <2>4. QED
    BY <1>0, <2>2, <2>3, SendingMoves
<1>3. ASSUME NEW t \in Tabs, NEW S \in SUBSET DOMAIN mgrs, mgrs' = Destroyed(S),
             \A m \in S : mgrs[m].tab = t,
             NEW D \in SUBSET S, NEW w \in [Pairs -> Seq(Frames)], w[p] = wire[p],
             wire' = Appended(w, t, Goodbyes(D))
      PROVE  Goal
  <2>1. PICK F : F = Goodbyes(D)
    OBVIOUS
  <2>2. D \in SUBSET DOMAIN mgrs
    BY <1>3
  <2>3. F \subseteq Frames /\ IsFiniteSet(F)
    BY <2>1, <2>2, GoodbyesAreFrames
  <2>4. \A f \in F : p[1] = t /\ f.to = Owner[p[2]] => IsSent(p, f)
    BY <1>3, <2>1, GoodbyesAreSent
  <2>5. wire' = Appended(w, t, F)
    BY <1>3, <2>1
  <2>6. QED
    BY <1>3, <2>3, <2>4, <2>5, SendingMoves
<1>4. ASSUME NEW t \in Tabs, End(t) PROVE Goal
  <2>1. PICK S : S = {current[t]} \ {0}
    OBVIOUS
  <2>2. wire' = Appended(wire, t, Goodbyes(S)) /\ mgrs' = Destroyed(S)
    BY <1>4, <2>1 DEF End, Send
  <2>3. S \subseteq DOMAIN mgrs /\ \A m \in S : mgrs[m].tab = t
    BY <2>1, Elements DEF TypeOK, ComponentsHoldWork
  <2>4. QED
    BY <1>0, <1>3, <2>2, <2>3
<1>5. ASSUME NEW t \in Tabs, Decline(t) PROVE Goal
  <2>1. PICK c \in DOMAIN calls : c = incoming[t]
    BY <1>5, Elements DEF Decline, TypeOK
  <2>2. PICK f : f = Frame("call_hangup", c, Owner[Caller(c)], 0)
    OBVIOUS
  <2>3. f \in Frames
    BY <2>2, Ends, Elements DEF Frame, Frames
  <2>4. Send(t, {f})
    BY <1>5, <2>1, <2>2 DEF Decline
  <2>5. p[1] = t /\ f.to = Owner[p[2]] => IsSent(p, f)
    BY <1>5, <2>1, <2>2 DEF IsSent
  <2>6. QED
    BY <1>2, <2>3, <2>4, <2>5
<1>6. ASSUME NEW t \in Tabs, Buttons(t) PROVE Goal
  BY <1>1, <1>4, <1>5, <1>6 DEF Buttons, StartCall, Accept
<1>7. ASSUME NEW m \in DOMAIN mgrs, Offer(m) \/ Answer(m) PROVE Goal
  <2>1. PICK t \in Tabs, c \in DOMAIN calls : t = mgrs[m].tab /\ c = mgrs[m].call
    BY Ends
  <2>2. m \in 0..Len(mgrs)
    BY Elements
  <2>3. CASE Offer(m)
    <3>1. PICK f : f = Frame("webrtc_offer", c, Callee(c), m)
      OBVIOUS
    <3>2. f \in Frames
      BY <2>2, <3>1, Ends DEF Frame, Frames
    <3>3. Send(t, {f})
      BY <2>1, <2>3, <3>1 DEF Offer
    <3>4. p[1] = t /\ f.to = Owner[p[2]] => IsSent(p, f)
      BY <2>1, <2>3, <3>1 DEF IsSent
    <3>5. QED
      BY <1>2, <3>2, <3>3, <3>4
  <2>4. CASE Answer(m)
    <3>1. PICK f : f = Frame("webrtc_answer", c, Owner[Caller(c)], m)
      OBVIOUS
    <3>2. f \in Frames
      BY <2>2, <3>1, Ends DEF Frame, Frames
    <3>3. Send(t, {f})
      BY <2>1, <2>4, <3>1 DEF Answer
    <3>4. p[1] = t /\ f.to = Owner[p[2]] => IsSent(p, f)
      BY <2>1, <2>4, <3>1 DEF IsSent
    <3>5. QED
      BY <1>2, <3>2, <3>3, <3>4
  <2>5. QED
    BY <1>7, <2>3, <2>4
<1>8. ASSUME NEW m \in DOMAIN mgrs, PeerFails(m) PROVE Goal
  <2>0. PICK t \in Tabs : t = mgrs[m].tab
    BY Ends
  <2>1. PICK S : t = mgrs[m].tab /\ S = {m}
    BY <2>0
  <2>2. wire' = Appended(wire, t, Goodbyes(S)) /\ mgrs' = Destroyed(S)
    BY <1>8, <2>1 DEF PeerFails, Send
  <2>3. QED
    BY <1>0, <1>3, <2>1, <2>2
<1>9. ASSUME NEW m \in DOMAIN mgrs, InitDone(m) \/ SetupFails(m) \/ InitFails(m) PROVE Goal
  BY <1>1, <1>9 DEF InitDone, SetupFails, InitFails
<1>10. ASSUME NEW u \in Tabs, NEW t \in Tabs, <<u, t>> \in Pairs, Receive(u, t) PROVE Goal
  <2>1. wire[<<u, t>>] # << >>
    BY <1>10 DEF Receive, ReceiveOffer, ReceiveAnswer, ReceiveHangup, Arrives
  <2>2. PICK w : w = Taken(u, t)
    OBVIOUS
  <2>3. /\ w \in [Pairs -> Seq(Frames)] /\ Head1(u, t) \in Frames
        /\ p # <<u, t>> => w[p] = wire[p]
    BY <1>10, <2>1, <2>2, TakenFrames
  <2>4. CASE p = <<u, t>>
    <3>1. wire'[p] = w[p]
      <4>1. CASE ReceiveOffer(u, t) \/ ReceiveAnswer(u, t)
        BY <2>2, <4>1 DEF ReceiveOffer, ReceiveAnswer
      <4>2. CASE ReceiveHangup(u, t)
        <5>1. PICK F : wire' = Appended(w, t, F)
          BY <2>2, <4>2 DEF ReceiveHangup
        <5>2. p[1] # t
          BY <1>10, <2>4 DEF Pairs
        <5>3. Appended(w, t, F)[p] = w[p]
          BY <5>2 DEF Appended
        <5>4. QED
          BY <5>1, <5>3
      <4>3. QED
        BY <1>10, <4>1, <4>2 DEF Receive
    <3>2. Moves(p, 1)
      BY <1>10, <2>1, <2>2, <2>4, <3>1, TakingMoves
    <3>3. QED
      BY <1>10, <2>4, <3>2
  <2>5. CASE p # <<u, t>>
    <3>1. CASE ReceiveOffer(u, t) \/ ReceiveAnswer(u, t)
      <4>1. wire'[p] = wire[p]
        BY <2>2, <2>3, <2>5, <3>1 DEF ReceiveOffer, ReceiveAnswer
      <4>2. QED
        BY <4>1, StillMoves
    <3>2. CASE ReceiveHangup(u, t)
      <4>1. PICK S, D : S = Listening(t) /\ D = S \ {m \in S : Remote(m) = Owner[u]}
        OBVIOUS
      <4>2. /\ S \subseteq DOMAIN mgrs /\ D \subseteq S /\ \A m \in S : mgrs[m].tab = t
        BY <4>1 DEF Listening
      <4>3. mgrs' = Destroyed(S) /\ wire' = Appended(w, t, Goodbyes(D))
        BY <2>2, <3>2, <4>1 DEF ReceiveHangup
      <4>4. QED
        BY <1>3, <2>3, <2>5, <4>2, <4>3
    <3>3. QED
      BY <1>10, <3>1, <3>2 DEF Receive
  <2>6. QED
    BY <2>4, <2>5
<1>11. ASSUME NEW t \in Tabs, Cut(t),
              \A i \in DOMAIN wire[p] : p[2] = t => wire[p][i].call \in lost'
       PROVE  Goal
  <2>1. wire'[p] = IF p[2] = t THEN << >> ELSE wire[p]
    BY <1>11 DEF Cut
  <2>2. QED
    BY <1>11, <2>1, StillMoves
<1>12. ASSUME NEW t \in Tabs, Drop(t) PROVE Goal
  <2>1. Cut(t) /\ lost' = lost \cup DrainedTo(t)
    BY <1>12 DEF Drop
  <2>2. ASSUME NEW i \in DOMAIN wire[p], p[2] = t PROVE wire[p][i].call \in DrainedTo(t)
    BY <2>2 DEF DrainedTo
  <2>3. QED
    BY <1>11, <2>1, <2>2
<1>13. ASSUME NEW t \in Tabs, Reload(t) PROVE Goal
  <2>1. Cut(t) /\ lost' = lost \cup {c \in DOMAIN calls : Owner[t] \in PartiesOf(c)}
    BY <1>13 DEF Reload
  <2>2. ASSUME NEW i \in DOMAIN wire[p], p[2] = t PROVE wire[p][i].call \in lost'
    <3>1. PICK f \in Frames : f = wire[p][i]
      BY Elements
    <3>2. FrameIsTheirs(p, f)
      BY <3>1 DEF FramesAreTheirs
    <3>3. f.call \in DOMAIN calls /\ Owner[t] \in PartiesOf(f.call)
      BY <2>2, <3>2 DEF FrameIsTheirs, PartiesOf, Frames
    <3>4. QED
      BY <2>1, <3>1, <3>3
  <2>3. QED
    BY <1>11, <2>1, <2>2
<1>14. ASSUME UNCHANGED vars \/ \E t \in Tabs : Reconnect(t) PROVE Goal
  BY <1>1, <1>14 DEF vars, Reconnect
<1> HIDE DEF Goal
<1>15. ASSUME NEW q \in Pairs, Receive(q[1], q[2]) PROVE Goal
  <2>1. q[1] \in Tabs /\ q[2] \in Tabs /\ <<q[1], q[2]>> \in Pairs
    BY DEF Pairs
  <2>2. QED
    BY <1>10, <1>15, <2>1
<1>16. Goal
  BY <1>6, <1>7, <1>8, <1>9, <1>12, <1>13, <1>14, <1>15 DEF Next, Script, Environment
<1>17. QED
  BY <1>16 DEF Goal

\* What is on a wire afterwards was on it, or is sent.
LEMMA OldOrSent ==
  ASSUME Parts, [Next]_vars, NEW p \in Pairs, NEW i \in DOMAIN wire'[p]
  PROVE  \/ \E j \in DOMAIN wire[p] : wire'[p][i] = wire[p][j]
         \/ IsSent(p, wire'[p][i])
<1>1. ASSUME NEW k \in 0..1, Moves(p, k)
      PROVE  \/ \E j \in DOMAIN wire[p] : wire'[p][i] = wire[p][j]
             \/ IsSent(p, wire'[p][i])
  BY <1>1 DEF Moves
<1>2. wire'[p] # << >>
  OBVIOUS
<1>3. QED
  BY <1>1, <1>2, WireSteps

\* What changes the ring of a tab.
LEMMA RingSteps ==
  ASSUME Parts, [Next]_vars, NEW t \in Tabs, incoming'[t] # incoming[t]
  PROVE  \/ \E u \in Tabs : /\ <<u, t>> \in Pairs /\ ReceiveOffer(u, t)
                            /\ incoming'[t] = Head1(u, t).call
         \/ /\ incoming'[t] = 0
            /\ \/ \E m \in DOMAIN mgrs : Answer(m) /\ mgrs[m].tab = t
               \/ Decline(t) \/ Reload(t)
               \/ \E u \in Tabs : /\ <<u, t>> \in Pairs /\ ReceiveHangup(u, t)
                                  /\ incoming[t] = Head1(u, t).call
<1> USE DEF Parts
<1> DEFINE Goal == \/ \E u \in Tabs : /\ <<u, t>> \in Pairs /\ ReceiveOffer(u, t)
                                      /\ incoming'[t] = Head1(u, t).call
                   \/ /\ incoming'[t] = 0
                      /\ \/ \E m \in DOMAIN mgrs : Answer(m) /\ mgrs[m].tab = t
                         \/ Decline(t) \/ Reload(t)
                         \/ \E u \in Tabs : /\ <<u, t>> \in Pairs /\ ReceiveHangup(u, t)
                                            /\ incoming[t] = Head1(u, t).call
<1>0. incoming \in [Tabs -> 0..Len(calls)]
  BY DEF TypeOK
<1>1. ASSUME NEW s \in Tabs, NEW c, incoming' = [incoming EXCEPT ![s] = c]
      PROVE  s = t /\ incoming'[t] = c
  <2>1. CASE s = t
    BY <1>0, <1>1, <2>1
  <2>2. CASE s # t
    BY <1>0, <1>1, <2>2
  <2>3. QED
    BY <2>1, <2>2
<1>2. ASSUME NEW s \in Tabs, Buttons(s) PROVE Goal
  <2>1. Decline(s)
    BY <1>2 DEF Buttons, StartCall, Accept, End
  <2>2. incoming' = [incoming EXCEPT ![s] = 0]
    BY <2>1 DEF Decline
  <2>3. QED
    BY <1>1, <2>1, <2>2
<1>3. ASSUME NEW m \in DOMAIN mgrs, Script(m) \/ InitFails(m) \/ PeerFails(m) PROVE Goal
  <2>1. Answer(m)
    BY <1>3 DEF Script, InitDone, SetupFails, Offer, InitFails, PeerFails, screen
  <2>2. incoming' = [incoming EXCEPT ![mgrs[m].tab] = 0] /\ mgrs[m].tab \in Tabs
    BY <2>1, Ends DEF Answer
  <2>3. QED
    BY <1>1, <2>1, <2>2
<1>4. ASSUME NEW p \in Pairs, Receive(p[1], p[2]) PROVE Goal
  <2>1. PICK u \in Tabs, s \in Tabs : u = p[1] /\ s = p[2] /\ <<u, s>> \in Pairs
    BY DEF Pairs
  <2>2. CASE ReceiveOffer(u, s)
    <3>1. incoming' = [incoming EXCEPT ![s] = Head1(u, s).call]
      BY <2>2 DEF ReceiveOffer
    <3>2. QED
      BY <1>1, <2>1, <2>2, <3>1
  <2>3. CASE ReceiveAnswer(u, s)
    BY <2>3 DEF ReceiveAnswer, screen
  <2>4. CASE ReceiveHangup(u, s)
    <3>1. /\ incoming[s] = Head1(u, s).call
          /\ incoming' = [incoming EXCEPT ![s] = 0]
      BY <2>4 DEF ReceiveHangup, StopRing
    <3>2. QED
      BY <1>1, <2>1, <2>4, <3>1
  <2>5. QED
    BY <1>4, <2>1, <2>2, <2>3, <2>4 DEF Receive
<1>5. ASSUME Environment PROVE Goal
  <2>1. PICK s \in Tabs : Reload(s)
    BY <1>5 DEF Environment, Drop, Reconnect, screen
  <2>2. incoming' = [incoming EXCEPT ![s] = 0]
    BY <2>1 DEF Reload
  <2>3. QED
    BY <1>1, <2>1, <2>2
<1>6. ASSUME UNCHANGED vars PROVE Goal
  BY <1>6 DEF vars, screen
<1> HIDE DEF Goal
<1>7. Goal
  BY <1>2, <1>3, <1>4, <1>5, <1>6 DEF Next
<1>8. QED
  BY <1>7 DEF Goal

----------------------------------------------------------------------------
\* Frames and rings belong to their calls.

LEMMA TheirsGoOn ==
  ASSUME Parts, [Next]_vars, NEW p \in Pairs, NEW f \in Frames, FrameIsTheirs(p, f)
  PROVE  FrameIsTheirs(p, f)'
<1> USE DEF Parts
<1>0. PICK c \in DOMAIN calls : c = f.call
  BY DEF Frames
<1>1. PICK n : c = f.call /\ n = f.sdp
  BY <1>0
<1>2. /\ Caller(c)' = Caller(c) /\ Callee(c)' = Callee(c)
      /\ Announced(c)' /\ (CallerGone(c) => CallerGone(c)')
  BY <1>1, CallsGoOn, FactsGoOn DEF FrameIsTheirs
<1>3. n \in DOMAIN mgrs => /\ n \in DOMAIN mgrs' /\ mgrs'[n].call = mgrs[n].call
                           /\ mgrs'[n].tab = mgrs[n].tab
                           /\ mgrs[n].pc \in Called => mgrs'[n].pc \in Called
  BY ManagersGoOn
<1>4. FrameIsTheirs(p, f)
  OBVIOUS
<1>5. /\ f.to = Owner[p[2]]
      /\ \/ p[1] = Caller(c) /\ f.to = Callee(c)
         \/ Owner[p[1]] = Callee(c) /\ f.to = Owner[Caller(c)]
      /\ f.type \in {"webrtc_offer", "webrtc_answer"} =>
           n \in DOMAIN mgrs /\ mgrs[n].call = c /\ mgrs[n].tab = p[1]
      /\ f.type = "webrtc_offer" => p[1] = Caller(c) /\ mgrs[n].pc \in Called
      /\ f.type = "webrtc_answer" => p[1] # Caller(c)
      /\ f.type = "call_hangup" /\ p[1] = Caller(c) => CallerGone(c)
  BY <1>1, <1>4 DEF FrameIsTheirs
<1>6. /\ f.to = Owner[p[2]] /\ Announced(c)'
      /\ \/ p[1] = Caller(c)' /\ f.to = Callee(c)'
         \/ Owner[p[1]] = Callee(c)' /\ f.to = Owner[Caller(c)']
      /\ f.type \in {"webrtc_offer", "webrtc_answer"} =>
           n \in DOMAIN mgrs' /\ mgrs'[n].call = c /\ mgrs'[n].tab = p[1]
      /\ f.type = "webrtc_offer" => p[1] = Caller(c)' /\ mgrs'[n].pc \in Called
      /\ f.type = "webrtc_answer" => p[1] # Caller(c)'
      /\ f.type = "call_hangup" /\ p[1] = Caller(c)' => CallerGone(c)'
  BY <1>2, <1>3, <1>5
<1>7. QED
  BY <1>1, <1>6 DEF FrameIsTheirs

LEMMA SentAreTheirs ==
  ASSUME Parts, [Next]_vars, NEW p \in Pairs, NEW f, IsSent(p, f)
  PROVE  FrameIsTheirs(p, f)'
<1> USE DEF Parts
<1>1. \A c \in DOMAIN calls : Caller(c)' = Caller(c) /\ Callee(c)' = Callee(c)
  BY CallsGoOn
<1>2. ASSUME NEW m \in DOMAIN mgrs, Offer(m), p[1] = mgrs[m].tab,
             f = Frame("webrtc_offer", mgrs[m].call, Callee(mgrs[m].call), m)
      PROVE  FrameIsTheirs(p, f)'
  <2>1. PICK c \in DOMAIN calls : c = mgrs[m].call
    BY Ends
  <2>2. /\ f.type = "webrtc_offer" /\ f.call = c /\ f.to = Callee(c) /\ f.sdp = m
        /\ f.to = Owner[p[2]]
    BY <1>2, <2>1 DEF Frame, IsSent
  <2>3. p[1] = Caller(c) /\ Ready(m, "offered")
    BY <1>2, <2>1 DEF Offer
  <2>4. /\ m \in DOMAIN mgrs' /\ mgrs'[m].call = c /\ mgrs'[m].tab = p[1]
        /\ mgrs'[m].pc = "offered"
    <3>1. "offered" \in LivePc
      BY DEF LivePc
    <3>2. Works(m, "done", mgrs[m].sub, "offered")
      BY <2>3, <3>1, ScriptSteps
    <3>3. QED
      BY <1>2, <2>1, <3>2 DEF Works
  <2>5. Announced(c)'
    BY <1>1, <2>3, <2>4 DEF Announced, LeadsCall, Called, Caller
  <2>6. QED
    BY <1>1, <2>2, <2>3, <2>4, <2>5 DEF FrameIsTheirs, Called
<1>3. ASSUME NEW m \in DOMAIN mgrs, Answer(m), p[1] = mgrs[m].tab,
             f = Frame("webrtc_answer", mgrs[m].call, Owner[Caller(mgrs[m].call)], m)
      PROVE  FrameIsTheirs(p, f)'
  <2>1. PICK c \in DOMAIN calls : c = mgrs[m].call
    BY Ends
  <2>2. /\ f.type = "webrtc_answer" /\ f.call = c /\ f.to = Owner[Caller(c)] /\ f.sdp = m
        /\ f.to = Owner[p[2]]
    BY <1>3, <2>1 DEF Frame, IsSent
  <2>3. p[1] # Caller(c)
    BY <1>3, <2>1 DEF Answer
  <2>4. Owner[p[1]] = Callee(c) /\ Announced(c)
    BY <1>3, <2>1, <2>3 DEF ManagersAreSound, LeadsCall
  <2>5. m \in DOMAIN mgrs' /\ mgrs'[m].call = c /\ mgrs'[m].tab = p[1] /\ Announced(c)'
    BY <1>3, <2>1, <2>4, ManagersGoOn, FactsGoOn
  <2>6. QED
    BY <1>1, <2>2, <2>3, <2>4, <2>5 DEF FrameIsTheirs
<1>4. ASSUME Decline(p[1]),
             f = Frame("call_hangup", incoming[p[1]], Owner[Caller(incoming[p[1]])], 0)
      PROVE  FrameIsTheirs(p, f)'
  <2>1. p[1] \in Tabs
    BY DEF Pairs
  <2>2. PICK c \in DOMAIN calls : c = incoming[p[1]] /\ c # 0
    BY <1>4, <2>1, Elements DEF Decline, TypeOK
  <2>3. /\ f.type = "call_hangup" /\ f.call = c /\ f.to = Owner[Caller(c)]
        /\ f.to = Owner[p[2]]
    BY <1>4, <2>2 DEF Frame, IsSent
  <2>4. Owner[p[1]] = Callee(c) /\ Announced(c)
    BY <2>1, <2>2 DEF RingsAreForMe
  <2>5. p[1] # Caller(c) /\ Announced(c)'
    BY <2>4, FactsGoOn DEF CallsAreBetweenTwo
  <2>6. QED
    BY <1>1, <2>3, <2>4, <2>5 DEF FrameIsTheirs
<1>5. ASSUME NEW m \in DOMAIN mgrs, mgrs[m].tab = p[1], IsLive(m), mgrs'[m].pc = "closed",
             f = Hangup(m)
      PROVE  FrameIsTheirs(p, f)'
  <2>1. PICK c \in DOMAIN calls : c = mgrs[m].call
    BY Ends
  <2>2. /\ f.type = "call_hangup" /\ f.call = c /\ f.to = Remote(m) /\ f.to = Owner[p[2]]
    BY <1>5, <2>1 DEF Frame, Hangup, IsSent
  <2>3. CASE LeadsCall(m)
    <3>1. p[1] = Caller(c) /\ f.to = Callee(c)
      BY <1>5, <2>1, <2>2, <2>3 DEF LeadsCall, Remote
    <3>2. m \in DOMAIN mgrs' /\ mgrs'[m].call = c /\ LeadsCall(m)'
      BY <2>1, <2>3, ManagersGoOn
    <3>3. Announced(c)'
      BY <1>5, <3>2 DEF Announced, Called
    <3>4. CallerGone(c)'
      <4>1. ASSUME NEW n \in DOMAIN mgrs', mgrs'[n].call = c, LeadsCall(n)'
            PROVE  n = m
        BY <3>2, <4>1, CallersStep DEF OneManagerCalls
      <4>2. QED
        BY <1>5, <4>1 DEF CallerGone
    <3>5. QED
      BY <1>1, <2>2, <3>1, <3>3, <3>4 DEF FrameIsTheirs
  <2>4. CASE ~LeadsCall(m)
    <3>1. p[1] # Caller(c) /\ f.to = Owner[Caller(c)]
      BY <1>5, <2>1, <2>2, <2>4 DEF LeadsCall, Remote
    <3>2. Owner[p[1]] = Callee(c) /\ Announced(c)
      BY <1>5, <2>1, <2>4 DEF ManagersAreSound
    <3>3. Announced(c)'
      BY <3>2, FactsGoOn
    <3>4. QED
      BY <1>1, <2>2, <3>1, <3>2, <3>3 DEF FrameIsTheirs
  <2>5. QED
    BY <2>3, <2>4
<1>6. QED
  BY <1>2, <1>3, <1>4, <1>5 DEF IsSent

LEMMA FramesStep ==
  ASSUME Parts, [Next]_vars
  PROVE  FramesAreTheirs' /\ RingsAreForMe'
<1> USE DEF Parts
<1>1. ASSUME NEW p \in Pairs, NEW i \in DOMAIN wire'[p]
      PROVE  FrameIsTheirs(p, wire[p][i])'
  <2>1. PICK f : f = wire'[p][i]
    OBVIOUS
  <2>2. FrameIsTheirs(p, f)'
    <3>1. ASSUME NEW j \in DOMAIN wire[p], f = wire[p][j] PROVE FrameIsTheirs(p, f)'
      BY <3>1, TheirsGoOn, Elements DEF FramesAreTheirs
    <3>2. QED
      BY <2>1, <3>1, OldOrSent, SentAreTheirs
  <2>3. QED
    BY <2>1, <2>2 DEF FrameIsTheirs, Announced, CallerGone
<1>2. ASSUME NEW t \in Tabs, incoming'[t] # 0
      PROVE  Owner[t] = Callee(incoming[t])' /\ Announced(incoming[t])'
  <2>1. PICK c : c = incoming'[t] /\ c # 0
    BY <1>2
  <2>2. c \in DOMAIN calls /\ Owner[t] = Callee(c) /\ Announced(c)
    <3>1. CASE incoming[t] = c
      BY <2>1, <3>1, Elements DEF RingsAreForMe, TypeOK
    <3>2. CASE incoming[t] # c
      <4>1. PICK u \in Tabs : /\ <<u, t>> \in Pairs /\ ReceiveOffer(u, t)
                              /\ c = Head1(u, t).call
        BY <2>1, <3>2, RingSteps
      <4>2. PICK f \in Frames : /\ f = Head1(u, t) /\ f.type = "webrtc_offer" /\ f.call = c
                                /\ 1 \in DOMAIN wire[<<u, t>>] /\ f = wire[<<u, t>>][1]
        <5>1. wire[<<u, t>>] # << >> /\ Head1(u, t).type = "webrtc_offer"
          BY <4>1 DEF ReceiveOffer, Arrives
        <5>2. PICK v : v = Taken(u, t)
          OBVIOUS
        <5>3. QED
          BY <4>1, <5>1, <5>2, TakenFrames
      <4>3. FrameIsTheirs(<<u, t>>, f)
        BY <4>1, <4>2 DEF FramesAreTheirs
      <4>4. c \in DOMAIN calls /\ Announced(c) /\ f.to = Owner[t] /\ u = Caller(c)
        BY <4>2, <4>3 DEF FrameIsTheirs, Frames
      <4>5. f.to = Callee(c)
        BY <4>2, <4>3, <4>4 DEF FrameIsTheirs, CallsAreBetweenTwo
      <4>6. QED
        BY <4>4, <4>5
    <3>3. QED
      BY <3>1, <3>2
  <2>3. Callee(c)' = Callee(c) /\ Announced(c)'
    BY <2>2, CallsGoOn, FactsGoOn
  <2>4. QED
    BY <2>1, <2>2, <2>3 DEF Callee, Announced
<1>3. QED
  BY <1>1, <1>2 DEF FramesAreTheirs, RingsAreForMe

LEMMA PartsStep ==
  ASSUME Parts, [Next]_vars
  PROVE  Parts'
BY TypeStep, SoundStep, CallersStep, ComponentsStep, FramesStep DEF Parts

----------------------------------------------------------------------------
\* Partings.

\* The first frame of a wire that arrives, and whom it is from.
LEMMA Arrivals ==
  ASSUME Parts, NEW u \in Tabs, NEW t \in Tabs, <<u, t>> \in Pairs, wire[<<u, t>>] # << >>
  PROVE  /\ 1 \in DOMAIN wire[<<u, t>>] /\ wire[<<u, t>>][1] = Head1(u, t)
         /\ Head1(u, t) \in Frames /\ Head1(u, t).call \in DOMAIN calls
         /\ FrameIsTheirs(<<u, t>>, Head1(u, t))
<1> USE DEF Parts
<1>1. PICK v : v = Taken(u, t)
  OBVIOUS
<1>2. /\ 1 \in DOMAIN wire[<<u, t>>] /\ wire[<<u, t>>][1] = Head1(u, t)
      /\ Head1(u, t) \in Frames
  BY <1>1, TakenFrames
<1>3. FrameIsTheirs(<<u, t>>, Head1(u, t))
  BY <1>2 DEF FramesAreTheirs
<1>4. QED
  BY <1>2, <1>3 DEF Frames

\* A manager's tab and the tabs it talks to are two users'.
LEMMA OtherEnds ==
  ASSUME Parts, NEW m \in DOMAIN mgrs, NEW u \in TabsOf(Remote(m))
  PROVE  /\ <<mgrs[m].tab, u>> \in Pairs /\ <<u, mgrs[m].tab>> \in Pairs
         /\ u \in Tabs /\ Owner[u] = Remote(m)
<1>1. PICK c \in DOMAIN calls, t \in Tabs : c = mgrs[m].call /\ t = mgrs[m].tab
  BY Ends DEF Parts
<1>2. Owner[Caller(c)] # Callee(c)
  BY DEF Parts, CallsAreBetweenTwo
<1>3. Owner[t] # Remote(m)
  BY <1>1, <1>2 DEF Parts, ManagersAreSound, LeadsCall, Remote
<1>4. u \in Tabs /\ Owner[u] = Remote(m)
  BY DEF TabsOf
<1>5. QED
  BY <1>1, <1>3, <1>4 DEF Pairs

\* The hangup of call c is sent from tab t to tab u, behind what was there.
IsHungUp(c, t, u) ==
  \E j \in DOMAIN wire'[<<t, u>>] : /\ j > Len(wire[<<t, u>>])
                                    /\ wire'[<<t, u>>][j].type = "call_hangup"
                                    /\ wire'[<<t, u>>][j].call = c

\* A connection does not close without a word: something goes wrong with its
\* call, every tab at the other end is told, or one of them has just said that
\* the call is over.
LEMMA Parting ==
  ASSUME Parts, [Next]_vars, NEW m \in DOMAIN mgrs, IsLive(m), ~IsLive(m)',
         NEW c, c = mgrs[m].call
  PROVE  \/ c \in lost' \cup crossed'
         \/ /\ TabsOf(Remote(m)) # {}
            /\ \A u \in TabsOf(Remote(m)) : IsHungUp(c, mgrs[m].tab, u)
         \/ \E u \in TabsOf(Remote(m)) : /\ ReceiveHangup(u, mgrs[m].tab)
                                         /\ Head1(u, mgrs[m].tab).call = c
<1> USE DEF Parts
<1>1. PICK t \in Tabs : t = mgrs[m].tab /\ c \in DOMAIN calls
  BY Ends
<1> DEFINE Goal == \/ c \in lost' \cup crossed'
                   \/ /\ TabsOf(Remote(m)) # {}
                      /\ \A u \in TabsOf(Remote(m)) : IsHungUp(c, t, u)
                   \/ \E u \in TabsOf(Remote(m)) : ReceiveHangup(u, t) /\ Head1(u, t).call = c
<1>2. ASSUME NEW S \in SUBSET DOMAIN mgrs, m \in S, NEW w \in [Pairs -> Seq(Frames)],
             \A u \in Tabs : <<t, u>> \in Pairs => w[<<t, u>>] = wire[<<t, u>>],
             wire' = Appended(w, t, Goodbyes(S)), lost' = lost \cup MissedOf(t, Goodbyes(S))
      PROVE  Goal
  <2>1. PICK F, f : F = Goodbyes(S) /\ f = Hangup(m)
    OBVIOUS
  <2>2. F \subseteq Frames /\ IsFiniteSet(F)
    BY <2>1, GoodbyesAreFrames
  <2>3. f \in F
    BY <1>2, <2>1 DEF Goodbyes
  <2>4. f.type = "call_hangup" /\ f.call = c /\ f.to = Remote(m)
    BY <2>1 DEF Hangup, Frame
  <2>5. wire' = Appended(w, t, F) /\ lost' = lost \cup MissedOf(t, F)
    BY <1>2, <2>1
  <2>6. \/ f.call \in lost'
        \/ /\ TabsOf(f.to) # {}
           /\ \A u \in TabsOf(f.to) : <<t, u>> \in Pairs =>
                \E j \in DOMAIN wire'[<<t, u>>] :
                  j > Len(w[<<t, u>>]) /\ wire'[<<t, u>>][j] = f
    <3>1. IsPosted(f, t, w)
      BY <2>2, <2>3, <2>5, SentFrames
    <3>2. QED
      BY <3>1 DEF IsPosted
  <2>7. ASSUME NEW u \in TabsOf(Remote(m)), f.call \notin lost' PROVE IsHungUp(c, t, u)
    <3>1. <<t, u>> \in Pairs /\ u \in Tabs
      BY <1>1, OtherEnds
    <3>2. w[<<t, u>>] = wire[<<t, u>>]
      BY <1>2, <3>1
    <3>3. QED
      BY <2>4, <2>6, <2>7, <3>1, <3>2 DEF IsHungUp
  <2>8. QED
    BY <2>4, <2>6, <2>7
<1>3. wire \in [Pairs -> Seq(Frames)]
  BY DEF TypeOK
<1>4. ASSUME NEW s \in Tabs, End(s), current[s] = m PROVE Goal
  <2>1. s = t /\ m # 0
    BY <1>1, <1>4, Elements DEF ComponentsHoldWork
  <2>2. PICK S \in SUBSET DOMAIN mgrs : S = {current[s]} \ {0} /\ m \in S
    BY <1>4, <2>1
  <2>3. Send(t, Goodbyes(S))
    BY <1>4, <2>1, <2>2 DEF End
  <2>4. QED
    BY <1>2, <1>3, <2>2, <2>3 DEF Send
<1>5. ASSUME PeerFails(m) PROVE Goal
  <2>1. PICK S \in SUBSET DOMAIN mgrs : S = {m}
    OBVIOUS
  <2>2. Send(t, Goodbyes(S))
    BY <1>1, <1>5, <2>1 DEF PeerFails
  <2>3. QED
    BY <1>2, <1>3, <2>1, <2>2 DEF Send
<1>6. ASSUME NEW u \in Tabs, <<u, t>> \in Pairs, ReceiveHangup(u, t), mgrs[m].sub PROVE Goal
  <2>1. PICK S, quiet, w : /\ S = Listening(t) /\ w = Taken(u, t)
                           /\ quiet = {n \in S : Remote(n) = Owner[u]}
    OBVIOUS
  <2>2. m \in S
    BY <1>1, <1>6, <2>1 DEF Listening
  <2>3. CASE m \in quiet
    <3>1. u \in TabsOf(Remote(m))
      BY <2>1, <2>3 DEF TabsOf
    <3>2. PICK d : d = Head1(u, t).call
      OBVIOUS
    <3>3. crossed' = crossed \cup
            {mgrs[n].call : n \in {i \in quiet : IsLive(i) /\ mgrs[i].call # d}}
      BY <1>6, <2>1, <3>2 DEF ReceiveHangup
    <3>4. c # d => c \in crossed'
      BY <2>3, <3>3
    <3>5. QED
      BY <1>6, <3>1, <3>2, <3>4
  <2>4. CASE m \notin quiet
    <3>1. PICK D \in SUBSET DOMAIN mgrs : D = S \ quiet /\ m \in D
      BY <2>1, <2>2, <2>4 DEF Listening
    <3>2. wire' = Appended(w, t, Goodbyes(D)) /\ lost' = lost \cup MissedOf(t, Goodbyes(D))
      BY <1>6, <2>1, <3>1 DEF ReceiveHangup
    <3>3. wire[<<u, t>>] # << >>
      BY <1>6 DEF ReceiveHangup, Arrives
    <3>4. /\ w \in [Pairs -> Seq(Frames)]
          /\ \A p \in Pairs : p # <<u, t>> => w[p] = wire[p]
      BY <1>6, <2>1, <3>3, TakenFrames
    <3>5. \A v \in Tabs : <<t, v>> \in Pairs => <<t, v>> # <<u, t>>
      BY <1>6 DEF Pairs
    <3>6. \A v \in Tabs : <<t, v>> \in Pairs => w[<<t, v>>] = wire[<<t, v>>]
      BY <3>4, <3>5
    <3>7. QED
      BY <1>2, <3>1, <3>2, <3>4, <3>6
  <2>5. QED
    BY <2>3, <2>4
<1>7. CASE IsDestroyed(m)
  <2>1. ASSUME NEW p \in Pairs, ReceiveHangup(p[1], p[2]), mgrs[m].tab = p[2], mgrs[m].sub
        PROVE  Goal
    <3>1. p[1] \in Tabs /\ p[2] = t /\ <<p[1], t>> \in Pairs
      BY <1>1, <2>1 DEF Pairs
    <3>2. QED
      BY <1>6, <2>1, <3>1
  <2>2. QED
    BY <1>1, <1>4, <1>5, <1>7, <2>1 DEF IsDestroyed
<1>8. CASE IsReloaded(m)
  <2>1. lost' = lost \cup {d \in DOMAIN calls : Owner[t] \in PartiesOf(d)}
    BY <1>1, <1>8 DEF IsReloaded, Reload
  <2>2. Owner[t] \in PartiesOf(c)
    BY <1>1 DEF PartiesOf, ManagersAreSound, LeadsCall
  <2>3. QED
    BY <1>1, <2>1, <2>2
<1>9. ~(mgrs'[m] = mgrs[m]) /\ ~Proceeds(m) /\ ~ \E u \in Tabs : Joins(m, u)
  <2>1. mgrs'[m] # mgrs[m]
    BY DEF IsLive
  <2>2. ~Proceeds(m)
    BY DEF Proceeds, Works, IsLive, LivePc
  <2>3. ~ \E u \in Tabs : Joins(m, u)
    BY DEF Joins, IsLive, LivePc
  <2>4. QED
    BY <2>1, <2>2, <2>3
<1>10. QED
  BY <1>7, <1>8, <1>9, ManagerSteps

\* A hangup is behind frame i of the wire as it is after the step.
HungUpAfterwards(p, i) ==
  \E j \in DOMAIN wire'[p] : /\ j > i /\ wire'[p][j].type = "call_hangup"
                             /\ wire'[p][j].call = wire'[p][i].call

\* A frame that was there before keeps the hangup behind it, and gets the one
\* that is sent now.
LEMMA OldFrames ==
  ASSUME Parts, [Next]_vars, NEW p \in Pairs, NEW i, i \in DOMAIN wire'[p],
         ~IsSent(p, wire'[p][i])
  PROVE  \E j \in DOMAIN wire[p] :
           /\ wire'[p][i] = wire[p][j]
           /\ HangsUpAfter(p, j) => HungUpAfterwards(p, i)
           /\ IsHungUp(wire[p][j].call, p[1], p[2]) => HungUpAfterwards(p, i)
<1>1. PICK k \in 0..1 : Moves(p, k)
  <2>1. wire'[p] # << >>
    OBVIOUS
  <2>2. QED
    BY <2>1, WireSteps
<1>2. /\ Len(wire[p]) \in Nat /\ DOMAIN wire[p] = 1..Len(wire[p])
      /\ Len(wire'[p]) \in Nat /\ DOMAIN wire'[p] = 1..Len(wire'[p])
  BY <1>1, Elements DEF Moves, Parts
<1>3. PICK j \in DOMAIN wire[p] : j = i + k /\ wire'[p][i] = wire[p][j]
  BY <1>1 DEF Moves
<1>4. ASSUME HangsUpAfter(p, j) PROVE HungUpAfterwards(p, i)
  <2>1. PICK l \in DOMAIN wire[p] : /\ l > j /\ wire[p][l].type = "call_hangup"
                                    /\ wire[p][l].call = wire[p][j].call
    BY <1>4 DEF HangsUpAfter
  <2>2. l > k
    BY <1>2, <1>3, <2>1
  <2>3. PICK n \in DOMAIN wire'[p] : n = l - k /\ wire'[p][n] = wire[p][l]
    BY <1>1, <2>1, <2>2 DEF Moves
  <2>4. n > i
    BY <1>2, <1>3, <2>1, <2>3
  <2>5. QED
    BY <1>3, <2>1, <2>3, <2>4 DEF HungUpAfterwards
<1>5. ASSUME IsHungUp(wire[p][j].call, p[1], p[2]) PROVE HungUpAfterwards(p, i)
  <2>1. p = <<p[1], p[2]>>
    BY DEF Pairs
  <2>2. PICK n \in DOMAIN wire'[p] : /\ n > Len(wire[p]) /\ wire'[p][n].type = "call_hangup"
                                     /\ wire'[p][n].call = wire[p][j].call
    BY <1>5, <2>1 DEF IsHungUp
  <2>3. n > i
    BY <1>2, <1>3, <2>2
  <2>4. QED
    BY <1>3, <2>2, <2>3 DEF HungUpAfterwards
<1>6. QED
  BY <1>3, <1>4, <1>5

\* A frame stays on its way until it arrives or is lost.
IsTaken(c, type, t) ==
  \E u \in Tabs : /\ <<u, t>> \in Pairs /\ Receive(u, t) /\ wire[<<u, t>>] # << >>
                  /\ Head1(u, t).call = c /\ Head1(u, t).type = type
LEMMA OnTheWay ==
  ASSUME Parts, [Next]_vars, NEW c, NEW type, NEW t, OnWire(c, type, t)
  PROVE  OnWire(c, type, t)' \/ c \in lost' \/ IsTaken(c, type, t)
<1>0. PICK p \in Pairs : \E i \in DOMAIN wire[p] :
        p[2] = t /\ wire[p][i].call = c /\ wire[p][i].type = type
  BY DEF OnWire
<1>1. PICK i \in DOMAIN wire[p] :
        p[2] = t /\ wire[p][i].call = c /\ wire[p][i].type = type
  BY <1>0
<1>2. Len(wire[p]) \in Nat /\ DOMAIN wire[p] = 1..Len(wire[p])
  BY Elements DEF Parts
<1>3. ASSUME NEW k \in 0..1, Moves(p, k), i > k
      PROVE  OnWire(c, type, t)'
  BY <1>1, <1>3 DEF Moves, OnWire
<1>4. ASSUME i <= 1, Receive(p[1], p[2])
      PROVE  IsTaken(c, type, t)
  <2>1. PICK u \in Tabs : u = p[1] /\ p = <<u, t>> /\ t \in Tabs
    BY <1>1 DEF Pairs
  <2>2. i = 1 /\ wire[<<u, t>>] # << >>
    BY <1>1, <1>2, <1>4, <2>1
  <2>3. Head1(u, t) = wire[p][1]
    BY <2>1, <2>2, Arrivals
  <2>4. QED
    BY <1>1, <1>4, <2>1, <2>2, <2>3 DEF IsTaken
<1>5. i > 0 /\ (i > 1 \/ i <= 1)
  BY <1>2
<1>6. CASE Moves(p, 0)
  BY <1>3, <1>5, <1>6
<1>7. CASE Moves(p, 1) /\ Receive(p[1], p[2])
  BY <1>3, <1>4, <1>5, <1>7
<1>8. CASE wire'[p] = << >> /\ \A n \in DOMAIN wire[p] : wire[p][n].call \in lost'
  BY <1>1, <1>8
<1>9. QED
  BY <1>6, <1>7, <1>8, WireSteps

\* What arrives at a tab and is a hangup of call c from the call's caller says
\* that the caller is gone.
LEMMA CallerHangsUp ==
  ASSUME Parts, NEW u \in Tabs, NEW t \in Tabs, <<u, t>> \in Pairs, ReceiveHangup(u, t),
         NEW c, c = Head1(u, t).call
  PROVE  /\ c \in DOMAIN calls /\ FrameIsTheirs(<<u, t>>, Head1(u, t))
         /\ 1 \in DOMAIN wire[<<u, t>>] /\ wire[<<u, t>>][1] = Head1(u, t)
         /\ wire[<<u, t>>] # << >> /\ Head1(u, t).type = "call_hangup"
         /\ Owner[u] # Callee(c) => CallerGone(c) /\ u = Caller(c)
<1>1. wire[<<u, t>>] # << >> /\ Head1(u, t).type = "call_hangup"
  BY DEF ReceiveHangup, Arrives
<1>2. PICK f \in Frames : f = Head1(u, t)
  BY <1>1, Arrivals
<1>3. FrameIsTheirs(<<u, t>>, f) /\ c = f.call /\ c \in DOMAIN calls
  BY <1>1, <1>2, Arrivals
<1>4. Owner[u] # Callee(c) => CallerGone(c) /\ u = Caller(c)
  BY <1>1, <1>2, <1>3 DEF FrameIsTheirs
<1>5. QED
  BY <1>1, <1>2, <1>3, <1>4, Arrivals

\* What kind of frame says which action sent it.
OffersIt(p, f, m) == /\ Offer(m) /\ p[1] = mgrs[m].tab /\ f.call = mgrs[m].call /\ f.sdp = m
                     /\ f = Frame("webrtc_offer", mgrs[m].call, Callee(mgrs[m].call), m)
AnswersIt(p, f, m) == Answer(m) /\ p[1] = mgrs[m].tab /\ f.call = mgrs[m].call /\ f.sdp = m
HangsUp(p, f, m) == /\ mgrs[m].tab = p[1] /\ IsLive(m) /\ mgrs'[m].pc = "closed"
                    /\ f.call = mgrs[m].call
LEMMA SentKinds ==
  ASSUME NEW p, NEW f, IsSent(p, f)
  PROVE  /\ f.to = Owner[p[2]]
         /\ f.type = "webrtc_offer" => \E m \in DOMAIN mgrs : OffersIt(p, f, m)
         /\ f.type = "webrtc_answer" => \E m \in DOMAIN mgrs : AnswersIt(p, f, m)
         /\ f.type = "call_hangup" => \/ Decline(p[1]) /\ f.call = incoming[p[1]]
                                      \/ \E m \in DOMAIN mgrs : HangsUp(p, f, m)
<1> DEFINE Goal == /\ f.type = "webrtc_offer" => \E m \in DOMAIN mgrs : OffersIt(p, f, m)
                   /\ f.type = "webrtc_answer" => \E m \in DOMAIN mgrs : AnswersIt(p, f, m)
                   /\ f.type = "call_hangup" => \/ Decline(p[1]) /\ f.call = incoming[p[1]]
                                                \/ \E m \in DOMAIN mgrs : HangsUp(p, f, m)
<1>1. ASSUME NEW m \in DOMAIN mgrs, Offer(m), p[1] = mgrs[m].tab,
             f = Frame("webrtc_offer", mgrs[m].call, Callee(mgrs[m].call), m)
      PROVE  Goal
  <2>1. f.type = "webrtc_offer" /\ f.call = mgrs[m].call /\ f.sdp = m
    BY <1>1 DEF Frame
  <2>2. QED
    BY <1>1, <2>1 DEF OffersIt
<1>2. ASSUME NEW m \in DOMAIN mgrs, Answer(m), p[1] = mgrs[m].tab,
             f = Frame("webrtc_answer", mgrs[m].call, Owner[Caller(mgrs[m].call)], m)
      PROVE  Goal
  <2>1. f.type = "webrtc_answer" /\ f.call = mgrs[m].call /\ f.sdp = m
    BY <1>2 DEF Frame
  <2>2. QED
    BY <1>2, <2>1 DEF AnswersIt
<1>3. ASSUME Decline(p[1]),
             f = Frame("call_hangup", incoming[p[1]], Owner[Caller(incoming[p[1]])], 0)
      PROVE  Goal
  <2>1. f.type = "call_hangup" /\ f.call = incoming[p[1]]
    BY <1>3 DEF Frame
  <2>2. QED
    BY <1>3, <2>1
<1>4. ASSUME NEW m \in DOMAIN mgrs, mgrs[m].tab = p[1], IsLive(m), mgrs'[m].pc = "closed",
             f = Hangup(m)
      PROVE  Goal
  <2>1. f.type = "call_hangup" /\ f.call = mgrs[m].call
    BY <1>4 DEF Frame, Hangup
  <2>2. QED
    BY <1>4, <2>1 DEF HangsUp
<1>5. f.to = Owner[p[2]] /\ Goal
  <2> HIDE DEF Goal
  <2> QED
    BY <1>1, <1>2, <1>3, <1>4 DEF IsSent
<1>6. QED
  BY <1>5

LEMMA AnswersStep ==
  ASSUME Parts, AnswersStand, [Next]_vars
  PROVE  AnswersStand'
<1> USE DEF Parts
<1> SUFFICES ASSUME NEW p \in Pairs, NEW i, i \in DOMAIN wire'[p],
                    NEW f, f = wire'[p][i], f.type = "webrtc_answer"
             PROVE  \/ IsLive(f.sdp)' \/ HungUpAfterwards(p, i)
                    \/ f.call \in lost' \cup crossed' \/ CallerGone(f.call)'
  BY DEF AnswersStand, IsLive, CallerGone, LeadsCall, Caller, HangsUpAfter, HungUpAfterwards
<1>1. CASE IsSent(p, f)
  <2>1. PICK m \in DOMAIN mgrs : Answer(m) /\ f.sdp = m
    BY <1>1, SentKinds DEF AnswersIt
  <2>2. Works(m, "done", mgrs[m].sub, "stable")
    BY <2>1, ScriptSteps DEF Answer, LivePc
  <2>3. IsLive(m)'
    BY <2>2 DEF Works, IsLive, LivePc
  <2>4. QED
    BY <2>1, <2>3
<1>2. CASE ~IsSent(p, f)
  <2>1. PICK j \in DOMAIN wire[p] :
          /\ f = wire[p][j]
          /\ HangsUpAfter(p, j) => HungUpAfterwards(p, i)
          /\ IsHungUp(f.call, p[1], p[2]) => HungUpAfterwards(p, i)
    BY <1>2, OldFrames
  <2>2. f \in Frames /\ FrameIsTheirs(p, f)
    BY <2>1, Elements DEF FramesAreTheirs
  <2>3. PICK c \in DOMAIN calls, m \in DOMAIN mgrs :
          /\ c = f.call /\ m = f.sdp /\ mgrs[m].call = c /\ mgrs[m].tab = p[1]
          /\ p[1] # Caller(c) /\ f.to = Owner[p[2]]
          /\ Owner[p[1]] = Callee(c) /\ f.to = Owner[Caller(c)]
    BY <2>2 DEF FrameIsTheirs, Frames
  <2>4. lost \subseteq lost' /\ crossed \subseteq crossed' /\ (CallerGone(c) => CallerGone(c)')
    BY CallsGoOn, FactsGoOn
  <2>5. \/ IsLive(m) \/ HangsUpAfter(p, j) \/ c \in lost \cup crossed \/ CallerGone(c)
    BY <2>1, <2>3 DEF AnswersStand
  <2>6. ASSUME IsLive(m), ~IsLive(m)'
        PROVE  \/ HungUpAfterwards(p, i) \/ c \in lost' \cup crossed' \/ CallerGone(c)
    <3>1. Remote(m) = f.to /\ p[2] \in TabsOf(Remote(m))
      BY <2>3 DEF Remote, TabsOf, Pairs
    <3>2. ASSUME NEW u \in TabsOf(Remote(m)), ReceiveHangup(u, p[1]), Head1(u, p[1]).call = c
          PROVE  CallerGone(c)
      <4>1. u \in Tabs /\ p[1] \in Tabs /\ <<u, p[1]>> \in Pairs /\ Owner[u] = Owner[Caller(c)]
        BY <2>3, <3>1, <3>2, OtherEnds DEF Pairs
      <4>2. Owner[u] # Callee(c)
        BY <4>1 DEF CallsAreBetweenTwo
      <4>3. QED
        BY <3>2, <4>1, <4>2, CallerHangsUp
    <3>3. QED
      BY <2>1, <2>3, <2>6, <3>1, <3>2, Parting
  <2>7. QED
    BY <2>1, <2>3, <2>4, <2>5, <2>6
<1>3. QED
  BY <1>1, <1>2

LEMMA OffersStep ==
  ASSUME Parts, OffersStand, RefusalsAreFinal, [Next]_vars
  PROVE  OffersStand'
<1> USE DEF Parts
<1> SUFFICES ASSUME NEW p \in Pairs, NEW i, i \in DOMAIN wire'[p],
                    NEW f, f = wire'[p][i], f.type = "webrtc_offer"
             PROVE  \/ IsLive(f.sdp)' \/ HungUpAfterwards(p, i)
                    \/ f.call \in lost' \cup crossed'
                    \/ HasClosed(p[2], f.call)' \/ ~Alone(p[2])
  BY DEF OffersStand, IsLive, HasClosed, Alone, TabsOf, HangsUpAfter, HungUpAfterwards
<1>1. CASE IsSent(p, f)
  <2>1. PICK m \in DOMAIN mgrs : Offer(m) /\ f.sdp = m
    BY <1>1, SentKinds DEF OffersIt
  <2>2. Works(m, "done", mgrs[m].sub, "offered")
    BY <2>1, ScriptSteps DEF Offer, LivePc
  <2>3. IsLive(m)'
    BY <2>2 DEF Works, IsLive, LivePc
  <2>4. QED
    BY <2>1, <2>3
<1>2. CASE ~IsSent(p, f)
  <2>1. PICK j \in DOMAIN wire[p] :
          /\ f = wire[p][j]
          /\ HangsUpAfter(p, j) => HungUpAfterwards(p, i)
          /\ IsHungUp(f.call, p[1], p[2]) => HungUpAfterwards(p, i)
    BY <1>2, OldFrames
  <2>2. f \in Frames /\ FrameIsTheirs(p, f)
    BY <2>1, Elements DEF FramesAreTheirs
  <2>3. PICK c \in DOMAIN calls, m \in DOMAIN mgrs :
          /\ c = f.call /\ m = f.sdp /\ mgrs[m].call = c /\ mgrs[m].tab = p[1]
          /\ p[1] = Caller(c) /\ Owner[p[2]] = Callee(c)
    BY <2>2 DEF FrameIsTheirs, Frames, CallsAreBetweenTwo
  <2>4. /\ lost \subseteq lost' /\ crossed \subseteq crossed'
        /\ p[2] \in Tabs /\ (HasClosed(p[2], c) => HasClosed(p[2], c)')
    BY CallsGoOn, FactsGoOn DEF Pairs
  <2>5. \/ IsLive(m) \/ HangsUpAfter(p, j) \/ c \in lost \cup crossed
        \/ HasClosed(p[2], c) \/ ~Alone(p[2])
    BY <2>1, <2>3 DEF OffersStand
  <2>6. ASSUME IsLive(m), ~IsLive(m)', Alone(p[2])
        PROVE  \/ HungUpAfterwards(p, i) \/ c \in lost' \cup crossed' \/ HasClosed(p[2], c)
    <3>1. p[2] \in TabsOf(Remote(m))
      BY <2>3 DEF Remote, TabsOf, Pairs
    <3>2. ASSUME NEW u \in TabsOf(Remote(m)), ReceiveHangup(u, p[1]), Head1(u, p[1]).call = c
          PROVE  HasClosed(p[2], c)
      <4>1. u = p[2]
        BY <2>3, <2>6, <3>2 DEF Alone, Remote, TabsOf
      <4>2. u \in Tabs /\ p[1] \in Tabs /\ <<u, p[1]>> \in Pairs /\ u # Caller(c)
        <5>1. <<u, p[1]>> \in Pairs
          BY <2>3, <3>2, OtherEnds
        <5>2. QED
          BY <2>3, <5>1 DEF Pairs
      <4>3. /\ 1 \in DOMAIN wire[<<u, p[1]>>] /\ wire[<<u, p[1]>>][1] = Head1(u, p[1])
            /\ Head1(u, p[1]).type = "call_hangup"
        BY <3>2, <4>2, CallerHangsUp
      <4>4. HasClosed(u, c) \/ NoOffer(u, c)
        BY <3>2, <4>2, <4>3 DEF RefusalsAreFinal
      <4>5. OnWire(c, "webrtc_offer", p[2])
        BY <2>1, <2>3 DEF OnWire
      <4>6. QED
        BY <4>1, <4>4, <4>5 DEF NoOffer
    <3>3. QED
      BY <2>1, <2>3, <2>6, <3>1, <3>2, Parting
  <2>7. QED
    BY <2>1, <2>3, <2>4, <2>5, <2>6
<1>3. QED
  BY <1>1, <1>2

\* A call whose offer was sent is not offered again.
LEMMA OffersAreNew ==
  ASSUME Parts, NEW p \in Pairs, NEW f, IsSent(p, f), f.type = "webrtc_offer"
  PROVE  ~Announced(f.call)
<1> USE DEF Parts
<1>1. PICK m \in DOMAIN mgrs : OffersIt(p, f, m)
  BY SentKinds
<1>2. LeadsCall(m) /\ mgrs[m].pc = "new" /\ mgrs[m].call = f.call
  BY <1>1 DEF OffersIt, Offer, Ready, LeadsCall
<1>3. QED
  BY <1>2 DEF Announced, OneManagerCalls, Called

LEMMA NoOfferStep ==
  ASSUME Parts, [Next]_vars, NEW t, NEW c, Announced(c), NoOffer(t, c)
  PROVE  NoOffer(t, c)'
<1> SUFFICES ASSUME NEW p \in Pairs, NEW i, i \in DOMAIN wire'[p], p[2] = t,
                    wire'[p][i].call = c, wire'[p][i].type = "webrtc_offer"
             PROVE  FALSE
  BY DEF NoOffer, OnWire
<1>1. ~IsSent(p, wire'[p][i])
  BY OffersAreNew
<1>2. PICK j \in DOMAIN wire[p] : wire'[p][i] = wire[p][j]
  BY <1>1, OldOrSent
<1>3. QED
  BY <1>2 DEF NoOffer, OnWire

LEMMA RefusalsStep ==
  ASSUME Parts, RefusalsAreFinal, OfferedOnce, [Next]_vars
  PROVE  RefusalsAreFinal'
<1> USE DEF Parts
<1> SUFFICES ASSUME NEW p \in Pairs, NEW i, i \in DOMAIN wire'[p], NEW f, f = wire'[p][i],
                    f.type = "call_hangup", p[1] # Caller(f.call)'
             PROVE  \/ HasClosed(p[1], f.call)'
                    \/ incoming'[p[1]] # f.call /\ NoOffer(p[1], f.call)'
  BY DEF RefusalsAreFinal, HasClosed, NoOffer, OnWire, Caller
<1>1. p[1] \in Tabs
  BY DEF Pairs
<1>2. CASE IsSent(p, f)
  <2>1. ASSUME Decline(p[1]), f.call = incoming[p[1]]
        PROVE  incoming'[p[1]] # f.call /\ NoOffer(p[1], f.call)'
    <3>1. incoming[p[1]] # 0 /\ incoming'[p[1]] = 0
      BY <1>1, <2>1 DEF Decline, TypeOK
    <3>2. Announced(f.call) /\ NoOffer(p[1], f.call)
      BY <1>1, <2>1, <3>1 DEF RingsAreForMe, OfferedOnce
    <3>3. QED
      BY <2>1, <3>1, <3>2, NoOfferStep
  <2>2. ASSUME NEW m \in DOMAIN mgrs, HangsUp(p, f, m)
        PROVE  HasClosed(p[1], f.call)'
    <3>1. /\ m \in DOMAIN mgrs' /\ mgrs'[m].pc = "closed"
          /\ mgrs'[m].tab = p[1] /\ mgrs'[m].call = f.call
      BY <2>2, ManagersGoOn DEF HangsUp
    <3>2. QED
      BY <3>1 DEF HasClosed
  <2>3. QED
    BY <1>2, <2>1, <2>2, SentKinds
<1>3. CASE ~IsSent(p, f)
  <2>1. PICK j \in DOMAIN wire[p] : f = wire[p][j]
    BY <1>3, OldOrSent
  <2>2. f \in Frames /\ FrameIsTheirs(p, f)
    BY <2>1, Elements DEF FramesAreTheirs
  <2>3. PICK c \in DOMAIN calls : c = f.call
    BY <2>2 DEF Frames
  <2>4. Announced(c) /\ Caller(c)' = Caller(c)
    BY <2>2, <2>3, CallsGoOn DEF FrameIsTheirs
  <2>5. HasClosed(p[1], c) \/ (incoming[p[1]] # c /\ NoOffer(p[1], c))
    BY <2>1, <2>3, <2>4 DEF RefusalsAreFinal
  <2>6. HasClosed(p[1], c) => HasClosed(p[1], c)'
    BY <1>1, FactsGoOn
  <2>7. ASSUME incoming[p[1]] # c, NoOffer(p[1], c)
        PROVE  incoming'[p[1]] # c /\ NoOffer(p[1], c)'
    <3>1. NoOffer(p[1], c)'
      BY <2>4, <2>7, NoOfferStep
    <3>2. ASSUME incoming'[p[1]] = c PROVE FALSE
      <4>1. c # 0
        BY Elements
      <4>2. PICK u \in Tabs : /\ <<u, p[1]>> \in Pairs /\ ReceiveOffer(u, p[1])
                              /\ c = Head1(u, p[1]).call
        BY <1>1, <2>7, <3>2, <4>1, RingSteps
      <4>3. wire[<<u, p[1]>>] # << >> /\ Head1(u, p[1]).type = "webrtc_offer"
        BY <4>2 DEF ReceiveOffer, Arrives
      <4>4. 1 \in DOMAIN wire[<<u, p[1]>>] /\ wire[<<u, p[1]>>][1] = Head1(u, p[1])
        BY <1>1, <4>2, <4>3, Arrivals
      <4>5. PICK q \in Pairs : q = <<u, p[1]>> /\ q[2] = p[1]
        BY <4>2
      <4>6. QED
        BY <2>7, <4>2, <4>3, <4>4, <4>5 DEF NoOffer, OnWire
    <3>3. QED
      BY <3>1, <3>2
  <2>8. QED
    BY <2>3, <2>5, <2>6, <2>7
<1>4. QED
  BY <1>2, <1>3

LEMMA OfferedOnceStep ==
  ASSUME Parts, OfferedOnce, [Next]_vars
  PROVE  OfferedOnce'
<1> USE DEF Parts
<1>1. ASSUME NEW t \in Tabs, NEW c, c = incoming'[t], c # 0
      PROVE  NoOffer(t, c)'
  <2>1. CASE incoming'[t] = incoming[t]
    <3>1. Announced(c) /\ NoOffer(t, c)
      BY <1>1, <2>1 DEF RingsAreForMe, OfferedOnce
    <3>2. QED
      BY <3>1, NoOfferStep
  <2>2. CASE incoming'[t] # incoming[t]
    <3>1. PICK u \in Tabs : /\ <<u, t>> \in Pairs /\ ReceiveOffer(u, t)
                            /\ incoming'[t] = Head1(u, t).call
      BY <1>1, <2>2, RingSteps
    <3>2. /\ wire[<<u, t>>] # << >> /\ Head1(u, t).type = "webrtc_offer"
          /\ wire' = Taken(u, t)
      BY <3>1 DEF ReceiveOffer, Arrives
    <3>3. PICK q \in Pairs : q = <<u, t>> /\ q[1] = u /\ q[2] = t
      BY <3>1
    <3>4. /\ 1 \in DOMAIN wire[q] /\ wire[q][1].type = "webrtc_offer" /\ wire[q][1].call = c
          /\ u = Caller(c) /\ Announced(c)
      BY <1>1, <3>1, <3>2, <3>3, Arrivals DEF FrameIsTheirs
    <3>5. ASSUME NEW p \in Pairs, NEW i, i \in DOMAIN wire'[p], p[2] = t,
                 wire'[p][i].call = c, wire'[p][i].type = "webrtc_offer"
          PROVE  FALSE
      <4>1. ~IsSent(p, wire'[p][i])
        BY <3>4, <3>5, OffersAreNew
      <4>2. PICK j \in DOMAIN wire[p] : wire'[p][i] = wire[p][j]
        BY <3>5, <4>1, OldOrSent
      <4>3. p[1] = Caller(c)
        BY <3>5, <4>2 DEF FramesAreTheirs, FrameIsTheirs
      <4>4. p = q
        BY <3>3, <3>4, <3>5, <4>3 DEF Pairs
      <4>5. i + 1 \in DOMAIN wire[q] /\ wire'[q][i] = wire[q][i + 1]
        BY <3>1, <3>2, <3>3, <3>5, <4>4, TakenFrames
      <4>6. i \in Nat \ {0}
        <5>1. wire'[q] \in Seq(Frames)
          BY <3>1, <3>2, TakenFrames
        <5>2. QED
          BY <3>5, <4>4, <5>1
      <4>7. i + 1 = 1
        <5>1. wire[q][i + 1].type = "webrtc_offer" /\ wire[q][i + 1].call = c
          BY <3>5, <4>4, <4>5
        <5>2. QED
          BY <3>4, <4>5, <5>1 DEF OfferedOnce
      <4>8. QED
        BY <4>6, <4>7
    <3>6. QED
      BY <3>5 DEF NoOffer, OnWire
  <2>3. QED
    BY <2>1, <2>2
<1>2. ASSUME NEW p \in Pairs, NEW i, i \in DOMAIN wire'[p], NEW j, j \in DOMAIN wire'[p],
             wire'[p][i].type = "webrtc_offer", wire'[p][j].type = "webrtc_offer",
             wire'[p][i].call = wire'[p][j].call
      PROVE  i = j
  <2>1. PICK k \in 0..1 : Moves(p, k)
    <3>1. wire'[p] # << >>
      BY <1>2
    <3>2. QED
      BY <3>1, WireSteps
  <2>2. i \in Nat /\ j \in Nat /\ k \in Nat
    BY <1>2, <2>1 DEF Moves
  <2>3. \A l \in DOMAIN wire[p] : Announced(wire[p][l].call)
    BY DEF FramesAreTheirs, FrameIsTheirs
  <2>4. \A l \in DOMAIN wire'[p] :
          IsSent(p, wire'[p][l]) /\ wire'[p][l].type = "webrtc_offer"
            => ~Announced(wire'[p][l].call)
    BY OffersAreNew
  <2>5. CASE i + k \in DOMAIN wire[p] /\ wire'[p][i] = wire[p][i + k]
    <3>1. ~IsSent(p, wire'[p][j])
      BY <1>2, <2>3, <2>4, <2>5
    <3>2. j + k \in DOMAIN wire[p] /\ wire'[p][j] = wire[p][j + k]
      BY <1>2, <2>1, <3>1 DEF Moves
    <3>3. i + k = j + k
      BY <1>2, <2>5, <3>2 DEF OfferedOnce
    <3>4. QED
      BY <2>2, <3>3
  <2>6. CASE i + k > Len(wire[p]) /\ IsSent(p, wire'[p][i])
    <3>1. ~Announced(wire'[p][j].call)
      BY <1>2, <2>4, <2>6
    <3>2. j + k > Len(wire[p]) /\ IsSent(p, wire'[p][j])
      BY <1>2, <2>1, <2>3, <3>1 DEF Moves
    <3>3. PICK m \in DOMAIN mgrs, n \in DOMAIN mgrs :
            OffersIt(p, wire'[p][i], m) /\ OffersIt(p, wire'[p][j], n)
      BY <1>2, <2>6, <3>2, SentKinds
    <3>4. /\ LeadsCall(m) /\ LeadsCall(n)
          /\ mgrs[m].call = wire'[p][i].call /\ mgrs[n].call = wire'[p][j].call
      BY <3>3 DEF OffersIt, Offer, LeadsCall
    <3>5. m = n
      BY <1>2, <3>4 DEF OneManagerCalls
    <3>6. wire'[p][i] = wire'[p][j]
      BY <3>3, <3>5 DEF OffersIt
    <3>7. QED
      BY <1>2, <2>1, <2>6, <3>2, <3>6 DEF Moves
  <2>7. QED
    BY <1>2, <2>1, <2>5, <2>6 DEF Moves
<1>3. QED
  BY <1>1, <1>2 DEF OfferedOnce, NoOffer, OnWire

----------------------------------------------------------------------------
\* The callers: whom an answer joins, and that none is left alone.

LEMMA FarSteps ==
  ASSUME Parts, [Next]_vars, NEW m \in DOMAIN mgrs', mgrs'[m].far # 0
  PROVE  /\ m \in DOMAIN mgrs
         /\ mgrs'[m].far = mgrs[m].far \/ \E u \in Tabs : Joins(m, u)
<1> USE DEF Parts
<1>1. m \in DOMAIN mgrs
  BY MadeManagers DEF IsMade
<1>2. QED
  BY <1>1, ManagerSteps DEF Proceeds, Works, IsDestroyed, IsClosed, IsReloaded

LEMMA AnswerIsForThisCallStep ==
  ASSUME Parts, AnswerIsForThisCall, [Next]_vars
  PROVE  AnswerIsForThisCall'
<1> USE DEF Parts
<1> SUFFICES ASSUME NEW m \in DOMAIN mgrs', NEW n, n = mgrs'[m].far, n # 0
             PROVE  mgrs'[n].call = mgrs'[m].call /\ Owner[mgrs'[n].tab] = Remote(m)'
  BY DEF AnswerIsForThisCall, Remote, Caller, Callee
<1>1. m \in DOMAIN mgrs
  BY FarSteps
<1>2. CASE n = mgrs[m].far
  <2>1. n \in DOMAIN mgrs
    <3>1. mgrs[m] \in Managers
      BY <1>1, Elements
    <3>2. QED
      BY <1>2, <3>1, Elements DEF Managers
  <2>2. mgrs[n].call = mgrs[m].call /\ Owner[mgrs[n].tab] = Remote(m)
    BY <1>1, <1>2 DEF AnswerIsForThisCall
  <2>3. QED
    BY <1>1, <2>1, <2>2, ManagersGoOn
<1>3. ASSUME NEW u \in Tabs, Joins(m, u)
      PROVE  mgrs'[n].call = mgrs'[m].call /\ Owner[mgrs'[n].tab] = Remote(m)'
  <2>1. PICK t \in Tabs : t = mgrs[m].tab
    BY <1>1, Ends
  <2>2. /\ <<u, t>> \in Pairs /\ wire[<<u, t>>] # << >> /\ Head1(u, t).type = "webrtc_answer"
        /\ n = Head1(u, t).sdp /\ mgrs[m].call = Head1(u, t).call /\ Remote(m) = Owner[u]
    BY <1>3, <2>1 DEF Joins, ReceiveAnswer, Arrives
  <2>3. PICK p \in Pairs : p = <<u, t>> /\ p[1] = u
    BY <2>2
  <2>4. FrameIsTheirs(p, Head1(u, t))
    BY <2>1, <2>2, <2>3, Arrivals
  <2>5. n \in DOMAIN mgrs /\ mgrs[n].call = mgrs[m].call /\ mgrs[n].tab = u
    BY <2>2, <2>3, <2>4 DEF FrameIsTheirs
  <2>6. QED
    BY <1>1, <2>2, <2>5, ManagersGoOn
<1>4. QED
  BY <1>1, <1>2, <1>3, FarSteps

\* A hangup that arrives closes every connection of the tab.
LEMMA HangupCloses ==
  ASSUME Parts, NEW u, NEW t, ReceiveHangup(u, t),
         NEW m \in DOMAIN mgrs, mgrs[m].tab = t, IsLive(m)
  PROVE  mgrs'[m].pc = "closed"
<1> USE DEF Parts
<1>1. m \in Listening(t)
  BY DEF Listening, ManagersAreSound
<1>2. PICK d : d = Destroyed(Listening(t)) /\ mgrs' = d
  BY DEF ReceiveHangup
<1>3. IsClosed(m, d[m])
  BY <1>1, <1>2, DestroyedTypes
<1>4. QED
  BY <1>2, <1>3 DEF IsClosed

\* The hangup behind a frame is still on its way when the frame is taken.
LEMMA LeftBehind ==
  ASSUME Parts, NEW u \in Tabs, NEW t \in Tabs, <<u, t>> \in Pairs, wire[<<u, t>>] # << >>,
         wire' = Taken(u, t), HangsUpAfter(<<u, t>>, 1), NEW c, c = Head1(u, t).call
  PROVE  OnWire(c, "call_hangup", t)'
<1> USE DEF Parts
<1>1. PICK p \in Pairs : p = <<u, t>> /\ p[2] = t
  OBVIOUS
<1>2. wire[p][1].call = c
  BY <1>1, Arrivals
<1>3. PICK j \in DOMAIN wire[p] : /\ j > 1 /\ wire[p][j].type = "call_hangup"
                                  /\ wire[p][j].call = c
  BY <1>1, <1>2 DEF HangsUpAfter
<1>4. j - 1 \in DOMAIN wire'[p] /\ wire'[p][j - 1] = wire[p][j]
  <2>1. j # 1
    BY <1>3, Elements
  <2>2. PICK v : v = Taken(u, t) /\ wire' = v
    OBVIOUS
  <2>3. QED
    BY <1>1, <1>3, <2>1, <2>2, TakenFrames
<1>5. QED
  BY <1>1, <1>3, <1>4 DEF OnWire

LEMMA HungUpIsOnWire ==
  ASSUME NEW c, NEW t, NEW u, <<t, u>> \in Pairs, IsHungUp(c, t, u)
  PROVE  OnWire(c, "call_hangup", u)'
<1>1. PICK p \in Pairs : p = <<t, u>> /\ p[2] = u
  OBVIOUS
<1>2. QED
  BY <1>1 DEF IsHungUp, OnWire

LEMMA NoCallerAloneStep ==
  ASSUME Parts, AnswersStand, AnswerIsForThisCall, NoCallerAlone, [Next]_vars
  PROVE  NoCallerAlone'
<1> USE DEF Parts
<1> SUFFICES ASSUME NEW m \in DOMAIN mgrs', NEW c, c = mgrs'[m].call, NEW t, t = mgrs'[m].tab,
                    NEW n, n = mgrs'[m].far, n # 0, IsLive(m)',
                    ~IsLive(n)', c \notin lost' \cup crossed'
             PROVE  OnWire(c, "call_hangup", t)'
  BY DEF NoCallerAlone, IsLive, OnWire
<1>1. m \in DOMAIN mgrs
  BY FarSteps
<1>2. /\ c = mgrs[m].call /\ c \in DOMAIN calls /\ t = mgrs[m].tab /\ t \in Tabs
      /\ c \notin lost \cup crossed
  BY <1>1, Ends, ManagersGoOn, CallsGoOn
<1>3. mgrs[m].pc # "closed"
  BY <1>1, ManagersGoOn DEF IsLive, LivePc
<1>4. CASE n = mgrs[m].far
  <2>1. n \in DOMAIN mgrs
    <3>1. mgrs[m] \in Managers
      BY <1>1, Elements
    <3>2. QED
      BY <1>4, <3>1, Elements DEF Managers
  <2>2. LeadsCall(m) /\ IsLive(m) /\ Remote(m) = Callee(c)
    BY <1>1, <1>2, <1>3, <1>4 DEF ManagersAreSound, IsLive, LivePc, LeadsCall, Remote
  <2>3. mgrs[n].call = c /\ Owner[mgrs[n].tab] = Callee(c)
    BY <1>1, <1>2, <1>4, <2>2 DEF AnswerIsForThisCall
  <2>4. t \in TabsOf(Remote(n)) /\ Remote(n) = Owner[Caller(c)] /\ Remote(n) # Callee(c)
    BY <1>2, <2>2, <2>3 DEF Remote, LeadsCall, CallsAreBetweenTwo, TabsOf
  <2>5. IsLive(n) \/ OnWire(c, "call_hangup", t)
    BY <1>1, <1>2, <1>4, <2>2 DEF NoCallerAlone
  <2>6. ASSUME IsLive(n)
        PROVE  OnWire(c, "call_hangup", t)'
    <3>1. ASSUME NEW u \in TabsOf(Remote(n)), NEW v, v = mgrs[n].tab,
                 ReceiveHangup(u, v), Head1(u, v).call = c
          PROVE  FALSE
      <4>1. u \in Tabs /\ <<u, v>> \in Pairs /\ Owner[u] # Callee(c)
        BY <2>1, <2>4, <3>1, OtherEnds
      <4>2. v \in Tabs
        BY <2>1, <3>1, Ends
      <4>3. CallerGone(c)
        BY <3>1, <4>1, <4>2, CallerHangsUp
      <4>4. QED
        BY <1>1, <1>2, <1>3, <2>2, <4>3 DEF CallerGone
    <3>2. <<mgrs[n].tab, t>> \in Pairs
      BY <2>1, <2>4, OtherEnds
    <3>3. IsHungUp(c, mgrs[n].tab, t)
      BY <2>1, <2>3, <2>4, <2>6, <3>1, Parting
    <3>4. QED
      BY <3>2, <3>3, HungUpIsOnWire
  <2>7. ASSUME OnWire(c, "call_hangup", t)
        PROVE  OnWire(c, "call_hangup", t)'
    <3>1. ASSUME NEW u, Receive(u, t), Head1(u, t).type = "call_hangup"
          PROVE  FALSE
      <4>1. ReceiveHangup(u, t)
        BY <3>1 DEF Receive, ReceiveOffer, ReceiveAnswer, Arrives
      <4>2. mgrs'[m].pc = "closed"
        BY <1>1, <1>2, <2>2, <4>1, HangupCloses
      <4>3. QED
        BY <4>2 DEF IsLive, LivePc
    <3>2. ~IsTaken(c, "call_hangup", t)
      BY <3>1 DEF IsTaken
    <3>3. QED
      BY <2>7, <3>2, OnTheWay
  <2>8. QED
    BY <2>5, <2>6, <2>7
<1>5. ASSUME NEW u \in Tabs, Joins(m, u)
      PROVE  OnWire(c, "call_hangup", t)'
  <2>1. /\ <<u, t>> \in Pairs /\ wire[<<u, t>>] # << >> /\ Head1(u, t).type = "webrtc_answer"
        /\ ReceiveAnswer(u, t) /\ wire' = Taken(u, t) /\ mgrs[m].pc = "offered"
        /\ n = Head1(u, t).sdp /\ c = Head1(u, t).call
    BY <1>2, <1>5 DEF Joins, ReceiveAnswer, Arrives
  <2>2. PICK p \in Pairs : p = <<u, t>> /\ p[1] = u
    BY <2>1
  <2>3. FrameIsTheirs(p, Head1(u, t)) /\ 1 \in DOMAIN wire[p] /\ wire[p][1] = Head1(u, t)
    BY <1>2, <2>1, <2>2, Arrivals
  <2>4. n \in DOMAIN mgrs
    BY <2>1, <2>3 DEF FrameIsTheirs
  <2>5. ~IsLive(n)
    <3>1. mgrs'[n] = mgrs[n] \/ mgrs'[n].pc = "stable"
      BY <1>2, <2>1, <2>4, AnswerSteps
    <3>2. QED
      BY <3>1 DEF IsLive, LivePc
  <2>6. ~CallerGone(c)
    BY <1>1, <1>2, <2>1 DEF CallerGone, ManagersAreSound
  <2>7. HangsUpAfter(p, 1)
    BY <1>2, <2>1, <2>3, <2>5, <2>6 DEF AnswersStand
  <2>8. QED
    BY <1>2, <2>1, <2>2, <2>7, LeftBehind
<1>6. QED
  BY <1>1, <1>4, <1>5, FarSteps

----------------------------------------------------------------------------
\* Callers and rings.

\* One frame that is sent reaches every tab of its addressee, and there is one,
\* or its call is lost.
LEMMA OneFrameIsSent ==
  ASSUME TypeOK, NEW t \in Tabs, NEW f \in Frames, Send(t, {f})
  PROVE  \/ f.call \in lost'
         \/ /\ TabsOf(f.to) # {}
            /\ \A u \in TabsOf(f.to) : <<t, u>> \in Pairs => OnWire(f.call, f.type, u)'
<1>1. IsPosted(f, t, wire)
  <2>1. {f} \subseteq Frames /\ IsFiniteSet({f})
    BY FS_Singleton
  <2>2. wire \in [Pairs -> Seq(Frames)]
    BY DEF TypeOK
  <2>3. QED
    BY <2>1, <2>2, SentFrames DEF Send
<1>2. ASSUME NEW u \in TabsOf(f.to), <<t, u>> \in Pairs,
             NEW j \in DOMAIN wire'[<<t, u>>], wire'[<<t, u>>][j] = f
      PROVE  OnWire(f.call, f.type, u)'
  <2>1. PICK p \in Pairs : p = <<t, u>> /\ p[2] = u
    BY <1>2
  <2>2. QED
    BY <1>2, <2>1 DEF OnWire
<1>3. QED
  BY <1>1, <1>2 DEF IsPosted

\* A caller's ring goes on, or the answer or the hangup is on the way, ...
LEMMA RingsGoOn ==
  ASSUME Parts, [Next]_vars, NEW c \in DOMAIN calls, NEW t \in Tabs, incoming[t] = c,
         incoming'[t] # c, ~CallerGone(c), NEW s, s = Caller(c)
  PROVE  \/ c \in lost' \cup unheard'
         \/ OnWire(c, "webrtc_answer", s)' \/ OnWire(c, "call_hangup", s)'
<1> USE DEF Parts
<1>1. Owner[t] = Callee(c) /\ Announced(c) /\ s \in Tabs /\ c # 0
  BY Elements, Ends DEF RingsAreForMe
<1>2. <<t, s>> \in Pairs /\ s \in TabsOf(Owner[s])
  BY <1>1 DEF Pairs, TabsOf, CallsAreBetweenTwo
<1>3. ASSUME NEW u \in Tabs, ReceiveOffer(u, t), incoming'[t] = Head1(u, t).call
      PROVE  c \in unheard'
  BY <1>1, <1>3 DEF ReceiveOffer
<1>4. ASSUME NEW m \in DOMAIN mgrs, Answer(m), mgrs[m].tab = t
      PROVE  c \in lost' \cup unheard' \/ OnWire(c, "webrtc_answer", s)'
  <2>1. CASE mgrs[m].call # c
    BY <1>1, <1>4, <2>1 DEF Answer
  <2>2. CASE mgrs[m].call = c
    <3>1. PICK f : f = Frame("webrtc_answer", c, Owner[s], m)
      OBVIOUS
    <3>2. /\ f.call = c /\ f.type = "webrtc_answer" /\ f.to = Owner[s] /\ f \in Frames
      BY <1>1, <3>1, Elements, Ends DEF Frame, Frames
    <3>3. Send(t, {f})
      BY <1>4, <2>2, <3>1 DEF Answer
    <3>4. QED
      BY <1>2, <3>2, <3>3, OneFrameIsSent
  <2>3. QED
    BY <2>1, <2>2
<1>5. ASSUME Decline(t)
      PROVE  c \in lost' \/ OnWire(c, "call_hangup", s)'
  <2>1. PICK f : f = Frame("call_hangup", c, Owner[s], 0)
    OBVIOUS
  <2>2. f.call = c /\ f.type = "call_hangup" /\ f.to = Owner[s] /\ f \in Frames
    BY <1>1, <2>1, Elements, Ends DEF Frame, Frames
  <2>3. Send(t, {f})
    BY <1>5, <2>1 DEF Decline
  <2>4. QED
    BY <1>2, <2>2, <2>3, OneFrameIsSent
<1>6. ASSUME Reload(t)
      PROVE  c \in lost'
  BY <1>1, <1>6 DEF Reload, PartiesOf
<1>7. ASSUME NEW u \in Tabs, <<u, t>> \in Pairs, ReceiveHangup(u, t), c = Head1(u, t).call
      PROVE  FALSE
  <2>1. Owner[u] # Callee(c)
    BY <1>1, <1>7 DEF Pairs
  <2>2. QED
    BY <1>7, <2>1, CallerHangsUp
<1>8. QED
  BY <1>1, <1>3, <1>4, <1>5, <1>6, <1>7, RingSteps

\* ... and so for each caller that waits.
LEMMA RingsWhereCalledStep ==
  ASSUME Parts, RingsWhereCalled, [Next]_vars
  PROVE  RingsWhereCalled'
<1> USE DEF Parts
<1> SUFFICES ASSUME NEW m \in DOMAIN mgrs', NEW c, c = mgrs'[m].call, NEW s, s = mgrs'[m].tab,
                    mgrs'[m].pc = "offered", c \notin lost' \cup unheard',
                    ~OnWire(c, "webrtc_answer", s)', ~OnWire(c, "call_hangup", s)'
             PROVE  \E t \in TabsOf(Callee(c)') :
                      incoming'[t] = c \/ OnWire(c, "webrtc_offer", t)'
  BY DEF RingsWhereCalled, OnWire, Callee, TabsOf
<1>1. m \in DOMAIN mgrs
  BY MadeManagers DEF IsMade
<1>2. /\ c = mgrs[m].call /\ c \in DOMAIN calls /\ s = mgrs[m].tab /\ s \in Tabs
      /\ Callee(c)' = Callee(c) /\ c \notin lost \cup unheard
  BY <1>1, Ends, ManagersGoOn, CallsGoOn
<1>3. CASE mgrs[m].pc = "offered"
  <2>1. LeadsCall(m) /\ IsLive(m) /\ s = Caller(c) /\ Remote(m) = Callee(c) /\ ~CallerGone(c)
    BY <1>1, <1>2, <1>3
       DEF ManagersAreSound, IsLive, LivePc, LeadsCall, Remote, CallerGone
  <2>2. ASSUME OnWire(c, "webrtc_answer", s) PROVE FALSE
    <3>1. IsTaken(c, "webrtc_answer", s)
      BY <2>2, OnTheWay
    <3>2. PICK u \in Tabs : /\ <<u, s>> \in Pairs /\ Receive(u, s) /\ wire[<<u, s>>] # << >>
                            /\ Head1(u, s).call = c /\ Head1(u, s).type = "webrtc_answer"
      BY <3>1 DEF IsTaken
    <3>3. ReceiveAnswer(u, s)
      BY <3>2 DEF Receive, ReceiveOffer, ReceiveHangup, Arrives
    <3>4. PICK p \in Pairs : p = <<u, s>> /\ p[1] = u
      BY <3>2
    <3>5. FrameIsTheirs(p, Head1(u, s))
      BY <1>2, <3>2, <3>4, Arrivals
    <3>6. Remote(m) = Owner[u]
      BY <2>1, <3>2, <3>4, <3>5 DEF FrameIsTheirs
    <3>7. mgrs[m].sub
      BY <1>1, <2>1 DEF ManagersAreSound
    <3>8. mgrs'[m].pc = "stable"
      BY <1>1, <1>2, <1>3, <3>2, <3>3, <3>6, <3>7, AnswerSteps
    <3>9. QED
      BY <3>8
  <2>3. ASSUME OnWire(c, "call_hangup", s) PROVE FALSE
    <3>1. IsTaken(c, "call_hangup", s)
      BY <2>3, OnTheWay
    <3>2. PICK u \in Tabs : Receive(u, s) /\ Head1(u, s).type = "call_hangup"
      BY <3>1 DEF IsTaken
    <3>3. ReceiveHangup(u, s)
      BY <3>2 DEF Receive, ReceiveOffer, ReceiveAnswer, Arrives
    <3>4. QED
      BY <1>1, <1>2, <2>1, <3>3, HangupCloses
  <2>4. PICK t \in TabsOf(Callee(c)) : incoming[t] = c \/ OnWire(c, "webrtc_offer", t)
    BY <1>1, <1>2, <1>3, <2>2, <2>3 DEF RingsWhereCalled
  <2>5. t \in Tabs /\ t \in TabsOf(Callee(c)')
    BY <1>2 DEF TabsOf
  <2>6. CASE incoming[t] = c
    BY <1>2, <2>1, <2>5, <2>6, RingsGoOn
  <2>7. CASE OnWire(c, "webrtc_offer", t)
    <3>1. ASSUME IsTaken(c, "webrtc_offer", t)
          PROVE  incoming'[t] = c
      <4>1. PICK u \in Tabs : /\ Receive(u, t) /\ Head1(u, t).call = c
                              /\ Head1(u, t).type = "webrtc_offer"
        BY <3>1 DEF IsTaken
      <4>2. ReceiveOffer(u, t)
        BY <4>1 DEF Receive, ReceiveAnswer, ReceiveHangup, Arrives
      <4>3. QED
        BY <2>5, <4>1, <4>2 DEF ReceiveOffer, TypeOK
    <3>2. QED
      BY <2>5, <2>7, <3>1, OnTheWay
  <2>8. QED
    BY <2>4, <2>6, <2>7
<1>4. CASE mgrs[m].pc # "offered"
  <2>1. Offer(m)
    BY <1>1, <1>4, ManagerSteps
       DEF Proceeds, Works, Joins, IsDestroyed, IsClosed, IsReloaded
  <2>2. LeadsCall(m) /\ s = Caller(c) /\ Owner[s] # Callee(c) /\ Callee(c) \in Users
    BY <1>1, <1>2, <2>1, Ends DEF Offer, LeadsCall, CallsAreBetweenTwo
  <2>3. PICK f : f = Frame("webrtc_offer", c, Callee(c), m)
    OBVIOUS
  <2>4. f.call = c /\ f.type = "webrtc_offer" /\ f.to = Callee(c) /\ f \in Frames
    BY <1>1, <1>2, <2>2, <2>3, Elements DEF Frame, Frames
  <2>5. Send(s, {f})
    BY <1>2, <2>1, <2>3 DEF Offer
  <2>6. PICK t \in TabsOf(Callee(c)) : <<s, t>> \in Pairs => OnWire(c, "webrtc_offer", t)'
    BY <1>2, <2>4, <2>5, OneFrameIsSent
  <2>7. <<s, t>> \in Pairs /\ t \in TabsOf(Callee(c)')
    BY <1>2, <2>2 DEF Pairs, TabsOf
  <2>8. QED
    BY <2>6, <2>7
<1>5. QED
  BY <1>3, <1>4

\* The manager of the caller still waits or talks.
CallerIsThere(c) == \E m \in DOMAIN mgrs : mgrs[m].call = c /\ LeadsCall(m) /\ IsLive(m)

LEMMA RingIsRealStep ==
  ASSUME Parts, OffersStand, RefusalsAreFinal, RingIsReal, [Next]_vars
  PROVE  RingIsReal'
<1> USE DEF Parts
<1> SUFFICES ASSUME NEW t \in Tabs, NEW c, c = incoming'[t], c # 0,
                    c \notin lost' \cup crossed', ~HasClosed(t, c)', Alone(t),
                    ~CallerIsThere(c)'
             PROVE  OnWire(c, "call_hangup", t)'
  BY DEF RingIsReal, HasClosed, Alone, CallerIsThere, LeadsCall, Caller, IsLive, TabsOf, OnWire
<1>1. CASE incoming[t] = c
  <2>1. /\ Owner[t] = Callee(c) /\ c \in DOMAIN calls /\ c \notin lost \cup crossed
        /\ ~HasClosed(t, c)
    <3>1. c \in DOMAIN calls
      BY <1>1, Elements DEF TypeOK
    <3>2. QED
      BY <1>1, <3>1, CallsGoOn, FactsGoOn DEF RingsAreForMe
  <2>2. CallerIsThere(c) \/ OnWire(c, "call_hangup", t)
    BY <1>1, <2>1 DEF RingIsReal, CallerIsThere, LeadsCall, HasClosed, Alone
  <2>3. ASSUME CallerIsThere(c)
        PROVE  OnWire(c, "call_hangup", t)'
    <3>1. PICK m \in DOMAIN mgrs : mgrs[m].call = c /\ LeadsCall(m) /\ IsLive(m)
      BY <2>3 DEF CallerIsThere
    <3>2. ~IsLive(m)'
      BY <3>1, ManagersGoOn DEF CallerIsThere
    <3>3. t \in TabsOf(Remote(m))
      BY <2>1, <3>1 DEF Remote, LeadsCall, TabsOf
    <3>4. ASSUME NEW u \in TabsOf(Remote(m)), NEW s, s = mgrs[m].tab,
                 ReceiveHangup(u, s), Head1(u, s).call = c
          PROVE  FALSE
      <4>1. u = t
        BY <2>1, <3>3, <3>4 DEF Alone, TabsOf
      <4>2. PICK p \in Pairs : p = <<t, s>> /\ p[1] = t
        BY <3>1, <3>4, <4>1, OtherEnds
      <4>3. s \in Tabs /\ t # Caller(c)
        BY <3>1, <3>4, <4>2, Ends DEF Pairs, LeadsCall
      <4>4. /\ 1 \in DOMAIN wire[p] /\ wire[p][1].type = "call_hangup"
            /\ wire[p][1].call = c
        BY <3>4, <4>1, <4>2, <4>3, CallerHangsUp
      <4>5. QED
        BY <1>1, <2>1, <4>2, <4>3, <4>4 DEF RefusalsAreFinal
    <3>5. IsHungUp(c, mgrs[m].tab, t)
      BY <3>1, <3>2, <3>3, <3>4, Parting
    <3>6. <<mgrs[m].tab, t>> \in Pairs
      BY <3>3, OtherEnds
    <3>7. QED
      BY <3>5, <3>6, HungUpIsOnWire
  <2>4. ASSUME OnWire(c, "call_hangup", t)
        PROVE  OnWire(c, "call_hangup", t)'
    <3>1. ASSUME IsTaken(c, "call_hangup", t)
          PROVE  FALSE
      <4>1. PICK u \in Tabs : /\ Receive(u, t) /\ Head1(u, t).type = "call_hangup"
                              /\ Head1(u, t).call = c
        BY <3>1 DEF IsTaken
      <4>2. ReceiveHangup(u, t)
        BY <4>1 DEF Receive, ReceiveOffer, ReceiveAnswer, Arrives
      <4>3. incoming'[t] = 0
        BY <1>1, <4>1, <4>2 DEF ReceiveHangup, StopRing, TypeOK
      <4>4. QED
        BY <4>3
    <3>2. QED
      BY <2>4, <3>1, OnTheWay
  <2>5. QED
    BY <2>2, <2>3, <2>4
<1>2. CASE incoming[t] # c
  <2>1. PICK u \in Tabs : <<u, t>> \in Pairs /\ ReceiveOffer(u, t) /\ c = Head1(u, t).call
    BY <1>2, RingSteps
  <2>2. /\ wire[<<u, t>>] # << >> /\ Head1(u, t).type = "webrtc_offer"
        /\ wire' = Taken(u, t) /\ mgrs' = mgrs
    BY <2>1 DEF ReceiveOffer, Arrives
  <2>3. PICK p \in Pairs : p = <<u, t>> /\ p[1] = u /\ p[2] = t
    BY <2>1
  <2>4. PICK f : f = Head1(u, t)
    OBVIOUS
  <2>5. /\ FrameIsTheirs(p, f) /\ 1 \in DOMAIN wire[p] /\ wire[p][1] = f
        /\ f.call = c /\ f.type = "webrtc_offer" /\ c \in DOMAIN calls
    BY <2>1, <2>2, <2>3, <2>4, Arrivals
  <2>6. PICK m \in DOMAIN mgrs : m = f.sdp /\ mgrs[m].call = c /\ LeadsCall(m)
    BY <2>5 DEF FrameIsTheirs, LeadsCall
  <2>7. ~IsLive(m)
    BY <2>2, <2>6, ManagersGoOn DEF CallerIsThere, IsLive
  <2>8. c \notin lost \cup crossed /\ ~HasClosed(t, c)
    BY <2>5, CallsGoOn, FactsGoOn
  <2>9. HangsUpAfter(p, 1)
    BY <2>3, <2>5, <2>6, <2>7, <2>8 DEF OffersStand
  <2>10. QED
    BY <2>1, <2>2, <2>3, <2>9, LeftBehind
<1>3. QED
  BY <1>1, <1>2

----------------------------------------------------------------------------
\* The invariant, and what it is for.

LEMMA Begins ==
  ASSUME Init
  PROVE  IInv
<1>1. /\ DOMAIN mgrs = {} /\ DOMAIN calls = {} /\ Len(mgrs) = 0 /\ Len(calls) = 0
      /\ \A p \in Pairs : wire[p] = << >> /\ DOMAIN wire[p] = {}
      /\ \A t \in Tabs : incoming[t] = 0 /\ active[t] = 0 /\ current[t] = 0
  BY DEF Init
<1>2. TypeOK
  <2>1. wire \in [Pairs -> Seq(Frames)]
    BY DEF Init
  <2>2. mgrs \in Seq(Managers) /\ calls \in Seq([from : Tabs, to : Users])
    BY DEF Init
  <2>3. /\ incoming \in [Tabs -> 0..Len(calls)] /\ active \in [Tabs -> 0..Len(calls)]
        /\ current \in [Tabs -> 0..Len(mgrs)]
    BY <1>1 DEF Init
  <2>4. up \subseteq Tabs /\ faults \in 0..MaxFaults /\ lost \cup unheard \cup crossed = {}
    BY CallBounds DEF Init
  <2>5. QED
    BY <2>1, <2>2, <2>3, <2>4 DEF TypeOK
<1>3. /\ ManagersAreSound /\ OneManagerCalls /\ ScreensShowWork /\ AnswerIsForThisCall
      /\ NoCallerAlone /\ RingsWhereCalled
  BY <1>1 DEF ManagersAreSound, OneManagerCalls, ScreensShowWork, AnswerIsForThisCall,
              NoCallerAlone, RingsWhereCalled
<1>4. CallsAreBetweenTwo /\ ComponentsHoldWork /\ RingsAreForMe /\ RingIsReal
  BY <1>1 DEF CallsAreBetweenTwo, ComponentsHoldWork, RingsAreForMe, RingIsReal
<1>5. FramesAreTheirs /\ AnswersStand /\ OffersStand /\ RefusalsAreFinal /\ OfferedOnce
  BY <1>1 DEF FramesAreTheirs, AnswersStand, OffersStand, RefusalsAreFinal, OfferedOnce
<1>6. QED
  BY <1>2, <1>3, <1>4, <1>5 DEF IInv, Parts, RingsMatchCalls

LEMMA GoesOn ==
  ASSUME IInv, [Next]_vars
  PROVE  IInv'
<1>1. Parts' /\ ScreensShowWork'
  BY PartsStep, ScreensStep DEF IInv
<1>2. AnswersStand' /\ OffersStand' /\ RefusalsAreFinal' /\ OfferedOnce'
  BY AnswersStep, OffersStep, RefusalsStep, OfferedOnceStep DEF IInv
<1>3. AnswerIsForThisCall' /\ NoCallerAlone'
  BY AnswerIsForThisCallStep, NoCallerAloneStep DEF IInv
<1>4. RingsMatchCalls'
  BY RingsWhereCalledStep, RingIsRealStep DEF IInv, RingsMatchCalls
<1>5. QED
  BY <1>1, <1>2, <1>3, <1>4 DEF IInv

\* The inductive invariant of the calls: what belongs to a manager, a frame and a
\* ring, and who still lives or has said goodbye.
THEOREM CallsInductive == Spec => []IInv
<1>1. Init => IInv
  BY Begins
<1>2. IInv /\ [Next]_vars => IInv'
  BY GoesOn
<1>3. QED
  BY <1>1, <1>2, PTL DEF Spec

\* The variables keep their types, and CallOverlay never holds on to a manager
\* that is through: its outgoing effect would make none for the next call.
THEOREM CallsAreSound == Spec => []CallsInv
<1>1. IInv => CallsInv
  BY DEF IInv, Parts, CallsInv, ComponentsHoldWork
<1>2. QED
  BY <1>1, CallsInductive, PTL

\* onSignal joins a caller only to the manager that answered this very call,
\* however many calls the two users began and gave up before.
THEOREM AnswersFindTheirCall == Spec => []AnswerIsForThisCall
<1>1. IInv => AnswerIsForThisCall
  BY DEF IInv
<1>2. QED
  BY <1>1, CallsInductive, PTL

\* The manager with a live connection is the one CallOverlay shows and its End
\* button destroys, except at a tab where an End cut an init short or an Accept
\* made a second manager.
THEOREM NoCallGoesOnUnseen == Spec => []NoHiddenCall
<1>1. IInv => NoHiddenCall
  BY DEF IInv, ScreensShowWork, Trouble, NoHiddenCall
<1>2. QED
  BY <1>1, CallsInductive, PTL

\* Each caller that waits has a ring at its callee, an offer, an answer or a
\* hangup on the way, and each ring a caller: store.incomingCall and the
\* caller's RtcManager agree up to the frames on the way and what went wrong.
THEOREM CallersHaveRings == Spec => []RingsMatchCalls
<1>1. IInv => RingsMatchCalls
  BY DEF IInv
<1>2. QED
  BY <1>1, CallsInductive, PTL

\* destroy always tells the other end: a caller whose answerer closed has the
\* hangup on its way, unless a frame was lost or another hangup crossed.
THEOREM CallersAreTold == Spec => []NoCallerAlone
<1>1. IInv => NoCallerAlone
  BY DEF IInv
<1>2. QED
  BY <1>1, CallsInductive, PTL
=============================================================================
