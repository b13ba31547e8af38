-------------------------- MODULE Conversations_proofs --------------------------
(***************************************************************************)
(* The safety of createDirect and createGroup for any number of users and  *)
(* calls: ThreadsInv is inductive.                                         *)
(***************************************************************************)
EXTENDS Conversations, TLAPS

\* The set of a pair and of a list with its first element taken off.
LEMMA SetOfPair == \A a, b : <<a, b>> # <<>> /\ Head(<<a, b>>) = a /\ ToSet(<<a, b>>) = {a, b}
<1> SUFFICES ASSUME NEW a, NEW b PROVE ToSet(<<a, b>>) = {a, b}
  OBVIOUS
<1>1. QED
  BY DEF ToSet

LEMMA SetOfTail ==
  ASSUME NEW S, NEW s \in Seq(S), s # <<>>
  PROVE  /\ Head(s) \in S /\ Tail(s) \in Seq(S) /\ Len(s) \in Nat
         /\ (Len(s) # 1 => Tail(s) # <<>>) /\ (Len(s) = 1 => ToSet(s) = {Head(s)})
         /\ ToSet(s) = {Head(s)} \cup ToSet(Tail(s))
         /\ ToSet(s) \subseteq S
<1>1. Len(s) \in Nat \ {0} /\ DOMAIN s = 1 .. Len(s) /\ Head(s) = s[1]
  OBVIOUS
<1>2. /\ Tail(s) \in Seq(S) /\ Len(Tail(s)) = Len(s) - 1
      /\ \A i \in 1 .. Len(s) - 1 : Tail(s)[i] = s[i + 1]
  BY <1>1
<1>3. DOMAIN Tail(s) = 1 .. Len(s) - 1
  BY <1>2
<1>4. \A i \in 2 .. Len(s) : i - 1 \in 1 .. Len(s) - 1 /\ Tail(s)[i - 1] = s[i]
  BY <1>1, <1>2
<1>5. \A i \in 1 .. Len(s) - 1 : i + 1 \in 1 .. Len(s)
  BY <1>1
<1>6. ToSet(s) = {Head(s)} \cup ToSet(Tail(s))
  <2>1. ToSet(s) \subseteq {Head(s)} \cup ToSet(Tail(s))
    <3> SUFFICES ASSUME NEW i \in 1 .. Len(s) PROVE s[i] \in {Head(s)} \cup ToSet(Tail(s))
      BY <1>1 DEF ToSet
    <3>1. i = 1 \/ i \in 2 .. Len(s)
      BY <1>1
    <3>2. QED
      BY <1>1, <1>3, <1>4, <3>1 DEF ToSet
  <2>2. Head(s) \in ToSet(s)
    BY <1>1 DEF ToSet
  <2>3. ToSet(Tail(s)) \subseteq ToSet(s)
    BY <1>1, <1>2, <1>3, <1>5 DEF ToSet
  <2>4. QED
    BY <2>1, <2>2, <2>3
<1>7. Len(s) = 1 => ToSet(s) = {Head(s)}
  BY <1>1 DEF ToSet
<1>8. ToSet(s) \subseteq S
  BY <1>1 DEF ToSet
<1>9. Head(s) \in S
  BY <1>1
<1>10. Len(s) # 1 => Tail(s) # <<>>
  BY <1>1, <1>2
<1>11. QED
  BY <1>1, <1>2, <1>6, <1>7, <1>8, <1>9, <1>10

LEMMA SeqOfIsSeq == SeqOf(Users, MaxPhones) \subseteq Seq(Users)
<1> SUFFICES ASSUME NEW s \in SeqOf(Users, MaxPhones) PROVE s \in Seq(Users)
  OBVIOUS
<1>1. PICK n \in 0 .. MaxPhones : s \in [1 .. n -> Users]
  BY DEF SeqOf
<1>2. n \in Nat
  BY Bounds
<1>3. QED
  BY <1>1, <1>2

\* The peer of a pair is its other user.
LEMMA PeerOfPair ==
  ASSUME NEW p \in Calls, NEW u, NEW v, u # v, key[p] = {u, v}, me[p] = u
  PROVE  Peer(p) = v
BY DEF Peer

LEMMA InitInv == Init => ThreadsInv
<1> SUFFICES ASSUME Init PROVE ThreadsInv
  OBVIOUS
<1>1. TypeOK
  <2>1. <<>> \in Seq(Users) /\ 0 \in 0 .. MaxFaults
    BY Bounds
  <2>2. /\ todo \in [Calls -> Seq(Users)] /\ key \in [Calls -> SUBSET Users]
        /\ answer \in [Calls -> (SUBSET Users) \cup {Unanswered, Missing}]
    BY <2>1 DEF Init
  <2>3. /\ pc \in [Calls -> {"new", "find", "insert", "readback", "group", "members",
                             "list", "title", "done", "failed"}]
        /\ me \in [Calls -> Users \cup {NoUser}] /\ conv \in [Calls -> Calls \cup {NoConv}]
    BY DEF Init
  <2>4. QED
    BY <2>1, <2>2, <2>3 DEF Init, TypeOK
<1>2. QED
  BY <1>1, Absent DEF Init, ThreadsInv, RowsHaveMakers, KeysAreUnique, AnswersExist, KeysArePairs,
     MakersAreOnTheirWay, MembersOf, AnswersAgree, CreatorComesFirst, HalfMadeHasACause

\* Two answers for one pair are of its one row.
LEMMA OneRowOneAnswer == KeysAreUnique /\ AnswersExist => AnswersAgree
<1> SUFFICES ASSUME KeysAreUnique, AnswersExist, NEW p \in Calls, NEW q \in Calls,
                    IsDirect(p), key[p] = key[q], conv[p] # NoConv, conv[q] # NoConv
             PROVE  conv[p] = conv[q]
  BY DEF AnswersAgree
<1>1. [id |-> conv[p], key |-> key[p]] \in rows /\ [id |-> conv[q], key |-> key[q]] \in rows
  BY DEF AnswersExist
<1>2. [id |-> conv[p], key |-> key[p]] = [id |-> conv[q], key |-> key[q]]
  BY <1>1 DEF KeysAreUnique, IsDirect
<1>3. QED
  BY <1>2

\* The same in the state after a step.
LEMMA OneRowOneAnswerNext == KeysAreUnique' /\ AnswersExist' => AnswersAgree'
BY OneRowOneAnswer, PTL

\* A new call has no row and takes no part in what is said of the others.
LEMMA StartInv ==
  ASSUME ThreadsInv, NEW p \in Calls, NEW u \in Users,
         \/ \E v \in Users : StartDirect(p, u, v)
         \/ \E others \in SeqOf(Users, MaxPhones) : StartGroup(p, u, others)
  PROVE  ThreadsInv'
<1> USE DEF ThreadsInv, Goto
<1>1. /\ pc[p] = "new" /\ rows' = rows /\ members' = members /\ conv' = conv
      /\ pc' \in [Calls -> {"new", "find", "insert", "readback", "group", "members",
                            "list", "title", "done", "failed"}]
      /\ pc'[p] \in {"find", "group"}
      /\ \A q \in Calls \ {p} : /\ pc'[q] = pc[q] /\ me'[q] = me[q] /\ key'[q] = key[q]
                                /\ todo'[q] = todo[q]
  BY DEF StartDirect, StartGroup, TypeOK
<1>2. \A r \in rows : r.id \in Calls \ {p}
  BY <1>1 DEF RowsHaveMakers, TypeOK
<1>3. TypeOK'
  <2>1. CASE \E v \in Users : StartDirect(p, u, v)
    BY <2>1, <1>1 DEF StartDirect, TypeOK
  <2>2. ASSUME NEW others \in SeqOf(Users, MaxPhones), StartGroup(p, u, others)
        PROVE TypeOK'
    <3>1. others \in Seq(Users)
      BY SeqOfIsSeq
    <3>2. <<u>> \o others \in Seq(Users)
      BY <3>1
    <3>3. QED
      BY <2>2, <3>2, <1>1 DEF StartGroup, TypeOK
  <2>3. QED
    BY <2>1, <2>2
<1>4. RowsHaveMakers' /\ KeysAreUnique'
  BY <1>1, <1>2 DEF RowsHaveMakers, KeysAreUnique
<1>5. AnswersExist'
  BY <1>1 DEF AnswersExist
<1>6. KeysArePairs'
  <2>1. /\ me'[p] = u
        /\ IF pc'[p] = "group" THEN key'[p] = {} ELSE \E v \in Users \ {u} : key'[p] = {u, v}
    BY <1>1 DEF StartDirect, StartGroup, TypeOK, KeysArePairs
  <2>2. QED
    BY <1>1, <2>1 DEF KeysArePairs
<1>7. MakersAreOnTheirWay'
  <2>1. pc'[p] = "group" => todo'[p] # <<>> /\ Head(todo'[p]) = me'[p]
    <3>1. SUFFICES ASSUME NEW others \in SeqOf(Users, MaxPhones), StartGroup(p, u, others)
                   PROVE  todo'[p] # <<>> /\ Head(todo'[p]) = me'[p]
      BY <1>1 DEF StartDirect, TypeOK
    <3>2. todo'[p] = <<u>> \o others /\ me'[p] = u /\ others \in Seq(Users)
      BY <3>1, SeqOfIsSeq DEF StartGroup, TypeOK
    <3>3. QED
      BY <3>2
  <2>2. QED
    BY <1>1, <2>1 DEF MakersAreOnTheirWay, MembersOf, IsDirect
<1>8. (CreatorComesFirst /\ HalfMadeHasACause)'
  BY <1>1, <1>2 DEF CreatorComesFirst, HalfMadeHasACause, MembersOf
<1>9. QED
  BY <1>3, <1>4, <1>5, <1>6, <1>7, <1>8, OneRowOneAnswerNext

\* What the queries of a call change, one case per query.
LEMMA QueryInv ==
  ASSUME ThreadsInv, NEW p \in Calls, Continue(p) \/ Fail(p)
  PROVE  ThreadsInv'
<1> USE DEF ThreadsInv, Goto, MembersOf
<1>1. CASE Find(p)
  <2>1. /\ pc[p] = "find" /\ rows' = rows /\ members' = members /\ me' = me /\ key' = key
        /\ todo' = todo /\ answer' = answer /\ faults' = faults
        /\ \/ /\ conv' = conv /\ pc' = [pc EXCEPT ![p] = "insert"]
           \/ /\ pc' = [pc EXCEPT ![p] = "list"]
              /\ \E r \in rows : r.key = key[p] /\ conv' = [conv EXCEPT ![p] = r.id]
    BY <1>1 DEF Find
  <2>2. \A r \in rows : r = [id |-> r.id, key |-> r.key] /\ r.id \in Calls
    BY DEF TypeOK
  <2>3. /\ pc' \in [Calls -> {"new", "find", "insert", "readback", "group", "members",
                              "list", "title", "done", "failed"}]
        /\ conv' \in [Calls -> Calls \cup {NoConv}]
        /\ pc'[p] \in {"insert", "list"}
        /\ \A q \in Calls \ {p} : pc'[q] = pc[q] /\ conv'[q] = conv[q]
        /\ \/ conv'[p] = conv[p] /\ pc'[p] = "insert"
           \/ [id |-> conv'[p], key |-> key[p]] \in rows /\ conv'[p] # NoConv
    <3>1. CASE conv' = conv /\ pc' = [pc EXCEPT ![p] = "insert"]
      BY <2>1, <3>1 DEF TypeOK
    <3>2. ASSUME NEW r \in rows, r.key = key[p], conv' = [conv EXCEPT ![p] = r.id],
                 pc' = [pc EXCEPT ![p] = "list"]
          PROVE  /\ conv' \in [Calls -> Calls \cup {NoConv}]
                 /\ pc'[p] = "list" /\ \A q \in Calls \ {p} : pc'[q] = pc[q] /\ conv'[q] = conv[q]
                 /\ [id |-> conv'[p], key |-> key[p]] \in rows /\ conv'[p] # NoConv
                 /\ pc' \in [Calls -> {"new", "find", "insert", "readback", "group", "members",
                                       "list", "title", "done", "failed"}]
      <4>1. r = [id |-> r.id, key |-> r.key] /\ r.id \in Calls /\ conv'[p] = r.id
        BY <2>2, <3>2 DEF TypeOK
      <4>2. QED
        BY <3>2, <4>1, Absent DEF TypeOK
    <3>3. QED
      BY <2>1, <3>1, <3>2
  <2>4. TypeOK'
    BY <2>1, <2>3 DEF TypeOK
  <2>5. \A r \in rows : r.id # p
    BY <2>1 DEF RowsHaveMakers
  <2>6. RowsHaveMakers' /\ KeysAreUnique'
    BY <2>1, <2>2, <2>3, <2>5 DEF RowsHaveMakers, KeysAreUnique
  <2>7. AnswersExist'
    BY <2>1, <2>3 DEF AnswersExist
  <2>8. KeysArePairs'
    BY <2>1, <2>3 DEF KeysArePairs
  <2>9. MakersAreOnTheirWay'
    <3>1. MembersOf(p) = {}
      BY <2>1 DEF MakersAreOnTheirWay
    <3>2. \A q \in Calls : MembersOf(q)' = MembersOf(q)
      BY <2>1
    <3>3. QED
      BY <2>1, <2>3, <3>1, <3>2 DEF MakersAreOnTheirWay, IsDirect
  <2>10. (CreatorComesFirst /\ HalfMadeHasACause)'
    BY <2>1, <2>2, <2>3, <2>5 DEF CreatorComesFirst, HalfMadeHasACause
  <2>11. QED
    BY <2>4, <2>6, <2>7, <2>8, <2>9, <2>10, OneRowOneAnswerNext
<1>2. CASE InsertThread(p)
  <2> DEFINE new == [id |-> p, key |-> key[p]]
  <2>1. /\ pc[p] = "insert" /\ pc' = [pc EXCEPT ![p] = "readback"]
        /\ members' = members /\ me' = me /\ key' = key /\ todo' = todo /\ conv' = conv
        /\ answer' = answer /\ faults' = faults
        /\ \/ rows' = rows /\ \E r \in rows : r.key = key[p]
           \/ rows' = rows \cup {new} /\ \A r \in rows : r.key # key[p]
    BY <1>2 DEF InsertThread
  <2>2. /\ rows \subseteq rows' /\ \E r \in rows' : r.key = key[p]
        /\ \A r \in rows' : r \in rows \/ (r = new /\ \A s \in rows : s.key # key[p])
        /\ new.id = p /\ new.key = key[p]
    <3>1. new.id = p /\ new.key = key[p]
      OBVIOUS
    <3>2. CASE rows' = rows /\ \E r \in rows : r.key = key[p]
      BY <3>1, <3>2
    <3>3. CASE rows' = rows \cup {new} /\ \A r \in rows : r.key # key[p]
      <4>1. new \in rows'
        BY <3>3
      <4>2. QED
        BY <3>1, <3>3, <4>1
    <3>4. QED
      BY <2>1, <3>2, <3>3
  <2>3. MembersOf(p) = {} /\ pc'[p] = "readback" /\ \A q \in Calls \ {p} : pc'[q] = pc[q]
    BY <2>1 DEF MakersAreOnTheirWay, TypeOK
  <2>4. TypeOK'
    <3>1. new \in [id : Calls, key : SUBSET Users]
      BY DEF TypeOK
    <3>2. rows' \subseteq [id : Calls, key : SUBSET Users]
      BY <2>2, <3>1 DEF TypeOK
    <3>3. QED
      BY <2>1, <3>2 DEF TypeOK
  <2>5. \A r \in rows : r.id \in Calls \ {p}
    BY <2>1 DEF RowsHaveMakers, TypeOK
  <2>6. RowsHaveMakers'
    BY <2>1, <2>2, <2>3, <2>5 DEF RowsHaveMakers
  <2>7. KeysAreUnique'
    BY <2>1, <2>2 DEF KeysAreUnique
  <2>8. AnswersExist' /\ KeysArePairs'
    BY <2>1, <2>2, <2>3 DEF AnswersExist, KeysArePairs
  <2>9. MakersAreOnTheirWay'
    <3>1. \A q \in Calls : MembersOf(q)' = MembersOf(q)
      BY <2>1
    <3>2. QED
      BY <2>1, <2>2, <2>3, <3>1 DEF MakersAreOnTheirWay, IsDirect
  <2>10. \A r \in rows : pc'[r.id] = pc[r.id] /\ MembersOf(r.id)' = MembersOf(r.id)
    BY <2>1, <2>3, <2>5
  <2>11. CreatorComesFirst'
    BY <2>1, <2>2, <2>3, <2>10 DEF CreatorComesFirst
  <2>12. HalfMadeHasACause'
    BY <2>1, <2>2, <2>3, <2>10 DEF HalfMadeHasACause
  <2>13. QED
    BY <2>4, <2>6, <2>7, <2>8, <2>9, <2>11, <2>12, OneRowOneAnswerNext
<1>3. CASE ReadBack(p)
  <2>1. PICK r \in rows :
          /\ pc[p] = "readback" /\ r.key = key[p]
          /\ conv' = [conv EXCEPT ![p] = r.id]
          /\ todo' = [todo EXCEPT ![p] = IF r.id = p THEN <<me[p], Peer(p)>> ELSE <<>>]
          /\ pc' = [pc EXCEPT ![p] = IF r.id = p THEN "members" ELSE "list"]
          /\ rows' = rows /\ members' = members /\ me' = me /\ key' = key
          /\ answer' = answer /\ faults' = faults
    BY <1>3 DEF ReadBack
  <2>2. PICK v \in Users \ {me[p]} : key[p] = {me[p], v}
    BY <2>1 DEF KeysArePairs
  <2>3. me[p] \in Users /\ Peer(p) = v /\ MembersOf(p) = {}
    BY <2>1, <2>2 DEF KeysArePairs, MakersAreOnTheirWay, Peer
  <2>4. r = [id |-> r.id, key |-> r.key] /\ r.id \in Calls
    BY DEF TypeOK
  <2>5. TypeOK'
    <3>1. <<me[p], Peer(p)>> \in Seq(Users) /\ <<>> \in Seq(Users)
      BY <2>2, <2>3
    <3>2. QED
      BY <2>1, <2>4, <3>1 DEF TypeOK
  <2>6. RowsHaveMakers' /\ KeysAreUnique'
    BY <2>1 DEF RowsHaveMakers, KeysAreUnique, TypeOK
  <2>7. AnswersExist' /\ KeysArePairs'
    <3>1. AnswersExist'
      BY <2>1, <2>4, Absent DEF AnswersExist, TypeOK
    <3>2. KeysArePairs'
      BY <2>1 DEF KeysArePairs, TypeOK
    <3>3. QED
      BY <3>1, <3>2
  <2>8. MakersAreOnTheirWay'
    <3>1. \A q \in Calls \ {p} : pc'[q] = pc[q] /\ conv'[q] = conv[q] /\ todo'[q] = todo[q]
      BY <2>1 DEF TypeOK
    <3>2. CASE r.id = p
      <4>1. pc'[p] = "members" /\ conv'[p] = p /\ todo'[p] = <<me[p], v>>
        BY <2>1, <2>3, <3>2 DEF TypeOK
      <4>2. /\ todo'[p] # <<>> /\ Head(todo'[p]) = me[p]
            /\ ToSet(todo'[p]) = key[p]
        BY <2>2, <4>1, SetOfPair
      <4>3. QED
        BY <2>1, <2>3, <3>1, <4>1, <4>2 DEF MakersAreOnTheirWay, IsDirect
    <3>3. CASE r.id # p
      BY <2>1, <3>1, <3>3 DEF MakersAreOnTheirWay, IsDirect, TypeOK
    <3>4. QED
      BY <3>2, <3>3
  <2>9. CreatorComesFirst'
    BY <2>1 DEF CreatorComesFirst
  <2>10. HalfMadeHasACause'
    <3>1. SUFFICES ASSUME NEW s \in rows, s.key # {}
                   PROVE  MembersOf(s.id) = s.key \/ pc'[s.id] \in {"readback", "members", "failed"}
      BY <2>1 DEF HalfMadeHasACause
    <3>2. CASE s.id = p
      <4>1. s.key = key[p]
        BY <3>2 DEF RowsHaveMakers
      <4>2. s = r
        BY <2>1, <3>1, <4>1 DEF KeysAreUnique
      <4>3. QED
        BY <2>1, <3>2, <4>2 DEF TypeOK
    <3>3. CASE s.id # p
      BY <2>1, <3>1, <3>3 DEF HalfMadeHasACause, TypeOK
    <3>4. QED
      BY <3>2, <3>3
  <2>11. QED
    BY <2>5, <2>6, <2>7, <2>8, <2>9, <2>10, OneRowOneAnswerNext
<1>4. CASE InsertGroup(p)
  <2> DEFINE new == [id |-> p, key |-> {}]
  <2>1. /\ pc[p] = "group" /\ pc' = [pc EXCEPT ![p] = "members"]
        /\ rows' = rows \cup {new} /\ conv' = [conv EXCEPT ![p] = p]
        /\ members' = members /\ me' = me /\ key' = key /\ todo' = todo
        /\ answer' = answer /\ faults' = faults
    BY <1>4 DEF InsertGroup
  <2>2. /\ MembersOf(p) = {} /\ key[p] = {} /\ pc'[p] = "members" /\ conv'[p] = p
        /\ \A q \in Calls \ {p} : pc'[q] = pc[q] /\ conv'[q] = conv[q]
        /\ new.id = p /\ new.key = {}
    BY <2>1 DEF MakersAreOnTheirWay, KeysArePairs, TypeOK
  <2>3. \A r \in rows : r.id \in Calls \ {p}
    BY <2>1 DEF RowsHaveMakers, TypeOK
  <2>4. TypeOK'
    <3>1. new \in [id : Calls, key : SUBSET Users]
      OBVIOUS
    <3>2. QED
      BY <2>1, <3>1 DEF TypeOK
  <2>5. RowsHaveMakers'
    BY <2>1, <2>2, <2>3 DEF RowsHaveMakers
  <2>6. KeysAreUnique'
    BY <2>1, <2>2 DEF KeysAreUnique
  <2>7. AnswersExist' /\ KeysArePairs'
    <3>1. AnswersExist'
      BY <2>1, <2>2 DEF AnswersExist
    <3>2. KeysArePairs'
      BY <2>1, <2>2 DEF KeysArePairs
    <3>3. QED
      BY <3>1, <3>2
  <2>8. MakersAreOnTheirWay'
    <3>1. \A q \in Calls : MembersOf(q)' = MembersOf(q)
      BY <2>1
    <3>2. todo[p] # <<>> /\ Head(todo[p]) = me[p]
      BY <2>1 DEF MakersAreOnTheirWay
    <3>3. QED
      BY <2>1, <2>2, <3>1, <3>2 DEF MakersAreOnTheirWay, IsDirect
  <2>9. \A r \in rows : pc'[r.id] = pc[r.id] /\ MembersOf(r.id)' = MembersOf(r.id)
    BY <2>1, <2>2, <2>3
  <2>10. CreatorComesFirst'
    BY <2>1, <2>2, <2>9 DEF CreatorComesFirst
  <2>11. HalfMadeHasACause'
    BY <2>1, <2>2, <2>9 DEF HalfMadeHasACause
  <2>12. QED
    BY <2>4, <2>5, <2>6, <2>7, <2>8, <2>10, <2>11, OneRowOneAnswerNext
<1>5. CASE InsertMember(p)
  <2> DEFINE u == Head(todo[p])
  <2>1. /\ pc[p] = "members" /\ conv[p] = p /\ todo[p] \in Seq(Users) /\ todo[p] # <<>>
        /\ [id |-> p, key |-> key[p]] \in rows
    <3>1. pc[p] = "members"
      BY <1>5 DEF InsertMember
    <3>2. conv[p] = p /\ todo[p] # <<>> /\ conv[p] # NoConv
      BY <3>1, Absent DEF MakersAreOnTheirWay
    <3>3. QED
      BY <3>1, <3>2 DEF AnswersExist, TypeOK
  <2>2. /\ members' = members \cup {<<p, u>>}
        /\ todo' = [todo EXCEPT ![p] = Tail(todo[p])]
        /\ pc' = [pc EXCEPT ![p] = IF Len(todo[p]) = 1 THEN "list" ELSE "members"]
        /\ rows' = rows /\ me' = me /\ key' = key /\ conv' = conv /\ answer' = answer
        /\ faults' = faults
    BY <1>5, <2>1 DEF InsertMember
  <2>3. /\ u \in Users /\ Tail(todo[p]) \in Seq(Users)
        /\ Len(todo[p]) # 1 => Tail(todo[p]) # <<>>
        /\ Len(todo[p]) = 1 => ToSet(todo[p]) = {u}
        /\ ToSet(todo[p]) = {u} \cup ToSet(Tail(todo[p]))
        /\ ToSet(todo[p]) \subseteq Users
    BY <2>1, SetOfTail
  <2>4. /\ MembersOf(p)' = MembersOf(p) \cup {u}
        /\ \A c \in Calls \ {p} : MembersOf(c)' = MembersOf(c)
    BY <2>2, <2>3
  <2>5. TypeOK'
    BY <2>2, <2>3 DEF TypeOK
  <2>6. RowsHaveMakers' /\ KeysAreUnique'
    BY <2>1, <2>2 DEF RowsHaveMakers, KeysAreUnique, TypeOK
  <2>7. AnswersExist' /\ KeysArePairs'
    <3>1. AnswersExist'
      BY <2>1, <2>2, Absent DEF AnswersExist, TypeOK
    <3>2. KeysArePairs'
      BY <2>1, <2>2 DEF KeysArePairs, TypeOK
    <3>3. QED
      BY <3>1, <3>2
  <2>8. IsDirect(p) => MembersOf(p) \cup ToSet(todo[p]) = key[p]
    BY <2>1 DEF MakersAreOnTheirWay
  <2>9. MakersAreOnTheirWay'
    <3>1. SUFFICES ASSUME NEW q \in Calls PROVE MakersAreOnTheirWay!(q)'
      BY DEF MakersAreOnTheirWay
    <3>2. CASE q = p
      BY <2>1, <2>2, <2>3, <2>4, <2>8, <3>2 DEF IsDirect, TypeOK
    <3>3. CASE q # p
      <4>1. /\ pc'[q] = pc[q] /\ conv'[q] = conv[q] /\ todo'[q] = todo[q]
            /\ MembersOf(q)' = MembersOf(q)
        BY <2>2, <2>4, <3>3 DEF TypeOK
      <4>2. QED
        BY <2>2, <4>1 DEF MakersAreOnTheirWay, IsDirect
    <3>4. QED
      BY <3>2, <3>3
  <2>10. CreatorComesFirst'
    <3>1. me[p] \in MembersOf(p)'
      BY <2>1, <2>4 DEF MakersAreOnTheirWay, CreatorComesFirst
    <3>2. \A r \in rows : r.id \in Calls
      BY DEF TypeOK
    <3>3. QED
      BY <2>2, <2>4, <3>1, <3>2 DEF CreatorComesFirst
  <2>11. HalfMadeHasACause'
    <3>1. SUFFICES ASSUME NEW r \in rows, r.key # {}
                   PROVE  MembersOf(r.id)' = r.key
                          \/ pc'[r.id] \in {"readback", "members", "failed"}
      BY <2>2 DEF HalfMadeHasACause
    <3>2. CASE r.id = p
      <4>1. r.key = key[p] /\ IsDirect(p)
        BY <3>1, <3>2 DEF RowsHaveMakers, IsDirect
      <4>2. Len(todo[p]) = 1 => MembersOf(p)' = key[p]
        BY <2>3, <2>4, <2>8, <4>1
      <4>3. QED
        BY <2>2, <3>2, <4>1, <4>2 DEF TypeOK
    <3>3. CASE r.id # p
      BY <2>2, <2>4, <3>1, <3>3 DEF HalfMadeHasACause, TypeOK
    <3>4. QED
      BY <3>2, <3>3
  <2>12. QED
    BY <2>5, <2>6, <2>7, <2>9, <2>10, <2>11, OneRowOneAnswerNext
<1>6. CASE List(p) \/ ReadMembers(p) \/ Fail(p)
  <2> USE <1>6 DEF List, ReadMembers, Fail
  <2>1. /\ rows' = rows /\ members' = members /\ me' = me /\ key' = key /\ todo' = todo
        /\ conv' = conv
        /\ pc' \in [Calls -> {"new", "find", "insert", "readback", "group", "members",
                              "list", "title", "done", "failed"}]
        /\ \A q \in Calls \ {p} : pc'[q] = pc[q]
        /\ pc'[p] \in {"title", "done", "failed"}
        /\ pc'[p] # "failed" => pc[p] \in {"list", "title"}
        /\ pc[p] # "new"
    BY DEF TypeOK
  <2>2. TypeOK'
    <3>1. answer' \in [Calls -> (SUBSET Users) \cup {Unanswered, Missing}]
      <4>1. CASE List(p)
        BY <4>1 DEF TypeOK
      <4>2. CASE ReadMembers(p)
        BY <4>2 DEF TypeOK
      <4>3. CASE Fail(p)
        BY <4>3 DEF TypeOK
      <4>4. QED
        BY <4>1, <4>2, <4>3
    <3>2. faults' \in 0 .. MaxFaults
      BY Bounds DEF TypeOK
    <3>3. QED
      BY <2>1, <3>1, <3>2 DEF TypeOK
  <2>3. RowsHaveMakers' /\ KeysAreUnique'
    BY <2>1 DEF RowsHaveMakers, KeysAreUnique, TypeOK
  <2>4. AnswersExist' /\ KeysArePairs'
    BY <2>1 DEF AnswersExist, KeysArePairs
  <2>5. MakersAreOnTheirWay'
    BY <2>1 DEF MakersAreOnTheirWay, IsDirect
  <2>6. CreatorComesFirst'
    BY <2>1 DEF CreatorComesFirst
  <2>7. HalfMadeHasACause'
    BY <2>1 DEF HalfMadeHasACause, TypeOK
  <2>8. QED
    BY <2>2, <2>3, <2>4, <2>5, <2>6, <2>7, OneRowOneAnswerNext
<1>7. QED
  BY <1>1, <1>2, <1>3, <1>4, <1>5, <1>6 DEF Continue

LEMMA StepInv == ThreadsInv /\ [Next]_vars => ThreadsInv'
<1> SUFFICES ASSUME ThreadsInv, [Next]_vars PROVE ThreadsInv'
  OBVIOUS
<1>1. CASE UNCHANGED vars
  <2> USE <1>1 DEF vars, calls, ThreadsInv
  <2>1. TypeOK'
    BY DEF TypeOK
  <2>2. (RowsHaveMakers /\ KeysAreUnique /\ AnswersExist /\ KeysArePairs)'
    BY DEF RowsHaveMakers, KeysAreUnique, AnswersExist, KeysArePairs
  <2>3. MakersAreOnTheirWay'
    BY DEF MakersAreOnTheirWay, MembersOf, IsDirect
  <2>4. (CreatorComesFirst /\ HalfMadeHasACause)'
    BY DEF CreatorComesFirst, HalfMadeHasACause, MembersOf
  <2>5. QED
    BY <2>1, <2>2, <2>3, <2>4, OneRowOneAnswerNext
<1>2. CASE Next
  BY <1>2, StartInv, QueryInv DEF Next
<1>3. QED
  BY <1>1, <1>2

\* createDirect and createGroup keep their invariant, however many calls
\* interleave, fail or die at any of their queries.
THEOREM ThreadsSafety == Spec => []ThreadsInv
<1>1. QED
  BY InitInv, StepInv, PTL DEF Spec

\* Concurrent "start chat with X" calls are answered with one thread
\* (createDirect's ON CONFLICT and read-back).
THEOREM OneThreadPerPair == Spec => []AnswersAgree
<1>1. ThreadsInv => AnswersAgree
  BY DEF ThreadsInv
<1>2. QED
  BY <1>1, ThreadsSafety, PTL

\* No conversation has members and not its creator (the order of the inserts of
\* createDirect and createGroup).
THEOREM CreatorIsFirst == Spec => []CreatorComesFirst
<1>1. ThreadsInv => CreatorComesFirst
  BY DEF ThreadsInv
<1>2. QED
  BY <1>1, ThreadsSafety, PTL

\* A thread without both its members is being made, or its maker failed.
THEOREM HalfMadeExplained == Spec => []HalfMadeHasACause
<1>1. ThreadsInv => HalfMadeHasACause
  BY DEF ThreadsInv
<1>2. QED
  BY <1>1, ThreadsSafety, PTL

\* Only such a thread makes getSummary answer with undefined or without the
\* peer.
THEOREM MisleadingAnswersExplained == Spec => OnlyHalfMadeThreadsMislead
<1> DEFINE Half(c) == pc[c] \in {"readback", "members", "failed"}
<1>1. ASSUME ThreadsInv, [Next]_vars, NEW p \in Calls,
             answer[p] = Unanswered, answer'[p] # Unanswered, IsDirect(p)
      PROVE  answer'[p] = key[p] \/ (conv[p] # p /\ Half(conv[p]))
  <2> USE DEF ThreadsInv
  <2>1. \/ pc[p] = "list" /\ <<conv[p], me[p]>> \notin members
        \/ pc[p] = "title" /\ answer'[p] = MembersOf(conv[p])
    <3>1. CASE \E q \in Calls : List(q) \/ ReadMembers(q)
      <4>1. PICK q \in Calls : List(q) \/ ReadMembers(q)
        BY <3>1
      <4>2. q = p
        BY <1>1, <4>1 DEF List, ReadMembers, TypeOK
      <4>3. CASE List(p)
        BY <1>1, <4>3 DEF List
      <4>4. CASE ReadMembers(p)
        <5>1. pc[p] = "title" /\ answer'[p] = {u \in Users : <<conv[p], u>> \in members}
          BY <1>1, <4>4 DEF ReadMembers, TypeOK
        <5>2. QED
          BY <5>1 DEF MembersOf
      <4>5. QED
        BY <4>1, <4>2, <4>3, <4>4
    <3>2. CASE ~\E q \in Calls : List(q) \/ ReadMembers(q)
      <4>1. answer' = answer
        BY <1>1, <3>2 DEF Next, vars, calls, StartDirect, StartGroup, Continue, Find,
           InsertThread, ReadBack, InsertGroup, InsertMember, Fail
      <4>2. QED
        BY <1>1, <4>1
    <3>3. QED
      BY <3>1, <3>2
  <2>2. conv[p] \in Calls /\ [id |-> conv[p], key |-> key[p]] \in rows
    <3>1. conv[p] # NoConv
      BY <1>1, <2>1 DEF AnswersExist
    <3>2. QED
      BY <1>1, <3>1 DEF AnswersExist, TypeOK
  <2>3. MembersOf(conv[p]) = key[p] \/ Half(conv[p])
    BY <1>1, <2>2 DEF HalfMadeHasACause, IsDirect
  <2>4. me[p] \in key[p] /\ me[p] \in Users
    BY <1>1, <2>1 DEF KeysArePairs, IsDirect
  <2>5. CASE MembersOf(conv[p]) = key[p]
    BY <2>1, <2>4, <2>5 DEF MembersOf
  <2>6. CASE Half(conv[p])
    BY <2>1, <2>6
  <2>7. QED
    BY <2>3, <2>5, <2>6
<1>2. ThreadsInv /\ [Next]_vars =>
        \A p \in Calls :
          (answer[p] = Unanswered /\ answer'[p] # Unanswered /\ IsDirect(p)) =>
             \/ answer'[p] = key[p]
             \/ conv[p] # p /\ pc[conv[p]] \in {"readback", "members", "failed"}
  BY <1>1
<1>3. QED
  BY <1>2, ThreadsSafety, PTL DEF Spec, OnlyHalfMadeThreadsMislead

===============================================================================
