----------------------------- MODULE Conversations -----------------------------
(***************************************************************************)
(* How conversations come to be: createDirect, createGroup and getSummary  *)
(* of conversations.service.ts, called by the REST controller.             *)
(*                                                                         *)
(* A call is a handler that gives way at every query.  There is no         *)
(* transaction around its statements: a thread's row and its two rows of   *)
(* conversation_members are stored one by one, in sight of other calls,    *)
(* and a call that dies leaves what it had stored.  The identity of a      *)
(* conversation is the call whose randomUUID made it.                      *)
(***************************************************************************)
EXTENDS Naturals, Sequences, SequencesExt

CONSTANTS Users,
          Calls,     \* requests in the life of the model
          MaxPhones, \* bound: length of memberPhones
          MaxFaults, \* bound: queries that throw, calls lost in a crash
          NoUser, NoConv, Unanswered, Missing

ASSUME Bounds == MaxPhones \in Nat /\ MaxFaults \in Nat
ASSUME Absent == NoUser \notin Users /\ NoConv \notin Calls

VARIABLES rows,     \* conversations: [id, key], key is {} for a group
          members,  \* conversation_members: <<id, user>>
          pc,       \* call -> the query it waits for
          me,       \* call -> the user who calls
          key,      \* call -> the pair (direct_key), or {} for a group
          todo,     \* call -> members it has to insert, in order
          conv,     \* call -> the conversation it will answer with
          answer,   \* call -> the members its summary lists, or Missing
          faults

calls == <<pc, me, key, todo, conv, answer>>
vars == <<rows, members, calls, faults>>

TypeOK == /\ rows \subseteq [id : Calls, key : SUBSET Users]
          /\ members \subseteq Calls \X Users
          /\ pc \in [Calls -> {"new", "find", "insert", "readback", "group", "members",
                               "list", "title", "done", "failed"}]
          /\ me \in [Calls -> Users \cup {NoUser}]
          /\ key \in [Calls -> SUBSET Users]
          /\ todo \in [Calls -> Seq(Users)]
          /\ conv \in [Calls -> Calls \cup {NoConv}]
          /\ answer \in [Calls -> (SUBSET Users) \cup {Unanswered, Missing}]
          /\ faults \in 0 .. MaxFaults

Init == /\ rows = {} /\ members = {}
        /\ pc = [p \in Calls |-> "new"]
        /\ me = [p \in Calls |-> NoUser]
        /\ key = [p \in Calls |-> {}]
        /\ todo = [p \in Calls |-> <<>>]
        /\ conv = [p \in Calls |-> NoConv]
        /\ answer = [p \in Calls |-> Unanswered]
        /\ faults = 0

\* Requests are numbered as they come.
Next1 == CHOOSE p \in Calls : pc[p] = "new"
Goto(p, l) == pc' = [pc EXCEPT ![p] = l]
Peer(p) == CHOOSE v \in key[p] : v # me[p]

----------------------------------------------------------------------------
\* createDirect.

\* The phone is known and is not the caller's own.
StartDirect(p, u, v) ==
  /\ pc[p] = "new" /\ p = Next1 /\ u # v
  /\ me' = [me EXCEPT ![p] = u]
  /\ key' = [key EXCEPT ![p] = {u, v}]
  /\ Goto(p, "find")
  /\ UNCHANGED <<rows, members, todo, conv, answer, faults>>

\* The thread of the pair, if its row exists, is answered with.
Find(p) ==
  /\ pc[p] = "find"
  /\ \/ \E r \in rows : /\ r.key = key[p]
                        /\ conv' = [conv EXCEPT ![p] = r.id]
                        /\ Goto(p, "list")
     \/ /\ \A r \in rows : r.key # key[p]
        /\ Goto(p, "insert")
        /\ UNCHANGED conv
  /\ UNCHANGED <<rows, members, me, key, todo, answer, faults>>

\* Mutant: no UNIQUE constraint on direct_key.
InsertDuplicate(p) ==
  /\ pc[p] = "insert"
  /\ rows' = rows \cup {[id |-> p, key |-> key[p]]}
  /\ Goto(p, "readback")
  /\ UNCHANGED <<members, me, key, todo, conv, answer, faults>>

\* INSERT ... ON CONFLICT (direct_key) DO NOTHING.
InsertThread(p) ==
  /\ pc[p] = "insert"
  /\ rows' = IF \E r \in rows : r.key = key[p] THEN rows
             ELSE rows \cup {[id |-> p, key |-> key[p]]}
  /\ Goto(p, "readback")
  /\ UNCHANGED <<members, me, key, todo, conv, answer, faults>>

\* Mutant: a member is inserted by whoever lost the race too, and no one else.
ReadBackLoser(p) ==
  /\ pc[p] = "readback"
  /\ \E r \in rows :
       /\ r.key = key[p]
       /\ conv' = [conv EXCEPT ![p] = r.id]
       /\ todo' = [todo EXCEPT ![p] = IF r.id = p THEN <<me[p]>> ELSE <<>>]
       /\ Goto(p, IF r.id = p THEN "members" ELSE "list")
  /\ UNCHANGED <<rows, members, me, key, answer, faults>>

\* Whichever row won is read back; its own call inserts the members, the
\* caller first.
ReadBack(p) ==
  /\ pc[p] = "readback"
  /\ \E r \in rows :
       /\ r.key = key[p]
       /\ conv' = [conv EXCEPT ![p] = r.id]
       /\ todo' = [todo EXCEPT ![p] =
                     IF r.id = p THEN <<me[p], Peer(p)>> ELSE <<>>]
       /\ Goto(p, IF r.id = p THEN "members" ELSE "list")
  /\ UNCHANGED <<rows, members, me, key, answer, faults>>

----------------------------------------------------------------------------
\* createGroup, and what both end with.

\* The creator is the first member.  The others are in the order of
\* memberPhones, without the phones that are nobody's or the creator's own, which
\* the loop skips.
StartGroup(p, u, others) ==
  /\ pc[p] = "new" /\ p = Next1
  /\ me' = [me EXCEPT ![p] = u]
  /\ todo' = [todo EXCEPT ![p] = <<u>> \o others]
  /\ Goto(p, "group")
  /\ UNCHANGED <<rows, members, key, conv, answer, faults>>

InsertGroup(p) ==
  /\ pc[p] = "group"
  /\ rows' = rows \cup {[id |-> p, key |-> {}]}
  /\ conv' = [conv EXCEPT ![p] = p]
  /\ Goto(p, "members")
  /\ UNCHANGED <<members, me, key, todo, answer, faults>>

InsertMember(p) ==
  /\ pc[p] = "members"
  /\ members' = members \cup {<<conv[p], Head(todo[p])>>}
  /\ todo' = [todo EXCEPT ![p] = Tail(@)]
  /\ Goto(p, IF Len(todo[p]) = 1 THEN "list" ELSE "members")
  /\ UNCHANGED <<rows, me, key, conv, answer, faults>>

\* getSummary looks for the conversation among those the caller is a member
\* of; if it is not there, the answer is undefined.
List(p) ==
  /\ pc[p] = "list"
  /\ \/ /\ <<conv[p], me[p]>> \in members
        /\ Goto(p, "title")
        /\ UNCHANGED answer
     \/ /\ <<conv[p], me[p]>> \notin members
        /\ answer' = [answer EXCEPT ![p] = Missing]
        /\ Goto(p, "done")
  /\ UNCHANGED <<rows, members, me, key, todo, conv, faults>>

\* A query of its own reads the members, and a thread's title from them.
ReadMembers(p) ==
  /\ pc[p] = "title"
  /\ answer' = [answer EXCEPT ![p] = {u \in Users : <<conv[p], u>> \in members}]
  /\ Goto(p, "done")
  /\ UNCHANGED <<rows, members, me, key, todo, conv, faults>>

\* A query throws or the instance dies: nothing undoes what is stored.
Fail(p) ==
  /\ pc[p] \notin {"new", "done", "failed"} /\ faults < MaxFaults
  /\ faults' = faults + 1
  /\ Goto(p, "failed")
  /\ UNCHANGED <<rows, members, me, key, todo, conv, answer>>

----------------------------------------------------------------------------
Continue(p) == \/ Find(p) \/ InsertThread(p) \/ ReadBack(p) \/ InsertGroup(p)
               \/ InsertMember(p) \/ List(p) \/ ReadMembers(p)

Next == \E p \in Calls : \/ \E u, v \in Users : StartDirect(p, u, v)
                         \/ \E u \in Users, others \in SeqOf(Users, MaxPhones) :
                              u \notin ToSet(others) /\ StartGroup(p, u, others)
                         \/ Continue(p)
                         \/ Fail(p)

Spec == Init /\ [][Next]_vars

\* A settled query resumes its call.
FairSpec == Spec /\ \A p \in Calls : WF_vars(Continue(p))

----------------------------------------------------------------------------
MembersOf(c) == {u \in Users : <<c, u>> \in members}
IsDirect(p) == key[p] # {}

\* "The UNIQUE constraint collapses concurrent start chat with X races into one
\* row" (conversations.service.ts:30-32): whoever of a pair asks, and however
\* the calls interleave or die, they are answered with the same thread.
AnswersAgree ==
  \A p, q \in Calls :
    (IsDirect(p) /\ key[p] = key[q] /\ conv[p] # NoConv /\ conv[q] # NoConv)
      => conv[p] = conv[q]

\* Nobody is in a conversation without the user who made it, even one whose
\* making was cut short: its creator's membership is stored first.
CreatorComesFirst ==
  \A r \in rows : MembersOf(r.id) # {} => me[r.id] \in MembersOf(r.id)

\* A thread that lacks a member is being made, or its maker died: the caller
\* who lost the race never leaves it half made.
HalfMadeHasACause ==
  \A r \in rows : r.key # {} =>
    \/ MembersOf(r.id) = r.key
    \/ pc[r.id] \in {"readback", "members", "failed"}

\* A call that finds the thread there can be told that it does not exist
\* (undefined), or be shown it without its peer (titled 'Unknown'); but only
\* while another call is making it, or if that call died.
OnlyHalfMadeThreadsMislead ==
  [][\A p \in Calls :
       (answer[p] = Unanswered /\ answer'[p] # Unanswered /\ IsDirect(p)) =>
         \/ answer'[p] = key[p]
         \/ conv[p] # p /\ pc[conv[p]] \in {"readback", "members", "failed"}]_vars

\* What these rest on.  A row's maker has gone past its INSERT; a pair has one
\* row; a call answers with a row of its own key; no member is stored before the
\* row's maker sets out to, and the members it still has to insert make up, with
\* those there, the pair.
RowsHaveMakers ==
  \A r \in rows : /\ r.key = key[r.id]
                  /\ pc[r.id] \notin {"new", "find", "insert", "group"}

KeysAreUnique == \A r, s \in rows : (r.key = s.key /\ r.key # {}) => r = s

AnswersExist ==
  \A p \in Calls :
    /\ pc[p] \in {"list", "title"} => conv[p] # NoConv
    /\ conv[p] # NoConv => pc[p] # "new" /\ [id |-> conv[p], key |-> key[p]] \in rows

KeysArePairs ==
  \A p \in Calls :
    /\ pc[p] # "new" => me[p] \in Users
    /\ pc[p] \in {"new", "group"} => key[p] = {}
    /\ key[p] # {} => me[p] \in key[p]
    /\ pc[p] \in {"find", "insert", "readback"} =>
         \E v \in Users \ {me[p]} : key[p] = {me[p], v}

MakersAreOnTheirWay ==
  \A p \in Calls :
    /\ pc[p] \in {"new", "find", "insert", "readback", "group"} => MembersOf(p) = {}
    /\ pc[p] = "readback" => \E r \in rows : r.key = key[p]
    /\ pc[p] = "group" => todo[p] # <<>> /\ Head(todo[p]) = me[p]
    /\ pc[p] = "members" =>
         /\ conv[p] = p /\ todo[p] # <<>>
         /\ MembersOf(p) = {} => Head(todo[p]) = me[p]
         /\ IsDirect(p) => MembersOf(p) \cup ToSet(todo[p]) = key[p]

\* The inductive invariant.
ThreadsInv == /\ TypeOK
              /\ RowsHaveMakers
              /\ KeysAreUnique
              /\ AnswersExist
              /\ KeysArePairs
              /\ MakersAreOnTheirWay
              /\ AnswersAgree
              /\ CreatorComesFirst
              /\ HalfMadeHasACause

\* With no failure, every thread gets its two members.
ThreadsAreCompleted ==
  \A p \in Calls :
    (\E r \in rows : r.id = p /\ r.key # {}) ~> (faults > 0 \/ MembersOf(p) = key[p])
===============================================================================
