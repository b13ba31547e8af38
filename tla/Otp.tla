---------------------------------- MODULE Otp ----------------------------------
(***************************************************************************)
(* Logging in to one phone number by a one-time code: requestOtp and       *)
(* verifyOtp of auth.service.ts, statement by statement between their      *)
(* awaits, the counter of redis.kv.ts that limits the requests, and the    *)
(* forms (Login.tsx, the two screens of the mobile app) that send them.    *)
(*                                                                         *)
(* A request is an HTTP request of either kind; the code that a request    *)
(* draws has the request's name, as two draws hardly ever agree.  Numbers  *)
(* and access codes (assertGate) are well-formed: one that is not is       *)
(* refused before anything is read or written.                             *)
(***************************************************************************)
EXTENDS Naturals, FiniteSets

CONSTANTS Forms,
          Keeping,     \* forms of browsers that keep a refresh token of before
          Requests,
          MaxHits, MaxAttempts, \* 5 and 5 in the code
          MaxFaults,   \* bound: queries that throw, answers that are lost
          None         \* no request, no code, and a code that is none of those drawn

ASSUME NoneIsNone == None \notin Requests
ASSUME FinitelyMany == IsFiniteSet(Requests)
ASSUME Limits == MaxHits \in Nat \ {0} /\ MaxAttempts \in Nat \ {0} /\ MaxFaults \in Nat
ASSUME KeepersAreForms == Keeping \subseteq Forms

VARIABLES step,     \* form -> what it asks for, "phone" or "code", or "in": the app is shown
          wait,     \* form -> the request it is busy with
          pc,       \* request -> the query it waits for, or its answer
          form,     \* request -> the form that sent it
          code,     \* request -> the code it draws or presents
          retry,    \* verifies sent again after a 401 (api.ts)
          hits, ttl,\* rl:otp:{phone}, and whether it has its expiry
          row,      \* the row of otp_codes: its code, attempts, and whether it expired
          received, \* codes the person got
          users,    \* rows of users with this phone, by the request that inserted them
          who,      \* request -> the user its login is for
          devices, logins, \* requests whose device, and whose token, is inserted
          faults,
          stuck,    \* the EXPIRE of a counter failed
          crossed,  \* requests that were in flight together with another
          refused,  \* code -> verifies refused while its row was there
          swept,    \* codes deleted by a verify that presented another
          twice     \* codes that two verifies found before either deleted the row

forms == <<step, wait>>
inputs == <<form, code, retry>>
limit == <<hits, ttl, stuck>>
account == <<users, who, devices, logins>>
vars == <<forms, pc, inputs, limit, row, received, account, faults, crossed, refused, swept, twice>>

NoRow == [code |-> None, attempts |-> 0, expired |-> FALSE]
Answered == {"sent", "accepted", "denied", "failed"}
TypeOK ==
  /\ step \in [Forms -> {"phone", "code", "in"}]
  /\ wait \in [Forms -> Requests \cup {None}]
  /\ pc \in [Requests -> {"new", "incr", "expire", "upsert", "select", "attempt", "delete",
                          "user", "device", "token", "done"} \cup Answered]
  /\ form \in [Requests -> Forms \cup {None}]
  /\ code \in [Requests -> Requests \cup {None}]
  /\ retry \subseteq Requests
  /\ hits \in Nat /\ ttl \in BOOLEAN /\ stuck \in BOOLEAN
  /\ row \in [code : Requests \cup {None}, attempts : Nat, expired : BOOLEAN]
  /\ received \subseteq Requests
  /\ users \subseteq Requests /\ who \in [Requests -> Requests \cup {None}]
  /\ devices \subseteq Requests /\ logins \subseteq Requests
  /\ faults \in 0 .. MaxFaults
  /\ crossed \subseteq Requests
  /\ refused \in [Requests -> Nat]
  /\ swept \cup twice \subseteq Requests

Init == /\ step = [f \in Forms |-> "phone"] /\ wait = [f \in Forms |-> None]
        /\ pc = [r \in Requests |-> "new"]
        /\ form = [r \in Requests |-> None]
        /\ code = [r \in Requests |-> None] /\ retry = {}
        /\ hits = 0 /\ ttl = FALSE /\ stuck = FALSE
        /\ row = NoRow /\ received = {}
        /\ users = {} /\ who = [r \in Requests |-> None] /\ devices = {} /\ logins = {}
        /\ faults = 0 /\ crossed = {} /\ swept = {} /\ twice = {}
        /\ refused = [r \in Requests |-> 0]

Goto(r, l) == pc' = [pc EXCEPT ![r] = l]
Fault == faults < MaxFaults /\ faults' = faults + 1
InFlight == {r \in Requests : pc[r] \notin {"new", "done"}}
Pending == {r \in Requests : pc[r] = "attempt"}

----------------------------------------------------------------------------
\* The forms.

\* Requests are numbered as they come.
Fresh == CHOOSE r \in Requests : pc[r] = "new"

\* A request sets out: r, at its first query, with code k.
Send(f, r, l, k) ==
  /\ pc[r] = "new" /\ r = Fresh /\ Goto(r, l)
  /\ wait' = [wait EXCEPT ![f] = r]
  /\ form' = [form EXCEPT ![r] = f] /\ code' = [code EXCEPT ![r] = k]
  /\ crossed' = IF InFlight = {} THEN crossed ELSE crossed \cup InFlight \cup {r}

RequestOtp(f, r) ==
  /\ step[f] = "phone" /\ wait[f] = None
  /\ Send(f, r, "incr", r)
  /\ UNCHANGED <<step, retry, limit, row, received, account, faults, refused, swept, twice>>

\* The person types a code received, or another one.
VerifyOtp(f, r, k) ==
  /\ step[f] = "code" /\ wait[f] = None
  /\ Send(f, r, "select", k)
  /\ UNCHANGED <<step, retry, limit, row, received, account, faults, refused, swept, twice>>

\* The answer reaches the form, unless that has been reloaded.
Answer(r) ==
  LET f == form[r] IN
  /\ pc[r] \in Answered /\ Goto(r, "done")
  /\ IF wait[f] # r THEN UNCHANGED forms
     ELSE /\ wait' = [wait EXCEPT ![f] = None]
          /\ step' = CASE pc[r] = "sent"     -> [step EXCEPT ![f] = "code"]
                       [] pc[r] = "accepted" -> [step EXCEPT ![f] = "in"]
                       [] OTHER              -> step
  /\ UNCHANGED <<inputs, limit, row, received, account, faults, crossed, refused, swept, twice>>

\* api() takes a 401 for an expired access token: with a refresh token from
\* before it refreshes, and sends the same verify once more.
AnswerRetries(r, again) ==
  LET f == form[r] IN
  /\ pc[r] = "denied" /\ wait[f] = r /\ f \in Keeping /\ r \notin retry
  /\ pc[again] = "new" /\ again = Fresh /\ pc' = [pc EXCEPT ![r] = "done", ![again] = "select"]
  /\ wait' = [wait EXCEPT ![f] = again]
  /\ form' = [form EXCEPT ![again] = f] /\ code' = [code EXCEPT ![again] = code[r]]
  /\ retry' = retry \cup {again}
  /\ crossed' = IF InFlight = {r} THEN crossed ELSE crossed \cup (InFlight \ {r}) \cup {again}
  /\ UNCHANGED <<step, limit, row, received, account, faults, refused, swept, twice>>

\* The fetch throws: the form is usable again, and the request goes on.
AnswerLost(f) ==
  /\ wait[f] # None /\ Fault
  /\ wait' = [wait EXCEPT ![f] = None]
  /\ UNCHANGED <<step, pc, inputs, limit, row, received, account, crossed, refused, swept, twice>>

\* There is no way back from the code to the phone but to load the form again.
Reload(f) ==
  /\ step[f] = "code"
  /\ step' = [step EXCEPT ![f] = "phone"] /\ wait' = [wait EXCEPT ![f] = None]
  /\ UNCHANGED <<pc, inputs, limit, row, received, account, faults, crossed, refused, swept, twice>>

----------------------------------------------------------------------------
\* requestOtp.

\* Mutant: INCR alone.
IncrOnly(r) ==
  /\ pc[r] = "incr"
  /\ hits' = hits + 1
  /\ Goto(r, IF hits' > MaxHits THEN "failed" ELSE "upsert")
  /\ UNCHANGED <<forms, inputs, ttl, stuck, row, received, account, faults, crossed, refused,
                 swept, twice>>

\* RedisKv.incr: two commands for the first hit of a window.
Incr(r) ==
  /\ pc[r] = "incr"
  /\ hits' = hits + 1
  /\ Goto(r, IF hits' = 1 THEN "expire" ELSE IF hits' > MaxHits THEN "failed" ELSE "upsert")
  /\ UNCHANGED <<forms, inputs, ttl, stuck, row, received, account, faults, crossed, refused,
                 swept, twice>>

SetExpiry(r) ==
  /\ pc[r] = "expire" /\ Goto(r, "upsert")
  /\ ttl' = TRUE
  /\ UNCHANGED <<forms, inputs, hits, stuck, row, received, account, faults, crossed, refused,
                 swept, twice>>

\* Mutant: ON CONFLICT leaves the attempts of the code before.
StoreCodeOnly(r) ==
  /\ pc[r] = "upsert" /\ Goto(r, "sent")
  /\ row' = [row EXCEPT !.code = r, !.expired = FALSE]
  /\ received' = received \cup {r}
  /\ UNCHANGED <<forms, inputs, limit, account, faults, crossed, refused, swept, twice>>

\* One row to a phone, whose code the new one replaces; then it is sent out.
StoreCode(r) ==
  /\ pc[r] = "upsert" /\ Goto(r, "sent")
  /\ row' = [code |-> r, attempts |-> 0, expired |-> FALSE]
  /\ received' = received \cup {r}
  /\ UNCHANGED <<forms, inputs, limit, account, faults, crossed, refused, swept, twice>>

----------------------------------------------------------------------------
\* verifyOtp.

Accepted(r) == /\ row.code # None /\ ~row.expired
               /\ row.attempts < MaxAttempts /\ row.code = code[r]

\* The row is judged as it is read.
Accept(r) ==
  /\ pc[r] = "select" /\ Accepted(r) /\ Goto(r, "delete")
  /\ twice' = IF \E s \in Requests : pc[s] = "delete" /\ code[s] = code[r]
              THEN twice \cup {code[r]} ELSE twice
  /\ UNCHANGED <<forms, inputs, limit, row, received, account, faults, crossed, refused, swept>>

Deny(r) ==
  /\ pc[r] = "select" /\ ~Accepted(r)
  /\ IF row.code = None THEN Goto(r, "denied") /\ UNCHANGED refused
     ELSE Goto(r, "attempt") /\ refused' = [refused EXCEPT ![row.code] = @ + 1]
  /\ UNCHANGED <<forms, inputs, limit, row, received, account, faults, crossed, swept, twice>>

\* The UPDATE takes the row that is there now, if there is one.
CountAttempt(r) ==
  /\ pc[r] = "attempt" /\ Goto(r, "denied")
  /\ row' = [row EXCEPT !.attempts = IF row.code = None THEN 0 ELSE @ + 1]
  /\ UNCHANGED <<forms, inputs, limit, received, account, faults, crossed, refused, swept, twice>>

\* Mutant: the row is left to its expiry.
DeleteNothing(r) ==
  /\ pc[r] = "delete" /\ Goto(r, "user")
  /\ row' = row
  /\ UNCHANGED <<forms, inputs, limit, received, account, faults, crossed, refused, swept, twice>>

\* So does the DELETE, whatever code it has by now.
DeleteCode(r) ==
  /\ pc[r] = "delete" /\ Goto(r, "user")
  /\ row' = NoRow
  /\ swept' = swept \cup ({row.code} \ {code[r], None})
  /\ UNCHANGED <<forms, inputs, limit, received, account, faults, crossed, refused, twice>>

\* The first login makes the user; RETURNING answers the row that is there.
UpsertUser(r) ==
  /\ pc[r] = "user" /\ Goto(r, "device")
  /\ users' = IF users = {} THEN {r} ELSE users
  /\ \E u \in users' : who' = [who EXCEPT ![r] = u]
  /\ UNCHANGED <<forms, inputs, limit, row, received, devices, logins, faults, crossed, refused,
                 swept, twice>>

InsertDevice(r) ==
  /\ pc[r] = "device" /\ Goto(r, "token")
  /\ devices' = devices \cup {r}
  /\ UNCHANGED <<forms, inputs, limit, row, received, users, who, logins, faults, crossed,
                 refused, swept, twice>>

\* issuePair, with a family of its own.
InsertToken(r) ==
  /\ pc[r] = "token" /\ Goto(r, "accepted")
  /\ logins' = logins \cup {r}
  /\ UNCHANGED <<forms, inputs, limit, row, received, users, who, devices, faults, crossed,
                 refused, swept, twice>>

----------------------------------------------------------------------------
\* A query throws, and the request is answered with an error.
Fail(r) ==
  /\ pc[r] \in {"incr", "expire", "upsert", "select", "attempt", "delete", "user", "device",
                "token"}
  /\ Fault /\ Goto(r, "failed")
  /\ stuck' = (stuck \/ pc[r] = "expire")
  /\ UNCHANGED <<forms, inputs, hits, ttl, row, received, account, crossed, refused, swept, twice>>

\* Five minutes, and ten.
CodeExpires ==
  /\ row.code # None /\ ~row.expired /\ row' = [row EXCEPT !.expired = TRUE]
  /\ UNCHANGED <<forms, pc, inputs, limit, received, account, faults, crossed, refused, swept, twice>>
WindowEnds ==
  /\ ttl /\ ttl' = FALSE /\ hits' = 0
  /\ UNCHANGED <<forms, pc, inputs, stuck, row, received, account, faults, crossed, refused,
                 swept, twice>>

Handle(r) == \/ Incr(r) \/ SetExpiry(r) \/ StoreCode(r)
             \/ Accept(r) \/ Deny(r) \/ CountAttempt(r) \/ DeleteCode(r)
             \/ UpsertUser(r) \/ InsertDevice(r) \/ InsertToken(r)

Next == \/ \E f \in Forms, r \in Requests :
             RequestOtp(f, r) \/ \E k \in received \cup {None} : VerifyOtp(f, r, k)
        \/ \E r \in Requests : Handle(r) \/ Answer(r) \/ Fail(r)
        \/ \E r, s \in Requests : AnswerRetries(r, s)
        \/ \E f \in Forms : AnswerLost(f) \/ Reload(f)
        \/ CodeExpires \/ WindowEnds

Spec == Init /\ [][Next]_vars

\* The gateway goes on with what it began, and Redis expires keys.
FairSpec == Spec /\ WF_vars(WindowEnds) /\ \A r \in Requests : WF_vars(Handle(r))

----------------------------------------------------------------------------
\* Properties.

Past(r) == pc[r] \in {"user", "device", "token", "accepted"} \/ r \in logins

\* A code is sent out once, and the row has one that was.
CodeInv ==
  /\ row.code \in received \cup {None}
  /\ \A r \in received : pc[r] \in {"sent", "done"}
  /\ \A r \in Requests : pc[r] \in {"incr", "expire", "upsert"} => code[r] = r
  /\ \A r \in Requests : pc[r] \in {"select", "attempt", "denied"} =>
       code[r] \in received \cup {None}

\* A login presented a code that was sent out; once it has deleted the row, no row
\* has this code.
LoginInv ==
  /\ \A r \in logins : pc[r] \in {"accepted", "done"}
  /\ \A r \in Requests : pc[r] = "delete" \/ Past(r) => code[r] \in received
  /\ \A r \in Requests : Past(r) => row.code # code[r]
  /\ \A r, s \in Requests :
       /\ r # s /\ code[r] = code[s]
       /\ pc[r] = "delete" \/ Past(r)
       /\ pc[s] = "delete" \/ Past(s)
       => code[r] \in twice

\* What a login has made by now.
AccountInv ==
  /\ \A u, v \in users : u = v
  /\ \A r \in Requests :
       /\ pc[r] \in {"device", "token", "accepted"} \/ r \in logins => who[r] \in users
       /\ pc[r] \in {"token", "accepted"} \/ r \in logins => r \in devices

\* The row a verify is about to delete is that of its code, or was put there by a
\* request that crossed it.
CrossInv ==
  /\ \A r, s \in InFlight : r # s => r \in crossed
  /\ \A r \in Requests : pc[r] = "delete" => row.code \in {None, code[r]} \cup crossed
  /\ swept \subseteq crossed

\* The refusals of the row's code are counted, on their way to the counter, or
\* failed; those of other codes come to it only across a crossing.
CountInv ==
  /\ \A r \in Requests \ received : refused[r] = 0
  /\ row.code # None =>
       /\ refused[row.code] <= row.attempts + Cardinality(Pending) + faults
       /\ row.code \notin crossed => row.attempts + Cardinality(Pending) <= refused[row.code]

\* The inductive invariant.
OtpInv == TypeOK /\ CodeInv /\ LoginInv /\ AccountInv /\ CrossInv /\ CountInv

\* A code logs in once, unless two verifies found its row before either of them
\* deleted it.
OneLoginPerCode ==
  \A r, s \in logins : r # s /\ code[r] = code[s] => code[r] \in twice

\* No refused verify escapes the counter, however many are in flight, but the one
\* whose UPDATE is still to come or failed: a code has at most MaxAttempts - 1
\* refusals behind it, and those in flight, when it is accepted.
CountKeepsUp ==
  row.code # None =>
    refused[row.code] <= row.attempts + Cardinality(Pending) + faults

\* A code that was not asked for while another request of the number was in flight
\* is not spoiled by others: it has the attempts made on it and no more, and no
\* login throws it away.
UndisturbedCodeWorks ==
  /\ swept \subseteq crossed
  /\ row.code # None /\ row.code \notin crossed => row.attempts <= refused[row.code]

\* The attempts of a code are the refusals it had, no fewer and, undisturbed, no more.
AttemptsAreTrue == CountKeepsUp /\ UndisturbedCodeWorks

\* All logins are of one user, that of the first, whoever came first; each has a
\* device of its own.
OneAccount ==
  /\ Cardinality(users) <= 1
  /\ \A r \in logins : who[r] \in users /\ r \in devices

\* A number that has had its requests can have more later, unless the EXPIRE of
\* its counter failed after the INCR: then it never can.
WindowReopens == hits >= MaxHits ~> hits < MaxHits \/ stuck
=============================================================================
