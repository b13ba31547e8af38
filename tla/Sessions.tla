-------------------------------- MODULE Sessions --------------------------------
(***************************************************************************)
(* One browser's session: the rotation of refresh tokens (auth.service.ts, *)
(* refresh and issuePair) and the client's side of it (web/src/api.ts: the *)
(* fetch wrapper that refreshes on a 401, and its single flight).          *)
(*                                                                         *)
(* The tabs of a browser share localStorage, which holds the refresh       *)
(* token; an access token and the promise of a refresh are a tab's own.  A *)
(* request to refresh is a process of the gateway that gives way at every  *)
(* query.  The pair of tokens a refresh issues has that refresh's name, and*)
(* the pair of the login is Login.  That a refresh token expires, which is *)
(* after weeks, is left out.                                               *)
(***************************************************************************)
EXTENDS Naturals, FiniteSets

CONSTANTS Tabs, Calls,
          TabOf,      \* TabOf[c] is the tab that makes call c of api()
          Refreshes,  \* requests to /api/auth/refresh
          MaxMishaps,  \* bound: answers lost, queries that throw, times asleep
          Login, Nil

ASSUME CallsAreOfTabs == TabOf \in [Calls -> Tabs]
ASSUME Names == Login \notin Refreshes /\ Nil \notin Refreshes \cup {Login}
ASSUME BoundIsNumber == MaxMishaps \in Nat

Pairs == Refreshes \cup {Login}

VARIABLES stored,    \* dcom.refresh in localStorage
          access,    \* tab -> its access token
          stale,     \* access tokens that have expired
          call,      \* call -> "idle", "sent", "wait", "ok", "failed"
          sentWith,  \* call -> the access token its last fetch carried
          retried,   \* calls whose fetch is, or will be, the second
          flight,    \* tab -> the refresh that `refreshing` is a promise of
          promise,   \* tab -> "open", or what the promise resolved to
          state,     \* refresh -> the query it waits for, or its answer
          token,     \* refresh -> the token it presents
          tab,       \* refresh -> the tab that sent it
          live,      \* rows of refresh_tokens with revoked_at NULL
          lost,      \* refreshes whose tab never heard the answer
          mishaps

browser == <<stored, access, stale>>
callVars == <<call, sentWith, retried>>
flightVars == <<flight, promise>>
server == <<state, token, tab, live>>
sessionVars == <<browser, callVars, flightVars, server, lost, mishaps>>

Queries == {"select", "reuse", "revoke", "insert"}

SessionTypeOK ==
  /\ stored \in Pairs \cup {Nil}
  /\ access \in [Tabs -> Pairs \cup {Nil}]
  /\ stale \subseteq Pairs
  /\ call \in [Calls -> {"idle", "sent", "wait", "ok", "failed"}]
  /\ sentWith \in [Calls -> Pairs \cup {Nil}]
  /\ retried \subseteq Calls
  /\ flight \in [Tabs -> Refreshes \cup {Nil}]
  /\ promise \in [Tabs -> {"open", "true", "false"}]
  /\ state \in [Refreshes -> Queries \cup {"new", "yes", "no", "done"}]
  /\ token \in [Refreshes -> Pairs \cup {Nil}]
  /\ tab \in [Refreshes -> Tabs \cup {Nil}]
  /\ live \subseteq Pairs
  /\ lost \subseteq Refreshes
  /\ mishaps \in 0 .. MaxMishaps

\* The user has logged in, and the tabs are just opened.
SessionInit ==
  /\ stored = Login /\ access = [t \in Tabs |-> Nil] /\ stale = {}
  /\ call = [c \in Calls |-> "idle"]
  /\ sentWith = [c \in Calls |-> Nil]
  /\ retried = {}
  /\ flight = [t \in Tabs |-> Nil]
  /\ promise = [t \in Tabs |-> "open"]
  /\ state = [r \in Refreshes |-> "new"]
  /\ token = [r \in Refreshes |-> Nil]
  /\ tab = [r \in Refreshes |-> Nil]
  /\ live = {Login}
  /\ lost = {} /\ mishaps = 0

----------------------------------------------------------------------------
\* refreshOnce and api, in a tab.

\* Requests to refresh are numbered as they come.
NextRefresh == CHOOSE r \in Refreshes : state[r] = "new"

Resend(c) == /\ call' = [call EXCEPT ![c] = "sent"]
             /\ sentWith' = [sentWith EXCEPT ![c] = access[TabOf[c]]]

\* Mutant: every call refreshes for itself.
StartAlways(c) ==
  LET t == TabOf[c] IN
  /\ stored # Nil
  /\ \E r \in Refreshes :
       /\ state[r] = "new" /\ r = NextRefresh
       /\ flight' = [flight EXCEPT ![t] = r]
       /\ state' = [state EXCEPT ![r] = "select"]
       /\ token' = [token EXCEPT ![r] = stored]
       /\ tab' = [tab EXCEPT ![r] = t]
  /\ promise' = [promise EXCEPT ![t] = "open"]
  /\ call' = [call EXCEPT ![c] = "wait"]
  /\ UNCHANGED <<sentWith, live>>

\* No refresh is in flight: one starts, with the token that is stored now.
Start(c) ==
  LET t == TabOf[c] IN
  /\ flight[t] = Nil /\ stored # Nil
  /\ \E r \in Refreshes :
       /\ state[r] = "new" /\ r = NextRefresh
       /\ flight' = [flight EXCEPT ![t] = r]
       /\ state' = [state EXCEPT ![r] = "select"]
       /\ token' = [token EXCEPT ![r] = stored]
       /\ tab' = [tab EXCEPT ![r] = t]
  /\ promise' = [promise EXCEPT ![t] = "open"]
  /\ call' = [call EXCEPT ![c] = "wait"]
  /\ UNCHANGED <<sentWith, live>>

\* Nothing is stored: false, at once.
GiveUp(c) ==
  /\ flight[TabOf[c]] = Nil /\ stored = Nil
  /\ call' = [call EXCEPT ![c] = "failed"]
  /\ UNCHANGED <<sentWith, flightVars, server>>

\* A refresh is in flight: its promise is shared, open or resolved.
Share(c) ==
  LET t == TabOf[c] IN
  /\ flight[t] # Nil
  /\ CASE promise[t] = "open"  -> call' = [call EXCEPT ![c] = "wait"] /\ UNCHANGED sentWith
       [] promise[t] = "true"  -> Resend(c)
       [] promise[t] = "false" -> call' = [call EXCEPT ![c] = "failed"] /\ UNCHANGED sentWith
  /\ UNCHANGED <<flightVars, server>>

RefreshOnce(c) == Start(c) \/ GiveUp(c) \/ Share(c)

\* api(): the first fetch.
Call(c) ==
  /\ call[c] = "idle"
  /\ Resend(c)
  /\ UNCHANGED <<browser, retried, flightVars, server, lost, mishaps>>

\* restoreSession, in a tab without an access token, refreshes first.
RestoreSession(c) ==
  /\ call[c] = "idle" /\ access[TabOf[c]] = Nil
  /\ RefreshOnce(c)
  /\ UNCHANGED <<browser, retried, lost, mishaps>>

Rejected(c) == call[c] = "sent" /\ sentWith[c] \in stale \cup {Nil}

Succeed(c) ==
  /\ call[c] = "sent" /\ ~Rejected(c)
  /\ call' = [call EXCEPT ![c] = "ok"]
  /\ UNCHANGED <<browser, sentWith, retried, flightVars, server, lost, mishaps>>

\* A 401: refresh and try again, once.
Unauthorized(c) ==
  /\ Rejected(c) /\ c \notin retried
  /\ RefreshOnce(c)
  /\ retried' = retried \cup {c}
  /\ UNCHANGED <<browser, lost, mishaps>>

Refuse(c) ==
  /\ Rejected(c) /\ c \in retried
  /\ call' = [call EXCEPT ![c] = "failed"]
  /\ UNCHANGED <<browser, sentWith, retried, flightVars, server, lost, mishaps>>

\* The calls that wait for the promise of t resume when it resolves.
Waiting(t) == {c \in Calls : TabOf[c] = t /\ call[c] = "wait"}

\* Mutant: only one of the calls that share the promise is resumed.
ResumeOne(t, new) ==
  /\ \E c \in Calls :
       /\ call' = [call EXCEPT ![c] = IF new = Nil THEN "failed" ELSE "sent"]
       /\ call[c] = "wait" /\ TabOf[c] = t
       /\ sentWith' = [sentWith EXCEPT ![c] = IF new # Nil THEN new ELSE @]
  /\ UNCHANGED retried

Resume(t, new) ==
  /\ call' = [c \in Calls |-> IF c \in Waiting(t)
                              THEN IF new = Nil THEN "failed" ELSE "sent" ELSE call[c]]
  /\ sentWith' = [c \in Calls |-> IF c \in Waiting(t) /\ new # Nil THEN new ELSE sentWith[c]]
  /\ UNCHANGED retried

Landing(t) == flight[t] # Nil /\ promise[t] = "open"

\* The answer is a pair: setTokens.
SetTokens(t) ==
  LET r == flight[t] IN
  /\ Landing(t) /\ state[r] = "yes"
  /\ stored' = r
  /\ access' = [access EXCEPT ![t] = r]
  /\ promise' = [promise EXCEPT ![t] = "true"]
  /\ state' = [state EXCEPT ![r] = "done"]
  /\ Resume(t, r)
  /\ UNCHANGED <<stale, flight, token, tab, live, lost, mishaps>>

\* The answer is anything else: clearTokens.
ClearTokens(t) ==
  LET r == flight[t] IN
  /\ Landing(t) /\ state[r] = "no"
  /\ stored' = Nil
  /\ access' = [access EXCEPT ![t] = Nil]
  /\ promise' = [promise EXCEPT ![t] = "false"]
  /\ state' = [state EXCEPT ![r] = "done"]
  /\ Resume(t, Nil)
  /\ UNCHANGED <<stale, flight, token, tab, live, lost, mishaps>>

\* The connection breaks and fetch throws; the gateway may go on.
Lose(t) ==
  /\ Landing(t) /\ mishaps < MaxMishaps
  /\ mishaps' = mishaps + 1
  /\ lost' = lost \cup {flight[t]}
  /\ promise' = [promise EXCEPT ![t] = "false"]
  /\ Resume(t, Nil)
  /\ UNCHANGED <<browser, flight, server>>

\* The timer of finally: refreshing = null.
Forget(t) ==
  /\ flight[t] # Nil /\ promise[t] # "open"
  /\ flight' = [flight EXCEPT ![t] = Nil]
  /\ UNCHANGED <<browser, callVars, promise, server, lost, mishaps>>

\* An access token expires; it lives long enough (15 minutes) for the retry it
\* was fetched for, and for the timer of Forget.
Expire(k) ==
  /\ k \notin stale /\ \E t \in Tabs : access[t] = k
  /\ \A c \in Calls : ~(call[c] = "sent" /\ c \in retried /\ sentWith[c] = k)
  /\ \A t \in Tabs : access[t] = k => flight[t] = Nil
  /\ stale' = stale \cup {k}
  /\ UNCHANGED <<stored, access, callVars, flightVars, server, lost, mishaps>>

\* Unless the machine sleeps meanwhile.
Oversleep(k) ==
  /\ k \notin stale /\ \E t \in Tabs : access[t] = k
  /\ mishaps < MaxMishaps
  /\ mishaps' = mishaps + 1
  /\ stale' = stale \cup {k}
  /\ UNCHANGED <<stored, access, callVars, flightVars, server, lost>>

----------------------------------------------------------------------------
\* refresh, in the gateway.

At(r, query, next) == state[r] = query /\ state' = [state EXCEPT ![r] = next]
LeavesBrowser == UNCHANGED <<browser, callVars, flightVars, token, tab, lost>>

\* The row of the token: revoked already, or not.
Select(r) ==
  /\ At(r, "select", IF token[r] \in live THEN "revoke" ELSE "reuse")
  /\ UNCHANGED live /\ LeavesBrowser /\ UNCHANGED mishaps

\* Reuse detection.
RevokeFamily(r) ==
  /\ At(r, "reuse", "no") /\ live' = {}
  /\ LeavesBrowser /\ UNCHANGED mishaps

\* Mutant: the presented token stays valid.
RevokeNothing(r) ==
  /\ At(r, "revoke", "insert") /\ UNCHANGED live
  /\ LeavesBrowser /\ UNCHANGED mishaps

\* The presented token is revoked ...
RevokeOwn(r) ==
  /\ At(r, "revoke", "insert") /\ live' = live \ {token[r]}
  /\ LeavesBrowser /\ UNCHANGED mishaps

\* ... and issuePair inserts the next.
Issue(r) ==
  /\ At(r, "insert", "yes") /\ live' = live \cup {r}
  /\ LeavesBrowser /\ UNCHANGED mishaps

\* A query throws and the answer is a 500.
Throw(r) ==
  /\ state[r] \in Queries /\ mishaps < MaxMishaps
  /\ state' = [state EXCEPT ![r] = "no"]
  /\ mishaps' = mishaps + 1
  /\ UNCHANGED live /\ LeavesBrowser

----------------------------------------------------------------------------
Progress(c) == Succeed(c) \/ Unauthorized(c) \/ Refuse(c)
Settle(t) == SetTokens(t) \/ ClearTokens(t) \/ Forget(t)
Serve(r) == Select(r) \/ RevokeFamily(r) \/ RevokeOwn(r) \/ Issue(r)

SessionNext ==
  \/ \E c \in Calls : Call(c) \/ RestoreSession(c) \/ Progress(c)
  \/ \E t \in Tabs : Settle(t) \/ Lose(t)
  \/ \E k \in Pairs : Expire(k) \/ Oversleep(k)
  \/ \E r \in Refreshes : Serve(r) \/ Throw(r)

SessionSpec == SessionInit /\ [][SessionNext]_sessionVars

----------------------------------------------------------------------------
Started == {r \in Refreshes : state[r] # "new"}

\* Two tabs presented one token, neither having seen what the other got for it.
TabsCollided ==
  \E q, r \in Started : q # r /\ token[q] = token[r] /\ tab[q] # tab[r]

Undisturbed == mishaps = 0 /\ ~TabsCollided

\* "Concurrent 401s share one refresh promise" (api.ts:11): however many calls
\* of a tab are refused at once, or late, the tab presents no token twice, unless
\* it never heard what the first time came to.
OneRotationPerToken ==
  \A q, r \in Started :
    (q # r /\ token[q] = token[r] /\ tab[q] = tab[r]) => q \in lost \/ r \in lost

\* So the reuse detector never logs the user out for the client's own
\* concurrency: as long as nothing failed and no two tabs presented one token,
\* the session is kept and every call gets through, if need be after a refresh.
NoLogoutUndisturbed ==
  Undisturbed => stored # Nil /\ \A c \in Calls : call[c] # "failed"

\* And what is stored is a token the gateway takes, whenever no refresh is in
\* flight.
StoredIsLive ==
  (Undisturbed /\ \A t \in Tabs : ~Landing(t)) => stored \in live

\* Rotation leaves one token of the family valid at most, unless one was
\* presented twice at the same time: two refreshes that both read the row before
\* either revoked it.
OneLiveToken ==
  (\A q, r \in Started : q # r => token[q] # token[r]) => Cardinality(live) <= 1

\* No call is left waiting for a promise that has resolved already, nor for a
\* refresh that another tab sent or that was never sent.
WaitersHaveAFlight ==
  /\ \A c \in Calls : call[c] = "wait" => Landing(TabOf[c])
  /\ \A t \in Tabs : flight[t] # Nil => flight[t] \in Started /\ tab[flight[t]] = t
  /\ \A t \in Tabs : Landing(t) => state[flight[t]] # "done"

\* What tabs hold, present or saw expire, and what is valid, are tokens that were
\* issued.
PairsAreIssued ==
  /\ \A t \in Tabs : access[t] \in Refreshes => state[access[t]] = "done"
  /\ \A k \in Refreshes : k = stored \/ k \in stale => state[k] = "done"
  /\ \A r \in Refreshes : r \in live => state[r] \in {"yes", "done"}
  /\ \A r \in Started : /\ token[r] \in Pairs /\ tab[r] \in Tabs
                        /\ token[r] \in Refreshes => state[token[r]] = "done"

\* The rest is what these need to be inductive.  A token is presented again, or a
\* refresh is unfinished, only while its tab waits for it or never heard of it.
SpentOrAwaited ==
  /\ \A r \in Started :
       token[r] = stored \/ state[r] # "done"
         => r \in lost \/ (flight[tab[r]] = r /\ promise[tab[r]] = "open")
  /\ mishaps = 0 => lost = {}

\* Undisturbed, at most one refresh is in progress, with the stored token, and its
\* token is the one that is valid, or its pair is; nothing was answered with an
\* error; and a promise that resolved, or a call's second fetch, carries an access
\* token that has not expired.
InProgress == {r \in Refreshes : state[r] \in {"select", "revoke", "insert", "yes"}}

Calm ==
  /\ \A c \in retried : call[c] # "idle"
  /\ Undisturbed =>
       /\ stored # Nil
       /\ \A r \in Refreshes : state[r] \notin {"reuse", "no"}
       /\ \A t \in Tabs : promise[t] # "false"
       /\ \A c \in Calls : call[c] # "failed"
       /\ \A r \in InProgress : /\ token[r] = stored
                                /\ state[r] = "yes" => r \in live
       /\ (\A r \in InProgress : state[r] \notin {"insert", "yes"}) => stored \in live
       /\ \A t \in Tabs : flight[t] # Nil /\ promise[t] = "true" =>
                            access[t] = flight[t] /\ access[t] \notin stale
       /\ \A c \in retried : call[c] = "sent" => sentWith[c] \notin stale \cup {Nil}

\* The family's next valid tokens: the pairs that will be issued, and the rows that
\* nobody is about to revoke.
Heirs == {r \in Refreshes : state[r] \in {"revoke", "insert"}}
           \cup (live \ {token[r] : r \in {q \in Refreshes : state[q] = "revoke"}})

OneHeir == (\A q, r \in Started : q # r => token[q] # token[r]) =>
             \A h, k \in Heirs : h = k

SessionInv == /\ SessionTypeOK
              /\ WaitersHaveAFlight
              /\ PairsAreIssued
              /\ SpentOrAwaited
              /\ OneRotationPerToken
              /\ Calm
              /\ OneHeir
              /\ StoredIsLive
===============================================================================
