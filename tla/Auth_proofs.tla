------------------------------ MODULE Auth_proofs ------------------------------
(***************************************************************************)
(* The proofs about auth.service.ts: of the login by a one-time code (Otp) *)
(* for any number of forms, requests, hits and attempts, and then of the   *)
(* rotation of refresh tokens (Sessions) for any number of tabs, calls,    *)
(* refreshes and faults.                                                   *)
(***************************************************************************)
EXTENDS Otp, Sessions, TLAPS, FiniteSetTheorems

(***************************************************************************)
(* Login: OtpInv is inductive, and what the run checks of codes, attempts  *)
(* and accounts follows from it.                                           *)
(***************************************************************************)
LEMMA PendingIsFinite == IsFiniteSet(Pending) /\ Cardinality(Pending) \in Nat
<1>1. Pending \subseteq Requests
  BY DEF Pending
<1>2. QED
  BY <1>1, FinitelyMany, FS_Subset, FS_CardinalityType

\* A refused verify goes to the counter, and has been there.
LEMMA OneMorePending ==
  ASSUME NEW r \in Requests, r \notin Pending, Pending' = Pending \cup {r}
  PROVE  Cardinality(Pending') = Cardinality(Pending) + 1
BY PendingIsFinite, FS_AddElement

LEMMA OneLessPending ==
  ASSUME NEW r \in Requests, r \in Pending, Pending' = Pending \ {r}
  PROVE  Cardinality(Pending') = Cardinality(Pending) - 1
BY PendingIsFinite, FS_RemoveElement

LEMMA InitInv == Init => OtpInv
<1> SUFFICES ASSUME Init PROVE OtpInv
  OBVIOUS
<1> USE NoneIsNone, Limits
<1>1. TypeOK
  <2>1. pc \in [Requests -> {"new"}] /\ refused \in [Requests -> {0}]
    BY DEF Init
  <2>2. row \in [code : Requests \cup {None}, attempts : Nat, expired : BOOLEAN]
    BY DEF Init, NoRow
  <2>3. faults \in 0 .. MaxFaults /\ hits \in Nat
    BY DEF Init
  <2>4. QED
    BY <2>1, <2>2, <2>3 DEF Init, TypeOK
<1>2. CodeInv /\ LoginInv
  BY DEF Init, CodeInv, LoginInv, Past, NoRow
<1>3. AccountInv
  BY DEF Init, AccountInv
<1>4. CrossInv
  BY DEF Init, CrossInv, InFlight
<1>5. CountInv
  BY DEF Init, CountInv, NoRow
<1>6. QED
  BY <1>1, <1>2, <1>3, <1>4, <1>5 DEF OtpInv

\* Every step keeps the invariant, one case per action and one step per conjunct.
LEMMA StepInv == OtpInv /\ [Next]_vars => OtpInv'
<1> SUFFICES ASSUME OtpInv, [Next]_vars PROVE OtpInv'
  OBVIOUS
<1> USE NoneIsNone, Limits DEF OtpInv, TypeOK, Goto, Fault, NoRow, Answered, forms, inputs, limit, account
<1>1. ASSUME NEW f \in Forms, NEW r \in Requests, RequestOtp(f, r) PROVE OtpInv'
  <2>1. TypeOK'
    BY <1>1 DEF InFlight, RequestOtp, Send
  <2>2. CodeInv'
    BY <1>1 DEF CodeInv, RequestOtp, Send
  <2>3. LoginInv'
    BY <1>1 DEF LoginInv, CodeInv, Past, RequestOtp, Send
  <2>4. AccountInv'
    BY <1>1 DEF AccountInv, LoginInv, RequestOtp, Send
  <2>5. CrossInv'
    BY <1>1 DEF CrossInv, CodeInv, InFlight, RequestOtp, Send
  <2>6. CountInv'
    <3>1. Pending' = Pending
      BY <1>1 DEF Pending, RequestOtp, Send
    <3>2. QED
      BY <1>1, <3>1, PendingIsFinite DEF CountInv, RequestOtp, Send
  <2>7. QED
    BY <2>1, <2>2, <2>3, <2>4, <2>5, <2>6
<1>2. ASSUME NEW f \in Forms, NEW r \in Requests, NEW k \in received \cup {None}, VerifyOtp(f, r, k) PROVE OtpInv'
  <2>1. TypeOK'
    BY <1>2 DEF InFlight, VerifyOtp, Send
  <2>2. CodeInv'
    BY <1>2 DEF CodeInv, VerifyOtp, Send
  <2>3. LoginInv'
    BY <1>2 DEF LoginInv, CodeInv, Past, VerifyOtp, Send
  <2>4. AccountInv'
    BY <1>2 DEF AccountInv, LoginInv, VerifyOtp, Send
  <2>5. CrossInv'
    BY <1>2 DEF CrossInv, CodeInv, InFlight, VerifyOtp, Send
  <2>6. CountInv'
    <3>1. Pending' = Pending
      BY <1>2 DEF Pending, VerifyOtp, Send
    <3>2. QED
      BY <1>2, <3>1, PendingIsFinite DEF CountInv, VerifyOtp, Send
  <2>7. QED
    BY <2>1, <2>2, <2>3, <2>4, <2>5, <2>6
<1>3. ASSUME NEW r \in Requests, Answer(r) PROVE OtpInv'
  <2>1. TypeOK'
    BY <1>3 DEF InFlight, Answer
  <2>2. CodeInv'
    BY <1>3 DEF CodeInv, Answer
  <2>3. LoginInv'
    BY <1>3 DEF LoginInv, CodeInv, Past, Answer
  <2>4. AccountInv'
    BY <1>3 DEF AccountInv, LoginInv, Answer
  <2>5. CrossInv'
    BY <1>3 DEF CrossInv, CodeInv, InFlight, Answer
  <2>6. CountInv'
    <3>1. Pending' = Pending
      BY <1>3 DEF Pending, Answer
    <3>2. QED
      BY <1>3, <3>1, PendingIsFinite DEF CountInv, Answer
  <2>7. QED
    BY <2>1, <2>2, <2>3, <2>4, <2>5, <2>6
<1>4. ASSUME NEW r \in Requests, NEW s \in Requests, AnswerRetries(r, s) PROVE OtpInv'
  <2>1. TypeOK'
    BY <1>4 DEF InFlight, AnswerRetries
  <2>2. CodeInv'
    BY <1>4 DEF CodeInv, AnswerRetries
  <2>3. LoginInv'
    BY <1>4 DEF LoginInv, CodeInv, Past, AnswerRetries
  <2>4. AccountInv'
    BY <1>4 DEF AccountInv, LoginInv, AnswerRetries
  <2>5. CrossInv'
    BY <1>4 DEF CrossInv, CodeInv, InFlight, AnswerRetries
  <2>6. CountInv'
    <3>1. Pending' = Pending
      BY <1>4 DEF Pending, AnswerRetries
    <3>2. QED
      BY <1>4, <3>1, PendingIsFinite DEF CountInv, AnswerRetries
  <2>7. QED
    BY <2>1, <2>2, <2>3, <2>4, <2>5, <2>6
<1>5. ASSUME NEW f \in Forms, AnswerLost(f) PROVE OtpInv'
  <2>1. TypeOK'
    BY <1>5 DEF InFlight, AnswerLost
  <2>2. CodeInv'
    BY <1>5 DEF CodeInv, AnswerLost
  <2>3. LoginInv'
    BY <1>5 DEF LoginInv, CodeInv, Past, AnswerLost
  <2>4. AccountInv'
    BY <1>5 DEF AccountInv, LoginInv, AnswerLost
  <2>5. CrossInv'
    BY <1>5 DEF CrossInv, CodeInv, InFlight, AnswerLost
  <2>6. CountInv'
    <3>1. Pending' = Pending
      BY <1>5 DEF Pending, AnswerLost
    <3>2. QED
      BY <1>5, <3>1, PendingIsFinite DEF CountInv, AnswerLost
  <2>7. QED
    BY <2>1, <2>2, <2>3, <2>4, <2>5, <2>6
<1>6. ASSUME NEW f \in Forms, Reload(f) PROVE OtpInv'
  <2>1. TypeOK'
    BY <1>6 DEF InFlight, Reload
  <2>2. CodeInv'
    BY <1>6 DEF CodeInv, Reload
  <2>3. LoginInv'
    BY <1>6 DEF LoginInv, CodeInv, Past, Reload
  <2>4. AccountInv'
    BY <1>6 DEF AccountInv, LoginInv, Reload
  <2>5. CrossInv'
    BY <1>6 DEF CrossInv, CodeInv, InFlight, Reload
  <2>6. CountInv'
    <3>1. Pending' = Pending
      BY <1>6 DEF Pending, Reload
    <3>2. QED
      BY <1>6, <3>1, PendingIsFinite DEF CountInv, Reload
  <2>7. QED
    BY <2>1, <2>2, <2>3, <2>4, <2>5, <2>6
<1>7. ASSUME NEW r \in Requests, Incr(r) PROVE OtpInv'
  <2>1. TypeOK'
    BY <1>7 DEF InFlight, Incr
  <2>2. CodeInv'
    BY <1>7 DEF CodeInv, Incr
  <2>3. LoginInv'
    BY <1>7 DEF LoginInv, CodeInv, Past, Incr
  <2>4. AccountInv'
    BY <1>7 DEF AccountInv, LoginInv, Incr
  <2>5. CrossInv'
    BY <1>7 DEF CrossInv, CodeInv, InFlight, Incr
  <2>6. CountInv'
    <3>1. Pending' = Pending
      BY <1>7 DEF Pending, Incr
    <3>2. QED
      BY <1>7, <3>1, PendingIsFinite DEF CountInv, Incr
  <2>7. QED
    BY <2>1, <2>2, <2>3, <2>4, <2>5, <2>6
<1>8. ASSUME NEW r \in Requests, SetExpiry(r) PROVE OtpInv'
  <2>1. TypeOK'
    BY <1>8 DEF InFlight, SetExpiry
  <2>2. CodeInv'
    BY <1>8 DEF CodeInv, SetExpiry
  <2>3. LoginInv'
    BY <1>8 DEF LoginInv, CodeInv, Past, SetExpiry
  <2>4. AccountInv'
    BY <1>8 DEF AccountInv, LoginInv, SetExpiry
  <2>5. CrossInv'
    BY <1>8 DEF CrossInv, CodeInv, InFlight, SetExpiry
  <2>6. CountInv'
    <3>1. Pending' = Pending
      BY <1>8 DEF Pending, SetExpiry
    <3>2. QED
      BY <1>8, <3>1, PendingIsFinite DEF CountInv, SetExpiry
  <2>7. QED
    BY <2>1, <2>2, <2>3, <2>4, <2>5, <2>6
<1>9. ASSUME NEW r \in Requests, StoreCode(r) PROVE OtpInv'
  <2>1. TypeOK'
    BY <1>9 DEF InFlight, StoreCode
  <2>2. CodeInv'
    BY <1>9 DEF CodeInv, StoreCode
  <2>3. LoginInv'
    BY <1>9 DEF LoginInv, CodeInv, Past, StoreCode
  <2>4. AccountInv'
    BY <1>9 DEF AccountInv, LoginInv, StoreCode
  <2>5. CrossInv'
    BY <1>9 DEF CrossInv, CodeInv, InFlight, StoreCode
  <2>6. CountInv'
    <3>1. Pending' = Pending
      BY <1>9 DEF StoreCode, Pending
    <3>2. r \notin crossed => Pending = {}
      BY <1>9 DEF CrossInv, StoreCode, Pending, InFlight
    <3>3. r \notin crossed => Cardinality(Pending) = 0
      BY <3>2, FS_EmptySet
    <3>4. QED
      BY <1>9, <3>1, <3>3, PendingIsFinite DEF CountInv, CodeInv, StoreCode
  <2>7. QED
    BY <2>1, <2>2, <2>3, <2>4, <2>5, <2>6
<1>10. ASSUME NEW r \in Requests, Accept(r) PROVE OtpInv'
  <2>1. TypeOK'
    BY <1>10 DEF InFlight, Accept, Accepted
  <2>2. CodeInv'
    BY <1>10 DEF CodeInv, Accept, Accepted
  <2>3. LoginInv'
    BY <1>10 DEF LoginInv, CodeInv, Past, Accept, Accepted
  <2>4. AccountInv'
    BY <1>10 DEF AccountInv, LoginInv, Accept, Accepted
  <2>5. CrossInv'
    BY <1>10 DEF CrossInv, CodeInv, InFlight, Accept, Accepted
  <2>6. CountInv'
    <3>1. Pending' = Pending
      BY <1>10 DEF Pending, Accept, Accepted
    <3>2. QED
      BY <1>10, <3>1, PendingIsFinite DEF CountInv, Accept, Accepted
  <2>7. QED
    BY <2>1, <2>2, <2>3, <2>4, <2>5, <2>6
<1>11. ASSUME NEW r \in Requests, Deny(r) PROVE OtpInv'
  <2>1. TypeOK'
    BY <1>11 DEF InFlight, Deny, Accepted
  <2>2. CodeInv'
    BY <1>11 DEF CodeInv, Deny, Accepted
  <2>3. LoginInv'
    BY <1>11 DEF LoginInv, CodeInv, Past, Deny, Accepted
  <2>4. AccountInv'
    BY <1>11 DEF AccountInv, LoginInv, Deny, Accepted
  <2>5. CrossInv'
    BY <1>11 DEF CrossInv, CodeInv, InFlight, Deny, Accepted
  <2>6. CountInv'
    <3>1. row.code # None => Cardinality(Pending') = Cardinality(Pending) + 1
      <4>1. row.code # None => r \notin Pending /\ Pending' = Pending \cup {r}
        BY <1>11 DEF Deny, Pending
      <4>2. QED
        BY <4>1, OneMorePending
    <3>2. QED
      BY <1>11, <3>1, PendingIsFinite DEF CountInv, CodeInv, Deny
  <2>7. QED
    BY <2>1, <2>2, <2>3, <2>4, <2>5, <2>6
<1>12. ASSUME NEW r \in Requests, CountAttempt(r) PROVE OtpInv'
  <2>1. TypeOK'
    BY <1>12 DEF InFlight, CountAttempt
  <2>2. CodeInv'
    BY <1>12 DEF CodeInv, CountAttempt
  <2>3. LoginInv'
    BY <1>12 DEF LoginInv, CodeInv, Past, CountAttempt
  <2>4. AccountInv'
    BY <1>12 DEF AccountInv, LoginInv, CountAttempt
  <2>5. CrossInv'
    BY <1>12 DEF CrossInv, CodeInv, InFlight, CountAttempt
  <2>6. CountInv'
    <3>1. r \in Pending /\ Pending' = Pending \ {r}
      BY <1>12 DEF CountAttempt, Pending
    <3>2. Cardinality(Pending') = Cardinality(Pending) - 1
      BY <3>1, OneLessPending
    <3>3. QED
      BY <1>12, <3>2, PendingIsFinite DEF CountInv, CountAttempt
  <2>7. QED
    BY <2>1, <2>2, <2>3, <2>4, <2>5, <2>6
<1>13. ASSUME NEW r \in Requests, DeleteCode(r) PROVE OtpInv'
  <2>1. TypeOK'
    BY <1>13 DEF InFlight, DeleteCode
  <2>2. CodeInv'
    BY <1>13 DEF CodeInv, DeleteCode
  <2>3. LoginInv'
    BY <1>13 DEF LoginInv, CodeInv, Past, DeleteCode
  <2>4. AccountInv'
    BY <1>13 DEF AccountInv, LoginInv, DeleteCode
  <2>5. CrossInv'
    BY <1>13 DEF CrossInv, CodeInv, InFlight, DeleteCode
  <2>6. CountInv'
    <3>1. Pending' = Pending
      BY <1>13 DEF Pending, DeleteCode
    <3>2. QED
      BY <1>13, <3>1, PendingIsFinite DEF CountInv, DeleteCode
  <2>7. QED
    BY <2>1, <2>2, <2>3, <2>4, <2>5, <2>6
<1>14. ASSUME NEW r \in Requests, UpsertUser(r) PROVE OtpInv'
  <2>1. TypeOK'
    BY <1>14 DEF InFlight, UpsertUser
  <2>2. CodeInv'
    BY <1>14 DEF CodeInv, UpsertUser
  <2>3. LoginInv'
    BY <1>14 DEF LoginInv, CodeInv, Past, UpsertUser
  <2>4. AccountInv'
    BY <1>14 DEF AccountInv, LoginInv, UpsertUser
  <2>5. CrossInv'
    BY <1>14 DEF CrossInv, CodeInv, InFlight, UpsertUser
  <2>6. CountInv'
    <3>1. Pending' = Pending
      BY <1>14 DEF Pending, UpsertUser
    <3>2. QED
      BY <1>14, <3>1, PendingIsFinite DEF CountInv, UpsertUser
  <2>7. QED
    BY <2>1, <2>2, <2>3, <2>4, <2>5, <2>6
<1>15. ASSUME NEW r \in Requests, InsertDevice(r) PROVE OtpInv'
  <2>1. TypeOK'
    BY <1>15 DEF InFlight, InsertDevice
  <2>2. CodeInv'
    BY <1>15 DEF CodeInv, InsertDevice
  <2>3. LoginInv'
    BY <1>15 DEF LoginInv, CodeInv, Past, InsertDevice
  <2>4. AccountInv'
    BY <1>15 DEF AccountInv, LoginInv, InsertDevice
  <2>5. CrossInv'
    BY <1>15 DEF CrossInv, CodeInv, InFlight, InsertDevice
  <2>6. CountInv'
    <3>1. Pending' = Pending
      BY <1>15 DEF Pending, InsertDevice
    <3>2. QED
      BY <1>15, <3>1, PendingIsFinite DEF CountInv, InsertDevice
  <2>7. QED
    BY <2>1, <2>2, <2>3, <2>4, <2>5, <2>6
<1>16. ASSUME NEW r \in Requests, InsertToken(r) PROVE OtpInv'
  <2>1. TypeOK'
    BY <1>16 DEF InFlight, InsertToken
  <2>2. CodeInv'
    BY <1>16 DEF CodeInv, InsertToken
  <2>3. LoginInv'
    BY <1>16 DEF LoginInv, CodeInv, Past, InsertToken
  <2>4. AccountInv'
    BY <1>16 DEF AccountInv, LoginInv, InsertToken
  <2>5. CrossInv'
    BY <1>16 DEF CrossInv, CodeInv, InFlight, InsertToken
  <2>6. CountInv'
    <3>1. Pending' = Pending
      BY <1>16 DEF Pending, InsertToken
    <3>2. QED
      BY <1>16, <3>1, PendingIsFinite DEF CountInv, InsertToken
  <2>7. QED
    BY <2>1, <2>2, <2>3, <2>4, <2>5, <2>6
<1>17. ASSUME NEW r \in Requests, Fail(r) PROVE OtpInv'
  <2>1. TypeOK'
    BY <1>17 DEF InFlight, Fail
  <2>2. CodeInv'
    BY <1>17 DEF CodeInv, Fail
  <2>3. LoginInv'
    BY <1>17 DEF LoginInv, CodeInv, Past, Fail
  <2>4. AccountInv'
    BY <1>17 DEF AccountInv, LoginInv, Fail
  <2>5. CrossInv'
    BY <1>17 DEF CrossInv, CodeInv, InFlight, Fail
  <2>6. CountInv'
    <3>1. CASE pc[r] = "attempt"
      <4>1. r \in Pending /\ Pending' = Pending \ {r}
        BY <1>17, <3>1 DEF Fail, Pending
      <4>2. Cardinality(Pending') = Cardinality(Pending) - 1
        BY <4>1, OneLessPending
      <4>3. QED
        BY <1>17, <4>2, PendingIsFinite DEF CountInv, Fail
    <3>2. CASE pc[r] # "attempt"
      <4>1. Pending' = Pending
        BY <1>17, <3>2 DEF Fail, Pending
      <4>2. QED
        BY <1>17, <4>1, PendingIsFinite DEF CountInv, Fail
    <3>3. QED
      BY <3>1, <3>2
  <2>7. QED
    BY <2>1, <2>2, <2>3, <2>4, <2>5, <2>6
<1>18. ASSUME CodeExpires PROVE OtpInv'
  <2>1. TypeOK'
    BY <1>18 DEF InFlight, CodeExpires
  <2>2. CodeInv'
    BY <1>18 DEF CodeInv, CodeExpires
  <2>3. LoginInv'
    BY <1>18 DEF LoginInv, CodeInv, Past, CodeExpires
  <2>4. AccountInv'
    BY <1>18 DEF AccountInv, LoginInv, CodeExpires
  <2>5. CrossInv'
    BY <1>18 DEF CrossInv, CodeInv, InFlight, CodeExpires
  <2>6. CountInv'
    <3>1. Pending' = Pending
      BY <1>18 DEF Pending, CodeExpires
    <3>2. QED
      BY <1>18, <3>1, PendingIsFinite DEF CountInv, CodeExpires
  <2>7. QED
    BY <2>1, <2>2, <2>3, <2>4, <2>5, <2>6
<1>19. ASSUME WindowEnds PROVE OtpInv'
  <2>1. TypeOK'
    BY <1>19 DEF InFlight, WindowEnds
  <2>2. CodeInv'
    BY <1>19 DEF CodeInv, WindowEnds
  <2>3. LoginInv'
    BY <1>19 DEF LoginInv, CodeInv, Past, WindowEnds
  <2>4. AccountInv'
    BY <1>19 DEF AccountInv, LoginInv, WindowEnds
  <2>5. CrossInv'
    BY <1>19 DEF CrossInv, CodeInv, InFlight, WindowEnds
  <2>6. CountInv'
    <3>1. Pending' = Pending
      BY <1>19 DEF Pending, WindowEnds
    <3>2. QED
      BY <1>19, <3>1, PendingIsFinite DEF CountInv, WindowEnds
  <2>7. QED
    BY <2>1, <2>2, <2>3, <2>4, <2>5, <2>6
<1>20. CASE UNCHANGED vars
  <2>1. Pending' = Pending
    BY <1>20 DEF vars, Pending
  <2>2. QED
    BY <1>20, <2>1 DEF vars, CodeInv, LoginInv, AccountInv, CrossInv, CountInv, Past, InFlight
<1>21. QED
  BY <1>1, <1>2, <1>3, <1>4, <1>5, <1>6, <1>7, <1>8, <1>9, <1>10, <1>11, <1>12, <1>13, <1>14, <1>15, <1>16, <1>17, <1>18, <1>19, <1>20 DEF Next, Handle

\* The inductive invariant, type correctness included, holds for any constants
\* (requestOtp and verifyOtp as a whole).
THEOREM OtpSafety == Spec => []OtpInv
<1>1. QED
  BY InitInv, StepInv, PTL DEF Spec

\* verifyOtp: a code logs in once, but for two verifies that overlapped between
\* the SELECT and the DELETE.
THEOREM CodesAreSingleUse == Spec => []OneLoginPerCode
<1>1. OtpInv => OneLoginPerCode
  BY DEF OtpInv, TypeOK, LoginInv, Past, OneLoginPerCode
<1>2. QED
  BY <1>1, OtpSafety, PTL

\* verifyOtp: no refused verify escapes the counter, however many are in flight.
THEOREM RefusalsAreCounted == Spec => []CountKeepsUp
<1>1. OtpInv => CountKeepsUp
  BY DEF OtpInv, CountInv, CountKeepsUp
<1>2. QED
  BY <1>1, OtpSafety, PTL

\* A code asked for while nothing else was in flight is spoiled by nobody.
THEOREM UndisturbedCodes == Spec => []UndisturbedCodeWorks
<1>1. OtpInv => UndisturbedCodeWorks
  BY PendingIsFinite, NoneIsNone DEF OtpInv, TypeOK, CountInv, CrossInv, UndisturbedCodeWorks
<1>2. QED
  BY <1>1, OtpSafety, PTL

\* The attempts of a code are the refusals it had.
THEOREM AttemptsCounted == Spec => []AttemptsAreTrue
<1>1. CountKeepsUp /\ UndisturbedCodeWorks => AttemptsAreTrue
  BY DEF AttemptsAreTrue
<1>2. QED
  BY <1>1, RefusalsAreCounted, UndisturbedCodes, PTL

\* The upsert by phone: all logins are of one user.
THEOREM OneUser == Spec => []OneAccount
<1>1. OtpInv => OneAccount
  <2> SUFFICES ASSUME OtpInv PROVE OneAccount
    OBVIOUS
  <2>1. Cardinality(users) <= 1
    <3>1. CASE users = {}
      BY <3>1, FS_EmptySet
    <3>2. CASE users # {}
      <4>1. PICK u \in users : users = {u}
        BY <3>2 DEF OtpInv, AccountInv
      <4>2. Cardinality(users) = 1
        BY <4>1, FS_Singleton
      <4>3. QED
        BY <4>2
    <3>3. QED
      BY <3>1, <3>2
  <2>2. QED
    BY <2>1 DEF OtpInv, TypeOK, AccountInv, OneAccount
<1>2. QED
  BY <1>1, OtpSafety, PTL

----------------------------------------------------------------------------
(***************************************************************************)
(* Sessions: what a tab presents, when the reuse detector may log the user *)
(* out, and how many tokens of the family are valid.                       *)
(***************************************************************************)
\* SessionInv without what follows from the rest of it.
Core == /\ SessionTypeOK
        /\ WaitersHaveAFlight
        /\ PairsAreIssued
        /\ SpentOrAwaited
        /\ OneRotationPerToken
        /\ Calm
        /\ OneHeir

LEMMA InitCore == SessionInit => Core
<1> SUFFICES ASSUME SessionInit PROVE Core
  OBVIOUS
<1> USE CallsAreOfTabs, Names, BoundIsNumber DEF Pairs
<1>1. SessionTypeOK
  BY DEF SessionInit, SessionTypeOK, Queries
<1>2. Started = {} /\ Heirs = {Login} /\ InProgress = {} /\ \A r \in Refreshes : state[r] = "new"
  BY DEF SessionInit, Started, Heirs, InProgress
<1>3. WaitersHaveAFlight /\ OneRotationPerToken /\ OneHeir
  BY <1>2 DEF SessionInit, WaitersHaveAFlight, Landing, OneRotationPerToken, OneHeir
<1>4. PairsAreIssued /\ SpentOrAwaited
  BY <1>2 DEF SessionInit, PairsAreIssued, SpentOrAwaited
<1>5. Calm
  BY <1>2 DEF SessionInit, Calm
<1>6. QED
  BY <1>1, <1>3, <1>4, <1>5 DEF Core

\* Two refreshes presented one token: in one tab, one of them is lost, which is a
\* fault; in two, the tabs collided.
LEMMA TokensDiffer ==
  ASSUME Core, Undisturbed
  PROVE  \A q, r \in Started : q # r => token[q] # token[r]
BY DEF Core, Undisturbed, TabsCollided, OneRotationPerToken, SpentOrAwaited

\* Undisturbed, one refresh at a time is in progress.
LEMMA OneInProgress ==
  ASSUME Core, Undisturbed
  PROVE  \A q, r \in InProgress : q = r
BY TokensDiffer DEF Core, Calm, InProgress, Started

LEMMA StepCore == Core /\ [SessionNext]_sessionVars => Core'
<1> SUFFICES ASSUME Core, [SessionNext]_sessionVars PROVE Core'
  OBVIOUS
<1> USE CallsAreOfTabs, Names, BoundIsNumber DEF Core, Pairs, Queries, Landing
<1>u. SessionTypeOK /\ WaitersHaveAFlight /\ PairsAreIssued
  OBVIOUS
<1>1. ASSUME NEW c \in Calls, Call(c) \/ Succeed(c) \/ Refuse(c) PROVE Core'
  <2>1. UNCHANGED <<browser, retried, flightVars, server, lost, mishaps>>
    BY <1>1 DEF Call, Succeed, Refuse, Resend
  <2>2. SessionTypeOK'
    BY <1>1, <2>1 DEF Call, Succeed, Refuse, Resend, SessionTypeOK, browser, flightVars, server
  <2>3. WaitersHaveAFlight'
    BY <1>1, <2>1 DEF Call, Succeed, Refuse, Resend, SessionTypeOK, WaitersHaveAFlight, Started,
                      flightVars, server
  <2>4. PairsAreIssued' /\ SpentOrAwaited' /\ OneRotationPerToken' /\ OneHeir'
    BY <2>1 DEF PairsAreIssued, SpentOrAwaited, OneRotationPerToken, OneHeir, Heirs, Started,
                browser, flightVars, server
  <2>5. Undisturbed' = Undisturbed /\ InProgress' = InProgress
    BY <2>1 DEF Undisturbed, TabsCollided, Started, InProgress, server
  <2>6. Calm'
    BY <1>1, <2>1, <2>5 DEF Call, Succeed, Refuse, Rejected, Resend, SessionTypeOK, Calm, browser,
                            flightVars, server
  <2>7. QED
    BY <2>2, <2>3, <2>4, <2>6
\* The 401 of a call, or restoreSession, asks for a refresh.
<1>2. ASSUME NEW c \in Calls, RestoreSession(c) \/ Unauthorized(c) PROVE Core'
  <2>1. /\ UNCHANGED <<browser, lost, mishaps>>
        /\ retried' \subseteq retried \cup {c} /\ retried \subseteq retried'
        /\ RefreshOnce(c)
        /\ call[c] \in {"idle", "sent"} /\ c \notin retried
        /\ call[c] = "idle" => retried' = retried
    BY <1>2 DEF RestoreSession, Unauthorized, Rejected, Calm
  <2>2. CASE GiveUp(c) \/ Share(c)
    <3>1. UNCHANGED <<flightVars, server>> /\ UNCHANGED <<browser, lost, mishaps>>
      BY <2>1, <2>2 DEF GiveUp, Share
    <3>2. PairsAreIssued' /\ SpentOrAwaited' /\ OneRotationPerToken' /\ OneHeir'
      BY <3>1 DEF PairsAreIssued, SpentOrAwaited, OneRotationPerToken, OneHeir, Heirs,
                  Started, browser, flightVars, server
    <3>3. Undisturbed' = Undisturbed /\ InProgress' = InProgress
      BY <3>1 DEF Undisturbed, TabsCollided, Started, InProgress, server
    <3>4. CASE GiveUp(c)
      <4>1. call' = [call EXCEPT ![c] = "failed"] /\ sentWith' = sentWith /\ stored = Nil
        BY <3>4 DEF GiveUp
      <4>2. SessionTypeOK'
        BY <2>1, <3>1, <4>1 DEF SessionTypeOK, browser, flightVars, server
      <4>3. WaitersHaveAFlight'
        BY <3>1, <4>1 DEF SessionTypeOK, WaitersHaveAFlight, Started, flightVars, server
      <4>4. Calm'
        BY <2>1, <3>1, <3>3, <4>1 DEF SessionTypeOK, Calm, browser, flightVars, server
      <4>5. QED
        BY <3>2, <4>2, <4>3, <4>4
    <3>5. CASE Share(c)
      <4> DEFINE t == TabOf[c]
      <4>1. flight[t] # Nil /\ t \in Tabs
        BY <3>5 DEF Share
      <4>2. CASE promise[t] = "open" /\ call' = [call EXCEPT ![c] = "wait"] /\ sentWith' = sentWith
        <5>1. SessionTypeOK'
          BY <2>1, <3>1, <4>2 DEF SessionTypeOK, browser, flightVars, server
        <5>2. WaitersHaveAFlight'
          BY <3>1, <4>1, <4>2 DEF SessionTypeOK, WaitersHaveAFlight, Started, flightVars, server
        <5>3. Calm'
          BY <2>1, <3>1, <3>3, <4>2 DEF SessionTypeOK, Calm, browser, flightVars, server
        <5>4. QED
          BY <3>2, <5>1, <5>2, <5>3
      <4>3. CASE promise[t] = "true" /\ Resend(c)
        <5>1. SessionTypeOK'
          BY <2>1, <3>1, <4>1, <4>3 DEF SessionTypeOK, Resend, browser, flightVars, server
        <5>2. WaitersHaveAFlight'
          BY <3>1, <4>3 DEF SessionTypeOK, WaitersHaveAFlight, Resend, Started, flightVars, server
        <5>3. Undisturbed => access[t] \notin stale \cup {Nil}
          BY <4>1, <4>3 DEF Calm
        <5>4. Calm'
          BY <2>1, <3>1, <3>3, <4>3, <5>3 DEF SessionTypeOK, Calm, Resend, browser, flightVars, server
        <5>5. QED
          BY <3>2, <5>1, <5>2, <5>4
      <4>4. CASE promise[t] = "false" /\ call' = [call EXCEPT ![c] = "failed"] /\ sentWith' = sentWith
        <5>1. SessionTypeOK'
          BY <2>1, <3>1, <4>4 DEF SessionTypeOK, browser, flightVars, server
        <5>2. WaitersHaveAFlight'
          BY <3>1, <4>4 DEF SessionTypeOK, WaitersHaveAFlight, Started, flightVars, server
        <5>3. ~ Undisturbed
          BY <4>1, <4>4 DEF Calm
        <5>4. Calm'
          BY <2>1, <3>1, <3>3, <4>4, <5>3 DEF SessionTypeOK, Calm, browser, flightVars, server
        <5>5. QED
          BY <3>2, <5>1, <5>2, <5>4
      <4>5. QED
        BY <3>5, <4>1, <4>2, <4>3, <4>4 DEF Share, SessionTypeOK
    <3>6. QED
      BY <2>2, <3>4, <3>5
  <2>3. CASE Start(c)
    <3> DEFINE t == TabOf[c]
    <3>1. PICK r \in Refreshes :
            /\ flight[t] = Nil /\ stored # Nil /\ state[r] = "new"
            /\ flight' = [flight EXCEPT ![t] = r]
            /\ state' = [state EXCEPT ![r] = "select"]
            /\ token' = [token EXCEPT ![r] = stored]
            /\ tab' = [tab EXCEPT ![r] = t]
            /\ promise' = [promise EXCEPT ![t] = "open"]
            /\ call' = [call EXCEPT ![c] = "wait"]
            /\ UNCHANGED <<sentWith, live>>
      BY <2>3 DEF Start
    <3>2. /\ t \in Tabs /\ r \notin Started /\ Started' = Started \cup {r}
          /\ InProgress' = InProgress \cup {r} /\ r \notin InProgress
          /\ stored \in Pairs /\ UNCHANGED <<stored, access, stale, lost, mishaps>>
      BY <2>1, <3>1 DEF SessionTypeOK, Started, InProgress, browser
    <3>3. /\ token'[r] = stored /\ tab'[r] = t /\ state'[r] = "select"
          /\ flight'[t] = r /\ promise'[t] = "open"
          /\ \A q \in Refreshes \ {r} :
               token'[q] = token[q] /\ tab'[q] = tab[q] /\ state'[q] = state[q]
          /\ \A u \in Tabs \ {t} : flight'[u] = flight[u] /\ promise'[u] = promise[u]
      BY <3>1, <3>2 DEF SessionTypeOK
    <3>4. SessionTypeOK'
      BY <2>1, <3>1, <3>2 DEF SessionTypeOK
    <3>5. WaitersHaveAFlight'
      <4>1. \A d \in Calls : call'[d] = "wait" => Landing(TabOf[d])'
        BY <3>1, <3>3 DEF SessionTypeOK, WaitersHaveAFlight
      <4>2. \A u \in Tabs : flight'[u] # Nil => flight'[u] \in Started' /\ tab'[flight'[u]] = u
        BY <3>2, <3>3 DEF WaitersHaveAFlight, SessionTypeOK
      <4>3. \A u \in Tabs : Landing(u)' => state'[flight'[u]] # "done"
        BY <3>2, <3>3 DEF WaitersHaveAFlight, SessionTypeOK
      <4>4. QED
        BY <4>1, <4>2, <4>3 DEF WaitersHaveAFlight
    <3>6. PairsAreIssued'
      BY <3>1, <3>2, <3>3 DEF PairsAreIssued, SessionTypeOK, Started
    <3>7. SpentOrAwaited'
      <4>1. \A q \in Started : q # r /\ tab[q] \in Tabs
        BY <3>2 DEF PairsAreIssued
      <4>2. \A q \in Started : token[q] = stored \/ state[q] # "done" =>
              q \in lost \/ (flight[tab[q]] = q /\ promise[tab[q]] = "open" /\ tab[q] # t)
        BY <3>1 DEF SpentOrAwaited, Started
      <4>3. \A q \in Started' : token'[q] = stored' \/ state'[q] # "done" =>
              q \in lost' \/ (flight'[tab'[q]] = q /\ promise'[tab'[q]] = "open")
        <5> TAKE q \in Started'
        <5>1. CASE q = r
          BY <3>3, <5>1
        <5>2. CASE q # r
          <6>1. /\ q \in Started /\ q \in Refreshes \ {r} /\ tab[q] \in Tabs
                /\ token'[q] = token[q] /\ state'[q] = state[q] /\ tab'[q] = tab[q]
            BY <3>2, <3>3, <4>1, <5>2 DEF Started
          <6>2. QED
            BY <3>2, <3>3, <4>2, <6>1
        <5>3. QED
          BY <5>1, <5>2
      <4>4. QED
        BY <3>2, <4>3 DEF SpentOrAwaited
    <3>8. OneRotationPerToken'
      <4>1. \A q \in Started : token[q] = stored /\ tab[q] = t => q \in lost
        BY <3>1 DEF SpentOrAwaited, Started
      <4>2. QED
        BY <3>2, <3>3, <4>1 DEF OneRotationPerToken, Started
    <3>9. Undisturbed' => Undisturbed
      BY <3>2, <3>3 DEF Undisturbed, TabsCollided, Started
    <3>10. Undisturbed' => \A q \in Started' \ {r} : token'[q] # stored
      BY <3>2, <3>3, <3>8, <3>7 DEF Undisturbed, TabsCollided, OneRotationPerToken,
                                      SpentOrAwaited
    <3>11. Undisturbed' => InProgress = {}
      BY <3>2, <3>3, <3>9, <3>10 DEF Calm, InProgress, Started
    <3>12. Calm'
      <4>1. \A d \in retried' : call'[d] # "idle"
        BY <2>1, <3>1 DEF Calm, SessionTypeOK
      <4> SUFFICES ASSUME Undisturbed' PROVE Calm'
        BY <4>1 DEF Calm
      <4>2. stored' # Nil /\ \A q \in Refreshes : state'[q] \notin {"reuse", "no"}
        BY <3>1, <3>2, <3>3, <3>9 DEF Calm
      <4>3. /\ \A u \in Tabs : promise'[u] # "false"
            /\ \A d \in Calls : call'[d] # "failed"
        BY <3>1, <3>3, <3>9 DEF Calm, SessionTypeOK
      <4>4. /\ \A q \in InProgress' : token'[q] = stored' /\ (state'[q] = "yes" => q \in live')
            /\ stored' \in live'
        BY <3>1, <3>2, <3>3, <3>9, <3>11 DEF Calm
      <4>5. \A u \in Tabs : flight'[u] # Nil /\ promise'[u] = "true" =>
                              access'[u] = flight'[u] /\ access'[u] \notin stale'
        BY <3>2, <3>3, <3>9 DEF Calm
      <4>6. \A d \in retried' : call'[d] = "sent" => sentWith'[d] \notin stale' \cup {Nil}
        BY <2>1, <3>1, <3>2, <3>9 DEF Calm, SessionTypeOK
      <4>7. QED
        BY <4>1, <4>2, <4>3, <4>4, <4>5, <4>6 DEF Calm
    <3>13. OneHeir'
      <4>1. Heirs' = Heirs
        BY <3>1, <3>2, <3>3 DEF Heirs
      <4>2. QED
        BY <3>2, <3>3, <4>1 DEF OneHeir, Started
    <3>14. QED
      BY <3>4, <3>5, <3>6, <3>7, <3>8, <3>12, <3>13
  <2>4. QED
    BY <2>1, <2>2, <2>3 DEF RefreshOnce
\* An answer arrives, or is lost.
<1>3. ASSUME NEW t \in Tabs, SetTokens(t) PROVE Core'
  <2> DEFINE r == flight[t]
  <2>1. /\ r \in Refreshes /\ state[r] = "yes" /\ promise[t] = "open" /\ tab[r] = t
        /\ \A u \in Tabs \ {t} : flight[u] # r
    BY <1>3 DEF SetTokens, SessionTypeOK, WaitersHaveAFlight
  <2>2. /\ stored' = r
        /\ access' = [access EXCEPT ![t] = r]
        /\ promise' = [promise EXCEPT ![t] = "true"]
        /\ state' = [state EXCEPT ![r] = "done"]
        /\ UNCHANGED <<stale, flight, token, tab, live, lost, mishaps, retried>>
    BY <1>3 DEF SetTokens, Resume
  <2>3. /\ call' = [c \in Calls |-> IF c \in Waiting(t) THEN "sent" ELSE call[c]]
        /\ sentWith' = [c \in Calls |-> IF c \in Waiting(t) THEN r ELSE sentWith[c]]
    BY <1>3, <2>1 DEF SetTokens, Resume
  <2>4. Started' = Started /\ InProgress' = InProgress \ {r} /\ Heirs' = Heirs /\ r \in Started
    BY <2>1, <2>2 DEF Started, InProgress, Heirs, SessionTypeOK
  <2>5. SessionTypeOK'
    BY <2>1, <2>2, <2>3 DEF SessionTypeOK
  <2>6. WaitersHaveAFlight'
    <3>1. \A c \in Calls : call'[c] = "wait" => TabOf[c] # t /\ call[c] = "wait"
      BY <2>3 DEF Waiting
    <3>2. \A u \in Tabs \ {t} : promise'[u] = promise[u]
      BY <2>2 DEF SessionTypeOK
    <3>3. \A c \in Calls : call'[c] = "wait" => Landing(TabOf[c])'
      BY <2>2, <3>1, <3>2 DEF WaitersHaveAFlight
    <3>4. \A u \in Tabs : Landing(u)' => u # t /\ Landing(u) /\ flight[u] \in Refreshes
      BY <2>2, <3>2 DEF SessionTypeOK
    <3>5. \A u \in Tabs : Landing(u)' => state'[flight'[u]] # "done"
      BY <2>1, <2>2, <3>4 DEF WaitersHaveAFlight, SessionTypeOK
    <3>6. QED
      BY <2>2, <2>4, <3>3, <3>5 DEF WaitersHaveAFlight
  <2>7. PairsAreIssued'
    BY <2>1, <2>2, <2>4 DEF PairsAreIssued, SessionTypeOK
  <2>8. \A q \in Started : token[q] # r
    BY <2>1 DEF PairsAreIssued
  <2>9. SpentOrAwaited'
    <3>1. \A q \in Started : q # r /\ state[q] # "done" => q \in lost \/ tab[q] # t
      BY DEF SpentOrAwaited
    <3>2. \A q \in Started : state'[q] # "done" => q # r /\ state[q] # "done" /\ tab[q] \in Tabs
      BY <2>1, <2>2 DEF SessionTypeOK, Started, PairsAreIssued
    <3>3. \A q \in Started : state'[q] # "done" /\ q \notin lost => promise'[tab[q]] = promise[tab[q]]
      BY <2>2, <3>1, <3>2 DEF SessionTypeOK
    <3>4. QED
      BY <2>2, <2>4, <2>8, <3>2, <3>3 DEF SpentOrAwaited
  <2>10. OneRotationPerToken' /\ OneHeir'
    BY <2>2, <2>4 DEF OneRotationPerToken, OneHeir
  <2>11. Undisturbed' = Undisturbed
    BY <2>2, <2>4 DEF Undisturbed, TabsCollided
  <2>12. Calm'
    <3>1. \A c \in retried' : call'[c] # "idle"
      BY <2>2, <2>3 DEF Calm, SessionTypeOK
    <3> SUFFICES ASSUME Undisturbed' PROVE Calm'
      BY <3>1 DEF Calm
    <3>2. Undisturbed
      BY <2>11
    <3>3. InProgress' = {} /\ r \in live /\ r \notin stale
      BY <2>1, <2>4, <3>2, OneInProgress DEF InProgress, Calm, PairsAreIssued
    <3>4. /\ stored' # Nil /\ stored' \in live'
          /\ \A q \in Refreshes : state'[q] \notin {"reuse", "no"}
      BY <2>1, <2>2, <3>2, <3>3 DEF Calm, SessionTypeOK
    <3>5. /\ \A u \in Tabs : promise'[u] # "false"
          /\ \A c \in Calls : call'[c] # "failed"
      BY <2>2, <2>3, <3>2 DEF Calm, SessionTypeOK
    <3>6. \A u \in Tabs : flight'[u] # Nil /\ promise'[u] = "true" =>
                            access'[u] = flight'[u] /\ access'[u] \notin stale'
      BY <2>1, <2>2, <3>2, <3>3 DEF Calm, SessionTypeOK
    <3>7. \A c \in retried' : call'[c] = "sent" => sentWith'[c] \notin stale' \cup {Nil}
      BY <2>1, <2>2, <2>3, <3>2, <3>3 DEF Calm, SessionTypeOK
    <3>8. QED
      BY <3>1, <3>3, <3>4, <3>5, <3>6, <3>7 DEF Calm
  <2>13. QED
    BY <2>5, <2>6, <2>7, <2>9, <2>10, <2>12
<1>4. ASSUME NEW t \in Tabs, ClearTokens(t) PROVE Core'
  <2> DEFINE r == flight[t]
  <2>1. /\ r \in Refreshes /\ state[r] = "no" /\ promise[t] = "open" /\ tab[r] = t
        /\ \A u \in Tabs \ {t} : flight[u] # r
    BY <1>4 DEF ClearTokens, SessionTypeOK, WaitersHaveAFlight
  <2>2. /\ stored' = Nil
        /\ access' = [access EXCEPT ![t] = Nil]
        /\ promise' = [promise EXCEPT ![t] = "false"]
        /\ state' = [state EXCEPT ![r] = "done"]
        /\ UNCHANGED <<stale, flight, token, tab, live, lost, mishaps, retried>>
    BY <1>4 DEF ClearTokens, Resume
  <2>3. /\ call' = [c \in Calls |-> IF c \in Waiting(t) THEN "failed" ELSE call[c]]
        /\ sentWith' = [c \in Calls |-> sentWith[c]]
    BY <1>4 DEF ClearTokens, Resume
  <2>4. Started' = Started /\ Heirs' = Heirs /\ r \in Started
    BY <2>1, <2>2 DEF Started, Heirs, SessionTypeOK
  <2>5. SessionTypeOK'
    BY <2>1, <2>2, <2>3 DEF SessionTypeOK
  <2>6. WaitersHaveAFlight'
    <3>1. \A c \in Calls : call'[c] = "wait" => TabOf[c] # t /\ call[c] = "wait"
      BY <2>3 DEF Waiting
    <3>2. \A u \in Tabs \ {t} : promise'[u] = promise[u]
      BY <2>2 DEF SessionTypeOK
    <3>3. \A c \in Calls : call'[c] = "wait" => Landing(TabOf[c])'
      BY <2>2, <3>1, <3>2 DEF WaitersHaveAFlight
    <3>4. \A u \in Tabs : Landing(u)' => u # t /\ Landing(u) /\ flight[u] \in Refreshes
      BY <2>2, <3>2 DEF SessionTypeOK
    <3>5. \A u \in Tabs : Landing(u)' => state'[flight'[u]] # "done"
      BY <2>1, <2>2, <3>4 DEF WaitersHaveAFlight, SessionTypeOK
    <3>6. QED
      BY <2>2, <2>4, <3>3, <3>5 DEF WaitersHaveAFlight
  <2>7. PairsAreIssued'
    BY <2>1, <2>2, <2>4 DEF PairsAreIssued, SessionTypeOK
  <2>8. SpentOrAwaited'
    <3>1. \A q \in Started : q # r /\ state[q] # "done" => q \in lost \/ tab[q] # t
      BY DEF SpentOrAwaited
    <3>2. \A q \in Started : state'[q] # "done" => q # r /\ state[q] # "done" /\ tab[q] \in Tabs
      BY <2>1, <2>2 DEF SessionTypeOK, Started, PairsAreIssued
    <3>3. \A q \in Started : state'[q] # "done" /\ q \notin lost => promise'[tab[q]] = promise[tab[q]]
      BY <2>2, <3>1, <3>2 DEF SessionTypeOK
    <3>4. \A q \in Started : token[q] # Nil
      BY DEF PairsAreIssued
    <3>5. QED
      BY <2>2, <2>4, <3>2, <3>3, <3>4 DEF SpentOrAwaited
  <2>9. OneRotationPerToken' /\ OneHeir'
    BY <2>2, <2>4 DEF OneRotationPerToken, OneHeir
  <2>10. ~ Undisturbed'
    BY <2>1, <2>2, <2>4 DEF Undisturbed, TabsCollided, Calm
  <2>11. Calm'
    BY <2>2, <2>3, <2>10 DEF Calm, SessionTypeOK
  <2>12. QED
    BY <2>5, <2>6, <2>7, <2>8, <2>9, <2>11
<1>5. ASSUME NEW t \in Tabs, Lose(t) PROVE Core'
  <2>1. /\ flight[t] \in Refreshes /\ promise[t] = "open" /\ mishaps < MaxMishaps
        /\ mishaps' = mishaps + 1 /\ lost' = lost \cup {flight[t]}
        /\ promise' = [promise EXCEPT ![t] = "false"]
        /\ UNCHANGED <<stored, access, stale, flight, state, token, tab, live, retried>>
        /\ call' = [c \in Calls |-> IF c \in Waiting(t) THEN "failed" ELSE call[c]]
        /\ sentWith' = [c \in Calls |-> sentWith[c]]
    BY <1>5 DEF Lose, Resume, SessionTypeOK, browser, server
  <2>2. Started' = Started /\ Heirs' = Heirs
    BY <2>1 DEF Started, Heirs
  <2>3. mishaps \in Nat /\ mishaps' \in 0 .. MaxMishaps /\ mishaps' # 0
    BY <2>1 DEF SessionTypeOK
  <2>4. SessionTypeOK'
    BY <2>1, <2>3 DEF SessionTypeOK
  <2>5. WaitersHaveAFlight'
    <3>1. \A c \in Calls : call'[c] = "wait" => TabOf[c] # t /\ call[c] = "wait"
      BY <2>1 DEF Waiting
    <3>2. \A u \in Tabs : u # t => promise'[u] = promise[u]
      BY <2>1 DEF SessionTypeOK
    <3>3. \A u \in Tabs : Landing(u)' => Landing(u)
      BY <2>1, <3>2 DEF SessionTypeOK
    <3>4. QED
      BY <2>1, <2>2, <3>1, <3>2, <3>3 DEF WaitersHaveAFlight
  <2>6. PairsAreIssued' /\ OneRotationPerToken' /\ OneHeir'
    BY <2>1, <2>2 DEF PairsAreIssued, OneRotationPerToken, OneHeir
  <2>7. SpentOrAwaited'
    <3>1. \A u \in Tabs : u # t => promise'[u] = promise[u]
      BY <2>1 DEF SessionTypeOK
    <3>2. \A q \in Started : tab[q] \in Tabs
      BY DEF PairsAreIssued
    <3>3. QED
      BY <2>1, <2>2, <2>3, <3>1, <3>2 DEF SpentOrAwaited
  <2>8. Calm'
    BY <2>1, <2>3 DEF Calm, Undisturbed, SessionTypeOK
  <2>9. QED
    BY <2>4, <2>5, <2>6, <2>7, <2>8
<1>6. ASSUME NEW t \in Tabs, Forget(t) PROVE Core'
  <2>1. /\ promise[t] # "open" /\ flight' = [flight EXCEPT ![t] = Nil]
        /\ UNCHANGED <<browser, callVars, promise, server, lost, mishaps>>
    BY <1>6 DEF Forget
  <2>2. Started' = Started /\ Heirs' = Heirs /\ InProgress' = InProgress
    BY <2>1 DEF Started, Heirs, InProgress, server
  <2>3. SessionTypeOK'
    BY <2>1 DEF SessionTypeOK, browser, callVars, server
  <2>4. \A u \in Tabs : flight'[u] = IF u = t THEN Nil ELSE flight[u]
    BY <2>1 DEF SessionTypeOK
  <2>5. WaitersHaveAFlight'
    BY <2>1, <2>2, <2>4 DEF WaitersHaveAFlight, callVars, server
  <2>6. PairsAreIssued' /\ OneRotationPerToken' /\ OneHeir'
    BY <2>1, <2>2 DEF PairsAreIssued, OneRotationPerToken, OneHeir, browser, server
  <2>7. SpentOrAwaited'
    BY <2>1, <2>2, <2>4 DEF SpentOrAwaited, PairsAreIssued, browser, server
  <2>8. Undisturbed' = Undisturbed
    BY <2>1, <2>2 DEF Undisturbed, TabsCollided, server
  <2>9. Calm'
    BY <2>1, <2>2, <2>4, <2>8 DEF Calm, browser, callVars, server
  <2>10. QED
    BY <2>3, <2>5, <2>6, <2>7, <2>9
\* An access token expires.
<1>7. ASSUME NEW k \in Pairs, Expire(k) \/ Oversleep(k) PROVE Core'
  <2>1. /\ stale' = stale \cup {k} /\ \E t \in Tabs : access[t] = k
        /\ UNCHANGED <<stored, access, callVars, flightVars, server, lost>>
        /\ mishaps' \in 0 .. MaxMishaps /\ (mishaps' = 0 => mishaps = 0 /\ Expire(k))
    BY <1>7 DEF Expire, Oversleep, SessionTypeOK
  <2>2. Started' = Started /\ Heirs' = Heirs /\ InProgress' = InProgress
    BY <2>1 DEF Started, Heirs, InProgress, server
  <2>3. SessionTypeOK'
    BY <2>1 DEF SessionTypeOK, callVars, flightVars, server
  <2>4. WaitersHaveAFlight'
    BY <2>1, <2>2 DEF WaitersHaveAFlight, callVars, flightVars, server
  <2>5. PairsAreIssued' /\ OneRotationPerToken' /\ OneHeir'
    BY <2>1, <2>2 DEF PairsAreIssued, OneRotationPerToken, OneHeir, server
  <2>6. SpentOrAwaited'
    BY <2>1, <2>2 DEF SpentOrAwaited, flightVars, server
  <2>7. Undisturbed' => Undisturbed /\ Expire(k)
    BY <2>1, <2>2 DEF Undisturbed, TabsCollided, server
  <2>8. Calm'
    <3>1. UNCHANGED <<stored, access, call, sentWith, retried, flight, promise, state, token, live>>
      BY <2>1 DEF callVars, flightVars, server
    <3>2. Undisturbed' => \A t \in Tabs : flight[t] # Nil /\ promise[t] = "true" =>
                            access[t] = flight[t] /\ access[t] \notin stale'
      BY <2>1, <2>7 DEF Calm, Expire
    <3>3. Undisturbed' => \A c \in retried : call[c] = "sent" => sentWith[c] \notin stale' \cup {Nil}
      BY <2>1, <2>7 DEF Calm, Expire, SessionTypeOK
    <3>4. QED
      BY <2>2, <2>7, <3>1, <3>2, <3>3 DEF Calm
  <2>9. QED
    BY <2>3, <2>4, <2>5, <2>6, <2>8
\* The gateway.  Whatever a query does, the browser is as it was.
<1>g. ASSUME NEW r \in Refreshes, NEW next \in Queries \cup {"yes", "no"},
             state[r] \in Queries, state' = [state EXCEPT ![r] = next],
             live' \subseteq live \cup {r}, r \in live' => r \in live \/ next = "yes",
             mishaps' \in mishaps .. MaxMishaps, LeavesBrowser
      PROVE  /\ SessionTypeOK' /\ WaitersHaveAFlight' /\ PairsAreIssued' /\ SpentOrAwaited'
             /\ OneRotationPerToken'
             /\ Undisturbed' => Undisturbed
             /\ Started' = Started
  <2>1. UNCHANGED <<stored, access, stale, call, sentWith, retried, flight, promise, token, tab, lost>>
    BY <1>g DEF LeavesBrowser, browser, callVars, flightVars
  <2>2. /\ Started' = Started /\ r \in Started /\ state'[r] = next
        /\ \A q \in Refreshes \ {r} : state'[q] = state[q]
        /\ mishaps \in Nat /\ mishaps' \in 0 .. MaxMishaps
    BY <1>g DEF Started, SessionTypeOK
  <2>3. SessionTypeOK'
    BY <1>g, <2>1, <2>2 DEF SessionTypeOK
  <2>4. WaitersHaveAFlight'
    BY <1>g, <2>1, <2>2 DEF WaitersHaveAFlight, SessionTypeOK
  <2>5. PairsAreIssued'
    BY <1>g, <2>1, <2>2 DEF PairsAreIssued, SessionTypeOK
  <2>6. SpentOrAwaited'
    BY <1>g, <2>1, <2>2 DEF SpentOrAwaited
  <2>7. OneRotationPerToken'
    BY <2>1, <2>2 DEF OneRotationPerToken
  <2>8. Undisturbed' => Undisturbed
    BY <1>g, <2>1, <2>2 DEF Undisturbed, TabsCollided
  <2>9. QED
    BY <2>2, <2>3, <2>4, <2>5, <2>6, <2>7, <2>8
<1>8. ASSUME NEW r \in Refreshes, Select(r) PROVE Core'
  <2>1. PICK next \in {"revoke", "reuse"} :
          /\ state[r] = "select" /\ state' = [state EXCEPT ![r] = next]
          /\ next = "revoke" <=> token[r] \in live
          /\ live' = live /\ mishaps' = mishaps /\ LeavesBrowser
    BY <1>8 DEF Select, At
  <2>f. mishaps' \in mishaps .. MaxMishaps
    BY <2>1 DEF SessionTypeOK
  <2>2. /\ SessionTypeOK' /\ WaitersHaveAFlight' /\ PairsAreIssued' /\ SpentOrAwaited'
        /\ OneRotationPerToken'
        /\ Undisturbed' => Undisturbed
        /\ Started' = Started
    BY <1>g, <2>1, <2>f
  <2>3. /\ state'[r] = next /\ \A q \in Refreshes \ {r} : state'[q] = state[q]
        /\ UNCHANGED <<stored, access, stale, call, sentWith, retried, flight, promise, token>>
    BY <2>1 DEF SessionTypeOK, LeavesBrowser, browser, callVars, flightVars
  <2>4. Calm'
    <3>1. Undisturbed => next = "revoke"
      <4> SUFFICES ASSUME Undisturbed PROVE token[r] \in live
        BY <2>1
      <4>1. r \in InProgress /\ token[r] = stored
        BY <2>1 DEF InProgress, Calm
      <4>2. \A q \in InProgress : q = r
        BY <4>1, OneInProgress
      <4>3. QED
        BY <2>1, <4>1, <4>2 DEF Calm
    <3>2. Undisturbed => InProgress' = InProgress
      BY <2>1, <2>3, <3>1 DEF InProgress
    <3>3. QED
      BY <2>1, <2>2, <2>3, <3>1, <3>2 DEF Calm
  <2>5. OneHeir'
    <3> SUFFICES ASSUME \A p, q \in Started : p # q => token[p] # token[q]
                 PROVE  \A h, k \in Heirs' : h = k
      BY <2>2, <2>3 DEF OneHeir
    <3>1. \A h, k \in Heirs : h = k
      BY DEF OneHeir
    <3>2. CASE next = "reuse"
      <4>1. Heirs' = Heirs
        BY <2>1, <2>3, <3>2 DEF Heirs
      <4>2. QED
        BY <3>1, <4>1
    <3>3. CASE next = "revoke"
      <4>1. token[r] \in Heirs
        BY <2>1, <3>3 DEF Heirs, Started
      <4>2. Heirs' \subseteq (Heirs \cup {r}) \ ({token[r]} \cap live)
        <5>1. Heirs' \subseteq Heirs \cup {r}
          BY <2>1, <2>3 DEF Heirs
        <5>2. token[r] \notin Heirs'
          <6>1. token[r] \in Refreshes => state[token[r]] \in {"yes", "done"}
            BY <2>1, <3>3 DEF PairsAreIssued
          <6>2. QED
            BY <2>1, <2>3, <3>3, <6>1 DEF Heirs
        <5>3. QED
          BY <5>1, <5>2
      <4>3. QED
        BY <2>1, <3>1, <3>3, <4>1, <4>2
    <3>4. QED
      BY <3>2, <3>3
  <2>6. QED
    BY <2>2, <2>4, <2>5
<1>9. ASSUME NEW r \in Refreshes, RevokeFamily(r) PROVE Core'
  <2>1. /\ state[r] = "reuse" /\ state' = [state EXCEPT ![r] = "no"]
        /\ live' = {} /\ mishaps' = mishaps /\ LeavesBrowser
    BY <1>9 DEF RevokeFamily, At
  <2>f. mishaps' \in mishaps .. MaxMishaps
    BY <2>1 DEF SessionTypeOK
  <2>2. /\ SessionTypeOK' /\ WaitersHaveAFlight' /\ PairsAreIssued' /\ SpentOrAwaited'
        /\ OneRotationPerToken'
        /\ Undisturbed' => Undisturbed
        /\ Started' = Started
    BY <1>g, <2>1, <2>f
  <2>3. call' = call /\ retried' = retried /\ token' = token
    BY <2>1 DEF LeavesBrowser, callVars
  <2>4. Calm'
    BY <2>1, <2>2, <2>3 DEF Calm
  <2>5. OneHeir'
    <3>1. Heirs' \subseteq Heirs
      BY <2>1 DEF Heirs, SessionTypeOK
    <3>2. QED
      BY <2>2, <2>3, <3>1 DEF OneHeir
  <2>6. QED
    BY <2>2, <2>4, <2>5
<1>10. ASSUME NEW r \in Refreshes, RevokeOwn(r) PROVE Core'
  <2>1. /\ state[r] = "revoke" /\ state' = [state EXCEPT ![r] = "insert"]
        /\ live' = live \ {token[r]} /\ mishaps' = mishaps /\ LeavesBrowser
    BY <1>10 DEF RevokeOwn, At
  <2>f. mishaps' \in mishaps .. MaxMishaps
    BY <2>1 DEF SessionTypeOK
  <2>2. /\ SessionTypeOK' /\ WaitersHaveAFlight' /\ PairsAreIssued' /\ SpentOrAwaited'
        /\ OneRotationPerToken'
        /\ Undisturbed' => Undisturbed
        /\ Started' = Started
    BY <1>g, <2>1, <2>f
  <2>3. /\ state'[r] = "insert" /\ \A q \in Refreshes \ {r} : state'[q] = state[q]
        /\ UNCHANGED <<stored, access, stale, call, sentWith, retried, flight, promise, token>>
    BY <2>1 DEF SessionTypeOK, LeavesBrowser, browser, callVars, flightVars
  <2>4. Calm'
    <3>1. InProgress' = InProgress /\ r \in InProgress
      BY <2>1, <2>3 DEF InProgress
    <3>2. \A q \in InProgress : state'[q] = "yes" /\ q \in live => q \in live'
      BY <2>1, <2>3 DEF PairsAreIssued, InProgress, Started
    <3>3. QED
      BY <2>1, <2>2, <2>3, <3>1, <3>2 DEF Calm
  <2>5. OneHeir'
    <3>1. Heirs' \subseteq Heirs
      BY <2>1, <2>3 DEF Heirs
    <3>2. QED
      BY <2>2, <2>3, <3>1 DEF OneHeir
  <2>6. QED
    BY <2>2, <2>4, <2>5
<1>11. ASSUME NEW r \in Refreshes, Issue(r) PROVE Core'
  <2>1. /\ state[r] = "insert" /\ state' = [state EXCEPT ![r] = "yes"]
        /\ live' = live \cup {r} /\ mishaps' = mishaps /\ LeavesBrowser
    BY <1>11 DEF Issue, At
  <2>f. mishaps' \in mishaps .. MaxMishaps
    BY <2>1 DEF SessionTypeOK
  <2>2. /\ SessionTypeOK' /\ WaitersHaveAFlight' /\ PairsAreIssued' /\ SpentOrAwaited'
        /\ OneRotationPerToken'
        /\ Undisturbed' => Undisturbed
        /\ Started' = Started
    BY <1>g, <2>1, <2>f
  <2>3. /\ state'[r] = "yes" /\ \A q \in Refreshes \ {r} : state'[q] = state[q]
        /\ UNCHANGED <<stored, access, stale, call, sentWith, retried, flight, promise, token>>
    BY <2>1 DEF SessionTypeOK, LeavesBrowser, browser, callVars, flightVars
  <2>4. Calm'
    <3>1. InProgress' = InProgress /\ r \in InProgress
      BY <2>1, <2>3 DEF InProgress
    <3>2. QED
      BY <2>1, <2>2, <2>3, <3>1 DEF Calm
  <2>5. OneHeir'
    <3>1. Heirs' \subseteq Heirs
      BY <2>1, <2>3 DEF Heirs
    <3>2. QED
      BY <2>2, <2>3, <3>1 DEF OneHeir
  <2>6. QED
    BY <2>2, <2>4, <2>5
<1>12. ASSUME NEW r \in Refreshes, Throw(r) PROVE Core'
  <2>1. /\ state[r] \in Queries /\ state' = [state EXCEPT ![r] = "no"]
        /\ live' = live /\ mishaps < MaxMishaps /\ mishaps' = mishaps + 1 /\ LeavesBrowser
    BY <1>12 DEF Throw
  <2>2. mishaps' \in mishaps .. MaxMishaps /\ mishaps' # 0
    BY <2>1 DEF SessionTypeOK
  <2>3. /\ SessionTypeOK' /\ WaitersHaveAFlight' /\ PairsAreIssued' /\ SpentOrAwaited'
        /\ OneRotationPerToken'
        /\ Started' = Started
    BY <1>g, <2>1, <2>2
  <2>4. call' = call /\ retried' = retried /\ token' = token
    BY <2>1 DEF LeavesBrowser, callVars
  <2>5. Calm'
    BY <2>2, <2>4 DEF Calm, Undisturbed
  <2>6. OneHeir'
    <3> SUFFICES ASSUME \A p, q \in Started : p # q => token[p] # token[q]
                 PROVE  \A h, k \in Heirs' : h = k
      BY <2>3, <2>4 DEF OneHeir
    <3>1. \A h, k \in Heirs : h = k
      BY DEF OneHeir
    <3>2. /\ state'[r] = "no" /\ \A q \in Refreshes \ {r} : state'[q] = state[q]
      BY <2>1 DEF SessionTypeOK
    <3>3. CASE state[r] = "revoke"
      <4>1. r \in Heirs
        BY <3>3 DEF Heirs
      <4>2. r \notin Heirs' /\ Heirs' \subseteq Heirs \cup {token[r]}
        BY <2>1, <2>4, <3>2, <3>3 DEF Heirs, PairsAreIssued
      <4>3. QED
        BY <3>1, <4>1, <4>2
    <3>4. CASE state[r] # "revoke"
      <4>1. Heirs' \subseteq Heirs
        BY <2>1, <2>4, <3>2, <3>4 DEF Heirs
      <4>2. QED
        BY <3>1, <4>1
    <3>5. QED
      BY <3>3, <3>4
  <2>7. QED
    BY <2>3, <2>5, <2>6
<1>13. CASE UNCHANGED sessionVars
  BY <1>13
  DEF sessionVars, browser, callVars, flightVars, server, SessionTypeOK, WaitersHaveAFlight, PairsAreIssued,
      SpentOrAwaited, OneRotationPerToken, Calm, OneHeir, Heirs, Started, InProgress,
      Undisturbed, TabsCollided
<1>14. QED
  BY <1>1, <1>2, <1>3, <1>4, <1>5, <1>6, <1>7, <1>8, <1>9, <1>10, <1>11, <1>12, <1>13
  DEF SessionNext, Progress, Settle, Serve

\* Nothing in flight, nothing in progress: the stored token is the valid one.
LEMMA CoreSuffices == Core => SessionInv
<1> SUFFICES ASSUME Core PROVE SessionInv
  OBVIOUS
<1>1. ASSUME Undisturbed, \A t \in Tabs : ~Landing(t) PROVE stored \in live
  <2>1. \A r \in Started : state[r] = "done"
    BY <1>1, Names DEF Core, SpentOrAwaited, PairsAreIssued, Undisturbed, Landing, Started
  <2>2. InProgress = {}
    BY <2>1 DEF InProgress, Started
  <2>3. QED
    BY <1>1, <2>2 DEF Core, Calm
<1>2. QED
  BY <1>1 DEF Core, SessionInv, StoredIsLive

\* The inductive invariant, type correctness included, holds for any number of
\* tabs, calls, requests to refresh and faults (api.ts and auth.service.ts).
THEOREM SessionSafety == SessionSpec => []SessionInv
<1>1. SessionSpec => []Core
  BY InitCore, StepCore, PTL DEF SessionSpec
<1>2. QED
  BY <1>1, CoreSuffices, PTL

\* A tab presents no refresh token twice, unless an answer was lost: the single
\* flight of refreshOnce, from its first 401 to the timer that clears the promise.
THEOREM RotatesOnce == SessionSpec => []OneRotationPerToken
<1>1. SessionInv => OneRotationPerToken
  BY DEF SessionInv
<1>2. QED
  BY <1>1, SessionSafety, PTL

\* Reuse detection never logs out a user whose tabs did not collide and for whom
\* nothing failed, and every call of api() gets through.
THEOREM KeepsTheSession == SessionSpec => []NoLogoutUndisturbed
<1>1. SessionInv => NoLogoutUndisturbed
  BY DEF SessionInv, Calm, NoLogoutUndisturbed
<1>2. QED
  BY <1>1, SessionSafety, PTL

\* Whenever no refresh is in flight, the token in localStorage is one the gateway
\* takes.
THEOREM StoredTokenWorks == SessionSpec => []StoredIsLive
<1>1. SessionInv => StoredIsLive
  BY DEF SessionInv
<1>2. QED
  BY <1>1, SessionSafety, PTL

\* Rotation leaves at most one token of the family valid, whatever fails between
\* the revocation and the INSERT, as long as none was presented twice.
THEOREM OneTokenIsLive == SessionSpec => []OneLiveToken
<1>1. SessionInv => OneLiveToken
  <2> SUFFICES ASSUME SessionInv, \A q, r \in Started : q # r => token[q] # token[r]
               PROVE  Cardinality(live) <= 1
    BY DEF OneLiveToken
  <2>1. \A h, k \in Heirs : h = k
    BY DEF SessionInv, OneHeir
  <2>2. \A h, k \in live : h = k
    <3> SUFFICES ASSUME NEW h \in live, NEW k \in live, h # k PROVE FALSE
      OBVIOUS
    <3>1. \A r \in Refreshes : state[r] = "revoke" => r \notin live
      BY DEF SessionInv, PairsAreIssued
    <3>2. \A r \in Refreshes : state[r] = "revoke" => r \in Heirs
      BY DEF Heirs
    <3>3. \A j \in live : j \in Heirs \/ \E r \in Refreshes : state[r] = "revoke" /\ token[r] = j
      BY DEF Heirs
    <3>4. QED
      BY <2>1, <3>1, <3>2, <3>3
  <2>3. CASE live = {}
    BY <2>3, FS_EmptySet
  <2>4. CASE live # {}
    <3>1. PICK h \in live : live = {h}
      BY <2>2, <2>4
    <3>2. Cardinality({h}) = 1
      BY FS_Singleton
    <3>3. QED
      BY <3>1, <3>2
  <2>5. QED
    BY <2>3, <2>4
<1>2. QED
  BY <1>1, SessionSafety, PTL
================================================================================
