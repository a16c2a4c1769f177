---------------------------- MODULE Lockout_proof ----------------------------
(***************************************************************************)
(* Proofs about Lockout for any number of requests and emails, any         *)
(* threshold, window, lock period and retention, any number of requests in *)
(* flight, and with or without faults.                                     *)
(*                                                                         *)
(* The invariants TLC checks are not inductive by themselves: the rest of  *)
(* the argument is in the four conjuncts below, which say what the fields  *)
(* of a request mean at each point of its handler.                         *)
(***************************************************************************)
EXTENDS Lockout, FiniteSetTheorems, TLAPS

(* No instant that was recorded lies ahead of the clock. *)
PastIsPast ==
  \A r \in Requests : failedAt[r] <= now /\ admittedAt[r] <= now

(* A request has a failure on record from its insert on, and the rows of   *)
(* login_attempts are of requests that have one.                           *)
Unrecorded == {"idle", "verify", "insert"}

FailureIsRecorded ==
  /\ \A r \in Requests : pc[r] \in Unrecorded => failedAt[r] = Null
  /\ \A r \in Requests : pc[r] \in {"count", "upsert"} => failedAt[r] # Null
  /\ \A r \in loginAttempts : failedAt[r] # Null

(* Only requests that were answered 200 or 401 are audited, and no request *)
(* is answered again after that.                                           *)
Answered(r) == pc[r] \notin {"idle", "verify"} /\ status[r] \in {200, 401}

AuditIsFinal ==
  /\ \A r \in auditing : Answered(r)
  /\ \A row \in auditLog : Answered(row.request)

(* A lock that a request has decided on, and not written yet, is earned.   *)
(* It is stated of any emails m and times f, for this state and the next.  *)
CountedBy(m, f, r, e, until) ==
  {q \in Requests : /\ m[q] = e
                    /\ f[q] # Null
                    /\ f[r] - Window <= f[q] /\ f[q] <= until - LockoutPeriod}

EarnedGiven(m, f, r, e, until) ==
  /\ m[r] = e
  /\ f[r] # Null
  /\ Cardinality(CountedBy(m, f, r, e, until)) >= MaxAttempts

Earned(r, e, until) == EarnedGiven(email, failedAt, r, e, until)

DecisionIsEarned ==
  \A r \in Requests :
    pc[r] = "upsert" /\ lockUntil[r] # Null => Earned(r, email[r], lockUntil[r])

IInv ==
  /\ TypeOK
  /\ PastIsPast
  /\ FailureIsRecorded
  /\ AuditIsFinal
  /\ DecisionIsEarned
  /\ LockIsEarned
  /\ WindowSurvivesPurge
  /\ OnlyStragglersUnderLock
  /\ AuditMatchesReply

-----------------------------------------------------------------------------
(* What a step may change, action by action, is all the proofs need of it. *)
USE DEF rows, locals, history, Handle

(* Counting the failures of an email yields a number, which grows with the *)
(* set counted.                                                            *)
LEMMA FiniteCount ==
  ASSUME NEW S \in SUBSET Requests
  PROVE  IsFiniteSet(S) /\ Cardinality(S) \in Nat
BY LockoutAssumption, FS_Subset, FS_CardinalityType

LEMMA CountGrows ==
  ASSUME NEW S \in SUBSET Requests, NEW T \in SUBSET Requests, S \subseteq T
  PROVE  Cardinality(S) <= Cardinality(T)
BY FiniteCount, FS_Subset

(* Every reachable state is well typed: in particular no field of          *)
(* LockoutService ever holds a negative count or a time before the epoch.  *)
LEMMA InitTyped == Init => TypeOK
BY LockoutAssumption DEF Init, TypeOK, ClearRow, Times, Null, Working

LEMMA StepTyped == TypeOK /\ [Next]_vars => TypeOK'
<1> SUFFICES ASSUME TypeOK, [Next]_vars PROVE TypeOK'
  OBVIOUS
<1> USE LockoutAssumption DEF TypeOK, Times, Null, Working
<1>1. ASSUME NEW r \in Requests, Refuse(r) \/ CheckFails(r) PROVE TypeOK'
  <2>1. AnswerLocked(r)
    BY <1>1 DEF Refuse, CheckFails
  <2> QED
    BY <2>1 DEF AnswerLocked, Arrives
<1>2. ASSUME NEW r \in Requests, Admit(r) PROVE TypeOK'
  BY <1>2 DEF Admit, GoVerify, Arrives
<1>3. ASSUME NEW r \in Requests, Verify(r) PROVE TypeOK'
  BY <1>3 DEF Verify, AfterReply
<1>4. ASSUME NEW r \in Requests, RecordSuccess(r) PROVE TypeOK'
  BY <1>4 DEF RecordSuccess, ClearRow
<1>5. ASSUME NEW r \in Requests, InsertAttempt(r) PROVE TypeOK'
  BY <1>5 DEF InsertAttempt
<1>6. ASSUME NEW r \in Requests, CountRecent(r) PROVE TypeOK'
  <2>1. Cardinality(RecentFailures(r)) \in Nat
    BY FiniteCount DEF RecentFailures
  <2> QED
    BY <1>6, <2>1 DEF CountRecent
<1>7. ASSUME NEW r \in Requests, UpsertLockout(r) PROVE TypeOK'
  <2>1. accountLockout' \in [Emails -> [failedAttempts : Nat, lockedUntil : Nat]]
    BY <1>7 DEF UpsertLockout
  <2>2. /\ alert' \in [Requests -> {"none", "pending", "sent", "lost"}]
        /\ lockedAt' \in [Emails -> Nat]
    <3>1. CASE lockUntil[r] # Null
      <4>1. /\ alert' = [alert EXCEPT ![r] = "pending"]
            /\ lockedAt' = [lockedAt EXCEPT ![email[r]] = now]
        BY <1>7, <3>1 DEF UpsertLockout
      <4> QED
        BY <4>1
    <3>2. CASE lockUntil[r] = Null
      <4>1. alert' = alert /\ lockedAt' = lockedAt
        BY <1>7, <3>2 DEF UpsertLockout
      <4> QED
        BY <4>1
    <3> QED
      BY <3>1, <3>2
  <2>3. pc' \in [Requests -> Working \cup {"idle", "done"}]
    BY <1>7 DEF UpsertLockout
  <2> QED
    BY <1>7, <2>1, <2>2, <2>3 DEF UpsertLockout
<1>8. ASSUME NEW r \in Requests, SendAlert(r) PROVE TypeOK'
  BY <1>8 DEF SendAlert
<1>9. ASSUME NEW r \in Requests, WriteAudit(r) PROVE TypeOK'
  BY <1>9 DEF WriteAudit, AuditActionOf, AuditAction
<1>10. ASSUME NEW r \in Requests, AbortHandler(r) \/ AbortAudit(r) PROVE TypeOK'
  BY <1>10 DEF AbortHandler, AbortAudit
<1>11. CASE PurgeOldLoginAttempts
  BY <1>11 DEF PurgeOldLoginAttempts
<1>12. CASE Tick
  BY <1>12 DEF Tick
<1>13. CASE UNCHANGED vars
  BY <1>13 DEF vars
<1> QED
  BY <1>1, <1>2, <1>3, <1>4, <1>5, <1>6, <1>7, <1>8, <1>9, <1>10, <1>11,
     <1>12, <1>13 DEF Next

(* Typing of the whole specification. *)
THEOREM TypeCorrect == Spec => []TypeOK
<1>1. Init => TypeOK
  BY InitTyped
<1>2. TypeOK /\ [Next]_vars => TypeOK'
  BY StepTyped
<1> QED
  BY <1>1, <1>2, PTL DEF Spec

-----------------------------------------------------------------------------
(* The clock only moves forward, a request keeps its email, and its row in *)
(* login_attempts is dated when the row is inserted and never again.       *)
LEMMA Frame ==
  TypeOK /\ FailureIsRecorded /\ [Next]_vars =>
    /\ now <= now'
    /\ email' = email
    /\ \A q \in Requests : failedAt[q] # Null => failedAt'[q] = failedAt[q]
<1> SUFFICES ASSUME TypeOK, FailureIsRecorded, [Next]_vars
             PROVE  /\ now <= now'
                    /\ email' = email
                    /\ \A q \in Requests :
                         failedAt[q] # Null => failedAt'[q] = failedAt[q]
  OBVIOUS
<1> USE DEF TypeOK, Times
<1>1. ASSUME NEW r \in Requests, InsertAttempt(r)
      PROVE  /\ now <= now'
             /\ email' = email
             /\ \A q \in Requests : failedAt[q] # Null => failedAt'[q] = failedAt[q]
  BY <1>1 DEF InsertAttempt, FailureIsRecorded, Unrecorded
<1>2. ASSUME NEW r \in Requests, Handle(r), ~InsertAttempt(r)
      PROVE  now' = now /\ email' = email /\ failedAt' = failedAt
  BY <1>2 DEF Refuse, CheckFails, AnswerLocked, Admit, GoVerify, Verify,
     RecordSuccess, CountRecent, UpsertLockout, SendAlert, WriteAudit,
     AbortHandler, AbortAudit
<1>3. CASE PurgeOldLoginAttempts \/ Tick \/ UNCHANGED vars
  BY <1>3 DEF PurgeOldLoginAttempts, Tick, vars
<1> QED
  BY <1>1, <1>2, <1>3 DEF Next

(* Recorded instants stay in the past. *)
LEMMA StepPast == TypeOK /\ PastIsPast /\ [Next]_vars => PastIsPast'
<1> SUFFICES ASSUME TypeOK, PastIsPast, [Next]_vars PROVE PastIsPast'
  OBVIOUS
<1> USE DEF TypeOK, Times, Null, PastIsPast
<1>1. ASSUME NEW r \in Requests, InsertAttempt(r) PROVE PastIsPast'
  BY <1>1 DEF InsertAttempt
<1>2. ASSUME NEW r \in Requests, Admit(r) PROVE PastIsPast'
  BY <1>2 DEF Admit, GoVerify
<1>3. ASSUME NEW r \in Requests, Handle(r), ~InsertAttempt(r), ~Admit(r)
      PROVE  now' = now /\ failedAt' = failedAt /\ admittedAt' = admittedAt
  BY <1>3 DEF Refuse, CheckFails, AnswerLocked, Verify, RecordSuccess,
     CountRecent, UpsertLockout, SendAlert, WriteAudit, AbortHandler, AbortAudit
<1>4. CASE PurgeOldLoginAttempts \/ Tick \/ UNCHANGED vars
  BY <1>4 DEF PurgeOldLoginAttempts, Tick, vars
<1> QED
  BY <1>1, <1>2, <1>3, <1>4 DEF Next

(* A handler passes its insert before its count. *)
LEMMA StepRecorded ==
  TypeOK /\ FailureIsRecorded /\ [Next]_vars => FailureIsRecorded'
<1> SUFFICES ASSUME TypeOK, FailureIsRecorded, [Next]_vars
             PROVE  FailureIsRecorded'
  OBVIOUS
<1> USE DEF TypeOK, Times, FailureIsRecorded, Unrecorded
<1>1. ASSUME NEW r \in Requests, InsertAttempt(r) PROVE FailureIsRecorded'
  BY <1>1 DEF InsertAttempt
<1>2. ASSUME NEW r \in Requests, Refuse(r) \/ CheckFails(r) \/ Admit(r)
      PROVE  FailureIsRecorded'
  BY <1>2 DEF Refuse, CheckFails, AnswerLocked, Admit, GoVerify, Arrives
<1>3. ASSUME NEW r \in Requests, Verify(r)
      PROVE  FailureIsRecorded'
  <2>1. \A s : AfterReply(s) \in {"reset", "insert", "done"}
    BY Zenon DEF AfterReply
  <2> QED
    BY <1>3, <2>1 DEF Verify
<1>4. ASSUME NEW r \in Requests,
             RecordSuccess(r) \/ CountRecent(r) \/ UpsertLockout(r) \/ AbortHandler(r)
      PROVE  FailureIsRecorded'
  BY <1>4 DEF RecordSuccess, CountRecent, UpsertLockout, AbortHandler
<1>5. ASSUME NEW r \in Requests, SendAlert(r) \/ WriteAudit(r) \/ AbortAudit(r)
      PROVE  FailureIsRecorded'
  BY <1>5 DEF SendAlert, WriteAudit, AbortAudit
<1>6. CASE PurgeOldLoginAttempts
  BY <1>6 DEF PurgeOldLoginAttempts
<1>7. CASE Tick \/ UNCHANGED vars
  BY <1>7 DEF Tick, vars
<1> QED
  BY <1>1, <1>2, <1>3, <1>4, <1>5, <1>6, <1>7 DEF Next

(* Audit rows are written for answers already given, and agree with them.  *)
LEMMA StepAudit ==
  TypeOK /\ AuditIsFinal /\ AuditMatchesReply /\ [Next]_vars =>
    AuditIsFinal' /\ AuditMatchesReply'
<1> SUFFICES ASSUME TypeOK, AuditIsFinal, AuditMatchesReply, [Next]_vars
             PROVE  AuditIsFinal' /\ AuditMatchesReply'
  OBVIOUS
<1> USE DEF TypeOK, AuditIsFinal, AuditMatchesReply, Answered
<1>1. ASSUME NEW r \in Requests, Refuse(r) \/ CheckFails(r)
      PROVE  AuditIsFinal' /\ AuditMatchesReply'
  <2>1. AnswerLocked(r)
    BY <1>1 DEF Refuse, CheckFails
  <2> QED
    BY <2>1 DEF AnswerLocked, Arrives
<1>2. ASSUME NEW r \in Requests, Admit(r)
      PROVE  AuditIsFinal' /\ AuditMatchesReply'
  BY <1>2 DEF Admit, GoVerify, Arrives
<1>3. ASSUME NEW r \in Requests, Verify(r)
      PROVE  AuditIsFinal' /\ AuditMatchesReply'
  <2>1. PICK s \in {200, 401, 403} :
          /\ status' = [status EXCEPT ![r] = s]
          /\ pc' = [pc EXCEPT ![r] = AfterReply(s)]
          /\ auditing' = IF AfterReply(s) = "done" THEN auditing
                                                   ELSE auditing \cup {r}
    BY <1>3, Zenon DEF Verify
  <2>2. AfterReply(s) = "done" \/ s \in {200, 401}
    BY Zenon, <2>1 DEF AfterReply
  <2>3. AfterReply(s) \in {"reset", "insert", "done"}
    BY Zenon DEF AfterReply
  <2>4. pc[r] = "verify" /\ auditLog' = auditLog
    BY <1>3 DEF Verify
  <2> QED
    BY <2>1, <2>2, <2>3, <2>4
<1>4. ASSUME NEW r \in Requests, WriteAudit(r)
      PROVE  AuditIsFinal' /\ AuditMatchesReply'
  BY <1>4 DEF WriteAudit, AuditActionOf
<1>5. ASSUME NEW r \in Requests,
             \/ RecordSuccess(r) \/ InsertAttempt(r) \/ CountRecent(r)
             \/ UpsertLockout(r) \/ AbortHandler(r)
      PROVE  AuditIsFinal' /\ AuditMatchesReply'
  <2>1. CASE pc[r] \in {"idle", "verify"}
    BY <1>5, <2>1 DEF RecordSuccess, InsertAttempt, CountRecent,
       UpsertLockout, AbortHandler
  <2>2. CASE pc[r] \notin {"idle", "verify"}
    BY <1>5, <2>2 DEF RecordSuccess, InsertAttempt, CountRecent,
       UpsertLockout, AbortHandler
  <2> QED
    BY <2>1, <2>2
<1>6. ASSUME NEW r \in Requests, SendAlert(r) \/ AbortAudit(r)
      PROVE  AuditIsFinal' /\ AuditMatchesReply'
  BY <1>6 DEF SendAlert, AbortAudit
<1>7. CASE PurgeOldLoginAttempts \/ Tick \/ UNCHANGED vars
  BY <1>7 DEF PurgeOldLoginAttempts, Tick, vars
<1> QED
  BY <1>1, <1>2, <1>3, <1>4, <1>5, <1>6, <1>7 DEF Next

(* The rolling window keeps its rows: the purge reaches back further.      *)
LEMMA StepWindow ==
  TypeOK /\ FailureIsRecorded /\ WindowSurvivesPurge /\ [Next]_vars =>
    WindowSurvivesPurge'
<1> SUFFICES ASSUME TypeOK, FailureIsRecorded, WindowSurvivesPurge, [Next]_vars
             PROVE  WindowSurvivesPurge'
  OBVIOUS
<1> USE LockoutAssumption DEF TypeOK, Times, Null, WindowSurvivesPurge
<1>1. ASSUME NEW r \in Requests, InsertAttempt(r) PROVE WindowSurvivesPurge'
  BY <1>1 DEF InsertAttempt
<1>2. ASSUME NEW r \in Requests, Handle(r), ~InsertAttempt(r)
      PROVE  now' = now /\ failedAt' = failedAt /\ loginAttempts' = loginAttempts
  BY <1>2 DEF Refuse, CheckFails, AnswerLocked, Admit, GoVerify, Verify,
     RecordSuccess, CountRecent, UpsertLockout, SendAlert, WriteAudit,
     AbortHandler, AbortAudit
<1>3. CASE PurgeOldLoginAttempts
  BY <1>3 DEF PurgeOldLoginAttempts, Expired
<1>4. CASE Tick
  BY <1>4 DEF Tick
<1>5. CASE UNCHANGED vars
  BY <1>5 DEF vars
<1> QED
  BY <1>1, <1>2, <1>3, <1>4, <1>5 DEF Next

(* Nobody arrives under a lock, and a lock written meanwhile is younger    *)
(* than the requests it finds at work.                                     *)
LEMMA StepStragglers ==
  TypeOK /\ PastIsPast /\ OnlyStragglersUnderLock /\ [Next]_vars =>
    OnlyStragglersUnderLock'
<1> SUFFICES ASSUME TypeOK, PastIsPast, OnlyStragglersUnderLock, [Next]_vars
             PROVE  OnlyStragglersUnderLock'
  OBVIOUS
<1> USE DEF TypeOK, Times, Null, OnlyStragglersUnderLock, Locked
<1>1. ASSUME NEW r \in Requests, Refuse(r) \/ CheckFails(r)
      PROVE  OnlyStragglersUnderLock'
  BY <1>1 DEF Refuse, CheckFails, AnswerLocked, Arrives, Working
<1>2. ASSUME NEW r \in Requests, Admit(r) PROVE OnlyStragglersUnderLock'
  BY <1>2 DEF Admit, GoVerify, Arrives, Working
<1>3. ASSUME NEW r \in Requests,
             \/ Verify(r) \/ InsertAttempt(r) \/ CountRecent(r)
             \/ AbortHandler(r)
      PROVE  /\ UNCHANGED <<now, email, accountLockout, admittedAt, lockedAt>>
             /\ \A q \in Requests : pc'[q] \in Working => pc[q] \in Working
  BY <1>3 DEF Verify, InsertAttempt, CountRecent, AbortHandler, Working
<1>4. ASSUME NEW r \in Requests, RecordSuccess(r)
      PROVE  OnlyStragglersUnderLock'
  BY <1>4 DEF RecordSuccess, ClearRow, Working
<1>5. ASSUME NEW r \in Requests, UpsertLockout(r)
      PROVE  OnlyStragglersUnderLock'
  BY <1>5 DEF UpsertLockout, PastIsPast, Working
<1>6. ASSUME NEW r \in Requests, SendAlert(r) \/ WriteAudit(r) \/ AbortAudit(r)
      PROVE  OnlyStragglersUnderLock'
  BY <1>6 DEF SendAlert, WriteAudit, AbortAudit
<1>7. CASE PurgeOldLoginAttempts \/ Tick \/ UNCHANGED vars
  BY <1>7 DEF PurgeOldLoginAttempts, Tick, vars
<1> QED
  BY <1>1, <1>2, <1>3, <1>4, <1>5, <1>6, <1>7 DEF Next

(* What a failure counts towards is only added to: whatever earns a lock   *)
(* in one state earns it in the next.                                      *)
LEMMA EarnedStays ==
  ASSUME TypeOK, FailureIsRecorded, [Next]_vars,
         NEW r \in Requests, NEW e, NEW until, Earned(r, e, until)
  PROVE  Earned(r, e, until)'
<1>1. /\ email' = email
      /\ \A q \in Requests : failedAt[q] # Null => failedAt'[q] = failedAt[q]
  BY Frame
<1>2. failedAt[r] # Null /\ failedAt'[r] = failedAt[r] /\ email[r] = e
  BY <1>1 DEF Earned, EarnedGiven
<1> DEFINE F == CountedBy(email, failedAt, r, e, until)
<1>3. F \in SUBSET Requests /\ F' \in SUBSET Requests
  BY DEF CountedBy
<1>4. F \subseteq F'
  BY <1>1, <1>2 DEF CountedBy
<1>5. Cardinality(F) <= Cardinality(F') /\ Cardinality(F) \in Nat
      /\ Cardinality(F') \in Nat
  BY <1>3, <1>4, CountGrows, FiniteCount
<1>6. Cardinality(F) >= MaxAttempts
  BY DEF Earned, EarnedGiven
<1>7. Cardinality(F') >= MaxAttempts
  BY <1>5, <1>6, LockoutAssumption
<1> QED
  BY <1>1, <1>2, <1>7 DEF Earned, EarnedGiven

LEMMA LockIsEarnedAs ==
  /\ LockIsEarned <=>
       \A e \in Emails : accountLockout[e].lockedUntil # Null =>
         \E r \in Requests : Earned(r, e, accountLockout[e].lockedUntil)
  /\ LockIsEarned' <=>
       \A e \in Emails : accountLockout'[e].lockedUntil # Null =>
         \E r \in Requests :
           EarnedGiven(email', failedAt', r, e, accountLockout'[e].lockedUntil)
BY DEF LockIsEarned, Earned, EarnedGiven, CountedBy, FailuresBetween,
   WindowStart

(* A decision to lock is made on failures that have all been recorded by   *)
(* then, and a lock is only ever written by a request that decided it.     *)
LEMMA StepEarned ==
  /\ TypeOK /\ PastIsPast /\ FailureIsRecorded
  /\ DecisionIsEarned /\ LockIsEarned
  /\ [Next]_vars
  => DecisionIsEarned' /\ LockIsEarned'
<1> SUFFICES ASSUME TypeOK, PastIsPast, FailureIsRecorded, DecisionIsEarned,
                    LockIsEarned, [Next]_vars
             PROVE  DecisionIsEarned' /\ LockIsEarned'
  OBVIOUS
<1> USE DEF TypeOK, Times, Null
<1> DEFINE Decided(q) == pc[q] = "upsert" /\ lockUntil[q] # Null
           Kept(q) == /\ Decided(q)' => Decided(q)
                      /\ email'[q] = email[q] /\ lockUntil'[q] = lockUntil[q]
<1>1. ASSUME NEW q \in Requests, Kept(q), Decided(q)'
      PROVE  Earned(q, email[q], lockUntil[q])'
  <2>1. Earned(q, email[q], lockUntil[q])
    BY <1>1 DEF DecisionIsEarned
  <2>2. \A e, until : Earned(q, e, until) => Earned(q, e, until)'
    BY EarnedStays
  <2>3. email'[q] = email[q] /\ lockUntil'[q] = lockUntil[q]
    BY <1>1
  <2> QED
    BY <2>1, <2>2, <2>3 DEF Earned
<1>2. ASSUME NEW e \in Emails, accountLockout'[e] = accountLockout[e],
             accountLockout[e].lockedUntil # Null
      PROVE  \E r \in Requests : Earned(r, e, accountLockout[e].lockedUntil)'
  <2>1. PICK r \in Requests : Earned(r, e, accountLockout[e].lockedUntil)
    BY <1>2, LockIsEarnedAs
  <2>2. \A y : Earned(r, e, y) => Earned(r, e, y)'
    BY EarnedStays
  <2> QED
    BY <1>2, <2>1, <2>2 DEF Earned
<1>3. ASSUME accountLockout' = accountLockout, \A q \in Requests : Kept(q)
      PROVE  DecisionIsEarned' /\ LockIsEarned'
  <2>1. DecisionIsEarned'
    BY <1>1, <1>3 DEF DecisionIsEarned
  <2>2. LockIsEarned'
    BY <1>2, <1>3, LockIsEarnedAs DEF Earned
  <2> QED
    BY <2>1, <2>2
<1>4. ASSUME NEW r \in Requests, CountRecent(r)
      PROVE  DecisionIsEarned' /\ LockIsEarned'
  <2>1. ASSUME Decided(r)'
        PROVE  Earned(r, email[r], lockUntil[r])'
    <3> DEFINE F == CountedBy(email, failedAt, r, email[r], lockUntil[r])
    <3>1. RecentFailures(r) \in SUBSET Requests /\ F' \in SUBSET Requests
      BY DEF RecentFailures, CountedBy
    <3>2. ShouldLock(Cardinality(RecentFailures(r)))
          /\ lockUntil'[r] = now + LockoutPeriod
      BY <1>4, <2>1, LockoutAssumption DEF CountRecent
    <3>3. RecentFailures(r) \subseteq F'
      BY <1>4, <3>2, LockoutAssumption DEF CountRecent, RecentFailures,
         CountedBy, WindowStart, PastIsPast, FailureIsRecorded
    <3>4. Cardinality(F') >= MaxAttempts
      <4>1. Cardinality(RecentFailures(r)) <= Cardinality(F')
        BY <3>1, <3>3, CountGrows
      <4>2. Cardinality(RecentFailures(r)) \in Nat /\ Cardinality(F') \in Nat
        BY <3>1, FiniteCount
      <4> HIDE DEF F
      <4> QED
        BY <3>2, <4>1, <4>2, LockoutAssumption DEF ShouldLock
    <3>5. email'[r] = email[r] /\ failedAt'[r] = failedAt[r] /\ failedAt[r] # Null
      BY <1>4 DEF CountRecent, FailureIsRecorded
    <3> QED
      BY <3>4, <3>5 DEF Earned, EarnedGiven
  <2>2. \A q \in Requests \ {r} : Kept(q)
    BY <1>4 DEF CountRecent
  <2>3. DecisionIsEarned'
    BY <1>1, <2>1, <2>2 DEF DecisionIsEarned
  <2>4. accountLockout' = accountLockout
    BY <1>4 DEF CountRecent
  <2> QED
    BY <1>2, <2>3, <2>4, LockIsEarnedAs DEF Earned
<1>5. ASSUME NEW r \in Requests, UpsertLockout(r)
      PROVE  DecisionIsEarned' /\ LockIsEarned'
  <2>1. \A q \in Requests : Kept(q)
    BY <1>5 DEF UpsertLockout
  <2>2. DecisionIsEarned'
    BY <1>1, <2>1 DEF DecisionIsEarned
  <2>3. ASSUME NEW e \in Emails, accountLockout'[e].lockedUntil # Null
        PROVE  \E q \in Requests : Earned(q, e, accountLockout[e].lockedUntil)'
    <3>1. CASE e # email[r]
      <4>1. accountLockout'[e] = accountLockout[e]
        BY <1>5, <3>1 DEF UpsertLockout
      <4> QED
        BY <1>2, <2>3, <4>1
    <3>2. CASE e = email[r]
      <4>1. accountLockout'[e].lockedUntil = lockUntil[r] /\ pc[r] = "upsert"
        BY <1>5, <3>2 DEF UpsertLockout
      <4>2. Earned(r, e, lockUntil[r])
        BY <2>3, <3>2, <4>1 DEF DecisionIsEarned
      <4>3. \A y : Earned(r, e, y) => Earned(r, e, y)'
        BY EarnedStays
      <4> QED
        BY <4>1, <4>2, <4>3 DEF Earned
    <3> QED
      BY <3>1, <3>2
  <2>4. LockIsEarned'
    BY <2>3, LockIsEarnedAs DEF Earned
  <2> QED
    BY <2>2, <2>4
<1>6. ASSUME NEW r \in Requests, RecordSuccess(r)
      PROVE  DecisionIsEarned' /\ LockIsEarned'
  <2>1. \A q \in Requests : Kept(q)
    BY <1>6 DEF RecordSuccess
  <2>2. DecisionIsEarned'
    BY <1>1, <2>1 DEF DecisionIsEarned
  <2>3. \A e \in Emails : accountLockout'[e] \in {accountLockout[e], ClearRow}
    BY <1>6 DEF RecordSuccess
  <2>4. LockIsEarned'
    BY <1>2, <2>3, LockIsEarnedAs DEF Earned, ClearRow
  <2> QED
    BY <2>2, <2>4
<1>7. ASSUME NEW r \in Requests,
             \/ Refuse(r) \/ CheckFails(r) \/ Admit(r) \/ InsertAttempt(r)
             \/ SendAlert(r) \/ WriteAudit(r) \/ AbortHandler(r) \/ AbortAudit(r)
      PROVE  accountLockout' = accountLockout /\ \A q \in Requests : Kept(q)
  BY <1>7 DEF Refuse, CheckFails, AnswerLocked, Admit, GoVerify,
     InsertAttempt, SendAlert, WriteAudit, AbortHandler, AbortAudit
<1>8. ASSUME NEW r \in Requests, Verify(r)
      PROVE  accountLockout' = accountLockout /\ \A q \in Requests : Kept(q)
  <2>1. \A s : AfterReply(s) # "upsert"
    BY Zenon DEF AfterReply
  <2> QED
    BY <1>8, <2>1 DEF Verify
<1>9. CASE PurgeOldLoginAttempts \/ Tick \/ UNCHANGED vars
  <2>1. accountLockout' = accountLockout /\ \A q \in Requests : Kept(q)
    BY <1>9 DEF PurgeOldLoginAttempts, Tick, vars
  <2> QED
    BY <1>3, <2>1
<1> HIDE DEF Kept
<1> QED
  BY <1>3, <1>4, <1>5, <1>6, <1>7, <1>8, <1>9 DEF Next

-----------------------------------------------------------------------------
(* The inductive invariant: the properties of the README together with the *)
(* four conjuncts above.                                                   *)
LEMMA InitInv == Init => IInv
<1> SUFFICES ASSUME Init PROVE IInv
  OBVIOUS
<1>1. TypeOK
  BY InitTyped
<1>2. PastIsPast /\ FailureIsRecorded /\ AuditIsFinal /\ DecisionIsEarned
  BY <1>1 DEF Init, PastIsPast, FailureIsRecorded, AuditIsFinal,
     DecisionIsEarned, Null, TypeOK, Times
<1>3. LockIsEarned /\ WindowSurvivesPurge /\ OnlyStragglersUnderLock
      /\ AuditMatchesReply
  BY DEF Init, LockIsEarned, ClearRow, WindowSurvivesPurge,
     OnlyStragglersUnderLock, Working, AuditMatchesReply
<1> QED
  BY <1>1, <1>2, <1>3 DEF IInv

LEMMA StepInv == IInv /\ [Next]_vars => IInv'
BY StepTyped, StepPast, StepRecorded, StepAudit, StepEarned, StepWindow,
   StepStragglers DEF IInv

LEMMA Invariance == Spec => []IInv
BY InitInv, StepInv, PTL DEF Spec

(* No lock out of thin air: the threshold of failures stands behind every  *)
(* lock in account_lockouts, for any interleaving of requests.             *)
THEOREM LocksAreEarned == Spec => []LockIsEarned
<1>1. IInv => LockIsEarned
  BY DEF IInv
<1> QED
  BY <1>1, Invariance, PTL

(* The weekly purge never removes an attempt the rolling window counts.    *)
THEOREM WindowIsComplete == Spec => []WindowSurvivesPurge
<1>1. IInv => WindowSurvivesPurge
  BY DEF IInv
<1> QED
  BY <1>1, Invariance, PTL

(* Whoever is at work on a locked account was admitted before the lock.    *)
THEOREM StragglersOnly == Spec => []OnlyStragglersUnderLock
<1>1. IInv => OnlyStragglersUnderLock
  BY DEF IInv
<1> QED
  BY <1>1, Invariance, PTL

(* The audit trail never contradicts the answer the client was given.      *)
THEOREM AuditIsTrue == Spec => []AuditMatchesReply
<1>1. IInv => AuditMatchesReply
  BY DEF IInv
<1> QED
  BY <1>1, Invariance, PTL

-----------------------------------------------------------------------------
(* A request is answered once, and what comes after depends on the answer. *)
Progress(r) ==
  /\ pc[r] \in {"idle", "verify"} => status[r] = 0
  /\ pc[r] = "reset" => status[r] = 200

CountKept(r) ==
  pc[r] \in Working \/ <<r, "record">> \in broken \/ failedAt[r] # Null

AuditKept(r) ==
  \/ r \in auditing
  \/ <<r, "audit">> \in broken
  \/ [request |-> r, action |-> "sign_in_failed"] \in auditLog

Kept(r) == CountKept(r) /\ AuditKept(r)

KeptInv == \A r \in Requests : Progress(r) /\ (status[r] = 401 => Kept(r))

LEMMA StepProgress ==
  ASSUME IInv, KeptInv, [Next]_vars, NEW q \in Requests
  PROVE  Progress(q)'
<1> USE DEF IInv, TypeOK, KeptInv, Progress
<1>1. ASSUME NEW r \in Requests, Refuse(r) \/ CheckFails(r) \/ Admit(r)
      PROVE  Progress(q)'
  BY <1>1 DEF Refuse, CheckFails, AnswerLocked, Admit, GoVerify, Arrives
<1>2. ASSUME NEW r \in Requests, Verify(r)
      PROVE  Progress(q)'
  BY <1>2 DEF Verify, AfterReply
<1>3. ASSUME NEW r \in Requests,
             RecordSuccess(r) \/ InsertAttempt(r) \/ CountRecent(r) \/ UpsertLockout(r)
      PROVE  Progress(q)'
  BY <1>3 DEF RecordSuccess, InsertAttempt, CountRecent, UpsertLockout
<1>4. ASSUME NEW r \in Requests,
             SendAlert(r) \/ WriteAudit(r) \/ AbortHandler(r) \/ AbortAudit(r)
      PROVE  Progress(q)'
  BY <1>4 DEF SendAlert, WriteAudit, AbortHandler, AbortAudit
<1>5. CASE PurgeOldLoginAttempts \/ Tick \/ UNCHANGED vars
  BY <1>5 DEF PurgeOldLoginAttempts, Tick, vars
<1> QED
  BY <1>1, <1>2, <1>3, <1>4, <1>5 DEF Next

(* Both branches of a rejected sign-in, from the answer on.                *)
LEMMA StepKept ==
  ASSUME IInv, KeptInv, [Next]_vars, NEW q \in Requests
  PROVE  status'[q] = 401 => Kept(q)'
<1> USE DEF IInv, TypeOK
<1>1. ASSUME NEW r \in Requests, Verify(r)
      PROVE  status'[q] = 401 => Kept(q)'
  <2>1. CASE q # r
    <3>1. status'[q] = status[q] /\ pc'[q] = pc[q] /\ auditing \subseteq auditing'
          /\ UNCHANGED <<broken, failedAt, auditLog>>
      BY <1>1, <2>1 DEF Verify
    <3>2. status[q] = 401 => CountKept(q) /\ AuditKept(q)
      BY DEF KeptInv, Kept
    <3> QED
      BY <3>1, <3>2 DEF Kept, CountKept, AuditKept
  <2>2. CASE q = r
    <3>1. status'[r] = 401 => pc'[r] = "insert" /\ r \in auditing'
      BY <1>1 DEF Verify, AfterReply
    <3> QED
      BY <2>2, <3>1 DEF Kept, CountKept, AuditKept, Working
  <2> QED
    BY <2>1, <2>2
<1>2. ASSUME NEW r \in Requests, Handle(r), ~Verify(r)
      PROVE  status'[q] = 401 => status[q] = 401
  BY <1>2 DEF Refuse, CheckFails, AnswerLocked, Admit, GoVerify, RecordSuccess, InsertAttempt,
              CountRecent, UpsertLockout, SendAlert, WriteAudit, AbortHandler, AbortAudit
<1>3. ASSUME NEW r \in Requests, Handle(r), ~Verify(r), status'[q] = 401
      PROVE  CountKept(q)'
  <2>1. status[q] = 401 /\ CountKept(q) /\ Progress(q)
    BY <1>2, <1>3 DEF KeptInv, Kept
  <2>2. CASE Refuse(r) \/ CheckFails(r) \/ Admit(r)
    BY <1>3, <2>1, <2>2 DEF Refuse, CheckFails, AnswerLocked, Admit, GoVerify, Arrives,
                            CountKept, Progress, Working
  <2>3. CASE RecordSuccess(r)
    BY <2>1, <2>3 DEF RecordSuccess, CountKept, Progress
  <2>4. CASE InsertAttempt(r)
    BY <2>1, <2>4 DEF InsertAttempt, CountKept, Working
  <2>5. CASE CountRecent(r)
    BY <2>1, <2>5 DEF CountRecent, CountKept, Working
  <2>6. CASE UpsertLockout(r)
    BY <2>1, <2>6 DEF UpsertLockout, CountKept, FailureIsRecorded
  <2>7. CASE SendAlert(r) \/ WriteAudit(r) \/ AbortAudit(r)
    BY <2>1, <2>7 DEF SendAlert, WriteAudit, AbortAudit, CountKept
  <2>8. CASE AbortHandler(r)
    BY <2>1, <2>8 DEF AbortHandler, CountKept
  <2> QED
    BY <1>3, <2>2, <2>3, <2>4, <2>5, <2>6, <2>7, <2>8
<1>4. ASSUME NEW r \in Requests, Handle(r), ~Verify(r), status'[q] = 401
      PROVE  AuditKept(q)'
  <2>1. status[q] = 401 /\ AuditKept(q)
    BY <1>2, <1>4 DEF KeptInv, Kept
  <2>2. CASE WriteAudit(r)
    BY <2>1, <2>2 DEF WriteAudit, AuditActionOf, AuditKept
  <2>3. CASE AbortAudit(r)
    BY <2>1, <2>3 DEF AbortAudit, AuditKept
  <2>4. CASE ~WriteAudit(r) /\ ~AbortAudit(r)
    <3>1. UNCHANGED <<auditing, auditLog>> /\ broken \subseteq broken'
      BY <1>4, <2>4 DEF Refuse, CheckFails, AnswerLocked, Admit, GoVerify, RecordSuccess,
           InsertAttempt, CountRecent, UpsertLockout, SendAlert, AbortHandler
    <3> QED
      BY <2>1, <3>1 DEF AuditKept
  <2> QED
    BY <2>2, <2>3, <2>4
<1>5. CASE PurgeOldLoginAttempts \/ Tick \/ UNCHANGED vars
  <2>1. UNCHANGED <<pc, status, failedAt, auditing, auditLog, broken>>
    BY <1>5 DEF PurgeOldLoginAttempts, Tick, vars
  <2> QED
    BY <2>1 DEF KeptInv, Kept, CountKept, AuditKept
<1> QED
  BY <1>1, <1>3, <1>4, <1>5 DEF Next, Kept

(* No rejected password slips through, however requests interleave and     *)
(* whatever fails: its failure counts while it is in any window, and it is *)
(* audited, unless that very branch is under way or was cut short.         *)
THEOREM RejectionsAreKept == Spec => []RejectionIsKept
<1>1. Init => KeptInv
  BY DEF Init, KeptInv, Progress
<1>2. IInv /\ KeptInv /\ [Next]_vars => KeptInv'
  BY StepKept, StepProgress DEF KeptInv
<1>3. IInv /\ KeptInv => RejectionIsKept
  <2> SUFFICES ASSUME IInv, KeptInv, NEW r \in Requests, status[r] = 401
               PROVE  /\ \/ pc[r] \in Working
                         \/ <<r, "record">> \in broken
                         \/ failedAt[r] # Null /\ (r \in loginAttempts
                                                  \/ failedAt[r] < now - Window)
                      /\ \/ r \in auditing
                         \/ <<r, "audit">> \in broken
                         \/ [request |-> r, action |-> "sign_in_failed"] \in auditLog
    BY DEF RejectionIsKept
  <2>1. failedAt[r] # Null => r \in loginAttempts \/ failedAt[r] < now - Window
    BY LockoutAssumption DEF IInv, TypeOK, Times, WindowSurvivesPurge
  <2> QED
    BY <2>1 DEF KeptInv, Kept, CountKept, AuditKept
<1> QED
  BY <1>1, <1>2, <1>3, Invariance, PTL DEF Spec

-----------------------------------------------------------------------------
(* A server that finishes one sign-in before it starts the next.  The      *)
(* request at work found its account unlocked, and nobody else can have    *)
(* locked it since.                                                        *)
OneAtATime == \A p, q \in InFlight : p = q

NoLockUnderWork ==
  \A r \in Requests : pc[r] \in Working => ~Locked(email[r])

LEMMA ArrivesAlone ==
  ASSUME MaxInFlight = 1, TypeOK, NEW r \in Requests, Arrives(r)
  PROVE  InFlight = {}
<1>1. InFlight \in SUBSET Requests
  BY DEF InFlight, TypeOK
<1>2. IsFiniteSet(InFlight) /\ Cardinality(InFlight) \in Nat
  BY <1>1, FiniteCount
<1>3. Cardinality(InFlight) = 0
  BY <1>2 DEF Arrives
<1> QED
  BY <1>2, <1>3, FS_EmptySet

LEMMA StepAlone ==
  ASSUME MaxInFlight = 1, TypeOK, OneAtATime, NoLockUnderWork, [Next]_vars
  PROVE  OneAtATime' /\ NoLockUnderWork'
<1> USE DEF TypeOK, Times, Null, Locked, NoLockUnderWork
<1>1. ASSUME NEW r \in Requests, Arrives(r) PROVE InFlight = {}
  BY <1>1, ArrivesAlone
<1>2. ASSUME NEW r \in Requests, Refuse(r) \/ CheckFails(r)
      PROVE  OneAtATime' /\ NoLockUnderWork'
  <2>1. pc' = [pc EXCEPT ![r] = "done"] /\ auditing' = auditing
    BY <1>2 DEF Refuse, CheckFails, AnswerLocked
  <2>2. InFlight' \subseteq InFlight
    BY <2>1 DEF InFlight, Working
  <2>3. UNCHANGED <<now, email, accountLockout>>
    BY <1>2 DEF Refuse, CheckFails, AnswerLocked
  <2> QED
    BY <2>1, <2>2, <2>3 DEF OneAtATime, Working
<1>3. ASSUME NEW r \in Requests, Admit(r)
      PROVE  OneAtATime' /\ NoLockUnderWork'
  <2>1. InFlight = {}
    BY <1>1, <1>3 DEF Admit, GoVerify
  <2>2. InFlight' \subseteq {r}
    BY <1>3, <2>1 DEF Admit, GoVerify, InFlight
  <2> QED
    BY <1>3, <2>2 DEF Admit, GoVerify, OneAtATime
<1>4. ASSUME NEW r \in Requests,
             \/ Verify(r) \/ InsertAttempt(r) \/ CountRecent(r)
             \/ AbortHandler(r)
      PROVE  OneAtATime' /\ NoLockUnderWork'
  <2>1. \A q \in Requests : pc'[q] \in Working => pc[q] \in Working
    BY <1>4 DEF Verify, InsertAttempt, CountRecent, AbortHandler, Working
  <2>2. auditing' \subseteq auditing \cup {r} /\ pc[r] \in Working
    BY <1>4 DEF Verify, InsertAttempt, CountRecent, AbortHandler, Working
  <2>3. InFlight' \subseteq InFlight
    BY <2>1, <2>2 DEF InFlight
  <2>4. UNCHANGED <<now, email, accountLockout>>
    BY <1>4 DEF Verify, InsertAttempt, CountRecent, AbortHandler
  <2> QED
    BY <2>1, <2>3, <2>4 DEF OneAtATime
<1>5. ASSUME NEW r \in Requests, RecordSuccess(r) \/ UpsertLockout(r)
      PROVE  OneAtATime' /\ NoLockUnderWork'
  <2>1. pc' = [pc EXCEPT ![r] = "done"] /\ auditing' = auditing
        /\ r \in InFlight
    BY <1>5 DEF RecordSuccess, UpsertLockout, InFlight, Working
  <2>2. InFlight' \subseteq InFlight
    BY <2>1 DEF InFlight, Working
  <2>3. \A q \in Requests : pc'[q] \notin Working
    BY <2>1 DEF OneAtATime, InFlight, Working
  <2> QED
    BY <2>2, <2>3 DEF OneAtATime
<1>6. ASSUME NEW r \in Requests, SendAlert(r) \/ WriteAudit(r) \/ AbortAudit(r)
      PROVE  OneAtATime' /\ NoLockUnderWork'
  <2>1. pc' = pc /\ auditing' \subseteq auditing
    BY <1>6 DEF SendAlert, WriteAudit, AbortAudit
  <2>2. UNCHANGED <<now, email, accountLockout>>
    BY <1>6 DEF SendAlert, WriteAudit, AbortAudit
  <2> QED
    BY <2>1, <2>2 DEF OneAtATime, InFlight
<1>7. CASE PurgeOldLoginAttempts \/ Tick \/ UNCHANGED vars
  BY <1>7 DEF PurgeOldLoginAttempts, Tick, vars, OneAtATime, InFlight
<1> QED
  BY <1>2, <1>3, <1>4, <1>5, <1>6, <1>7 DEF Next

(* Only the request at work writes account_lockouts, in the row of its own *)
(* email.                                                                  *)
LEMMA OnlyWorkersWrite ==
  ASSUME TypeOK, NoLockUnderWork, [Next]_vars, NEW e \in Emails, Locked(e)
  PROVE  accountLockout'[e] = accountLockout[e]
<1> USE DEF TypeOK, NoLockUnderWork
<1>1. ASSUME NEW r \in Requests, RecordSuccess(r) \/ UpsertLockout(r)
      PROVE  accountLockout'[e] = accountLockout[e]
  <2>1. pc[r] \in Working
    BY <1>1 DEF RecordSuccess, UpsertLockout, Working
  <2>2. email[r] # e
    BY <2>1
  <2> QED
    BY <1>1, <2>2 DEF RecordSuccess, UpsertLockout
<1>2. ASSUME NEW r \in Requests, Handle(r), ~RecordSuccess(r), ~UpsertLockout(r)
      PROVE  accountLockout' = accountLockout
  BY <1>2 DEF Refuse, CheckFails, AnswerLocked, Admit, GoVerify, Verify,
     InsertAttempt, CountRecent, SendAlert, WriteAudit, AbortHandler, AbortAudit
<1>3. CASE PurgeOldLoginAttempts \/ Tick \/ UNCHANGED vars
  BY <1>3 DEF PurgeOldLoginAttempts, Tick, vars
<1> QED
  BY <1>1, <1>2, <1>3 DEF Next

(* "Auto-unlocks after 30 min" and not before: handled one at a time, no   *)
(* request shortens an active lock, even when statements fail.             *)
THEOREM LockHoldsOneAtATime ==
  ASSUME MaxInFlight = 1
  PROVE  Spec => LockHolds
<1>1. Init => TypeOK /\ OneAtATime /\ NoLockUnderWork
  BY InitTyped DEF Init, OneAtATime, InFlight, NoLockUnderWork, Working
<1>2. TypeOK /\ OneAtATime /\ NoLockUnderWork /\ [Next]_vars
        => (TypeOK /\ OneAtATime /\ NoLockUnderWork)'
  BY StepTyped, StepAlone
<1>3. TypeOK /\ NoLockUnderWork /\ [Next]_vars =>
        [\A e \in Emails : Locked(e) =>
           accountLockout'[e].lockedUntil >= accountLockout[e].lockedUntil]_vars
  <2> SUFFICES ASSUME TypeOK, NoLockUnderWork, [Next]_vars,
                      NEW e \in Emails, Locked(e)
               PROVE  accountLockout'[e].lockedUntil >= accountLockout[e].lockedUntil
    OBVIOUS
  <2>1. accountLockout'[e] = accountLockout[e]
    BY OnlyWorkersWrite
  <2> QED
    BY <2>1 DEF TypeOK
<1> QED
  BY <1>1, <1>2, <1>3, PTL DEF Spec, LockHolds

-----------------------------------------------------------------------------
(* The brute-force budget.  A threshold of failures in the current window  *)
(* is either covered by a lock that outlasts all of them, or belongs to    *)
(* the request at work, which has not written its lock yet; and a request  *)
(* that has not recorded its failure yet finds the budget not used up.     *)
Failures(e) == {q \in Requests : email[q] = e /\ failedAt[q] # Null}
InWindow(e) == FailuresBetween(e, now - Window, now)
UsedUp(e) == Cardinality(InWindow(e)) >= MaxAttempts
CoveredBy(e, until) == \A q \in Failures(e) : failedAt[q] + Window < until

Uncounted == {"verify", "reset", "insert"}
Unsettled(e) == \E r \in Requests : email[r] = e /\ pc[r] \in {"count", "upsert"}

BudgetIsCovered ==
  \A e \in Emails :
    UsedUp(e) => CoveredBy(e, accountLockout[e].lockedUntil) \/ Unsettled(e)

BudgetIsOpen ==
  \A r \in Requests : pc[r] \in Uncounted => ~UsedUp(email[r])

DecisionCovers ==
  \A r \in Requests :
    pc[r] = "upsert" /\ UsedUp(email[r]) => CoveredBy(email[r], lockUntil[r])

BudgetInv ==
  WindowBudget /\ BudgetIsCovered /\ BudgetIsOpen /\ DecisionCovers

LEMMA WindowCount ==
  ASSUME NEW e
  PROVE  /\ InWindow(e) \in SUBSET Requests /\ Cardinality(InWindow(e)) \in Nat
         /\ InWindow(e)' \in SUBSET Requests /\ Cardinality(InWindow(e)') \in Nat
<1>1. InWindow(e) \in SUBSET Requests /\ InWindow(e)' \in SUBSET Requests
  BY DEF InWindow, FailuresBetween
<1> QED
  BY <1>1, FiniteCount

(* The window only loses failures, except by an insert. *)
LEMMA WindowShrinks ==
  ASSUME TypeOK, PastIsPast, NEW e, now' \in Nat, now <= now', email' = email,
         \A q \in Failures(e)' : failedAt'[q] = failedAt[q]
  PROVE  /\ Cardinality(InWindow(e)') <= Cardinality(InWindow(e))
         /\ UsedUp(e)' => UsedUp(e)
<1>1. InWindow(e)' \subseteq InWindow(e)
  BY LockoutAssumption
  DEF InWindow, FailuresBetween, Failures, TypeOK, Times, Null, PastIsPast
<1>2. Cardinality(InWindow(e)') <= Cardinality(InWindow(e))
  BY <1>1, WindowCount, CountGrows
<1> QED
  BY <1>2, WindowCount, LockoutAssumption DEF UsedUp

(* A covered budget that is used up is a lock. *)
LEMMA CoverLocks ==
  ASSUME TypeOK, NEW e \in Emails, UsedUp(e),
         CoveredBy(e, accountLockout[e].lockedUntil)
  PROVE  Locked(e)
<1>1. InWindow(e) # {}
  BY WindowCount, FS_EmptySet, LockoutAssumption DEF UsedUp
<1>2. PICK q \in Requests : /\ email[q] = e /\ failedAt[q] # Null
                            /\ now - Window <= failedAt[q]
  BY <1>1 DEF InWindow, FailuresBetween
<1>3. failedAt[q] + Window < accountLockout[e].lockedUntil
  BY <1>2 DEF CoveredBy, Failures
<1> QED
  BY <1>2, <1>3, LockoutAssumption DEF Locked, TypeOK, Times

(* The insert spends the last attempt at most, and everybody else's budget *)
(* stays as it is: nobody else is at work.                                 *)
LEMMA InsertSpends ==
  ASSUME IInv, OneAtATime, BudgetInv, NEW r \in Requests, InsertAttempt(r)
  PROVE  BudgetInv'
<1> USE DEF TypeOK, Times, Null
<1>1. TypeOK
  BY DEF IInv
<1>2. \A q \in Requests : pc[q] \in Working => q = r
  BY DEF InsertAttempt, OneAtATime, InFlight, Working
<1>3. /\ UNCHANGED <<now, email, accountLockout>>
      /\ pc' = [pc EXCEPT ![r] = "count"]
      /\ failedAt' = [failedAt EXCEPT ![r] = now]
      /\ email[r] \in Emails
  BY <1>1 DEF InsertAttempt
<1>4. ASSUME NEW q \in Requests, pc'[q] \in Uncounted \cup {"upsert"} PROVE FALSE
  BY <1>1, <1>2, <1>3, <1>4 DEF Uncounted, Working
<1>5. ASSUME NEW e \in Emails, e # email[r]
      PROVE  /\ InWindow(e)' = InWindow(e) /\ Failures(e)' = Failures(e)
             /\ UsedUp(e) => CoveredBy(e, accountLockout[e].lockedUntil)
  <2>1. ~Unsettled(e)
    BY <1>2, <1>5 DEF Unsettled, Working
  <2> QED
    BY <1>1, <1>3, <1>5, <2>1
    DEF BudgetInv, BudgetIsCovered, InWindow, FailuresBetween, Failures
<1>6. ASSUME NEW e \in Emails, e = email[r]
      PROVE  Cardinality(InWindow(e)') <= MaxAttempts
  <2>1. InWindow(e)' \subseteq InWindow(e) \cup {r}
    BY <1>1, <1>3, <1>6 DEF InWindow, FailuresBetween
  <2>2. Cardinality(InWindow(e)') <= Cardinality(InWindow(e) \cup {r})
    BY <2>1, WindowCount, CountGrows
  <2>3. ~UsedUp(e)
    BY <1>6 DEF BudgetInv, BudgetIsOpen, InsertAttempt, Uncounted
  <2>4. IsFiniteSet(InWindow(e))
    BY WindowCount, FiniteCount
  <2>5. Cardinality(InWindow(e) \cup {r}) =
          IF r \in InWindow(e) THEN Cardinality(InWindow(e)) ELSE Cardinality(InWindow(e)) + 1
    BY <2>4, FS_AddElement
  <2> QED
    BY <2>2, <2>3, <2>5, WindowCount, LockoutAssumption DEF UsedUp
<1>7. WindowBudget'
  <2>1. ASSUME NEW e \in Emails PROVE Cardinality(InWindow(e)') <= MaxAttempts
    <3>1. Cardinality(InWindow(e)) <= MaxAttempts
      BY DEF BudgetInv, WindowBudget, InWindow
    <3> QED
      BY <1>5, <1>6, <3>1
  <2> QED
    BY <2>1, <1>3 DEF WindowBudget, InWindow
<1>8. BudgetIsCovered'
  <2>1. ASSUME NEW e \in Emails, UsedUp(e)'
        PROVE  CoveredBy(e, accountLockout[e].lockedUntil)' \/ Unsettled(e)'
    <3>1. CASE e = email[r]
      BY <1>1, <1>3, <3>1 DEF Unsettled
    <3>2. CASE e # email[r]
      <4>1. UsedUp(e)
        BY <1>5, <2>1, <3>2 DEF UsedUp
      <4>2. r \notin Failures(e)
        BY <3>2 DEF Failures
      <4> QED
        BY <1>1, <1>3, <1>5, <3>2, <4>1, <4>2 DEF CoveredBy
    <3> QED
      BY <3>1, <3>2
  <2> QED
    BY <2>1 DEF BudgetIsCovered
<1>9. BudgetIsOpen' /\ DecisionCovers'
  BY <1>4 DEF BudgetIsOpen, DecisionCovers
<1> QED
  BY <1>7, <1>8, <1>9 DEF BudgetInv

(* Every other step leaves the recorded failures alone. *)
Recordless == [Next]_vars /\ failedAt' = failedAt

LEMMA RecordlessWindow ==
  ASSUME IInv, Recordless, NEW e
  PROVE  /\ Cardinality(InWindow(e)') <= Cardinality(InWindow(e))
         /\ UsedUp(e)' => UsedUp(e)
         /\ \A until : CoveredBy(e, until)' <=> CoveredBy(e, until)
<1>1. TypeOK /\ TypeOK' /\ PastIsPast /\ FailureIsRecorded /\ [Next]_vars
  BY StepTyped DEF IInv, Recordless
<1>2. now <= now' /\ email' = email /\ failedAt' = failedAt /\ now' \in Nat
  BY <1>1, Frame DEF Recordless, TypeOK, Times
<1> QED
  BY <1>1, <1>2, WindowShrinks DEF CoveredBy, Failures

LEMMA RecordlessKeeps ==
  ASSUME IInv, BudgetInv, Recordless,
         \A q \in Requests : pc'[q] \in Uncounted => pc[q] \in Uncounted \/ ~UsedUp(email[q]),
         \A q \in Requests : pc'[q] = "upsert" =>
           \/ pc[q] = "upsert" /\ lockUntil'[q] = lockUntil[q]
           \/ UsedUp(email[q]) => CoveredBy(email[q], lockUntil'[q]),
         \A e \in Emails : UsedUp(e) =>
           \/ CoveredBy(e, accountLockout'[e].lockedUntil)
           \/ /\ accountLockout'[e] = accountLockout[e]
              /\ Unsettled(e) => Unsettled(e)'
  PROVE  BudgetInv'
<1>1. TypeOK /\ TypeOK' /\ FailureIsRecorded /\ [Next]_vars
  BY StepTyped DEF IInv, Recordless
<1>2. email' = email /\ \A q \in Requests : email[q] \in Emails
  BY <1>1, Frame DEF TypeOK
<1>3. WindowBudget'
  <2>1. ASSUME NEW e \in Emails PROVE Cardinality(InWindow(e)') <= MaxAttempts
    <3>1. Cardinality(InWindow(e)) <= MaxAttempts
      BY DEF BudgetInv, WindowBudget, InWindow
    <3>2. Cardinality(InWindow(e)') <= Cardinality(InWindow(e))
      BY RecordlessWindow
    <3> QED
      BY <3>1, <3>2, WindowCount, LockoutAssumption
  <2> QED
    BY <2>1 DEF WindowBudget, InWindow
<1>4. BudgetIsCovered'
  <2>1. ASSUME NEW e \in Emails, UsedUp(e)'
        PROVE  CoveredBy(e, accountLockout[e].lockedUntil)' \/ Unsettled(e)'
    <3>1. UsedUp(e) /\ \A until : CoveredBy(e, until)' <=> CoveredBy(e, until)
      BY <2>1, RecordlessWindow
    <3>2. CoveredBy(e, accountLockout[e].lockedUntil) \/ Unsettled(e)
      BY <3>1 DEF BudgetInv, BudgetIsCovered
    <3> QED
      BY <3>1, <3>2 DEF CoveredBy
  <2> QED
    BY <2>1 DEF BudgetIsCovered
<1>5. BudgetIsOpen'
  BY <1>2, RecordlessWindow DEF BudgetInv, BudgetIsOpen
<1>6. DecisionCovers'
  <2>1. ASSUME NEW q \in Requests, pc'[q] = "upsert", UsedUp(email[q])'
        PROVE  CoveredBy(email[q], lockUntil[q])'
    <3>1. \A e : UsedUp(e)' => UsedUp(e)
      BY RecordlessWindow
    <3>2. UsedUp(email[q])
      BY <1>2, <2>1, <3>1 DEF UsedUp, InWindow
    <3>3. CoveredBy(email[q], lockUntil'[q])
      BY <2>1, <3>2 DEF BudgetInv, DecisionCovers
    <3> QED
      BY <1>2, <3>3 DEF CoveredBy, Failures, Recordless
  <2> QED
    BY <2>1 DEF DecisionCovers
<1> QED
  BY <1>3, <1>4, <1>5, <1>6 DEF BudgetInv

(* The decision to lock is taken on no fewer failures than the window now  *)
(* holds, and its lock lasts longer than any of them stays in the window.  *)
LEMMA CountCovers ==
  ASSUME IInv, NEW r \in Requests, CountRecent(r), UsedUp(email[r])
  PROVE  CoveredBy(email[r], lockUntil'[r])
<1> USE DEF IInv, TypeOK, Times, Null
<1>1. failedAt[r] \in Nat /\ failedAt[r] <= now
  BY DEF PastIsPast
<1>2. InWindow(email[r]) \subseteq RecentFailures(r)
  BY <1>1, LockoutAssumption
  DEF InWindow, FailuresBetween, RecentFailures, WindowStart, WindowSurvivesPurge
<1>3. RecentFailures(r) \in SUBSET Requests
  BY DEF RecentFailures
<1>4. ShouldLock(Cardinality(RecentFailures(r)))
  <2>1. Cardinality(InWindow(email[r])) <= Cardinality(RecentFailures(r))
    BY <1>2, <1>3, WindowCount, CountGrows
  <2>2. Cardinality(RecentFailures(r)) \in Nat
    BY <1>3, FiniteCount
  <2> QED
    BY <2>1, <2>2, WindowCount, LockoutAssumption DEF UsedUp, ShouldLock
<1>5. lockUntil'[r] = now + LockoutPeriod
  BY <1>4 DEF CountRecent
<1>6. ASSUME NEW q \in Failures(email[r])
      PROVE  failedAt[q] + Window < now + LockoutPeriod
  <2>1. q \in Requests /\ failedAt[q] \in Nat /\ failedAt[q] <= now
    BY DEF Failures, PastIsPast
  <2> QED
    BY <2>1, LockoutAssumption
<1> QED
  BY <1>5, <1>6 DEF CoveredBy

LEMMA StepBudget ==
  ASSUME MaxInFlight = 1, Faults = FALSE, IInv, OneAtATime, BudgetInv, [Next]_vars
  PROVE  BudgetInv'
<1> USE DEF TypeOK, Times, Null
<1>1. TypeOK
  BY DEF IInv
<1>2. ASSUME NEW r \in Requests, pc[r] \in Working
      PROVE  \A q \in Requests : pc[q] \in Working => q = r
  BY <1>2 DEF OneAtATime, InFlight
<1>3. \A r \in Requests : email[r] \in Emails
  BY <1>1
<1>4. ASSUME NEW r \in Requests, Refuse(r)
      PROVE  BudgetInv'
  <2>1. /\ failedAt' = failedAt /\ UNCHANGED <<accountLockout, lockUntil, email>>
        /\ pc' = [pc EXCEPT ![r] = "done"] /\ pc[r] = "idle"
    BY <1>4 DEF Refuse, AnswerLocked, Arrives
  <2>2. \A e \in Emails : Unsettled(e) => Unsettled(e)'
    BY <1>1, <2>1 DEF Unsettled
  <2> QED
    BY <1>1, <2>1, <2>2, RecordlessKeeps DEF Recordless, Uncounted,
       BudgetInv, BudgetIsCovered
<1>5. ASSUME NEW r \in Requests, Admit(r)
      PROVE  BudgetInv'
  <2>1. /\ failedAt' = failedAt /\ UNCHANGED <<accountLockout, lockUntil, email>>
        /\ pc' = [pc EXCEPT ![r] = "verify"] /\ pc[r] = "idle" /\ Arrives(r)
        /\ ~Locked(email[r])
    BY <1>5 DEF Admit, GoVerify, Arrives
  <2>2. InFlight = {}
    BY <1>1, <2>1, ArrivesAlone
  <2>3. ~UsedUp(email[r])
    <3>1. ~Unsettled(email[r])
      BY <2>2 DEF Unsettled, InFlight, Working
    <3> QED
      BY <1>1, <1>3, <2>1, <3>1, CoverLocks DEF BudgetInv, BudgetIsCovered
  <2>4. \A e \in Emails : Unsettled(e) => Unsettled(e)'
    BY <1>1, <2>1 DEF Unsettled
  <2> QED
    BY <1>1, <2>1, <2>3, <2>4, RecordlessKeeps DEF Recordless, Uncounted,
       BudgetInv, BudgetIsCovered
<1>6. ASSUME NEW r \in Requests, Verify(r)
      PROVE  BudgetInv'
  <2>1. \A s : AfterReply(s) \in {"reset", "insert", "done"}
    BY Zenon DEF AfterReply
  <2>2. PICK a \in {"reset", "insert", "done"} : pc' = [pc EXCEPT ![r] = a]
    BY <1>6, <2>1 DEF Verify
  <2>3. /\ failedAt' = failedAt /\ UNCHANGED <<accountLockout, lockUntil, email>>
        /\ pc[r] = "verify"
    BY <1>6 DEF Verify
  <2>4. \A e \in Emails : Unsettled(e) => Unsettled(e)'
    BY <1>1, <2>2, <2>3 DEF Unsettled
  <2> QED
    BY <1>1, <2>2, <2>3, <2>4, RecordlessKeeps DEF Recordless, Uncounted,
       BudgetInv, BudgetIsCovered
<1>7. ASSUME NEW r \in Requests, RecordSuccess(r)
      PROVE  BudgetInv'
  <2>1. /\ failedAt' = failedAt /\ UNCHANGED <<lockUntil, email>>
        /\ pc' = [pc EXCEPT ![r] = "done"] /\ pc[r] = "reset"
        /\ \A e \in Emails : e # email[r] => accountLockout'[e] = accountLockout[e]
    BY <1>1, <1>7 DEF RecordSuccess
  <2>2. ~UsedUp(email[r])
    BY <2>1 DEF BudgetInv, BudgetIsOpen, Uncounted
  <2>3. \A e \in Emails : Unsettled(e) => Unsettled(e)'
    BY <1>1, <2>1 DEF Unsettled
  <2> QED
    BY <1>1, <2>1, <2>2, <2>3, RecordlessKeeps DEF Recordless, Uncounted
<1>8. ASSUME NEW r \in Requests, InsertAttempt(r)
      PROVE  BudgetInv'
  BY <1>8, InsertSpends
<1>9. ASSUME NEW r \in Requests, CountRecent(r)
      PROVE  BudgetInv'
  <2>1. /\ failedAt' = failedAt /\ UNCHANGED <<accountLockout, email>>
        /\ pc' = [pc EXCEPT ![r] = "upsert"] /\ pc[r] = "count"
    BY <1>9 DEF CountRecent
  <2>2. UsedUp(email[r]) => CoveredBy(email[r], lockUntil'[r])
    BY <1>9, CountCovers
  <2>3. \A q \in Requests : q # r => lockUntil'[q] = lockUntil[q]
    BY <1>1, <1>9 DEF CountRecent
  <2>4. \A e \in Emails : Unsettled(e) => Unsettled(e)'
    BY <1>1, <2>1 DEF Unsettled
  <2> QED
    BY <1>1, <2>1, <2>2, <2>3, <2>4, RecordlessKeeps DEF Recordless, Uncounted,
       BudgetInv, BudgetIsCovered
<1>10. ASSUME NEW r \in Requests, UpsertLockout(r)
       PROVE  BudgetInv'
  <2>1. /\ failedAt' = failedAt /\ UNCHANGED <<lockUntil, email>>
        /\ pc' = [pc EXCEPT ![r] = "done"] /\ pc[r] = "upsert"
        /\ accountLockout'[email[r]].lockedUntil = lockUntil[r]
        /\ \A e \in Emails : e # email[r] => accountLockout'[e] = accountLockout[e]
    BY <1>1, <1>10 DEF UpsertLockout
  <2>2. UsedUp(email[r]) => CoveredBy(email[r], accountLockout'[email[r]].lockedUntil)
    BY <2>1 DEF BudgetInv, DecisionCovers
  <2>3. \A e \in Emails : e # email[r] /\ Unsettled(e) => Unsettled(e)'
    BY <1>1, <2>1 DEF Unsettled
  <2> QED
    BY <1>1, <2>1, <2>2, <2>3, RecordlessKeeps DEF Recordless, Uncounted
<1>11. CASE \/ \E r \in Requests : SendAlert(r) \/ WriteAudit(r) \/ AbortAudit(r)
            \/ PurgeOldLoginAttempts \/ Tick \/ UNCHANGED vars
  <2>1. UNCHANGED <<pc, failedAt, accountLockout, lockUntil, email>>
    BY <1>11
    DEF SendAlert, WriteAudit, AbortAudit, PurgeOldLoginAttempts, Tick, vars
  <2>2. \A e \in Emails : Unsettled(e) => Unsettled(e)'
    BY <2>1 DEF Unsettled
  <2> QED
    BY <2>1, <2>2, RecordlessKeeps DEF Recordless, BudgetInv, BudgetIsCovered
<1>12. \A r \in Requests : ~CheckFails(r) /\ ~AbortHandler(r)
  BY DEF CheckFails, AbortHandler
<1> QED
  BY <1>4, <1>5, <1>6, <1>7, <1>8, <1>9, <1>10, <1>11, <1>12 DEF Next

LEMMA InitBudget == Init => BudgetInv
<1> SUFFICES ASSUME Init PROVE BudgetInv
  OBVIOUS
<1>1. \A e : InWindow(e) = {}
  BY DEF Init, InWindow, FailuresBetween, Null
<1>2. \A e : Cardinality(InWindow(e)) = 0
  BY <1>1, FS_EmptySet
<1>3. \A e : ~UsedUp(e)
  BY <1>2, LockoutAssumption DEF UsedUp
<1>4. WindowBudget
  BY <1>2, LockoutAssumption DEF WindowBudget, InWindow
<1> QED
  BY <1>3, <1>4 DEF BudgetInv, BudgetIsCovered, BudgetIsOpen, DecisionCovers

(* MAX_ATTEMPTS is a budget: handled one at a time, no stream of sign-ins, *)
(* successes and purges included, puts more failures of one email into any *)
(* window, for any threshold and any periods with WINDOW_MS < LOCKOUT_MS.  *)
THEOREM BudgetHoldsOneAtATime ==
  ASSUME MaxInFlight = 1, Faults = FALSE
  PROVE  Spec => []WindowBudget
<1> DEFINE J == IInv /\ OneAtATime /\ NoLockUnderWork /\ BudgetInv
<1>1. Init => J
  BY InitInv, InitBudget
  DEF Init, OneAtATime, InFlight, NoLockUnderWork, Working
<1>2. J /\ [Next]_vars => J'
  BY StepInv, StepAlone, StepBudget DEF IInv
<1>3. J => WindowBudget
  BY DEF BudgetInv
<1> QED
  BY <1>1, <1>2, <1>3, PTL DEF Spec

-----------------------------------------------------------------------------
(* The policy.  A request at work is the last that failed, and the         *)
(* decision that it is about to write was taken since.                     *)
StatusFits ==
  \A r \in Requests :
    /\ pc[r] \in {"idle", "verify"} => status[r] = 0
    /\ pc[r] = "reset" => status[r] = 200 /\ failedAt[r] = Null
    /\ pc[r] \in {"insert", "count", "upsert"} => status[r] = 401

LastToFail ==
  \A r \in Requests : pc[r] \in {"count", "upsert"} =>
    \A q \in Requests : failedAt[q] <= failedAt[r]

NotUsedUp(e, at) == Cardinality(FailuresBetween(e, at - Window, at)) < MaxAttempts

DecisionIsDue ==
  \A r \in Requests : pc[r] = "upsert" =>
    \E decided \in failedAt[r]..now :
      IF lockUntil[r] # Null THEN lockUntil[r] = decided + LockoutPeriod
                             ELSE NotUsedUp(email[r], decided)

PolicyInv == StatusFits /\ LastToFail /\ DecisionIsDue

LEMMA SameFailures ==
  ASSUME email' = email, failedAt' = failedAt, NEW e, NEW at
  PROVE  NotUsedUp(e, at)' <=> NotUsedUp(e, at)
BY DEF NotUsedUp, FailuresBetween

(* Steps that take nobody to the count or to the upsert.                   *)
LEMMA DecisionsStay ==
  ASSUME TypeOK, now' \in Nat, now <= now', UNCHANGED <<email, failedAt, lockUntil>>,
         \A q \in Requests : pc'[q] \in {"count", "upsert"} => pc'[q] = pc[q],
         LastToFail, DecisionIsDue
  PROVE  LastToFail' /\ DecisionIsDue'
<1>1. LastToFail'
  BY DEF LastToFail
<1>2. ASSUME NEW r \in Requests, pc'[r] = "upsert"
      PROVE  \E decided \in failedAt'[r]..now' :
               IF lockUntil'[r] # Null THEN lockUntil'[r] = decided + LockoutPeriod
                                       ELSE NotUsedUp(email[r], decided)'
  <2>1. PICK decided \in failedAt[r]..now :
               IF lockUntil[r] # Null THEN lockUntil[r] = decided + LockoutPeriod
                                      ELSE NotUsedUp(email[r], decided)
    BY <1>2 DEF DecisionIsDue
  <2>2. decided \in failedAt'[r]..now'
    BY <2>1 DEF TypeOK, Times
  <2>3. \A e : NotUsedUp(e, decided)' <=> NotUsedUp(e, decided)
    BY SameFailures
  <2> QED
    BY <2>1, <2>2, <2>3 DEF NotUsedUp, FailuresBetween
<1>3. DecisionIsDue'
  BY <1>2 DEF DecisionIsDue
<1> QED
  BY <1>1, <1>3

LEMMA Replies ==
  ASSUME NEW r \in Requests, Verify(r)
  PROVE  \/ status' = [status EXCEPT ![r] = 200] /\ pc' = [pc EXCEPT ![r] = "reset"]
         \/ status' = [status EXCEPT ![r] = 401] /\ pc' = [pc EXCEPT ![r] = "insert"]
         \/ status' = [status EXCEPT ![r] = 403] /\ pc' = [pc EXCEPT ![r] = "done"]
<1>1. AfterReply(200) = "reset" /\ AfterReply(401) = "insert" /\ AfterReply(403) = "done"
  BY DEF AfterReply
<1>2. PICK s \in {200, 401, 403} :
        /\ status' = [status EXCEPT ![r] = s]
        /\ pc' = [pc EXCEPT ![r] = AfterReply(s)]
        /\ auditing' = IF AfterReply(s) = "done" THEN auditing
                                                 ELSE auditing \cup {r}
  BY Zenon DEF Verify
<1>3. CASE s = 200
  <2>1. AfterReply(s) = "reset"
    BY <1>1, <1>3
  <2>2. status' = [status EXCEPT ![r] = 200]
    BY <1>2, <1>3
  <2>3. pc' = [pc EXCEPT ![r] = "reset"]
    BY <1>2, <2>1
  <2> QED
    BY <2>2, <2>3
<1>4. CASE s = 401
  <2>1. AfterReply(s) = "insert"
    BY <1>1, <1>4
  <2>2. status' = [status EXCEPT ![r] = 401]
    BY <1>2, <1>4
  <2>3. pc' = [pc EXCEPT ![r] = "insert"]
    BY <1>2, <2>1
  <2> QED
    BY <2>2, <2>3
<1>5. CASE s = 403
  <2>1. AfterReply(s) = "done"
    BY <1>1, <1>5
  <2>2. status' = [status EXCEPT ![r] = 403]
    BY <1>2, <1>5
  <2>3. pc' = [pc EXCEPT ![r] = "done"]
    BY <1>2, <2>1
  <2> QED
    BY <2>2, <2>3
<1> QED
  BY <1>2, <1>3, <1>4, <1>5

LEMMA StepPolicy ==
  ASSUME MaxInFlight = 1, Faults = FALSE, IInv, OneAtATime, PolicyInv, [Next]_vars
  PROVE  PolicyInv'
<1> USE DEF TypeOK, Times, Null, PolicyInv
<1>1. TypeOK /\ TypeOK' /\ now' \in Nat /\ now <= now' /\ email' = email
  BY StepTyped, Frame DEF IInv
<1>2. ASSUME NEW r \in Requests, pc[r] \in Working
      PROVE  \A q \in Requests : pc[q] \in Working => q = r
  BY <1>2 DEF OneAtATime, InFlight
<1>3. ASSUME NEW r \in Requests, Refuse(r) \/ RecordSuccess(r) \/ UpsertLockout(r)
      PROVE  PolicyInv'
  <2>1. /\ pc' = [pc EXCEPT ![r] = "done"] /\ UNCHANGED <<failedAt, lockUntil>>
        /\ \A q \in Requests : q # r => status'[q] = status[q]
    BY <1>1, <1>3 DEF Refuse, AnswerLocked, RecordSuccess, UpsertLockout
  <2>2. LastToFail' /\ DecisionIsDue'
    BY <1>1, <2>1, DecisionsStay
  <2>3. StatusFits'
    BY <1>1, <2>1 DEF StatusFits
  <2> QED
    BY <2>2, <2>3
<1>4. ASSUME NEW r \in Requests, Admit(r)
      PROVE  PolicyInv'
  <2>1. /\ pc' = [pc EXCEPT ![r] = "verify"] /\ UNCHANGED <<failedAt, lockUntil, status>>
        /\ pc[r] = "idle"
    BY <1>4 DEF Admit, GoVerify, Arrives
  <2>2. LastToFail' /\ DecisionIsDue'
    BY <1>1, <2>1, DecisionsStay
  <2>3. StatusFits'
    BY <1>1, <2>1 DEF StatusFits
  <2> QED
    BY <2>2, <2>3
<1>5. ASSUME NEW r \in Requests, Verify(r)
      PROVE  PolicyInv'
  <2>1. \/ status' = [status EXCEPT ![r] = 200] /\ pc' = [pc EXCEPT ![r] = "reset"]
        \/ status' = [status EXCEPT ![r] = 401] /\ pc' = [pc EXCEPT ![r] = "insert"]
        \/ status' = [status EXCEPT ![r] = 403] /\ pc' = [pc EXCEPT ![r] = "done"]
    BY <1>5, Replies
  <2>2. UNCHANGED <<failedAt, lockUntil>> /\ failedAt[r] = Null
    BY <1>5 DEF Verify, IInv, FailureIsRecorded, Unrecorded
  <2>3. LastToFail' /\ DecisionIsDue'
    BY <1>1, <2>1, <2>2, DecisionsStay
  <2>4. StatusFits'
    <3>1. \A q \in Requests : q # r => pc'[q] = pc[q] /\ status'[q] = status[q]
      BY <1>1, <2>1
    <3>2. \/ pc'[r] = "reset" /\ status'[r] = 200
          \/ pc'[r] = "insert" /\ status'[r] = 401
          \/ pc'[r] = "done"
      BY <1>1, <2>1
    <3> QED
      BY <2>2, <3>1, <3>2 DEF StatusFits
  <2> QED
    BY <2>3, <2>4
<1>6. ASSUME NEW r \in Requests, InsertAttempt(r)
      PROVE  PolicyInv'
  <2>1. /\ pc' = [pc EXCEPT ![r] = "count"] /\ pc[r] = "insert" /\ UNCHANGED <<status, lockUntil, now>>
        /\ failedAt' = [failedAt EXCEPT ![r] = now]
    BY <1>6 DEF InsertAttempt
  <2>2. \A q \in Requests : q # r => pc'[q] \notin Working
    BY <1>1, <1>2, <2>1 DEF Working
  <2>3. StatusFits'
    BY <1>1, <2>1 DEF StatusFits
  <2>4. LastToFail' /\ DecisionIsDue'
    BY <1>1, <2>1, <2>2 DEF LastToFail, DecisionIsDue, IInv, PastIsPast, Working
  <2> QED
    BY <2>3, <2>4
<1>7. ASSUME NEW r \in Requests, CountRecent(r)
      PROVE  PolicyInv'
  <2>1. /\ pc' = [pc EXCEPT ![r] = "upsert"] /\ pc[r] = "count" /\ UNCHANGED <<status, failedAt, now>>
        /\ lockUntil' = [lockUntil EXCEPT ![r] =
             IF ShouldLock(Cardinality(RecentFailures(r))) THEN now + LockoutPeriod ELSE Null]
    BY <1>7 DEF CountRecent
  <2>2. \A q \in Requests : q # r => pc'[q] \notin Working
    BY <1>1, <1>2, <2>1 DEF Working
  <2>3. StatusFits'
    BY <1>1, <2>1 DEF StatusFits
  <2>4. LastToFail'
    BY <1>1, <2>1 DEF LastToFail
  <2>5. now \in failedAt[r]..now
    BY <1>1 DEF IInv, PastIsPast
  <2>6. CASE ShouldLock(Cardinality(RecentFailures(r)))
    <3>1. lockUntil'[r] = now + LockoutPeriod
      BY <1>1, <2>1, <2>6
    <3>2. lockUntil'[r] # Null
      BY <1>1, <3>1, LockoutAssumption
    <3> QED
      BY <1>1, <2>1, <2>2, <2>3, <2>4, <2>5, <3>1, <3>2 DEF DecisionIsDue, Working
  <2>7. CASE ~ShouldLock(Cardinality(RecentFailures(r)))
    <3>1. InWindow(email[r]) \subseteq RecentFailures(r)
      <4>1. failedAt[r] \in Nat /\ failedAt[r] <= now /\ WindowSurvivesPurge
        BY <1>1 DEF IInv, PastIsPast
      <4> QED
        BY <1>1, <4>1, LockoutAssumption
        DEF InWindow, FailuresBetween, RecentFailures, WindowStart, WindowSurvivesPurge
    <3>2. RecentFailures(r) \in SUBSET Requests
      BY <1>1 DEF RecentFailures
    <3>3. Cardinality(InWindow(email[r])) <= Cardinality(RecentFailures(r))
      BY <3>1, <3>2, WindowCount, CountGrows
    <3>4. Cardinality(RecentFailures(r)) \in Nat
      BY <3>2, FiniteCount
    <3>5. Cardinality(InWindow(email[r])) < MaxAttempts
      BY <2>7, <3>3, <3>4, WindowCount, LockoutAssumption DEF ShouldLock
    <3>6. InWindow(email[r])' = InWindow(email[r])
      BY <1>1, <2>1 DEF InWindow, FailuresBetween
    <3>7. (NotUsedUp(email[r], now))'
      BY <1>1, <2>1, <3>5, <3>6 DEF NotUsedUp, InWindow
    <3>8. lockUntil'[r] = Null
      BY <1>1, <2>1, <2>7
    <3> QED
      BY <1>1, <2>1, <2>2, <2>3, <2>4, <2>5, <3>7, <3>8 DEF DecisionIsDue, Working
  <2> QED
    BY <2>6, <2>7
<1>8. CASE \/ \E r \in Requests : SendAlert(r) \/ WriteAudit(r) \/ AbortAudit(r)
           \/ PurgeOldLoginAttempts \/ Tick \/ UNCHANGED vars
  <2>1. UNCHANGED <<pc, status, failedAt, lockUntil>>
    BY <1>8 DEF SendAlert, WriteAudit, AbortAudit, PurgeOldLoginAttempts, Tick, vars
  <2>2. LastToFail' /\ DecisionIsDue'
    BY <1>1, <2>1, DecisionsStay
  <2> QED
    BY <2>1, <2>2 DEF StatusFits
<1>9. \A r \in Requests : ~CheckFails(r) /\ ~AbortHandler(r)
  BY DEF CheckFails, AbortHandler
<1> QED
  BY <1>3, <1>4, <1>5, <1>6, <1>7, <1>8, <1>9 DEF Next

-----------------------------------------------------------------------------
(* The steps of a handler but its last one are invisible in the policy.    *)
LEMMA PolicyCounts == \A S : Policy!Cardinality(S) = Cardinality(S)
BY Zenon DEF Policy!Cardinality, Cardinality

(* While no other request is at work, what the policy knows of failures is *)
(* what was recorded, once this request is through.                        *)
LEMMA FailedIsFailedAt ==
  ASSUME TypeOK, FailureIsRecorded, \A q \in Requests : pc[q] \in {"idle", "done"}
  PROVE  Failed = failedAt
BY DEF TypeOK, Failed, FailureIsRecorded, Unrecorded

LEMMA Settles ==
  ASSUME TypeOK, NEW r \in Requests, NEW s, pc[r] # "done", pc' = [pc EXCEPT ![r] = "done"],
         status'[r] = s, \A q \in Requests : q # r => status'[q] = status[q],
         UNCHANGED <<now, email>>
  PROVE  Policy!Settle(r, s)
<1>1. Outcome[r] = 0
  BY DEF Outcome
<1>2. Outcome' = [Outcome EXCEPT ![r] = s]
  BY DEF Outcome, TypeOK
<1> QED
  BY <1>1, <1>2 DEF Policy!Settle

LEMMA UpsertImplements ==
  ASSUME IInv, OneAtATime, NoLockUnderWork, PolicyInv, NEW r \in Requests, UpsertLockout(r), [Next]_vars
  PROVE  Policy!Reject(r)
<1> USE DEF Times, Null, PolicyInv
<1>1. TypeOK /\ TypeOK' /\ FailureIsRecorded /\ FailureIsRecorded'
  BY StepInv DEF IInv
<1>2. /\ pc[r] = "upsert" /\ pc' = [pc EXCEPT ![r] = "done"]
      /\ UNCHANGED <<now, email, status, failedAt, lockUntil>>
      /\ accountLockout' = [accountLockout EXCEPT ![email[r]] =
           [failedAttempts |-> recent[r], lockedUntil |-> lockUntil[r]]]
      /\ email[r] \in Emails
  BY <1>1 DEF UpsertLockout, TypeOK
<1>3. \A q \in Requests : pc[q] \in Working => q = r
  BY <1>2 DEF OneAtATime, InFlight, Working
<1>4. ~Policy!Locked(email[r])
  BY <1>2 DEF Policy!Locked, LockedUntil, Locked, NoLockUnderWork, Working
<1>5. Policy!Settle(r, 401)
  <2>1. status'[r] = 401
    BY <1>2 DEF StatusFits
  <2> QED
    BY <1>1, <1>2, <2>1, Settles
<1>6. Failed' = failedAt
  <2>1. \A q \in Requests : pc'[q] \in {"idle", "done"}
    BY <1>1, <1>2, <1>3 DEF TypeOK
  <2> QED
    BY <1>1, <1>2, <2>1, FailedIsFailedAt DEF TypeOK, Failed, FailureIsRecorded, Unrecorded
<1>7. failedAt[r] \in 1..now
  BY <1>1, <1>2 DEF IInv, PastIsPast, TypeOK, FailureIsRecorded
<1>8. Failed' = [Failed EXCEPT ![r] = failedAt[r]]
  <2>1. \A q \in Requests : q # r => Failed[q] = failedAt[q]
    BY <1>1, <1>2, <1>3 DEF Failed, TypeOK, FailureIsRecorded, Unrecorded
  <2> QED
    BY <1>1, <1>6, <2>1 DEF Failed, TypeOK
<1>9. LockedUntil' = [LockedUntil EXCEPT ![email[r]] = lockUntil[r]]
  BY <1>1, <1>2 DEF LockedUntil, TypeOK
<1>10. PICK decided \in failedAt[r]..now :
         IF lockUntil[r] # Null THEN lockUntil[r] = decided + LockoutPeriod
                                ELSE NotUsedUp(email[r], decided)
  BY <1>2 DEF DecisionIsDue
<1>11. decided \in Nat /\ failedAt[r] \in Nat
  BY <1>1, <1>10 DEF TypeOK
<1>12. CASE lockUntil[r] # Null
  <2> DEFINE C == CountedBy(email, failedAt, r, email[r], lockUntil[r])
             W == Policy!InWindowAt(failedAt, email[r], failedAt[r])
  <2>1. Cardinality(C) >= MaxAttempts
    BY <1>2, <1>12 DEF IInv, DecisionIsEarned, Earned, EarnedGiven
  <2>2. C \subseteq W
    BY <1>1, <1>2, <1>11, LockoutAssumption DEF CountedBy, Policy!InWindowAt, LastToFail, TypeOK
  <2>3. C \in SUBSET Requests /\ W \in SUBSET Requests
    BY DEF CountedBy, Policy!InWindowAt
  <2> HIDE DEF C, W
  <2>4. Cardinality(C) <= Cardinality(W) /\ Cardinality(C) \in Nat /\ Cardinality(W) \in Nat
    BY <2>2, <2>3, CountGrows, FiniteCount
  <2>5. Cardinality(W) >= MaxAttempts
    BY <2>1, <2>4, LockoutAssumption
  <2>6. Policy!UsesUp(failedAt, email[r], failedAt[r])
    BY <2>5, PolicyCounts DEF Policy!UsesUp, W
  <2>7. LockedUntil' = [LockedUntil EXCEPT ![email[r]] = decided + LockoutPeriod]
    BY <1>9, <1>10, <1>12
  <2> QED
    BY <1>4, <1>5, <1>6, <1>7, <1>8, <1>10, <2>6, <2>7 DEF Policy!Reject
<1>13. CASE lockUntil[r] = Null
  <2> DEFINE W == Policy!InWindowAt(failedAt, email[r], decided)
             V == FailuresBetween(email[r], decided - Window, decided)
  <2>1. Cardinality(V) < MaxAttempts
    BY <1>10, <1>13 DEF NotUsedUp
  <2>2. W = V
    BY <1>1, <1>11, LockoutAssumption DEF FailuresBetween, Policy!InWindowAt, TypeOK
  <2> HIDE DEF V, W
  <2>3. ~(Cardinality(W) >= MaxAttempts)
    <3>1. V \in SUBSET Requests
      BY DEF V, FailuresBetween
    <3> QED
      BY <2>1, <2>2, <3>1, FiniteCount, LockoutAssumption
  <2>4. ~Policy!UsesUp(failedAt, email[r], decided)
    BY <2>3, PolicyCounts DEF Policy!UsesUp, W
  <2>5. LockedUntil' = [LockedUntil EXCEPT ![email[r]] = 0]
    BY <1>9, <1>13
  <2> QED
    BY <1>4, <1>5, <1>6, <1>7, <1>8, <1>10, <2>4, <2>5 DEF Policy!Reject
<1> QED
  BY <1>12, <1>13

LEMMA StepImplements ==
  ASSUME Faults = FALSE, IInv, OneAtATime, NoLockUnderWork, PolicyInv, [Next]_vars
  PROVE  [Policy!Next]_Policy!vars
<1> USE DEF Times, Null, PolicyInv
<1>1. TypeOK /\ TypeOK'
  BY StepTyped DEF IInv
<1>2. ASSUME NEW r \in Requests, Refuse(r)
      PROVE  Policy!Refuse(r)
  <2>1. /\ pc' = [pc EXCEPT ![r] = "done"] /\ status' = [status EXCEPT ![r] = 429]
        /\ UNCHANGED <<now, email, failedAt, accountLockout>>
        /\ pc[r] = "idle" /\ Locked(email[r])
    BY <1>2 DEF Refuse, AnswerLocked, Arrives
  <2>2. failedAt[r] = Null
    BY <2>1 DEF IInv, FailureIsRecorded, Unrecorded
  <2>3. UNCHANGED <<Failed, LockedUntil>>
    BY <1>1, <2>1, <2>2 DEF Failed, LockedUntil, TypeOK
  <2>4. Policy!Settle(r, 429)
    <3>1. status'[r] = 429 /\ \A q \in Requests : q # r => status'[q] = status[q]
      BY <1>1, <2>1 DEF TypeOK
    <3> QED
      BY <1>1, <2>1, <3>1, Settles
  <2> QED
    BY <1>1, <2>1, <2>3, <2>4 DEF Policy!Refuse, Policy!Locked, Locked, LockedUntil, TypeOK
<1>3. ASSUME NEW r \in Requests, Verify(r)
      PROVE  Policy!Disregard(r) \/ UNCHANGED Policy!vars
  <2>1. \/ status' = [status EXCEPT ![r] = 200] /\ pc' = [pc EXCEPT ![r] = "reset"]
        \/ status' = [status EXCEPT ![r] = 401] /\ pc' = [pc EXCEPT ![r] = "insert"]
        \/ status' = [status EXCEPT ![r] = 403] /\ pc' = [pc EXCEPT ![r] = "done"]
    BY <1>3, Replies
  <2>2. UNCHANGED <<now, email, failedAt, accountLockout>> /\ pc[r] = "verify" /\ failedAt[r] = Null
    BY <1>3 DEF Verify, IInv, FailureIsRecorded, Unrecorded
  <2>3. UNCHANGED <<Failed, LockedUntil>>
    BY <1>1, <2>1, <2>2 DEF Failed, LockedUntil, TypeOK
  <2>4. CASE status' = [status EXCEPT ![r] = 403] /\ pc' = [pc EXCEPT ![r] = "done"]
    <3>1. Policy!Settle(r, 403)
      <4>1. status'[r] = 403 /\ \A q \in Requests : q # r => status'[q] = status[q]
        BY <1>1, <2>4 DEF TypeOK
      <4> QED
        BY <1>1, <2>2, <2>4, <4>1, Settles
    <3>2. ~Policy!Locked(email[r])
      BY <1>1, <2>2 DEF Policy!Locked, LockedUntil, Locked, NoLockUnderWork, Working, TypeOK
    <3> QED
      BY <2>3, <3>1, <3>2 DEF Policy!Disregard
  <2>5. CASE \/ status' = [status EXCEPT ![r] = 200] /\ pc' = [pc EXCEPT ![r] = "reset"]
             \/ status' = [status EXCEPT ![r] = 401] /\ pc' = [pc EXCEPT ![r] = "insert"]
    <3>1. Outcome' = Outcome
      BY <1>1, <2>2, <2>5 DEF Outcome, TypeOK
    <3> QED
      BY <2>2, <2>3, <3>1 DEF Policy!vars
  <2> QED
    BY <2>1, <2>4, <2>5
<1>4. ASSUME NEW r \in Requests, RecordSuccess(r)
      PROVE  Policy!Accept(r)
  <2>1. /\ pc' = [pc EXCEPT ![r] = "done"] /\ UNCHANGED <<now, email, failedAt, status>>
        /\ pc[r] = "reset" /\ accountLockout' = [accountLockout EXCEPT ![email[r]] = ClearRow]
    BY <1>4 DEF RecordSuccess
  <2>2. failedAt[r] = Null /\ status[r] = 200
    BY <2>1 DEF StatusFits
  <2>3. Failed' = Failed
    BY <1>1, <2>1, <2>2 DEF Failed, TypeOK
  <2>4. LockedUntil' = [LockedUntil EXCEPT ![email[r]] = 0]
    BY <1>1, <2>1 DEF LockedUntil, ClearRow, TypeOK
  <2>5. Policy!Settle(r, 200)
    <3>1. status'[r] = 200 /\ \A q \in Requests : q # r => status'[q] = status[q]
      BY <2>1, <2>2
    <3> QED
      BY <1>1, <2>1, <3>1, Settles
  <2>6. ~Policy!Locked(email[r])
    BY <1>1, <2>1 DEF Policy!Locked, LockedUntil, Locked, NoLockUnderWork, Working, TypeOK
  <2> QED
    BY <2>3, <2>4, <2>5, <2>6 DEF Policy!Accept
<1>5. ASSUME NEW r \in Requests, Admit(r) \/ InsertAttempt(r) \/ CountRecent(r)
      PROVE  UNCHANGED Policy!vars
  <2>1. PICK a \in Working : pc' = [pc EXCEPT ![r] = a]
    BY <1>5 DEF Admit, GoVerify, InsertAttempt, CountRecent, Working
  <2>2. /\ UNCHANGED <<now, email, accountLockout, status>> /\ pc[r] # "done"
        /\ \A q \in Requests : q # r => failedAt'[q] = failedAt[q]
    BY <1>1, <1>5 DEF Admit, GoVerify, Arrives, InsertAttempt, CountRecent, TypeOK
  <2>3. Outcome' = Outcome /\ Failed' = Failed
    BY <1>1, <2>1, <2>2 DEF Outcome, Failed, TypeOK, Working
  <2> QED
    BY <2>2, <2>3 DEF Policy!vars, LockedUntil
<1>6. CASE \/ \E r \in Requests : SendAlert(r) \/ WriteAudit(r) \/ AbortAudit(r)
           \/ PurgeOldLoginAttempts \/ UNCHANGED vars
  <2>1. UNCHANGED <<now, email, pc, status, failedAt, accountLockout>>
    BY <1>6 DEF SendAlert, WriteAudit, AbortAudit, PurgeOldLoginAttempts, vars
  <2> QED
    BY <2>1 DEF Policy!vars, Outcome, Failed, LockedUntil
<1>7. CASE Tick
  BY <1>7 DEF Tick, Policy!Tick, Policy!Next, Outcome, Failed, LockedUntil
<1>8. ASSUME NEW r \in Requests, UpsertLockout(r)
      PROVE  Policy!Reject(r)
  BY <1>8, UpsertImplements
<1>9. \A r \in Requests : ~CheckFails(r) /\ ~AbortHandler(r)
  BY DEF CheckFails, AbortHandler
<1> QED
  BY <1>2, <1>3, <1>4, <1>5, <1>6, <1>7, <1>8, <1>9 DEF Next, Policy!Next

LEMMA InitImplements == Init => PolicyInv /\ Policy!Init
<1> SUFFICES ASSUME Init PROVE PolicyInv /\ Policy!Init
  OBVIOUS
<1>1. PolicyInv
  BY DEF Init, PolicyInv, StatusFits, LastToFail, DecisionIsDue
<1>2. Outcome = [r \in Requests |-> 0] /\ Failed = [r \in Requests |-> 0]
      /\ LockedUntil = [e \in Emails |-> 0]
  BY DEF Init, Outcome, Failed, LockedUntil, ClearRow, Null
<1> QED
  BY <1>1, <1>2 DEF Init, Policy!Init

(* Handled one at a time, the look-up, the password check and the three    *)
(* statements of recordFailure, with the clock and the purge running       *)
(* between them, amount to sign-ins that take effect at one instant: one   *)
(* locks only if its failure used up the window, and does so if the window *)
(* is still used up when it decides; none gets past a lock or ends it.     *)
THEOREM SignInIsAtomicOneAtATime ==
  ASSUME MaxInFlight = 1, Faults = FALSE
  PROVE  Spec => ImplementsPolicy
<1> DEFINE J == IInv /\ OneAtATime /\ NoLockUnderWork /\ PolicyInv
<1>1. Init => J /\ Policy!Init
  BY InitInv, InitImplements
  DEF Init, OneAtATime, InFlight, NoLockUnderWork, Working
<1>2. J /\ [Next]_vars => J'
  BY StepInv, StepAlone, StepPolicy DEF IInv
<1>3. J /\ [Next]_vars => [Policy!Next]_Policy!vars
  BY StepImplements
<1> QED
  BY <1>1, <1>2, <1>3, PTL DEF Spec, ImplementsPolicy, Policy!Spec
=============================================================================
