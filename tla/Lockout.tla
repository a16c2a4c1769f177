------------------------------- MODULE Lockout -------------------------------
(***************************************************************************)
(* The sign-in endpoint with account lockout: IdentityController.signIn,   *)
(* LockoutService, the audit rows sign-in writes, and the cron job that    *)
(* purges old login attempts.                                              *)
(*                                                                         *)
(* Every element of Requests is one HTTP sign-in request.  Node runs a     *)
(* handler until it awaits, so one action is one awaited call: the SQL     *)
(* statement (or the call into better-auth) takes effect and the handler   *)
(* runs on to the next await.  Between two actions of a request any other  *)
(* request, the clock or the cron job may step.                            *)
(***************************************************************************)
EXTENDS Integers, FiniteSets

CONSTANTS
  Requests,       \* sign-in requests, each handled at most once
  Emails,         \* the addresses they try to sign in with
  MaxAttempts,    \* MAX_ATTEMPTS
  Window,         \* WINDOW_MS, in clock ticks
  LockoutPeriod,  \* LOCKOUT_MS, in clock ticks
  Retention,      \* age at which the cron job purges an attempt
  MaxInFlight,    \* bound: requests the server works on at a time
  Faults,         \* whether a statement may fail or a handler may die
  MaxTime         \* bound: the clock stops here

ASSUME LockoutAssumption ==
  /\ IsFiniteSet(Requests)
  /\ MaxAttempts \in Nat \ {0}
  /\ Window \in Nat
  /\ LockoutPeriod \in Nat
  /\ Retention \in Nat
  /\ MaxInFlight \in Nat
  /\ MaxTime \in Nat
  /\ Faults \in BOOLEAN
  /\ Window <= Retention
  /\ Window < LockoutPeriod

VARIABLES
  now,            \* the clock, starting at 1
  pc,             \* what each request's handler awaits next
  email,          \* body.email of each request
  status,         \* the HTTP status replied to the client, 0 before the reply
  failedAt,       \* created_at of the request's login_attempts row, or Null
  recent,         \* recentFailures of recordFailure, once counted
  lockUntil,      \* lockedUntil of recordFailure, once decided
  loginAttempts,  \* the rows of login_attempts, named by the request
  accountLockout, \* the account_lockouts row of each email
  auditing,       \* requests whose audit_logs insert is outstanding
  auditLog,       \* the rows of audit_logs
  alert,          \* the lockout-alert mail each request sends
  admittedAt,     \* history: when a request passed assertNotLocked
  lockedAt,       \* history: when each account_lockouts row was last locked
  broken          \* history: the branches of Promise.all a fault cut short

rows == <<loginAttempts, accountLockout>>
locals == <<email, failedAt, recent, lockUntil>>
history == <<admittedAt, lockedAt, broken>>
vars == <<now, pc, status, locals, rows, auditing, auditLog, alert, history>>

Null == 0                       \* SQL null; the clock starts above it
Times == Nat \ {Null}
AuditAction == {"sign_in", "sign_in_failed"}

Working == {"verify", "reset", "insert", "count", "upsert"}
InFlight == {r \in Requests : pc[r] \in Working} \cup auditing

TypeOK ==
  /\ now \in Times
  /\ pc \in [Requests -> Working \cup {"idle", "done"}]
  /\ email \in [Requests -> Emails]
  /\ status \in [Requests -> {0, 200, 401, 403, 429}]
  /\ failedAt \in [Requests -> Nat]
  /\ recent \in [Requests -> Nat]
  /\ lockUntil \in [Requests -> Nat]
  /\ loginAttempts \subseteq Requests
  /\ accountLockout \in [Emails -> [failedAttempts : Nat, lockedUntil : Nat]]
  /\ auditing \subseteq Requests
  /\ auditLog \subseteq [request : Requests, action : AuditAction]
  /\ alert \in [Requests -> {"none", "pending", "sent", "lost"}]
  /\ admittedAt \in [Requests -> Nat]
  /\ lockedAt \in [Emails -> Nat]
  /\ broken \subseteq Requests \X {"record", "audit"}

-----------------------------------------------------------------------------
(* An email with no row answers getStatus like a row of zero failures. *)
ClearRow == [failedAttempts |-> 0, lockedUntil |-> Null]

Init ==
  /\ now = 1
  /\ pc = [r \in Requests |-> "idle"]
  /\ email \in [Requests -> Emails]
  /\ status = [r \in Requests |-> 0]
  /\ failedAt = [r \in Requests |-> Null]
  /\ recent = [r \in Requests |-> 0]
  /\ lockUntil = [r \in Requests |-> Null]
  /\ loginAttempts = {}
  /\ accountLockout = [e \in Emails |-> ClearRow]
  /\ auditing = {}
  /\ auditLog = {}
  /\ alert = [r \in Requests |-> "none"]
  /\ admittedAt = [r \in Requests |-> 0]
  /\ lockedAt = [e \in Emails |-> 0]
  /\ broken = {}

(* getStatus(email).locked: the row has a lockedUntil that lies ahead. *)
Locked(e) == accountLockout[e].lockedUntil > now

(* assertNotLocked at the head of signIn.  A locked account is answered    *)
(* 429, whatever the password.                                             *)
Arrives(r) ==
  /\ pc[r] = "idle"
  /\ Cardinality(InFlight) < MaxInFlight

AnswerLocked(r) ==
  /\ Arrives(r)
  /\ pc' = [pc EXCEPT ![r] = "done"]
  /\ status' = [status EXCEPT ![r] = 429]
  /\ UNCHANGED <<now, locals, rows, auditing, auditLog, alert, history>>

GoVerify(r) ==
  /\ Arrives(r)
  /\ pc' = [pc EXCEPT ![r] = "verify"]
  /\ admittedAt' = [admittedAt EXCEPT ![r] = now]
  /\ UNCHANGED <<now, status, locals, rows, auditing, auditLog, alert,
                 lockedAt, broken>>

Refuse(r) == Locked(email[r]) /\ AnswerLocked(r)

(* Slip: the lock is looked up and not acted on. *)
AdmitAnyone(r) == GoVerify(r)

Admit(r) == ~Locked(email[r]) /\ GoVerify(r)

(* The lookup itself fails.  The error has no status of its own, so the    *)
(* catch in signIn turns it into a 429 as well.                            *)
CheckFails(r) == Faults /\ AnswerLocked(r)

(* Slip: only a success is followed up. *)
ForgetFailure(s) == IF s = 200 THEN "reset" ELSE "done"

(* callAuthHandler sends the reply, and only then does signIn look at its  *)
(* status: 200 and 401 are recorded, any other outcome is not.             *)
AfterReply(s) ==
  CASE s = 200 -> "reset"
    [] s = 401 -> "insert"
    [] OTHER   -> "done"

Verify(r) ==
  /\ pc[r] = "verify"
  /\ \E s \in {200, 401, 403} :
       /\ status' = [status EXCEPT ![r] = s]
       /\ pc' = [pc EXCEPT ![r] = AfterReply(s)]
       /\ auditing' = IF AfterReply(s) = "done" THEN auditing
                                                ELSE auditing \cup {r}
  /\ UNCHANGED <<now, locals, rows, auditLog, alert, history>>

(* Slip: a success takes back one failure instead of clearing the row. *)
ForgiveOne(r) ==
  /\ pc[r] = "reset"
  /\ pc' = [pc EXCEPT ![r] = "done"]
  /\ accountLockout' = [accountLockout EXCEPT
                          ![email[r]].failedAttempts = @ - 1]
  /\ UNCHANGED <<now, status, locals, loginAttempts, auditing, auditLog,
                 alert, history>>

(* recordSuccess: the row is reset whatever it says. *)
RecordSuccess(r) ==
  /\ pc[r] = "reset"
  /\ pc' = [pc EXCEPT ![r] = "done"]
  /\ accountLockout' = [accountLockout EXCEPT ![email[r]] = ClearRow]
  /\ UNCHANGED <<now, status, locals, loginAttempts, auditing, auditLog,
                 alert, history>>

(* recordFailure, first statement: insert the attempt. *)
InsertAttempt(r) ==
  /\ pc[r] = "insert"
  /\ pc' = [pc EXCEPT ![r] = "count"]
  /\ failedAt' = [failedAt EXCEPT ![r] = now]
  /\ loginAttempts' = loginAttempts \cup {r}
  /\ UNCHANGED <<now, email, recent, lockUntil, status, accountLockout,
                 auditing, auditLog, alert, history>>

(* windowStart is computed when the insert returns, before the count runs. *)
WindowStart(r) == failedAt[r] - Window

RecentFailures(r) ==
  {q \in loginAttempts : email[q] = email[r] /\ failedAt[q] >= WindowStart(r)}

(* recordFailure, second statement: count, then decide from the count. *)
LockOneEarly(n) == n + 1 >= MaxAttempts     \* slip: counts the next one in
LockOneLate(n) == n > MaxAttempts           \* slip: gt for gte
ShouldLock(n) == n >= MaxAttempts

CountRecent(r) ==
  /\ pc[r] = "count"
  /\ pc' = [pc EXCEPT ![r] = "upsert"]
  /\ recent' = [recent EXCEPT ![r] = Cardinality(RecentFailures(r))]
  /\ lockUntil' = [lockUntil EXCEPT ![r] =
       IF ShouldLock(Cardinality(RecentFailures(r)))
         THEN now + LockoutPeriod ELSE Null]
  /\ UNCHANGED <<now, email, failedAt, status, rows, auditing, auditLog,
                 alert, history>>

(* recordFailure, third statement: the upsert writes what was decided,     *)
(* over whatever the row holds by now.  A lock starts the alert mail.      *)
UpsertLockout(r) ==
  /\ pc[r] = "upsert"
  /\ pc' = [pc EXCEPT ![r] = "done"]
  /\ accountLockout' = [accountLockout EXCEPT ![email[r]] =
       [failedAttempts |-> recent[r], lockedUntil |-> lockUntil[r]]]
  /\ IF lockUntil[r] # Null
       THEN /\ alert' = [alert EXCEPT ![r] = "pending"]
            /\ lockedAt' = [lockedAt EXCEPT ![email[r]] = now]
       ELSE UNCHANGED <<alert, lockedAt>>
  /\ UNCHANGED <<now, status, locals, loginAttempts, auditing, auditLog,
                 admittedAt, broken>>

(* sendLockoutAlert runs detached; its failure is swallowed. *)
SendAlert(r) ==
  /\ alert[r] = "pending"
  /\ \E outcome \in {"sent"} \cup (IF Faults THEN {"lost"} ELSE {}) :
       alert' = [alert EXCEPT ![r] = outcome]
  /\ UNCHANGED <<now, pc, status, locals, rows, auditing, auditLog, history>>

(* audit.log, awaited in the same Promise.all as the lockout bookkeeping. *)
AuditSuccess(r) == "sign_in"                \* slip: one action for all
AuditActionOf(r) == IF status[r] = 200 THEN "sign_in" ELSE "sign_in_failed"

WriteAudit(r) ==
  /\ r \in auditing
  /\ auditing' = auditing \ {r}
  /\ auditLog' = auditLog \cup {[request |-> r, action |-> AuditActionOf(r)]}
  /\ UNCHANGED <<now, pc, status, locals, rows, alert, history>>

(* A statement of one branch of the Promise.all is refused, or the process *)
(* dies.  The rows already written stay, the other branch is not stopped.  *)
AbortHandler(r) ==
  /\ Faults
  /\ pc[r] \in Working
  /\ pc' = [pc EXCEPT ![r] = "done"]
  /\ broken' = broken \cup {<<r, "record">>}
  /\ UNCHANGED <<now, status, locals, rows, auditing, auditLog, alert,
                 admittedAt, lockedAt>>

AbortAudit(r) ==
  /\ Faults
  /\ r \in auditing
  /\ auditing' = auditing \ {r}
  /\ broken' = broken \cup {<<r, "audit">>}
  /\ UNCHANGED <<now, pc, status, locals, rows, auditLog, alert,
                 admittedAt, lockedAt>>

(* CleanupService.purgeOldLoginAttempts, a single DELETE. *)
ExpiredOrDue(r) == failedAt[r] <= now - Retention   \* slip: lte for lt
Expired(r) == failedAt[r] < now - Retention

PurgeOldLoginAttempts ==
  /\ loginAttempts' = {r \in loginAttempts : ~Expired(r)}
  /\ UNCHANGED <<now, pc, status, locals, accountLockout, auditing, auditLog,
                 alert, history>>

Tick ==
  /\ now < MaxTime
  /\ now' = now + 1
  /\ UNCHANGED <<pc, status, locals, rows, auditing, auditLog, alert, history>>

Handle(r) ==
  \/ Refuse(r)
  \/ Admit(r)
  \/ CheckFails(r)
  \/ Verify(r)
  \/ RecordSuccess(r)
  \/ InsertAttempt(r)
  \/ CountRecent(r)
  \/ UpsertLockout(r)
  \/ SendAlert(r)
  \/ WriteAudit(r)
  \/ AbortHandler(r)
  \/ AbortAudit(r)

Next ==
  \/ \E r \in Requests : Handle(r)
  \/ PurgeOldLoginAttempts
  \/ Tick

Spec == Init /\ [][Next]_vars

(* The event loop resumes every handler whose statement has returned.      *)
(* Arrivals, the clock and the cron job are not forced to step.            *)
Resume(r) ==
  \/ Verify(r)
  \/ RecordSuccess(r)
  \/ InsertAttempt(r)
  \/ CountRecent(r)
  \/ UpsertLockout(r)

FairSpec ==
  /\ Spec
  /\ \A r \in Requests : WF_vars(Resume(r)) /\ WF_vars(WriteAudit(r))

-----------------------------------------------------------------------------
(* Failed attempts on e recorded between two instants, whether or not the  *)
(* cron job has purged their rows since.                                   *)
FailuresBetween(e, from, to) ==
  {q \in Requests : /\ email[q] = e
                    /\ failedAt[q] # Null
                    /\ from <= failedAt[q] /\ failedAt[q] <= to}

(* No lock out of thin air: however requests, purges and faults interleave,*)
(* a lock in account_lockouts rests on MaxAttempts failures of that very   *)
(* email, all recorded in the window of one of them and no later than the  *)
(* moment LockoutService decided to lock.                                  *)
LockIsEarned ==
  \A e \in Emails : accountLockout[e].lockedUntil # Null =>
    \E r \in Requests :
      /\ email[r] = e
      /\ failedAt[r] # Null
      /\ Cardinality(FailuresBetween(e, WindowStart(r),
                       accountLockout[e].lockedUntil - LockoutPeriod))
           >= MaxAttempts

(* The cron job never takes away a failure the rolling window still needs: *)
(* each attempt young enough to count is in login_attempts.                *)
WindowSurvivesPurge ==
  \A r \in Requests :
    failedAt[r] # Null /\ failedAt[r] >= now - Window => r \in loginAttempts

(* While an account is locked, the only requests still at work on it are   *)
(* stragglers admitted before the lock was written: nobody gets to the     *)
(* password check, or to rewriting the row, by arriving during a lock.     *)
OnlyStragglersUnderLock ==
  \A r \in Requests :
    pc[r] \in Working /\ Locked(email[r]) => admittedAt[r] <= lockedAt[email[r]]

(* The audit trail agrees with what the client was told: a sign_in row     *)
(* only for a 200, a sign_in_failed row only for a 401, and none for a     *)
(* request that was refused or is still being verified.                    *)
AuditMatchesReply ==
  \A row \in auditLog :
    \/ row.action = "sign_in" /\ status[row.request] = 200
    \/ row.action = "sign_in_failed" /\ status[row.request] = 401

(* The reply leaves before the bookkeeping, so the client may already be   *)
(* back with the next request, and either branch of the Promise.all may    *)
(* fail.  Still no rejected password slips through: its failure is counted *)
(* in login_attempts for as long as it is young enough to matter, and the  *)
(* audit log has it, unless that very branch is under way or was cut short.*)
RejectionIsKept ==
  \A r \in Requests : status[r] = 401 =>
    /\ \/ pc[r] \in Working
       \/ <<r, "record">> \in broken
       \/ failedAt[r] # Null /\ (r \in loginAttempts \/ failedAt[r] < now - Window)
    /\ \/ r \in auditing
       \/ <<r, "audit">> \in broken
       \/ [request |-> r, action |-> "sign_in_failed"] \in auditLog

-----------------------------------------------------------------------------
(* What holds when requests are handled one at a time and nothing fails.   *)

(* The brute-force budget: no email collects more than MaxAttempts failed  *)
(* attempts in any window, successes in between or not.                    *)
WindowBudget ==
  \A e \in Emails :
    Cardinality(FailuresBetween(e, now - Window, now)) <= MaxAttempts

(* "auto-unlocks after 30 min": an active lock is never shortened.         *)
LockHolds ==
  [][\A e \in Emails : Locked(e) =>
       accountLockout'[e].lockedUntil >= accountLockout[e].lockedUntil]_vars

(* Failures that were recorded since the last recorded success are what    *)
(* the code comment calls consecutive.                                     *)
LockIsConsecutive ==
  [][\A r \in Requests :
       pc[r] = "upsert" /\ pc'[r] = "done" /\ lockUntil[r] # Null =>
         ~ \E s \in Requests :
             /\ status[s] = 200 /\ email[s] = email[r] /\ pc[s] = "done"
             /\ \E q \in RecentFailures(r) : failedAt[q] < admittedAt[s]]_vars

(* A sign-in is as good as atomic: it implements the policy, in which it   *)
(* takes effect with the last of its statements, as one step.              *)
Outcome == [r \in Requests |-> IF pc[r] = "done" THEN status[r] ELSE 0]
Failed == [r \in Requests |-> IF pc[r] = "done" THEN failedAt[r] ELSE Null]
LockedUntil == [e \in Emails |-> accountLockout[e].lockedUntil]

Policy == INSTANCE LockoutPolicy WITH
  outcome <- Outcome, failed <- Failed, lockedUntil <- LockedUntil

ImplementsPolicy == Policy!Spec

-----------------------------------------------------------------------------
(* With the liveness of each branch on top (by hand, on two requests): the *)
(* client of a rejected sign-in has its answer before any of the           *)
(* bookkeeping, and the bookkeeping still gets done, faults apart.         *)
RejectionIsCounted ==
  \A r \in Requests :
    status[r] = 401 ~>
      /\ <<r, "record">> \in broken \/ (pc[r] = "done" /\ failedAt[r] # Null)
      /\ \/ <<r, "audit">> \in broken
         \/ [request |-> r, action |-> "sign_in_failed"] \in auditLog
=============================================================================
