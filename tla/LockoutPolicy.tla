---------------------------- MODULE LockoutPolicy ----------------------------
(***************************************************************************)
(* What account lockout promises, with every sign-in taking effect at one  *)
(* instant: a locked email is answered 429 and nothing else; a lock is     *)
(* only ever replaced when it has run out; and the failure that uses up    *)
(* the attempts of a window locks.  Which tables hold the failures, when   *)
(* they are purged and in how many statements one is recorded is left      *)
(* open.                                                                   *)
(***************************************************************************)
EXTENDS Naturals, FiniteSets

CONSTANTS Requests, Emails, MaxAttempts, Window, LockoutPeriod

VARIABLES
  now,         \* the clock
  email,       \* the address each sign-in is for
  outcome,     \* the status of each sign-in, 0 until it takes effect
  failed,      \* when a sign-in failed, or 0
  lockedUntil  \* the end of the last lock of each email, or 0

vars == <<now, email, outcome, failed, lockedUntil>>

Init ==
  /\ now = 1
  /\ email \in [Requests -> Emails]
  /\ outcome = [r \in Requests |-> 0]
  /\ failed = [r \in Requests |-> 0]
  /\ lockedUntil = [e \in Emails |-> 0]

Locked(e) == lockedUntil[e] > now

(* Of the failures f of e, those in the window that ends at an instant.    *)
InWindowAt(f, e, at) ==
  {q \in Requests : email[q] = e /\ f[q] # 0 /\ f[q] <= at /\ at <= f[q] + Window}

UsesUp(f, e, at) == Cardinality(InWindowAt(f, e, at)) >= MaxAttempts

Settle(r, status) ==
  /\ outcome[r] = 0
  /\ outcome' = [outcome EXCEPT ![r] = status]
  /\ UNCHANGED <<now, email>>

Refuse(r) ==
  /\ Locked(email[r])
  /\ Settle(r, 429)
  /\ UNCHANGED <<failed, lockedUntil>>

(* Neither a success nor a wrong password, as for an unverified address.   *)
Disregard(r) ==
  /\ ~Locked(email[r])
  /\ Settle(r, 403)
  /\ UNCHANGED <<failed, lockedUntil>>

Accept(r) ==
  /\ ~Locked(email[r])
  /\ Settle(r, 200)
  /\ lockedUntil' = [lockedUntil EXCEPT ![email[r]] = 0]
  /\ UNCHANGED failed

(* The failure and the decision about a lock may lie a little back.  A     *)
(* lock needs a used-up window at the failure; to do without one, there    *)
(* must be none at the decision.                                           *)
Reject(r) ==
  /\ ~Locked(email[r])
  /\ Settle(r, 401)
  /\ \E at \in 1..now : \E decided \in at..now :
       /\ failed' = [failed EXCEPT ![r] = at]
       /\ \/ /\ UsesUp(failed', email[r], at)
             /\ lockedUntil' = [lockedUntil EXCEPT ![email[r]] = decided + LockoutPeriod]
          \/ /\ ~UsesUp(failed', email[r], decided)
             /\ lockedUntil' = [lockedUntil EXCEPT ![email[r]] = 0]

Tick == now' = now + 1 /\ UNCHANGED <<email, outcome, failed, lockedUntil>>

Next == Tick \/ \E r \in Requests : Refuse(r) \/ Disregard(r) \/ Accept(r) \/ Reject(r)

Spec == Init /\ [][Next]_vars
=============================================================================
