------------------------------ MODULE StaleView ------------------------------
(***************************************************************************)
(* What a guard that answers from copies may promise: it lets a request    *)
(* through with a view of its session that the database really held, no    *)
(* longer ago than maxAge, and turns a request away only when the database *)
(* holds no session at that instant.  How copies are made, how many there  *)
(* are and when they are dropped is left open.                             *)
(***************************************************************************)
EXTENDS Naturals

CONSTANTS
  Requests, Tokens, Roles, NoSession,
  maxAge      \* how old an answer may be

VARIABLES
  now,        \* the clock
  truth,      \* what the database says of each token: a role or NoSession
  heldUntil,  \* the last instant it is known to have said so, by what it said
  carries,    \* the token each request presents
  verdict     \* the role a request was let through with, or "refused"

vars == <<now, truth, heldUntil, carries, verdict>>

Answers == Roles \cup {NoSession}

(* The database held v for t at the instant at, or later. *)
HeldSince(t, v, at) == truth[t] = v \/ heldUntil[t][v] >= at

Init ==
  /\ now = 1
  /\ truth = [t \in Tokens |-> NoSession]
  /\ heldUntil = [t \in Tokens |-> [v \in Answers |-> 0]]
  /\ carries \in [Requests -> Tokens]
  /\ verdict = [r \in Requests |-> "pending"]

(* Time and the database move; what was true a moment ago is remembered.   *)
Move ==
  /\ now' \in {now, now + 1}
  /\ truth' \in [Tokens -> Answers]
  /\ heldUntil' = [t \in Tokens |->
       IF truth'[t] = truth[t] THEN heldUntil[t]
                               ELSE [heldUntil[t] EXCEPT ![truth[t]] = now]]
  /\ UNCHANGED <<carries, verdict>>

LetThrough(r) ==
  /\ verdict[r] = "pending"
  /\ \E v \in Roles :
       /\ \E at \in 1..now : at + maxAge >= now /\ HeldSince(carries[r], v, at)
       /\ verdict' = [verdict EXCEPT ![r] = v]
  /\ UNCHANGED <<now, truth, heldUntil, carries>>

TurnAway(r) ==
  /\ verdict[r] = "pending"
  /\ truth[carries[r]] = NoSession
  /\ verdict' = [verdict EXCEPT ![r] = "refused"]
  /\ UNCHANGED <<now, truth, heldUntil, carries>>

Next == Move \/ \E r \in Requests : LetThrough(r) \/ TurnAway(r)

Spec == Init /\ [][Next]_vars
=============================================================================
