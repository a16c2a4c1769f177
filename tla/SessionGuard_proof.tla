------------------------- MODULE SessionGuard_proof -------------------------
(***************************************************************************)
(* SessionGuard implements StaleView for any number of requests, tokens    *)
(* and users and any lifetimes.  The argument follows a copy through the   *)
(* system: each one, wherever it is, tells what the database held at some  *)
(* instant that its own deadline bounds.                                   *)
(***************************************************************************)
EXTENDS SessionGuard, TLAPS

(* The database held v for t at the instant at, or later. *)
Held(t, v, at) == Truth[t] = v \/ heldUntil[t][v] >= at

(* A copy that lapses at until is not older than age by then. *)
Genuine(t, copy, age) ==
  copy.until # 0 =>
    \E at \in 1..now : at + age >= copy.until /\ Held(t, copy.role, at)

JarIsGenuine == \A t \in Tokens : Genuine(t, jar[t], CookieMaxAge)

CarriedIsGenuine ==
  \A r \in Requests : Genuine(Token(r), carried[r], CookieMaxAge)

CacheIsGenuine == \A k \in Keys : Genuine(k[2], cache[k], MaxAge + 1)

(* What a request is about to write into the cache is as old as the copy   *)
(* it comes from, and the write has not been under way for long.           *)
SeenIsGenuine ==
  \A r \in Requests : pc[r] = "set" =>
    /\ seen[r] \in Roles
    /\ now <= readAt[r] + MaxLatency
    /\ \E at \in 1..now : /\ at + (CookieMaxAge - 1) >= readAt[r]
                          /\ Held(Token(r), seen[r], at)

IInv ==
  /\ TypeOK
  /\ JarIsGenuine
  /\ CarriedIsGenuine
  /\ CacheIsGenuine
  /\ SeenIsGenuine

-----------------------------------------------------------------------------
USE DEF db

(* Every reachable state is well typed.                                    *)
LEMMA InitTyped == Init => TypeOK
BY SessionAssumption DEF Init, TypeOK, NoCopy, Copies, Roles, Answers,
   NoSession, Ended

LEMMA TruthTyped == TypeOK => Truth \in [Tokens -> Answers]
BY SessionAssumption DEF TypeOK, Truth, Answers

LEMMA TokenTyped ==
  TypeOK => \A r \in Requests : Token(r) \in Tokens /\ CacheKey(r) \in Keys
BY DEF TypeOK, Keys, Token, CacheKey, Mechanisms

(* Steps that remember, and steps that have nothing to remember.           *)
LEMMA HistoryFollows == TypeOK /\ [Next]_vars => Remember
<1> SUFFICES ASSUME TypeOK, [Next]_vars PROVE Remember
  OBVIOUS
<1>1. ASSUME UNCHANGED <<now, role, expiresAt, heldUntil>> PROVE Remember
  <2>1. Truth' = Truth
    BY <1>1 DEF Truth, Live
  <2> QED
    BY <1>1, <2>1 DEF Remember, TypeOK
<1>2. ASSUME NEW r \in Requests, Guard(r) PROVE Remember
  BY <1>1, <1>2 DEF Guard, Send, CacheHit, CacheMiss, LookupCookie, LookupRow,
     Fill
<1>3. CASE UNCHANGED vars
  BY <1>1, <1>3 DEF vars
<1>4. CASE \E t \in Tokens : SignIn(t) \/ SignOut(t) \/ GetSession(t)
  BY <1>4 DEF SignIn, SignOut, GetSession
<1>5. CASE \/ \E u \in Users : UpdateRole(u) \/ Revoke(u)
           \/ PurgeExpiredSessions \/ Tick
  BY <1>5 DEF UpdateRole, Revoke, PurgeExpiredSessions, Tick
<1> QED
  BY <1>2, <1>3, <1>4, <1>5 DEF Next

LEMMA StepHistoryTyped ==
  TypeOK /\ Remember => heldUntil' \in [Tokens -> [Answers -> Nat]]
BY TruthTyped DEF TypeOK, Remember

LEMMA RowsTyped ==
  ASSUME TypeOK, NEW t \in Tokens
  PROVE  AfterRead(t) \in Nat /\ FreshCopy(t) \in Copies
BY SessionAssumption DEF TypeOK, AfterRead, FreshCopy, Copies

LEMMA StepTyped == TypeOK /\ SeenIsGenuine /\ [Next]_vars => TypeOK'
<1> SUFFICES ASSUME TypeOK, SeenIsGenuine, [Next]_vars PROVE TypeOK'
  OBVIOUS
<1>1. heldUntil' \in [Tokens -> [Answers -> Nat]]
  BY HistoryFollows, StepHistoryTyped
<1>2. NoCopy \in Copies
  BY DEF NoCopy, Copies, Roles
<1> USE <1>1, <1>2 DEF TypeOK
<1>3. ASSUME NEW t \in Tokens, SignIn(t) \/ SignOut(t) \/ GetSession(t)
      PROVE  TypeOK'
  <2>1. AfterRead(t) \in Nat /\ FreshCopy(t) \in Copies /\ now + ExpiresIn \in Nat
    BY RowsTyped, SessionAssumption
  <2>2. CASE SignIn(t)
    BY <2>1, <2>2 DEF SignIn
  <2>3. CASE SignOut(t)
    BY <2>3 DEF SignOut
  <2>4. CASE GetSession(t)
    BY <2>1, <2>4 DEF GetSession
  <2> QED
    BY <1>3, <2>2, <2>3, <2>4
<1>4. ASSUME NEW u \in Users, UpdateRole(u) \/ Revoke(u) PROVE TypeOK'
  <2>1. CASE UpdateRole(u)
    BY <2>1 DEF UpdateRole
  <2>2. CASE Revoke(u)
    BY <2>2 DEF Revoke
  <2> QED
    BY <1>4, <2>1, <2>2
<1>5. CASE PurgeExpiredSessions
  BY <1>5 DEF PurgeExpiredSessions
<1>6. ASSUME NEW r \in Requests, Send(r) \/ CacheMiss(r) PROVE TypeOK'
  <2>1. CASE Send(r)
    <3>1. jar[Token(r)] \in Copies
      BY TokenTyped
    <3> QED
      BY <2>1, <3>1 DEF Send
  <2>2. CASE CacheMiss(r)
    BY <2>2 DEF CacheMiss
  <2> QED
    BY <1>6, <2>1, <2>2
<1>7. ASSUME NEW r \in Requests, CacheHit(r) PROVE TypeOK'
  <2>1. cache[CacheKey(r)] \in Copies
    BY TokenTyped
  <2> QED
    BY <1>7, <2>1 DEF CacheHit, RoleVerdict, Copies, Answers, Ended
<1>8. ASSUME NEW r \in Requests, LookupCookie(r) PROVE TypeOK'
  BY <1>8 DEF LookupCookie, Copies, Answers
<1>9. ASSUME NEW r \in Requests, LookupRow(r) PROVE TypeOK'
  BY <1>9, RowsTyped, TokenTyped, TruthTyped DEF LookupRow, Ended
<1>10. ASSUME NEW r \in Requests, Fill(r) PROVE TypeOK'
  <2>1. CacheKey(r) \in Keys /\ FillUntil \in Nat /\ seen[r] \in Roles
    BY <1>10, TokenTyped, SessionAssumption DEF Fill, SeenIsGenuine, FillUntil
  <2> QED
    BY <1>10, <2>1 DEF Fill, RoleVerdict, Copies, Ended
<1>11. CASE Tick
  BY <1>11 DEF Tick
<1>12. CASE UNCHANGED vars
  BY <1>12 DEF vars
<1> QED
  BY <1>3, <1>4, <1>5, <1>6, <1>7, <1>8, <1>9, <1>10, <1>11, <1>12 DEF Next, Guard

-----------------------------------------------------------------------------
(* What was true stays on record.                                          *)
LEMMA HeldStays ==
  ASSUME TypeOK, [Next]_vars, NEW t \in Tokens, NEW v \in Answers,
         NEW at \in 1..now, Held(t, v, at)
  PROVE  Held(t, v, at)'
<1>1. Remember
  BY HistoryFollows
<1>2. Truth \in [Tokens -> Answers]
  BY TruthTyped
<1> QED
  BY <1>1, <1>2 DEF Remember, Held, TypeOK

LEMMA ClockMoves == TypeOK /\ [Next]_vars => now' \in {now, now + 1}
<1> SUFFICES ASSUME TypeOK, [Next]_vars PROVE now' \in {now, now + 1}
  OBVIOUS
<1>1. ASSUME NEW r \in Requests, Guard(r) PROVE now' = now
  BY <1>1 DEF Guard, Send, CacheHit, CacheMiss, LookupCookie, LookupRow, Fill
<1> QED
  BY <1>1 DEF Next, SignIn, SignOut, GetSession, UpdateRole, Revoke,
     PurgeExpiredSessions, Tick, vars

(* A genuine copy stays genuine, wherever it is put.                       *)
LEMMA GenuineStays ==
  ASSUME TypeOK, [Next]_vars, NEW t \in Tokens, NEW age \in Nat,
         NEW copy \in Copies, Genuine(t, copy, age)
  PROVE  Genuine(t, copy, age)'
<1> SUFFICES ASSUME copy.until # 0
             PROVE  \E at \in 1..now' :
                      at + age >= copy.until /\ Held(t, copy.role, at)'
  BY DEF Genuine
<1>1. PICK at \in 1..now : at + age >= copy.until /\ Held(t, copy.role, at)
  BY DEF Genuine
<1>2. at \in 1..now'
  BY ClockMoves DEF TypeOK
<1>3. Held(t, copy.role, at)'
  BY <1>1, HeldStays DEF Copies, Answers
<1> QED
  BY <1>1, <1>2, <1>3

(* A copy taken from a live row is genuine, and so is no copy.             *)
LEMMA FreshIsGenuine ==
  ASSUME TypeOK, NEW t \in Tokens, now' = now,
         Truth'[t] = role[UserOf[t]], NEW copy, copy = FreshCopy(t)
  PROVE  Genuine(t, copy, CookieMaxAge)'
<1>1. now \in 1..now' /\ now + CookieMaxAge >= copy.until
  BY SessionAssumption DEF TypeOK, FreshCopy
<1>2. Held(t, copy.role, now)'
  BY DEF Held, FreshCopy
<1> QED
  BY <1>1, <1>2 DEF Genuine

LEMMA NoCopyIsGenuine ==
  \A t, age : Genuine(t, NoCopy, age) /\ Genuine(t, NoCopy, age)'
BY DEF Genuine, NoCopy

(* A row that is read is as live afterwards as before.                     *)
LEMMA ReadKeepsLife ==
  ASSUME TypeOK, NEW t \in Tokens
  PROVE  AfterRead(t) > now <=> Live(t)
BY SessionAssumption DEF TypeOK, AfterRead, Live

LEMMA StepJar == TypeOK /\ JarIsGenuine /\ [Next]_vars => JarIsGenuine'
<1> SUFFICES ASSUME TypeOK, JarIsGenuine, [Next]_vars, NEW q \in Tokens
             PROVE  Genuine(q, jar[q], CookieMaxAge)'
  BY DEF JarIsGenuine
<1> USE SessionAssumption
<1>1. ASSUME jar'[q] = jar[q] PROVE Genuine(q, jar[q], CookieMaxAge)'
  <2>1. \A copy \in Copies : Genuine(q, copy, CookieMaxAge)
                               => Genuine(q, copy, CookieMaxAge)'
    BY GenuineStays
  <2> QED
    BY <1>1, <2>1 DEF JarIsGenuine, TypeOK, Genuine
<1>2. ASSUME jar'[q] = NoCopy PROVE Genuine(q, jar[q], CookieMaxAge)'
  BY <1>2, NoCopyIsGenuine DEF Genuine
<1>3. ASSUME jar'[q] = FreshCopy(q), now' = now, role' = role, expiresAt'[q] > now
      PROVE  Genuine(q, jar[q], CookieMaxAge)'
  <2>1. Truth'[q] = role[UserOf[q]]
    BY <1>3 DEF Truth, Live
  <2>2. \A copy : copy = FreshCopy(q) => Genuine(q, copy, CookieMaxAge)'
    BY <1>3, <2>1, FreshIsGenuine
  <2> QED
    BY <1>3, <2>2 DEF Genuine
<1>4. ASSUME NEW t \in Tokens, SignIn(t)
      PROVE  Genuine(q, jar[q], CookieMaxAge)'
  BY <1>1, <1>3, <1>4 DEF SignIn, TypeOK
<1>5. ASSUME NEW t \in Tokens, SignOut(t)
      PROVE  Genuine(q, jar[q], CookieMaxAge)'
  BY <1>1, <1>2, <1>5 DEF SignOut, TypeOK
<1>6. ASSUME NEW t \in Tokens, GetSession(t)
      PROVE  Genuine(q, jar[q], CookieMaxAge)'
  BY <1>1, <1>2, <1>3, <1>6, ReadKeepsLife DEF GetSession, TypeOK
<1>7. ASSUME NEW r \in Requests, Guard(r) PROVE jar' = jar
  BY <1>7 DEF Guard, Send, CacheHit, CacheMiss, LookupCookie, LookupRow, Fill
<1>8. CASE (\E u \in Users : UpdateRole(u) \/ Revoke(u)) \/ PurgeExpiredSessions \/ Tick
           \/ UNCHANGED vars
  BY <1>1, <1>8 DEF UpdateRole, Revoke, PurgeExpiredSessions, Tick, vars
<1> QED
  BY <1>1, <1>4, <1>5, <1>6, <1>7, <1>8 DEF Next

LEMMA StepCarried ==
  TypeOK /\ JarIsGenuine /\ CarriedIsGenuine /\ [Next]_vars => CarriedIsGenuine'
<1> SUFFICES ASSUME TypeOK, JarIsGenuine, CarriedIsGenuine, [Next]_vars,
                    NEW q \in Requests
             PROVE  Genuine(Token(q), carried[q], CookieMaxAge)'
  BY DEF CarriedIsGenuine
<1>1. via' = via
  <2>1. ASSUME NEW r \in Requests, Guard(r) PROVE via' = via
    BY <2>1 DEF Guard, Send, CacheHit, CacheMiss, LookupCookie, LookupRow, Fill
  <2> QED
    BY <2>1 DEF Next, SignIn, SignOut, GetSession, UpdateRole, Revoke,
       PurgeExpiredSessions, Tick, vars
<1>2. Token(q) \in Tokens /\ Token(q)' = Token(q)
  BY <1>1, TokenTyped DEF Token
<1>3. \A copy \in Copies : Genuine(Token(q), copy, CookieMaxAge)
                             => Genuine(Token(q), copy, CookieMaxAge)'
  <2>1. \A t \in Tokens, copy \in Copies :
          Genuine(t, copy, CookieMaxAge) => Genuine(t, copy, CookieMaxAge)'
    BY GenuineStays, SessionAssumption
  <2> QED
    BY <1>2, <2>1 DEF Genuine
<1>4. ASSUME carried'[q] \in {carried[q], NoCopy}
      PROVE  Genuine(Token(q), carried[q], CookieMaxAge)'
  BY <1>4, <1>1, <1>3, NoCopyIsGenuine DEF CarriedIsGenuine, TypeOK, Genuine
<1>5. ASSUME NEW r \in Requests, Send(r)
      PROVE  Genuine(Token(q), carried[q], CookieMaxAge)'
  <2>1. CASE r # q
    BY <1>4, <1>5, <2>1 DEF Send, TypeOK
  <2>2. CASE r = q /\ "cookie" \notin via[q][1]
    BY <1>4, <1>5, <2>2 DEF Send, TypeOK
  <2>3. CASE r = q /\ "cookie" \in via[q][1]
    <3>1. carried'[q] = jar[Token(q)]
      BY <1>5, <2>3 DEF Send, TypeOK
    <3>2. Genuine(Token(q), jar[Token(q)], CookieMaxAge)
      BY <1>2 DEF JarIsGenuine
    <3> QED
      BY <1>1, <1>2, <1>3, <2>3, <3>1, <3>2 DEF Genuine, TypeOK
  <2> QED
    BY <2>1, <2>2, <2>3
<1>6. ASSUME NEW r \in Requests, Guard(r), ~Send(r)
      PROVE  carried'[q] \in {carried[q], NoCopy}
  BY <1>6 DEF Guard, CacheHit, CacheMiss, LookupCookie, LookupRow, Fill, TypeOK
<1>7. CASE (\E u \in Users : UpdateRole(u) \/ Revoke(u)) \/ PurgeExpiredSessions \/ Tick
           \/ (\E t \in Tokens : SignIn(t) \/ SignOut(t) \/ GetSession(t))
           \/ UNCHANGED vars
  BY <1>4, <1>7 DEF UpdateRole, Revoke, PurgeExpiredSessions, Tick, vars, SignIn,
     SignOut, GetSession
<1> QED
  BY <1>4, <1>5, <1>6, <1>7 DEF Next

(* The instant an answer dates from survives the step, for the same token. *)
LEMMA RoutesStay == TypeOK /\ [Next]_vars => via' = via
<1> SUFFICES ASSUME TypeOK, [Next]_vars PROVE via' = via
  OBVIOUS
<1>1. ASSUME NEW r \in Requests, Guard(r) PROVE via' = via
  BY <1>1 DEF Guard, Send, CacheHit, CacheMiss, LookupCookie, LookupRow, Fill
<1> QED
  BY <1>1 DEF Next, SignIn, SignOut, GetSession, UpdateRole, Revoke,
     PurgeExpiredSessions, Tick, vars

Dated(q, v, by) ==
  \E at \in 1..now : at + (CookieMaxAge - 1) >= by /\ Held(Token(q), v, at)

LEMMA DatedStays ==
  ASSUME TypeOK, [Next]_vars, NEW q \in Requests, NEW v \in Answers,
         NEW by \in Nat, Dated(q, v, by)
  PROVE  Dated(q, v, by)'
<1>1. PICK at \in 1..now : at + (CookieMaxAge - 1) >= by /\ Held(Token(q), v, at)
  BY DEF Dated
<1>2. at \in 1..now'
  BY ClockMoves DEF TypeOK
<1>3. via' = via /\ Token(q)' = Token(q) /\ Token(q) \in Tokens
  BY RoutesStay, TokenTyped DEF Token
<1>4. \A t \in Tokens : Held(t, v, at) => Held(t, v, at)'
  BY HeldStays
<1>5. Held(Token(q), v, at)'
  BY <1>1, <1>3, <1>4 DEF Held
<1> QED
  BY <1>1, <1>2, <1>3, <1>5 DEF Dated

LEMMA StepSeen ==
  TypeOK /\ CarriedIsGenuine /\ SeenIsGenuine /\ [Next]_vars => SeenIsGenuine'
<1> SUFFICES ASSUME TypeOK, CarriedIsGenuine, SeenIsGenuine, [Next]_vars,
                    NEW q \in Requests, pc'[q] = "set"
             PROVE  /\ seen'[q] \in Roles
                    /\ now' <= readAt'[q] + MaxLatency
                    /\ Dated(q, seen[q], readAt[q])'
  BY DEF SeenIsGenuine, Dated
<1> USE SessionAssumption
<1>1. ASSUME pc[q] = "set", seen'[q] = seen[q], readAt'[q] = readAt[q],
             now' = now \/ now < readAt[q] + MaxLatency
      PROVE  /\ seen'[q] \in Roles
             /\ now' <= readAt'[q] + MaxLatency
             /\ Dated(q, seen[q], readAt[q])'
  <2>1. seen[q] \in Roles /\ now <= readAt[q] + MaxLatency
        /\ Dated(q, seen[q], readAt[q])
    BY <1>1 DEF SeenIsGenuine, Dated
  <2>2. \A v \in Answers, by \in Nat : Dated(q, v, by) => Dated(q, v, by)'
    BY DatedStays
  <2>3. Dated(q, seen[q], readAt[q])'
    BY <1>1, <2>1, <2>2 DEF TypeOK, Dated
  <2>4. now' <= readAt'[q] + MaxLatency
    BY <1>1, <2>1, ClockMoves DEF TypeOK
  <2> QED
    BY <1>1, <2>1, <2>3, <2>4
<1>2. ASSUME LookupCookie(q)
      PROVE  /\ seen'[q] \in Roles
             /\ now' <= readAt'[q] + MaxLatency
             /\ Dated(q, seen[q], readAt[q])'
  <2>1. seen'[q] = carried[q].role /\ readAt'[q] = now /\ now' = now
        /\ now < carried[q].until /\ carried[q].role \in Roles
        /\ carried[q].until \in Nat
    BY <1>2 DEF LookupCookie, Valid, TypeOK, Copies
  <2>2. PICK at \in 1..now : at + CookieMaxAge >= carried[q].until
                             /\ Held(Token(q), carried[q].role, at)
    <3>1. carried[q].until # 0
      BY <2>1 DEF TypeOK
    <3>2. Genuine(Token(q), carried[q], CookieMaxAge)
      BY DEF CarriedIsGenuine
    <3> QED
      BY <3>1, <3>2 DEF Genuine
  <2>3. at + (CookieMaxAge - 1) >= now
    BY <2>1, <2>2 DEF TypeOK
  <2>4. Dated(q, carried[q].role, now)
    BY <2>2, <2>3 DEF Dated
  <2>5. \A v \in Answers, by \in Nat : Dated(q, v, by) => Dated(q, v, by)'
    BY DatedStays
  <2>6. Dated(q, seen[q], readAt[q])'
    BY <2>1, <2>4, <2>5 DEF TypeOK, Dated, Answers
  <2> QED
    BY <2>1, <2>6 DEF TypeOK
<1>3. ASSUME LookupRow(q)
      PROVE  /\ seen'[q] \in Roles
             /\ now' <= readAt'[q] + MaxLatency
             /\ Dated(q, seen[q], readAt[q])'
  <2>1. seen'[q] = Truth[Token(q)] /\ readAt'[q] = now /\ now' = now
        /\ Live(Token(q)) /\ Token(q) \in Tokens
    BY <1>3, TokenTyped DEF LookupRow, TypeOK
  <2>2. Truth[Token(q)] \in Roles
    BY <2>1 DEF Truth, TypeOK
  <2>3. now + (CookieMaxAge - 1) >= now /\ now \in 1..now
    BY DEF TypeOK
  <2>4. Dated(q, Truth[Token(q)], now)
    BY <2>3 DEF Dated, Held
  <2>5. \A v \in Answers, by \in Nat : Dated(q, v, by) => Dated(q, v, by)'
    BY DatedStays
  <2>6. Dated(q, seen[q], readAt[q])'
    BY <2>1, <2>2, <2>4, <2>5 DEF TypeOK, Dated, Answers
  <2> QED
    BY <2>1, <2>2, <2>6 DEF TypeOK
<1>4. ASSUME NEW r \in Requests, Guard(r), ~(r = q /\ LookupCookie(q)),
             ~(r = q /\ LookupRow(q))
      PROVE  /\ pc[q] = "set" /\ seen'[q] = seen[q] /\ readAt'[q] = readAt[q]
             /\ now' = now
  BY <1>4 DEF Guard, Send, CacheHit, CacheMiss, LookupCookie, LookupRow, Fill,
     TypeOK, RoleVerdict
<1>5. CASE Tick
  BY <1>1, <1>5 DEF Tick
<1>6. CASE (\E u \in Users : UpdateRole(u) \/ Revoke(u)) \/ PurgeExpiredSessions
           \/ (\E t \in Tokens : SignIn(t) \/ SignOut(t) \/ GetSession(t))
           \/ UNCHANGED vars
  BY <1>1, <1>6 DEF UpdateRole, Revoke, PurgeExpiredSessions, vars, SignIn, SignOut,
     GetSession
<1> QED
  BY <1>1, <1>2, <1>3, <1>4, <1>5, <1>6 DEF Next

LEMMA StepCache ==
  TypeOK /\ SeenIsGenuine /\ CacheIsGenuine /\ [Next]_vars => CacheIsGenuine'
<1> SUFFICES ASSUME TypeOK, SeenIsGenuine, CacheIsGenuine, [Next]_vars,
                    NEW k \in Keys
             PROVE  Genuine(k[2], cache[k], MaxAge + 1)'
  BY DEF CacheIsGenuine, MaxAge
<1> USE SessionAssumption
<1>1. ASSUME cache'[k] = cache[k]
      PROVE  Genuine(k[2], cache[k], MaxAge + 1)'
  <2>1. k[2] \in Tokens /\ MaxAge + 1 \in Nat
    BY DEF Keys, MaxAge
  <2>2. \A copy \in Copies :
          Genuine(k[2], copy, MaxAge + 1) =>
            Genuine(k[2], copy, MaxAge + 1)'
    BY <2>1, GenuineStays
  <2> QED
    BY <1>1, <2>2 DEF CacheIsGenuine, TypeOK, Genuine
<1>2. ASSUME NEW r \in Requests, Fill(r)
      PROVE  Genuine(k[2], cache[k], MaxAge + 1)'
  <2>1. CASE CacheKey(r) # k
    BY <1>1, <1>2, <2>1 DEF Fill, TypeOK
  <2>2. CASE CacheKey(r) = k
    <3>1. cache'[k] = [role |-> seen[r], until |-> now + CacheTTL] /\ now' = now
          /\ Token(r) = k[2]
      BY <1>2, <2>2 DEF Fill, FillUntil, TypeOK, CacheKey
    <3>2. PICK at \in 1..now : at + (CookieMaxAge - 1) >= readAt[r]
                               /\ Held(k[2], seen[r], at)
      BY <1>2, <2>2, <3>1 DEF Fill, SeenIsGenuine
    <3>3. now <= readAt[r] + MaxLatency /\ seen[r] \in Answers
      BY <1>2 DEF Fill, SeenIsGenuine, TypeOK
    <3>4. at + (MaxAge + 1) >= now + CacheTTL
      BY <3>2, <3>3 DEF TypeOK, MaxAge
    <3>5. k[2] \in Tokens
      BY DEF Keys
    <3>6. Held(k[2], seen[r], at)'
      <4>1. \A v \in Answers : Held(k[2], v, at) => Held(k[2], v, at)'
        BY <3>5, HeldStays
      <4>2. seen' = seen
        BY <1>2 DEF Fill
      <4> QED
        BY <3>2, <3>3, <4>1, <4>2 DEF Held
    <3>7. seen' = seen
      BY <1>2 DEF Fill
    <3> QED
      BY <3>1, <3>4, <3>6, <3>7 DEF Genuine, Held
  <2> QED
    BY <2>1, <2>2
<1>3. ASSUME NEW r \in Requests, Guard(r), ~Fill(r) PROVE cache' = cache
  BY <1>3 DEF Guard, Send, CacheHit, CacheMiss, LookupCookie, LookupRow
<1>4. CASE (\E u \in Users : UpdateRole(u) \/ Revoke(u)) \/ PurgeExpiredSessions \/ Tick
           \/ (\E t \in Tokens : SignIn(t) \/ SignOut(t) \/ GetSession(t))
           \/ UNCHANGED vars
  BY <1>1, <1>4 DEF UpdateRole, Revoke, PurgeExpiredSessions, Tick, vars, SignIn,
     SignOut, GetSession
<1> QED
  BY <1>1, <1>2, <1>3, <1>4 DEF Next

-----------------------------------------------------------------------------
LEMMA InitInv == Init => IInv
<1> SUFFICES ASSUME Init PROVE IInv
  OBVIOUS
<1>1. TypeOK
  BY InitTyped
<1>2. JarIsGenuine /\ CarriedIsGenuine /\ CacheIsGenuine
  BY NoCopyIsGenuine DEF Init, JarIsGenuine, CarriedIsGenuine, CacheIsGenuine
<1>3. SeenIsGenuine
  BY DEF Init, SeenIsGenuine
<1> QED
  BY <1>1, <1>2, <1>3 DEF IInv

LEMMA StepInv == IInv /\ [Next]_vars => IInv'
BY StepTyped, StepJar, StepCarried, StepCache, StepSeen DEF IInv

(* Every reachable state is well typed: a handler behind the guards always *)
(* sees a user, never the empty answer.                                    *)
THEOREM TypeCorrect == Spec => []TypeOK
<1>1. IInv => TypeOK
  BY DEF IInv
<1> QED
  BY <1>1, InitInv, StepInv, PTL DEF Spec

(* The steps of the database and the clock are moves of StaleView.         *)
LEMMA MoveImplements ==
  ASSUME IInv, [Next]_vars, UNCHANGED <<pc, seen>>
  PROVE  View!Move
<1>1. TypeOK /\ TypeOK'
  BY StepInv DEF IInv
<1>2. now' \in {now, now + 1} /\ via' = via /\ Remember
  BY <1>1, ClockMoves, RoutesStay, HistoryFollows
<1>3. Truth' \in [Tokens -> View!Answers]
  BY <1>1, SessionAssumption DEF Truth, TypeOK, View!Answers, Roles, NoSession
<1>4. UNCHANGED <<[r \in Requests |-> Token(r)], Verdict>>
  BY <1>2 DEF Token, Verdict
<1> QED
  BY <1>2, <1>3, <1>4 DEF View!Move, Remember

(* A guard that lets a request through on a genuine answer is allowed to.  *)
LEMMA LetThroughImplements ==
  ASSUME TypeOK, NEW r \in Requests,
         pc[r] \in {"get", "set"}, pc'[r] \in {"handled", "forbidden"},
         \A q \in Requests \ {r} : pc'[q] = pc[q] /\ seen'[q] = seen[q],
         seen'[r] \in Roles,
         UNCHANGED <<now, role, expiresAt, via, heldUntil>>,
         NEW at \in 1..now, at + MaxAge >= now, Held(Token(r), seen'[r], at)
  PROVE  View!LetThrough(r)
<1>1. UNCHANGED <<now, Truth, heldUntil, [q \in Requests |-> Token(q)]>>
  BY DEF Truth, Live, Token
<1>2. Verdict[r] = "pending" /\ Verdict' = [Verdict EXCEPT ![r] = seen'[r]]
  BY DEF Verdict
<1>3. View!HeldSince(Token(r), seen'[r], at)
  BY DEF View!HeldSince, Held
<1> QED
  BY <1>1, <1>2, <1>3 DEF View!LetThrough

LEMMA StepImplements == IInv /\ [Next]_vars => [View!Next]_View!vars
<1> SUFFICES ASSUME IInv, [Next]_vars PROVE [View!Next]_View!vars
  OBVIOUS
<1> USE SessionAssumption
<1>1. TypeOK
  BY DEF IInv
<1>2. ASSUME UNCHANGED <<pc, seen>> PROVE View!Next
  BY <1>2, MoveImplements DEF View!Next
<1>3. ASSUME NEW r \in Requests, LookupCookie(r)
      PROVE  UNCHANGED View!vars
  <2>1. UNCHANGED <<now, role, expiresAt, via, heldUntil>>
    BY <1>3 DEF LookupCookie
  <2>2. Verdict' = Verdict
    BY <1>1, <1>3 DEF LookupCookie, Verdict, TypeOK
  <2> QED
    BY <2>1, <2>2 DEF View!vars, Truth, Live, Token
<1>4. ASSUME NEW r \in Requests, Send(r) \/ CacheMiss(r)
      PROVE  UNCHANGED View!vars
  <2>1. UNCHANGED <<now, role, expiresAt, via, heldUntil>>
    BY <1>4 DEF Send, CacheMiss
  <2>2. Verdict' = Verdict
    BY <1>1, <1>4 DEF Send, CacheMiss, Verdict, TypeOK
  <2> QED
    BY <2>1, <2>2 DEF View!vars, Truth, Live, Token
<1>5. ASSUME NEW r \in Requests, LookupRow(r)
      PROVE  [View!Next]_View!vars
  <2>1. UNCHANGED <<now, role, via>> /\ Token(r) \in Tokens
    BY <1>1, <1>5, TokenTyped DEF LookupRow
  <2>2. Truth' = Truth
    <3>1. \A t \in Tokens : expiresAt'[t] > now <=> expiresAt[t] > now
      BY <1>1, <1>5, <2>1, ReadKeepsLife DEF LookupRow, TypeOK, Live
    <3> QED
      BY <2>1, <3>1 DEF Truth, Live
  <2>3. heldUntil' = heldUntil
    BY <1>1, <2>2, HistoryFollows DEF Remember, TypeOK
  <2>4. UNCHANGED <<[q \in Requests |-> Token(q)]>>
    BY <2>1 DEF Token
  <2>5. CASE Live(Token(r))
    <3>1. Verdict' = Verdict
      BY <1>1, <1>5, <2>5 DEF LookupRow, Verdict, TypeOK
    <3> QED
      BY <2>1, <2>2, <2>3, <2>4, <3>1 DEF View!vars
  <2>6. CASE ~Live(Token(r))
    <3>1. Verdict[r] = "pending" /\ Verdict' = [Verdict EXCEPT ![r] = "refused"]
      BY <1>1, <1>5, <2>6 DEF LookupRow, Verdict, TypeOK
    <3>2. Truth[Token(r)] = NoSession
      BY <2>1, <2>6 DEF Truth
    <3>3. View!TurnAway(r)
      BY <2>1, <2>2, <2>3, <2>4, <3>1, <3>2 DEF View!TurnAway
    <3> QED
      BY <3>3 DEF View!Next
  <2> QED
    BY <2>5, <2>6
<1>6. ASSUME NEW r \in Requests, CacheHit(r) PROVE View!Next
  <2> DEFINE k == CacheKey(r)
  <2>1. k \in Keys /\ cache[k].until # 0 /\ cache[k].until > now
        /\ cache[k].role \in Roles /\ seen'[r] = cache[k].role
        /\ cache[k].until \in Nat
    <3>1. k \in Keys
      BY <1>1, TokenTyped
    <3> QED
      BY <1>1, <1>6, <3>1 DEF CacheHit, Valid, TypeOK, Copies
  <2>2. Genuine(k[2], cache[k], MaxAge + 1)
    BY <2>1 DEF IInv, CacheIsGenuine
  <2>3. PICK at \in 1..now :
          at + (MaxAge + 1) >= cache[k].until
          /\ Held(k[2], cache[k].role, at)
    BY <2>1, <2>2 DEF Genuine
  <2>4. at + MaxAge >= now
    BY <1>1, <2>1, <2>3 DEF MaxAge, TypeOK
  <2>5. UNCHANGED <<now, role, expiresAt, via, heldUntil>>
        /\ pc[r] = "get" /\ pc'[r] \in {"handled", "forbidden"}
        /\ \A q \in Requests \ {r} : pc'[q] = pc[q] /\ seen'[q] = seen[q]
    BY <1>1, <1>6 DEF CacheHit, RoleVerdict, TypeOK
  <2>6. Held(Token(r), seen'[r], at)
    BY <2>1, <2>3 DEF CacheKey
  <2>7. View!LetThrough(r)
    BY <1>1, <2>1, <2>4, <2>5, <2>6, LetThroughImplements
  <2> QED
    BY <2>7 DEF View!Next
<1>7. ASSUME NEW r \in Requests, Fill(r) PROVE View!Next
  <2>1. UNCHANGED <<now, role, expiresAt, via, heldUntil, seen>>
        /\ pc[r] = "set" /\ pc'[r] \in {"handled", "forbidden"}
        /\ \A q \in Requests \ {r} : pc'[q] = pc[q]
    BY <1>1, <1>7 DEF Fill, RoleVerdict, TypeOK
  <2>2. PICK at \in 1..now : at + (CookieMaxAge - 1) >= readAt[r]
                             /\ Held(Token(r), seen[r], at)
    BY <2>1 DEF IInv, SeenIsGenuine
  <2>3. now <= readAt[r] + MaxLatency /\ seen[r] \in Roles
    BY <2>1 DEF IInv, SeenIsGenuine
  <2>4. at + MaxAge >= now
    BY <1>1, <2>2, <2>3 DEF MaxAge, TypeOK
  <2>5. View!LetThrough(r)
    BY <1>1, <2>1, <2>2, <2>3, <2>4, LetThroughImplements
  <2> QED
    BY <2>5 DEF View!Next
<1>8. CASE (\E u \in Users : UpdateRole(u) \/ Revoke(u)) \/ PurgeExpiredSessions \/ Tick
           \/ (\E t \in Tokens : SignIn(t) \/ SignOut(t) \/ GetSession(t))
           \/ UNCHANGED vars
  BY <1>2, <1>8 DEF UpdateRole, Revoke, PurgeExpiredSessions, Tick, vars, SignIn,
     SignOut, GetSession
<1> QED
  BY <1>3, <1>4, <1>5, <1>6, <1>7, <1>8 DEF Next, Guard

LEMMA InitImplements == Init => View!Init
<1> SUFFICES ASSUME Init PROVE View!Init
  OBVIOUS
<1>1. TypeOK
  BY InitTyped
<1>2. Truth = [t \in Tokens |-> NoSession]
  BY DEF Init, Truth, Live
<1>3. [r \in Requests |-> Token(r)] \in [Requests -> Tokens]
  BY <1>1, TokenTyped
<1>4. Verdict = [r \in Requests |-> "pending"]
  BY DEF Init, Verdict
<1> QED
  BY <1>2, <1>3, <1>4 DEF View!Init, Init, View!Answers, Answers

(* AuthGuard, with a cache it never invalidates and a cookie cache in      *)
(* front, is still a bounded-staleness guard: nobody is let through on a   *)
(* session or a role that ended longer than MaxAge ago.                    *)
THEOREM BoundedStaleness == Spec => ImplementsStaleView
<1>1. Init => View!Init
  BY InitImplements
<1>2. IInv /\ [Next]_vars => [View!Next]_View!vars
  BY StepImplements
<1> QED
  BY <1>1, <1>2, InitInv, StepInv, PTL DEF Spec, ImplementsStaleView, View!Spec

-----------------------------------------------------------------------------
(* A row never promises more than one full life from now, which is why a   *)
(* renewal that is due cannot bring the expiry forward.                    *)
WithinOneLife == \A t \in Tokens : expiresAt[t] <= now + ExpiresIn

(* Only a session that was signed in and neither signed out nor revoked    *)
(* has a row, so ending one on purpose is never news of an earlier end.    *)
RowsBelong ==
  /\ EndedOnPurpose \subseteq issued
  /\ \A t \in Tokens : expiresAt[t] # 0 => t \in issued \ EndedOnPurpose

(* A row is renewed to a full life, emptied, or left as it is; it is       *)
(* emptied when its session is ended on purpose, or was over before.       *)
RowMoves(t) ==
  \/ expiresAt'[t] = expiresAt[t]
  \/ expiresAt'[t] = now + ExpiresIn
  \/ expiresAt'[t] = 0 /\ (~Live(t) \/ t \in EndedOnPurpose' \ EndedOnPurpose)

LEMMA RowsMove ==
  ASSUME TypeOK, RowsBelong, [Next]_vars, NEW t \in Tokens
  PROVE  RowMoves(t) /\ now <= now'
<1> USE SessionAssumption DEF TypeOK, RowMoves, Live
<1>1. now <= now'
  BY ClockMoves
<1>2. ASSUME NEW u \in Tokens, SignIn(u) PROVE RowMoves(t)
  BY <1>2 DEF SignIn
<1>3. ASSUME NEW u \in Tokens, SignOut(u) PROVE RowMoves(t)
  BY <1>3 DEF SignOut, RowsBelong, EndedOnPurpose
<1>4. ASSUME NEW u \in Tokens, GetSession(u) PROVE RowMoves(t)
  BY <1>4 DEF GetSession, AfterRead
<1>5. ASSUME NEW r \in Requests, LookupRow(r) PROVE RowMoves(t)
  BY <1>5, TokenTyped DEF LookupRow, AfterRead
<1>6. CASE PurgeExpiredSessions
  BY <1>6 DEF PurgeExpiredSessions, LongExpired
<1>7. ASSUME NEW r \in Requests, Guard(r), ~LookupRow(r) PROVE RowMoves(t)
  BY <1>7 DEF Guard, Send, CacheHit, CacheMiss, LookupCookie, Fill
<1>8. ASSUME NEW u \in Users, Revoke(u) PROVE RowMoves(t)
  BY <1>8 DEF Revoke, RowsBelong, EndedOnPurpose
<1>9. CASE (\E u \in Users : UpdateRole(u)) \/ Tick \/ UNCHANGED vars
  BY <1>9 DEF UpdateRole, Tick, vars
<1> QED
  BY <1>1, <1>2, <1>3, <1>4, <1>5, <1>6, <1>7, <1>8, <1>9 DEF Next

LEMMA StepRowsBelong == TypeOK /\ RowsBelong /\ [Next]_vars => RowsBelong'
<1> SUFFICES ASSUME TypeOK, RowsBelong, [Next]_vars PROVE RowsBelong'
  OBVIOUS
<1> USE SessionAssumption DEF TypeOK, RowsBelong, EndedOnPurpose
<1>1. ASSUME NEW u \in Tokens, SignIn(u) PROVE RowsBelong'
  BY <1>1 DEF SignIn
<1>2. ASSUME NEW u \in Tokens, SignOut(u) PROVE RowsBelong'
  BY <1>2 DEF SignOut
<1>3. ASSUME NEW u \in Tokens, GetSession(u) PROVE RowsBelong'
  BY <1>3 DEF GetSession, AfterRead, Live
<1>4. ASSUME NEW r \in Requests, LookupRow(r) PROVE RowsBelong'
  BY <1>4, TokenTyped DEF LookupRow, AfterRead, Live
<1>5. CASE PurgeExpiredSessions
  BY <1>5 DEF PurgeExpiredSessions
<1>6. ASSUME NEW r \in Requests, Guard(r), ~LookupRow(r) PROVE RowsBelong'
  BY <1>6 DEF Guard, Send, CacheHit, CacheMiss, LookupCookie, Fill
<1>7. ASSUME NEW u \in Users, Revoke(u) PROVE RowsBelong'
  BY <1>7 DEF Revoke
<1>8. CASE (\E u \in Users : UpdateRole(u)) \/ Tick \/ UNCHANGED vars
  BY <1>8 DEF UpdateRole, Tick, vars
<1> QED
  BY <1>1, <1>2, <1>3, <1>4, <1>5, <1>6, <1>7, <1>8 DEF Next

(* Neither the renewal on a read nor the clean-up job shortens a session   *)
(* that is live, for any expiresIn, updateAge and clean-up age: only its   *)
(* own sign-out or its revocation does.                                    *)
THEOREM LiveSessionsAreKept == Spec => LiveSessionKept
<1> DEFINE Kept == WithinOneLife /\ RowsBelong
<1>1. Init => Kept
  BY SessionAssumption DEF Init, WithinOneLife, RowsBelong, EndedOnPurpose
<1>2. TypeOK /\ Kept /\ [Next]_vars => Kept'
  <2> SUFFICES ASSUME TypeOK, Kept, [Next]_vars, NEW t \in Tokens
               PROVE  expiresAt'[t] <= now' + ExpiresIn
    BY StepRowsBelong DEF WithinOneLife
  <2>1. RowMoves(t) /\ now <= now' /\ now' \in Nat
    BY RowsMove, ClockMoves DEF TypeOK
  <2> QED
    BY <2>1, SessionAssumption DEF WithinOneLife, RowMoves, TypeOK
<1>3. TypeOK /\ Kept /\ [Next]_vars =>
        [\A t \in Tokens :
           Live(t) /\ expiresAt'[t] < expiresAt[t] =>
             t \in EndedOnPurpose' \ EndedOnPurpose]_vars
  <2> SUFFICES ASSUME TypeOK, Kept, [Next]_vars, NEW t \in Tokens,
                      Live(t), expiresAt'[t] < expiresAt[t]
               PROVE  t \in EndedOnPurpose' \ EndedOnPurpose
    OBVIOUS
  <2>1. RowMoves(t)
    BY RowsMove
  <2>2. expiresAt[t] <= now + ExpiresIn /\ expiresAt[t] \in Nat
    BY DEF WithinOneLife, TypeOK
  <2> QED
    BY <2>1, <2>2, SessionAssumption DEF RowMoves, TypeOK
<1> QED
  BY <1>1, <1>2, <1>3, TypeCorrect, PTL DEF Spec, LiveSessionKept
=============================================================================
