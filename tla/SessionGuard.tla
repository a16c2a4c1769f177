---------------------------- MODULE SessionGuard ----------------------------
(***************************************************************************)
(* Sessions and the copies of them: the session row in PostgreSQL, the     *)
(* entry AuthGuard keeps in the Redis cache, and better-auth's cookie      *)
(* cache in the client's cookie jar.  AuthGuard and RolesGuard decide from *)
(* whichever copy they meet first, while sign-out, revocation, expiry, the *)
(* clean-up job and an administrator's role change touch the row alone.    *)
(*                                                                         *)
(* better-auth itself is not in this repository: what its routes do to the *)
(* session row and to the cookies is taken from the options auth.config.ts *)
(* gives it and from how the guard and the controllers use it.             *)
(***************************************************************************)
EXTENDS Integers

CONSTANTS
  Requests,      \* requests to guarded routes, each handled at most once
  Tokens,        \* session tokens, each issued at most once
  Users,
  UserOf,        \* the user each token is issued to
  AdminOnly,     \* the requests whose route is marked @Roles('admin')
  CacheTTL,      \* SESSION_TTL_MS
  CookieMaxAge,  \* session.cookieCache.maxAge
  ExpiresIn,     \* session.expiresIn
  UpdateAge,     \* session.updateAge
  PurgeAge,      \* how long the clean-up job keeps an expired row
  MaxLatency,    \* bound: how long a cache.set may be on its way
  MaxTime        \* bound: the clock stops here

ASSUME SessionAssumption ==
  /\ UserOf \in [Tokens -> Users]
  /\ AdminOnly \subseteq Requests
  /\ CacheTTL \in Nat \ {0} /\ CookieMaxAge \in Nat \ {0}
  /\ ExpiresIn \in Nat \ {0} /\ UpdateAge \in Nat /\ PurgeAge \in Nat
  /\ MaxLatency \in Nat /\ MaxTime \in Nat

Roles == {"user", "admin"}
NoSession == "none"
Mechanisms == {"cookie", "bearer"}

(* A request may present its session in the cookies, in the Authorization  *)
(* header, or in both; both of one request come from one sign-in.          *)
Credentials == SUBSET Mechanisms \ {{}}

VARIABLES
  now,        \* the clock, starting at 1
  role,       \* users.role
  expiresAt,  \* session.expiresAt of each token, 0 when there is no row
  issued,     \* the tokens sign-in has handed out
  signedOut,  \* the tokens whose sign-out was answered
  revoked,    \* history: the tokens whose row was revoked
  jar,        \* the client's cookie-cache copy: a role and when it lapses
  cache,      \* the Redis entry under each cache key: likewise
  pc,         \* what each request awaits, and how it ended
  via,        \* the credentials and the token each request presents
  carried,    \* the cookie-cache copy it was sent with, until it is looked at
  seen,       \* req.user.role, once the guard has it
  readAt,     \* when getSession answered it, until the guard has cached that
  heldUntil   \* history: when the database last held each answer per token

db == <<role, expiresAt>>
vars == <<now, db, issued, signedOut, revoked, jar, cache, pc, via, carried,
          seen, readAt, heldUntil>>

(* The cache key is made of a mechanism and the token. *)
Keys == Mechanisms \X Tokens
Copies == [role : Roles, until : Nat]
NoCopy == [role |-> "user", until |-> 0]
Answers == Roles \cup {NoSession}
Ended == {"handled", "unauthorized", "forbidden"}

TypeOK ==
  /\ now \in Nat \ {0}
  /\ role \in [Users -> Roles]
  /\ expiresAt \in [Tokens -> Nat]
  /\ issued \subseteq Tokens
  /\ signedOut \subseteq issued
  /\ revoked \subseteq Tokens
  /\ jar \in [Tokens -> Copies]
  /\ cache \in [Keys -> Copies]
  /\ pc \in [Requests -> {"new", "get", "lookup", "set"} \cup Ended]
  /\ via \in [Requests -> Credentials \X Tokens]
  /\ carried \in [Requests -> Copies]
  /\ seen \in [Requests -> Answers]
  /\ readAt \in [Requests -> Nat]
  /\ heldUntil \in [Tokens -> [Answers -> Nat]]

(* A copy is used until it lapses; keyv and better-auth both compare with  *)
(* the clock when the copy is read.                                        *)
Valid(copy) == now < copy.until

(* What the database would answer for a token at this instant. *)
Live(t) == expiresAt[t] > now
Truth == [t \in Tokens |-> IF Live(t) THEN role[UserOf[t]] ELSE NoSession]

(* The history follows every step that changes an answer. *)
Remember ==
  heldUntil' = [t \in Tokens |->
    IF Truth'[t] = Truth[t] THEN heldUntil[t]
                            ELSE [heldUntil[t] EXCEPT ![Truth[t]] = now]]

Init ==
  /\ now = 1
  /\ role = [u \in Users |-> "user"]
  /\ expiresAt = [t \in Tokens |-> 0]
  /\ issued = {}
  /\ signedOut = {}
  /\ revoked = {}
  /\ jar = [t \in Tokens |-> NoCopy]
  /\ cache = [k \in Keys |-> NoCopy]
  /\ pc = [r \in Requests |-> "new"]
  /\ via \in [Requests -> Credentials \X Tokens]
  /\ carried = [r \in Requests |-> NoCopy]
  /\ seen = [r \in Requests |-> NoSession]
  /\ readAt = [r \in Requests |-> 0]
  /\ heldUntil = [t \in Tokens |-> [v \in Answers |-> 0]]

-----------------------------------------------------------------------------
(* Sessions begin and end in better-auth, behind callAuthHandler, which    *)
(* forwards its cookies to the client.  None of it reaches AuthGuard's     *)
(* cache.                                                                  *)
FreshCopy(t) == [role |-> role[UserOf[t]], until |-> now + CookieMaxAge]

SignIn(t) ==
  /\ t \notin issued
  /\ issued' = issued \cup {t}
  /\ expiresAt' = [expiresAt EXCEPT ![t] = now + ExpiresIn]
  /\ jar' = [jar EXCEPT ![t] = FreshCopy(t)]
  /\ UNCHANGED <<now, role, signedOut, revoked, cache, pc, via, carried, seen, readAt>>
  /\ Remember

SignOut(t) ==
  /\ t \in issued \ signedOut
  /\ signedOut' = signedOut \cup {t}
  /\ expiresAt' = [expiresAt EXCEPT ![t] = 0]
  /\ jar' = [jar EXCEPT ![t] = NoCopy]
  /\ UNCHANGED <<now, role, issued, revoked, cache, pc, via, carried, seen,
                 readAt>>
  /\ Remember

(* revoke-session, revoke-sessions and revoke-other-sessions, which the    *)
(* catch-all route passes on for any signed-in user: rows go, and neither  *)
(* the jar of the client they belong to nor the guard's cache is told.     *)
Revoke(u) ==
  LET mine == {t \in Tokens : UserOf[t] = u}
  IN  /\ \E t \in mine : Live(t)
      /\ \E gone \in SUBSET {t \in mine : expiresAt[t] # 0} :
           /\ revoked' = revoked \cup gone
           /\ expiresAt' = [t \in Tokens |-> IF t \in gone THEN 0 ELSE expiresAt[t]]
      /\ UNCHANGED <<now, role, issued, signedOut, jar, cache, pc, via,
                     carried, seen, readAt>>
      /\ Remember

(* Reading a session from the database drops an expired row, and pushes    *)
(* the expiry of one that is older than UpdateAge out again.               *)
RenewWhenDue(t) == IF Live(t) THEN now + ExpiresIn - UpdateAge
                              ELSE expiresAt[t] - ExpiresIn  \* slip: no floor
AfterRead(t) ==
  IF ~Live(t) THEN 0
  ELSE IF expiresAt[t] - ExpiresIn + UpdateAge <= now THEN now + ExpiresIn
  ELSE expiresAt[t]

(* GET session: the copy in the jar is renewed from the row once it has    *)
(* lapsed.                                                                 *)
GetSession(t) ==
  /\ t \in issued \ signedOut
  /\ ~Valid(jar[t])
  /\ expiresAt' = [expiresAt EXCEPT ![t] = AfterRead(t)]
  /\ jar' = [jar EXCEPT ![t] = IF Live(t) THEN FreshCopy(t) ELSE NoCopy]
  /\ UNCHANGED <<now, role, issued, signedOut, revoked, cache, pc, via,
                 carried, seen, readAt>>
  /\ Remember

(* PATCH admin/users/:id with a role. *)
UpdateRole(u) ==
  /\ \E new \in Roles : role' = [role EXCEPT ![u] = new]
  /\ UNCHANGED <<now, expiresAt, issued, signedOut, revoked, jar, cache, pc, via,
                 carried, seen, readAt>>
  /\ Remember

(* The daily clean-up: one DELETE of the rows long expired. *)
SignedInLongAgo(t) == expiresAt[t] - ExpiresIn < now - PurgeAge  \* slip: createdAt
LongExpired(t) == expiresAt[t] < now - PurgeAge

PurgeExpiredSessions ==
  /\ expiresAt' = [t \in Tokens |-> IF LongExpired(t) THEN 0 ELSE expiresAt[t]]
  /\ UNCHANGED <<now, role, issued, signedOut, revoked, jar, cache, pc, via,
                 carried, seen, readAt>>
  /\ Remember

-----------------------------------------------------------------------------
(* AuthGuard.canActivate followed by RolesGuard.canActivate.               *)

Token(r) == via[r][2]

(* buildHeaders passes on every credential there is; buildCacheKey takes   *)
(* the bearer's before the cookie's.                                       *)
CacheKey(r) == <<IF "bearer" \in via[r][1] THEN "bearer" ELSE "cookie", Token(r)>>

(* A request leaves the client with the cookies it has by then. *)
Send(r) ==
  /\ pc[r] = "new"
  /\ Token(r) \in issued
  /\ pc' = [pc EXCEPT ![r] = "get"]
  /\ carried' = [carried EXCEPT ![r] =
       IF "cookie" \in via[r][1] THEN jar[Token(r)] ELSE NoCopy]
  /\ UNCHANGED <<now, db, issued, signedOut, revoked, jar, cache, via, seen, readAt,
                 heldUntil>>

(* RolesGuard looks at req.user and at nothing else. *)
RoleVerdict(r, v) ==
  IF r \in AdminOnly /\ v # "admin" THEN "forbidden" ELSE "handled"

(* cache.get: a hit is the answer, session row or not. *)
CacheHit(r) ==
  /\ pc[r] = "get"
  /\ Valid(cache[CacheKey(r)])
  /\ seen' = [seen EXCEPT ![r] = cache[CacheKey(r)].role]
  /\ pc' = [pc EXCEPT ![r] = RoleVerdict(r, cache[CacheKey(r)].role)]
  /\ carried' = [carried EXCEPT ![r] = NoCopy]
  /\ UNCHANGED <<now, db, issued, signedOut, revoked, jar, cache, via, readAt,
                 heldUntil>>

CacheMiss(r) ==
  /\ pc[r] = "get"
  /\ ~Valid(cache[CacheKey(r)])
  /\ pc' = [pc EXCEPT ![r] = "lookup"]
  /\ UNCHANGED <<now, db, issued, signedOut, revoked, jar, cache, via, carried,
                 seen, readAt, heldUntil>>

(* auth.api.getSession, answered from the cookie cache ... *)
LookupCookie(r) ==
  /\ pc[r] = "lookup"
  /\ Valid(carried[r])
  /\ seen' = [seen EXCEPT ![r] = carried[r].role]
  /\ readAt' = [readAt EXCEPT ![r] = now]
  /\ pc' = [pc EXCEPT ![r] = "set"]
  /\ carried' = [carried EXCEPT ![r] = NoCopy]
  /\ UNCHANGED <<now, db, issued, signedOut, revoked, jar, cache, via, heldUntil>>

(* ... or from the database. *)
LookupRow(r) ==
  /\ pc[r] = "lookup"
  /\ ~Valid(carried[r])
  /\ seen' = [seen EXCEPT ![r] = Truth[Token(r)]]
  /\ readAt' = [readAt EXCEPT ![r] = now]
  /\ pc' = [pc EXCEPT ![r] = IF Live(Token(r)) THEN "set" ELSE "unauthorized"]
  /\ expiresAt' = [expiresAt EXCEPT ![Token(r)] = AfterRead(Token(r))]
  /\ carried' = [carried EXCEPT ![r] = NoCopy]
  /\ UNCHANGED <<now, role, issued, signedOut, revoked, jar, cache, via>>
  /\ Remember

(* cache.set of what getSession answered, whatever has happened since.     *)
FillWrongUnit == now + 60 * CacheTTL     \* slip: seconds for minutes
FillUntil == now + CacheTTL

Fill(r) ==
  /\ pc[r] = "set"
  /\ cache' = [cache EXCEPT ![CacheKey(r)] =
                  [role |-> seen[r], until |-> FillUntil]]
  /\ pc' = [pc EXCEPT ![r] = RoleVerdict(r, seen[r])]
  /\ readAt' = [readAt EXCEPT ![r] = 0]
  /\ UNCHANGED <<now, db, issued, signedOut, revoked, jar, via, carried, seen,
                 heldUntil>>

(* The clock; no cache.set is on its way for longer than MaxLatency.       *)
Tick ==
  /\ now < MaxTime
  /\ \A r \in Requests : pc[r] = "set" => now < readAt[r] + MaxLatency
  /\ now' = now + 1
  /\ UNCHANGED <<db, issued, signedOut, revoked, jar, cache, pc, via, carried, seen,
                 readAt>>
  /\ Remember

Guard(r) ==
  \/ Send(r)
  \/ CacheHit(r)
  \/ CacheMiss(r)
  \/ LookupCookie(r)
  \/ LookupRow(r)
  \/ Fill(r)

Next ==
  \/ \E t \in Tokens : SignIn(t) \/ SignOut(t) \/ GetSession(t)
  \/ \E u \in Users : UpdateRole(u) \/ Revoke(u)
  \/ PurgeExpiredSessions
  \/ \E r \in Requests : Guard(r)
  \/ Tick

Spec == Init /\ [][Next]_vars

-----------------------------------------------------------------------------
(* What the guard lets through is no staler than the last moment of the    *)
(* cookie copy's life, the time to write an entry made of it then, and the *)
(* last moment of that entry's life.  A bearer client is no better off:    *)
(* the entry under its key may come from cookies sent along with it.       *)
MaxAge == (CookieMaxAge - 1) + MaxLatency + (CacheTTL - 1)

Verdict == [r \in Requests |->
  IF pc[r] \in {"handled", "forbidden"} THEN seen[r]
  ELSE IF pc[r] = "unauthorized" THEN "refused"
  ELSE "pending"]

View == INSTANCE StaleView WITH
  truth   <- Truth,
  carries <- [r \in Requests |-> Token(r)],
  maxAge  <- MaxAge,
  verdict <- Verdict

(* AuthGuard with its copies keeps the promise of StaleView: whoever is    *)
(* let through, with whichever role, held it no longer than MaxAge ago     *)
(* however sign-outs, revocations, role changes, renewals and cache.set    *)
(* interleave; and nobody is turned away while the database has a session. *)
ImplementsStaleView == View!Spec

(* A live session ends only by its own sign-out, by being revoked, or by   *)
(* reaching its expiry: the renewal and the clean-up job never cut it      *)
(* short.                                                                  *)
EndedOnPurpose == signedOut \cup revoked

LiveSessionKept ==
  [][\A t \in Tokens :
       Live(t) /\ expiresAt'[t] < expiresAt[t] =>
         t \in EndedOnPurpose' \ EndedOnPurpose]_vars

(* "Cache invalidated on sign-out".                                        *)
CacheInvalidatedOnSignOut ==
  \A t \in signedOut : \A m \in Mechanisms : ~Valid(cache[<<m, t>>])
=============================================================================
