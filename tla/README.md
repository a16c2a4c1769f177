# Formal models of the NestJS Better Auth API starter

TLA+ models of the parts of this API that keep state and are reached by several
actors at once, the TLC runs that check them on small instances, and theorems
about them checked by TLAPS. Source paths below are relative to the application,
`src/`; `README.md`, `SECURITY.md`, `docs/` and `scripts/` are beside it.
`PROJECT.json` holds the definition-by-definition map to source lines, the runs,
the slips each property was tried against, the hazards and the theorems.

## 1. How the system runs, and what that means for the models

The API is one Node process (or several identical ones) in front of PostgreSQL
(drizzle), Redis (cache-manager/keyv, optional) and better-auth, which owns
passwords, sessions and cookies. Node runs a handler without interruption until
it awaits. So **one action is one awaited call**: the SQL statement, cache
operation or library call takes effect, and the handler runs on to its next
await. Between two actions of a request any other request, the clock or a cron
job may step. No code in the repository opens a transaction, and no statement
takes a lock beyond its own, so several instances of the process behave like more requests in
one of them, except for in-process state (throttle counters, the memory cache, the
database pool, start-up work), which `Server` and `Users` give to each process.

What is hard here is therefore not inside a function but between two of its
awaits: decisions taken from rows that have changed since, replies sent before
the bookkeeping, copies that outlive what they copy, cursors into a result that
moves.

## 2. Inventory

| Component | Code | State it keeps | Operations | Hard behaviour | Correct when | Module |
|---|---|---|---|---|---|---|
| Sign-in and lockout | `auth/lockout.service.ts`, `auth/controllers/identity.controller.ts` | `login_attempts`, `account_lockouts` | `assertNotLocked`, `recordFailure` (insert, count, upsert), `recordSuccess`, `sendLockoutAlert` | the upsert writes an old decision; reply before bookkeeping; half of a `Promise.all` failing | locks are earned, hold, end; every rejection counts; at most MAX_ATTEMPTS failures per window | `Lockout`, `LockoutPolicy` |
| Attempt, session, audit retention | `jobs/cleanup.service.ts` | none | three DELETEs on a schedule | runs beside everything | nothing still needed is deleted | `Lockout`, `SessionGuard`, `AuditListing` |
| Session look-up and cache | `common/guards/auth.guard.ts`, `roles.guard.ts`, `cache/cache.module.ts` | Redis entries, better-auth's cookie copy | `canActivate` | two caches stacked; fill after sign-out; cookie and bearer token in one request | a bound on staleness; no live session refused | `SessionGuard`, `StaleView` |
| Session life cycle | `auth/auth.config.ts`, better-auth | `session` | sign-in, sign-out, revocation, `getSession`, renewal | renewal against clean-up; the catch-all route past this repository's controllers | only sign-out, revocation and expiry end a session | `SessionGuard` |
| Device tokens | `users/device-token.controller.ts` | `device_tokens` | `register`, `remove` | check then delete; a token changing hands | only the owner deletes; the audit log explains the table | `DeviceTokens` |
| Cursor pagination | `common/dto/pagination.dto.ts` | none | `buildCursorPage` | off-by-one | exact pages | `Pagination` |
| Admin user list | `users/user.service.ts`, `users/admin.controller.ts` | `users` | `findAll` | rows move between pages | each steady user once | `UserListing` |
| Audit log | `audit/audit.service.ts` | `audit_logs` | `log`, `findAll`, purge | sorted by one column, resumed by another | complete walks | `AuditListing` |
| User administration | `users/user.service.ts`, `users/admin.controller.ts` | `users` | ban, unban, verify, role, soft delete, profile | field precedence, updates that ignore a deletion | – (nothing is promised of a deleted row) | `Users` |
| Avatars and storage | `users/upload.controller.ts`, `storage/` | object store, `users.image`, bucket | upload, bucket creation at start | two stores, no rollback; key by millisecond; two calls to make a bucket; images named by clients | an uploaded image names a stored object of its own user; a bucket this code made is public | `Users` |
| Password change | `auth/controllers/password.controller.ts`, `auth/password.service.ts` | `accounts.password` | change, forget, reset; sign-up, link, unlink and change in better-auth | read, compare, write; two hash schemes; accounts that come and go | replaced only by one who knew it or holds a token | `PasswordChange` |
| Organisation guards | `common/guards/organization.guard.ts`, `org-roles.guard.ts` | none | `canActivate` | two reads while the tables change | a decision true at one instant | `OrgGuard` |
| Seed script | `scripts/seed.ts` | `users`, `accounts`, `organizations`, `members` | inserts, one by one | overlapping and killed runs, no transaction | nothing twice; what it leaves out is explained by a run that broke | `Seed` |
| HTTP pipeline | `main.ts`, `app.module.ts`, filters, interceptors | throttle counters | start, throttle, envelope, filter, shut down | a reply sent before the handler fails; limits per process | one reply per request, and not a false one; all come to an end | `Server` |
| Database pool | `db/connection.ts`, `db/drizzle.service.ts` | clients, queue | connect, queue, time out, end | ended while HTTP is open | drained on shutdown; nobody hangs | `Server` |
| Auth proxies, health | `auth/controllers/{oauth,magic-link,verification,user}.controller.ts`, `health/` | none | hand-over to better-auth; a ping | as the pipeline | as the pipeline | `Server` |
| Feature flags, environment | `config/features.ts`, `config/env.config.ts` | none | `resolve`, `validateEnv` | – | – | `Server` (start-up, rate limiting) |
| E-mail queue | `email/` | BullMQ jobs | – | imported by no module: dead code | – | not modelled |
| Callback URLs | `common/utils/callback-url.util.ts` | none | pure functions, used by their tests only | – | – | not modelled |
| Logging, metrics, tracing, typed config | `common/logger`, `metrics/`, `tracing.ts`, `config/` | none others read | I/O | – | – | not modelled |
| Templates, DTO classes, API docs | `email/template.service.ts`, `*/dto` | none | formatting | – | – | not modelled |

**How they interact.** A guarded request passes the throttle guard, `AuthGuard`
(Redis, then better-auth over PostgreSQL), `RolesGuard`, the validation pipe,
its handler, and on the way out the envelope interceptor or the exception filter.
`callAuthHandler` (`auth/utils/auth-handler.util.ts`) runs better-auth and *sends
the response itself*: what a controller does afterwards, such as lockout
bookkeeping and audit, happens after the client has its answer. Handlers, the
cron jobs and better-auth share nothing but rows; the guard's cache is written
by the guard alone.

## 3. The modules

Requests are constants, each handled at most once; auxiliary variables marked
`history` in the modules are read by properties only.

### Lockout and LockoutPolicy

| TLA+ | code |
|---|---|
| `loginAttempts`, `failedAt` | rows of `login_attempts` and their `created_at` |
| `accountLockout[e]` | row of `account_lockouts`; no row reads like `ClearRow` |
| `pc[r]` | the await `signIn` is in: `verify` (callAuthHandler), `reset` (recordSuccess), `insert`/`count`/`upsert` (recordFailure) |
| `recent`, `lockUntil` | the locals `recentFailures`, `lockedUntil` |
| `auditing`, `auditLog` | the `audit.log` half of the `Promise.all`, and its rows |
| `Refuse`, `Admit`, `CheckFails` | `assertNotLocked`; its catch turns *any* error without a status into 429 |
| `Verify` | `callAuthHandler`: 200, 401, or another status, after which nothing is recorded |
| `RecordSuccess`; `InsertAttempt`, `CountRecent`, `UpsertLockout` | `recordSuccess`; the three statements of `recordFailure` |
| `SendAlert` | the detached mail; its failure is swallowed |
| `WriteAudit` | `AuditService.log` |
| `AbortHandler`, `AbortAudit` | a statement is refused, or the process dies; `broken` remembers which branch of the `Promise.all` it cut short |
| `PurgeOldLoginAttempts`, `Tick` | the weekly DELETE; the clock |

`created_at` is set by the database and compared with the process's clock; the
model has one clock. The assumptions `Window <= Retention` and
`Window < LockoutPeriod` hold of the code: a window of 15 minutes, a lock
of 30 minutes, a retention of 90 days.

`LockoutPolicy` is the abstract specification, in which a sign-in is one step that
settles it: `Refuse`, `Disregard`, `Accept` or `Reject`. It has no tables and no
program counters, only what was answered, when a sign-in failed, and until when an email is
locked. `Lockout` implements it, one request at a time, under `outcome <- Outcome` and
`failed <- Failed` (a sign-in counts from the last of its statements on) and
`lockedUntil <- LockedUntil` (the row). The clock may move between the insert, the count
and the upsert, so `Reject` has an instant of the failure and one of the decision: a
lock needs a window used up at the first, and to go without one the window must not be
used up at the second. A step that writes `lockedUntil` happens only while no lock is in force.

### SessionGuard and StaleView

`expiresAt[t]` is the session row (0: none), `cache[<<mechanism, token>>]` the
Redis entry under the key `buildCacheKey` makes, `jar[t]` the copy better-auth
keeps in the client's `session_data` cookie (`cookieCache` in `auth.config.ts`).
A guarded request is `Send`, `CacheHit` or `CacheMiss`, `LookupCookie` or
`LookupRow` (better-auth's `getSession`), `Fill` (`cache.set`), and the verdict
of `RolesGuard`, which reads `req.user` and nothing else. A request presents a
cookie, a bearer token or both (`Credentials`): `buildHeaders` forwards whatever there
is, while `CacheKey` takes the bearer's, so an entry under a bearer key may be filled
from the cookie's copy. Cookie and token of one request are taken to come from one
sign-in. `SignIn`, `SignOut`, `GetSession` are better-auth behind `callAuthHandler`,
`Revoke` its revoke-session(s), which `OAuthController`'s catch-all lets through;
`UpdateRole` and `PurgeExpiredSessions` are this repository's. That a session user
carries its role is taken from the way `RolesGuard` uses it.

`StaleView` is the abstract specification: a guard may let a request through
with any view of its session that the database held at most `maxAge` ago, and may
turn it away only when the database has no session. `SessionGuard` implements it
under `truth <- Truth`, `verdict <- Verdict` and `maxAge <- MaxAge`: the last instant of
the cookie copy's life, the time a `cache.set` is on its way, and the last instant of the
entry's life. `heldUntil` is the history that makes "held at most so long ago" a state
function.

### DeviceTokens

`deviceToken` is the table, keyed by token (unique index) and id. `Upsert` is
`onConflictDoUpdate`: a known token keeps its record and id and changes hands.
`AuditRegistered` and `AuditRemoved` are the audit inserts, `AnswerRegistered` and
`AnswerRemoved` the answers after them; `ReadRow` is the look-up with the ownership check, `DeleteRow` the delete by id
alone; `Fail` ends a handler anywhere, leaving what is written and logged. `createId()`
never repeats, so ids are named by the request that drew them. A removal names an
id some registration was answered with.

### Pagination, UserListing, AuditListing

`Pagination` is `buildCursorPage` over a set of rows and an order, given as a
relation. `UserListing` walks `UserService.findAll` (by id) while users `SignUp`
and `SoftDelete`; `AuditListing` walks `AuditService.findAll` (by `createdAt`
descending, resumed by `id`) while entries are logged and purged. In both,
`steady` is the set of rows that were there throughout the walk, and `limit` may
change from page to page, as it is the client's. `AdminListings` is the administrator
who does both: it extends `UserListing` and takes `AuditListing` as an instance, so that
one run and one proof module speak of the two.

### Accounts: AccountTables, Seed, PasswordChange, OrgGuard

Four modules over the same four tables (`user`, `account`, `org`, `member` of
`AccountTables`), composed by `Accounts`, whose `Next` lets the API answer `MaxCalls`
calls, each counted with its first statement, beside the runs of the script. A row's cuid is named by what the row is about and who
inserted it, so that two inserts never collide unless a unique index says so.

| TLA+ | code |
|---|---|
| `at[s]`, `pos[s]` | the statement run `s` of `scripts/seed.ts` awaits, and its loop index |
| `FindUser`, `InsertUser`, `InsertAccount` | one turn of the loop over `SEED_USERS`; a refused insert (unique email) ends the run |
| `FindOrg`, `InsertOrg`, `InsertOwner`, `InsertStaff` | the organisation and its members; their foreign key fails once it is gone |
| `Kill` | the run dies, or its statement fails, between two inserts |
| `adminUser[s]` | what `createdUsers.find` will return: the first admin pushed, by the role it had when it was found |
| `FindAccount` | `findFirst` by user id alone: any account of the user; then `verifyPassword` |
| `UpdatePassword` | `UPDATE ... WHERE id = foundAccount.id`; of a row that is gone, none |
| `FindCredential`, `RewritePassword` | better-auth's own change-password, which the catch-all lets through: the credential account, by scrypt |
| `Bcrypt`, `Scrypt` | the hash of `password.service.ts`, and that of better-auth, which `auth.config.ts` leaves at its default |
| `SignUp`, `AddAccount` | better-auth inserts a user and then, perhaps, an account: a password's, Google's, or none (magic link, or a statement that fails) |
| `LinkGoogle`, `UnlinkAccount`, `ForgetPassword` | better-auth, by effect |
| `ResetPassword` | better-auth uses the token up and overwrites the user's credential accounts, or creates one for a user who has none |
| `ReadOrg`, `ReadMember` | the two reads of `OrganizationGuard`, the second with `OrgRolesGuard`, which reads the row attached to the request |
| `CreateOrganization`, `Invite`, `ChangeMember`, `DeleteOrganization` | better-auth's organisation plugin, by effect; deletion cascades to members |

Roles are `admin` or `user`: the script looks for `admin` and for nothing else, and
`UpdateRole` may change one under it. The organisation is the one with the slug of the
seed, made by a run of the script or by a client; the guard is asked about it or about
one that does not exist.

### Users

| TLA+ | code |
|---|---|
| `row[u]` | a row of `users`, with what administrators, uploads and their owners write |
| `Given` | the images clients name themselves: `SignUpDto.image`, a Google picture, update-user. `None` stands for any address outside the store |
| `found`, `bucket`, `store` | the object store. What the first process finds is the operator's: any policy for `s3` and for a bucket MinIO has already, and with `fs` nobody serves the files (`Found`). Objects are shared by the processes, so `fs` stands for a single node, as its comment demands |
| `Start`, `CheckBucket`, `MakeBucket`, `SetBucketPolicy` | `StorageModule`'s factory and `ensureBucket`, which nobody awaits |
| `ReceiveFile`, `StoreObject`, `SaveImage` | `uploadAvatar`: the part, `storage.upload`, `updateProfile` |
| `UpdateOwnImage` | better-auth's update-user behind the catch-all, for deleted users too |
| `KeyOf` | `avatars/<id>/<Date.now()>`; two uploads may share a millisecond |
| `UpdateUser`, `First` | `AdminController.updateUser`: the first field of the body, in the order of the code |
| `DeleteUser` | `softDelete` |
| `Crash` | a process dies; its handlers and its `ensureBucket` die with it |

### Server

One behaviour is one throttling window of several processes. Each handler is a
sequence of statements (`Handler(k)`), each of which takes a client from the process's
pool: `Connect` (a client, the queue, or an error once `end()` was called), `Dequeue`,
`TimeOut` (`connectionTimeoutMillis`), `Query`. better-auth's sign-up is the look-up of
the address, the insert of the user, that of the account and the mail (`SendMail`, which
needs no client), each able to fail on its own, before the audit row of `signUp`; its other
routes count as one statement. `FailStatement` leaves open whether better-auth makes an error
of a mail that is not sent. The look-up of `AuthGuard` has its own module and is
left out here. `Send`
is `reply.send`, whose first call wins: `callAuthHandler` and the exception filter both
make one. `Sigterm`, `OnModuleDestroy`, `Exit` is Nest's order: module hooks first,
the HTTP server after them, so requests still arrive while the pool drains.
`Bootstrap` is `main.ts` with what it refuses (`validateEnv`, the cookie secret).

## 4. The runs

| Run | Question | Bounds, and why they are enough |
|---|---|---|
| `lockout_concurrent` | with interleaving, faults and the purge: `LockIsEarned`, `WindowSurvivesPurge`, `OnlyStragglersUnderLock`, `AuditMatchesReply`, `RejectionIsKept` | 3 requests on one email, 2 at once, MaxAttempts 2, 3 instants: two can race over a lock and a third arrive under it or after it; either branch of a `Promise.all` fails alone; attempts leave the window and are purged. 2.66 million states |
| `lockout_sequential` | one request at a time, no faults: `WindowBudget`, `LockHolds`, the refinement `ImplementsPolicy` | 2 emails, 3 requests: one above MaxAttempts, and a neighbour whose failures must not count; a lock is set, expires and is passed |
| `lockout_lost_lock` (violated) | `LockHolds` with two requests in flight | 3 requests, 2 at once |
| `session_guard` | `ImplementsStaleView`, `LiveSessionKept` | 2 requests, 1 token, 5 instants; all lives are 1 or 2 ticks and a `cache.set` takes one, so that MaxAge (3) is less than the time there is: copies lapse, stack and are renewed inside the run, and expired rows are purged at once; one request, with both credentials, can fill the cache for the other |
| `device_tokens` | `TableIsExplained`, `OnlyPastOwnersDelete` | 4 requests, 3 at once, 2 users, 2 devices: a registration, a take-over and two removals, failing before, between or after their writes |
| `device_race` (violated) | `OnlyOwnerDeletes` | 2 at once: a take-over between look-up and delete |
| `admin_listings` | `NobodyTwice`, `NobodyMissed`, `AuditWalkAdvances` | 3 ids in each list, pages of 1 and 2, 3 instants: walks of up to three pages, full, short and with an extra row; entries expire during the walk |
| `audit_missed` (violated) | `NothingMissed` | 3 ids, pages of 1, 2 instants |
| `accounts` | `NoDuplicates`, `SeedCompletes`, `ChangedByOneWhoKnew`, `GrantedMembersOnly` | 2 runs of the script, 2 seed users (an administrator, a member of staff), 1 change, 1 guarded request, 3 calls of the API: runs meet at every statement, and a token, its use and a third call fall into any gap. 1.26 million states |
| `password_schemes` (violated) | `RefusedOnlyIfWrong` | 2 calls: a sign-up and a change |
| `users` | `ImageIsOwnUpload`, `PrivateForACause` | 2 users, 2 uploads, 2 processes, 2 milliseconds, an administrator, 1 crash, a bucket in every state it may be found in: uploads share a key or not, two processes race for the bucket, the maker dies, a client names an image in between |
| `server` | `SignUpAnswerIsTrue`, `PoolDrained`, `BudgetPerStart`, and under fairness `EveryRequestEnds`, `ShutdownEnds` | 2 processes, 2 starts, 2 requests, a pool of 1, a limit of 1 for the magic link and of 2 for the other routes: one waits for the other's client, at the limit of its route, when the process is shut down, killed or restarted; both may be magic links to one start. 432 thousand states |

Further configurations are run by hand. `MCLockoutCounted.cfg` checks the liveness property
`RejectionIsCounted` (two requests, two at once, faults) and passes. The others state a
sentence of the repository as strongly as it can be read, and TLC finds each violated
(section 6): `MCLockoutConsecutive.cfg` (`LockIsConsecutive`), `MCSessionGuardSignOut.cfg`
(`CacheInvalidatedOnSignOut`), `MCDeviceTokensStaleId.cfg` (`RemovalRemoves`),
`MCUsersPublic.cfg` (`UploadsArePublic`), `MCServerHalfSignUp.cfg` (`CreatedIsNotAnError`),
`MCServerGlobalBudget.cfg` (`BudgetIsGlobal`), `MCAccountsRerun.cfg` (`RerunRepairs`) and
`MCAccountsDuplicates.cfg` (`OneCredentialOnly`).

Deadlock checking is off everywhere: a run ends when its requests are handled
and its clock has stopped, which is the end of the instance, not of the server.
Symmetry is used in safety runs only.

**Fairness.** One run states any, and so does `MCLockoutCounted.cfg`: weak fairness of what
the platform goes on with by itself. `FairSpec` of `Lockout`: the awaited steps of each
request and its audit insert. `server`: a handler resumes when its call has returned,
calls return (`Connect`, `Dequeue`, `Query`, `SendMail`), the timer of
`connectionTimeoutMillis` fires (`TimeOut`), and a shutdown that has begun goes on to its
next hook (`OnModuleDestroy`, `Exit`). The event loop resumes a handler whose awaited call
has returned, and calls to PostgreSQL, better-auth and the mail server return or time out;
nothing in the code can postpone it for ever. Arrivals, signals, starts, crashes, the clock,
the cron jobs and the alert mail are not forced.

Every passing property was also tried against a slip: a variant of one mapped
definition, in the modules next to the original and marked `slip`, such as `gt`
for `gte` on the count, a page's cursor taken from the extra row, a TTL in the
wrong unit, no ownership check, members without the foreign key, no
`connectionTimeoutMillis`. TLC finds each property violated under its slip.

## 5. The theorems

All hold for every value of the constants that meets the module's assumption, and the
hypothesis of the theorem where it has one (see the end of this section).

* **`Lockout_proof`**: `TypeCorrect`; `LocksAreEarned`, `WindowIsComplete`,
  `StragglersOnly`, `AuditIsTrue`; `LockHoldsOneAtATime`,
  `BudgetHoldsOneAtATime`, `RejectionsAreKept`; and the refinement `SignInIsAtomicOneAtATime`.
  A lock is written two statements after the failures were counted, so
  `LockIsEarned` is not inductive alone: the invariant also says that a decision
  still in a handler's locals is earned, that inserted attempts carry times no
  later than now, and that rows, replies and outstanding audits agree with the
  program counter. `Window <= Retention` carries `WindowIsComplete`.
  `LockHoldsOneAtATime` shows that the lost lock of run `lockout_lost_lock` takes
  two requests: with one, a request at work on an email was admitted by the very
  row it will overwrite. `RejectionsAreKept` holds of any number in flight, with faults: its
  invariant says of every place a handler can be in what is still to come and what a fault
  has cut short (`Progress`, `Kept`).
  `BudgetHoldsOneAtATime` (`MaxInFlight = 1`, `Faults = FALSE`) is the brute-force budget.
  `WindowBudget` is not inductive: a full window must be known to be closed. The invariant
  adds that a window used up is covered by a lock that ends after it
  (`BudgetIsCovered`), or its last failure is still to be counted, or the decision to lock
  in a handler's locals covers it (`DecisionCovers`), and that a request on its way to record a
  failure finds room (`BudgetIsOpen`). `Window < LockoutPeriod` is what makes a lock
  outlast the window of the failures it rests on, and the cardinality lemmas
  (`CountGrows`, `WindowCount`) carry the count from one step to the next.
  `SignInIsAtomicOneAtATime` is the refinement `Spec => Policy!Spec` under the same two
  hypotheses. Each step maps to a step of the policy or a stutter: the last statement of
  a request settles it (`Settles`, `UpsertImplements`), the others leave the mapped state alone. The
  invariant `PolicyInv` has the reply agree with the place a handler is in (`StatusFits`), the
  failure being recorded be the latest of all (`LastToFail`), and the decision in a handler's
  locals rest on a window used up, or not, between its failure and now (`DecisionIsDue`).
* **`SessionGuard_proof`**: `TypeCorrect`, `LiveSessionsAreKept`, and `BoundedStaleness`, the
  refinement `Spec => View!Spec`. The invariant dates every copy: a jar copy, a carried copy,
  an answer on its way into the cache and a cache entry each name a view the
  database held no earlier than their lapse minus the lives they have been through, for
  every key, since an entry under a bearer key may have a cookie's history.
  `LiveSessionsAreKept`: a renewal could bring an expiry forward if a row promised more
  than a full life, so the invariant is `WithinOneLife`, with `RowsBelong` (a row there is
  neither signed out nor revoked); lemma `RowsMove` lists the ways a row can change.
* **`DeviceTokens_proof`**: `TypeCorrect`, `TableExplained`, `PastOwnersOnly` (the
  requester passed the check on a read, so it is in the record's `owners`, which
  only grow), and `OwnerDeletesOneAtATime` from `MaxInFlight = 1`, which again
  shows that the race needs two requests. `TableExplained` rests on records keeping their
  device (`IdsKeepDevice`), on the registration behind each row (`RowsRegistered`), and on
  the removal behind each record that is gone (`LossExplained`).
* **`UserListing_proof`**: `TypeCorrect`, `ListedOnce`, `WalkIsComplete`. Lemmas on
  least and greatest elements give `PageIsExact`: a page is all matching users up
  to its `nextCursor`. The invariant says the cursor parts the users into those
  behind it, listed if steady, and those ahead, not listed.
* **`AdminListings_proof`**: `ListingsAreIndependent` (the composition implements `Spec`
  and `Audit!Spec`, so `UserListing_proof` speaks of it too) and `AuditWalkGoesOn`, over the
  lemma `AuditTypeCorrect`. A page of the audit log is not an interval of ids, since it is
  ordered by another column; what the proof needs is `EndsOfResult` (that order has a first
  and a last row on every result) and `AuditPage` (with a next page, the cursor
  is a row of this one, and all its rows are past the old cursor).
* **`Accounts_proof`**: `TypeCorrect`, `OneCredentialEach`, `PasswordKeptFromOthers`,
  `GuardsGrantMembers`, `SeedIsComplete`. `accounts` has no unique index on the user, so `NoDuplicates`
  rests on `OwnsItsUser`: a run about to insert an account has just inserted that
  user's row, which the unique email grants to one run only, so that whoever else may hold
  an account of that user got it from a link or a reset; `SignUpsAreFresh` says the same of
  better-auth's sign-ups. `FoundWasKnown` carries the comparison of a
  password change over to its update: the row it will write, while it is there, is among those
  whose password it gave. `MembersOfOrg` (the cascade) makes the second read of the guard imply
  the first. `SeedCompletes` speaks of a state in which some run is done; what is inductive (`SeedInv`)
  is how each part gets there: a user that a run inserted has an account, or that run is about to
  insert it or broke (`MadeHaveAccounts`); a run past the loop leaves all rows behind
  (`LoopLeavesRows`); a run that founded the organisation is still at its members, broken, or
  done with them all (`FoundersEnrol`, `StaffInOrder`), and once a run is done there has
  been an organisation, whether or not it is still there (`OrgWasFounded`).
* **`Users_proof`**: `TypeCorrect`, `ImagesAreOwnUploads`, `PrivateBucket`. `KeysOwn` says
  whoever overwrites an object is the user it belonged to, because the key holds the user's
  id; `SavedIsStored` that an upload about to write `users.image` has stored its object;
  `OneMaker` that only one process has yet to set a policy, since only one can have
  made the bucket.
* **`Server_proof`**: `TypeCorrect`, `SignUpsAreToldTrue`, `PoolIsDrained`, `BudgetIsPerStart`. The
  invariant (`Served`) says of every point of a sign-up which parts were carried out to get there
  (`Ready`) and what may have been sent (`Told`): from better-auth's answer on, whatever fails
  later, `Send` has no effect.
  For `BudgetPerStart`, the requests of a route that a start has let through are within the
  limit and, while the process is up, no more than its counter (`Counted`); `OwnStart` says
  that no two processes are of the same start, so a counter that goes back to zero belongs
  to a start that has let nobody through.

**Model-checked only.** Every safety invariant, action property and refinement that a
passing run checks is stated by a theorem. What is left is liveness, `EveryRequestEnds` and
`ShutdownEnds` (and by hand `RejectionIsCounted`), which is out of this prover's reach, as
`ENABLED` is.
Induction over data and RECURSIVE operators are out of reach too; no module uses the latter.

Four theorems have hypotheses on the constants: `MaxInFlight = 1` in `LockHoldsOneAtATime`,
`BudgetHoldsOneAtATime`, `SignInIsAtomicOneAtATime` and `OwnerDeletesOneAtATime`; `Faults = FALSE` in
`BudgetHoldsOneAtATime` and `SignInIsAtomicOneAtATime`. None can be dropped: with
two in flight, or with faults, TLC finds each of these properties violated on the instance of
its run. Two requests past the look-up fail side by side, and a handler that dies between its insert
and its upsert leaves a failure that locks nobody.

**Hazards without a property.** Some of what is hard to test is plainly left open by the
code, and a property would only say so: the catch of `signIn` answers 429 to any error
(`CheckFails`); a handler that dies before the upsert leaves a full window without a lock;
administrators and better-auth's update-user go on writing the row of a deleted user; a
change of password overwrites a reset that came between its two statements. The actions
are in the modules; nothing in the repository promises otherwise.

## 6. What the models say about the code

Where the code and what is said of it differ, a run shows it (the "violated" ones
above; `PROJECT.json` quotes both sides): a lock is lost to a concurrent request; a
record can be deleted by its former owner; a walk over the audit log skips entries;
and change-password refuses the right password of everybody who signed up through
better-auth, because it compares a scrypt hash with bcrypt. The reverse holds of the
seeded users: their bcrypt hashes are not what better-auth's sign-in verifies, although
`README.md:497` gives their passwords for signing in.

The configurations run by hand show the rest, each a sentence read as strongly as it can
be:

| Sentence | What the code does | Property |
|---|---|---|
| `auth/lockout.service.ts:9`: "consecutive" failures | failures before a success still count | `LockIsConsecutive` |
| `docs/ARCHITECTURE.md:335`: "Cache invalidated on sign-out" | neither a sign-out nor a revocation reaches the guard's cache, nor a revocation the cookie copy; run `session_guard` says for how long they may be out of date | `CacheInvalidatedOnSignOut` |
| `users/device-token.controller.ts:90`: "Token removed" | registering a known device answers an id that names no record, and removing that id answers 204 | `RemovalRemoves` |
| `storage/storage.interface.ts:16`: "All adapters return a public URL" | the address is public only if the operator has made it so: a MinIO bucket that is already there keeps its policy, S3's is never set, and nothing serves the files of `fs` | `UploadsArePublic` |
| `README.md:83`: "100 req/min globally", `docs/ARCHITECTURE.md:65`: counters in Redis | counters are in the memory of each process and begin again with it; per start the budget holds (`BudgetPerStart`) | `BudgetIsGlobal` |
| `scripts/seed.ts:7`: "Idempotent ... safe to run multiple times" | nothing is inserted twice, but what a run that broke left out stays out: a user without account, an organisation without members, and "Seed complete" (`SeedCompletes` says that nothing else is ever missing) | `RerunRepairs` |
| one credential account for each user (no document says so; the look-up by user takes it for granted) | a reset for a user that the script has inserted and not yet given an account creates one, and the script adds a second | `OneCredentialOnly` |
| a created user is not told of an error (no document says so) | better-auth's sign-up may fail after its first insert and answers an error; the address is in use from then on. The audit insert that this repository adds never does such harm (`SignUpAnswerIsTrue`) | `CreatedIsNotAnError` |

Seen while modelling or reading:

* A process that dies between `makeBucket` and `setBucketPolicy` leaves a private bucket
  that no later start repairs (`orphaned` in `PrivateForACause`), and of two
  instances that start together one dies of an unhandled rejection (`MakeBucket`).
* better-auth's own routes stay open under `/api/auth/*` through the catch-all of
  `OAuthController`, beside this repository's under `/v1`: its change-password uses the
  other hash scheme, its update-user writes `users.image` of anybody with a session, a
  deleted user included, and its sign-in passes `LockoutService` by.
* `README.md:172` says that in-flight requests are drained on SIGTERM; statements
  already running are (`PoolDrained`), but the pool refuses the next statement of a
  request, which is answered 500. Without `connectionTimeoutMillis` a queued request
  would hold up the shutdown for ever: `ShutdownEnds` fails under that slip.
* Two uploads of one user in one millisecond overwrite each other's object; the former
  avatar is never deleted, and nothing calls `StorageService.delete`.
* `PATCH admin/users/:id` with two fields performs the first and drops the others in
  silence, though `users/dto/update-user-admin.dto.ts:11` says that `banReason`
  "triggers ban".
* The flag `auditLog` switches nothing off, since `AuthModule` and `UserModule` import
  `AuditModule` themselves, and nothing reads the flag `emailQueue`.
* `docs/ARCHITECTURE.md:334` gives the session cache five minutes, the code four;
  with the cookie copy beneath it a verdict can be nine minutes old.
* `account_locked` is in `AuditAction` and `SECURITY.md:225` lists lockouts as
  audited, but nothing writes it. Sign-out is not audited either, and sign-up is
  audited whatever the outcome of the sign-up.
* A database error in the lockout look-up is answered 429 (`CheckFails`).
* `GET admin/users/audit-logs?userId=` is refused with 400: the whole query is
  validated as `CursorPaginationDto` with `forbidNonWhitelisted` (`src/main.ts`).
* `EmailModule` is imported nowhere, so the queue is never used.
* No controller of the repository uses the organisation guards.
* Neither guard looks at `bannedAt` or `deletedAt`.

## 7. Not modelled, and why

better-auth's own algorithms, PostgreSQL, Redis and MinIO are external: they
appear by their effect on the state above. Left out:

* the e-mail queue (`email/`): no module imports it, so there is no queue; the callback-URL
  rules, used by their own tests only, compare string prefixes and keep no state;
* mail rendering, OpenAPI, logging, metrics, tracing, typed configuration and DTO
  classes: I/O, formatting or declarations, with no state another component reads;
* how `callAuthHandler` rewrites a request, the validation pipe, CORS, Swagger and
  Bull Board: no property here tells their outcomes apart;
* two-factor and invitation tables, written by better-auth alone;
* a route without any credential, which always misses and is never cached, in
  `SessionGuard`; the look-up of `AuthGuard` in `Server`;
* sign-ins through better-auth's own route, which `LockoutService` never hears of: the
  properties of `Lockout` are those of the sign-ins it handles;
* what update-user does to the cookie copy of a session: nothing in the repository
  determines it, and the views of `SessionGuard` are roles, which it does not touch;
* a cookie of one sign-in sent with a bearer token of another;
* within better-auth's routes other than sign-up and change-password, the statements: a
  reset, a link or an unlink is one step. One reset token per user is outstanding at a
  time, and clients make one organisation with the slug of the seed (`founded`);
* OAuth providers other than Google, which is one of them for all.

## 8. Plan

`Lockout` under `LockoutPolicy`, `SessionGuard` under `StaleView`, `DeviceTokens`,
`AdminListings` over `Pagination`, `UserListing` and `AuditListing`, `Accounts` over
`AccountTables`, `Seed`, `PasswordChange` and `OrgGuard`, `Users`, and `Server` are in place, in
this order of importance, with the proofs of section 5. What would come next:

1. `Users` behind the guard of `SessionGuard`: what a ban or a demotion stops, and when.
2. Abstract specifications of the seed script (the tables it promises) and of a walk
   (one listing of what stays), of which the detailed modules are implementations.
3. What bound on the failures of a window, if any, survives several sign-ins in flight, now
   that `BudgetHoldsOneAtATime` is known to need one.

## 9. Running

In this directory: `tlc -config MCLockoutConcurrent.cfg MCLockout.tla` and likewise
for the other configurations (`MC<Module>*.cfg` goes with `MC<Module>.tla`);
`tlapm Lockout_proof.tla` and likewise for the other `_proof` modules.
