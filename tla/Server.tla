------------------------------- MODULE Server -------------------------------
(***************************************************************************)
(* Instances of the API from bootstrap to shutdown, and the requests they  *)
(* serve: throttle, handler, pool of database clients, reply.              *)
(* onModuleDestroy ends the pool while HTTP is still open; only then does  *)
(* Nest close the HTTP server, which waits for the requests in flight.     *)
(* A behaviour is one throttling window long.                              *)
(***************************************************************************)
EXTENDS Naturals, Sequences, FiniteSets

CONSTANTS
  Processes,
  Requests,
  PoolMax,     \* DB_POOL_MAX
  Limit,       \* requests per window and route, by kind
  Routes,      \* bound: the kinds of requests that are made
  MaxStarts    \* bound: starts of processes

-----------------------------------------------------------------------------
(* What each handler does, statement by statement.  The proxies leave it   *)
(* to better-auth.  Its sign-up looks the address up, inserts the user and *)
(* the account, each a statement of its own, and awaits the mail hook; the *)
(* queries of the other routes count as one statement here.                *)
(* The look-up of AuthGuard, module SessionGuard, is left out.             *)
Me == <<>>
ListUsers == <<"read">>
Health == <<"ping">>
SignUp == <<"lookup", "user", "account", "mail", "audit">>
Social == <<"auth">>
Internal == <<"auth">>
VerifyEmail == <<"auth">>
MagicLink == <<"auth">>

AuditTwice(k) == IF k = "signUp" THEN SignUp \o <<"audit">> ELSE <<"auth">>  \* slip
Handler(k) ==
  CASE k = "me" -> Me
    [] k = "list" -> ListUsers
    [] k = "health" -> Health
    [] k = "signUp" -> SignUp
    [] k = "social" -> Social
    [] k = "internal" -> Internal
    [] k = "verify" -> VerifyEmail
    [] k = "magicLink" -> MagicLink

Kinds == {"me", "list", "health", "signUp", "social", "internal", "verify", "magicLink"}

ASSUME ServerAssumption ==
  /\ PoolMax \in Nat \ {0}
  /\ MaxStarts \in Nat
  /\ Limit \in [Kinds -> Nat \ {0}]
  /\ Routes \subseteq Kinds

VARIABLES
  rateLimiting, \* features.rateLimiting
  phase,        \* of each process
  starts,       \* how often a process came up
  hits,         \* ThrottlerStorageService: in the memory of each process
  run,          \* history: which of the starts each process is of
  at,           \* what each request awaits
  kind,         \* its route
  on,           \* the process that serves it
  todo,         \* its remaining statements
  reply,        \* what was sent
  carried,      \* history: the parts of each sign-up that were carried out
  servedIn      \* history: which of the starts each request came to

process == <<rateLimiting, phase, starts, hits, run>>
request == <<at, kind, on, todo, reply, carried, servedIn>>
vars == <<process, request>>

RestsOfSignUp ==
  {<<"user", "account", "mail", "audit">>, <<"account", "mail", "audit">>,
   <<"mail", "audit">>, <<"audit">>, <<>>}

InFlight == {"connect", "queued", "query"}
Replies == {"none", "envelope", "page", "raw", "rawError", "429", "500", "503"}

TypeOK ==
  /\ rateLimiting \in BOOLEAN
  /\ phase \in [Processes -> {"down", "up", "draining", "closing"}]
  /\ starts \in 0..MaxStarts
  /\ hits \in [Processes -> [Kinds -> Nat]]
  /\ at \in [Requests -> InFlight \cup {"new", "ended", "lost"}]
  /\ kind \in [Requests -> Kinds \cup {"none"}]
  /\ on \in [Requests -> Processes]
  /\ todo \in [Requests -> {Handler(k) : k \in Kinds} \cup RestsOfSignUp]
  /\ reply \in [Requests -> Replies]
  /\ run \in [Processes -> 0..MaxStarts]
  /\ carried \in [Requests -> SUBSET {"user", "account", "mail"}]
  /\ servedIn \in [Requests -> 0..MaxStarts]

(* An environment variable wins over the default, which is on.             *)
Resolve(value, default) ==
  IF value = "unset" THEN default ELSE value \notin {"false", "0", ""}

Init ==
  /\ \E value \in {"unset", "true", "false"} : rateLimiting = Resolve(value, TRUE)
  /\ phase = [p \in Processes |-> "down"]
  /\ starts = 0
  /\ hits = [p \in Processes |-> [k \in Kinds |-> 0]]
  /\ at = [r \in Requests |-> "new"]
  /\ kind = [r \in Requests |-> "none"]
  /\ on \in [Requests -> Processes]
  /\ todo = [r \in Requests |-> <<>>]
  /\ reply = [r \in Requests |-> "none"]
  /\ run = [p \in Processes |-> 0]
  /\ carried = [r \in Requests |-> {}]
  /\ servedIn = [r \in Requests |-> 0]

Serving(p) == {r \in Requests : on[r] = p /\ at[r] \in InFlight}
Busy(p) == {r \in Serving(p) : at[r] = "query"}
HasClient(p) == Cardinality(Busy(p)) < PoolMax

-----------------------------------------------------------------------------
(* bootstrap() throws in some environments, and the process is down again; *)
(* in the others it listens, with its counters at zero.                    *)
Environments == [production : BOOLEAN, cookieSecret : BOOLEAN,
                 databaseUrl : BOOLEAN, authUrl : BOOLEAN, anyOrigin : BOOLEAN]

ValidateEnv(env) ==
  env.databaseUrl /\ env.authUrl /\ ~(env.production /\ env.anyOrigin)

Bootstrap(p) ==
  /\ phase[p] = "down"
  /\ starts < MaxStarts
  /\ \E env \in Environments :
       /\ env.production => env.cookieSecret
       /\ ValidateEnv(env)
  /\ phase' = [phase EXCEPT ![p] = "up"]
  /\ starts' = starts + 1
  /\ hits' = [hits EXCEPT ![p] = [k \in Kinds |-> 0]]
  /\ run' = [run EXCEPT ![p] = starts + 1]
  /\ UNCHANGED <<rateLimiting, request>>

(* enableShutdownHooks: SIGTERM runs onModuleDestroy, which ends the pool. *)
Sigterm(p) ==
  /\ phase[p] = "up"
  /\ phase' = [phase EXCEPT ![p] = "draining"]
  /\ UNCHANGED <<rateLimiting, starts, hits, run, request>>

NotAwaited(p) == TRUE                  \* slip: void pool.end()
Drained(p) == Busy(p) = {}

OnModuleDestroy(p) ==
  /\ phase[p] = "draining"
  /\ Drained(p)
  /\ phase' = [phase EXCEPT ![p] = "closing"]
  /\ UNCHANGED <<rateLimiting, starts, hits, run, request>>

Exit(p) ==
  /\ phase[p] = "closing"
  /\ Serving(p) = {}
  /\ phase' = [phase EXCEPT ![p] = "down"]
  /\ UNCHANGED <<rateLimiting, starts, hits, run, request>>

Crash(p) ==
  /\ phase[p] # "down"
  /\ phase' = [phase EXCEPT ![p] = "down"]
  /\ at' = [r \in Requests |-> IF r \in Serving(p) THEN "lost" ELSE at[r]]
  /\ UNCHANGED <<rateLimiting, starts, hits, run, kind, on, todo, reply, carried,
                 servedIn>>

-----------------------------------------------------------------------------
(* The exception filter and the proxies both call reply.send: Fastify      *)
(* sends what comes first.                                                 *)
Send(r, what) == reply' = [reply EXCEPT ![r] = IF @ = "none" THEN what ELSE @]

Envelope(k) == IF k = "list" THEN "page" ELSE "envelope"

(* The next statement of the handler, or its end. *)
Proceed(r, rest) ==
  /\ todo' = [todo EXCEPT ![r] = rest]
  /\ at' = [at EXCEPT ![r] = IF rest = <<>> THEN "ended" ELSE "connect"]

OneMore(p, k) == rateLimiting /\ hits[p][k] > Limit[k]     \* slip: off by one
Blocked(p, k) == rateLimiting /\ hits[p][k] >= Limit[k]

Arrive(r, k) ==
  LET p == on[r] IN
    /\ at[r] = "new"
    /\ phase[p] \in {"up", "draining"}
    /\ kind' = [kind EXCEPT ![r] = k]
    /\ hits' = [hits EXCEPT ![p][k] = @ + 1]
    /\ servedIn' = [servedIn EXCEPT ![r] = run[p]]
    /\ \/ Blocked(p, k) /\ Proceed(r, <<>>) /\ Send(r, "429")
       \/ ~Blocked(p, k) /\ Handler(k) = <<>> /\ Proceed(r, <<>>) /\ Send(r, Envelope(k))
       \/ ~Blocked(p, k) /\ Handler(k) # <<>> /\ Proceed(r, Handler(k)) /\ UNCHANGED reply
    /\ UNCHANGED <<rateLimiting, phase, starts, run, on, carried>>

(* better-auth's part of a handler, and what comes after it: the audit row *)
(* of signUp, which is written whatever better-auth has answered.          *)
Auth == {"auth", "lookup", "user", "account", "mail"}
AfterAuth(r) == IF kind[r] = "signUp" THEN <<"audit">> ELSE <<>>
LastOfAuth(r) == Head(todo[r]) \in {"auth", "mail"}

(* A statement succeeds.  A proxy sends better-auth's answer as soon as it *)
(* has it, signUp before it writes its audit row.                          *)
ReplyLast(r) == IF Tail(todo[r]) = <<>> THEN Send(r, "raw") ELSE UNCHANGED reply  \* slip
ReplyAuth(r) == IF LastOfAuth(r) THEN Send(r, "raw") ELSE UNCHANGED reply

Succeed(r) ==
  /\ Proceed(r, Tail(todo[r]))
  /\ \/ /\ Head(todo[r]) \in Auth
        /\ ReplyAuth(r)
        /\ carried' = [carried EXCEPT ![r] = @ \cup ({Head(todo[r])} \ {"auth", "lookup"})]
     \/ /\ Head(todo[r]) \notin Auth
        /\ Send(r, Envelope(kind[r]))
        /\ UNCHANGED carried

(* A statement fails.  better-auth answers for itself, leaving what it has *)
(* stored: an error, or, of an address in use or a mail that is not sent,  *)
(* what it answers to anybody.  Other errors are thrown to the exception   *)
(* filter.                                                                 *)
FailStatement(r) ==
  /\ \/ Head(todo[r]) \in Auth /\ Send(r, "rawError") /\ Proceed(r, AfterAuth(r))
     \/ Head(todo[r]) \in {"lookup", "mail"} /\ Send(r, "raw") /\ Proceed(r, AfterAuth(r))
     \/ Head(todo[r]) = "ping" /\ Send(r, "503") /\ Proceed(r, <<>>)
     \/ Head(todo[r]) \in {"read", "audit"} /\ Send(r, "500") /\ Proceed(r, <<>>)
  /\ UNCHANGED carried

(* The mail hook needs no client. *)
SendMail(r) ==
  /\ at[r] = "connect" /\ Head(todo[r]) = "mail"
  /\ Succeed(r) \/ FailStatement(r)
  /\ UNCHANGED <<process, kind, on, servedIn>>

(* pool.connect: after end() an error, a client, or the queue.             *)
Connect(r) ==
  /\ at[r] = "connect" /\ Head(todo[r]) # "mail"
  /\ \/ phase[on[r]] # "up" /\ FailStatement(r)
     \/ /\ phase[on[r]] = "up"
        /\ at' = [at EXCEPT ![r] = IF HasClient(on[r]) THEN "query" ELSE "queued"]
        /\ UNCHANGED <<todo, reply, carried>>
  /\ UNCHANGED <<process, kind, on, servedIn>>

Dequeue(r) ==
  /\ at[r] = "queued"
  /\ phase[on[r]] = "up"
  /\ HasClient(on[r])
  /\ at' = [at EXCEPT ![r] = "query"]
  /\ UNCHANGED <<process, kind, on, todo, reply, carried, servedIn>>

(* connectionTimeoutMillis; the queue of an ended pool is never served.    *)
WaitForever(r) == FALSE                \* slip: no connectionTimeoutMillis
WaitsTooLong(r) == at[r] = "queued"

TimeOut(r) ==
  /\ WaitsTooLong(r)
  /\ FailStatement(r)
  /\ UNCHANGED <<process, kind, on, servedIn>>

Query(r) ==
  /\ at[r] = "query"
  /\ Succeed(r) \/ FailStatement(r)
  /\ UNCHANGED <<process, kind, on, servedIn>>

Next ==
  \/ \E p \in Processes :
       Bootstrap(p) \/ Sigterm(p) \/ OnModuleDestroy(p) \/ Exit(p) \/ Crash(p)
  \/ \E r \in Requests :
       \/ \E k \in Routes : Arrive(r, k)
       \/ Connect(r) \/ Dequeue(r) \/ TimeOut(r) \/ Query(r) \/ SendMail(r)

(* Handlers run on, timers fire, PostgreSQL and the mail server answer or  *)
(* their sockets time out; a shutdown that has begun goes on.              *)
Fairness ==
  /\ \A r \in Requests :
       /\ WF_vars(Connect(r)) /\ WF_vars(Dequeue(r)) /\ WF_vars(TimeOut(r))
       /\ WF_vars(Query(r)) /\ WF_vars(SendMail(r))
  /\ \A p \in Processes : WF_vars(OnModuleDestroy(p)) /\ WF_vars(Exit(p))

Spec == Init /\ [][Next]_vars /\ Fairness

-----------------------------------------------------------------------------
(* What a client is told of its sign-up agrees with what is stored,        *)
(* wherever it breaks off: at a statement, at the pool, by a shutdown, or  *)
(* at the audit row behind it.  Success is never told of a user without    *)
(* account; an error is never told of a sign-up that is all done; and a    *)
(* user who is told of one anyway, being half created, is told so by       *)
(* better-auth and not by what this code does afterwards.                  *)
Stored(r) == carried[r] \cap {"user", "account"}

SignUpAnswerIsTrue ==
  \A r \in Requests :
    /\ reply[r] = "raw" => Stored(r) \in {{}, {"user", "account"}}
    /\ carried[r] = {"user", "account", "mail"} => reply[r] = "raw"
    /\ carried[r] # {} => reply[r] \in {"none", "raw", "rawError"}

(* A created user is never told of an error.  Not so: better-auth's        *)
(* statements may fail one by one.                                         *)
CreatedIsNotAnError ==
  \A r \in Requests : "user" \in carried[r] => reply[r] \in {"none", "raw"}

(* "OnModuleDestroy: drains the pg.Pool cleanly on shutdown (no dangling   *)
(* connections)": once HTTP is being closed no statement is running any    *)
(* more, although handlers still are and new requests came in meanwhile.   *)
PoolDrained ==
  \A p \in Processes : phase[p] = "closing" => Busy(p) = {}

(* The throttle counters live in the memory of each process: however       *)
(* requests spread over the processes, crash and come back, every start of *)
(* a process lets through the limit of a route and no more.                *)
LetThrough(k, i) == {r \in Requests : kind[r] = k /\ servedIn[r] = i /\ reply[r] # "429"}

BudgetPerStart ==
  rateLimiting => \A k \in Kinds : \A i \in 1..starts :
    Cardinality(LetThrough(k, i)) <= Limit[k]

(* "Rate limiting: 100 req/min globally", over all processes and restarts. *)
(* Not so, since every start has a limit of its own.                       *)
BudgetIsGlobal ==
  rateLimiting => \A k \in Kinds :
    Cardinality({r \in Requests : kind[r] = k /\ reply[r] # "429"}) <= Limit[k]

(* A request that has arrived is brought to its end, by a reply or because *)
(* its process dies: not even a shutdown while it waits for a client       *)
(* leaves it hanging.                                                      *)
EveryRequestEnds ==
  \A r \in Requests : at[r] \in InFlight ~> at[r] \in {"ended", "lost"}

(* SIGTERM ends the process in the end: neither the pool nor the HTTP      *)
(* server waits for a request that waits for them.                         *)
ShutdownEnds ==
  \A p \in Processes : phase[p] = "draining" ~> phase[p] = "down"
=============================================================================
