---------------------------- MODULE Server_proof ----------------------------
(* Theorems about Server, for any processes, requests, pool and limits.     *)
EXTENDS Server, SequenceTheorems, FiniteSetTheorems, TLAPS

-----------------------------------------------------------------------------
(* What is left of a handler.                                              *)
Rests ==
  RestsOfSignUp \cup
  {<<"lookup", "user", "account", "mail", "audit">>, <<"read">>, <<"ping">>, <<"auth">>}

LEMMA RestsAreTodo == Rests = {Handler(k) : k \in Kinds} \cup RestsOfSignUp
<1>1. /\ Handler("me") = <<>> /\ Handler("list") = <<"read">> /\ Handler("health") = <<"ping">>
      /\ Handler("signUp") = <<"lookup", "user", "account", "mail", "audit">>
  BY DEF Handler, Me, ListUsers, Health, SignUp
<1>2. /\ Handler("social") = <<"auth">> /\ Handler("internal") = <<"auth">>
      /\ Handler("verify") = <<"auth">> /\ Handler("magicLink") = <<"auth">>
  BY DEF Handler, Social, Internal, VerifyEmail, MagicLink
<1> QED
  BY <1>1, <1>2 DEF Rests, RestsOfSignUp, Kinds

(* The statement that is due, and what is left after it.                   *)
LEMMA OneStatement ==
  ASSUME NEW x
  PROVE  Head(<<x>>) = x /\ Tail(<<x>>) = <<>>
<1>1. <<x>> \in Seq({x}) /\ Len(<<x>>) = 1 /\ <<x>> # <<>>
  OBVIOUS
<1>2. Tail(<<x>>) \in Seq({x}) /\ Len(Tail(<<x>>)) = 0
  BY <1>1, HeadTailProperties
<1>3. Tail(<<x>>) = <<>>
  BY <1>2, EmptySeq
<1> QED
  BY <1>3

LEMMA SignUpInOrder ==
  /\ Head(<<"lookup", "user", "account", "mail", "audit">>) = "lookup"
  /\ Tail(<<"lookup", "user", "account", "mail", "audit">>) = <<"user", "account", "mail", "audit">>
  /\ Head(<<"user", "account", "mail", "audit">>) = "user"
  /\ Tail(<<"user", "account", "mail", "audit">>) = <<"account", "mail", "audit">>
  /\ Head(<<"account", "mail", "audit">>) = "account"
  /\ Tail(<<"account", "mail", "audit">>) = <<"mail", "audit">>
  /\ Head(<<"mail", "audit">>) = "mail"
  /\ Tail(<<"mail", "audit">>) = <<"audit">>
OBVIOUS

(* A request in flight has a statement to run.  Until better-auth has      *)
(* answered nothing is sent, and by the statement that is due one knows    *)
(* what of a sign-up is stored.                                            *)
Ready(t, w, c) ==
  /\ t # <<>>
  /\ IF Head(t) = "audit" THEN w \in {"raw", "rawError"} ELSE w = "none"
  /\ Head(t) \in {"lookup", "user", "read", "ping", "auth"} => c = {}
  /\ Head(t) = "account" => c = {"user"}
  /\ Head(t) = "mail" => c = {"user", "account"}

(* SignUpAnswerIsTrue of one request: its answer and what is stored.       *)
Told(w, c) ==
  /\ w = "raw" => c \cap {"user", "account"} \in {{}, {"user", "account"}}
  /\ c = {"user", "account", "mail"} => w = "raw"
  /\ c # {} => w \in {"none", "raw", "rawError"}

Served ==
  \A r \in Requests :
    /\ at[r] \in InFlight => Ready(todo[r], reply[r], carried[r])
    /\ at[r] = "new" => reply[r] = "none" /\ carried[r] = {}
    /\ Told(reply[r], carried[r])

IInv == TypeOK /\ Served /\ PoolDrained

LEMMA InitIInv == Init => IInv
<1> SUFFICES ASSUME Init PROVE IInv
  OBVIOUS
<1>1. TypeOK
  <2>1. rateLimiting \in BOOLEAN
    BY DEF Init, Resolve
  <2>2. /\ hits \in [Processes -> [Kinds -> Nat]] /\ starts \in 0..MaxStarts
        /\ run \in [Processes -> 0..MaxStarts] /\ servedIn \in [Requests -> 0..MaxStarts]
    BY ServerAssumption DEF Init
  <2>3. todo \in [Requests -> {Handler(k) : k \in Kinds} \cup RestsOfSignUp]
    BY DEF Init, RestsOfSignUp
  <2> QED
    BY <2>1, <2>2, <2>3 DEF Init, TypeOK, Replies, InFlight
<1>2. Served /\ PoolDrained
  BY DEF Init, Served, Told, PoolDrained, InFlight
<1> QED
  BY <1>1, <1>2 DEF IInv

-----------------------------------------------------------------------------
(* A process comes up, drains its pool, or goes; only a crash touches      *)
(* requests.                                                               *)
LEMMA PhaseKeeps ==
  ASSUME IInv, NEW p \in Processes, Bootstrap(p) \/ Sigterm(p) \/ OnModuleDestroy(p) \/ Exit(p)
  PROVE  IInv'
<1> USE DEF IInv
<1>1. UNCHANGED <<rateLimiting, request>>
  BY DEF Bootstrap, Sigterm, OnModuleDestroy, Exit
<1>2. /\ phase' \in [Processes -> {"down", "up", "draining", "closing"}]
      /\ \A q \in Processes : phase'[q] = "closing" => phase[q] = "closing" \/ Busy(q) = {}
  BY DEF Bootstrap, Sigterm, OnModuleDestroy, Exit, Drained, TypeOK
<1>3. starts' \in 0..MaxStarts /\ run' \in [Processes -> 0..MaxStarts]
  BY ServerAssumption DEF Bootstrap, Sigterm, OnModuleDestroy, Exit, TypeOK
<1>4. hits' \in [Processes -> [Kinds -> Nat]]
  <2>1. CASE Bootstrap(p)
    <3>1. hits' = [hits EXCEPT ![p] = [k \in Kinds |-> 0]]
      BY <2>1 DEF Bootstrap
    <3>2. [k \in Kinds |-> 0] \in [Kinds -> Nat]
      OBVIOUS
    <3> QED
      BY <3>1, <3>2 DEF TypeOK
  <2> QED
    BY <2>1 DEF Sigterm, OnModuleDestroy, Exit, TypeOK
<1>5. TypeOK'
  BY <1>1, <1>2, <1>3, <1>4 DEF TypeOK, request
<1>6. PoolDrained'
  BY <1>1, <1>2 DEF PoolDrained, Busy, Serving, request
<1> QED
  BY <1>1, <1>5, <1>6 DEF request, Served

LEMMA CrashKeeps ==
  ASSUME IInv, NEW p \in Processes, Crash(p)
  PROVE  IInv'
<1> USE DEF IInv
<1>1. /\ at' \in [Requests -> InFlight \cup {"new", "ended", "lost"}]
      /\ \A r \in Requests : at'[r] = at[r] \/ at'[r] = "lost"
      /\ UNCHANGED <<rateLimiting, starts, hits, run, kind, on, todo, reply, carried, servedIn>>
      /\ phase' \in [Processes -> {"down", "up", "draining", "closing"}]
      /\ \A q \in Processes : phase'[q] = "closing" => phase[q] = "closing"
  BY DEF Crash, TypeOK
<1>2. TypeOK'
  BY <1>1 DEF TypeOK
<1>3. Served'
  BY <1>1 DEF Served, InFlight
<1>4. PoolDrained'
  BY <1>1 DEF PoolDrained, Busy, Serving, InFlight
<1> QED
  BY <1>2, <1>3, <1>4

-----------------------------------------------------------------------------
(* A step of one request that leaves the processes alone.  It is enough to *)
(* look at that request, and a client is taken only while the pool lives.  *)
Moves(r, a, t, w, c) ==
  /\ UNCHANGED <<rateLimiting, phase, starts, run, on>>
  /\ hits' \in [Processes -> [Kinds -> Nat]]
  /\ kind' \in [Requests -> Kinds \cup {"none"}]
  /\ servedIn' \in [Requests -> 0..MaxStarts]
  /\ a \in InFlight \cup {"ended"} /\ at' = [at EXCEPT ![r] = a]
  /\ t \in Rests /\ todo' = [todo EXCEPT ![r] = t]
  /\ w \in Replies /\ reply' = [reply EXCEPT ![r] = w]
  /\ c \in SUBSET {"user", "account", "mail"} /\ carried' = [carried EXCEPT ![r] = c]
  /\ a \in InFlight => Ready(t, w, c)
  /\ Told(w, c)
  /\ a = "query" => phase[on[r]] = "up"

LEMMA RequestKeeps ==
  ASSUME IInv, NEW r \in Requests, NEW a, NEW t, NEW w, NEW c, Moves(r, a, t, w, c)
  PROVE  IInv'
<1> USE DEF IInv, Moves
<1>1. TypeOK'
  BY RestsAreTodo DEF TypeOK
<1>2. Served'
  <2>1. ASSUME NEW q \in Requests
        PROVE  /\ at'[q] \in InFlight => Ready(todo'[q], reply'[q], carried'[q])
               /\ at'[q] = "new" => reply'[q] = "none" /\ carried'[q] = {}
               /\ Told(reply'[q], carried'[q])
    <3>1. CASE q = r
      <4>1. at'[q] = a /\ todo'[q] = t /\ reply'[q] = w /\ carried'[q] = c
        BY <3>1 DEF TypeOK
      <4> QED
        BY <4>1 DEF InFlight
    <3>2. CASE q # r
      <4>1. at'[q] = at[q] /\ todo'[q] = todo[q] /\ reply'[q] = reply[q] /\ carried'[q] = carried[q]
        BY <3>2 DEF TypeOK
      <4> QED
        BY <4>1 DEF Served
    <3> QED
      BY <3>1, <3>2
  <2> HIDE DEF Moves
  <2> QED
    BY <2>1 DEF Served
<1>3. PoolDrained'
  BY DEF TypeOK, PoolDrained, Busy, Serving, InFlight
<1> QED
  BY <1>1, <1>2, <1>3

LEMMA ArriveKeeps ==
  ASSUME IInv, NEW r \in Requests, NEW k \in Routes, Arrive(r, k)
  PROVE  IInv'
<1> USE DEF IInv
<1>1. /\ at[r] = "new" /\ reply[r] = "none" /\ carried[r] = {} /\ on[r] \in Processes
      /\ k \in Kinds
      /\ UNCHANGED <<rateLimiting, phase, starts, run, on, carried>>
  BY ServerAssumption DEF Arrive, Served, TypeOK
<1>2. /\ hits' \in [Processes -> [Kinds -> Nat]]
      /\ kind' \in [Requests -> Kinds \cup {"none"}]
      /\ servedIn' \in [Requests -> 0..MaxStarts]
  BY <1>1 DEF Arrive, TypeOK
<1>3. Handler(k) \in Rests
  BY <1>1, RestsAreTodo
<1> DEFINE c == {}
<1>4. /\ c \in SUBSET {"user", "account", "mail"} /\ carried' = [carried EXCEPT ![r] = c]
      /\ \A w : Told(w, c)
  BY <1>1 DEF TypeOK, Told
<1> HIDE DEF c
<1>5. CASE \E w \in {"429", Envelope(k)} : Proceed(r, <<>>) /\ Send(r, w)
  <2>1. PICK w \in {"429", "page", "envelope"} : Proceed(r, <<>>) /\ Send(r, w)
    BY <1>5 DEF Envelope
  <2>2. /\ at' = [at EXCEPT ![r] = "ended"] /\ todo' = [todo EXCEPT ![r] = <<>>]
        /\ reply' = [reply EXCEPT ![r] = w]
    BY <1>1, <2>1 DEF Proceed, Send, TypeOK
  <2>3. w \in Replies /\ <<>> \in Rests
    BY DEF Replies, Rests, RestsOfSignUp
  <2>4. "ended" \notin InFlight /\ "ended" \in InFlight \cup {"ended"} /\ "ended" # "query"
    BY DEF InFlight
  <2>5. Moves(r, "ended", <<>>, w, c)
    BY <1>1, <1>2, <1>4, <2>2, <2>3, <2>4 DEF Moves
  <2> QED
    BY <2>5, RequestKeeps
<1>6. CASE Handler(k) # <<>> /\ Proceed(r, Handler(k)) /\ UNCHANGED reply
  <2>1. PICK a \in InFlight \cup {"ended"}, w \in Replies :
          /\ a = "connect" /\ w = "none"
          /\ at' = [at EXCEPT ![r] = a]
          /\ todo' = [todo EXCEPT ![r] = Handler(k)]
          /\ reply' = [reply EXCEPT ![r] = w]
    BY <1>1, <1>6 DEF Proceed, TypeOK, Replies, InFlight
  <2>2. Head(Handler(k)) \in {"lookup", "read", "ping", "auth"}
    BY <1>1, <1>6, SignUpInOrder, OneStatement
    DEF Kinds, Handler, Me, ListUsers, Health, SignUp, Social, Internal, VerifyEmail, MagicLink
  <2>3. Ready(Handler(k), w, c)
    BY <1>6, <2>1, <2>2 DEF Ready, c
  <2>4. Moves(r, a, Handler(k), w, c)
    BY <1>1, <1>2, <1>3, <1>4, <2>1, <2>3 DEF Moves
  <2> QED
    BY <2>4, RequestKeeps
<1> QED
  BY <1>5, <1>6 DEF Arrive

(* A statement has come out: what is left, answered and stored then.       *)
LEMMA OutcomeIs ==
  ASSUME IInv, NEW r \in Requests, at[r] \in InFlight,
         Succeed(r) \/ FailStatement(r)
  PROVE  \E t \in Rests, w \in Replies, c \in SUBSET {"user", "account", "mail"} :
           /\ Proceed(r, t)
           /\ reply' = [reply EXCEPT ![r] = w]
           /\ carried' = [carried EXCEPT ![r] = c]
           /\ t # <<>> => Ready(t, w, c)
           /\ Told(w, c)
<1> USE DEF IInv
<1> DEFINE h == Head(todo[r])
           Goal(t, w, c) ==
             /\ t \in Rests /\ w \in Replies /\ c \in SUBSET {"user", "account", "mail"}
             /\ Proceed(r, t)
             /\ reply' = [reply EXCEPT ![r] = w]
             /\ carried' = [carried EXCEPT ![r] = c]
             /\ t # <<>> => Ready(t, w, c)
             /\ Told(w, c)
<1>1. /\ todo[r] \in Rests /\ reply[r] \in Replies
      /\ carried[r] \in SUBSET {"user", "account", "mail"}
      /\ Ready(todo[r], reply[r], carried[r]) /\ Told(reply[r], carried[r])
  BY RestsAreTodo DEF TypeOK, Served
<1>2. \/ todo[r] \in {<<"read">>, <<"ping">>, <<"auth">>, <<"audit">>}
      \/ todo[r] \in {<<"lookup", "user", "account", "mail", "audit">>,
                      <<"user", "account", "mail", "audit">>, <<"account", "mail", "audit">>,
                      <<"mail", "audit">>}
  BY <1>1 DEF Rests, RestsOfSignUp, Ready
<1>3. /\ <<>> \in Rests /\ <<"audit">> \in Rests /\ <<"audit">> # <<>>
      /\ Head(<<"audit">>) = "audit"
  BY OneStatement DEF Rests, RestsOfSignUp
<1>4. \A w : Send(r, w) => reply' = [reply EXCEPT ![r] = IF reply[r] = "none" THEN w ELSE reply[r]]
  BY DEF Send, TypeOK
<1>5. CASE FailStatement(r)
  <2>1. carried' = [carried EXCEPT ![r] = carried[r]]
    BY <1>5 DEF FailStatement, TypeOK
  <2>2. AfterAuth(r) \in {<<>>, <<"audit">>}
    BY DEF AfterAuth
  <2>3. CASE \E w \in {"raw", "rawError"} :
               /\ h \in Auth /\ Send(r, w) /\ Proceed(r, AfterAuth(r))
               /\ w = "raw" => h \in {"lookup", "mail"}
    <3>1. PICK w \in {"raw", "rawError"} :
               /\ h \in Auth /\ Send(r, w) /\ Proceed(r, AfterAuth(r))
               /\ w = "raw" => h \in {"lookup", "mail"}
      BY <2>3
    <3>2. reply[r] = "none" /\ reply' = [reply EXCEPT ![r] = w] /\ w \in Replies
      BY <1>1, <1>4, <3>1 DEF Ready, Auth, Replies
    <3>3. carried[r] \in {{}, {"user"}, {"user", "account"}}
          /\ (w = "raw" => carried[r] \in {{}, {"user", "account"}})
      BY <1>1, <3>1 DEF Ready, Auth
    <3>4. Told(w, carried[r])
      BY <3>1, <3>3 DEF Told
    <3>5. AfterAuth(r) # <<>> => Ready(AfterAuth(r), w, carried[r])
      BY <1>3, <2>2 DEF Ready
    <3>6. Goal(AfterAuth(r), w, carried[r])
      BY <1>1, <1>3, <2>1, <2>2, <3>1, <3>2, <3>4, <3>5
    <3> QED
      BY <3>6
  <2>4. CASE \E w \in {"500", "503"} :
               h \in {"ping", "read", "audit"} /\ Send(r, w) /\ Proceed(r, <<>>)
    <3>1. PICK w \in {"500", "503"} :
               h \in {"ping", "read", "audit"} /\ Send(r, w) /\ Proceed(r, <<>>)
      BY <2>4
    <3> DEFINE v == IF reply[r] = "none" THEN w ELSE reply[r]
    <3>2. reply' = [reply EXCEPT ![r] = v] /\ v \in Replies
      BY <1>1, <1>4, <3>1 DEF Replies
    <3>3. Told(v, carried[r])
      BY <1>1, <3>1 DEF Told, Ready
    <3>4. Goal(<<>>, v, carried[r])
      BY <1>1, <1>3, <2>1, <3>1, <3>2, <3>3
    <3> QED
      BY <3>4
  <2> QED
    BY <1>5, <2>3, <2>4 DEF FailStatement, Auth
<1>6. CASE Succeed(r)
  <2>1. Proceed(r, Tail(todo[r]))
    BY <1>6 DEF Succeed
  <2>2. CASE todo[r] \in {<<"read">>, <<"ping">>, <<"auth">>, <<"audit">>}
    <3>1. PICK x \in {"read", "ping", "auth", "audit"} : todo[r] = <<x>>
      BY <2>2
    <3>2. h = x /\ Tail(todo[r]) = <<>>
      BY <3>1, OneStatement
    <3>3. PICK w \in {"raw", "page", "envelope"} :
            /\ reply' = [reply EXCEPT ![r] = IF reply[r] = "none" THEN w ELSE reply[r]]
            /\ carried' = [carried EXCEPT ![r] = carried[r]]
      <4>1. CASE h \in Auth
        <5>1. h = "auth" /\ Send(r, "raw")
          BY <1>6, <3>2, <4>1 DEF Succeed, Auth, ReplyAuth, LastOfAuth
        <5>2. carried' = [carried EXCEPT ![r] = carried[r] \cup ({h} \ {"auth", "lookup"})]
          BY <1>6, <4>1 DEF Succeed, TypeOK
        <5>3. carried[r] \cup ({h} \ {"auth", "lookup"}) = carried[r]
          BY <5>1
        <5> QED
          BY <1>4, <5>1, <5>2, <5>3
      <4>2. CASE h \notin Auth
        <5>1. Send(r, Envelope(kind[r])) /\ carried' = carried
          BY <1>6, <4>2 DEF Succeed
        <5> QED
          BY <1>4, <5>1 DEF Envelope, TypeOK
      <4> QED
        BY <4>1, <4>2
    <3> DEFINE v == IF reply[r] = "none" THEN w ELSE reply[r]
    <3>4. v \in Replies /\ Told(v, carried[r])
      BY <1>1, <3>2 DEF Told, Ready, Replies
    <3>5. Goal(<<>>, v, carried[r])
      BY <1>1, <1>3, <2>1, <3>2, <3>3, <3>4
    <3> QED
      BY <3>5
  <2>3. ASSUME NEW x, NEW y, NEW t, NEW c,
               todo[r] # <<>>, h = x, Tail(todo[r]) = t, t \in Rests, t # <<>>, Head(t) = y,
               <<x, y, c>> \in {<<"lookup", "user", {}>>, <<"user", "account", {"user"}>>,
                                <<"account", "mail", {"user", "account"}>>}
        PROVE  Goal(t, "none", c)
    <3>1. h \in Auth /\ ~LastOfAuth(r)
      BY <2>3 DEF Auth, LastOfAuth
    <3>2. reply[r] = "none" /\ reply' = [reply EXCEPT ![r] = "none"]
      BY <1>1, <1>6, <2>3, <3>1 DEF Succeed, ReplyAuth, Ready, TypeOK
    <3>3. carried' = [carried EXCEPT ![r] = carried[r] \cup ({h} \ {"auth", "lookup"})]
      BY <1>6, <3>1 DEF Succeed, TypeOK
    <3>4. carried[r] \cup ({h} \ {"auth", "lookup"}) = c
      BY <1>1, <2>3 DEF Ready
    <3>5. Ready(t, "none", c) /\ Told("none", c)
      BY <2>3 DEF Ready, Told
    <3> QED
      BY <1>1, <2>1, <2>3, <3>2, <3>3, <3>4, <3>5
  <2>4. CASE todo[r] = <<"lookup", "user", "account", "mail", "audit">>
    <3> DEFINE t == <<"user", "account", "mail", "audit">>
    <3>1. /\ todo[r] # <<>> /\ h = "lookup" /\ Tail(todo[r]) = t
          /\ t \in Rests /\ t # <<>> /\ Head(t) = "user"
      BY <2>4, SignUpInOrder DEF Rests, RestsOfSignUp
    <3>2. <<"lookup", "user", {}>> \in
            {<<"lookup", "user", {}>>, <<"user", "account", {"user"}>>,
             <<"account", "mail", {"user", "account"}>>}
      OBVIOUS
    <3> HIDE DEF t
    <3>3. Goal(t, "none", {})
      BY <2>3, <3>1, <3>2
    <3> QED
      BY <3>3
  <2>5. CASE todo[r] = <<"user", "account", "mail", "audit">>
    <3> DEFINE t == <<"account", "mail", "audit">>
    <3>1. /\ todo[r] # <<>> /\ h = "user" /\ Tail(todo[r]) = t
          /\ t \in Rests /\ t # <<>> /\ Head(t) = "account"
      BY <2>5, SignUpInOrder DEF Rests, RestsOfSignUp
    <3>2. <<"user", "account", {"user"}>> \in
            {<<"lookup", "user", {}>>, <<"user", "account", {"user"}>>,
             <<"account", "mail", {"user", "account"}>>}
      OBVIOUS
    <3> HIDE DEF t
    <3>3. Goal(t, "none", {"user"})
      BY <2>3, <3>1, <3>2
    <3> QED
      BY <3>3
  <2>6. CASE todo[r] = <<"account", "mail", "audit">>
    <3> DEFINE t == <<"mail", "audit">>
    <3>1. /\ todo[r] # <<>> /\ h = "account" /\ Tail(todo[r]) = t
          /\ t \in Rests /\ t # <<>> /\ Head(t) = "mail"
      BY <2>6, SignUpInOrder DEF Rests, RestsOfSignUp
    <3>2. <<"account", "mail", {"user", "account"}>> \in
            {<<"lookup", "user", {}>>, <<"user", "account", {"user"}>>,
             <<"account", "mail", {"user", "account"}>>}
      OBVIOUS
    <3> HIDE DEF t
    <3>3. Goal(t, "none", {"user", "account"})
      BY <2>3, <3>1, <3>2
    <3> QED
      BY <3>3
  <2>7. CASE todo[r] = <<"mail", "audit">>
    <3>1. h = "mail" /\ Tail(todo[r]) = <<"audit">> /\ LastOfAuth(r) /\ h \in Auth
      BY <2>7, SignUpInOrder DEF LastOfAuth, Auth
    <3>2. reply[r] = "none" /\ carried[r] = {"user", "account"}
      BY <1>1, <3>1 DEF Ready
    <3>3. reply' = [reply EXCEPT ![r] = "raw"]
      BY <1>4, <1>6, <3>1, <3>2 DEF Succeed, ReplyAuth
    <3>4. carried' = [carried EXCEPT ![r] = carried[r] \cup ({h} \ {"auth", "lookup"})]
      BY <1>6, <3>1 DEF Succeed, TypeOK
    <3>5. carried[r] \cup ({h} \ {"auth", "lookup"}) = {"user", "account", "mail"}
      BY <3>1, <3>2
    <3>6. /\ Told("raw", {"user", "account", "mail"}) /\ "raw" \in Replies
          /\ Ready(<<"audit">>, "raw", {"user", "account", "mail"})
      BY <1>3 DEF Told, Ready, Replies
    <3>7. Goal(<<"audit">>, "raw", {"user", "account", "mail"})
      BY <1>3, <2>1, <3>1, <3>3, <3>4, <3>5, <3>6
    <3> QED
      BY <3>7
  <2> QED
    BY <1>2, <2>2, <2>4, <2>5, <2>6, <2>7
<1> QED
  BY <1>5, <1>6

LEMMA OutcomeKeeps ==
  ASSUME IInv, NEW r \in Requests, at[r] \in InFlight,
         UNCHANGED <<process, kind, on, servedIn>>,
         Succeed(r) \/ FailStatement(r)
  PROVE  IInv'
<1>1. PICK t \in Rests, w \in Replies, c \in SUBSET {"user", "account", "mail"} :
        /\ Proceed(r, t)
        /\ reply' = [reply EXCEPT ![r] = w]
        /\ carried' = [carried EXCEPT ![r] = c]
        /\ t # <<>> => Ready(t, w, c)
        /\ Told(w, c)
  BY OutcomeIs
<1> DEFINE a == IF t = <<>> THEN "ended" ELSE "connect"
<1>2. at' = [at EXCEPT ![r] = a] /\ todo' = [todo EXCEPT ![r] = t]
  BY <1>1 DEF Proceed
<1>3. a \in InFlight \cup {"ended"} /\ (a \in InFlight => t # <<>>) /\ a # "query"
  BY DEF InFlight
<1>4. /\ hits' \in [Processes -> [Kinds -> Nat]] /\ kind' \in [Requests -> Kinds \cup {"none"}]
      /\ servedIn' \in [Requests -> 0..MaxStarts]
      /\ UNCHANGED <<rateLimiting, phase, starts, run, on>>
  BY DEF IInv, TypeOK, process
<1> HIDE DEF a
<1>5. Moves(r, a, t, w, c)
  BY <1>1, <1>2, <1>3, <1>4 DEF Moves
<1> QED
  BY <1>5, RequestKeeps

LEMMA WaitKeeps ==
  ASSUME IInv, NEW r \in Requests,
         Connect(r) \/ Dequeue(r) \/ TimeOut(r) \/ Query(r) \/ SendMail(r)
  PROVE  IInv'
<1> USE DEF IInv
<1>1. at[r] \in InFlight /\ UNCHANGED <<process, kind, on, servedIn>>
  BY DEF Connect, Dequeue, TimeOut, WaitsTooLong, Query, SendMail, InFlight
<1>2. CASE Succeed(r) \/ FailStatement(r)
  BY <1>1, <1>2, OutcomeKeeps
<1>3. ASSUME NEW a \in {"query", "queued"}, phase[on[r]] = "up",
             at' = [at EXCEPT ![r] = a], UNCHANGED <<todo, reply, carried>>
      PROVE  IInv'
  <2>1. /\ todo[r] \in Rests /\ reply[r] \in Replies
        /\ carried[r] \in SUBSET {"user", "account", "mail"}
        /\ Ready(todo[r], reply[r], carried[r]) /\ Told(reply[r], carried[r])
    BY <1>1, RestsAreTodo DEF TypeOK, Served
  <2>2. /\ todo' = [todo EXCEPT ![r] = todo[r]]
        /\ reply' = [reply EXCEPT ![r] = reply[r]]
        /\ carried' = [carried EXCEPT ![r] = carried[r]]
    BY <1>3 DEF TypeOK
  <2>3. /\ hits' \in [Processes -> [Kinds -> Nat]] /\ kind' \in [Requests -> Kinds \cup {"none"}]
        /\ servedIn' \in [Requests -> 0..MaxStarts]
        /\ UNCHANGED <<rateLimiting, phase, starts, run, on>>
    BY <1>1 DEF TypeOK, process
  <2>4. a \in InFlight \cup {"ended"}
    BY DEF InFlight
  <2>5. Moves(r, a, todo[r], reply[r], carried[r])
    BY <1>3, <2>1, <2>2, <2>3, <2>4 DEF Moves
  <2> QED
    BY <2>5, RequestKeeps
<1> QED
  BY <1>2, <1>3 DEF Connect, Dequeue, TimeOut, Query, SendMail

-----------------------------------------------------------------------------
LEMMA StepIInv == IInv /\ [Next]_vars => IInv'
<1> SUFFICES ASSUME IInv, [Next]_vars PROVE IInv'
  OBVIOUS
<1>1. CASE Next
  BY <1>1, PhaseKeeps, CrashKeeps, ArriveKeeps, WaitKeeps DEF Next
<1>2. CASE UNCHANGED vars
  BY <1>2
  DEF vars, process, request, IInv, TypeOK, Served, PoolDrained, Busy, Serving
<1> QED
  BY <1>1, <1>2

LEMMA Inductive == Spec => []IInv
BY InitIInv, StepIInv, PTL DEF Spec

(* Processes, counters and requests keep their types, for any number of    *)
(* them and any DB_POOL_MAX; what is left of a handler is one of the few    *)
(* sequences of statements the controllers consist of.                     *)
THEOREM TypeCorrect == Spec => []TypeOK
BY Inductive, PTL DEF IInv

(* Wherever a sign-up breaks off, by a fault, at the pool or by a          *)
(* shutdown, its client is not told that half a user is a success, nor     *)
(* that a sign-up that is all done has failed.                             *)
THEOREM SignUpsAreToldTrue == Spec => []SignUpAnswerIsTrue
<1>1. IInv => SignUpAnswerIsTrue
  BY DEF IInv, Served, Told, SignUpAnswerIsTrue, Stored
<1> QED
  BY <1>1, Inductive, PTL

(* After DrizzleService.onModuleDestroy no statement runs any more.        *)
THEOREM PoolIsDrained == Spec => []PoolDrained
BY Inductive, PTL DEF IInv

-----------------------------------------------------------------------------
(* The throttle.  Each process that is up is of a start of its own, later  *)
(* starts have served nobody yet, and the counter of a process is as high  *)
(* as the number of requests its start has let through.                    *)
OwnStart ==
  /\ \A r \in Requests : servedIn[r] <= starts
  /\ \A p \in Processes : phase[p] # "down" => run[p] \in 1..starts
  /\ \A p, q \in Processes : phase[p] # "down" /\ phase[q] # "down" /\ run[p] = run[q] => p = q

(* LetThrough, of any kinds, starts and replies: this state's or the next. *)
Passed(ks, sv, rp, k, i) == {r \in Requests : ks[r] = k /\ sv[r] = i /\ rp[r] # "429"}
AtMost(S, n) == IsFiniteSet(S) /\ Cardinality(S) <= n

Counted(k) ==
  /\ \A i \in 1..starts : AtMost(Passed(kind, servedIn, reply, k, i), Limit[k])
  /\ \A p \in Processes :
       phase[p] # "down" => AtMost(Passed(kind, servedIn, reply, k, run[p]), hits[p][k])

BudgetInv == rateLimiting => OwnStart /\ \A k \in Kinds : Counted(k)

LEMMA FewerAreWithin ==
  ASSUME NEW S, NEW T, T \subseteq S, NEW n \in Nat, AtMost(S, n)
  PROVE  AtMost(T, n)
<1>1. IsFiniteSet(T) /\ Cardinality(T) <= Cardinality(S)
  BY FS_Subset DEF AtMost
<1>2. Cardinality(S) \in Nat /\ Cardinality(T) \in Nat
  BY <1>1, FS_CardinalityType DEF AtMost
<1> QED
  BY <1>1, <1>2 DEF AtMost

LEMMA OneMoreIsWithin ==
  ASSUME NEW S, NEW x, NEW n \in Nat, AtMost(S, n)
  PROVE  AtMost(S \cup {x}, n + 1)
<1>1. /\ IsFiniteSet(S \cup {x})
      /\ Cardinality(S \cup {x}) = IF x \in S THEN Cardinality(S) ELSE Cardinality(S) + 1
  BY FS_AddElement DEF AtMost
<1>2. Cardinality(S) \in Nat
  BY FS_CardinalityType DEF AtMost
<1> QED
  BY <1>1, <1>2 DEF AtMost

(* Whatever is neither a start nor an arrival lets nobody through: an      *)
(* answer of 429 is final, and no process leaves "down".                   *)
Quiet ==
  /\ UNCHANGED <<rateLimiting, starts, hits, run, kind, servedIn>>
  /\ \A p \in Processes : phase[p] = "down" => phase'[p] = "down"
  /\ \A r \in Requests : reply[r] = "429" => reply'[r] = "429"

LEMMA QuietKeeps == IInv /\ BudgetInv /\ Quiet => BudgetInv'
<1> SUFFICES ASSUME IInv, BudgetInv, Quiet, rateLimiting
             PROVE  OwnStart' /\ \A k \in Kinds : Counted(k)'
  BY DEF Quiet, BudgetInv
<1>1. OwnStart'
  BY DEF BudgetInv, Quiet, OwnStart
<1>2. ASSUME NEW k \in Kinds PROVE Counted(k)'
  <2>1. \A i : Passed(kind, servedIn, reply', k, i) \subseteq Passed(kind, servedIn, reply, k, i)
    BY DEF Quiet, Passed
  <2>2. ASSUME NEW i \in 1..starts
        PROVE  AtMost(Passed(kind, servedIn, reply', k, i), Limit[k])
    <3>1. AtMost(Passed(kind, servedIn, reply, k, i), Limit[k]) /\ Limit[k] \in Nat
      BY ServerAssumption DEF BudgetInv, Counted
    <3> QED
      BY <2>1, <3>1, FewerAreWithin
  <2>3. ASSUME NEW p \in Processes, phase'[p] # "down"
        PROVE  AtMost(Passed(kind, servedIn, reply', k, run[p]), hits[p][k])
    <3>1. AtMost(Passed(kind, servedIn, reply, k, run[p]), hits[p][k]) /\ hits[p][k] \in Nat
      BY <2>3 DEF Quiet, BudgetInv, Counted, IInv, TypeOK
    <3> QED
      BY <2>1, <3>1, FewerAreWithin
  <2> QED
    BY <2>2, <2>3 DEF Counted, Quiet
<1> QED
  BY <1>1, <1>2

LEMMA StartKeeps ==
  ASSUME IInv, BudgetInv, NEW p \in Processes, Bootstrap(p)
  PROVE  BudgetInv'
<1> SUFFICES ASSUME rateLimiting PROVE OwnStart' /\ \A k \in Kinds : Counted(k)'
  BY DEF Bootstrap, BudgetInv
<1>1. /\ phase[p] = "down" /\ starts \in Nat /\ starts' = starts + 1
      /\ run' = [run EXCEPT ![p] = starts + 1]
      /\ phase' = [phase EXCEPT ![p] = "up"] /\ hits' = [hits EXCEPT ![p] = [k \in Kinds |-> 0]]
      /\ UNCHANGED <<kind, servedIn, reply>>
      /\ \A r \in Requests : servedIn[r] \in Nat
      /\ \A q \in Processes : run[q] \in Nat
  BY ServerAssumption DEF Bootstrap, IInv, TypeOK, request
<1>2. OwnStart
  BY DEF BudgetInv
<1>3. \A q \in Processes :
        /\ q # p => phase'[q] = phase[q] /\ run'[q] = run[q] /\ hits'[q] = hits[q]
        /\ q = p => run'[q] = starts + 1 /\ hits'[q] = [k \in Kinds |-> 0]
  BY <1>1 DEF IInv, TypeOK
<1>4. OwnStart'
  <2>1. \A r \in Requests : servedIn'[r] <= starts'
    BY <1>1, <1>2 DEF OwnStart
  <2>2. \A q \in Processes : phase'[q] # "down" => run'[q] \in 1..starts'
    BY <1>1, <1>2, <1>3 DEF OwnStart
  <2>3. \A q1, q2 \in Processes :
          phase'[q1] # "down" /\ phase'[q2] # "down" /\ run'[q1] = run'[q2] => q1 = q2
    BY <1>1, <1>2, <1>3 DEF OwnStart
  <2> QED
    BY <2>1, <2>2, <2>3 DEF OwnStart
<1>5. ASSUME NEW k \in Kinds PROVE Counted(k)'
  <2>1. Counted(k)
    BY DEF BudgetInv
  <2>2. Passed(kind, servedIn, reply, k, starts + 1) = {}
    BY <1>1, <1>2 DEF Passed, OwnStart
  <2>3. AtMost({}, 0) /\ AtMost({}, Limit[k])
    BY FS_EmptySet, ServerAssumption DEF AtMost
  <2>4. ASSUME NEW i \in 1..starts'
        PROVE  AtMost(Passed(kind, servedIn, reply, k, i), Limit[k])
    <3>1. CASE i = starts + 1
      BY <2>2, <2>3, <3>1
    <3>2. CASE i # starts + 1
      BY <1>1, <2>1, <3>2 DEF Counted
    <3> QED
      BY <3>1, <3>2
  <2>5. ASSUME NEW q \in Processes, phase'[q] # "down"
        PROVE  AtMost(Passed(kind, servedIn, reply, k, run'[q]), hits'[q][k])
    <3>1. CASE q = p
      <4>1. run'[q] = starts + 1 /\ hits'[q][k] = 0
        BY <1>3, <3>1
      <4> QED
        BY <2>2, <2>3, <4>1
    <3>2. CASE q # p
      BY <1>3, <2>1, <2>5, <3>2 DEF Counted
    <3> QED
      BY <3>1, <3>2
  <2> QED
    BY <1>1, <2>4, <2>5 DEF Counted
<1> QED
  BY <1>4, <1>5

(* An arrival is counted, and let through only below the limit.            *)
LEMMA ArrivalKeeps ==
  ASSUME IInv, BudgetInv, NEW r \in Requests, NEW k \in Routes, Arrive(r, k)
  PROVE  BudgetInv'
<1> SUFFICES ASSUME rateLimiting PROVE OwnStart' /\ \A j \in Kinds : Counted(j)'
  BY DEF Arrive, BudgetInv
<1> DEFINE p == on[r]
<1>1. /\ k \in Kinds /\ p \in Processes /\ phase[p] # "down"
      /\ UNCHANGED <<phase, starts, run>>
      /\ kind' = [kind EXCEPT ![r] = k]
      /\ servedIn' = [servedIn EXCEPT ![r] = run[p]]
      /\ hits' = [hits EXCEPT ![p][k] = @ + 1]
      /\ \A q \in Processes, i \in Kinds : hits[q][i] \in Nat
  BY ServerAssumption DEF Arrive, IInv, TypeOK
<1>2. OwnStart
  BY DEF BudgetInv
<1>3. /\ \A q \in Requests \ {r} :
           kind'[q] = kind[q] /\ servedIn'[q] = servedIn[q] /\ reply'[q] = reply[q]
      /\ kind'[r] = k /\ servedIn'[r] = run[p]
  BY <1>1 DEF Arrive, Send, IInv, TypeOK
<1>4. \A q \in Processes, i \in Kinds :
        hits'[q][i] = IF q = p /\ i = k THEN hits[q][i] + 1 ELSE hits[q][i]
  BY <1>1 DEF IInv, TypeOK
<1>5. run[p] \in 1..starts /\ starts \in Nat
  BY <1>1, <1>2 DEF OwnStart, IInv, TypeOK
<1>6. OwnStart'
  <2>1. \A q \in Requests : servedIn'[q] <= starts'
    BY <1>1, <1>2, <1>3, <1>5 DEF OwnStart
  <2> QED
    BY <1>1, <1>2, <2>1 DEF OwnStart
<1>7. \A j, i : ~(j = k /\ i = run[p]) =>
        Passed(kind', servedIn', reply', j, i) \subseteq Passed(kind, servedIn, reply, j, i)
  BY <1>3 DEF Passed
<1>8. Passed(kind', servedIn', reply', k, run[p]) \subseteq
        Passed(kind, servedIn, reply, k, run[p]) \cup {r}
  BY <1>3 DEF Passed
<1>9. reply'[r] # "429" => hits[p][k] < Limit[k]
  <2>1. reply[r] = "none" /\ reply \in [Requests -> Replies]
    BY DEF Arrive, IInv, Served, TypeOK
  <2>2. reply'[r] # "429" => ~Blocked(p, k)
    BY <2>1 DEF Arrive, Send
  <2> QED
    BY <1>1, <2>2, ServerAssumption DEF Blocked
<1>10. ASSUME NEW j \in Kinds, NEW i \in 1..starts
       PROVE  AtMost(Passed(kind', servedIn', reply', j, i), Limit[j])
  <2>1. AtMost(Passed(kind, servedIn, reply, j, i), Limit[j]) /\ Limit[j] \in Nat
    BY ServerAssumption DEF BudgetInv, Counted
  <2>2. CASE ~(j = k /\ i = run[p])
    BY <1>7, <2>1, <2>2, FewerAreWithin
  <2>3. CASE j = k /\ i = run[p] /\ reply'[r] = "429"
    <3>1. Passed(kind', servedIn', reply', k, run[p]) \subseteq Passed(kind, servedIn, reply, k, run[p])
      BY <1>3, <2>3 DEF Passed
    <3> QED
      BY <2>1, <2>3, <3>1, FewerAreWithin
  <2>4. CASE j = k /\ i = run[p] /\ reply'[r] # "429"
    <3>1. AtMost(Passed(kind, servedIn, reply, k, run[p]), hits[p][k]) /\ hits[p][k] \in Nat
      BY <1>1 DEF BudgetInv, Counted
    <3>2. AtMost(Passed(kind, servedIn, reply, k, run[p]) \cup {r}, hits[p][k] + 1)
      BY <3>1, OneMoreIsWithin
    <3>3. hits[p][k] + 1 <= Limit[k]
      BY <1>9, <2>1, <2>4, <3>1
    <3>4. AtMost(Passed(kind', servedIn', reply', k, run[p]), hits[p][k] + 1)
      BY <1>8, <3>1, <3>2, FewerAreWithin
    <3> QED
      BY <2>1, <2>4, <3>1, <3>3, <3>4, FS_CardinalityType DEF AtMost
  <2> QED
    BY <2>2, <2>3, <2>4
<1>11. ASSUME NEW j \in Kinds, NEW q \in Processes, phase[q] # "down"
       PROVE  AtMost(Passed(kind', servedIn', reply', j, run[q]), hits'[q][j])
  <2>1. AtMost(Passed(kind, servedIn, reply, j, run[q]), hits[q][j]) /\ hits[q][j] \in Nat
    BY <1>1, <1>11 DEF BudgetInv, Counted
  <2>2. CASE j = k /\ run[q] = run[p]
    <3>1. q = p
      BY <1>1, <1>2, <1>11, <2>2 DEF OwnStart
    <3>2. AtMost(Passed(kind, servedIn, reply, k, run[p]) \cup {r}, hits[p][k] + 1)
      BY <2>1, <2>2, <3>1, OneMoreIsWithin
    <3>3. hits'[q][j] = hits[p][k] + 1 /\ hits[p][k] + 1 \in Nat
      BY <1>1, <1>4, <2>2, <3>1
    <3> QED
      BY <1>8, <2>2, <3>1, <3>2, <3>3, FewerAreWithin
  <2>3. CASE ~(j = k /\ run[q] = run[p])
    <3>1. hits'[q][j] = hits[q][j]
      BY <1>4, <2>3
    <3> QED
      BY <1>7, <2>1, <2>3, <3>1, FewerAreWithin
  <2> QED
    BY <2>2, <2>3
<1> QED
  BY <1>1, <1>6, <1>10, <1>11 DEF Counted

(* The other steps are quiet. *)
LEMMA OthersAreQuiet ==
  ASSUME IInv
  PROVE  /\ \A p \in Processes :
              Sigterm(p) \/ OnModuleDestroy(p) \/ Exit(p) \/ Crash(p) => Quiet
         /\ \A r \in Requests :
              Connect(r) \/ Dequeue(r) \/ TimeOut(r) \/ Query(r) \/ SendMail(r) => Quiet
         /\ UNCHANGED vars => Quiet
<1> USE DEF IInv, TypeOK, Quiet
<1>1. ASSUME NEW p \in Processes,
             Sigterm(p) \/ OnModuleDestroy(p) \/ Exit(p) \/ Crash(p)
      PROVE  Quiet
  BY <1>1 DEF Sigterm, OnModuleDestroy, Exit, Crash, request
<1>2. ASSUME NEW r \in Requests,
             Connect(r) \/ Dequeue(r) \/ TimeOut(r) \/ Query(r) \/ SendMail(r)
      PROVE  Quiet
  <2>1. \A w : Send(r, w) => \A q \in Requests : reply[q] = "429" => reply'[q] = "429"
    BY DEF Send
  <2>2. \A q \in Requests : reply[q] = "429" => reply'[q] = "429"
    BY <1>2, <2>1
    DEF Connect, Dequeue, TimeOut, Query, SendMail, Succeed, FailStatement, ReplyAuth
  <2>3. UNCHANGED <<rateLimiting, phase, starts, hits, run, kind, servedIn>>
    BY <1>2 DEF Connect, Dequeue, TimeOut, Query, SendMail, process
  <2> QED
    BY <2>2, <2>3
<1>3. UNCHANGED vars => Quiet
  BY DEF vars, process, request
<1> QED
  BY <1>1, <1>2, <1>3

LEMMA StepBudget == IInv /\ BudgetInv /\ [Next]_vars => BudgetInv'
BY QuietKeeps, StartKeeps, ArrivalKeeps, OthersAreQuiet DEF Next

LEMMA InitBudget == Init => BudgetInv
<1> SUFFICES ASSUME Init PROVE OwnStart /\ \A k \in Kinds : Counted(k)
  BY DEF BudgetInv
<1>1. OwnStart
  BY DEF Init, OwnStart
<1> QED
  BY <1>1 DEF Init, Counted

(* Whatever ThrottlerStorageService forgets on a crash, and whichever      *)
(* process serves what: a start of a process lets no more than the limit   *)
(* through, for any number of processes and requests and any limits.       *)
THEOREM BudgetIsPerStart == Spec => []BudgetPerStart
<1>1. BudgetInv => BudgetPerStart
  BY DEF BudgetInv, Counted, BudgetPerStart, LetThrough, Passed, AtMost
<1> QED
  BY <1>1, Inductive, InitBudget, StepBudget, PTL DEF Spec
=============================================================================
