------------------------ MODULE AdminListings_proof ------------------------
(***************************************************************************)
(* Theorems about the two listings together, for any number of users and   *)
(* audit entries, any page sizes, any retention and any clock.             *)
(***************************************************************************)
EXTENDS AdminListings, UserListing_proof

-----------------------------------------------------------------------------
(* The audit log in the order of its query: newest first, then by id.      *)
LEMMA AuditIds ==
  /\ Audit!Ids = Ids
  /\ \A id \in Ids : id \in Nat /\ id > 0
BY IdsAreNumbers DEF Audit!Ids, Ids

(* Both listings count with the same Cardinality. *)
LEMMA AuditCounts == \A S : Audit!Cardinality(S) = Cardinality(S)
BY Zenon DEF Audit!Cardinality, Cardinality

LEMMA NewestFirstIs ==
  \A a, b \in Ids :
    <<a, b>> \in Audit!NewestFirst <=>
      \/ createdAt[a] > createdAt[b]
      \/ createdAt[a] = createdAt[b] /\ a < b
BY AuditIds DEF Audit!NewestFirst

(* A result that is not empty has a first row, the least id of its newest, *)
(* and a last one, the greatest id of its oldest.                          *)
LEMMA EndsOfResult ==
  ASSUME Audit!TypeOK, NEW S \in SUBSET Ids, S # {}
  PROVE  /\ \E row \in S : \A other \in S : <<other, row>> \notin Audit!NewestFirst
         /\ \E row \in S : \A other \in S : <<row, other>> \notin Audit!NewestFirst
<1>1. now \in Nat /\ \A id \in Ids : createdAt[id] \in Nat /\ createdAt[id] <= now
  BY AuditIds DEF Audit!TypeOK
<1>2. \E row \in S : \A other \in S : <<other, row>> \notin Audit!NewestFirst
  <2> DEFINE Ages == {now - createdAt[id] : id \in S}
  <2>1. Ages \in SUBSET Nat /\ Ages # {}
    BY <1>1
  <2>2. PICK a \in Ages : \A b \in Ages : a <= b
    BY <2>1, Least
  <2> DEFINE Newest == {id \in S : now - createdAt[id] = a}
  <2>3. Newest \in SUBSET Nat /\ Newest # {}
    BY <2>2, AuditIds
  <2>4. PICK row \in Newest : \A other \in Newest : row <= other
    BY <2>3, Least
  <2>5. ASSUME NEW other \in S, <<other, row>> \in Audit!NewestFirst PROVE FALSE
    <3>1. other \in Ids /\ row \in Ids /\ row \in S
      OBVIOUS
    <3>2. now - createdAt[row] = a /\ a <= now - createdAt[other]
      BY <2>2
    <3>3. createdAt[other] <= createdAt[row]
      BY <1>1, <3>1, <3>2
    <3>4. createdAt[other] = createdAt[row] /\ other < row
      BY <1>1, <2>5, <3>1, <3>3, NewestFirstIs
    <3>5. row <= other
      BY <2>4, <3>2, <3>4
    <3> QED
      BY <3>1, <3>4, <3>5, AuditIds
  <2> QED
    BY <2>5
<1>3. \E row \in S : \A other \in S : <<row, other>> \notin Audit!NewestFirst
  <2> DEFINE Times == {createdAt[id] : id \in S}
  <2>1. Times \in SUBSET Nat /\ Times # {}
    BY <1>1
  <2>2. PICK a \in Times : \A b \in Times : a <= b
    BY <2>1, Least
  <2> DEFINE Oldest == {id \in S : createdAt[id] = a}
  <2>3. Oldest \in SUBSET Ids /\ Oldest # {}
    BY <2>2
  <2>4. PICK row \in Oldest : \A other \in Oldest : other <= row
    BY <2>3, Greatest
  <2>5. ASSUME NEW other \in S, <<row, other>> \in Audit!NewestFirst PROVE FALSE
    <3>1. other \in Ids /\ row \in Ids /\ row \in S
      OBVIOUS
    <3>2. createdAt[row] = a /\ a <= createdAt[other]
      BY <2>2
    <3>3. createdAt[other] = createdAt[row] /\ row < other
      BY <1>1, <2>5, <3>1, <3>2, NewestFirstIs
    <3>4. other <= row
      BY <2>4, <3>2, <3>3
    <3> QED
      BY <3>1, <3>3, <3>4, AuditIds
  <2> QED
    BY <2>5
<1> QED
  BY <1>2, <1>3

(* What one page of the audit log is made of: with a next page, nextCursor *)
(* is one of its rows; in any case its rows match, that is they lie beyond *)
(* the cursor.                                                             *)
LEMMA AuditPage ==
  ASSUME Audit!TypeOK, NEW limit \in 1..MaxLimit
  PROVE  LET fetched == Audit!Fetched(limit)
             data == Audit!PageData(fetched, limit, Audit!NewestFirst)
             next == Audit!NextCursor(fetched, limit, Audit!NewestFirst)
         IN  /\ data \subseteq Audit!Matching
             /\ Audit!HasNextPage(fetched, limit) => next \in data
             /\ ~Audit!HasNextPage(fetched, limit) => next = NoCursor
<1> DEFINE fetched == Audit!Fetched(limit)
           data == Audit!PageData(fetched, limit, Audit!NewestFirst)
           next == Audit!NextCursor(fetched, limit, Audit!NewestFirst)
<1>1. limit \in Nat /\ limit > 0
  BY ListingAssumption
<1>2. Audit!Matching \in SUBSET Ids /\ fetched \in SUBSET Audit!Matching
  BY AuditIds DEF Audit!Matching, Audit!Entries, Audit!Fetched, Audit!FirstRows
<1> HIDE DEF fetched
<1>3. data \subseteq fetched
  BY DEF Audit!PageData, Audit!FirstRows
<1>4. CASE Audit!HasNextPage(fetched, limit)
  <2>1. fetched # {}
    BY <1>1, <1>4, AuditCounts, FS_EmptySet DEF Audit!HasNextPage
  <2>2. data = {row \in fetched :
                  Cardinality(Audit!Ahead(fetched, row, Audit!NewestFirst)) < limit}
    BY <1>4, AuditCounts DEF Audit!PageData, Audit!FirstRows
  <2>3. data # {}
    <3>1. PICK row \in fetched :
            \A other \in fetched : <<other, row>> \notin Audit!NewestFirst
      BY <1>2, <2>1, EndsOfResult
    <3>2. Audit!Ahead(fetched, row, Audit!NewestFirst) = {}
      BY <3>1 DEF Audit!Ahead
    <3>3. Cardinality(Audit!Ahead(fetched, row, Audit!NewestFirst)) < limit
      BY <1>1, <3>2, FS_EmptySet
    <3> QED
      BY <2>2, <3>3
  <2> HIDE DEF data
  <2>4. \E row \in data : \A other \in data : <<row, other>> \notin Audit!NewestFirst
    BY <1>2, <1>3, <2>3, EndsOfResult
  <2>5. next = Audit!LastRow(data, Audit!NewestFirst)
    BY <1>4 DEF Audit!NextCursor, data
  <2>6. next \in data
    BY <2>4, <2>5 DEF Audit!LastRow
  <2> QED
    BY <1>2, <1>3, <1>4, <2>6 DEF data, fetched
<1>5. CASE ~Audit!HasNextPage(fetched, limit)
  BY <1>2, <1>3, <1>5 DEF Audit!NextCursor, Audit!NoCursor, NoCursor, fetched
<1> QED
  BY <1>4, <1>5 DEF fetched

-----------------------------------------------------------------------------
(* A step of the listings is a step of one of them, or of neither.         *)
LEMMA StepOfEither ==
  [BothNext]_bothVars => [Next]_vars /\ [Audit!Next]_auditVars
BY DEF BothNext, bothVars, vars, auditVars

LEMMA AuditInitTyped == Audit!Init => Audit!TypeOK
BY AuditIds DEF Audit!Init, Audit!TypeOK, Audit!NoEntry, Audit!NoCursor, Audit!Entries

LEMMA AuditStepTyped == Audit!TypeOK /\ [Audit!Next]_auditVars => Audit!TypeOK'
<1> SUFFICES ASSUME Audit!TypeOK, [Audit!Next]_auditVars PROVE Audit!TypeOK'
  OBVIOUS
<1> USE AuditIds DEF Audit!TypeOK, Audit!NoEntry, Audit!NoCursor, Audit!Entries
<1>1. ASSUME NEW id \in Audit!Ids, Audit!Log(id) PROVE Audit!TypeOK'
  BY <1>1 DEF Audit!Log
<1>2. CASE Audit!PurgeOldAuditLogs
  BY <1>2 DEF Audit!PurgeOldAuditLogs, Audit!Purgeable
<1>3. CASE Audit!Tick
  BY <1>3 DEF Audit!Tick
<1>4. ASSUME NEW limit \in 1..MaxLimit, Audit!FindAll(limit) PROVE Audit!TypeOK'
  <2> DEFINE fetched == Audit!Fetched(limit)
             data == Audit!PageData(fetched, limit, Audit!NewestFirst)
             next == Audit!NextCursor(fetched, limit, Audit!NewestFirst)
  <2>1. next \in Ids \cup {NoCursor}
    BY AuditPage DEF Audit!Matching
  <2>2. /\ auditListed' = [id \in Audit!Ids |->
              IF id \in data THEN auditListed[id] + 1 ELSE auditListed[id]]
        /\ auditCursor' = next
        /\ auditWalk' \in {"open", "ended"}
        /\ auditSteady' \in {Audit!Entries, auditSteady}
        /\ UNCHANGED <<now, createdAt, used>>
    BY <1>4 DEF Audit!FindAll
  <2> HIDE DEF data, next
  <2> QED
    BY <2>1, <2>2 DEF NoCursor
<1>5. CASE UNCHANGED auditVars
  BY <1>5 DEF auditVars
<1> QED
  BY <1>1, <1>2, <1>3, <1>4, <1>5 DEF Audit!Next

(* The two listings do not disturb each other: what holds of either walk   *)
(* alone holds when both are under way.                                    *)
THEOREM ListingsAreIndependent == BothSpec => Spec /\ Audit!Spec
<1>1. BothInit => Init /\ Audit!Init
  BY DEF BothInit
<1>2. [BothNext]_bothVars => [Next]_vars /\ [Audit!Next]_auditVars
  BY StepOfEither
<1> QED
  BY <1>1, <1>2, PTL DEF BothSpec, Spec, Audit!Spec, auditVars, Audit!vars

(* The audit log and the walk through it keep their types: the cursor is   *)
(* an entry's id or null even when its entry has been purged, and no entry *)
(* is dated after the clock.                                               *)
LEMMA AuditTypeCorrect == BothSpec => []Audit!TypeOK
<1>1. BothInit => Audit!TypeOK
  BY AuditInitTyped DEF BothInit
<1>2. Audit!TypeOK /\ [BothNext]_bothVars => Audit!TypeOK'
  BY StepOfEither, AuditStepTyped
<1> QED
  BY <1>1, <1>2, PTL DEF BothSpec

(* AuditService.findAll resumes by id and sorts by createdAt, and still    *)
(* every page that has a next one moves the cursor up: a walk ends after   *)
(* at most as many pages as there are ids, whatever is logged or purged.   *)
THEOREM AuditWalkGoesOn == BothSpec => AuditWalkAdvances
<1>1. Audit!TypeOK /\ [BothNext]_bothVars =>
        [auditListed' # auditListed /\ auditWalk' = "open" =>
           auditCursor' > auditCursor]_Audit!vars
  <2> SUFFICES ASSUME Audit!TypeOK, [Audit!Next]_auditVars,
                      auditListed' # auditListed, auditWalk' = "open"
               PROVE  auditCursor' > auditCursor
    BY StepOfEither
  <2>1. PICK limit \in 1..MaxLimit : Audit!FindAll(limit)
    BY DEF Audit!Next, Audit!Log, Audit!PurgeOldAuditLogs, Audit!Tick, auditVars
  <2> DEFINE fetched == Audit!Fetched(limit)
             data == Audit!PageData(fetched, limit, Audit!NewestFirst)
             next == Audit!NextCursor(fetched, limit, Audit!NewestFirst)
  <2>2. Audit!HasNextPage(fetched, limit) /\ auditCursor' = next
    BY <2>1 DEF Audit!FindAll
  <2>3. next \in Audit!Matching
    BY <2>2, AuditPage
  <2> QED
    BY <2>2, <2>3 DEF Audit!Matching
<1> QED
  BY <1>1, AuditTypeCorrect, PTL DEF BothSpec, AuditWalkAdvances, Audit!WalkAdvances
=============================================================================
