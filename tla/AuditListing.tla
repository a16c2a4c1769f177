---------------------------- MODULE AuditListing ----------------------------
(***************************************************************************)
(* GET admin/users/audit-logs: AuditService.findAll under an administrator *)
(* who follows nextCursor from page to page, while entries are logged and  *)
(* the monthly job purges old ones.  The userId filter is left out: the    *)
(* validation pipe refuses the parameter, which CursorPaginationDto does   *)
(* not declare.                                                            *)
(***************************************************************************)
EXTENDS Pagination

CONSTANTS
  MaxId,      \* entry ids are 1..MaxId; createId draws them in any order
  MaxLimit,   \* the largest limit CursorPaginationDto accepts
  Retention,  \* age at which purgeOldAuditLogs deletes an entry
  MaxTime     \* bound: the clock stops here

Ids == 1..MaxId
NoEntry == 0        \* the clock starts above it

VARIABLES
  now,        \* the clock
  createdAt,  \* audit_logs: when each entry was logged, or NoEntry
  used,       \* the ids drawn so far
  cursor,     \* the nextCursor of the last page
  walk,       \* new, open, or ended by a page without nextCursor
  listed,     \* how often each entry was on a page
  steady      \* history: the entries that were there all along the walk

vars == <<now, createdAt, used, cursor, walk, listed, steady>>

Entries == {id \in Ids : createdAt[id] # NoEntry}

TypeOK ==
  /\ now \in Nat \ {NoEntry}
  /\ createdAt \in [Ids -> 0..now]
  /\ Entries \subseteq used
  /\ used \subseteq Ids
  /\ cursor \in Ids \cup {NoCursor}
  /\ walk \in {"new", "open", "ended"}
  /\ listed \in [Ids -> Nat]
  /\ steady \subseteq Entries

Init ==
  /\ now = 1
  /\ createdAt = [id \in Ids |-> NoEntry]
  /\ used = {}
  /\ cursor = NoCursor
  /\ walk = "new"
  /\ listed = [id \in Ids |-> 0]
  /\ steady = {}

(* AuditService.log *)
Log(id) ==
  /\ id \notin used
  /\ used' = used \cup {id}
  /\ createdAt' = [createdAt EXCEPT ![id] = now]
  /\ UNCHANGED <<now, cursor, walk, listed, steady>>

Purgeable == {id \in Entries : createdAt[id] < now - Retention}

PurgeOldAuditLogs ==
  /\ createdAt' = [id \in Ids |-> IF id \in Purgeable THEN NoEntry ELSE createdAt[id]]
  /\ steady' = steady \ Purgeable
  /\ UNCHANGED <<now, used, cursor, walk, listed>>

Tick ==
  /\ now < MaxTime
  /\ now' = now + 1
  /\ UNCHANGED <<createdAt, used, cursor, walk, listed, steady>>

(* AuditService.findAll: ORDER BY createdAt DESC, id ASC, and yet it is    *)
(* the id that is compared with the cursor.                                *)
NewestFirst ==
  {pair \in Ids \X Ids :
     \/ createdAt[pair[1]] > createdAt[pair[2]]
     \/ createdAt[pair[1]] = createdAt[pair[2]] /\ pair[1] < pair[2]}

FromCursor == {id \in Entries : id >= cursor}      \* slip: gte for gt
Matching == {id \in Entries : id > cursor}

Fetched(limit) == FirstRows(Matching, limit + 1, NewestFirst)

FindAll(limit) ==
  /\ walk # "ended"
  /\ listed' = [id \in Ids |->
       IF id \in PageData(Fetched(limit), limit, NewestFirst)
         THEN listed[id] + 1 ELSE listed[id]]
  /\ cursor' = NextCursor(Fetched(limit), limit, NewestFirst)
  /\ walk' = IF HasNextPage(Fetched(limit), limit) THEN "open" ELSE "ended"
  /\ steady' = IF walk = "new" THEN Entries ELSE steady
  /\ UNCHANGED <<now, createdAt, used>>

Next ==
  \/ \E id \in Ids : Log(id)
  \/ PurgeOldAuditLogs
  \/ Tick
  \/ \E limit \in 1..MaxLimit : FindAll(limit)

Spec == Init /\ [][Next]_vars

-----------------------------------------------------------------------------
(* A walk makes headway: a page with a next one moves the cursor up, so    *)
(* that there are never more pages than ids, whatever is logged or purged  *)
(* between two pages.                                                      *)
WalkAdvances ==
  [][listed' # listed /\ walk' = "open" => cursor' > cursor]_vars

(* "paginated audit log": a walk to the last page has shown every entry    *)
(* that was there throughout.                                              *)
NothingMissed == walk = "ended" => \A id \in steady : listed[id] >= 1
=============================================================================
