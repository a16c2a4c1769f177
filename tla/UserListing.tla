---------------------------- MODULE UserListing ----------------------------
(***************************************************************************)
(* GET admin/users: an administrator follows nextCursor from page to page  *)
(* while users sign up and are soft-deleted.  A page is one SELECT, hence  *)
(* one action.                                                             *)
(***************************************************************************)
EXTENDS Pagination

CONSTANTS
  MaxId,     \* user ids are 1..MaxId, handed out in any order
  MaxLimit   \* the largest limit CursorPaginationDto accepts

ASSUME ListingAssumption == MaxId \in Nat /\ MaxLimit \in Nat \ {0}

Ids == 1..MaxId

VARIABLES
  user,     \* users: absent, live, or deleted (deletedAt is set)
  cursor,   \* the nextCursor of the last page
  walk,     \* open until a page has no nextCursor
  listed,   \* how often each user was on a page
  steady    \* history: the users that were live all along the walk

vars == <<user, cursor, walk, listed, steady>>

TypeOK ==
  /\ user \in [Ids -> {"absent", "live", "deleted"}]
  /\ cursor \in Ids \cup {NoCursor}
  /\ walk \in {"open", "ended"}
  /\ listed \in [Ids -> Nat]
  /\ steady \subseteq {id \in Ids : user[id] = "live"}

Init ==
  /\ user \in [Ids -> {"absent", "live", "deleted"}]
  /\ cursor = NoCursor
  /\ walk = "open"
  /\ listed = [id \in Ids |-> 0]
  /\ steady = {id \in Ids : user[id] = "live"}

(* A sign-up: better-auth draws the id, which need not be the largest.     *)
SignUp(id) ==
  /\ user[id] = "absent"
  /\ user' = [user EXCEPT ![id] = "live"]
  /\ UNCHANGED <<cursor, walk, listed, steady>>

(* softDelete, of a user that is not deleted already. *)
SoftDelete(id) ==
  /\ user[id] = "live"
  /\ user' = [user EXCEPT ![id] = "deleted"]
  /\ steady' = steady \ {id}
  /\ UNCHANGED <<cursor, walk, listed>>

(* UserService.findAll: ORDER BY id ASC. *)
ById == {pair \in Ids \X Ids : pair[1] < pair[2]}

FromCursor == {id \in Ids : user[id] = "live" /\ id >= cursor}  \* slip: gte for gt
Matching == {id \in Ids : user[id] = "live" /\ id > cursor}

Fetched(limit) == FirstRows(Matching, limit + 1, ById)

FindAll(limit) ==
  /\ walk = "open"
  /\ listed' = [id \in Ids |->
       IF id \in PageData(Fetched(limit), limit, ById) THEN listed[id] + 1
                                                       ELSE listed[id]]
  /\ cursor' = NextCursor(Fetched(limit), limit, ById)
  /\ walk' = IF HasNextPage(Fetched(limit), limit) THEN "open" ELSE "ended"
  /\ UNCHANGED <<user, steady>>

Next ==
  \/ \E id \in Ids : SignUp(id) \/ SoftDelete(id)
  \/ \E limit \in 1..MaxLimit : FindAll(limit)

Spec == Init /\ [][Next]_vars

-----------------------------------------------------------------------------
(* No user is on two pages of a walk, however its pages are sized and      *)
(* whoever signs up or is deleted in between.                              *)
NobodyTwice == \A id \in Ids : listed[id] <= 1

(* A walk to the last page has shown every user that was there throughout. *)
NobodyMissed == walk = "ended" => \A id \in steady : listed[id] >= 1
=============================================================================
