--------------------------- MODULE AdminListings ---------------------------
(***************************************************************************)
(* The two listings of the admin API at once: an administrator walks       *)
(* through the users and through the audit log with buildCursorPage.       *)
(***************************************************************************)
EXTENDS UserListing

CONSTANTS Retention, MaxTime    \* as in AuditListing

ASSUME AuditAssumption == Retention \in Nat /\ MaxTime \in Nat

VARIABLES now, createdAt, used, auditCursor, auditWalk, auditListed, auditSteady

auditVars == <<now, createdAt, used, auditCursor, auditWalk, auditListed, auditSteady>>
bothVars == <<vars, auditVars>>

Audit == INSTANCE AuditListing WITH
  cursor <- auditCursor, walk <- auditWalk, listed <- auditListed, steady <- auditSteady

BothInit == Init /\ Audit!Init

BothNext ==
  \/ Next /\ UNCHANGED auditVars
  \/ Audit!Next /\ UNCHANGED vars

BothSpec == BothInit /\ [][BothNext]_bothVars

-----------------------------------------------------------------------------
(* findAll of the audit log sorts by createdAt and resumes by id: still a  *)
(* walk makes headway, so that there are never more pages than ids,        *)
(* whatever is logged or purged between two pages.                         *)
AuditWalkAdvances == Audit!WalkAdvances
=============================================================================
