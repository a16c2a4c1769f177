---------------------------- MODULE DeviceTokens ----------------------------
(***************************************************************************)
(* DeviceTokenController: users register the push token of a device and    *)
(* remove it by the id of its record.  Each handler awaits one SQL         *)
(* statement after the other; an action is one of them and the code up to  *)
(* the next.  createId() never repeats, so the id a registration draws is  *)
(* named by its request.                                                   *)
(***************************************************************************)
EXTENDS Integers, FiniteSets

CONSTANTS
  Requests,     \* HTTP requests, each handled at most once
  Users,
  Devices,      \* the push tokens, one per device
  MaxInFlight,  \* bound: requests handled at a time
  Faults        \* whether a statement may fail or a handler may die

ASSUME DeviceAssumption ==
  /\ IsFiniteSet(Requests)
  /\ MaxInFlight \in Nat
  /\ Faults \in BOOLEAN

VARIABLES
  pc,           \* what each request's handler awaits, and how it ended
  who,          \* currentUser.id of each request
  device,       \* body.token of a registration
  target,       \* the id parameter of a removal
  deviceToken,  \* the rows of device_tokens
  auditLog,     \* the rows of audit_logs
  owners        \* history: the users each record has belonged to

vars == <<pc, who, device, target, deviceToken, auditLog, owners>>

Rows == [id : Requests, user : Users, device : Devices]
Running == {"upsert", "auditRegistered", "answerRegistered",
            "read", "delete", "auditRemoved", "answerRemoved"}
Ended == {"ok", "removed", "forbidden", "failed", "registeredUnlogged", "removedUnlogged"}
AuditAction == {"device_token_registered", "device_token_removed"}

TypeOK ==
  /\ pc \in [Requests -> {"new"} \cup Running \cup Ended]
  /\ who \in [Requests -> Users]
  /\ device \in [Requests -> Devices]
  /\ target \in [Requests -> Requests]
  /\ deviceToken \subseteq Rows
  /\ auditLog \subseteq [request : Requests, action : AuditAction]
  /\ owners \in [Requests -> SUBSET Users]

InFlight == {r \in Requests : pc[r] \in Running}

Init ==
  /\ pc = [r \in Requests |-> "new"]
  /\ who \in [Requests -> Users]
  /\ device \in [Requests -> Devices]
  /\ target = [r \in Requests |-> r]
  /\ deviceToken = {}
  /\ auditLog = {}
  /\ owners = [r \in Requests |-> {}]

-----------------------------------------------------------------------------
Arrives(r, handler) ==
  /\ pc[r] = "new"
  /\ Cardinality(InFlight) < MaxInFlight
  /\ pc' = [pc EXCEPT ![r] = handler]
  /\ UNCHANGED <<who, device, deviceToken, auditLog, owners>>

Register(r) == Arrives(r, "upsert") /\ UNCHANGED target

(* A removal names the id some registration was answered with, the         *)
(* requester's own or not: an id nobody was answered is not guessed.       *)
Remove(r) ==
  /\ Arrives(r, "read")
  /\ \E q \in Requests :
       pc[q] = "ok" /\ target' = [target EXCEPT ![r] = q]

(* register: the unique index on token decides.  A known token keeps its   *)
(* record, id included, and changes hands; else the new record goes in.    *)
RowsOf(d) == {row \in deviceToken : row.device = d}
RowsNamed(id) == {row \in deviceToken : row.id = id}

TokenAsId(r) == device[r]              \* slip: the record is named by its token
IdOf(r) == IF RowsOf(device[r]) = {} THEN r
           ELSE (CHOOSE row \in RowsOf(device[r]) : TRUE).id

Upsert(r) ==
  /\ pc[r] = "upsert"
  /\ deviceToken' = (deviceToken \ RowsOf(device[r])) \cup
       {[id |-> IdOf(r), user |-> who[r], device |-> device[r]]}
  /\ owners' = [owners EXCEPT ![IdOf(r)] = @ \cup {who[r]}]
  /\ pc' = [pc EXCEPT ![r] = "auditRegistered"]
  /\ UNCHANGED <<who, device, target, auditLog>>

(* audit.log, awaited before the answer. *)
AuditRegistered(r) ==
  /\ pc[r] = "auditRegistered"
  /\ auditLog' = auditLog \cup
       {[request |-> r, action |-> "device_token_registered"]}
  /\ pc' = [pc EXCEPT ![r] = "answerRegistered"]
  /\ UNCHANGED <<who, device, target, deviceToken, owners>>

(* The answer is the id drawn at the start, also when the record has       *)
(* another one.                                                            *)
AnswerRegistered(r) ==
  /\ pc[r] = "answerRegistered"
  /\ pc' = [pc EXCEPT ![r] = "ok"]
  /\ UNCHANGED <<who, device, target, deviceToken, auditLog, owners>>

(* remove: look the record up.  Only a record that is there and belongs to *)
(* somebody else is refused.                                               *)
AnyRequester(r) == FALSE                      \* slip: no ownership check
Foreign(r) == \E row \in RowsNamed(target[r]) : row.user # who[r]

ReadRow(r) ==
  /\ pc[r] = "read"
  /\ pc' = [pc EXCEPT ![r] = IF Foreign(r) THEN "forbidden" ELSE "delete"]
  /\ UNCHANGED <<who, device, target, deviceToken, auditLog, owners>>

(* remove: delete by id alone. *)
DeleteRow(r) ==
  /\ pc[r] = "delete"
  /\ deviceToken' = deviceToken \ RowsNamed(target[r])
  /\ pc' = [pc EXCEPT ![r] = "auditRemoved"]
  /\ UNCHANGED <<who, device, target, auditLog, owners>>

(* Slip: nothing is logged. *)
AnswerOnly(r) ==
  /\ pc[r] = "auditRemoved"
  /\ pc' = [pc EXCEPT ![r] = "answerRemoved"]
  /\ UNCHANGED <<who, device, target, deviceToken, auditLog, owners>>

AuditRemoved(r) ==
  /\ pc[r] = "auditRemoved"
  /\ auditLog' = auditLog \cup {[request |-> r, action |-> "device_token_removed"]}
  /\ pc' = [pc EXCEPT ![r] = "answerRemoved"]
  /\ UNCHANGED <<who, device, target, deviceToken, owners>>

AnswerRemoved(r) ==
  /\ pc[r] = "answerRemoved"
  /\ pc' = [pc EXCEPT ![r] = "removed"]
  /\ UNCHANGED <<who, device, target, deviceToken, auditLog, owners>>

(* A statement fails, or the process dies: the client sees an error or     *)
(* nothing.  What is written stays, logged or not.                         *)
LeftBehind(step) ==
  CASE step = "auditRegistered" -> "registeredUnlogged"
    [] step = "auditRemoved" -> "removedUnlogged"
    [] OTHER -> "failed"

Fail(r) ==
  /\ Faults
  /\ pc[r] \in Running
  /\ pc' = [pc EXCEPT ![r] = LeftBehind(pc[r])]
  /\ UNCHANGED <<who, device, target, deviceToken, auditLog, owners>>

Handle(r) ==
  \/ Register(r) \/ Upsert(r) \/ AuditRegistered(r) \/ AnswerRegistered(r)
  \/ Remove(r) \/ ReadRow(r) \/ DeleteRow(r) \/ AuditRemoved(r) \/ AnswerRemoved(r)
  \/ Fail(r)

Next == \E r \in Requests : Handle(r)

Spec == Init /\ [][Next]_vars

-----------------------------------------------------------------------------
(* The records that are in device_tokens before a step and not after it.   *)
Gone(row) == \A other \in deviceToken' : other.id # row.id

Deletes(r, row) == pc[r] = "delete" /\ pc'[r] # "delete" /\ target[r] = row.id

(* "Only the owning user can delete their own tokens": whoever deletes a   *)
(* record owns it at that moment.  True of one request at a time; the gap  *)
(* between the look-up and the delete breaks it for two.                   *)
OnlyOwnerDeletes ==
  [][\A row \in deviceToken : Gone(row) =>
       \E r \in Requests : Deletes(r, row) /\ who[r] = row.user]_vars

(* What is left of it under any interleaving: a record is deleted only by  *)
(* somebody it belonged to at some time, never by a stranger.              *)
OnlyPastOwnersDelete ==
  [][\A row \in deviceToken : Gone(row) =>
       \E r \in Requests : Deletes(r, row) /\ who[r] \in owners[row.id]]_vars

(* The audit log explains the table.  A record belongs to somebody whose   *)
(* registration of that device is in the log; a device whose registration  *)
(* was answered and that has no record any more was removed by a request   *)
(* that is in the log.  The only exceptions are requests that have yet to  *)
(* write their audit row, or that failed over it.                          *)
Registered(r) ==
  \/ pc[r] \in {"auditRegistered", "registeredUnlogged"}
  \/ [request |-> r, action |-> "device_token_registered"] \in auditLog

Removed(r) ==
  \/ pc[r] \in {"auditRemoved", "removedUnlogged"}
  \/ [request |-> r, action |-> "device_token_removed"] \in auditLog

TableIsExplained ==
  /\ \A row \in deviceToken : \E r \in Requests :
       Registered(r) /\ who[r] = row.user /\ device[r] = row.device
  /\ \A r \in Requests : pc[r] = "ok" /\ RowsOf(device[r]) = {} =>
       \E q \in Requests : Removed(q) /\ device[target[q]] = device[r]

(* "204: Token removed": once a user's removal of the record that a         *)
(* registration of theirs was answered with is through, the device of that *)
(* registration has no record of that user.                                *)
RemovalRemoves ==
  [][\A r \in Requests :
       pc[r] = "delete" /\ pc'[r] = "auditRemoved" /\ who[target[r]] = who[r] =>
         \A row \in deviceToken' :
           ~(row.device = device[target[r]] /\ row.user = who[r])]_vars
=============================================================================
