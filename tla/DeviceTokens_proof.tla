------------------------- MODULE DeviceTokens_proof -------------------------
(* Theorems about DeviceTokens, for any requests, users and devices.        *)
EXTENDS DeviceTokens, FiniteSetTheorems, TLAPS

-----------------------------------------------------------------------------
(* An id names one record and a device has one.  A record in the table was *)
(* put there by the registration whose id it bears, so that no later one   *)
(* draws it again.                                                         *)
UniqueIds == \A a, b \in deviceToken : a.id = b.id => a = b
OneRecord == \A a, b \in deviceToken : a.device = b.device => a = b
Inserted == \A row \in deviceToken : pc[row.id] \notin {"new", "upsert"}

(* The history knows every owner of a record there is.                     *)
OwnersKnown == \A row \in deviceToken : row.user \in owners[row.id]

(* A removal past the look-up names an id that was answered to somebody,   *)
(* and the record of that id, if there is one, has belonged to the         *)
(* requester: the look-up saw so, or it saw no record, and then the id     *)
(* never comes back.                                                       *)
TargetAnswered == \A r \in Requests : pc[r] \in {"read", "delete"} => pc[target[r]] = "ok"
Checked ==
  \A r \in Requests : pc[r] = "delete" =>
    \A row \in RowsNamed(target[r]) : who[r] \in owners[row.id]

(* The device of a record is that of the registration that drew its id.    *)
(* Only requests that have begun are in the log.  A registration past its  *)
(* upsert left a record, unless a removal took it.                         *)
IdsKeepDevice == \A row \in deviceToken : device[row.id] = row.device
LoggedStarted == \A entry \in auditLog : pc[entry.request] # "new"
RowsRegistered ==
  \A row \in deviceToken : \E r \in Requests :
    Registered(r) /\ who[r] = row.user /\ device[r] = row.device
LossExplained ==
  \A r \in Requests :
    /\ pc[r] \in {"auditRegistered", "answerRegistered", "ok"}
    /\ RowsOf(device[r]) = {}
    => \E q \in Requests : Removed(q) /\ device[target[q]] = device[r]

IInv ==
  /\ TypeOK
  /\ UniqueIds /\ OneRecord /\ Inserted /\ OwnersKnown
  /\ TargetAnswered /\ Checked
  /\ IdsKeepDevice /\ LoggedStarted /\ RowsRegistered /\ LossExplained

LEMMA InitIInv == Init => IInv
BY DEF Init, IInv, TypeOK, UniqueIds, OneRecord, Inserted, OwnersKnown, TargetAnswered,
       Checked, IdsKeepDevice, LoggedStarted, RowsRegistered, LossExplained, Running, Ended

(* What a failed handler ends with.                                        *)
LEMMA LeftBehindEnds ==
  ASSUME NEW step
  PROVE  /\ LeftBehind(step) \in {"failed", "registeredUnlogged", "removedUnlogged"}
         /\ step = "auditRegistered" => LeftBehind(step) = "registeredUnlogged"
         /\ step = "auditRemoved" => LeftBehind(step) = "removedUnlogged"
BY DEF LeftBehind

(* The id an upsert writes: a fresh one, its own, for a new token; else    *)
(* that of the record the token has.                                       *)
LEMMA UpsertRow ==
  ASSUME IInv, NEW r \in Requests, Upsert(r)
  PROVE  /\ IdOf(r) \in Requests
         /\ \/ RowsOf(device[r]) = {} /\ IdOf(r) = r
            \/ \E old \in RowsOf(device[r]) : old.id = IdOf(r)
         /\ \A row \in deviceToken : row.id = IdOf(r) => row \in RowsOf(device[r])
<1>1. CASE RowsOf(device[r]) = {}
  <2>1. IdOf(r) = r
    BY <1>1 DEF IdOf
  <2> QED
    BY <1>1, <2>1 DEF Upsert, IInv, Inserted
<1>2. CASE RowsOf(device[r]) # {}
  <2>1. PICK old \in RowsOf(device[r]) : IdOf(r) = old.id
    BY <1>2 DEF IdOf
  <2>2. old \in deviceToken /\ old.id \in Requests
    BY DEF RowsOf, IInv, TypeOK, Rows
  <2>3. ASSUME NEW row \in deviceToken, row.id = IdOf(r)
        PROVE  row \in RowsOf(device[r])
    <3>1. row = old
      BY <2>1, <2>2, <2>3 DEF IInv, UniqueIds
    <3> QED
      BY <3>1
  <2> QED
    BY <2>1, <2>2, <2>3
<1> QED
  BY <1>1, <1>2

LEMMA StepTyped ==
  ASSUME TypeOK, IInv, [Next]_vars
  PROVE  TypeOK'
<1>1. ASSUME NEW r \in Requests, Upsert(r)
      PROVE  TypeOK'
  <2>1. IdOf(r) \in Requests
    BY <1>1, UpsertRow
  <2> QED
    BY <1>1, <2>1 DEF Upsert, TypeOK, Rows, Running
<1>2. ASSUME NEW r \in Requests, Register(r) \/ Remove(r)
      PROVE  TypeOK'
  BY <1>2 DEF Register, Remove, Arrives, TypeOK, Running
<1>3. ASSUME NEW r \in Requests, AuditRegistered(r) \/ AuditRemoved(r)
      PROVE  TypeOK'
  BY <1>3 DEF AuditRegistered, AuditRemoved, TypeOK, Running, Ended, AuditAction
<1>4. ASSUME NEW r \in Requests,
             ReadRow(r) \/ DeleteRow(r) \/ AnswerRegistered(r) \/ AnswerRemoved(r)
      PROVE  TypeOK'
  BY <1>4 DEF ReadRow, DeleteRow, AnswerRegistered, AnswerRemoved, TypeOK, Running, Ended
<1>5. ASSUME NEW r \in Requests, Fail(r)
      PROVE  TypeOK'
  BY <1>5, LeftBehindEnds DEF Fail, TypeOK, Ended
<1>6. CASE UNCHANGED vars
  BY <1>6 DEF vars, TypeOK
<1> QED
  BY <1>1, <1>2, <1>3, <1>4, <1>6, <1>5 DEF Next, Handle

(* Records, their ids and their owners.                                    *)
LEMMA StepRecords ==
  ASSUME IInv, [Next]_vars
  PROVE  UniqueIds' /\ OneRecord' /\ Inserted' /\ OwnersKnown'
<1> USE DEF IInv
<1>1. ASSUME NEW r \in Requests, Upsert(r)
      PROVE  UniqueIds' /\ OneRecord' /\ Inserted' /\ OwnersKnown'
  <2> DEFINE new == [id |-> IdOf(r), user |-> who[r], device |-> device[r]]
  <2>1. deviceToken' = (deviceToken \ RowsOf(device[r])) \cup {new}
    BY <1>1 DEF Upsert
  <2>2. \A row \in deviceToken : row.id = IdOf(r) => row \in RowsOf(device[r])
    BY <1>1, UpsertRow
  <2>3. UniqueIds' /\ OneRecord'
    BY <2>1, <2>2 DEF UniqueIds, OneRecord, RowsOf
  <2>4. Inserted'
    <3>1. pc'[IdOf(r)] \notin {"new", "upsert"}
      BY <1>1, UpsertRow DEF Upsert, TypeOK, Inserted, RowsOf
    <3>2. \A row \in deviceToken : pc'[row.id] \notin {"new", "upsert"}
      BY <1>1 DEF Upsert, TypeOK, Inserted, Rows
    <3> QED
      BY <2>1, <3>1, <3>2 DEF Inserted
  <2>5. OwnersKnown'
    <3>1. \A q \in Requests : owners[q] \subseteq owners'[q]
      BY <1>1 DEF Upsert, TypeOK
    <3>2. who[r] \in owners'[IdOf(r)]
      BY <1>1, UpsertRow DEF Upsert, TypeOK
    <3> QED
      BY <2>1, <3>1, <3>2 DEF OwnersKnown, TypeOK, Rows
  <2> QED
    BY <2>3, <2>4, <2>5
<1>2. ASSUME NEW r \in Requests, Register(r) \/ Remove(r)
      PROVE  UniqueIds' /\ OneRecord' /\ Inserted' /\ OwnersKnown'
  BY <1>2 DEF Register, Remove, Arrives, TypeOK, Rows, UniqueIds, OneRecord, Inserted, OwnersKnown
<1>3. ASSUME NEW r \in Requests,
             \/ AuditRegistered(r) \/ AuditRemoved(r) \/ ReadRow(r)
             \/ AnswerRegistered(r) \/ AnswerRemoved(r) \/ Fail(r)
      PROVE  UniqueIds' /\ OneRecord' /\ Inserted' /\ OwnersKnown'
  BY <1>3, LeftBehindEnds
     DEF AuditRegistered, AuditRemoved, ReadRow, AnswerRegistered, AnswerRemoved, Fail,
         TypeOK, Rows, UniqueIds, OneRecord, Inserted, OwnersKnown
<1>4. ASSUME NEW r \in Requests, DeleteRow(r)
      PROVE  UniqueIds' /\ OneRecord' /\ Inserted' /\ OwnersKnown'
  BY <1>4 DEF DeleteRow, TypeOK, Rows, UniqueIds, OneRecord, Inserted, OwnersKnown
<1>5. CASE UNCHANGED vars
  BY <1>5 DEF vars, UniqueIds, OneRecord, Inserted, OwnersKnown
<1> QED
  BY <1>1, <1>2, <1>3, <1>4, <1>5 DEF Next, Handle

(* Removals, their targets and what the look-up established.               *)
LEMMA StepRemovals ==
  ASSUME IInv, [Next]_vars
  PROVE  TargetAnswered' /\ Checked'
<1> USE DEF IInv
<1>1. ASSUME NEW r \in Requests, Upsert(r)
      PROVE  TargetAnswered' /\ Checked'
  <2>1. TargetAnswered'
    BY <1>1 DEF Upsert, TypeOK, TargetAnswered
  <2>2. ASSUME NEW q \in Requests, pc'[q] = "delete",
               NEW row \in deviceToken', row.id = target'[q]
        PROVE  who'[q] \in owners'[row.id]
    <3>1. pc[q] = "delete" /\ target'[q] = target[q] /\ who'[q] = who[q]
          /\ pc[target[q]] = "ok" /\ target[q] \in Requests
      BY <1>1, <2>2 DEF Upsert, TypeOK, TargetAnswered
    <3>2. \E old \in deviceToken : old.id = row.id
      <4>1. CASE row \in deviceToken
        BY <4>1
      <4>2. CASE row \notin deviceToken
        <5>1. row.id = IdOf(r)
          BY <1>1, <4>2 DEF Upsert
        <5>2. IdOf(r) # r
          BY <1>1, <2>2, <3>1, <5>1 DEF Upsert
        <5> QED
          BY <1>1, <5>1, <5>2, UpsertRow DEF RowsOf
      <4> QED
        BY <4>1, <4>2
    <3>3. who[q] \in owners[row.id]
      BY <2>2, <3>1, <3>2 DEF Checked, RowsNamed
    <3> QED
      BY <1>1, <2>2, <3>1, <3>3 DEF Upsert, TypeOK
  <2> QED
    BY <2>1, <2>2 DEF Checked, RowsNamed
<1>2. ASSUME NEW r \in Requests, Register(r) \/ Remove(r)
      PROVE  TargetAnswered' /\ Checked'
  BY <1>2 DEF Register, Remove, Arrives, TypeOK, TargetAnswered, Checked, RowsNamed
<1>3. ASSUME NEW r \in Requests,
             \/ AuditRegistered(r) \/ AuditRemoved(r) \/ DeleteRow(r)
             \/ AnswerRegistered(r) \/ AnswerRemoved(r) \/ Fail(r)
      PROVE  TargetAnswered' /\ Checked'
  BY <1>3, LeftBehindEnds
     DEF AuditRegistered, AuditRemoved, DeleteRow, AnswerRegistered, AnswerRemoved, Fail,
         Running, TypeOK, TargetAnswered, Checked, RowsNamed
<1>4. ASSUME NEW r \in Requests, ReadRow(r)
      PROVE  TargetAnswered' /\ Checked'
  <2>1. TargetAnswered'
    BY <1>4 DEF ReadRow, TypeOK, TargetAnswered
  <2>2. ASSUME NEW q \in Requests, pc'[q] = "delete",
               NEW row \in deviceToken', row.id = target'[q]
        PROVE  who'[q] \in owners'[row.id]
    BY <1>4, <2>2 DEF ReadRow, TypeOK, Foreign, RowsNamed, OwnersKnown, Checked
  <2> QED
    BY <2>1, <2>2 DEF Checked, RowsNamed
<1>5. CASE UNCHANGED vars
  BY <1>5 DEF vars, TargetAnswered, Checked, RowsNamed
<1> QED
  BY <1>1, <1>2, <1>3, <1>4, <1>5 DEF Next, Handle

(* A request keeps its user and device, and once it has written its row,   *)
(* its target too; what it has registered or removed stays said.           *)
LEMMA Lasting ==
  ASSUME IInv, [Next]_vars, NEW q \in Requests
  PROVE  /\ who' = who /\ device' = device
         /\ Registered(q) => Registered(q)'
         /\ Removed(q) => Removed(q)' /\ target'[q] = target[q]
<1> USE DEF IInv, TypeOK, Registered, Removed
<1>1. ASSUME NEW r \in Requests, Register(r) \/ Remove(r)
      PROVE  /\ who' = who /\ device' = device
             /\ Registered(q) => Registered(q)'
             /\ Removed(q) => Removed(q)' /\ target'[q] = target[q]
  BY <1>1 DEF Register, Remove, Arrives, LoggedStarted
<1>2. ASSUME NEW r \in Requests, Upsert(r) \/ ReadRow(r) \/ DeleteRow(r)
      PROVE  /\ who' = who /\ device' = device
             /\ Registered(q) => Registered(q)'
             /\ Removed(q) => Removed(q)' /\ target'[q] = target[q]
  BY <1>2 DEF Upsert, ReadRow, DeleteRow
<1>3. ASSUME NEW r \in Requests, AuditRegistered(r) \/ AnswerRegistered(r)
      PROVE  /\ who' = who /\ device' = device
             /\ Registered(q) => Registered(q)'
             /\ Removed(q) => Removed(q)' /\ target'[q] = target[q]
  BY <1>3 DEF AuditRegistered, AnswerRegistered
<1>4. ASSUME NEW r \in Requests, AuditRemoved(r) \/ AnswerRemoved(r)
      PROVE  /\ who' = who /\ device' = device
             /\ Registered(q) => Registered(q)'
             /\ Removed(q) => Removed(q)' /\ target'[q] = target[q]
  BY <1>4 DEF AuditRemoved, AnswerRemoved
<1>5. ASSUME NEW r \in Requests, Fail(r)
      PROVE  /\ who' = who /\ device' = device
             /\ Registered(q) => Registered(q)'
             /\ Removed(q) => Removed(q)' /\ target'[q] = target[q]
  <2>1. UNCHANGED <<who, device, target, auditLog>>
    BY <1>5 DEF Fail
  <2>2. pc'[q] = pc[q] \/ (q = r /\ pc'[q] = LeftBehind(pc[q]))
    BY <1>5 DEF Fail
  <2>3. pc[q] = "auditRegistered" => pc'[q] \in {"auditRegistered", "registeredUnlogged"}
    BY <2>2, LeftBehindEnds
  <2>4. pc[q] = "auditRemoved" => pc'[q] \in {"auditRemoved", "removedUnlogged"}
    BY <2>2, LeftBehindEnds
  <2>5. pc[q] \in {"registeredUnlogged", "removedUnlogged"} => pc'[q] = pc[q]
    BY <1>5 DEF Fail, Running
  <2> QED
    BY <2>1, <2>3, <2>4, <2>5
<1>6. CASE UNCHANGED vars
  BY <1>6 DEF vars
<1> QED
  BY <1>1, <1>2, <1>3, <1>4, <1>5, <1>6 DEF Next, Handle

LEMMA StepBegun ==
  ASSUME IInv, [Next]_vars
  PROVE  IdsKeepDevice' /\ LoggedStarted'
<1> USE DEF IInv, TypeOK
<1>1. IdsKeepDevice'
  <2>1. ASSUME NEW r \in Requests, Upsert(r)
        PROVE  IdsKeepDevice'
    <3>1. device[IdOf(r)] = device[r]
      BY <2>1, UpsertRow DEF IdsKeepDevice, RowsOf
    <3> QED
      BY <2>1, <3>1 DEF Upsert, IdsKeepDevice
  <2>2. device' = device
    BY Lasting DEF Next, vars
  <2>3. deviceToken' \subseteq deviceToken => IdsKeepDevice'
    BY <2>2 DEF IdsKeepDevice
  <2> QED
    BY <2>1, <2>3 DEF Next, Handle, Register, Remove, Arrives, AuditRegistered,
         AnswerRegistered, ReadRow, DeleteRow, AuditRemoved, AnswerRemoved, Fail, vars
<1>2. LoggedStarted'
  <2>1. \A r \in Requests : pc[r] # "new" => pc'[r] # "new"
    BY LeftBehindEnds DEF Next, Handle, Register, Remove, Arrives, Upsert, AuditRegistered,
         AnswerRegistered, ReadRow, DeleteRow, AuditRemoved, AnswerRemoved, Fail, vars
  <2>2. ASSUME NEW entry \in auditLog', entry \notin auditLog
        PROVE  pc[entry.request] # "new" /\ entry.request \in Requests
    BY <2>2 DEF Next, Handle, Register, Remove, Arrives, Upsert, AuditRegistered,
         AnswerRegistered, ReadRow, DeleteRow, AuditRemoved, AnswerRemoved, Fail, vars
  <2> QED
    BY <2>1, <2>2 DEF LoggedStarted
<1> QED
  BY <1>1, <1>2

(* Every record stays explained: an upsert's new record by the upsert.     *)
LEMMA StepRegistered ==
  ASSUME IInv, [Next]_vars
  PROVE  RowsRegistered'
<1>1. ASSUME NEW row \in deviceToken
      PROVE  \E r \in Requests : Registered(r)' /\ who'[r] = row.user /\ device'[r] = row.device
  <2>1. PICK r \in Requests : Registered(r) /\ who[r] = row.user /\ device[r] = row.device
    BY <1>1 DEF IInv, RowsRegistered
  <2> QED
    BY <2>1, Lasting
<1>2. ASSUME NEW r \in Requests, Upsert(r), NEW row \in deviceToken', row \notin deviceToken
      PROVE  Registered(r)' /\ who'[r] = row.user /\ device'[r] = row.device
  BY <1>2 DEF Upsert, Registered, IInv, TypeOK
<1>3. (\E r \in Requests : Upsert(r)) \/ deviceToken' \subseteq deviceToken
  BY DEF Next, Handle, Register, Remove, Arrives, AuditRegistered,
         AnswerRegistered, ReadRow, DeleteRow, AuditRemoved, AnswerRemoved, Fail, vars
<1> QED
  BY <1>1, <1>2, <1>3 DEF RowsRegistered

(* A device that loses its record loses it to a removal.                   *)
LEMMA StepLoss ==
  ASSUME IInv, [Next]_vars
  PROVE  LossExplained'
<1> SUFFICES ASSUME NEW r \in Requests,
                    pc'[r] \in {"auditRegistered", "answerRegistered", "ok"},
                    RowsOf(device[r])' = {}
             PROVE  \E q \in Requests : Removed(q)' /\ device'[target'[q]] = device'[r]
  BY DEF LossExplained
<1> USE DEF IInv, TypeOK
<1>1. device' = device
  BY Lasting
<1>2. ~Upsert(r)
  <2> SUFFICES ASSUME Upsert(r) PROVE FALSE
    OBVIOUS
  <2> DEFINE new == [id |-> IdOf(r), user |-> who[r], device |-> device[r]]
  <2>1. new \in deviceToken' /\ new.device = device'[r]
    BY <1>1 DEF Upsert
  <2> HIDE DEF new
  <2> QED
    BY <2>1 DEF RowsOf
<1>3. pc[r] \in {"auditRegistered", "answerRegistered", "ok"}
  BY <1>2, LeftBehindEnds DEF Next, Handle, Register, Remove, Arrives, Upsert, AuditRegistered,
         AnswerRegistered, ReadRow, DeleteRow, AuditRemoved, AnswerRemoved, Fail, vars
<1>4. CASE RowsOf(device[r]) = {}
  <2>1. PICK q \in Requests : Removed(q) /\ device[target[q]] = device[r]
    BY <1>3, <1>4 DEF LossExplained
  <2> QED
    BY <2>1, <1>1, Lasting
<1>5. CASE RowsOf(device[r]) # {}
  <2>1. PICK row \in deviceToken : row.device = device[r]
    BY <1>5 DEF RowsOf
  <2>2. row \notin deviceToken'
    BY <1>1, <2>1 DEF RowsOf
  <2>3. ~(\E q \in Requests : Upsert(q))
    <3> SUFFICES ASSUME NEW q \in Requests, Upsert(q) PROVE FALSE
      OBVIOUS
    <3> DEFINE new == [id |-> IdOf(q), user |-> who[q], device |-> device[q]]
    <3>1. row \in RowsOf(device[q])
      BY <2>2 DEF Upsert
    <3>2. new \in deviceToken' /\ new.device = device'[r]
      BY <1>1, <2>1, <3>1 DEF Upsert, RowsOf
    <3> HIDE DEF new
    <3> QED
      BY <3>2 DEF RowsOf
  <2>4. PICK q \in Requests : DeleteRow(q)
    BY <2>2, <2>3 DEF Next, Handle, Register, Remove, Arrives, AuditRegistered,
         AnswerRegistered, ReadRow, AuditRemoved, AnswerRemoved, Fail, vars
  <2>5. target[q] = row.id
    BY <2>2, <2>4 DEF DeleteRow, RowsNamed
  <2>6. Removed(q)' /\ target' = target
    BY <2>4 DEF DeleteRow, Removed
  <2> QED
    BY <1>1, <2>1, <2>5, <2>6 DEF IdsKeepDevice
<1> QED
  BY <1>4, <1>5

LEMMA StepIInv == IInv /\ [Next]_vars => IInv'
BY StepTyped, StepRecords, StepRemovals, StepBegun, StepRegistered, StepLoss DEF IInv

LEMMA Inductive == Spec => []IInv
BY InitIInv, StepIInv, PTL DEF Spec

-----------------------------------------------------------------------------
(* Every variable keeps its type.                                          *)
THEOREM TypeCorrect == Spec => []TypeOK
<1>1. IInv => TypeOK
  BY DEF IInv
<1> QED
  BY <1>1, Inductive, PTL

(* Under any interleaving and any faults, every record in device_tokens is *)
(* owed to a registration the audit log has, and every answered            *)
(* registration whose device lost its record to a removal the log has,     *)
(* requests that still owe their audit row, or failed over it, apart.      *)
THEOREM TableExplained == Spec => []TableIsExplained
<1>1. IInv => TableIsExplained
  BY DEF IInv, RowsRegistered, LossExplained, TableIsExplained
<1> QED
  BY <1>1, Inductive, PTL

(* Only a removal that is past its look-up takes an id out of the table.   *)
LEMMA OnlyRemovalsDelete ==
  ASSUME IInv, [Next]_vars, NEW row \in deviceToken, Gone(row)
  PROVE  \E r \in Requests : Deletes(r, row) /\ pc'[r] = "auditRemoved" /\ DeleteRow(r)
<1>1. ASSUME NEW r \in Requests, Upsert(r)
      PROVE  FALSE
  <2>1. row \in RowsOf(device[r])
    BY <1>1 DEF Upsert, Gone
  <2> DEFINE new == [id |-> IdOf(r), user |-> who[r], device |-> device[r]]
  <2>2. row.id # IdOf(r)
    <3>1. new \in deviceToken' /\ new.id = IdOf(r)
      BY <1>1 DEF Upsert
    <3> HIDE DEF new
    <3> QED
      BY <3>1 DEF Gone
  <2>3. row.device = device[r] /\ IdOf(r) \in {old.id : old \in RowsOf(device[r])}
    BY <1>1, <2>1, UpsertRow DEF RowsOf
  <2> QED
    BY <1>1, <2>1, <2>2, <2>3 DEF OneRecord, IInv, RowsOf
<1>2. ASSUME NEW r \in Requests, DeleteRow(r)
      PROVE  Deletes(r, row) /\ pc'[r] = "auditRemoved"
  BY <1>2 DEF DeleteRow, Deletes, Gone, RowsNamed, IInv, TypeOK
<1> QED
  BY <1>1, <1>2 DEF Next, Handle, Register, Remove, Arrives, AuditRegistered,
                    AnswerRegistered, ReadRow, AuditRemoved, AnswerRemoved, Fail, vars, Gone

(* Under any interleaving and any faults a record is deleted only at the   *)
(* request of somebody it has belonged to.                                 *)
THEOREM PastOwnersOnly == Spec => OnlyPastOwnersDelete
<1>1. IInv /\ [Next]_vars =>
        [\A row \in deviceToken : Gone(row) =>
           \E r \in Requests : Deletes(r, row) /\ who[r] \in owners[row.id]]_vars
  <2> SUFFICES ASSUME IInv, [Next]_vars, NEW row \in deviceToken, Gone(row)
               PROVE  \E r \in Requests : Deletes(r, row) /\ who[r] \in owners[row.id]
    OBVIOUS
  <2>1. PICK r \in Requests : Deletes(r, row)
    BY OnlyRemovalsDelete
  <2>2. who[r] \in owners[row.id]
    BY <2>1 DEF Deletes, IInv, Checked, RowsNamed
  <2> QED
    BY <2>1, <2>2
<1> QED
  BY <1>1, Inductive, PTL DEF Spec, OnlyPastOwnersDelete

-----------------------------------------------------------------------------
(* One request at a time: nothing gets between the look-up of a removal    *)
(* and its delete, so what the look-up saw still holds.                    *)
OneAtATime == \A p, q \in InFlight : p = q
StillOwned ==
  \A r \in Requests : pc[r] = "delete" =>
    \A row \in RowsNamed(target[r]) : who[r] = row.user

LEMMA StepAlone ==
  ASSUME MaxInFlight = 1, IInv, OneAtATime, StillOwned, [Next]_vars
  PROVE  OneAtATime' /\ StillOwned'
<1> USE DEF IInv, TypeOK
<1>1. ASSUME NEW r \in Requests, Register(r) \/ Remove(r)
      PROVE  OneAtATime' /\ StillOwned'
  <2>1. IsFiniteSet(InFlight) /\ Cardinality(InFlight) \in Nat
    BY DeviceAssumption, FS_Subset, FS_CardinalityType DEF InFlight
  <2>2. Cardinality(InFlight) = 0
    BY <1>1, <2>1 DEF Register, Remove, Arrives
  <2>3. InFlight = {}
    BY <2>1, <2>2, FS_EmptySet
  <2>4. InFlight' \subseteq {r}
    BY <1>1, <2>3 DEF Register, Remove, Arrives, InFlight
  <2>5. \A q \in Requests : pc'[q] # "delete"
    BY <1>1, <2>3 DEF Register, Remove, Arrives, InFlight, Running
  <2> QED
    BY <2>4, <2>5 DEF OneAtATime, StillOwned
<1>2. ASSUME NEW r \in Requests,
             \/ Upsert(r) \/ AuditRegistered(r) \/ AnswerRegistered(r) \/ ReadRow(r)
             \/ DeleteRow(r) \/ AuditRemoved(r) \/ AnswerRemoved(r) \/ Fail(r)
      PROVE  OneAtATime' /\ StillOwned'
  <2>1. r \in InFlight
    BY <1>2 DEF Upsert, AuditRegistered, AnswerRegistered, ReadRow, DeleteRow,
                AuditRemoved, AnswerRemoved, Fail, InFlight, Running
  <2>2. InFlight' \subseteq InFlight
    BY <1>2, <2>1 DEF Upsert, AuditRegistered, AnswerRegistered, ReadRow, DeleteRow,
                      AuditRemoved, AnswerRemoved, Fail, InFlight
  <2>3. \A q \in Requests : pc'[q] = "delete" => q = r
    BY <2>1, <2>2 DEF OneAtATime, InFlight, Running
  <2>4. pc'[r] = "delete" => ReadRow(r)
    BY <1>2, LeftBehindEnds DEF Upsert, AuditRegistered, AnswerRegistered, DeleteRow,
                                AuditRemoved, AnswerRemoved, Fail
  <2>5. ReadRow(r) /\ pc'[r] = "delete" =>
          \A row \in RowsNamed(target[r])' : who'[r] = row.user
    BY DEF ReadRow, Foreign, RowsNamed
  <2> QED
    BY <2>2, <2>3, <2>4, <2>5 DEF OneAtATime, StillOwned
<1>3. CASE UNCHANGED vars
  BY <1>3 DEF vars, OneAtATime, InFlight, StillOwned, RowsNamed
<1> QED
  BY <1>1, <1>2, <1>3 DEF Next, Handle

(* "Only the owning user can delete their own tokens" holds of a server    *)
(* that handles one request at a time.                                     *)
THEOREM OwnerDeletesOneAtATime ==
  ASSUME MaxInFlight = 1
  PROVE  Spec => OnlyOwnerDeletes
<1>1. Init => OneAtATime /\ StillOwned
  BY DEF Init, OneAtATime, InFlight, StillOwned, Running
<1>2. IInv /\ OneAtATime /\ StillOwned /\ [Next]_vars => (OneAtATime /\ StillOwned)'
  BY StepAlone
<1>3. IInv /\ StillOwned /\ [Next]_vars =>
        [\A row \in deviceToken : Gone(row) =>
           \E r \in Requests : Deletes(r, row) /\ who[r] = row.user]_vars
  <2> SUFFICES ASSUME IInv, StillOwned, [Next]_vars,
                      NEW row \in deviceToken, Gone(row)
               PROVE  \E r \in Requests : Deletes(r, row) /\ who[r] = row.user
    OBVIOUS
  <2>1. PICK r \in Requests : Deletes(r, row)
    BY OnlyRemovalsDelete
  <2>2. who[r] = row.user
    BY <2>1 DEF Deletes, StillOwned, RowsNamed
  <2> QED
    BY <2>1, <2>2
<1> QED
  BY <1>1, <1>2, <1>3, Inductive, PTL DEF Spec, OnlyOwnerDeletes
=============================================================================
