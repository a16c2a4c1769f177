---------------------------- MODULE Users_proof ----------------------------
(* Theorems about Users, for any users, uploads, processes and bounds.      *)
EXTENDS Users, TLAPS

-----------------------------------------------------------------------------
(* A key carries the id of its user, so that whoever overwrites an object  *)
(* is the one it belonged to.                                              *)
KeysOwn == \A k \in Keys : store[k] # None => store[k] = k.user
JobsOwn == \A f \in Uploads : job[f] # None => job[f].key.user = job[f].user

(* What is about to be saved in the row is stored already. *)
SavedIsStored ==
  \A f \in Uploads : upload[f] = "save" => store[job[f].key] = job[f].user

(* There is one maker at most, of a bucket that was not there; while it is *)
(* at work the bucket is private and nobody has died over it, and what it  *)
(* leaves behind when it dies is what every later process finds.           *)
OneMaker ==
  /\ \A p \in Processes : boot[p] = "policy" =>
       /\ bucket = "private" /\ ~orphaned
       /\ \A q \in Processes : boot[q] = "policy" => q = p
  /\ orphaned => bucket = "private"
  /\ found = "private" => bucket = "private" /\ \A p \in Processes : boot[p] # "policy"

IInv ==
  /\ TypeOK
  /\ KeysOwn /\ JobsOwn /\ SavedIsStored
  /\ ImageIsOwnUpload /\ OneMaker /\ PrivateForACause

LEMMA InitIInv == Init => IInv
<1> SUFFICES ASSUME Init PROVE IInv
  OBVIOUS
<1>1. row \in [Users -> Row]
  <2>1. NewRow \subseteq Row
    <3> SUFFICES ASSUME NEW i \in Given
                 PROVE  [role |-> "user", banned |-> FALSE, verified |-> FALSE,
                         deleted |-> FALSE, image |-> i] \in Row
      BY DEF NewRow
    <3>1. i \in Keys \cup {None}
      BY UsersAssumption
    <3> QED
      BY <3>1 DEF Row, Roles
  <2> QED
    BY <2>1 DEF Init
<1>2. TypeOK
  <2>1. {found, bucket} \subseteq {"absent", "private", "public"}
    BY DEF Init, Found
  <2>2. /\ store \in [Keys -> Users \cup {None}]
        /\ boot \in [Processes -> {"down", "check", "make", "policy", "ready"}]
        /\ calls \in 0..MaxCalls /\ crashes \in 0..MaxCrashes
    BY UsersAssumption DEF Init
  <2>3. /\ upload \in [Uploads -> {"new", "store", "save", "ok", "refused", "notFound", "failed", "cut"}]
        /\ job \in [Uploads -> Jobs \cup {None}]
        /\ \A f \in Uploads : upload[f] \in {"store", "save"} <=> job[f] # None
    BY DEF Init
  <2> QED
    BY <1>1, <2>1, <2>2, <2>3 DEF Init, TypeOK
<1>3. KeysOwn /\ JobsOwn /\ SavedIsStored
  BY DEF Init, KeysOwn, JobsOwn, SavedIsStored
<1>4. ImageIsOwnUpload /\ OneMaker /\ PrivateForACause
  BY DEF Init, ImageIsOwnUpload, OneMaker, PrivateForACause
<1> QED
  BY <1>2, <1>3, <1>4 DEF IInv

(* The actions by what they write: boot and the bucket, the life of an     *)
(* upload, a row.                                                          *)
Boots(p) == Start(p) \/ CheckBucket(p) \/ MakeBucket(p) \/ SetBucketPolicy(p) \/ Crash(p)

LEMMA CutTyped ==
  ASSUME TypeOK, NEW p \in Processes, Cut(p)
  PROVE  /\ upload' \in [Uploads -> {"new", "store", "save", "ok", "refused", "notFound", "failed", "cut"}]
         /\ job' \in [Uploads -> Jobs \cup {None}]
         /\ \A f \in Uploads : upload'[f] \in {"store", "save"} <=> job'[f] # None
         /\ \A f \in Uploads : job'[f] # None => job'[f] = job[f] /\ upload'[f] = upload[f]
         /\ \A f \in Uploads : upload'[f] = "save" => upload[f] = "save" /\ job'[f] = job[f]
BY DEF TypeOK, Cut, Handled

LEMMA AwaitTyped ==
  ASSUME TypeOK, NEW f \in Uploads, NEW j \in Jobs \cup {None},
         NEW s \in {"store", "save", "ok", "refused", "notFound", "failed"},
         s \in {"store", "save"} <=> j # None,
         Await(f, s, j)
  PROVE  /\ upload' \in [Uploads -> {"new", "store", "save", "ok", "refused", "notFound", "failed", "cut"}]
         /\ job' \in [Uploads -> Jobs \cup {None}]
         /\ \A g \in Uploads : upload'[g] \in {"store", "save"} <=> job'[g] # None
         /\ upload'[f] = s /\ job'[f] = j
         /\ \A g \in Uploads : g # f => upload'[g] = upload[g] /\ job'[g] = job[g]
BY DEF TypeOK, Await

LEMMA BootKeeps ==
  ASSUME IInv, NEW p \in Processes, Boots(p)
  PROVE  IInv'
<1> USE DEF IInv
<1>1. CASE Start(p) \/ CheckBucket(p) \/ SetBucketPolicy(p)
  BY <1>1 DEF Start, CheckBucket, SetBucketPolicy, PolicySet, TypeOK, KeysOwn, JobsOwn,
              SavedIsStored, ImageIsOwnUpload, OneMaker, PrivateForACause, profiles
<1>2. CASE MakeBucket(p) /\ ~Cut(p)
  BY <1>2 DEF MakeBucket, TypeOK, KeysOwn, JobsOwn, SavedIsStored, ImageIsOwnUpload,
              OneMaker, PrivateForACause, profiles
<1>3. CASE MakeBucket(p) /\ Cut(p)
  <2>1. /\ boot' \in [Processes -> {"down", "check", "make", "policy", "ready"}]
        /\ bucket' \in {"absent", "private", "public"}
        /\ UNCHANGED <<profiles, driver, found, store, orphaned, crashes>>
    BY <1>3 DEF MakeBucket, TypeOK
  <2>2. TypeOK'
    BY <1>3, <2>1, CutTyped DEF TypeOK, profiles
  <2>3. KeysOwn' /\ ImageIsOwnUpload'
    BY <2>1 DEF KeysOwn, ImageIsOwnUpload, profiles
  <2>4. JobsOwn' /\ SavedIsStored'
    BY <1>3, <2>1, CutTyped DEF JobsOwn, SavedIsStored
  <2>5. OneMaker' /\ PrivateForACause'
    BY <1>3, <2>1 DEF MakeBucket, OneMaker, PrivateForACause, TypeOK
  <2> QED
    BY <2>2, <2>3, <2>4, <2>5
<1>4. CASE Crash(p)
  <2>1. orphaned' \in BOOLEAN /\ crashes' \in 0..MaxCrashes
    BY <1>4, UsersAssumption DEF Crash, TypeOK
  <2>2. TypeOK'
    BY <1>4, <2>1, CutTyped DEF Crash, TypeOK, profiles
  <2>3. KeysOwn' /\ ImageIsOwnUpload'
    BY <1>4 DEF Crash, KeysOwn, ImageIsOwnUpload, profiles
  <2>4. JobsOwn' /\ SavedIsStored'
    BY <1>4, CutTyped DEF Crash, JobsOwn, SavedIsStored
  <2>5. OneMaker' /\ PrivateForACause'
    BY <1>4 DEF Crash, OneMaker, PrivateForACause, TypeOK
  <2> QED
    BY <2>2, <2>3, <2>4, <2>5
<1> QED
  BY <1>1, <1>2, <1>3, <1>4 DEF Boots

LEMMA ReceiveKeeps ==
  ASSUME IInv, NEW f \in Uploads, ReceiveFile(f)
  PROVE  IInv'
<1> USE DEF IInv
<1>1. \E j \in Jobs \cup {None}, s \in {"store", "refused"} :
        /\ Await(f, s, j)
        /\ (s = "store" <=> j # None)
        /\ (j # None => j.key.user = j.user)
  <2>1. CASE Answer(f, "refused")
    BY <2>1 DEF Answer
  <2>2. ASSUME NEW p \in Processes, NEW u \in Users, NEW ms \in Milliseconds,
               Await(f, "store", [user |-> u, key |-> KeyOf(u, ms), on |-> p])
        PROVE  \E j \in Jobs \cup {None}, s \in {"store", "refused"} :
                 /\ Await(f, s, j)
                 /\ (s = "store" <=> j # None)
                 /\ (j # None => j.key.user = j.user)
    <3> DEFINE j == [user |-> u, key |-> KeyOf(u, ms), on |-> p]
    <3>1. j \in Jobs /\ j.key.user = j.user
      BY DEF Jobs, Keys, KeyOf
    <3>2. j # None
      BY <3>1, UsersAssumption
    <3> QED
      BY <2>2, <3>1, <3>2
  <2> QED
    BY <2>1, <2>2 DEF ReceiveFile
<1>2. PICK j \in Jobs \cup {None}, s \in {"store", "refused"} :
        /\ Await(f, s, j)
        /\ (s = "store" <=> j # None)
        /\ (j # None => j.key.user = j.user)
  BY <1>1
<1>3. UNCHANGED <<profiles, objects>>
  BY DEF ReceiveFile
<1>4. TypeOK'
  BY <1>2, <1>3, AwaitTyped DEF TypeOK, profiles, objects
<1>5. JobsOwn' /\ SavedIsStored'
  BY <1>2, <1>3, AwaitTyped DEF JobsOwn, SavedIsStored, objects
<1> QED
  BY <1>3, <1>4, <1>5 DEF KeysOwn, ImageIsOwnUpload, OneMaker, PrivateForACause,
                          profiles, objects

LEMMA StoreKeeps ==
  ASSUME IInv, NEW f \in Uploads, StoreObject(f)
  PROVE  IInv'
<1> USE DEF IInv
<1>1. job[f] \in Jobs /\ job[f].key \in Keys /\ job[f].user \in Users
      /\ job[f].key.user = job[f].user
  BY DEF StoreObject, TypeOK, JobsOwn, Jobs
<1>2. CASE /\ store' = [store EXCEPT ![job[f].key] = job[f].user]
           /\ Await(f, "save", job[f])
  <2>1. job[f] # None
    BY <1>1, UsersAssumption
  <2>2. TypeOK'
    BY <1>1, <1>2, <2>1, AwaitTyped DEF StoreObject, TypeOK, profiles
  <2>3. KeysOwn'
    BY <1>1, <1>2 DEF KeysOwn, TypeOK
  <2>4. ImageIsOwnUpload'
    <3> SUFFICES ASSUME NEW u \in Users, uploaded[u]
                 PROVE  row[u].image \in Keys /\ store'[row[u].image] = u
      BY DEF StoreObject, ImageIsOwnUpload, profiles
    <3>1. row[u].image \in Keys /\ store[row[u].image] = u /\ row[u].image.user = u
      BY UsersAssumption DEF TypeOK, Row, ImageIsOwnUpload, KeysOwn
    <3> QED
      BY <1>1, <1>2, <3>1 DEF TypeOK
  <2>5. JobsOwn' /\ SavedIsStored'
    <3>1. \A g \in Uploads : upload'[g] = "save" /\ g # f =>
            store'[job'[g].key] = job'[g].user
      BY <1>1, <1>2, <2>1, AwaitTyped DEF SavedIsStored, JobsOwn, TypeOK, Jobs
    <3> QED
      BY <1>1, <1>2, <2>1, <3>1, AwaitTyped DEF JobsOwn, SavedIsStored, TypeOK
  <2> QED
    BY <2>2, <2>3, <2>4, <2>5 DEF StoreObject, OneMaker, PrivateForACause
<1>3. CASE Await(f, "failed", None) /\ UNCHANGED store
  <2>1. TypeOK'
    BY <1>3, AwaitTyped DEF StoreObject, TypeOK, profiles
  <2>2. JobsOwn' /\ SavedIsStored'
    BY <1>3, AwaitTyped DEF JobsOwn, SavedIsStored
  <2> QED
    BY <1>3, <2>1, <2>2 DEF StoreObject, KeysOwn, ImageIsOwnUpload, OneMaker,
                            PrivateForACause, profiles
<1> QED
  BY <1>2, <1>3 DEF StoreObject, Answer

LEMMA SaveKeeps ==
  ASSUME IInv, NEW f \in Uploads, SaveImage(f)
  PROVE  IInv'
<1> USE DEF IInv
<1>1. PICK s \in {"ok", "notFound", "failed"} : Await(f, s, None)
  BY DEF SaveImage, Answer
<1>2. job[f] \in Jobs /\ job[f].key \in Keys /\ job[f].user \in Users
      /\ store[job[f].key] = job[f].user
  BY DEF SaveImage, TypeOK, SavedIsStored, Jobs
<1>3. \/ /\ row' = [row EXCEPT ![job[f].user].image = job[f].key]
         /\ uploaded' = [uploaded EXCEPT ![job[f].user] = TRUE]
      \/ UNCHANGED <<row, uploaded>>
  BY DEF SaveImage
<1>4. row' \in [Users -> Row] /\ uploaded' \in [Users -> BOOLEAN]
  <2>1. uploaded' \in [Users -> BOOLEAN]
    <3>1. uploaded \in [Users -> BOOLEAN]
      BY DEF TypeOK
    <3>2. TRUE \in BOOLEAN
      OBVIOUS
    <3> QED
      BY <1>3, <3>1, <3>2 DEF ImageIsOwnUpload
  <2>2. row' \in [Users -> Row]
    BY <1>2, <1>3 DEF TypeOK, Row
  <2> QED
    BY <2>1, <2>2
<1>5. TypeOK'
  BY <1>1, <1>4, AwaitTyped DEF SaveImage, TypeOK, objects
<1>6. JobsOwn' /\ SavedIsStored'
  BY <1>1, AwaitTyped DEF SaveImage, JobsOwn, SavedIsStored, objects
<1>7. ImageIsOwnUpload'
  BY <1>2, <1>3 DEF SaveImage, ImageIsOwnUpload, TypeOK, Row, objects
<1> QED
  BY <1>5, <1>6, <1>7 DEF SaveImage, KeysOwn, OneMaker, PrivateForACause, objects

LEMMA OwnImageKeeps ==
  ASSUME IInv, NEW u \in Users, UpdateOwnImage(u)
  PROVE  IInv'
<1> USE DEF IInv
<1>1. row' \in [Users -> Row] /\ uploaded' \in [Users -> BOOLEAN]
  <2>1. PICK i \in Given : row' = [row EXCEPT ![u].image = i]
    BY DEF UpdateOwnImage
  <2>2. i \in Keys \cup {None} /\ row[u] \in Row
    BY UsersAssumption DEF TypeOK
  <2>3. [row[u] EXCEPT !.image = i] \in Row
    BY <2>2 DEF Row
  <2>4. row' = [row EXCEPT ![u] = [row[u] EXCEPT !.image = i]]
    BY <2>1 DEF TypeOK, Row
  <2>5. row' \in [Users -> Row]
    BY <2>3, <2>4 DEF TypeOK
  <2>6. uploaded' = [uploaded EXCEPT ![u] = FALSE]
    BY DEF UpdateOwnImage
  <2>7. uploaded' \in [Users -> BOOLEAN]
    BY <2>6 DEF TypeOK
  <2> QED
    BY <2>5, <2>7
<1>2. TypeOK'
  BY <1>1 DEF UpdateOwnImage, TypeOK, objects
<1>3. ImageIsOwnUpload'
  BY DEF UpdateOwnImage, ImageIsOwnUpload, TypeOK, Row, objects
<1> QED
  BY <1>2, <1>3 DEF UpdateOwnImage, KeysOwn, JobsOwn, SavedIsStored, OneMaker,
                    PrivateForACause, objects

LEMMA AdministerKeeps ==
  ASSUME IInv, NEW u \in Users, UpdateUser(u) \/ DeleteUser(u)
  PROVE  IInv'
<1> USE DEF IInv
<1>1. row' \in [Users -> Row] /\ \A v \in Users : row'[v].image = row[v].image
  <2>1. CASE UpdateUser(u)
    <3>1. PICK dto \in SUBSET Fields, role \in Roles :
            row' = [row EXCEPT ![u] = Updated(u, First(dto), role)]
      BY <2>1 DEF UpdateUser
    <3>2. First(dto) \in Fields
      BY DEF First, Fields
    <3>3. row[u] \in Row
      BY DEF TypeOK
    <3>4. Updated(u, First(dto), role) \in {[row[u] EXCEPT !.role = role],
            [row[u] EXCEPT !.banned = TRUE], [row[u] EXCEPT !.banned = FALSE],
            [row[u] EXCEPT !.verified = TRUE]}
      BY <3>2 DEF Updated, Fields
    <3>5. Updated(u, First(dto), role) \in Row
          /\ Updated(u, First(dto), role).image = row[u].image
      BY <3>3, <3>4 DEF Row, Roles
    <3> QED
      BY <3>1, <3>5 DEF TypeOK
  <2>2. CASE DeleteUser(u)
    <3>1. row[u] \in Row
      BY DEF TypeOK
    <3>2. /\ [row[u] EXCEPT !.deleted = TRUE] \in Row
          /\ [row[u] EXCEPT !.deleted = TRUE].image = row[u].image
      BY <3>1 DEF Row
    <3>3. row' = [row EXCEPT ![u] = [row[u] EXCEPT !.deleted = TRUE]]
      BY <2>2 DEF DeleteUser
    <3> QED
      BY <3>2, <3>3 DEF TypeOK
  <2> QED
    BY <2>1, <2>2
<1>2. Administer
  BY DEF UpdateUser, DeleteUser
<1>3. TypeOK'
  BY <1>1, <1>2, UsersAssumption DEF Administer, TypeOK, objects
<1> QED
  BY <1>1, <1>2, <1>3
  DEF Administer, KeysOwn, JobsOwn, SavedIsStored, ImageIsOwnUpload, OneMaker,
      PrivateForACause, objects

LEMMA StepIInv == IInv /\ [Next]_vars => IInv'
<1> SUFFICES ASSUME IInv, [Next]_vars PROVE IInv'
  OBVIOUS
<1>1. CASE Next
  BY <1>1, BootKeeps, ReceiveKeeps, StoreKeeps, SaveKeeps, OwnImageKeeps, AdministerKeeps
  DEF Next, Boots
<1>2. CASE UNCHANGED vars
  BY <1>2 DEF vars, profiles, objects, IInv, TypeOK, KeysOwn, JobsOwn, SavedIsStored,
              ImageIsOwnUpload, OneMaker, PrivateForACause
<1> QED
  BY <1>1, <1>2

LEMMA Inductive == Spec => []IInv
BY InitIInv, StepIInv, PTL DEF Spec

-----------------------------------------------------------------------------
(* Rows, the bucket, objects and uploads keep their types, for any users,  *)
(* uploads and processes of UserService and UploadController.              *)
THEOREM TypeCorrect == Spec => []TypeOK
BY Inductive, PTL DEF IInv

(* An image that an upload has written names an object that is stored and  *)
(* is the user's own, although UploadController writes two stores, any     *)
(* upload may end between them, and clients write the row as they please.  *)
THEOREM ImagesAreOwnUploads == Spec => []ImageIsOwnUpload
BY Inductive, PTL DEF IInv

(* The objects are private exactly when they were found to be, the maker   *)
(* of MinIO's bucket is between its two calls, or it died there: for any   *)
(* number of processes, nothing else hides them and nothing shows them.    *)
THEOREM PrivateBucket == Spec => []PrivateForACause
BY Inductive, PTL DEF IInv
=============================================================================
