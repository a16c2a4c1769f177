------------------------------- MODULE Users -------------------------------
(***************************************************************************)
(* Profiles, their administration, and avatars: AdminController and        *)
(* UserService on the users table, UploadController writing first to the   *)
(* object store and then to the row, better-auth's update-user, which      *)
(* writes the row past all of them, and the MinIO adapter, which creates   *)
(* the bucket from its constructor while the process already serves.       *)
(***************************************************************************)
EXTENDS Naturals, FiniteSets

CONSTANTS
  Users,
  Uploads,     \* requests to POST /users/me/avatar
  Processes,   \* instances of the application
  Milliseconds,\* what Date.now() may say in a key; bound: a small set
  MaxCalls,    \* bound: calls of administrators
  MaxCrashes,  \* bound: processes that die
  None,        \* no object; as an image, none or an address outside the store
  Given        \* the images clients may name themselves

Roles == {"user", "admin", "moderator"}
Keys == [user : Users, ms : Milliseconds]
Jobs == [user : Users, key : Keys, on : Processes]

ASSUME UsersAssumption ==
  /\ MaxCalls \in Nat /\ MaxCrashes \in Nat
  /\ None \notin Users \cup Keys \cup Jobs
  /\ None \in Given /\ Given \subseteq Keys \cup {None}

VARIABLES
  row,      \* users
  uploaded, \* history: whose image was written by an upload
  driver,   \* STORAGE_DRIVER
  found,    \* history: what the first process to start finds of the bucket
  bucket,   \* who may read the objects, or "absent" while MinIO has none
  store,    \* the objects: whose upload lies under each key
  boot,     \* where ensureBucket is in each process
  upload,   \* each upload: what it awaits, or its status
  job,      \* its user, its key and the process that handles it
  calls,
  orphaned, \* history: a process died between makeBucket and setBucketPolicy
  crashes

profiles == <<row, uploaded, calls>>
objects == <<driver, found, bucket, store, boot, orphaned, crashes>>
vars == <<profiles, objects, upload, job>>

Row == [role : Roles, banned : BOOLEAN, verified : BOOLEAN, deleted : BOOLEAN,
        image : Keys \cup {None}]

TypeOK ==
  /\ row \in [Users -> Row]
  /\ driver \in {"fs", "minio", "s3"}
  /\ uploaded \in [Users -> BOOLEAN]
  /\ {found, bucket} \subseteq {"absent", "private", "public"}
  /\ store \in [Keys -> Users \cup {None}]
  /\ boot \in [Processes -> {"down", "check", "make", "policy", "ready"}]
  /\ upload \in [Uploads -> {"new", "store", "save", "ok", "refused", "notFound", "failed", "cut"}]
  /\ job \in [Uploads -> Jobs \cup {None}]
  /\ \A f \in Uploads : upload[f] \in {"store", "save"} <=> job[f] # None
  /\ calls \in 0..MaxCalls
  /\ orphaned \in BOOLEAN
  /\ crashes \in 0..MaxCrashes

(* SignUpDto takes any image, and Google hands over a picture.             *)
NewRow == {[role |-> "user", banned |-> FALSE, verified |-> FALSE,
            deleted |-> FALSE, image |-> i] : i \in Given}

(* What an operator may have left.  Nobody serves the files of the fs      *)
(* adapter; S3's policy is the operator's business; MinIO's bucket may be  *)
(* there already, with any policy.                                         *)
Found(d) ==
  CASE d = "fs" -> {"private"}
    [] d = "s3" -> {"private", "public"}
    [] d = "minio" -> {"absent", "private", "public"}

Init ==
  /\ row \in [Users -> NewRow]
  /\ uploaded = [u \in Users |-> FALSE]
  /\ driver \in {"fs", "minio", "s3"}
  /\ found \in Found(driver)
  /\ bucket = found
  /\ store = [k \in Keys |-> None]
  /\ boot = [p \in Processes |-> "down"]
  /\ upload = [f \in Uploads |-> "new"]
  /\ job = [f \in Uploads |-> None]
  /\ calls = 0
  /\ orphaned = FALSE
  /\ crashes = 0

-----------------------------------------------------------------------------
(* StorageModule constructs the adapter; MinIO's does void ensureBucket(). *)
Start(p) ==
  /\ boot[p] = "down"
  /\ boot' = [boot EXCEPT ![p] = IF driver = "minio" THEN "check" ELSE "ready"]
  /\ UNCHANGED <<profiles, driver, found, bucket, store, upload, job, orphaned,
                 crashes>>

CheckBucket(p) ==
  /\ boot[p] = "check"
  /\ boot' = [boot EXCEPT ![p] = IF bucket = "absent" THEN "make" ELSE "ready"]
  /\ UNCHANGED <<profiles, driver, found, bucket, store, upload, job, orphaned,
                 crashes>>

(* The handlers of a process end with it. *)
Handled(p) == {f \in Uploads : job[f] # None /\ job[f].on = p}
Cut(p) ==
  /\ upload' = [f \in Uploads |-> IF f \in Handled(p) THEN "cut" ELSE upload[f]]
  /\ job' = [f \in Uploads |-> IF f \in Handled(p) THEN None ELSE job[f]]

(* A bucket that another process has made meanwhile is an error, and a     *)
(* rejection that nobody handles ends the process.                         *)
MakeBucket(p) ==
  /\ boot[p] = "make"
  /\ \/ /\ bucket = "absent"
        /\ bucket' = "private"
        /\ boot' = [boot EXCEPT ![p] = "policy"]
        /\ UNCHANGED <<upload, job>>
     \/ /\ bucket # "absent"
        /\ boot' = [boot EXCEPT ![p] = "down"]
        /\ Cut(p)
        /\ UNCHANGED bucket
  /\ UNCHANGED <<profiles, driver, found, store, orphaned, crashes>>

PolicyForgotten(p) == bucket           \* slip: makeBucket alone
PolicySet(p) == "public"

SetBucketPolicy(p) ==
  /\ boot[p] = "policy"
  /\ bucket' = PolicySet(p)
  /\ boot' = [boot EXCEPT ![p] = "ready"]
  /\ UNCHANGED <<profiles, driver, found, store, upload, job, orphaned, crashes>>

Crash(p) ==
  /\ crashes < MaxCrashes
  /\ boot[p] # "down"
  /\ crashes' = crashes + 1
  /\ boot' = [boot EXCEPT ![p] = "down"]
  /\ Cut(p)
  /\ orphaned' = (orphaned \/ boot[p] = "policy")
  /\ UNCHANGED <<profiles, driver, found, bucket, store>>

-----------------------------------------------------------------------------
Await(f, step, j) ==
  /\ upload' = [upload EXCEPT ![f] = step]
  /\ job' = [job EXCEPT ![f] = j]
JobKept(f, status) == Await(f, status, job[f])    \* slip: answered and still at work
Answer(f, status) == Await(f, status, None)

SharedKey(u, ms) == [user |-> CHOOSE v \in Users : TRUE, ms |-> ms]   \* slip: no user id
KeyOf(u, ms) == [user |-> u, ms |-> ms]

(* No part, a MIME type off the list, or more than 5 MB: 400 or 413.       *)
ReceiveFile(f) ==
  /\ upload[f] = "new"
  /\ \E p \in Processes :
       /\ boot[p] # "down"
       /\ \/ Answer(f, "refused")
          \/ \E u \in Users, ms \in Milliseconds :
               Await(f, "store", [user |-> u, key |-> KeyOf(u, ms), on |-> p])
  /\ UNCHANGED <<profiles, objects>>

(* StorageService.upload, awaited; without a bucket it fails.              *)
StoreObject(f) ==
  /\ upload[f] = "store"
  /\ \/ /\ bucket # "absent"
        /\ store' = [store EXCEPT ![job[f].key] = job[f].user]
        /\ Await(f, "save", job[f])
     \/ Answer(f, "failed") /\ UNCHANGED store
  /\ UNCHANGED <<profiles, driver, found, bucket, boot, orphaned, crashes>>

Editable(u) == ~row[u].deleted

(* updateProfile: the row that is not deleted, or 404; or the statement    *)
(* fails and the object stays.                                             *)
SaveImage(f) ==
  /\ upload[f] = "save"
  /\ LET u == job[f].user IN
       \/ /\ Editable(u)
          /\ row' = [row EXCEPT ![u].image = job[f].key]
          /\ uploaded' = [uploaded EXCEPT ![u] = TRUE]
          /\ Answer(f, "ok")
       \/ ~Editable(u) /\ Answer(f, "notFound") /\ UNCHANGED <<row, uploaded>>
       \/ Answer(f, "failed") /\ UNCHANGED <<row, uploaded>>
  /\ UNCHANGED <<objects, calls>>

(* better-auth's update-user, behind the catch-all route, for anybody with *)
(* a session: the row of a deleted user is as good as any other.           *)
UpdateOwnImage(u) ==
  /\ \E i \in Given : row' = [row EXCEPT ![u].image = i]
  /\ uploaded' = [uploaded EXCEPT ![u] = FALSE]
  /\ UNCHANGED <<objects, upload, job, calls>>

-----------------------------------------------------------------------------
(* PATCH /admin/users/:id performs the first field of the body in this     *)
(* order and drops the others; a body without any is answered 400.         *)
Fields == {"role", "banReason", "unban", "forceVerifyEmail"}

First(dto) ==
  CASE "role" \in dto -> "role"
    [] "role" \notin dto /\ "banReason" \in dto -> "banReason"
    [] dto \cap {"role", "banReason"} = {} /\ "unban" \in dto -> "unban"
    [] OTHER -> "forceVerifyEmail"

Updated(u, field, role) ==
  CASE field = "role" -> [row[u] EXCEPT !.role = role]
    [] field = "banReason" -> [row[u] EXCEPT !.banned = TRUE]
    [] field = "unban" -> [row[u] EXCEPT !.banned = FALSE]
    [] field = "forceVerifyEmail" -> [row[u] EXCEPT !.verified = TRUE]

Administer ==
  /\ calls < MaxCalls
  /\ calls' = calls + 1
  /\ UNCHANGED <<uploaded, objects, upload, job>>

UpdateUser(u) ==
  /\ Administer
  /\ \E dto \in SUBSET Fields \ {{}}, role \in Roles :
       row' = [row EXCEPT ![u] = Updated(u, First(dto), role)]

(* softDelete; a second one is answered 404. *)
DeleteUser(u) ==
  /\ Administer
  /\ ~row[u].deleted
  /\ row' = [row EXCEPT ![u].deleted = TRUE]

Next ==
  \/ \E p \in Processes :
       Start(p) \/ CheckBucket(p) \/ MakeBucket(p) \/ SetBucketPolicy(p) \/ Crash(p)
  \/ \E f \in Uploads : ReceiveFile(f) \/ StoreObject(f) \/ SaveImage(f)
  \/ \E u \in Users : UpdateOwnImage(u) \/ UpdateUser(u) \/ DeleteUser(u)

Spec == Init /\ [][Next]_vars

-----------------------------------------------------------------------------
(* users.image is written after the object, and by another request than    *)
(* the one that may overwrite the key: still an image that an upload has   *)
(* written names an object that is stored and that this very user has      *)
(* uploaded, however uploads overlap, fail half-way or die.  What clients  *)
(* name themselves may be anything.                                        *)
ImageIsOwnUpload ==
  \A u \in Users : uploaded[u] => row[u].image \in Keys /\ store[row[u].image] = u

(* makeBucket and setBucketPolicy are two calls, only the process that     *)
(* made the bucket sets the policy, and nothing repairs a bucket that is   *)
(* there.  So the objects are private exactly when they were found to be,  *)
(* the maker is between its two calls, or it died there.                   *)
PrivateForACause ==
  bucket = "private" <=>
    found = "private" \/ orphaned \/ \E p \in Processes : boot[p] = "policy"

(* "All adapters return a public URL".                                     *)
UploadsArePublic == \A f \in Uploads : upload[f] = "ok" => bucket = "public"
=============================================================================
