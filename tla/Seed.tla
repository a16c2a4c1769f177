-------------------------------- MODULE Seed --------------------------------
(***************************************************************************)
(* scripts/seed.ts: look each seed user up, insert what is missing, one    *)
(* statement after the other and no transaction.  Several runs may         *)
(* overlap, and each may be killed between two statements.                 *)
(***************************************************************************)
EXTENDS AccountTables

CONSTANTS
  SeedUsers,     \* SEED_USERS: a sequence of users
  SeedRole,      \* their roles
  Staff,         \* the seed users that become plain members, in order
  SeedPassword   \* their passwords are not told apart

ASSUME SeedAssumption ==
  /\ SeedUsers \in Seq(Users) /\ Len(SeedUsers) > 0
  /\ SeedRole \in [Users -> Roles]
  /\ Staff \in Seq(Users)
  /\ SeedPassword \in Passwords

VARIABLES
  at,          \* the statement each run awaits, or how it ended
  pos,         \* the index of the loop it is in
  adminUser,   \* the first of createdUsers with the role admin, if any
  made,        \* history: which run inserted which user
  seeded       \* history: the member rows the script has inserted

seedVars == <<at, pos, adminUser, made, seeded>>

(* refused: the unique index on email or slug answered an insert.          *)
(* broken: the run died, or failed otherwise, between two statements.      *)
Ended == {"done", "refused", "broken"}
Working == {"user", "insertUser", "insertAccount", "org", "insertOrg", "owner", "staff"}

SeedTypeOK ==
  /\ at \in [Runs -> {"new"} \cup Working \cup Ended]
  /\ pos \in [Runs -> Nat \ {0}]
  /\ adminUser \in [Runs -> Users \cup {NoRow}]
  /\ made \subseteq Runs \X Users
  /\ seeded \subseteq MemberIds

SeedInit ==
  /\ at = [s \in Runs |-> "new"]
  /\ pos = [s \in Runs |-> 1]
  /\ adminUser = [s \in Runs |-> NoRow]
  /\ made = {} /\ seeded = {}

Goto(s, step, index) ==
  /\ at' = [at EXCEPT ![s] = step]
  /\ pos' = [pos EXCEPT ![s] = index]

SeedUser(s) == SeedUsers[pos[s]]

(* The next turn of the loop over SEED_USERS, or the organisation.         *)
FromZero(s) == IF pos[s] >= Len(SeedUsers)           \* slip: an index counted from 0
                 THEN Goto(s, "org", 0) ELSE Goto(s, "user", pos[s] + 1)
LeaveLastOut(s) == IF pos[s] + 1 >= Len(SeedUsers)   \* slip: off by one
                     THEN Goto(s, "org", 1) ELSE Goto(s, "user", pos[s] + 1)
NextUser(s) == IF pos[s] >= Len(SeedUsers)
                 THEN Goto(s, "org", 1) ELSE Goto(s, "user", pos[s] + 1)

(* createdUsers.push: of what it collects only the first admin is asked for. *)
Push(s, role) ==
  adminUser' = [adminUser EXCEPT ![s] = IF @ = NoRow /\ role = "admin" THEN SeedUser(s) ELSE @]

FindUser(s) ==
  /\ at[s] \in {"new", "user"}
  /\ \/ /\ user[SeedUser(s)] = NoRow
        /\ Goto(s, "insertUser", pos[s])
        /\ UNCHANGED adminUser
     \/ /\ user[SeedUser(s)] # NoRow
        /\ NextUser(s)
        /\ Push(s, user[SeedUser(s)])
  /\ UNCHANGED <<tables, made, seeded>>

(* Slip: onConflictDoNothing, and on to the account. *)
InsertUserQuietly(s) ==
  /\ at[s] = "insertUser"
  /\ user' = [user EXCEPT ![SeedUser(s)] = IF @ = NoRow THEN SeedRole[SeedUser(s)] ELSE @]
  /\ made' = made \cup {<<s, SeedUser(s)>>}
  /\ Goto(s, "insertAccount", pos[s])
  /\ UNCHANGED <<account, org, member, founded, adminUser, seeded>>

InsertUser(s) ==
  /\ at[s] = "insertUser"
  /\ \/ /\ user[SeedUser(s)] = NoRow
        /\ user' = [user EXCEPT ![SeedUser(s)] = SeedRole[SeedUser(s)]]
        /\ made' = made \cup {<<s, SeedUser(s)>>}
        /\ Goto(s, "insertAccount", pos[s])
     \/ /\ user[SeedUser(s)] # NoRow
        /\ Goto(s, "refused", 1)
        /\ UNCHANGED <<user, made>>
  /\ UNCHANGED <<account, org, member, founded, adminUser, seeded>>

InsertAccount(s) ==
  /\ at[s] = "insertAccount"
  /\ account' = [account EXCEPT ![CredentialOf(SeedUser(s), s)] = Bcrypt(SeedPassword)]
  /\ NextUser(s)
  /\ Push(s, SeedRole[SeedUser(s)])
  /\ UNCHANGED <<user, org, member, founded, made, seeded>>

FindOrg(s) ==
  /\ at[s] = "org"
  /\ Goto(s, IF org = NoRow THEN "insertOrg" ELSE "done", 1)
  /\ UNCHANGED <<tables, adminUser, made, seeded>>

InsertOrg(s) ==
  /\ at[s] = "insertOrg"
  /\ \/ org = NoRow /\ org' = s /\ founded' = founded \cup {s} /\ Goto(s, "owner", 1)
     \/ org # NoRow /\ Goto(s, "refused", 1) /\ UNCHANGED <<org, founded>>
  /\ UNCHANGED <<user, account, member, adminUser, made, seeded>>

(* A member row refers to its organisation, which may be gone again.       *)
InsertMember(s, u, role, step, index) ==
  LET m == [org |-> s, user |-> u, by |-> "seed"] IN
    /\ \/ /\ org = s
          /\ member' = [member EXCEPT ![m] = role]
          /\ seeded' = seeded \cup {m}
          /\ Goto(s, step, index)
       \/ org # s /\ Goto(s, "broken", 1) /\ UNCHANGED <<member, seeded>>
    /\ UNCHANGED <<user, account, org, founded, adminUser, made>>

InsertOwner(s) ==
  /\ at[s] = "owner"
  /\ \/ adminUser[s] # NoRow /\ InsertMember(s, adminUser[s], "owner", "staff", 1)
     \/ /\ adminUser[s] = NoRow
        /\ Goto(s, "staff", 1)
        /\ UNCHANGED <<tables, adminUser, made, seeded>>

InsertStaff(s) ==
  /\ at[s] = "staff"
  /\ \/ /\ pos[s] <= Len(Staff)
        /\ InsertMember(s, Staff[pos[s]], "member", "staff", pos[s] + 1)
     \/ /\ pos[s] > Len(Staff)
        /\ Goto(s, "done", 1)
        /\ UNCHANGED <<tables, adminUser, made, seeded>>

Kill(s) ==
  /\ at[s] \in Working
  /\ Goto(s, "broken", 1)
  /\ UNCHANGED <<tables, adminUser, made, seeded>>

SeedNext == \E s \in Runs :
  \/ FindUser(s) \/ InsertUser(s) \/ InsertAccount(s)
  \/ FindOrg(s) \/ InsertOrg(s) \/ InsertOwner(s) \/ InsertStaff(s)
  \/ Kill(s)

-----------------------------------------------------------------------------
(* However runs overlap with each other and with sign-ups and wherever     *)
(* they are killed, they never give a user two credential accounts,        *)
(* although no unique index of accounts says so: a second one can only be  *)
(* that of a reset, for a user who had none when the reset looked.         *)
NoDuplicates ==
  \A u \in Users : \A a, b \in CredentialsOf(u) : a.by # "reset" /\ b.by # "reset" => a = b

(* "Idempotent: checks for existing records before inserting, safe to run  *)
(* multiple times": once a run has reported "Seed complete", every seed    *)
(* user is there, and has an account unless it signed up without one or    *)
(* the run that inserted it was broken or is about to insert the account;  *)
(* and whichever run created the organisation has enrolled the owner and   *)
(* the whole staff, was broken, or is at it.                               *)
SeedCompletes ==
  (\E s \in Runs : at[s] = "done") =>
    /\ \A i \in 1..Len(SeedUsers) :
         /\ user[SeedUsers[i]] # NoRow
         /\ \/ AccountsOf(SeedUsers[i]) # {}
            \/ \A s \in Runs : <<s, SeedUsers[i]>> \notin made
            \/ \E s \in Runs :
                 /\ <<s, SeedUsers[i]>> \in made
                 /\ at[s] = "broken" \/ (at[s] = "insertAccount" /\ SeedUser(s) = SeedUsers[i])
    /\ founded # {}
    /\ \A s \in founded \cap Runs :
         \/ at[s] \in {"owner", "staff", "broken"}
         \/ \A u \in ({adminUser[s]} \ {NoRow}) \cup {Staff[i] : i \in 1..Len(Staff)} :
              [org |-> s, user |-> u, by |-> "seed"] \in seeded
=============================================================================
