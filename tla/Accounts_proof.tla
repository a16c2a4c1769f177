--------------------------- MODULE Accounts_proof ---------------------------
(* Theorems about Accounts, for any users, runs of the seed, requests and   *)
(* passwords.                                                               *)
EXTENDS Accounts, TLAPS

-----------------------------------------------------------------------------
InLoop == {"new", "user", "insertUser", "insertAccount"}

(* The credential accounts that the script and sign-ups insert.            *)
Inserted(a) == a.provider = "credential" /\ a.by # "reset"

(* Accounts, tokens and sign-ups refer to users, whose rows stay.          *)
AccountsHaveUsers ==
  /\ \A a \in AccountRows : user[a.user] # NoRow
  /\ \A u \in signingUp \cup resetToken : user[u] # NoRow

LoopInRange == \A s \in Runs : at[s] \in InLoop => pos[s] \in 1..Len(SeedUsers)

(* A run about to insert an account has just inserted its user: nobody     *)
(* else can have given, or be about to give, that user an account, but for *)
(* a reset or a link.                                                      *)
OwnsItsUser ==
  \A s \in Runs : at[s] = "insertAccount" =>
    /\ user[SeedUser(s)] # NoRow
    /\ SeedUser(s) \notin signingUp
    /\ \A a \in AccountRows : Inserted(a) => a.user # SeedUser(s)
    /\ \A t \in Runs : at[t] = "insertAccount" /\ t # s => SeedUser(t) # SeedUser(s)

(* So it is with a sign-up whose account is still to come.                 *)
SignUpsAreFresh == \A a \in AccountRows : Inserted(a) => a.user \notin signingUp

OneInserted ==
  \A a, b \in AccountRows : Inserted(a) /\ Inserted(b) /\ a.user = b.user => a = b

FoundWasKnown ==
  \A c \in Changes : changing[c] \in {"update", "rewrite"} =>
    found[c] = NoRow \/ (found[c] \in AccountRows /\ found[c] \in knew[c])

AccInv ==
  /\ AccountsHaveUsers /\ LoopInRange /\ OwnsItsUser
  /\ SignUpsAreFresh /\ OneInserted /\ FoundWasKnown

MembersOfOrg == \A m \in MemberRows : m.org = org
AskedIsAsk == \A r \in OrgRequests : guard[r] = "member" => asked[r] \in Asks

OrgInv == MembersOfOrg /\ AskedIsAsk

IInv == TypeOK /\ AccInv /\ OrgInv

-----------------------------------------------------------------------------
LEMMA SeedUserTyped ==
  ASSUME NEW s \in Runs, pos[s] \in 1..Len(SeedUsers)
  PROVE  SeedUser(s) \in Users
BY SeedAssumption DEF SeedUser

LEMMA HashTyped ==
  ASSUME NEW p \in Passwords
  PROVE  /\ Bcrypt(p) \in Hashes /\ Bcrypt(p) # NoRow
         /\ Scrypt(p) \in Hashes /\ Scrypt(p) # NoRow
<1>1. Bcrypt(p) \in Hashes /\ Scrypt(p) \in Hashes
  BY DEF Hashes, Bcrypt, Scrypt
<1> QED
  BY <1>1, TableAssumption

LEMMA CredentialTyped ==
  ASSUME NEW u \in Users, NEW w \in Writers
  PROVE  /\ CredentialOf(u, w) \in AccountIds
         /\ CredentialOf(u, w).user = u
         /\ Inserted(CredentialOf(u, w)) <=> w # "reset"
BY DEF CredentialOf, AccountIds, Inserted

LEMMA AccountUser == \A a \in AccountIds : a.user \in Users
BY DEF AccountIds

LEMMA GotoTyped ==
  ASSUME SeedTypeOK, NEW s \in Runs, NEW step \in {"new"} \cup Working \cup Ended,
         NEW i \in Nat \ {0}, Goto(s, step, i)
  PROVE  /\ at' \in [Runs -> {"new"} \cup Working \cup Ended]
         /\ pos' \in [Runs -> Nat \ {0}]
         /\ at'[s] = step /\ pos'[s] = i
         /\ \A t \in Runs : t # s => at'[t] = at[t] /\ pos'[t] = pos[t] /\ SeedUser(t)' = SeedUser(t)
BY DEF SeedTypeOK, Goto, SeedUser

LEMMA NextUserGoes ==
  ASSUME SeedTypeOK, NEW s \in Runs, pos[s] \in 1..Len(SeedUsers), NextUser(s)
  PROVE  \E step \in {"org", "user"}, i \in 1..Len(SeedUsers) : Goto(s, step, i)
<1>1. Len(SeedUsers) \in Nat /\ Len(SeedUsers) > 0
  BY SeedAssumption
<1>2. CASE pos[s] >= Len(SeedUsers)
  BY <1>1, <1>2 DEF NextUser
<1>3. CASE ~(pos[s] >= Len(SeedUsers))
  <2>1. pos[s] + 1 \in 1..Len(SeedUsers)
    BY <1>1, <1>3
  <2> QED
    BY <1>3, <2>1 DEF NextUser
<1> QED
  BY <1>2, <1>3

-----------------------------------------------------------------------------
LEMMA InitIInv == Init => IInv
<1> SUFFICES ASSUME Init PROVE IInv
  OBVIOUS
<1> USE DEF Init, TablesInit, SeedInit, ChangeInit, GuardInit
<1>1. TypeOK
  <2>1. TablesTypeOK
    BY DEF TablesTypeOK
  <2>2. SeedTypeOK
    BY DEF SeedTypeOK
  <2>3. ChangeTypeOK
    BY DEF ChangeTypeOK
  <2>4. GuardTypeOK
    BY DEF GuardTypeOK
  <2> QED
    BY <2>1, <2>2, <2>3, <2>4, CallsAssumption DEF TypeOK
<1>2. AccountRows = {} /\ MemberRows = {}
  BY DEF AccountRows, MemberRows
<1>3. LoopInRange
  BY SeedAssumption DEF LoopInRange
<1>4. AccInv
  BY <1>2, <1>3
  DEF AccInv, AccountsHaveUsers, OwnsItsUser, SignUpsAreFresh, OneInserted, FoundWasKnown
<1>5. OrgInv
  BY <1>2 DEF OrgInv, MembersOfOrg, AskedIsAsk
<1> QED
  BY <1>1, <1>4, <1>5 DEF IInv

(* Steps that leave the rows alone, and move no run in its loop.           *)
LEMMA AccFrame ==
  ASSUME AccInv, \A u \in Users : user'[u] = NoRow <=> user[u] = NoRow,
         AccountRows' = AccountRows, UNCHANGED <<changing, found, knew, signingUp, resetToken, pos>>,
         signingUp \cup resetToken \subseteq Users,
         \A s \in Runs : at'[s] \in InLoop => at'[s] = at[s]
  PROVE  AccInv'
<1> USE DEF AccInv
<1>1. \A a \in AccountRows : a.user \in Users
  BY AccountUser DEF AccountRows
<1>2. \A s \in Runs : SeedUser(s)' = SeedUser(s)
  BY DEF SeedUser
<1>3. \A s \in Runs : at[s] = "insertAccount" => SeedUser(s) \in Users
  BY SeedUserTyped DEF LoopInRange, InLoop
<1>4. AccountsHaveUsers'
  BY <1>1 DEF AccountsHaveUsers
<1>5. OwnsItsUser'
  BY <1>2, <1>3 DEF OwnsItsUser, InLoop
<1>6. LoopInRange'
  BY DEF LoopInRange
<1> QED
  BY <1>4, <1>5, <1>6 DEF SignUpsAreFresh, OneInserted, FoundWasKnown

LEMMA OrgFrame ==
  ASSUME OrgInv, UNCHANGED <<org, member, guard, asked>>
  PROVE  OrgInv'
BY DEF OrgInv, MembersOfOrg, AskedIsAsk, MemberRows

(* A run moves on without an account: to the end of its loop, to the next  *)
(* user, or to the insert of a user.                                       *)
LEMMA MoveKeeps ==
  ASSUME TypeOK, AccInv, NEW s \in Runs, NEW step \in ({"new"} \cup Working \cup Ended) \ {"insertAccount"},
         NEW i \in Nat \ {0}, step \in InLoop => i \in 1..Len(SeedUsers),
         Goto(s, step, i), UNCHANGED <<user, account, changeVars>>
  PROVE  AccInv'
<1> USE DEF AccInv
<1>1. SeedTypeOK
  BY DEF TypeOK
<1>2. /\ at'[s] = step /\ pos'[s] = i
      /\ \A t \in Runs : t # s => at'[t] = at[t] /\ pos'[t] = pos[t] /\ SeedUser(t)' = SeedUser(t)
  BY <1>1, GotoTyped
<1>3. AccountRows' = AccountRows
  BY DEF AccountRows
<1>4. LoopInRange'
  BY <1>2 DEF LoopInRange
<1>5. OwnsItsUser'
  BY <1>2, <1>3 DEF OwnsItsUser, changeVars
<1> QED
  BY <1>3, <1>4, <1>5
  DEF AccountsHaveUsers, SignUpsAreFresh, OneInserted, FoundWasKnown, changeVars

-----------------------------------------------------------------------------
LEMMA PushTyped ==
  ASSUME SeedTypeOK, NEW s \in Runs, SeedUser(s) \in Users, NEW role, Push(s, role)
  PROVE  /\ adminUser' \in [Runs -> Users \cup {NoRow}]
         /\ \A t \in Runs : t # s => adminUser'[t] = adminUser[t]
BY DEF SeedTypeOK, Push

LEMMA FindUserKeeps ==
  ASSUME IInv, NEW s \in Runs, FindUser(s), UNCHANGED <<changeVars, guardVars, calls>>
  PROVE  IInv'
<1> USE DEF IInv
<1>1. SeedTypeOK /\ pos[s] \in 1..Len(SeedUsers)
  BY DEF TypeOK, FindUser, AccInv, LoopInRange, InLoop
<1>2. PICK step \in {"insertUser", "org", "user"}, i \in 1..Len(SeedUsers) : Goto(s, step, i)
  BY <1>1, NextUserGoes DEF FindUser
<1>3. step \in ({"new"} \cup Working \cup Ended) \ {"insertAccount"} /\ i \in Nat \ {0}
  BY SeedAssumption DEF Working
<1>4. AccInv'
  BY <1>2, <1>3, MoveKeeps DEF FindUser, tables
<1>5. adminUser' \in [Runs -> Users \cup {NoRow}]
  BY <1>1, SeedUserTyped, PushTyped DEF FindUser, SeedTypeOK
<1>6. TypeOK'
  BY <1>1, <1>2, <1>3, <1>5, GotoTyped
  DEF FindUser, TypeOK, TablesTypeOK, SeedTypeOK, ChangeTypeOK, GuardTypeOK, tables, changeVars, guardVars
<1>7. OrgInv'
  BY OrgFrame DEF FindUser, tables, guardVars
<1> QED
  BY <1>4, <1>6, <1>7

LEMMA InsertUserKeeps ==
  ASSUME IInv, NEW s \in Runs, InsertUser(s), UNCHANGED <<changeVars, guardVars, calls>>
  PROVE  IInv'
<1> USE DEF IInv
<1>1. SeedTypeOK /\ pos[s] \in 1..Len(SeedUsers) /\ pos[s] \in Nat \ {0}
  BY DEF TypeOK, SeedTypeOK, InsertUser, AccInv, LoopInRange, InLoop
<1>2. SeedUser(s) \in Users
  BY <1>1, SeedUserTyped
<1>3. OrgInv'
  BY OrgFrame DEF InsertUser, guardVars
<1>4. CASE /\ user[SeedUser(s)] = NoRow
           /\ user' = [user EXCEPT ![SeedUser(s)] = SeedRole[SeedUser(s)]]
           /\ made' = made \cup {<<s, SeedUser(s)>>}
           /\ Goto(s, "insertAccount", pos[s])
  <2>1. /\ at' \in [Runs -> {"new"} \cup Working \cup Ended] /\ pos' \in [Runs -> Nat \ {0}]
        /\ at'[s] = "insertAccount" /\ pos'[s] = pos[s]
        /\ \A t \in Runs : t # s => at'[t] = at[t] /\ pos'[t] = pos[t] /\ SeedUser(t)' = SeedUser(t)
    BY <1>1, <1>4, GotoTyped DEF Working
  <2>2. SeedUser(s)' = SeedUser(s)
    BY <2>1 DEF SeedUser
  <2>3. SeedRole[SeedUser(s)] \in Roles /\ SeedRole[SeedUser(s)] # NoRow
    BY <1>2, SeedAssumption, TableAssumption
  <2>4. /\ user' \in [Users -> Roles \cup {NoRow}]
        /\ user'[SeedUser(s)] # NoRow
        /\ \A u \in Users : u # SeedUser(s) => user'[u] = user[u]
    BY <1>2, <1>4, <2>3 DEF TypeOK, TablesTypeOK
  <2>5. made' \subseteq Runs \X Users
    BY <1>1, <1>2, <1>4 DEF SeedTypeOK
  <2>6. TypeOK'
    BY <2>1, <2>4, <2>5
    DEF InsertUser, TypeOK, TablesTypeOK, SeedTypeOK, ChangeTypeOK, GuardTypeOK, changeVars, guardVars
  <2>7. AccountRows' = AccountRows /\ \A a \in AccountRows : a.user \in Users
    BY AccountUser DEF InsertUser, AccountRows
  <2>8. AccountsHaveUsers' /\ LoopInRange'
    <3>1. \A u \in signingUp \cup resetToken : u \in Users
      BY DEF TypeOK, ChangeTypeOK
    <3> QED
      BY <1>1, <2>1, <2>4, <2>7, <3>1 DEF AccInv, AccountsHaveUsers, LoopInRange, changeVars
  <2>9. SeedUser(s) \notin signingUp /\ \A a \in AccountRows : a.user # SeedUser(s)
    BY <1>4 DEF AccInv, AccountsHaveUsers
  <2>10. \A t \in Runs : at[t] = "insertAccount" => SeedUser(t) \in Users /\ SeedUser(t) # SeedUser(s)
    BY <1>4, SeedUserTyped DEF AccInv, OwnsItsUser, LoopInRange, InLoop
  <2>11. OwnsItsUser'
    <3> SUFFICES ASSUME NEW t \in Runs, at'[t] = "insertAccount"
                 PROVE  /\ user'[SeedUser(t)'] # NoRow
                        /\ SeedUser(t)' \notin signingUp
                        /\ \A a \in AccountRows : Inserted(a) => a.user # SeedUser(t)'
                        /\ \A q \in Runs : at'[q] = "insertAccount" /\ q # t =>
                             SeedUser(q)' # SeedUser(t)'
      BY <2>7 DEF OwnsItsUser, changeVars
    <3>1. CASE t = s
      BY <3>1, <2>1, <2>2, <2>4, <2>9, <2>10
    <3>2. CASE t # s
      BY <3>2, <2>1, <2>2, <2>4, <2>10 DEF AccInv, OwnsItsUser
    <3> QED
      BY <3>1, <3>2
  <2>12. FoundWasKnown' /\ OneInserted' /\ SignUpsAreFresh'
    BY <2>7 DEF AccInv, FoundWasKnown, OneInserted, SignUpsAreFresh, changeVars
  <2> QED
    BY <1>3, <2>6, <2>8, <2>11, <2>12 DEF AccInv
<1>5. CASE Goto(s, "refused", 1) /\ UNCHANGED <<user, made>>
  <2>1. AccInv'
    BY <1>5, MoveKeeps DEF InsertUser, Working, Ended, InLoop
  <2>2. TypeOK'
    BY <1>1, <1>5, GotoTyped
    DEF InsertUser, TypeOK, TablesTypeOK, SeedTypeOK, ChangeTypeOK, GuardTypeOK, changeVars, guardVars, Ended
  <2> QED
    BY <1>3, <2>1, <2>2
<1> QED
  BY <1>4, <1>5 DEF InsertUser

LEMMA NewAccount ==
  ASSUME TypeOK, NEW b \in AccountIds, NEW p \in Hashes \cup {NoPassword},
         account' = [account EXCEPT ![b] = p]
  PROVE  /\ account' \in [AccountIds -> Hashes \cup {NoPassword, NoRow}]
         /\ AccountRows' = AccountRows \cup {b}
BY TableAssumption DEF TypeOK, TablesTypeOK, AccountRows

LEMMA InsertAccountKeeps ==
  ASSUME IInv, NEW s \in Runs, InsertAccount(s), UNCHANGED <<changeVars, guardVars, calls>>
  PROVE  IInv'
<1> USE DEF IInv
<1>1. SeedTypeOK /\ pos[s] \in 1..Len(SeedUsers) /\ at[s] = "insertAccount"
  BY DEF TypeOK, InsertAccount, AccInv, LoopInRange, InLoop
<1>2. SeedUser(s) \in Users /\ s \in Writers /\ s # "reset"
  BY <1>1, SeedUserTyped, TableAssumption DEF Writers
<1>3. /\ account' \in [AccountIds -> Hashes \cup {NoPassword, NoRow}]
      /\ AccountRows' = AccountRows \cup {CredentialOf(SeedUser(s), s)}
  BY <1>2, HashTyped, CredentialTyped, SeedAssumption, NewAccount DEF InsertAccount
<1>4. PICK step \in {"org", "user"}, i \in 1..Len(SeedUsers) : Goto(s, step, i)
  BY <1>1, NextUserGoes DEF InsertAccount
<1>5. i \in Nat \ {0} /\ step \in Working /\ step # "insertAccount"
  BY SeedAssumption DEF Working
<1>6. /\ at' \in [Runs -> {"new"} \cup Working \cup Ended] /\ pos' \in [Runs -> Nat \ {0}]
      /\ at'[s] = step /\ pos'[s] = i
      /\ \A t \in Runs : t # s => at'[t] = at[t] /\ pos'[t] = pos[t] /\ SeedUser(t)' = SeedUser(t)
  BY <1>1, <1>4, <1>5, GotoTyped
<1>7. adminUser' \in [Runs -> Users \cup {NoRow}]
  BY <1>1, <1>2, PushTyped DEF InsertAccount
<1>8. TypeOK'
  BY <1>3, <1>6, <1>7
  DEF InsertAccount, TypeOK, TablesTypeOK, SeedTypeOK, ChangeTypeOK, GuardTypeOK, changeVars, guardVars
<1>9. LoopInRange'
  BY <1>6 DEF AccInv, LoopInRange
<1>10. /\ CredentialOf(SeedUser(s), s).user = SeedUser(s)
      /\ Inserted(CredentialOf(SeedUser(s), s))
      /\ UNCHANGED <<user, changeVars>>
  BY <1>2, CredentialTyped DEF InsertAccount
<1>11. AccountsHaveUsers'
  BY <1>1, <1>3, <1>10 DEF AccInv, AccountsHaveUsers, OwnsItsUser, changeVars
<1>12. OwnsItsUser'
  BY <1>1, <1>3, <1>5, <1>6, <1>10 DEF AccInv, OwnsItsUser, changeVars
<1>13. FoundWasKnown'
  BY <1>3 DEF AccInv, FoundWasKnown, changeVars
<1>14. OneInserted' /\ SignUpsAreFresh'
  BY <1>1, <1>3, <1>10 DEF AccInv, OneInserted, SignUpsAreFresh, OwnsItsUser, changeVars
<1>15. OrgInv'
  BY OrgFrame DEF InsertAccount, guardVars
<1> QED
  BY <1>8, <1>9, <1>11, <1>12, <1>13, <1>14, <1>15 DEF AccInv

(* The statements about the organisation: members are inserted while it is *)
(* there.                                                                  *)
Enrols(s) == FindOrg(s) \/ InsertOrg(s) \/ InsertOwner(s) \/ InsertStaff(s) \/ Kill(s)

LEMMA EnrolGoes ==
  ASSUME TypeOK, NEW s \in Runs, Enrols(s)
  PROVE  /\ \E step \in ({"new"} \cup Working \cup Ended) \ InLoop, i \in Nat \ {0} : Goto(s, step, i)
         /\ UNCHANGED <<user, account, adminUser, made>>
         /\ \/ UNCHANGED <<org, member, seeded, founded>>
            \/ org = NoRow /\ org' = s /\ founded' = founded \cup {s} /\ UNCHANGED <<member, seeded>>
            \/ \E m \in MemberIds, role \in OrgRoles :
                 /\ m.org = org
                 /\ member' = [member EXCEPT ![m] = role]
                 /\ seeded' = seeded \cup {m}
                 /\ UNCHANGED <<org, founded>>
<1>1. pos[s] \in Nat \ {0}
  BY DEF TypeOK, SeedTypeOK
<1>2. CASE FindOrg(s) \/ InsertOrg(s) \/ Kill(s)
  BY <1>2 DEF FindOrg, InsertOrg, Kill, tables, Working, Ended, InLoop
<1>3. ASSUME NEW u \in Users, NEW role \in OrgRoles, NEW i \in Nat \ {0},
             InsertMember(s, u, role, "staff", i)
      PROVE  /\ \E step \in ({"new"} \cup Working \cup Ended) \ InLoop, j \in Nat \ {0} : Goto(s, step, j)
             /\ UNCHANGED <<user, account, adminUser, made>>
             /\ \/ UNCHANGED <<org, member, seeded, founded>>
                \/ \E m \in MemberIds, r \in OrgRoles :
                     /\ m.org = org
                     /\ member' = [member EXCEPT ![m] = r]
                     /\ seeded' = seeded \cup {m}
                     /\ UNCHANGED <<org, founded>>
  <2>1. [org |-> s, user |-> u, by |-> "seed"] \in MemberIds
    BY DEF MemberIds, OrgIds
  <2> QED
    BY <1>3, <2>1 DEF InsertMember, Working, Ended, InLoop
<1>4. CASE InsertOwner(s)
  <2>1. adminUser[s] \in Users \cup {NoRow}
    BY DEF TypeOK, SeedTypeOK
  <2>2. ASSUME NEW u \in Users, u = adminUser[s], InsertMember(s, u, "owner", "staff", 1)
        PROVE  /\ \E step \in ({"new"} \cup Working \cup Ended) \ InLoop, j \in Nat \ {0} : Goto(s, step, j)
               /\ UNCHANGED <<user, account, adminUser, made>>
               /\ \/ UNCHANGED <<org, member, seeded, founded>>
                  \/ \E m \in MemberIds, r \in OrgRoles :
                       /\ m.org = org
                       /\ member' = [member EXCEPT ![m] = r]
                       /\ seeded' = seeded \cup {m}
                       /\ UNCHANGED <<org, founded>>
    BY <2>2, <1>3 DEF OrgRoles
  <2> QED
    BY <1>4, <2>1, <2>2 DEF InsertOwner, tables, Working, Ended, InLoop
<1>5. CASE InsertStaff(s)
  <2>1. CASE /\ pos[s] <= Len(Staff)
             /\ InsertMember(s, Staff[pos[s]], "member", "staff", pos[s] + 1)
    <3>1. Staff[pos[s]] \in Users /\ pos[s] + 1 \in Nat \ {0} /\ "member" \in OrgRoles
      BY <1>1, <2>1, SeedAssumption DEF OrgRoles
    <3> QED
      BY <2>1, <3>1, <1>3
  <2> QED
    BY <1>5, <2>1 DEF InsertStaff, tables, Working, Ended, InLoop
<1> QED
  BY <1>2, <1>4, <1>5 DEF Enrols

(* A row is added or gets another role; the organisation is the same.      *)
LEMMA MemberWritten ==
  ASSUME TypeOK, OrgInv, NEW m \in MemberIds, NEW role \in OrgRoles \cup {NoRow},
         m.org = org, member' = [member EXCEPT ![m] = role], UNCHANGED <<org, guard, asked>>
  PROVE  member' \in [MemberIds -> OrgRoles \cup {NoRow}] /\ OrgInv'
BY DEF TypeOK, TablesTypeOK, OrgInv, MembersOfOrg, AskedIsAsk, MemberRows

LEMMA EnrolKeeps ==
  ASSUME IInv, NEW s \in Runs, Enrols(s), UNCHANGED <<changeVars, guardVars, calls>>
  PROVE  IInv'
<1> USE DEF IInv
<1>1. SeedTypeOK
  BY DEF TypeOK
<1>2. PICK step \in ({"new"} \cup Working \cup Ended) \ InLoop, i \in Nat \ {0} : Goto(s, step, i)
  BY EnrolGoes
<1>3. at' \in [Runs -> {"new"} \cup Working \cup Ended] /\ pos' \in [Runs -> Nat \ {0}]
  BY <1>1, <1>2, GotoTyped
<1>4. UNCHANGED <<user, account, adminUser, made>>
  BY EnrolGoes
<1>5. AccInv'
  BY <1>2, <1>4, MoveKeeps DEF InLoop
<1>6. CASE UNCHANGED <<org, member, seeded, founded>>
  BY <1>3, <1>4, <1>5, <1>6, OrgFrame
  DEF TypeOK, TablesTypeOK, SeedTypeOK, ChangeTypeOK, GuardTypeOK, changeVars, guardVars
<1>7. CASE org = NoRow /\ org' = s /\ founded' = founded \cup {s} /\ UNCHANGED <<member, seeded>>
  <2>1. MemberRows = {}
    BY <1>7, TableAssumption DEF OrgInv, MembersOfOrg, MemberRows, MemberIds
  <2>2. OrgInv'
    BY <1>7, <2>1 DEF OrgInv, MembersOfOrg, AskedIsAsk, MemberRows, guardVars
  <2> QED
    BY <1>3, <1>4, <1>5, <1>7, <2>2
    DEF OrgIds, TypeOK, TablesTypeOK, SeedTypeOK, ChangeTypeOK, GuardTypeOK, changeVars, guardVars
<1>8. CASE \E m \in MemberIds, role \in OrgRoles :
             /\ m.org = org
             /\ member' = [member EXCEPT ![m] = role]
             /\ seeded' = seeded \cup {m}
             /\ UNCHANGED <<org, founded>>
  <2>1. PICK m \in MemberIds, role \in OrgRoles :
          /\ m.org = org
          /\ member' = [member EXCEPT ![m] = role]
          /\ seeded' = seeded \cup {m}
          /\ UNCHANGED <<org, founded>>
    BY <1>8
  <2>2. member' \in [MemberIds -> OrgRoles \cup {NoRow}] /\ OrgInv'
    BY <2>1, MemberWritten DEF guardVars
  <2> QED
    BY <1>3, <1>4, <1>5, <2>1, <2>2
    DEF TypeOK, TablesTypeOK, SeedTypeOK, ChangeTypeOK, GuardTypeOK, changeVars, guardVars
<1> QED
  BY <1>6, <1>7, <1>8, EnrolGoes

-----------------------------------------------------------------------------
(* The accounts, as calls of better-auth and of the password controller    *)
(* change them.                                                            *)
LEMMA RowsRewritten ==
  ASSUME IInv, NEW A \in SUBSET AccountRows, NEW h \in Hashes, h # NoRow,
         account' = [a \in AccountIds |-> IF a \in A THEN h ELSE account[a]],
         UNCHANGED <<user, signingUp, seedVars>>, resetToken' \subseteq resetToken
  PROVE  /\ account' \in [AccountIds -> Hashes \cup {NoPassword, NoRow}]
         /\ AccountRows' = AccountRows
         /\ AccountsHaveUsers' /\ LoopInRange' /\ OwnsItsUser' /\ OneInserted' /\ SignUpsAreFresh'
<1>1. AccountRows' = AccountRows
  BY DEF AccountRows
<1>2. account' \in [AccountIds -> Hashes \cup {NoPassword, NoRow}]
  BY DEF IInv, TypeOK, TablesTypeOK
<1>3. AccountsHaveUsers'
  BY <1>1 DEF IInv, AccInv, AccountsHaveUsers
<1> QED
  BY <1>1, <1>2, <1>3
  DEF IInv, AccInv, LoopInRange, OwnsItsUser, OneInserted, SignUpsAreFresh, seedVars, SeedUser

(* One more account: of the sign-up it belongs to, or by a reset or a link. *)
LEMMA AccountAdded ==
  ASSUME IInv, NEW u \in Users, user[u] # NoRow,
         NEW b \in AccountIds, b.user = u, NEW h \in Hashes \cup {NoPassword},
         account' = [account EXCEPT ![b] = h],
         UNCHANGED <<user, changing, found, knew, seedVars>>,
         signingUp' \subseteq signingUp, resetToken' \subseteq resetToken,
         Inserted(b) => u \in signingUp \ signingUp'
  PROVE  /\ account' \in [AccountIds -> Hashes \cup {NoPassword, NoRow}]
         /\ AccInv'
<1> USE DEF IInv, AccInv
<1>1. /\ account' \in [AccountIds -> Hashes \cup {NoPassword, NoRow}]
      /\ AccountRows' = AccountRows \cup {b}
  BY NewAccount
<1>2. AccountsHaveUsers'
  BY <1>1 DEF AccountsHaveUsers
<1>3. \A s \in Runs : SeedUser(s)' = SeedUser(s)
  BY DEF seedVars, SeedUser
<1>4. LoopInRange' /\ OwnsItsUser'
  BY <1>1, <1>3 DEF LoopInRange, OwnsItsUser, seedVars
<1>5. OneInserted' /\ SignUpsAreFresh'
  BY <1>1 DEF OneInserted, SignUpsAreFresh
<1>6. FoundWasKnown'
  BY <1>1 DEF FoundWasKnown
<1> QED
  BY <1>1, <1>2, <1>4, <1>5, <1>6

LEMMA OverwriteKeeps ==
  ASSUME IInv, NEW c \in Changes, changing[c] \in {"update", "rewrite"},
         NEW h \in Hashes, h # NoRow, Overwrite(c, h), UNCHANGED <<seedVars, guardVars, calls>>
  PROVE  IInv'
<1> USE DEF IInv
<1>1. OrgInv'
  BY OrgFrame DEF Overwrite, guardVars
<1>2. account' = [a \in AccountIds |-> IF a \in Updated(c) THEN h ELSE account[a]]
  BY DEF Overwrite
<1>3. Updated(c) \in SUBSET AccountRows
  BY DEF Updated, AccInv, FoundWasKnown
<1>4. UNCHANGED <<user, org, member, founded, resetToken, signingUp>>
  BY DEF Overwrite
<1>5. /\ account' \in [AccountIds -> Hashes \cup {NoPassword, NoRow}]
      /\ AccountRows' = AccountRows
      /\ AccountsHaveUsers' /\ LoopInRange' /\ OwnsItsUser' /\ OneInserted' /\ SignUpsAreFresh'
  BY <1>2, <1>3, <1>4, RowsRewritten
<1>6. ChangeTypeOK' /\ FoundWasKnown'
  BY <1>5 DEF Overwrite, TypeOK, ChangeTypeOK, AccInv, FoundWasKnown
<1>7. TypeOK'
  BY <1>4, <1>5, <1>6 DEF TypeOK, TablesTypeOK, SeedTypeOK, GuardTypeOK, seedVars, guardVars
<1> QED
  BY <1>1, <1>5, <1>6, <1>7 DEF AccInv

LEMMA MakeChangeKeeps ==
  ASSUME IInv, MakeChange, UNCHANGED <<seedVars, guardVars, calls>>
  PROVE  IInv'
<1>1. PICK c \in Changes : UpdatePassword(c) \/ RewritePassword(c)
  BY DEF MakeChange
<1> QED
  BY <1>1, HashTyped, OverwriteKeeps DEF UpdatePassword, RewritePassword

(* The look-up of change-password, here and in better-auth.                *)
LEMMA AskChangeKeeps ==
  ASSUME IInv, NEW c \in Changes, FindAccount(c) \/ FindCredential(c),
         UNCHANGED <<seedVars, guardVars>>, calls' \in 0..MaxCalls
  PROVE  IInv'
<1> USE DEF IInv
<1>1. UNCHANGED <<tables, resetToken, signingUp>>
  BY DEF FindAccount, FindCredential
<1>2. OrgInv'
  BY <1>1, OrgFrame DEF tables, guardVars
<1>3. AccountRows' = AccountRows
  BY <1>1 DEF tables, AccountRows
<1>4. ChangeTypeOK' /\ FoundWasKnown'
  <2>1. CASE changing' = [changing EXCEPT ![c] = "badRequest"] /\ UNCHANGED <<found, knew>>
    BY <1>1, <1>3, <2>1 DEF TypeOK, ChangeTypeOK, AccInv, FoundWasKnown
  <2>2. ASSUME NEW u \in Users, NEW current \in Passwords, NEW a \in AccountsOf(u),
               NEW next \in {"update", "rewrite", "wrong"},
               next # "wrong" => account[a] \in {Bcrypt(current), Scrypt(current)},
               changing' = [changing EXCEPT ![c] = next],
               found' = [found EXCEPT ![c] = a],
               knew' = [knew EXCEPT ![c] = Knows(u, current)]
        PROVE  ChangeTypeOK' /\ FoundWasKnown'
    <3>1. a \in AccountRows /\ a \in AccountIds /\ Knows(u, current) \in SUBSET AccountIds
      BY DEF AccountsOf, AccountRows, Knows
    <3>2. next # "wrong" => a \in Knows(u, current)
      BY <2>2 DEF Knows
    <3>3. ChangeTypeOK'
      BY <1>1, <2>2, <3>1 DEF TypeOK, ChangeTypeOK
    <3>4. FoundWasKnown'
      BY <1>3, <2>2, <3>1, <3>2 DEF TypeOK, ChangeTypeOK, AccInv, FoundWasKnown
    <3> QED
      BY <3>3, <3>4
  <2>3. CASE FindAccount(c) /\ ~(changing' = [changing EXCEPT ![c] = "badRequest"] /\ UNCHANGED <<found, knew>>)
    <3>1. PICK u \in Users, current \in Passwords : \E a \in AccountsOf(u) :
            /\ changing' = [changing EXCEPT ![c] =
                 IF Verify(current, account[a]) THEN "update" ELSE "wrong"]
            /\ found' = [found EXCEPT ![c] = a]
            /\ knew' = [knew EXCEPT ![c] = Knows(u, current)]
      BY <2>3 DEF FindAccount
    <3> QED
      BY <3>1, <2>2 DEF Verify
  <2>4. CASE FindCredential(c) /\ ~(changing' = [changing EXCEPT ![c] = "badRequest"] /\ UNCHANGED <<found, knew>>)
    <3>1. PICK u \in Users, current \in Passwords : \E a \in AccountsOf(u) :
            /\ account[a] = Scrypt(current)
            /\ changing' = [changing EXCEPT ![c] = "rewrite"]
            /\ found' = [found EXCEPT ![c] = a]
            /\ knew' = [knew EXCEPT ![c] = Knows(u, current)]
      BY <2>4 DEF FindCredential, CredentialsOf
    <3> QED
      BY <3>1, <2>2
  <2> QED
    BY <2>1, <2>3, <2>4
<1>5. TypeOK'
  BY <1>1, <1>4 DEF TypeOK, TablesTypeOK, SeedTypeOK, GuardTypeOK, tables, seedVars, guardVars
<1>6. AccountsHaveUsers' /\ LoopInRange' /\ OwnsItsUser' /\ OneInserted' /\ SignUpsAreFresh'
  BY <1>1, <1>3
  DEF tables, AccInv, AccountsHaveUsers, LoopInRange, OwnsItsUser, OneInserted, SignUpsAreFresh,
      seedVars, SeedUser
<1> QED
  BY <1>2, <1>4, <1>5, <1>6 DEF AccInv

-----------------------------------------------------------------------------
(* better-auth.                                                            *)
LEMMA SignUpKeeps ==
  ASSUME IInv, NEW u \in Users, SignUp(u), UNCHANGED <<seedVars, guardVars>>, calls' \in 0..MaxCalls
  PROVE  IInv'
<1> USE DEF IInv
<1>1. UNCHANGED <<account, org, member, founded, changing, found, knew, resetToken>>
      /\ signingUp' = signingUp \cup {u} /\ user[u] = NoRow
  BY DEF SignUp
<1>2. AccountRows' = AccountRows
  BY <1>1 DEF AccountRows
<1>3. /\ user' \in [Users -> Roles \cup {NoRow}]
      /\ user'[u] # NoRow /\ \A v \in Users : v # u => user'[v] = user[v]
  BY TableAssumption DEF SignUp, TypeOK, TablesTypeOK, Roles
<1>4. TypeOK'
  BY <1>1, <1>3
  DEF TypeOK, TablesTypeOK, SeedTypeOK, ChangeTypeOK, GuardTypeOK, seedVars, guardVars
<1>5. \A a \in AccountRows : a.user # u /\ a.user \in Users
  BY <1>1, AccountUser DEF AccInv, AccountsHaveUsers, AccountRows
<1>6. AccountsHaveUsers'
  <2>1. \A v \in signingUp \cup resetToken : v \in Users
    BY DEF TypeOK, ChangeTypeOK
  <2> QED
    BY <1>1, <1>2, <1>3, <1>5, <2>1 DEF AccInv, AccountsHaveUsers
<1>7. \A s \in Runs : at[s] = "insertAccount" => SeedUser(s) # u /\ SeedUser(s) \in Users
  BY <1>1, SeedUserTyped DEF AccInv, OwnsItsUser, LoopInRange, InLoop
<1>8. LoopInRange' /\ OwnsItsUser'
  BY <1>1, <1>2, <1>3, <1>7 DEF AccInv, LoopInRange, OwnsItsUser, seedVars, SeedUser
<1>9. FoundWasKnown' /\ OneInserted' /\ SignUpsAreFresh'
  BY <1>1, <1>2, <1>5 DEF AccInv, FoundWasKnown, OneInserted, SignUpsAreFresh
<1>10. OrgInv'
  BY <1>1, OrgFrame DEF guardVars
<1> QED
  BY <1>4, <1>6, <1>8, <1>9, <1>10 DEF AccInv

LEMMA GoogleTyped ==
  ASSUME NEW u \in Users
  PROVE  GoogleOf(u) \in AccountIds /\ GoogleOf(u).user = u /\ ~Inserted(GoogleOf(u))
BY DEF GoogleOf, AccountIds, Inserted

LEMMA AddAccountKeeps ==
  ASSUME IInv, NEW u \in Users, AddAccount(u), UNCHANGED <<seedVars, guardVars, calls>>
  PROVE  IInv'
<1> USE DEF IInv
<1>1. /\ u \in signingUp /\ signingUp' = signingUp \ {u}
      /\ UNCHANGED <<user, org, member, founded, changing, found, knew, resetToken>>
  BY DEF AddAccount
<1>2. user[u] # NoRow
  BY <1>1 DEF AccInv, AccountsHaveUsers
<1>3. /\ account' \in [AccountIds -> Hashes \cup {NoPassword, NoRow}]
      /\ AccInv'
  <2>1. ASSUME NEW p \in Passwords, account' = [account EXCEPT ![CredentialOf(u, "api")] = Scrypt(p)]
        PROVE  account' \in [AccountIds -> Hashes \cup {NoPassword, NoRow}] /\ AccInv'
    <3> DEFINE b == CredentialOf(u, "api")
    <3>1. b \in AccountIds /\ b.user = u
      BY CredentialTyped DEF Writers
    <3>2. Scrypt(p) \in Hashes \cup {NoPassword} /\ account' = [account EXCEPT ![b] = Scrypt(p)]
      BY <2>1, HashTyped
    <3> HIDE DEF b
    <3> QED
      BY <1>1, <1>2, <3>1, <3>2, AccountAdded
  <2>2. ASSUME account' = [account EXCEPT ![GoogleOf(u)] = NoPassword]
        PROVE  account' \in [AccountIds -> Hashes \cup {NoPassword, NoRow}] /\ AccInv'
    BY <1>1, <1>2, <2>2, GoogleTyped, AccountAdded
  <2> QED
    BY <2>1, <2>2 DEF AddAccount
<1>4. TypeOK'
  BY <1>1, <1>3
  DEF TypeOK, TablesTypeOK, SeedTypeOK, ChangeTypeOK, GuardTypeOK, seedVars, guardVars
<1>5. OrgInv'
  BY <1>1, OrgFrame DEF guardVars
<1> QED
  BY <1>3, <1>4, <1>5

LEMMA LinkKeeps ==
  ASSUME IInv, NEW u \in Users, LinkGoogle(u), UNCHANGED <<seedVars, guardVars>>, calls' \in 0..MaxCalls
  PROVE  IInv'
<1> USE DEF IInv
<1>1. account' = [account EXCEPT ![GoogleOf(u)] = NoPassword] /\ user[u] # NoRow
      /\ UNCHANGED <<user, org, member, founded, changing, found, knew, resetToken, signingUp>>
  BY DEF LinkGoogle, changeVars
<1>2. /\ account' \in [AccountIds -> Hashes \cup {NoPassword, NoRow}]
      /\ AccInv'
  BY <1>1, GoogleTyped, AccountAdded
<1>3. TypeOK'
  BY <1>1, <1>2
  DEF TypeOK, TablesTypeOK, SeedTypeOK, ChangeTypeOK, GuardTypeOK, seedVars, guardVars
<1>4. OrgInv'
  BY <1>1, OrgFrame DEF guardVars
<1> QED
  BY <1>2, <1>3, <1>4

(* What named the unlinked account names nothing any more.                 *)
LEMMA UnlinkKeeps ==
  ASSUME IInv, NEW b \in AccountIds, UnlinkAccount(b), UNCHANGED <<seedVars, guardVars>>,
         calls' \in 0..MaxCalls
  PROVE  IInv'
<1> USE DEF IInv
<1>1. /\ account' = [account EXCEPT ![b] = NoRow]
      /\ found' = [c \in Changes |-> IF found[c] = b THEN NoRow ELSE found[c]]
      /\ UNCHANGED <<user, org, member, founded, changing, knew, resetToken, signingUp>>
  BY DEF UnlinkAccount
<1>2. /\ account' \in [AccountIds -> Hashes \cup {NoPassword, NoRow}]
      /\ AccountRows' = AccountRows \ {b}
  BY <1>1 DEF TypeOK, TablesTypeOK, AccountRows
<1>3. TypeOK'
  BY <1>1, <1>2
  DEF TypeOK, TablesTypeOK, SeedTypeOK, ChangeTypeOK, GuardTypeOK, seedVars, guardVars
<1>4. AccountsHaveUsers'
  BY <1>1, <1>2 DEF AccInv, AccountsHaveUsers
<1>5. LoopInRange' /\ OwnsItsUser'
  BY <1>1, <1>2 DEF AccInv, LoopInRange, OwnsItsUser, seedVars, SeedUser
<1>6. OneInserted' /\ SignUpsAreFresh'
  BY <1>1, <1>2 DEF AccInv, OneInserted, SignUpsAreFresh
<1>7. FoundWasKnown'
  BY <1>1, <1>2 DEF AccInv, FoundWasKnown
<1>8. OrgInv'
  BY <1>1, OrgFrame DEF guardVars
<1> QED
  BY <1>3, <1>4, <1>5, <1>6, <1>7, <1>8 DEF AccInv

LEMMA ForgetKeeps ==
  ASSUME IInv, NEW u \in Users, ForgetPassword(u), UNCHANGED <<seedVars, guardVars>>,
         calls' \in 0..MaxCalls
  PROVE  IInv'
<1> USE DEF IInv
<1>1. UNCHANGED <<user, account, org, member, founded, changing, found, knew, signingUp>>
      /\ user[u] # NoRow /\ resetToken' = resetToken \cup {u}
  BY DEF ForgetPassword, tables
<1>2. TypeOK'
  BY <1>1
  DEF TypeOK, TablesTypeOK, SeedTypeOK, ChangeTypeOK, GuardTypeOK, seedVars, guardVars
<1>3. AccountRows' = AccountRows
  BY <1>1 DEF AccountRows
<1>4. AccInv'
  BY <1>1, <1>3
  DEF AccInv, AccountsHaveUsers, LoopInRange, OwnsItsUser, SignUpsAreFresh, OneInserted, FoundWasKnown,
      seedVars, SeedUser
<1>5. OrgInv'
  BY <1>1, OrgFrame DEF guardVars
<1> QED
  BY <1>2, <1>4, <1>5

LEMMA ResetKeeps ==
  ASSUME IInv, NEW u \in Users, ResetPassword(u), UNCHANGED <<seedVars, guardVars>>,
         calls' \in 0..MaxCalls
  PROVE  IInv'
<1> USE DEF IInv
<1>1. /\ UNCHANGED <<user, org, member, founded, changing, found, knew, signingUp>>
      /\ u \in resetToken /\ resetToken' = resetToken \ {u}
  BY DEF ResetPassword
<1>2. /\ account' \in [AccountIds -> Hashes \cup {NoPassword, NoRow}]
      /\ AccInv'
  <2>1. ASSUME NEW p \in Passwords, account' = [account EXCEPT ![CredentialOf(u, "reset")] = Scrypt(p)]
        PROVE  account' \in [AccountIds -> Hashes \cup {NoPassword, NoRow}] /\ AccInv'
    <3> DEFINE b == CredentialOf(u, "reset")
    <3>1. b \in AccountIds /\ b.user = u /\ ~Inserted(b)
      BY CredentialTyped DEF Writers
    <3>2. Scrypt(p) \in Hashes \cup {NoPassword} /\ account' = [account EXCEPT ![b] = Scrypt(p)]
      BY <2>1, HashTyped
    <3>3. user[u] # NoRow
      BY <1>1 DEF AccInv, AccountsHaveUsers
    <3> HIDE DEF b
    <3> QED
      BY <1>1, <3>1, <3>2, <3>3, AccountAdded
  <2>2. ASSUME NEW p \in Passwords,
               account' = [a \in AccountIds |-> IF a \in CredentialsOf(u) THEN Scrypt(p) ELSE account[a]]
        PROVE  account' \in [AccountIds -> Hashes \cup {NoPassword, NoRow}] /\ AccInv'
    <3>1. CredentialsOf(u) \in SUBSET AccountRows
      BY DEF CredentialsOf, AccountsOf
    <3>2. /\ account' \in [AccountIds -> Hashes \cup {NoPassword, NoRow}]
          /\ AccountRows' = AccountRows
          /\ AccountsHaveUsers' /\ LoopInRange' /\ OwnsItsUser' /\ OneInserted' /\ SignUpsAreFresh'
      BY <1>1, <2>2, <3>1, HashTyped, RowsRewritten
    <3> QED
      BY <1>1, <3>2 DEF AccInv, FoundWasKnown
  <2> QED
    BY <2>1, <2>2 DEF ResetPassword
<1>3. TypeOK'
  BY <1>1, <1>2
  DEF TypeOK, TablesTypeOK, SeedTypeOK, ChangeTypeOK, GuardTypeOK, seedVars, guardVars
<1>4. OrgInv'
  BY <1>1, OrgFrame DEF guardVars
<1> QED
  BY <1>2, <1>3, <1>4

LEMMA UpdateRoleKeeps ==
  ASSUME IInv, NEW u \in Users, UpdateRole(u), UNCHANGED <<seedVars, changeVars, guardVars>>,
         calls' \in 0..MaxCalls
  PROVE  IInv'
<1> USE DEF IInv
<1>1. PICK role \in Roles : user' = [user EXCEPT ![u] = role]
  BY DEF UpdateRole
<1>2. /\ user' \in [Users -> Roles \cup {NoRow}]
      /\ \A v \in Users : user'[v] = NoRow <=> user[v] = NoRow
  BY <1>1, TableAssumption DEF UpdateRole, TypeOK, TablesTypeOK
<1>3. TypeOK'
  BY <1>2
  DEF UpdateRole, TypeOK, TablesTypeOK, SeedTypeOK, ChangeTypeOK, GuardTypeOK, seedVars, changeVars, guardVars
<1>4. signingUp \cup resetToken \subseteq Users
  BY DEF TypeOK, ChangeTypeOK
<1>5. AccInv'
  BY <1>2, <1>4, AccFrame DEF UpdateRole, AccountRows, seedVars, changeVars
<1>6. OrgInv'
  BY OrgFrame DEF UpdateRole, guardVars
<1> QED
  BY <1>3, <1>5, <1>6

-----------------------------------------------------------------------------
(* The guards, and the organisation plugin.                                *)
LEMMA GuardKeeps ==
  ASSUME IInv, NEW r \in OrgRequests, ReadOrg(r) \/ ReadMember(r),
         UNCHANGED <<seedVars, changeVars>>, calls' \in 0..MaxCalls
  PROVE  IInv'
<1> USE DEF IInv
<1>1. \/ \E verdict \in {"granted", "forbidden", "notFound"} : Decide(r, verdict)
      \/ \E q \in Asks : /\ guard' = [guard EXCEPT ![r] = "member"]
                         /\ asked' = [asked EXCEPT ![r] = q]
                         /\ UNCHANGED tables
  BY DEF ReadOrg, ReadMember
<1>2. UNCHANGED tables
  BY <1>1 DEF Decide
<1>3. GuardTypeOK' /\ AskedIsAsk'
  <2>1. CASE \E verdict \in {"granted", "forbidden", "notFound"} : Decide(r, verdict)
    BY <2>1 DEF Decide, TypeOK, GuardTypeOK, OrgInv, AskedIsAsk
  <2>2. CASE \E q \in Asks : /\ guard' = [guard EXCEPT ![r] = "member"]
                             /\ asked' = [asked EXCEPT ![r] = q]
    BY <2>2 DEF TypeOK, GuardTypeOK, OrgInv, AskedIsAsk
  <2> QED
    BY <1>1, <2>1, <2>2
<1>4. TypeOK'
  BY <1>2, <1>3 DEF TypeOK, TablesTypeOK, SeedTypeOK, ChangeTypeOK, tables, seedVars, changeVars
<1>5. AccInv'
  <2>1. signingUp \cup resetToken \subseteq Users
    BY DEF TypeOK, ChangeTypeOK
  <2> QED
    BY <1>2, <2>1, AccFrame DEF tables, AccountRows, seedVars, changeVars
<1>6. MembersOfOrg'
  BY <1>2 DEF OrgInv, MembersOfOrg, MemberRows, tables
<1> QED
  BY <1>3, <1>4, <1>5, <1>6 DEF OrgInv

LEMMA PluginKeeps ==
  ASSUME IInv, UNCHANGED <<seedVars, changeVars>>, calls' \in 0..MaxCalls,
         \/ \E u \in Users : CreateOrganization(u) \/ Invite(u)
         \/ \E m \in MemberIds : ChangeMember(m)
         \/ DeleteOrganization
  PROVE  IInv'
<1> USE DEF IInv
<1>1. UNCHANGED <<user, account, guardVars>>
  BY DEF CreateOrganization, Invite, ChangeMember, DeleteOrganization
<1>2. AccInv'
  <2>1. signingUp \cup resetToken \subseteq Users
    BY DEF TypeOK, ChangeTypeOK
  <2> QED
    BY <1>1, <2>1, AccFrame DEF AccountRows, seedVars, changeVars
<1> DEFINE Kept ==
      /\ org' \in OrgIds \cup {NoRow} /\ founded' \subseteq OrgIds
      /\ member' \in [MemberIds -> OrgRoles \cup {NoRow}]
      /\ OrgInv'
<1>3. Kept
  <2>1. ASSUME NEW u \in Users, Invite(u) PROVE Kept
    <3> DEFINE m == [org |-> org, user |-> u, by |-> "api"]
    <3>1. m \in MemberIds /\ m.org = org /\ "member" \in OrgRoles /\ UNCHANGED <<org, founded>>
      BY <2>1 DEF Invite, TypeOK, TablesTypeOK, MemberIds, OrgRoles
    <3>2. member' = [member EXCEPT ![m] = "member"]
      BY <2>1 DEF Invite
    <3> HIDE DEF m
    <3> QED
      BY <1>1, <3>1, <3>2, MemberWritten DEF TypeOK, TablesTypeOK, guardVars
  <2>2. ASSUME NEW m \in MemberIds, ChangeMember(m) PROVE Kept
    <3>1. m.org = org
      BY <2>2 DEF ChangeMember, OrgInv, MembersOfOrg
    <3>2. PICK role \in OrgRoles \cup {NoRow} : member' = [member EXCEPT ![m] = role]
      BY <2>2 DEF ChangeMember
    <3>3. UNCHANGED <<org, founded>>
      BY <2>2 DEF ChangeMember
    <3> QED
      BY <1>1, <3>1, <3>2, <3>3, MemberWritten DEF TypeOK, TablesTypeOK, guardVars
  <2>3. CASE DeleteOrganization
    <3>1. /\ org' = NoRow /\ founded' = founded
          /\ member' = [m \in MemberIds |-> IF Cascades(m) THEN NoRow ELSE member[m]]
      BY <2>3 DEF DeleteOrganization
    <3>2. member' \in [MemberIds -> OrgRoles \cup {NoRow}]
      BY <3>1 DEF TypeOK, TablesTypeOK
    <3>3. MemberRows' = {}
      BY <3>1 DEF OrgInv, MembersOfOrg, MemberRows, Cascades
    <3> QED
      BY <1>1, <3>1, <3>2, <3>3 DEF OrgInv, MembersOfOrg, AskedIsAsk, guardVars, TypeOK, TablesTypeOK
  <2>4. ASSUME NEW u \in Users, CreateOrganization(u) PROVE Kept
    <3> DEFINE m == [org |-> "api", user |-> u, by |-> "api"]
    <3>1. m \in MemberIds /\ m.org = "api" /\ "owner" \in OrgRoles /\ "api" \in OrgIds
      BY DEF MemberIds, OrgRoles, OrgIds
    <3>2. org = NoRow /\ org' = "api" /\ founded' = founded \cup {"api"}
          /\ member' = [member EXCEPT ![m] = "owner"]
      BY <2>4 DEF CreateOrganization
    <3> HIDE DEF m
    <3>3. member' \in [MemberIds -> OrgRoles \cup {NoRow}] /\ founded' \subseteq OrgIds
      BY <3>1, <3>2 DEF TypeOK, TablesTypeOK
    <3>4. MemberRows = {}
      BY <3>2, TableAssumption DEF OrgInv, MembersOfOrg, MemberRows, MemberIds
    <3>5. MemberRows' \subseteq {m}
      BY <3>1, <3>2, <3>4 DEF MemberRows, TypeOK, TablesTypeOK
    <3> QED
      BY <1>1, <3>1, <3>2, <3>3, <3>5 DEF OrgInv, MembersOfOrg, AskedIsAsk, guardVars
  <2> QED
    BY <2>1, <2>2, <2>3, <2>4
<1>4. TypeOK'
  BY <1>1, <1>3
  DEF TypeOK, TablesTypeOK, SeedTypeOK, ChangeTypeOK, GuardTypeOK, seedVars, changeVars, guardVars
<1> QED
  BY <1>2, <1>3, <1>4

-----------------------------------------------------------------------------
LEMMA StepIInv == IInv /\ [Next]_vars => IInv'
<1> SUFFICES ASSUME IInv, [Next]_vars PROVE IInv'
  OBVIOUS
<1>1. CASE SeedNext /\ UNCHANGED <<changeVars, guardVars, calls>>
  BY <1>1, FindUserKeeps, InsertUserKeeps, InsertAccountKeeps, EnrolKeeps DEF SeedNext, Enrols
<1>2. CASE AuthRest /\ UNCHANGED <<seedVars, guardVars, calls>>
  BY <1>2, AddAccountKeeps, MakeChangeKeeps DEF AuthRest
<1>3. CASE OrgRest /\ UNCHANGED <<seedVars, changeVars, calls>>
  BY <1>3, GuardKeeps DEF OrgRest, IInv, TypeOK
<1>4. CASE /\ calls < MaxCalls
           /\ calls' = calls + 1
           /\ \/ AuthNext /\ UNCHANGED <<seedVars, guardVars>>
              \/ OrgNext /\ UNCHANGED <<seedVars, changeVars>>
              \/ (\E u \in Users : UpdateRole(u)) /\ UNCHANGED <<seedVars, changeVars, guardVars>>
  <2>1. calls' \in 0..MaxCalls
    BY <1>4, CallsAssumption DEF IInv, TypeOK
  <2>2. CASE AuthNext /\ UNCHANGED <<seedVars, guardVars>>
    BY <2>1, <2>2, SignUpKeeps, LinkKeeps, ForgetKeeps, ResetKeeps, UnlinkKeeps, AskChangeKeeps
    DEF AuthNext, AskChange
  <2>3. CASE OrgNext /\ UNCHANGED <<seedVars, changeVars>>
    BY <2>1, <2>3, PluginKeeps, GuardKeeps DEF OrgNext
  <2>4. CASE (\E u \in Users : UpdateRole(u)) /\ UNCHANGED <<seedVars, changeVars, guardVars>>
    BY <2>1, <2>4, UpdateRoleKeeps
  <2> QED
    BY <1>4, <2>2, <2>3, <2>4
<1>5. CASE UNCHANGED vars
  <2>1. UNCHANGED <<tables, seedVars, changeVars, guardVars, calls>>
    BY <1>5 DEF vars
  <2>2. TypeOK'
    BY <2>1 DEF IInv, TypeOK, TablesTypeOK, SeedTypeOK, ChangeTypeOK, GuardTypeOK, tables, seedVars,
                changeVars, guardVars
  <2>3. AccInv' /\ OrgInv'
    <3>1. signingUp \cup resetToken \subseteq Users
      BY DEF IInv, TypeOK, ChangeTypeOK
    <3> QED
      BY <2>1, <3>1, AccFrame, OrgFrame
      DEF IInv, AccountRows, tables, seedVars, changeVars, guardVars
  <2> QED
    BY <2>2, <2>3 DEF IInv
<1> QED
  BY <1>1, <1>2, <1>3, <1>4, <1>5 DEF Next

LEMMA Inductive == Spec => []IInv
BY InitIInv, StepIInv, PTL DEF Spec

(* The tables, and the requests and runs that work on them, keep their     *)
(* types, for any number of runs of scripts/seed.ts and any requests.      *)
THEOREM TypeCorrect == Spec => []TypeOK
BY Inductive, PTL DEF IInv

(* However runs of the seed overlap and die and whoever signs up, links,   *)
(* unlinks or resets beside them: the script and the sign-ups never give a *)
(* user two credential accounts.  The unique email is enough, although     *)
(* accounts has no unique index; only a reset may add a second one.        *)
THEOREM OneCredentialEach == Spec => []NoDuplicates
<1>1. IInv => NoDuplicates
  BY DEF IInv, AccInv, OneInserted, Inserted, NoDuplicates, CredentialsOf, AccountsOf
<1> QED
  BY <1>1, Inductive, PTL

(* PasswordController, the seed and better-auth never overwrite a password *)
(* for one who did not know it, unless a reset token is used up.           *)
THEOREM PasswordKeptFromOthers == Spec => ChangedByOneWhoKnew
<1> DEFINE Kept ==
      \A a \in AccountIds : account[a] # NoRow /\ account'[a] \notin {account[a], NoRow} =>
        \/ a.user \in resetToken \ resetToken'
        \/ \E c \in Changes : /\ changing[c] \in {"update", "rewrite"}
                              /\ changing'[c] = "success"
                              /\ a \in knew[c]
<1>1. IInv /\ [Next]_vars => [Kept]_<<tables, changeVars>>
  <2> SUFFICES ASSUME IInv, Next, NEW a \in AccountIds, account[a] # NoRow,
                      account'[a] \notin {account[a], NoRow}
               PROVE  \/ a.user \in resetToken \ resetToken'
                      \/ \E c \in Changes : /\ changing[c] \in {"update", "rewrite"}
                                            /\ changing'[c] = "success"
                                            /\ a \in knew[c]
    BY DEF vars
  <2> USE DEF IInv
  <2>1. a \in AccountRows
    BY DEF AccountRows
  <2>2. ASSUME NEW s \in Runs, InsertAccount(s) PROVE FALSE
    <3>1. SeedUser(s) \in Users /\ s \in Writers /\ s # "reset"
      BY <2>2, SeedUserTyped, TableAssumption DEF InsertAccount, AccInv, LoopInRange, InLoop, Writers
    <3>2. a = CredentialOf(SeedUser(s), s)
      BY <2>2, <3>1, CredentialTyped DEF InsertAccount, TypeOK, TablesTypeOK
    <3>3. Inserted(a) /\ a.user = SeedUser(s)
      BY <3>1, <3>2, CredentialTyped
    <3> QED
      BY <2>1, <2>2, <3>3 DEF InsertAccount, AccInv, OwnsItsUser
  <2>3. ASSUME NEW c \in Changes, UpdatePassword(c) \/ RewritePassword(c)
        PROVE  \E d \in Changes : /\ changing[d] \in {"update", "rewrite"}
                                  /\ changing'[d] = "success" /\ a \in knew[d]
    <3>1. PICK h : Overwrite(c, h)
      BY <2>3 DEF UpdatePassword, RewritePassword
    <3>2. a = found[c] /\ changing'[c] = "success" /\ found[c] # NoRow
      BY <3>1 DEF Overwrite, Updated, TypeOK, ChangeTypeOK
    <3>3. changing[c] \in {"update", "rewrite"}
      BY <2>3 DEF UpdatePassword, RewritePassword
    <3> QED
      BY <3>2, <3>3 DEF AccInv, FoundWasKnown
  <2>4. ASSUME NEW u \in Users, AddAccount(u) PROVE FALSE
    <3>1. a = CredentialOf(u, "api")
      <4>1. CASE account[GoogleOf(u)] = NoRow /\ account' = [account EXCEPT ![GoogleOf(u)] = NoPassword]
        BY <4>1, GoogleTyped DEF TypeOK, TablesTypeOK
      <4>2. ASSUME NEW p \in Passwords, account' = [account EXCEPT ![CredentialOf(u, "api")] = Scrypt(p)]
            PROVE  a = CredentialOf(u, "api")
        BY <4>2, CredentialTyped DEF TypeOK, TablesTypeOK, Writers
      <4> QED
        BY <2>4, <4>1, <4>2 DEF AddAccount
    <3>2. a.user = u /\ Inserted(a)
      BY <3>1, CredentialTyped DEF Writers
    <3> QED
      BY <2>1, <2>4, <3>2 DEF AddAccount, AccInv, SignUpsAreFresh
  <2>5. ASSUME NEW u \in Users, LinkGoogle(u) PROVE FALSE
    BY <2>5, GoogleTyped DEF LinkGoogle, TypeOK, TablesTypeOK
  <2>6. ASSUME NEW b \in AccountIds, UnlinkAccount(b) PROVE FALSE
    BY <2>6 DEF UnlinkAccount, TypeOK, TablesTypeOK
  <2>7. ASSUME NEW u \in Users, ResetPassword(u) PROVE a.user \in resetToken \ resetToken'
    <3>1. a.user = u
      <4>1. ASSUME NEW p \in Passwords, account' = [account EXCEPT ![CredentialOf(u, "reset")] = Scrypt(p)]
            PROVE  a.user = u
        BY <4>1, CredentialTyped DEF TypeOK, TablesTypeOK, Writers
      <4>2. ASSUME NEW p \in Passwords,
                   account' = [d \in AccountIds |-> IF d \in CredentialsOf(u) THEN Scrypt(p) ELSE account[d]]
            PROVE  a.user = u
        BY <4>2 DEF CredentialsOf, AccountsOf
      <4> QED
        BY <2>7, <4>1, <4>2 DEF ResetPassword
    <3> QED
      BY <2>7, <3>1 DEF ResetPassword
  <2>8. CASE UNCHANGED account
    BY <2>8
  <2>9. ASSUME NEW s \in Runs, Enrols(s) PROVE UNCHANGED account
    BY <2>9, EnrolGoes
  <2>10. CASE SeedNext
    BY <2>2, <2>8, <2>9, <2>10 DEF SeedNext, Enrols, FindUser, InsertUser, tables
  <2>11. CASE AuthNext
    BY <2>5, <2>6, <2>7, <2>8, <2>11
    DEF AuthNext, SignUp, ForgetPassword, AskChange, FindAccount, FindCredential, tables
  <2>12. CASE AuthRest
    BY <2>3, <2>4, <2>12 DEF AuthRest, MakeChange
  <2>13. CASE OrgNext \/ OrgRest \/ \E u \in Users : UpdateRole(u)
    BY <2>8, <2>13
    DEF OrgNext, OrgRest, ReadOrg, ReadMember, Decide, tables, CreateOrganization, Invite,
        ChangeMember, DeleteOrganization, UpdateRole
  <2> QED
    BY <2>10, <2>11, <2>12, <2>13 DEF Next
<1> QED
  BY <1>1, Inductive, PTL DEF Spec, ChangedByOneWhoKnew

(* OrganizationGuard and OrgRolesGuard let through what is a membership    *)
(* with a sufficient role at that instant, although they read twice.       *)
THEOREM GuardsGrantMembers == Spec => GrantedMembersOnly
<1> DEFINE Member(r) ==
      /\ org = asked[r].org
      /\ \E m \in MemberRows :
           /\ m.org = org /\ m.user = asked[r].user
           /\ asked[r].roles = {} \/ member[m] \in asked[r].roles
<1>1. IInv /\ [Next]_vars =>
        [\A r \in OrgRequests : guard'[r] = "granted" /\ guard[r] # "granted" =>
           Member(r)]_<<tables, guardVars>>
  <2> SUFFICES ASSUME IInv, Next, NEW r \in OrgRequests, guard'[r] = "granted", guard[r] # "granted"
               PROVE  Member(r)
    BY DEF vars
  <2>1. PICK q \in OrgRequests : ReadOrg(q) \/ ReadMember(q)
    BY DEF Next, OrgNext, OrgRest, CreateOrganization, Invite, ChangeMember, DeleteOrganization, guardVars
  <2>2. q = r /\ ReadMember(r)
    BY <2>1 DEF ReadOrg, ReadMember, Decide, IInv, TypeOK, GuardTypeOK
  <2>3. PICK m \in Membership(asked[r]) : RoleSuffices(asked[r], member[m])
    BY <2>2 DEF ReadMember, Decide, IInv, TypeOK, GuardTypeOK
  <2>4. m.org = org /\ m \in MemberRows /\ m.org = asked[r].org /\ m.user = asked[r].user
    BY DEF Membership, IInv, OrgInv, MembersOfOrg
  <2> QED
    BY <2>3, <2>4 DEF RoleSuffices
<1> QED
  BY <1>1, Inductive, PTL DEF Spec, GrantedMembersOnly

-----------------------------------------------------------------------------
PastLoop == {"org", "insertOrg", "owner", "staff", "done"}

(* The seed users before index n have their rows.                          *)
RowsUpTo(n) == \A i \in 1..Len(SeedUsers) : i < n => user[SeedUsers[i]] # NoRow

LoopLeavesRows ==
  \A s \in Runs :
    /\ at[s] \in InLoop => RowsUpTo(pos[s])
    /\ at[s] \in PastLoop => RowsUpTo(Len(SeedUsers) + 1)

HasAccount(u) == AccountsOf(u) # {}

(* A user that the script inserted has an account, unless that run is      *)
(* about to insert it, or was broken.                                      *)
MadeHaveAccounts ==
  \A s \in Runs, u \in Users : <<s, u>> \in made =>
    \/ HasAccount(u)
    \/ at[s] = "broken"
    \/ at[s] = "insertAccount" /\ SeedUser(s) = u

Row(s, u) == [org |-> s, user |-> u, by |-> "seed"]

OwnerEnrolled(s) == adminUser[s] # NoRow => Row(s, adminUser[s]) \in seeded
StaffEnrolled(s, n) == \A i \in 1..Len(Staff) : i < n => Row(s, Staff[i]) \in seeded
Enrolled(s) == OwnerEnrolled(s) /\ StaffEnrolled(s, Len(Staff) + 1)

(* A run that inserted the organisation enrols its members, or is broken.  *)
Founder(s) ==
  \/ at[s] \in {"owner", "staff", "broken"}
  \/ at[s] = "done" /\ Enrolled(s)

StaffInOrder == \A s \in Runs : at[s] = "staff" => OwnerEnrolled(s) /\ StaffEnrolled(s, pos[s])
FoundersEnrol == \A s \in founded \cap Runs : Founder(s)

(* Whoever enrols, finds an organisation or is done, knows of a founder.   *)
OrgWasFounded ==
  /\ org # NoRow => org \in founded
  /\ \A s \in Runs : at[s] \in {"owner", "staff"} => s \in founded
  /\ \A s \in Runs : at[s] = "done" => founded # {}

SeedInv ==
  /\ LoopLeavesRows /\ MadeHaveAccounts
  /\ StaffInOrder /\ FoundersEnrol /\ OrgWasFounded

-----------------------------------------------------------------------------
(* Users stay, with one account at least once they had one; the inserts of *)
(* the script are remembered.                                              *)
Grows ==
  /\ \A u \in Users : user[u] # NoRow => user'[u] # NoRow
  /\ \A u \in Users : HasAccount(u) => HasAccount(u)'
  /\ seeded \subseteq seeded'
  /\ founded \subseteq founded'

LEMMA SeedUserRow == \A i \in 1..Len(SeedUsers) : SeedUsers[i] \in Users
BY SeedAssumption

LEMMA RowsKept ==
  ASSUME Grows, NEW n, RowsUpTo(n)
  PROVE  RowsUpTo(n)'
BY SeedUserRow DEF Grows, RowsUpTo

LEMMA EnrolmentKept ==
  ASSUME Grows, NEW s \in Runs, adminUser'[s] = adminUser[s]
  PROVE  /\ OwnerEnrolled(s) => OwnerEnrolled(s)'
         /\ \A n : StaffEnrolled(s, n) => StaffEnrolled(s, n)'
BY DEF Grows, OwnerEnrolled, StaffEnrolled, Row

(* A founder that does not move stays one.                                 *)
LEMMA FounderKept ==
  ASSUME Grows, NEW s \in Runs, Founder(s), at'[s] = at[s], adminUser'[s] = adminUser[s]
  PROVE  Founder(s)'
BY EnrolmentKept DEF Founder, Enrolled

-----------------------------------------------------------------------------
(* What SeedInv asks of a run that goes to another statement.              *)
LEMMA RunGoes ==
  ASSUME TypeOK, SeedInv, Grows, NEW s \in Runs, NEW step \in {"new"} \cup Working \cup Ended,
         NEW i \in Nat \ {0}, Goto(s, step, i),
         at[s] # "broken",
         \A t \in Runs : t # s => adminUser'[t] = adminUser[t],
         \A t \in Runs, v \in Users : <<t, v>> \in made' =>
           \/ <<t, v>> \in made
           \/ t = s /\ v = SeedUser(s) /\ step = "insertAccount" /\ i = pos[s],
         step \in InLoop => RowsUpTo(i)',
         step \in PastLoop => RowsUpTo(Len(SeedUsers) + 1)',
         at[s] = "insertAccount" =>
           step = "broken" \/ \A v \in Users : v = SeedUser(s) => HasAccount(v)',
         step = "staff" => OwnerEnrolled(s)' /\ StaffEnrolled(s, i)',
         s \in founded' => Founder(s)',
         founded' \subseteq founded \cup {s},
         step \in {"owner", "staff"} => s \in founded',
         org' # NoRow => org' \in founded',
         step = "done" => founded' # {}
  PROVE  SeedInv'
<1> USE DEF SeedInv
<1>1. /\ at'[s] = step /\ pos'[s] = i
      /\ \A t \in Runs : t # s => at'[t] = at[t] /\ pos'[t] = pos[t] /\ SeedUser(t)' = SeedUser(t)
  BY GotoTyped DEF TypeOK
<1>2. LoopLeavesRows'
  <2> SUFFICES ASSUME NEW t \in Runs
               PROVE  /\ at'[t] \in InLoop => RowsUpTo(pos[t])'
                      /\ at'[t] \in PastLoop => RowsUpTo(Len(SeedUsers) + 1)'
    BY DEF LoopLeavesRows
  <2>1. CASE t = s
    BY <1>1, <2>1 DEF RowsUpTo
  <2>2. CASE t # s
    <3>1. at[t] \in InLoop => RowsUpTo(pos[t])
      BY DEF LoopLeavesRows
    <3>2. at[t] \in PastLoop => RowsUpTo(Len(SeedUsers) + 1)
      BY DEF LoopLeavesRows
    <3>3. pos'[t] = pos[t] /\ at'[t] = at[t]
      BY <1>1, <2>2
    <3> QED
      BY <3>1, <3>2, <3>3, SeedUserRow DEF Grows, RowsUpTo
  <2> QED
    BY <2>1, <2>2
<1>3. MadeHaveAccounts'
  <2> SUFFICES ASSUME NEW t \in Runs, NEW v \in Users, <<t, v>> \in made'
               PROVE  \/ HasAccount(v)'
                      \/ at'[t] = "broken"
                      \/ at'[t] = "insertAccount" /\ SeedUser(t)' = v
    BY DEF MadeHaveAccounts
  <2>1. CASE t = s /\ v = SeedUser(s) /\ step = "insertAccount" /\ i = pos[s]
    BY <1>1, <2>1 DEF SeedUser
  <2>2. CASE HasAccount(v)
    BY <2>2 DEF Grows
  <2>3. CASE at[t] = "broken"
    BY <1>1, <2>3
  <2>4. CASE at[t] = "insertAccount" /\ SeedUser(t) = v /\ t # s
    BY <1>1, <2>4
  <2>5. CASE at[t] = "insertAccount" /\ SeedUser(t) = v /\ t = s
    BY <1>1, <2>5
  <2> QED
    BY <2>1, <2>2, <2>3, <2>4, <2>5 DEF MadeHaveAccounts
<1>4. StaffInOrder'
  <2> SUFFICES ASSUME NEW t \in Runs, at'[t] = "staff"
               PROVE  OwnerEnrolled(t)' /\ StaffEnrolled(t, pos[t])'
    BY DEF StaffInOrder
  <2>1. CASE t = s
    BY <1>1, <2>1 DEF StaffEnrolled
  <2>2. CASE t # s
    <3>1. at[t] = "staff" /\ pos'[t] = pos[t]
      BY <1>1, <2>2
    <3>2. OwnerEnrolled(t) /\ StaffEnrolled(t, pos[t])
      BY <3>1 DEF StaffInOrder
    <3> QED
      BY <2>2, <3>1, <3>2, EnrolmentKept DEF StaffEnrolled
  <2> QED
    BY <2>1, <2>2
<1>5. FoundersEnrol'
  <2> SUFFICES ASSUME NEW t \in Runs, t \in founded' PROVE Founder(t)'
    BY DEF FoundersEnrol, Founder, Enrolled, OwnerEnrolled, StaffEnrolled
  <2>1. CASE t = s
    BY <2>1
  <2>2. CASE t # s
    BY <1>1, <2>2, FounderKept DEF FoundersEnrol
  <2> QED
    BY <2>1, <2>2
<1>6. OrgWasFounded'
  BY <1>1 DEF OrgWasFounded, Grows
<1> QED
  BY <1>2, <1>3, <1>4, <1>5, <1>6

(* The seed users so far have rows, and the run goes to the next.          *)
LEMMA NextUserRows ==
  ASSUME SeedTypeOK, NEW s \in Runs, pos[s] \in 1..Len(SeedUsers), NextUser(s),
         RowsUpTo(pos[s]), user[SeedUser(s)] # NoRow
  PROVE  \/ Goto(s, "org", 1) /\ RowsUpTo(Len(SeedUsers) + 1)
         \/ \E i \in Nat \ {0} : Goto(s, "user", i) /\ RowsUpTo(i)
<1>1. Len(SeedUsers) \in Nat
  BY SeedAssumption
<1>2. RowsUpTo(pos[s] + 1)
  <2> SUFFICES ASSUME NEW i \in 1..Len(SeedUsers), i < pos[s] + 1
               PROVE  user[SeedUsers[i]] # NoRow
    BY DEF RowsUpTo
  <2>1. CASE i = pos[s]
    BY <2>1 DEF SeedUser
  <2>2. CASE i # pos[s]
    <3>1. i < pos[s]
      BY <1>1, <2>2
    <3> QED
      BY <3>1 DEF RowsUpTo
  <2> QED
    BY <2>1, <2>2
<1>3. CASE pos[s] >= Len(SeedUsers)
  <2>1. pos[s] = Len(SeedUsers)
    BY <1>1, <1>3
  <2> QED
    BY <1>2, <1>3, <2>1 DEF NextUser
<1>4. CASE ~(pos[s] >= Len(SeedUsers))
  <2>1. pos[s] + 1 \in Nat \ {0}
    BY <1>1
  <2> QED
    BY <1>2, <1>4, <2>1 DEF NextUser
<1> QED
  BY <1>3, <1>4

(* A run in its loop, or about to insert the organisation, has founded none. *)
LEMMA NotFounder ==
  ASSUME SeedInv, NEW s \in Runs, at[s] \in InLoop \cup {"org", "insertOrg"}
  PROVE  s \notin founded
BY DEF SeedInv, FoundersEnrol, Founder, InLoop

(* A run that stays in its loop or leaves it.                              *)
LEMMA LoopGoes ==
  ASSUME IInv, SeedInv, Grows, NEW s \in Runs, at[s] \in InLoop,
         NEW step \in {"user", "insertUser", "insertAccount", "org", "refused"}, NEW i \in Nat \ {0},
         Goto(s, step, i), UNCHANGED <<org, founded>>,
         \A t \in Runs : t # s => adminUser'[t] = adminUser[t],
         \A t \in Runs, v \in Users : <<t, v>> \in made' =>
           \/ <<t, v>> \in made
           \/ t = s /\ v = SeedUser(s) /\ step = "insertAccount" /\ i = pos[s],
         step \in InLoop => RowsUpTo(i)',
         step = "org" => RowsUpTo(Len(SeedUsers) + 1)',
         at[s] = "insertAccount" => \A v \in Users : v = SeedUser(s) => HasAccount(v)'
  PROVE  SeedInv'
<1>1. s \notin founded
  BY NotFounder
<1>2. step \in {"new"} \cup Working \cup Ended /\ (step \in PastLoop => step = "org")
  BY DEF Working, Ended, PastLoop
<1>3. org' # NoRow => org' \in founded'
  BY DEF SeedInv, OrgWasFounded
<1>4. at[s] # "broken"
  BY DEF InLoop
<1> QED
  BY <1>1, <1>2, <1>3, <1>4, RunGoes DEF IInv

LEMMA FindUserSeeds ==
  ASSUME IInv, SeedInv, Grows, NEW s \in Runs, FindUser(s)
  PROVE  SeedInv'
<1> USE DEF IInv
<1>1. /\ SeedTypeOK /\ pos[s] \in 1..Len(SeedUsers) /\ pos[s] \in Nat \ {0}
      /\ at[s] \in {"new", "user"} /\ UNCHANGED <<user, org, founded, made>>
      /\ at[s] \in InLoop /\ at[s] # "insertAccount"
  BY DEF TypeOK, SeedTypeOK, FindUser, AccInv, LoopInRange, InLoop, tables
<1>2. RowsUpTo(pos[s])
  BY <1>1 DEF SeedInv, LoopLeavesRows
<1>3. \A t \in Runs : t # s => adminUser'[t] = adminUser[t]
  BY <1>1, SeedUserTyped, PushTyped DEF FindUser
<1>4. ASSUME NEW step \in {"insertUser", "user"}, NEW i \in Nat \ {0}, Goto(s, step, i), RowsUpTo(i)
      PROVE  SeedInv'
  <2>1. RowsUpTo(i)'
    BY <1>4, RowsKept
  <2> QED
    BY <1>1, <1>3, <1>4, <2>1, LoopGoes
<1>5. ASSUME Goto(s, "org", 1), RowsUpTo(Len(SeedUsers) + 1)
      PROVE  SeedInv'
  <2>1. RowsUpTo(Len(SeedUsers) + 1)'
    BY <1>5, RowsKept
  <2> QED
    BY <1>1, <1>3, <1>5, <2>1, LoopGoes DEF InLoop
<1> QED
  BY <1>1, <1>2, <1>4, <1>5, NextUserRows DEF FindUser

LEMMA InsertUserSeeds ==
  ASSUME IInv, SeedInv, Grows, NEW s \in Runs, InsertUser(s)
  PROVE  SeedInv'
<1> USE DEF IInv
<1>1. /\ SeedTypeOK /\ pos[s] \in Nat \ {0} /\ at[s] = "insertUser" /\ at[s] \in InLoop
      /\ UNCHANGED <<org, founded, adminUser>>
  BY DEF TypeOK, SeedTypeOK, InsertUser, InLoop
<1>2. ASSUME NEW n, n = pos[s] PROVE RowsUpTo(n)'
  <2>1. RowsUpTo(n)
    BY <1>1, <1>2 DEF SeedInv, LoopLeavesRows
  <2> QED
    BY <2>1, RowsKept
<1>3. CASE /\ made' = made \cup {<<s, SeedUser(s)>>}
           /\ Goto(s, "insertAccount", pos[s])
  <2> SUFFICES ASSUME NEW n, n = pos[s] PROVE SeedInv'
    OBVIOUS
  <2>1. n \in Nat \ {0} /\ RowsUpTo(n)' /\ Goto(s, "insertAccount", n)
    BY <1>1, <1>2, <1>3
  <2> QED
    BY <1>1, <1>3, <2>1, LoopGoes
<1>4. CASE Goto(s, "refused", 1) /\ UNCHANGED made
  BY <1>1, <1>4, LoopGoes DEF InLoop
<1> QED
  BY <1>3, <1>4 DEF InsertUser

LEMMA InsertAccountSeeds ==
  ASSUME IInv, SeedInv, Grows, NEW s \in Runs, InsertAccount(s)
  PROVE  SeedInv'
<1> USE DEF IInv
<1>1. /\ SeedTypeOK /\ pos[s] \in 1..Len(SeedUsers) /\ at[s] = "insertAccount" /\ at[s] \in InLoop
      /\ UNCHANGED <<user, org, founded, made>> /\ user[SeedUser(s)] # NoRow
  BY DEF TypeOK, InsertAccount, AccInv, LoopInRange, OwnsItsUser, InLoop
<1>2. RowsUpTo(pos[s])
  BY <1>1 DEF SeedInv, LoopLeavesRows
<1>3. \A t \in Runs : t # s => adminUser'[t] = adminUser[t]
  BY <1>1, SeedUserTyped, PushTyped DEF InsertAccount
<1>4. ASSUME NEW u \in Users, u = SeedUser(s) PROVE HasAccount(u)'
  <2>1. s \in Writers
    BY DEF Writers
  <2>2. AccountRows' = AccountRows \cup {CredentialOf(u, s)}
    BY <1>4, <2>1, HashTyped, CredentialTyped, SeedAssumption, NewAccount DEF InsertAccount
  <2>3. CredentialOf(u, s) \in AccountRows' /\ CredentialOf(u, s).user = u
    BY <2>1, <2>2, CredentialTyped
  <2> QED
    BY <2>3 DEF HasAccount, AccountsOf
<1>5. ASSUME NEW i \in Nat \ {0}, Goto(s, "user", i), RowsUpTo(i)
      PROVE  SeedInv'
  <2>1. RowsUpTo(i)'
    BY <1>5, RowsKept
  <2> QED
    BY <1>1, <1>3, <1>4, <1>5, <2>1, LoopGoes
<1>6. ASSUME Goto(s, "org", 1), RowsUpTo(Len(SeedUsers) + 1)
      PROVE  SeedInv'
  <2>1. RowsUpTo(Len(SeedUsers) + 1)'
    BY <1>6, RowsKept
  <2> QED
    BY <1>1, <1>3, <1>4, <1>6, <2>1, LoopGoes DEF InLoop
<1> QED
  BY <1>1, <1>2, <1>5, <1>6, NextUserRows DEF InsertAccount

(* Past the loop the tables of users and accounts are left alone.          *)
LEMMA EnrolmentGoes ==
  ASSUME IInv, SeedInv, Grows, NEW s \in Runs, UNCHANGED <<user, adminUser, made>>,
         at[s] \in PastLoop \ {"done"},
         NEW step \in PastLoop \cup {"refused"}, NEW i \in Nat \ {0}, Goto(s, step, i),
         step = "staff" => OwnerEnrolled(s)' /\ StaffEnrolled(s, i)',
         s \in founded' => Founder(s)',
         founded' \subseteq founded \cup {s},
         step \in {"owner", "staff"} => s \in founded',
         org' # NoRow => org' \in founded',
         step = "done" => founded' # {}
  PROVE  SeedInv'
<1>1. RowsUpTo(Len(SeedUsers) + 1)'
  BY RowsKept DEF SeedInv, LoopLeavesRows
<1>2. step \in {"new"} \cup Working \cup Ended /\ step \notin InLoop
  BY DEF PastLoop, Working, Ended, InLoop
<1>3. at[s] # "broken" /\ at[s] # "insertAccount"
  BY DEF PastLoop
<1> QED
  BY <1>1, <1>2, <1>3, RunGoes DEF IInv

LEMMA OrgSeeds ==
  ASSUME IInv, SeedInv, Grows, NEW s \in Runs, FindOrg(s) \/ InsertOrg(s)
  PROVE  SeedInv'
<1>1. UNCHANGED <<user, adminUser, made>> /\ at[s] \in {"org", "insertOrg"}
  BY DEF FindOrg, InsertOrg, tables
<1>2. s \notin founded
  BY <1>1, NotFounder
<1>3. at[s] \in PastLoop \ {"done"}
  BY <1>1 DEF PastLoop
<1>4. {"insertOrg", "done", "owner"} \subseteq PastLoop
  BY DEF PastLoop
<1>5. org # NoRow => org \in founded
  BY DEF SeedInv, OrgWasFounded
<1>6. CASE FindOrg(s)
  <2>1. UNCHANGED <<org, founded>>
    BY <1>6 DEF FindOrg, tables
  <2>2. CASE org = NoRow
    <3>1. Goto(s, "insertOrg", 1)
      BY <1>6, <2>2 DEF FindOrg
    <3> QED
      BY <1>1, <1>2, <1>3, <1>4, <1>5, <2>1, <3>1, EnrolmentGoes
  <2>3. CASE org # NoRow
    <3>1. Goto(s, "done", 1)
      BY <1>6, <2>3 DEF FindOrg
    <3> QED
      BY <1>1, <1>2, <1>3, <1>4, <1>5, <2>1, <2>3, <3>1, EnrolmentGoes
  <2> QED
    BY <2>2, <2>3
<1>7. CASE org' = s /\ founded' = founded \cup {s} /\ Goto(s, "owner", 1)
  <2>1. at'[s] = "owner"
    BY <1>7, GotoTyped DEF IInv, TypeOK, Working
  <2>2. Founder(s)'
    BY <2>1 DEF Founder
  <2> QED
    BY <1>1, <1>3, <1>4, <1>7, <2>2, EnrolmentGoes
<1>8. CASE Goto(s, "refused", 1) /\ UNCHANGED <<org, founded>>
  BY <1>1, <1>2, <1>3, <1>5, <1>8, EnrolmentGoes
<1> QED
  BY <1>6, <1>7, <1>8 DEF InsertOrg

LEMMA Breaks ==
  ASSUME IInv, SeedInv, Grows, NEW s \in Runs, at[s] # "broken",
         UNCHANGED <<user, org, founded, adminUser, made>>, Goto(s, "broken", 1)
  PROVE  SeedInv'
<1>1. "broken" \in {"new"} \cup Working \cup Ended /\ "broken" \notin InLoop /\ "broken" \notin PastLoop
  BY DEF Ended, InLoop, PastLoop
<1>2. at'[s] = "broken"
  BY <1>1, GotoTyped DEF IInv, TypeOK
<1>3. Founder(s)'
  BY <1>2 DEF Founder
<1>4. org' # NoRow => org' \in founded'
  BY DEF SeedInv, OrgWasFounded
<1> QED
  BY <1>1, <1>3, <1>4, RunGoes DEF IInv

LEMMA MemberSeeds ==
  ASSUME IInv, SeedInv, Grows, NEW s \in Runs, InsertOwner(s) \/ InsertStaff(s)
  PROVE  SeedInv'
<1>1. /\ at[s] \in {"owner", "staff"} /\ UNCHANGED <<user, org, founded, adminUser, made>>
      /\ s \in founded /\ pos[s] \in Nat \ {0} /\ Len(Staff) \in Nat
  <2>1. at[s] \in {"owner", "staff"} /\ UNCHANGED <<user, org, founded, adminUser, made>>
    BY DEF InsertOwner, InsertStaff, InsertMember, tables
  <2> QED
    BY <2>1, SeedAssumption DEF SeedInv, OrgWasFounded, IInv, TypeOK, SeedTypeOK
<1>2. at[s] \in PastLoop \ {"done"} /\ {"staff", "done"} \subseteq PastLoop
  BY <1>1 DEF PastLoop
<1>3. org' # NoRow => org' \in founded'
  BY <1>1 DEF SeedInv, OrgWasFounded
<1>4. CASE Goto(s, "broken", 1)
  BY <1>1, <1>4, Breaks
<1>5. ASSUME NEW i \in Nat \ {0}, Goto(s, "staff", i), OwnerEnrolled(s)' /\ StaffEnrolled(s, i)'
      PROVE  SeedInv'
  <2>1. at'[s] = "staff"
    BY <1>5, GotoTyped DEF IInv, TypeOK, Working
  <2>2. Founder(s)'
    BY <2>1 DEF Founder
  <2> QED
    BY <1>1, <1>2, <1>3, <1>5, <2>2, EnrolmentGoes
<1>6. CASE InsertOwner(s) /\ ~Goto(s, "broken", 1)
  <2>1. Goto(s, "staff", 1)
    BY <1>6 DEF InsertOwner, InsertMember
  <2>2. OwnerEnrolled(s)'
    BY <1>1, <1>6 DEF InsertOwner, InsertMember, OwnerEnrolled, Row
  <2>3. StaffEnrolled(s, 1)'
    BY <1>1 DEF StaffEnrolled
  <2> QED
    BY <1>5, <2>1, <2>2, <2>3
<1>7. CASE InsertStaff(s)
  <2>1. OwnerEnrolled(s) /\ StaffEnrolled(s, pos[s]) /\ at[s] = "staff"
    BY <1>7 DEF InsertStaff, SeedInv, StaffInOrder
  <2>2. OwnerEnrolled(s)' /\ \A n : StaffEnrolled(s, n) => StaffEnrolled(s, n)'
    BY <1>1, <2>1, EnrolmentKept
  <2>3. CASE /\ pos[s] <= Len(Staff)
             /\ seeded' = seeded \cup {Row(s, Staff[pos[s]])}
             /\ Goto(s, "staff", pos[s] + 1)
    <3> SUFFICES ASSUME NEW n, n = pos[s] + 1 PROVE SeedInv'
      OBVIOUS
    <3>1. n \in Nat \ {0}
      BY <1>1
    <3>2. \A i \in 1..Len(Staff) : i < n => i < pos[s] \/ i = pos[s]
      BY <1>1
    <3>3. \A i \in 1..Len(Staff) : i < n => Row(s, Staff[i]) \in seeded'
      BY <2>1, <2>3, <3>2 DEF StaffEnrolled
    <3>4. StaffEnrolled(s, n)'
      BY <3>3 DEF StaffEnrolled, Row
    <3>5. Goto(s, "staff", n)
      BY <2>3
    <3> QED
      BY <1>5, <2>2, <3>1, <3>4, <3>5
  <2>4. CASE pos[s] > Len(Staff) /\ Goto(s, "done", 1) /\ UNCHANGED seeded
    <3>1. at'[s] = "done"
      BY <2>4, GotoTyped DEF IInv, TypeOK, Ended
    <3>2. \A i \in 1..Len(Staff) : i < pos[s]
      BY <1>1, <2>4
    <3>3. StaffEnrolled(s, Len(Staff) + 1)
      BY <2>1, <3>2 DEF StaffEnrolled
    <3>4. Enrolled(s)'
      BY <2>2, <3>3 DEF Enrolled
    <3>5. Founder(s)'
      BY <3>1, <3>4 DEF Founder
    <3> QED
      BY <1>1, <1>2, <1>3, <2>4, <3>5, EnrolmentGoes
  <2> QED
    BY <1>4, <1>7, <2>3, <2>4 DEF InsertStaff, InsertMember, Row
<1> QED
  BY <1>4, <1>6, <1>7

(* Steps of others: users and accounts come, and an organisation comes or  *)
(* goes, of which no run is the founder.                                   *)
LEMMA OthersSeed ==
  ASSUME SeedInv, Grows, UNCHANGED seedVars,
         founded' \cap Runs \subseteq founded,
         org' # NoRow => org' \in founded'
  PROVE  SeedInv'
<1> USE DEF SeedInv
<1>1. UNCHANGED <<at, pos, adminUser, made, seeded>>
  BY DEF seedVars
<1>2. LoopLeavesRows'
  <2> SUFFICES ASSUME NEW t \in Runs
               PROVE  /\ at'[t] \in InLoop => RowsUpTo(pos[t])'
                      /\ at'[t] \in PastLoop => RowsUpTo(Len(SeedUsers) + 1)'
    BY DEF LoopLeavesRows
  <2>1. /\ at[t] \in InLoop => RowsUpTo(pos[t])
        /\ at[t] \in PastLoop => RowsUpTo(Len(SeedUsers) + 1)
    BY DEF LoopLeavesRows
  <2> QED
    BY <1>1, <2>1, SeedUserRow DEF Grows, RowsUpTo
<1>3. MadeHaveAccounts'
  <2> SUFFICES ASSUME NEW t \in Runs, NEW v \in Users, <<t, v>> \in made'
               PROVE  \/ HasAccount(v)'
                      \/ at'[t] = "broken"
                      \/ at'[t] = "insertAccount" /\ SeedUser(t)' = v
    BY DEF MadeHaveAccounts
  <2>1. SeedUser(t)' = SeedUser(t)
    BY <1>1 DEF SeedUser
  <2> QED
    BY <1>1, <2>1 DEF MadeHaveAccounts, Grows
<1>4. StaffInOrder'
  <2> SUFFICES ASSUME NEW t \in Runs, at'[t] = "staff"
               PROVE  OwnerEnrolled(t)' /\ StaffEnrolled(t, pos[t])'
    BY DEF StaffInOrder
  <2>1. OwnerEnrolled(t) /\ StaffEnrolled(t, pos[t])
    BY <1>1 DEF StaffInOrder
  <2> QED
    BY <1>1, <2>1, EnrolmentKept DEF StaffEnrolled
<1>5. FoundersEnrol'
  <2> SUFFICES ASSUME NEW t \in Runs, t \in founded' PROVE Founder(t)'
    BY DEF FoundersEnrol, Founder, Enrolled, OwnerEnrolled, StaffEnrolled
  <2> QED
    BY <1>1, FounderKept DEF FoundersEnrol
<1>6. OrgWasFounded'
  BY <1>1 DEF OrgWasFounded, Grows
<1> QED
  BY <1>2, <1>3, <1>4, <1>5, <1>6

-----------------------------------------------------------------------------
LEMMA RowsStay ==
  ASSUME AccountRows \subseteq AccountRows'
  PROVE  \A u \in Users : HasAccount(u) => HasAccount(u)'
BY DEF HasAccount, AccountsOf

LEMMA StepGrows ==
  ASSUME IInv, Next
  PROVE  Grows
<1> USE DEF IInv
<1>1. ASSUME UNCHANGED <<user, account, seeded, founded>> PROVE Grows
  BY <1>1, RowsStay DEF Grows, AccountRows
<1>2. ASSUME NEW s \in Runs, InsertUser(s) PROVE Grows
  <2>1. \A u \in Users : user[u] # NoRow => user'[u] # NoRow
    BY <1>2 DEF InsertUser, TypeOK, TablesTypeOK
  <2>2. AccountRows' = AccountRows
    BY <1>2 DEF InsertUser, AccountRows
  <2> QED
    BY <1>2, <2>1, <2>2, RowsStay DEF InsertUser, Grows
<1>3. ASSUME NEW b \in AccountIds, NEW h \in Hashes \cup {NoPassword},
             account' = [account EXCEPT ![b] = h], UNCHANGED <<user, seeded, founded>>
      PROVE  Grows
  BY <1>3, NewAccount, RowsStay DEF Grows
<1>4. ASSUME NEW A \in SUBSET AccountRows, NEW h \in Hashes,
             account' = [a \in AccountIds |-> IF a \in A THEN h ELSE account[a]],
             UNCHANGED <<user, seeded, founded>>
      PROVE  Grows
  <2>1. h # NoRow
    BY TableAssumption
  <2>2. AccountRows' = AccountRows
    BY <1>4, <2>1 DEF AccountRows
  <2> QED
    BY <1>4, <2>2, RowsStay DEF Grows
<1>5. CASE SeedNext
  <2>1. ASSUME NEW s \in Runs, InsertAccount(s) PROVE Grows
    <3>1. SeedUser(s) \in Users /\ s \in Writers
      BY <2>1, SeedUserTyped DEF InsertAccount, AccInv, LoopInRange, InLoop, Writers
    <3> DEFINE b == CredentialOf(SeedUser(s), s)
    <3>2. b \in AccountIds /\ account' = [account EXCEPT ![b] = Bcrypt(SeedPassword)]
      BY <2>1, <3>1, CredentialTyped DEF InsertAccount
    <3>3. AccountRows' = AccountRows \cup {b}
      BY <3>2, HashTyped, SeedAssumption, NewAccount
    <3> QED
      BY <2>1, <3>3, RowsStay DEF InsertAccount, Grows
  <2>2. ASSUME NEW s \in Runs, Enrols(s) PROVE Grows
    <3>1. UNCHANGED <<user, account>> /\ seeded \subseteq seeded' /\ founded \subseteq founded'
      BY <2>2, EnrolGoes
    <3> QED
      BY <3>1, RowsStay DEF Grows, AccountRows
  <2> QED
    BY <1>1, <1>2, <1>5, <2>1, <2>2 DEF SeedNext, Enrols, FindUser, tables
<1>6. CASE AuthRest /\ UNCHANGED seedVars
  <2>1. ASSUME NEW c \in Changes, NEW h \in Hashes, changing[c] \in {"update", "rewrite"}, Overwrite(c, h),
               UNCHANGED seedVars
        PROVE  Grows
    <3>1. Updated(c) \in SUBSET AccountRows
      BY <2>1 DEF AccInv, FoundWasKnown, Updated
    <3>2. account' = [a \in AccountIds |-> IF a \in Updated(c) THEN h ELSE account[a]]
          /\ UNCHANGED <<user, seeded, founded>>
      BY <2>1 DEF Overwrite, seedVars
    <3> QED
      BY <1>4, <3>1, <3>2
  <2>2. ASSUME NEW u \in Users, AddAccount(u), UNCHANGED seedVars PROVE Grows
    <3>1. UNCHANGED <<user, seeded, founded>>
      BY <2>2 DEF AddAccount, seedVars
    <3>2. ASSUME NEW p \in Passwords, account' = [account EXCEPT ![CredentialOf(u, "api")] = Scrypt(p)]
          PROVE  Grows
      BY <1>3, <3>1, <3>2, HashTyped, CredentialTyped DEF Writers
    <3>3. CASE account' = [account EXCEPT ![GoogleOf(u)] = NoPassword]
      BY <1>3, <3>1, <3>3, GoogleTyped
    <3> QED
      BY <2>2, <3>2, <3>3 DEF AddAccount
  <2> QED
    BY <1>6, <2>1, <2>2, HashTyped DEF AuthRest, MakeChange, UpdatePassword, RewritePassword
<1>7. CASE AuthNext /\ UNCHANGED seedVars
  <2>1. ASSUME NEW u \in Users, SignUp(u), UNCHANGED seeded PROVE Grows
    <3>1. \A v \in Users : user[v] # NoRow => user'[v] # NoRow
      BY <2>1 DEF SignUp, TypeOK, TablesTypeOK
    <3>2. AccountRows' = AccountRows
      BY <2>1 DEF SignUp, AccountRows
    <3> QED
      BY <2>1, <3>1, <3>2, RowsStay DEF SignUp, Grows
  <2>2. ASSUME NEW u \in Users, LinkGoogle(u), UNCHANGED seeded PROVE Grows
    BY <1>3, <2>2, GoogleTyped DEF LinkGoogle
  <2>3. ASSUME NEW u \in Users, ResetPassword(u), UNCHANGED seeded PROVE Grows
    <3>1. UNCHANGED <<user, seeded, founded>>
      BY <2>3 DEF ResetPassword
    <3>2. ASSUME NEW p \in Passwords, account' = [account EXCEPT ![CredentialOf(u, "reset")] = Scrypt(p)]
          PROVE  Grows
      BY <1>3, <3>1, <3>2, HashTyped, CredentialTyped DEF Writers
    <3>3. ASSUME NEW p \in Passwords,
                 account' = [a \in AccountIds |-> IF a \in CredentialsOf(u) THEN Scrypt(p) ELSE account[a]]
          PROVE  Grows
      <4>1. CredentialsOf(u) \in SUBSET AccountRows
        BY DEF CredentialsOf, AccountsOf
      <4> QED
        BY <1>4, <3>1, <3>3, <4>1, HashTyped
    <3> QED
      BY <2>3, <3>2, <3>3 DEF ResetPassword
  <2>4. ASSUME NEW b \in AccountIds, UnlinkAccount(b), UNCHANGED seeded PROVE Grows
    <3>1. UNCHANGED <<user, seeded, founded>> /\ AccountsOf(b.user) # {b} /\ b \in AccountRows
      BY <2>4 DEF UnlinkAccount
    <3>2. AccountRows' = AccountRows \ {b}
      BY <2>4 DEF UnlinkAccount, AccountRows, TypeOK, TablesTypeOK
    <3>3. ASSUME NEW u \in Users, HasAccount(u) PROVE HasAccount(u)'
      <4>1. CASE u = b.user
        <5>1. PICK d \in AccountsOf(u) : d # b
          BY <3>1, <4>1 DEF AccountsOf
        <5> QED
          BY <3>2, <5>1 DEF HasAccount, AccountsOf
      <4>2. CASE u # b.user
        BY <3>2, <3>3, <4>2 DEF HasAccount, AccountsOf
      <4> QED
        BY <4>1, <4>2
    <3> QED
      BY <3>1, <3>3 DEF Grows
  <2> QED
    BY <1>1, <1>7, <2>1, <2>2, <2>3, <2>4
    DEF AuthNext, AskChange, FindAccount, FindCredential, ForgetPassword, tables, seedVars
<1>8. CASE (OrgNext \/ OrgRest) /\ UNCHANGED seedVars
  <2>1. UNCHANGED <<user, account, seeded>> /\ founded \subseteq founded'
    BY <1>8
    DEF OrgNext, OrgRest, ReadOrg, ReadMember, Decide, tables, CreateOrganization, Invite, ChangeMember,
        DeleteOrganization, seedVars
  <2> QED
    BY <2>1, RowsStay DEF Grows, AccountRows
<1>9. ASSUME NEW u \in Users, UpdateRole(u), UNCHANGED seedVars PROVE Grows
  <2>1. \A v \in Users : user[v] # NoRow => user'[v] # NoRow
    BY <1>9, TableAssumption DEF UpdateRole, TypeOK, TablesTypeOK
  <2>2. AccountRows' = AccountRows
    BY <1>9 DEF UpdateRole, AccountRows
  <2> QED
    BY <1>9, <2>1, <2>2, RowsStay DEF UpdateRole, Grows, seedVars
<1> QED
  BY <1>5, <1>6, <1>7, <1>8, <1>9 DEF Next

LEMMA StepSeeds ==
  ASSUME IInv, SeedInv, Next
  PROVE  SeedInv'
<1>1. Grows
  BY StepGrows
<1>2. CASE SeedNext
  <2>1. ASSUME NEW s \in Runs, Kill(s) PROVE SeedInv'
    BY <1>1, <2>1, Breaks DEF Kill, Working, tables
  <2> QED
    BY <1>1, <1>2, <2>1, FindUserSeeds, InsertUserSeeds, InsertAccountSeeds, OrgSeeds, MemberSeeds
    DEF SeedNext
<1>3. org # NoRow => org \in founded
  BY DEF SeedInv, OrgWasFounded
<1>4. ASSUME UNCHANGED <<seedVars, founded>>, org' \in {org, NoRow} PROVE SeedInv'
  BY <1>1, <1>3, <1>4, OthersSeed
<1>5. ASSUME NEW u \in Users, CreateOrganization(u), UNCHANGED seedVars PROVE SeedInv'
  BY <1>1, <1>5, OthersSeed, TableAssumption DEF CreateOrganization
<1>6. CASE (AuthRest \/ AuthNext) /\ UNCHANGED seedVars
  <2>1. UNCHANGED <<org, founded>>
    BY <1>6
    DEF AuthRest, AddAccount, MakeChange, UpdatePassword, RewritePassword, Overwrite, AuthNext, SignUp,
        LinkGoogle, ForgetPassword, ResetPassword, UnlinkAccount, AskChange, FindAccount, FindCredential,
        tables
  <2> QED
    BY <1>4, <1>6, <2>1
<1>7. CASE (OrgNext \/ OrgRest \/ \E u \in Users : UpdateRole(u)) /\ UNCHANGED seedVars
  BY <1>4, <1>5, <1>7
  DEF OrgNext, OrgRest, ReadOrg, ReadMember, Decide, tables, Invite, ChangeMember, DeleteOrganization,
      UpdateRole
<1> QED
  BY <1>2, <1>6, <1>7 DEF Next

LEMMA InitSeeds == Init => SeedInv
<1> SUFFICES ASSUME Init PROVE SeedInv
  OBVIOUS
<1>1. /\ org = NoRow /\ made = {} /\ founded = {}
      /\ \A s \in Runs : at[s] = "new" /\ pos[s] = 1
  BY DEF Init, TablesInit, SeedInit
<1>2. LoopLeavesRows
  BY <1>1, SeedAssumption DEF LoopLeavesRows, RowsUpTo, PastLoop
<1>3. MadeHaveAccounts
  BY <1>1 DEF MadeHaveAccounts
<1>4. StaffInOrder /\ FoundersEnrol /\ OrgWasFounded
  BY <1>1 DEF StaffInOrder, FoundersEnrol, OrgWasFounded
<1> QED
  BY <1>2, <1>3, <1>4 DEF SeedInv

(* Whatever runs of the seed overlap and die, sign-ups without a password,  *)
(* unlinked accounts and deleted organisations included: once a run has     *)
(* said "Seed complete", every seed user is there, and has an account       *)
(* unless it signed up by itself or its run did not come to the account;    *)
(* and every run that founded the organisation has enrolled its             *)
(* administrator and the whole staff, is at it, or was broken.              *)
THEOREM SeedIsComplete == Spec => []SeedCompletes
<1>1. IInv /\ SeedInv => SeedCompletes
  <2> SUFFICES ASSUME IInv, SeedInv, NEW d \in Runs, at[d] = "done"
               PROVE  /\ \A i \in 1..Len(SeedUsers) :
                           /\ user[SeedUsers[i]] # NoRow
                           /\ \/ AccountsOf(SeedUsers[i]) # {}
                              \/ \A s \in Runs : <<s, SeedUsers[i]>> \notin made
                              \/ \E s \in Runs :
                                   /\ <<s, SeedUsers[i]>> \in made
                                   /\ \/ at[s] = "broken"
                                      \/ at[s] = "insertAccount" /\ SeedUser(s) = SeedUsers[i]
                      /\ founded # {}
                      /\ \A s \in founded \cap Runs :
                           at[s] \in {"owner", "staff", "broken"} \/ Enrolled(s)
    <3>1. \A i \in 1..Len(Staff) : i < Len(Staff) + 1
      BY SeedAssumption
    <3>2. \A s \in Runs : Enrolled(s) =>
            \A u \in ({adminUser[s]} \ {NoRow}) \cup {Staff[i] : i \in 1..Len(Staff)} :
              Row(s, u) \in seeded
      BY <3>1 DEF Enrolled, OwnerEnrolled, StaffEnrolled
    <3> QED
      BY <3>2 DEF SeedCompletes, Row
  <2>1. RowsUpTo(Len(SeedUsers) + 1)
    BY DEF SeedInv, LoopLeavesRows, PastLoop
  <2>2. \A i \in 1..Len(SeedUsers) : user[SeedUsers[i]] # NoRow /\ SeedUsers[i] \in Users
    BY <2>1, SeedAssumption DEF RowsUpTo
  <2>3. founded # {}
    BY DEF SeedInv, OrgWasFounded
  <2>4. \A s \in founded \cap Runs : at[s] \in {"owner", "staff", "broken"} \/ Enrolled(s)
    BY DEF SeedInv, FoundersEnrol, Founder
  <2> QED
    BY <2>2, <2>3, <2>4 DEF SeedInv, MadeHaveAccounts, HasAccount
<1>2. Init => SeedInv
  BY InitSeeds
<1>3. IInv /\ SeedInv /\ [Next]_vars => SeedInv'
  <2> SUFFICES ASSUME IInv, SeedInv, UNCHANGED vars PROVE SeedInv'
    BY StepSeeds
  <2>1. UNCHANGED <<user, account, org, founded, seedVars, seeded>>
    BY DEF vars, tables, seedVars
  <2>2. Grows
    BY <2>1, RowsStay DEF Grows, AccountRows
  <2>3. org # NoRow => org \in founded
    BY DEF SeedInv, OrgWasFounded
  <2> QED
    BY <2>1, <2>2, <2>3, OthersSeed
<1> QED
  BY <1>1, <1>2, <1>3, Inductive, PTL DEF Spec
=============================================================================
