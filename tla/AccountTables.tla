--------------------------- MODULE AccountTables ---------------------------
(***************************************************************************)
(* The tables that the seed script, the password controller and the        *)
(* organisation guard share.  A row's id is a cuid that never repeats: it  *)
(* is named here by what the row is about and by who inserted it.  A table *)
(* is a function over the ids; NoRow says that there is none.              *)
(***************************************************************************)
EXTENDS Naturals, Sequences

CONSTANTS
  Users,      \* by email, which is unique
  Runs,       \* executions of scripts/seed.ts
  Passwords,
  NoPassword, \* the null of an OAuth account
  NoRow

(* The script, better-auth for a sign-up or a link, and better-auth for a  *)
(* reset of a user who had no password.                                    *)
Writers == Runs \cup {"api", "reset"}
OrgIds == Runs \cup {"api"}
Roles == {"admin", "user"}      \* user: every role but admin
OrgRoles == {"owner", "member"}
AccountIds == [user : Users, provider : {"credential"}, by : Writers]
              \cup [user : Users, provider : {"google"}, by : {"api"}]
Hashes == [password : Passwords, scheme : {"bcrypt", "scrypt"}]
Bcrypt(p) == [password |-> p, scheme |-> "bcrypt"]
Scrypt(p) == [password |-> p, scheme |-> "scrypt"]
MemberIds == [org : OrgIds, user : Users, by : {"seed", "api"}]

ASSUME TableAssumption ==
  /\ "api" \notin Runs /\ "reset" \notin Runs
  /\ NoPassword \notin Hashes
  /\ NoRow \notin Hashes \cup {NoPassword} \cup Roles \cup OrgRoles \cup OrgIds \cup AccountIds \cup Users

VARIABLES
  user,     \* users: the role of each row
  account,  \* accounts: the password column of each row
  org,      \* organizations: the row with the slug acme-corp
  member,   \* members: the role of each row
  founded   \* history: the organisations there have been

tables == <<user, account, org, member, founded>>

TablesTypeOK ==
  /\ user \in [Users -> Roles \cup {NoRow}]
  /\ account \in [AccountIds -> Hashes \cup {NoPassword, NoRow}]
  /\ org \in OrgIds \cup {NoRow}
  /\ member \in [MemberIds -> OrgRoles \cup {NoRow}]
  /\ founded \subseteq OrgIds

TablesInit ==
  /\ user = [u \in Users |-> NoRow]
  /\ account = [a \in AccountIds |-> NoRow]
  /\ org = NoRow
  /\ member = [m \in MemberIds |-> NoRow]
  /\ founded = {}

AccountRows == {a \in AccountIds : account[a] # NoRow}
AccountsOf(u) == {a \in AccountRows : a.user = u}
CredentialsOf(u) == {a \in AccountsOf(u) : a.provider = "credential"}
CredentialOf(u, writer) == [user |-> u, provider |-> "credential", by |-> writer]
MemberRows == {m \in MemberIds : member[m] # NoRow}
=============================================================================
