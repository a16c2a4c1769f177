------------------------------ MODULE OrgGuard ------------------------------
(***************************************************************************)
(* OrganizationGuard and OrgRolesGuard: the organisation of the            *)
(* X-Organization-Id header is read, then the membership, and the roles    *)
(* are compared with what was read.  better-auth's organisation plugin     *)
(* changes both tables meanwhile.                                          *)
(***************************************************************************)
EXTENDS AccountTables

CONSTANT OrgRequests   \* requests behind the two guards

VARIABLES
  guard,   \* what each request awaits, or its verdict
  asked    \* req.user.id, the header, and the roles of @OrgRoles, if any

guardVars == <<guard, asked>>

Asks == [user : Users, org : OrgIds, roles : {{}, {"owner"}}]

GuardTypeOK ==
  /\ guard \in [OrgRequests -> {"new", "member", "granted", "forbidden", "notFound"}]
  /\ asked \in [OrgRequests -> Asks \cup {NoRow}]

GuardInit ==
  /\ guard = [r \in OrgRequests |-> "new"]
  /\ asked = [r \in OrgRequests |-> NoRow]

Decide(r, verdict) ==
  /\ guard' = [guard EXCEPT ![r] = verdict]
  /\ asked' = [asked EXCEPT ![r] = NoRow]
  /\ UNCHANGED tables

(* A missing, empty or repeated header; an organisation that is not there; *)
(* one that is.                                                            *)
ReadOrg(r) ==
  /\ guard[r] = "new"
  /\ \/ Decide(r, "forbidden")
     \/ OrgIds \ {org} # {} /\ Decide(r, "notFound")
     \/ \E q \in {q \in Asks : q.org = org} :
          /\ guard' = [guard EXCEPT ![r] = "member"]
          /\ asked' = [asked EXCEPT ![r] = q]
          /\ UNCHANGED tables

(* The row is attached to the request, and OrgRolesGuard reads it there.   *)
RoleSuffices(q, role) == q.roles = {} \/ role \in q.roles

Membership(q) == {m \in MemberRows : m.org = q.org /\ m.user = q.user}

ReadMember(r) ==
  /\ guard[r] = "member"
  /\ \/ Membership(asked[r]) = {} /\ Decide(r, "forbidden")
     \/ \E m \in Membership(asked[r]) :
          Decide(r, IF RoleSuffices(asked[r], member[m]) THEN "granted" ELSE "forbidden")

(* better-auth: an organisation is created with its owner, an invitation   *)
(* is accepted, a role changed or a member removed, an organisation deleted. *)
(* One with the slug of the seed is created once at most (bound).          *)
CreateOrganization(u) ==
  LET m == [org |-> "api", user |-> u, by |-> "api"] IN
    /\ org = NoRow /\ user[u] # NoRow
    /\ "api" \notin founded
    /\ org' = "api" /\ founded' = founded \cup {"api"}
    /\ member' = [member EXCEPT ![m] = "owner"]
    /\ UNCHANGED <<user, account, guardVars>>

Invite(u) ==
  LET m == [org |-> org, user |-> u, by |-> "api"] IN
    /\ org # NoRow /\ user[u] # NoRow
    /\ Membership(m) = {}
    /\ member' = [member EXCEPT ![m] = "member"]
    /\ UNCHANGED <<user, account, org, founded, guardVars>>

ChangeMember(m) ==
  /\ m \in MemberRows
  /\ \E role \in (OrgRoles \cup {NoRow}) \ {member[m]} :
       member' = [member EXCEPT ![m] = role]
  /\ UNCHANGED <<user, account, org, founded, guardVars>>

(* ON DELETE CASCADE takes the members along. *)
Orphaned(m) == FALSE                  \* slip: members without the foreign key
Cascades(m) == m.org = org

DeleteOrganization ==
  /\ org # NoRow
  /\ org' = NoRow
  /\ member' = [m \in MemberIds |-> IF Cascades(m) THEN NoRow ELSE member[m]]
  /\ UNCHANGED <<user, account, founded, guardVars>>

OrgNext ==
  \/ \E u \in Users : CreateOrganization(u) \/ Invite(u)
  \/ \E m \in MemberIds : ChangeMember(m)
  \/ DeleteOrganization
  \/ \E r \in OrgRequests : ReadOrg(r)

OrgRest == \E r \in OrgRequests : ReadMember(r)

-----------------------------------------------------------------------------
(* "Resolves org, verifies membership": although these are two reads, what *)
(* lets a request through is true at one instant: its organisation exists, *)
(* and holds a membership of its user with a role the route asks for.      *)
GrantedMembersOnly ==
  [][\A r \in OrgRequests : guard'[r] = "granted" /\ guard[r] # "granted" =>
       /\ org = asked[r].org
       /\ \E m \in MemberRows :
            /\ m.org = org /\ m.user = asked[r].user
            /\ asked[r].roles = {} \/ member[m] \in asked[r].roles]_<<tables, guardVars>>
=============================================================================
