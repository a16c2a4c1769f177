------------------------------ MODULE Accounts ------------------------------
(***************************************************************************)
(* The seed script, the password controller and the organisation guards at *)
(* work on the same tables, better-auth and the administrators beside them. *)
(***************************************************************************)
EXTENDS Seed, PasswordChange, OrgGuard

CONSTANT MaxCalls        \* bound: calls the API answers
ASSUME CallsAssumption == MaxCalls \in Nat

VARIABLE calls

vars == <<tables, seedVars, changeVars, guardVars, calls>>

TypeOK ==
  /\ TablesTypeOK /\ SeedTypeOK /\ ChangeTypeOK /\ GuardTypeOK
  /\ calls \in 0..MaxCalls

Init == TablesInit /\ SeedInit /\ ChangeInit /\ GuardInit /\ calls = 0

(* AdminController.updateUser, of which only the role matters here.        *)
UpdateRole(u) ==
  /\ user[u] # NoRow
  /\ \E role \in Roles \ {user[u]} : user' = [user EXCEPT ![u] = role]
  /\ UNCHANGED <<account, org, member, founded>>

(* A call is counted with its first statement.                             *)
Next ==
  \/ SeedNext /\ UNCHANGED <<changeVars, guardVars, calls>>
  \/ AuthRest /\ UNCHANGED <<seedVars, guardVars, calls>>
  \/ OrgRest /\ UNCHANGED <<seedVars, changeVars, calls>>
  \/ /\ calls < MaxCalls
     /\ calls' = calls + 1
     /\ \/ AuthNext /\ UNCHANGED <<seedVars, guardVars>>
        \/ OrgNext /\ UNCHANGED <<seedVars, changeVars>>
        \/ (\E u \in Users : UpdateRole(u)) /\ UNCHANGED <<seedVars, changeVars, guardVars>>

Spec == Init /\ [][Next]_vars
=============================================================================
