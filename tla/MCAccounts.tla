----------------------------- MODULE MCAccounts -----------------------------
(* Accounts with two seed users, an administrator and a member of staff.   *)
EXTENDS Accounts, TLC

CONSTANTS admin, alice, p1

MCSeedUsers == <<admin, alice>>
MCSeedRole == (admin :> "admin") @@ (alice :> "user")
MCStaff == <<alice>>
RunSymmetry == Permutations(Runs)

(* "Safe to run multiple times", read as a promise that a run repairs what *)
(* an earlier one left behind: when a run has reported "Seed complete" and *)
(* none is at work, every user inserted by the script has an account.  It  *)
(* fails for a run that died between scripts/seed.ts:80 and 92.            *)
RerunRepairs ==
  (\E s \in Runs : at[s] = "done") /\ (\A s \in Runs : at[s] \notin Working) =>
    \A s \in Runs, u \in Users : <<s, u>> \in made => AccountsOf(u) # {}

(* One credential account for each user, whoever inserted it: it fails for *)
(* a reset that finds none and creates one before scripts/seed.ts:92.      *)
OneCredentialOnly == \A u \in Users : \A a, b \in CredentialsOf(u) : a = b
=============================================================================
