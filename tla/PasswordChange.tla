--------------------------- MODULE PasswordChange ---------------------------
(***************************************************************************)
(* PasswordController: change-password reads an account of the user,       *)
(* compares the current password with what it read, and updates by id.     *)
(* forget-password and reset-password are better-auth behind               *)
(* callAuthHandler: a token is mailed and sets the password once.  Beside  *)
(* them the other routes of better-auth that write accounts: sign-up,      *)
(* magic link, Google, and what the catch-all of OAuthController lets      *)
(* through (its own change-password, link-social, unlink-account).         *)
(***************************************************************************)
EXTENDS AccountTables

CONSTANT Changes   \* change-password requests, each handled at most once

VARIABLES
  changing,    \* what each request awaits, or its status
  found,       \* foundAccount.id, NoRow when it names no row any more
  knew,        \* history: the accounts with currentPassword when it was compared
  resetToken,  \* verifications: the users with a reset token outstanding
  signingUp    \* users whose row better-auth inserted and whose account may follow

changeVars == <<changing, found, knew, resetToken, signingUp>>

ChangeTypeOK ==
  /\ changing \in [Changes -> {"new", "update", "rewrite", "success", "badRequest", "wrong"}]
  /\ found \in [Changes -> AccountIds \cup {NoRow}]
  /\ knew \in [Changes -> SUBSET AccountIds]
  /\ resetToken \subseteq Users /\ signingUp \subseteq Users

Knows(u, password) ==
  {a \in AccountsOf(u) : account[a] \in {Bcrypt(password), Scrypt(password)}}

ChangeInit ==
  /\ changing = [c \in Changes |-> "new"]
  /\ found = [c \in Changes |-> NoRow]
  /\ knew = [c \in Changes |-> {}]
  /\ resetToken = {} /\ signingUp = {}

(* better-auth is configured without password.hash and password.verify, so *)
(* it writes its own scrypt hashes; the seed and this controller use       *)
(* bcrypt, and bcrypt.compare says no to any other hash.                   *)
Verify(password, hash) == hash = Bcrypt(password)

(* findFirst has neither a provider in its filter nor an order: any of the *)
(* user's accounts may come.  Hashing and comparing touch nothing shared,  *)
(* so they are part of this step.                                          *)
FindAccount(c) ==
  /\ changing[c] = "new"
  /\ \E u \in Users, current \in Passwords :
       /\ user[u] # NoRow
       /\ \/ /\ \/ AccountsOf(u) = {}
                \/ \E a \in AccountsOf(u) : account[a] = NoPassword
             /\ changing' = [changing EXCEPT ![c] = "badRequest"]
             /\ UNCHANGED <<found, knew>>
          \/ \E a \in {b \in AccountsOf(u) : account[b] # NoPassword} :
               /\ changing' = [changing EXCEPT ![c] =
                    IF Verify(current, account[a]) THEN "update" ELSE "wrong"]
               /\ found' = [found EXCEPT ![c] = a]
               /\ knew' = [knew EXCEPT ![c] = Knows(u, current)]
  /\ UNCHANGED <<tables, resetToken, signingUp>>

(* Slip: WHERE user_id instead of id. *)
AllOf(c) == {a \in AccountRows : found[c] # NoRow /\ a.user = found[c].user}
Updated(c) == {found[c]} \ {NoRow}

(* An update of no row is answered like any other. *)
Overwrite(c, hash) ==
  /\ account' = [a \in AccountIds |-> IF a \in Updated(c) THEN hash ELSE account[a]]
  /\ changing' = [changing EXCEPT ![c] = "success"]
  /\ found' = [found EXCEPT ![c] = NoRow]
  /\ knew' = [knew EXCEPT ![c] = {}]
  /\ UNCHANGED <<user, org, member, founded, resetToken, signingUp>>

UpdatePassword(c) ==
  /\ changing[c] = "update"
  /\ \E new \in Passwords : Overwrite(c, Bcrypt(new))

(* better-auth's own change-password: the user's credential account, by    *)
(* scrypt, and an update by id.                                            *)
FindCredential(c) ==
  /\ changing[c] = "new"
  /\ \E u \in Users, current \in Passwords : \E a \in CredentialsOf(u) :
       \/ /\ account[a] = Scrypt(current)
          /\ changing' = [changing EXCEPT ![c] = "rewrite"]
          /\ found' = [found EXCEPT ![c] = a]
          /\ knew' = [knew EXCEPT ![c] = Knows(u, current)]
       \/ /\ account[a] # Scrypt(current)
          /\ changing' = [changing EXCEPT ![c] = "badRequest"]
          /\ UNCHANGED <<found, knew>>
  /\ UNCHANGED <<tables, resetToken, signingUp>>

RewritePassword(c) ==
  /\ changing[c] = "rewrite"
  /\ \E new \in Passwords : Overwrite(c, Scrypt(new))

AskChange == \E c \in Changes : FindAccount(c) \/ FindCredential(c)
MakeChange == \E c \in Changes : UpdatePassword(c) \/ RewritePassword(c)

(* better-auth: a sign-up and a first sign-in through Google or a magic    *)
(* link insert the user.  The account is another statement, which may fail *)
(* or be cut off, and a magic link has none.                               *)
SignUp(u) ==
  /\ user[u] = NoRow
  /\ user' = [user EXCEPT ![u] = "user"]
  /\ signingUp' = signingUp \cup {u}
  /\ UNCHANGED <<account, org, member, founded, changing, found, knew, resetToken>>

GoogleOf(u) == [user |-> u, provider |-> "google", by |-> "api"]

AddAccount(u) ==
  /\ u \in signingUp
  /\ signingUp' = signingUp \ {u}
  /\ \/ \E p \in Passwords : account' = [account EXCEPT ![CredentialOf(u, "api")] = Scrypt(p)]
     \/ /\ account[GoogleOf(u)] = NoRow
        /\ account' = [account EXCEPT ![GoogleOf(u)] = NoPassword]
  /\ UNCHANGED <<user, org, member, founded, changing, found, knew, resetToken>>

(* A user who is there signs in through Google, or calls link-social.      *)
LinkGoogle(u) ==
  /\ user[u] # NoRow
  /\ account[GoogleOf(u)] = NoRow
  /\ account' = [account EXCEPT ![GoogleOf(u)] = NoPassword]
  /\ UNCHANGED <<user, org, member, founded, changeVars>>

(* unlink-account: any account but the user's last.                        *)
UnlinkAccount(a) ==
  /\ a \in AccountRows
  /\ AccountsOf(a.user) # {a}
  /\ account' = [account EXCEPT ![a] = NoRow]
  /\ found' = [c \in Changes |-> IF found[c] = a THEN NoRow ELSE found[c]]
  /\ UNCHANGED <<user, org, member, founded, changing, knew, resetToken, signingUp>>

ForgetPassword(u) ==
  /\ user[u] # NoRow
  /\ u \notin resetToken
  /\ resetToken' = resetToken \cup {u}
  /\ UNCHANGED <<tables, changing, found, knew, signingUp>>

(* A user without a credential account is given one.                       *)
ResetPassword(u) ==
  /\ u \in resetToken
  /\ resetToken' = resetToken \ {u}
  /\ \E p \in Passwords :
       \/ /\ CredentialsOf(u) = {}
          /\ account' = [account EXCEPT ![CredentialOf(u, "reset")] = Scrypt(p)]
       \/ /\ CredentialsOf(u) # {}
          /\ account' = [a \in AccountIds |->
                          IF a \in CredentialsOf(u) THEN Scrypt(p) ELSE account[a]]
  /\ UNCHANGED <<user, org, member, founded, changing, found, knew, signingUp>>

AuthNext ==
  \/ \E u \in Users : SignUp(u) \/ LinkGoogle(u) \/ ForgetPassword(u) \/ ResetPassword(u)
  \/ \E a \in AccountIds : UnlinkAccount(a)
  \/ AskChange

(* What goes on after the first statement of a call.                       *)
AuthRest == (\E u \in Users : AddAccount(u)) \/ MakeChange

-----------------------------------------------------------------------------
(* "Requires the current password to be provided and verified first": a    *)
(* password that is in place is replaced only by a reset that uses up its  *)
(* token, or by a request that gave the very password this row held when   *)
(* the request compared it.  Nothing else in the system, no change of      *)
(* another account of the user, no account that is added or taken away     *)
(* meanwhile and no re-run of the seed, overwrites one.                    *)
ChangedByOneWhoKnew ==
  [][\A a \in AccountIds : account[a] # NoRow /\ account'[a] \notin {account[a], NoRow} =>
       \/ a.user \in resetToken \ resetToken'
       \/ \E c \in Changes : /\ changing[c] \in {"update", "rewrite"}
                             /\ changing'[c] = "success"
                             /\ a \in knew[c]]_<<tables, changeVars>>

(* 401 is documented as 'Not authenticated or wrong current password': a   *)
(* request that gave the password of the account is not answered so.       *)
RefusedOnlyIfWrong ==
  \A c \in Changes : changing[c] = "wrong" => found[c] \notin knew[c]
=============================================================================
