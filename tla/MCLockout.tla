------------------------------ MODULE MCLockout ------------------------------
(* Lockout on small instances.  The requests, and the emails, are           *)
(* interchangeable: no action or property names one of them.                *)
EXTENDS Lockout, TLC

Symmetry == Permutations(Requests) \cup Permutations(Emails)
=============================================================================
