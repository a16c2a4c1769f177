--------------------------- MODULE MCSessionGuard ---------------------------
(* SessionGuard on small instances: one user, so that every token sees the  *)
(* same role changes.                                                       *)
EXTENDS SessionGuard, TLC

CONSTANT u1
OneUser == [t \in Tokens |-> u1]

Symmetry == Permutations(Requests) \cup Permutations(Tokens)
=============================================================================
