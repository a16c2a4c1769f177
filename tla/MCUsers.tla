------------------------------- MODULE MCUsers -------------------------------
(* Users with two owners, two uploads in flight and two processes.          *)
EXTENDS Users, TLC

CONSTANT u1
OnesKey == {None, [user |-> u1, ms |-> 0]}

Symmetric == Permutations(Uploads) \cup Permutations(Processes)
=============================================================================
