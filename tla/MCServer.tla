------------------------------ MODULE MCServer ------------------------------
(* Server with limits of one magic link and two requests of any other kind. *)
(* The other routes that are a single call of better-auth are like the      *)
(* magic link's.                                                            *)
EXTENDS Server

MCLimit == [k \in Kinds |-> IF k = "magicLink" THEN 1 ELSE 2]
MCRoutes == {"me", "list", "health", "signUp", "magicLink"}
=============================================================================
