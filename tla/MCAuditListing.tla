--------------------------- MODULE MCAuditListing ---------------------------
(* AuditListing on small instances: the ids and limits are few numbers.     *)
EXTENDS AuditListing
=============================================================================
