-------------------------- MODULE MCAdminListings --------------------------
(* AdminListings on small instances: ids and limits are few numbers.        *)
EXTENDS AdminListings
=============================================================================
