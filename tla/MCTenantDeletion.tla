-------------------------- MODULE MCTenantDeletion --------------------------
(***************************************************************************)
(* Two resources in two ResourceSets: either the second set has one of     *)
(* them less than the first, or each of the sets has one of its own.       *)
(***************************************************************************)
EXTENDS TenantDeletion

MCResources == <<"namespace", "role">>
MCContents == <<{1, 2}, {1}>>
MCContentsApart == <<{1}, {2}>>
=============================================================================
