---------------------------- MODULE MCHostedZone ----------------------------
(***************************************************************************)
(* One HostedZone object, with either deletion policy, connected or not.   *)
(***************************************************************************)
EXTENDS HostedZone
=============================================================================
