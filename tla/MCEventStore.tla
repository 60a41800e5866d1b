---------------------------- MODULE MCEventStore ----------------------------
(***************************************************************************)
(* The event store with two operator processes, as after a restart or     *)
(* while a deposed leader still finishes its pass.                         *)
(***************************************************************************)
EXTENDS EventStore, TLC

Processes == Permutations(Writers)
=============================================================================
