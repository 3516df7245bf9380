---------------------------- MODULE MCSyncEngine ----------------------------
(***************************************************************************)
(* TLC instances of SyncEngine.  Targets are interchangeable where their   *)
(* connectors have the same capabilities, so those runs that check no      *)
(* liveness property permute them.                                         *)
(***************************************************************************)
EXTENDS SyncEngine, TLC

TargetSymmetry == Permutations(Targets)
=============================================================================
