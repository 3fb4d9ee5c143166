----------------------------- MODULE MCLaunches -----------------------------
(***************************************************************************)
(* Instances of Launches and InstanceLock for TLC.  Launches and process   *)
(* IDs are interchangeable, so TLC explores one of each class of permuted  *)
(* states.                                                                 *)
(***************************************************************************)
EXTENDS Launches, TLC

Symmetry == Permutations(Launches) \cup Permutations(Pids)
=============================================================================
