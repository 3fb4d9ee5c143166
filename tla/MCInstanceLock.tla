--------------------------- MODULE MCInstanceLock ---------------------------
(***************************************************************************)
(* Instances of InstanceLock for TLC.  Launches and process IDs are        *)
(* interchangeable, so TLC explores one of each class of permuted states.  *)
(***************************************************************************)
EXTENDS InstanceLock, TLC

Symmetry == Permutations(Launches) \cup Permutations(Pids)
=============================================================================
