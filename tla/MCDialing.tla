------------------------------ MODULE MCDialing ------------------------------
(***************************************************************************)
(* Instances of Dialing for TLC.                                           *)
(***************************************************************************)
EXTENDS Dialing
=============================================================================
