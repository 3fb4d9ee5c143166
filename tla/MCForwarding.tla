---------------------------- MODULE MCForwarding ----------------------------
(***************************************************************************)
(* Instances of Forwarding for TLC.                                        *)
(***************************************************************************)
EXTENDS Forwarding
=============================================================================
