---------------------------- MODULE MCApplication ----------------------------
(***************************************************************************)
(* Instances of Application for TLC, with the values of MCSystemProxy.     *)
(***************************************************************************)
EXTENDS Application

CONSTANTS a1, corp, managed, own

MCServers == {a1, corp}
MCOverrides == {managed, own}
MCAddresses == {a1}
=============================================================================
