---------------------------- MODULE MCSystemProxy ----------------------------
(***************************************************************************)
(* Instances of SystemProxy for TLC.  Two addresses, so that a journal of  *)
(* an earlier launch may name another listener than the present one; a     *)
(* corporate server and bypass list the user may have; values of no one.   *)
(***************************************************************************)
EXTENDS SystemProxy

CONSTANTS a1, a2, corp, managed, own

MCServers == {a1, corp}
MCServers2 == {a1, a2, corp}
MCOverrides == {managed, own}
MCAddresses == {a1}
MCAddresses2 == {a1, a2}
=============================================================================
