---------------------------- MODULE MCProxyServer ----------------------------
(***************************************************************************)
(* Instances of ProxyServer for TLC.  Handlers are interchangeable in the  *)
(* safety runs.                                                            *)
(***************************************************************************)
EXTENDS ProxyServer, TLC

Symmetry == Permutations(Handlers)
=============================================================================
