----------------------------- MODULE MCBalancer -----------------------------
(***************************************************************************)
(* Instances of Balancer for TLC: three interfaces are the fewest among    *)
(* which a turn can be skipped while another interface is down.            *)
(***************************************************************************)
EXTENDS Balancer
=============================================================================
