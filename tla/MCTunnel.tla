------------------------------ MODULE MCTunnel ------------------------------
(* A request and a response of three chunks each, over hops that hold two. *)
EXTENDS Tunnel
=============================================================================
