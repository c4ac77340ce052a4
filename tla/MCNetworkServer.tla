-------------------------- MODULE MCNetworkServer --------------------------
(* TLC instance of NetworkServer: two connections. *)
EXTENDS NetworkServer

CONSTANTS k1, k2

Two == {k1, k2}
=============================================================================
