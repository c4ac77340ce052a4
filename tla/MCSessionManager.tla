-------------------------- MODULE MCSessionManager --------------------------
(* TLC instance of SessionManager: one host, two clients that compete for it. *)
EXTENDS SessionManager

CONSTANTS s1, c1, c2, here

OneSession == {s1}
TwoClients == {c1, c2}
OnePlace   == {here}
=============================================================================
