---------------------------- MODULE MCHandshake ----------------------------
(* TLC instance of Handshake: one or two clients, a right and a wrong password. *)
EXTENDS Handshake

CONSTANTS c1, c2, right, wrong

One    == {c1}
Two    == {c1, c2}
Nobody == {}
Second == {c2}
Words  == {right, wrong}
=============================================================================
