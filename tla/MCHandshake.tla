---------------------------- MODULE MCHandshake ----------------------------
(* Instances of Handshake for TLC. *)
EXTENDS Handshake

CONSTANTS a, b

MCNode == {a, b}
=============================================================================
