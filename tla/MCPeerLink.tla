----------------------------- MODULE MCPeerLink -----------------------------
(* Instances of PeerLink for TLC. *)
EXTENDS PeerLink

CONSTANTS a, b

MCNode == {a, b}
=============================================================================
