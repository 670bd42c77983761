--------------------------- MODULE MCCallSignaling ---------------------------
(* Instances of CallSignaling for TLC. *)
EXTENDS CallSignaling, TLC

CONSTANTS a, b

MCNode == {a, b}
Symmetry == Permutations(MCNode)
=============================================================================
