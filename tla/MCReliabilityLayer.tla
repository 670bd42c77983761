------------------------- MODULE MCReliabilityLayer -------------------------
(* Instances of ReliabilityLayer for TLC. *)
EXTENDS ReliabilityInvariant, TLC

CONSTANTS a, b

MCEnd == {a, b}

MCBothSend  == a :> 7 @@ b :> 1
MCShortSend == a :> 3 @@ b :> 0
=============================================================================
