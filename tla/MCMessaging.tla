---------------------------- MODULE MCMessaging ----------------------------
(* Instances of Messaging for TLC. *)
EXTENDS Messaging, TLC

CONSTANTS a, b

MCNode == {a, b}

MCSend == a :> 2 @@ b :> 1
=============================================================================
