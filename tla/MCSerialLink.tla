---------------------------- MODULE MCSerialLink ----------------------------
EXTENDS SerialLink
CONSTANTS a, b
MCEnd == {a, b}
MCAsking == {a}
MCFragments == <<2, 1, 2, 1, 1>>
MCMaxMessages == [e \in MCEnd |-> IF e = a THEN 4 ELSE 0]
=============================================================================
