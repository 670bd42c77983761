--------------------------- MODULE MessageStream ---------------------------
(***************************************************************************)
(* What a serial link promises to the engine above it.  Each end opens one *)
(* link after another.  The messages that come out of a link are messages  *)
(* handed to one link of the other end: whole, in order, each once, and    *)
(* from the first one on.                                                  *)
(***************************************************************************)
EXTENDS Integers, Sequences, Functions

CONSTANTS End,       \* the two ends of the line
          Peer(_),   \* the other end
          Link       \* the numbers of the links an end opens

VARIABLES offered,   \* offered[e][g]: the messages handed to link g of e
          received,  \* received[e][g]: the messages that came out of it
          source     \* source[e][g]: the peer's link they are from, 0: none yet

svars == <<offered, received, source>>

Init == /\ offered  = [e \in End |-> [g \in Link |-> <<>>]]
        /\ received = [e \in End |-> [g \in Link |-> <<>>]]
        /\ source   = [e \in End |-> [g \in Link |-> 0]]

Offer(e, g, m) == /\ offered' = [offered EXCEPT ![e][g] = Append(@, m)]
                  /\ UNCHANGED <<received, source>>

\* The next message of the peer's link h comes out of link g of e.
Receive(e, g, h) ==
  LET n == Len(received[e][g]) + 1
  IN /\ source[e][g] \in {0, h}
     /\ n \in DOMAIN offered[Peer(e)][h]
     /\ received' = [received EXCEPT ![e][g] = Append(@, offered[Peer(e)][h][n])]
     /\ source' = [source EXCEPT ![e][g] = h]
     /\ UNCHANGED offered

\* Any message may be handed to a link.
Next == \E e \in End, g \in Link : \/ \E m \in Range(offered'[e][g]) : Offer(e, g, m)
                                   \/ \E h \in Link : Receive(e, g, h)

Spec == Init /\ [][Next]_svars
=============================================================================
