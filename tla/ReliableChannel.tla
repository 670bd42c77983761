-------------------------- MODULE ReliableChannel --------------------------
(***************************************************************************)
(* What the serial reliability layer promises to the code above it: each   *)
(* endpoint's payloads come out at the other end in the order they were    *)
(* handed in, each at most once, none invented.  A payload is named by its *)
(* position in its sender's stream: the n-th payload handed in is n.       *)
(***************************************************************************)
EXTENDS Integers, Sequences

CONSTANTS End,      \* the two ends of the line
          Peer(_)   \* the other end

VARIABLES sent,      \* sent[e]: how many payloads e has handed in
          delivered  \* delivered[e]: the payloads handed out at e, in order

cvars == <<sent, delivered>>

Init == /\ sent = [e \in End |-> 0]
        /\ delivered = [e \in End |-> <<>>]

Submit(e) == /\ sent' = [sent EXCEPT ![e] = @ + 1]
             /\ UNCHANGED delivered

\* The next n payloads of the peer's stream come out at e.
HandOut(e, n) ==
  /\ Len(delivered[e]) + n <= sent[Peer(e)]
  /\ delivered' = [delivered EXCEPT
                     ![e] = @ \o [i \in 1 .. n |-> Len(@) + i]]
  /\ UNCHANGED sent

Next == \E e \in End : \/ Submit(e)
                       \/ \E n \in 1 .. sent[Peer(e)] : HandOut(e, n)

Spec == Init /\ [][Next]_cvars
=============================================================================
