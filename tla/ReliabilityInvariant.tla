------------------------ MODULE ReliabilityInvariant ------------------------
(***************************************************************************)
(* The inductive invariant behind the safety of ReliabilityLayer.  It ties *)
(* the numbers of the ring to positions in the stream: Behind(e, x) is how *)
(* far x lies behind the next number of e, and every number in use about   *)
(* the stream of e is at most half a ring behind.                          *)
(***************************************************************************)
EXTENDS ReliabilityLayer

Behind(e, x) == WrappingSub(send_seq[e], x)

\* s is the number that carries payload p of the stream of e.
Numbers(e, s, p) ==
  /\ p \in 1 .. sent[e]
  /\ Behind(e, s) = sent[e] + 1 - p
  /\ Behind(e, s) <= HalfRing

\* a acknowledges no more of the stream of e than its peer has handed out.
Acknowledges(e, a) ==
  /\ sent[e] - Len(delivered[Peer(e)]) <= Behind(e, a)
  /\ Behind(e, a) <= HalfRing

\* The receiver's cursor names the first payload it has not handed out.
CursorInv(e) ==
  /\ Len(delivered[Peer(e)]) <= sent[e]
  /\ Behind(e, recv_next[Peer(e)]) = sent[e] - Len(delivered[Peer(e)])
  /\ Behind(e, recv_next[Peer(e)]) <= HalfRing
  /\ send_ack[Peer(e)] = recv_next[Peer(e)]
  /\ \A i \in 1 .. Len(delivered[Peer(e)]) : delivered[Peer(e)][i] = i

\* Frames on the line and in the window carry the payload of their number.
FramesInv(e) ==
  /\ \A f \in Range(wire[e]) : f.kind = "data" => Numbers(e, f.seq, f.payload)
  /\ \A s \in DOMAIN inflight[e] : Numbers(e, s, inflight[e][s].payload)

\* So do the frames behind a gap, and there is a gap.
BufferInv(e) ==
  \A s \in DOMAIN recv_buffer[Peer(e)] :
    /\ Numbers(e, s, recv_buffer[Peer(e)][s])
    /\ recv_buffer[Peer(e)][s] > Len(delivered[Peer(e)]) + 1

\* No ACK on its way to e, or waiting in a frame its peer may send again,
\* covers a payload that was not handed out.
AcksInv(e) ==
  /\ \A f \in Range(wire[Peer(e)]) : f.kind # "nack" => Acknowledges(e, f.ack)
  /\ \A s \in DOMAIN inflight[Peer(e)] :
       Acknowledges(e, inflight[Peer(e)][s].ack)

\* The number of every frame, ACK and buffered payload in use stands for the
\* stream position it was sent for, although numbers are used again after a lap.
StreamInv ==
  \A e \in End : CursorInv(e) /\ FramesInv(e) /\ BufferInv(e) /\ AcksInv(e)
=============================================================================
