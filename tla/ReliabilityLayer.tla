-------------------------- MODULE ReliabilityLayer --------------------------
(***************************************************************************)
(* The sequenced reliability layer of a serial link: two endpoints, each   *)
(* the ReliabilityLayer of core/src/serial/reliability.rs driven by the    *)
(* SerialReader and the link task of core/src/serial/transport.rs, joined  *)
(* by a line that delivers frames in order and may lose any of them (a     *)
(* frame with a bad CRC is dropped by the decoder).                        *)
(*                                                                         *)
(* A payload is named by its position in its sender's stream.              *)
(***************************************************************************)
EXTENDS SeqRing, Sequences, FiniteSets, Functions

CONSTANTS
  End,            \* the two ends of the line
  Window,         \* window_size
  MaxRetries,     \* MAX_RETRIES
  MaxRecvBuffer,  \* MAX_RECV_BUFFER
  EarlyTimeout,   \* TRUE: a frame may time out while it is still in transit
  MaxSend,        \* bound: payloads each end hands in, a function on End
  MaxLag,         \* bound: how far a sender runs ahead of any number in use
  MaxLoss,        \* bound: frames the line loses
  LineCapacity    \* bound: frames in transit one way; the line drops the rest

ASSUME EndAssumption == \E a, b \in End : a # b /\ End = {a, b}
ASSUME BoundAssumption ==
  /\ Window \in Nat \ {0}
  /\ MaxRetries \in Nat
  /\ MaxRecvBuffer \in Nat
  /\ EarlyTimeout \in BOOLEAN
  /\ MaxSend \in [End -> Nat]
  /\ MaxLag \in Nat
  /\ MaxLoss \in Nat
  /\ LineCapacity \in Nat

Peer(e) == CHOOSE q \in End : q # e

VARIABLES
  send_seq,       \* next sequence number to assign
  recv_next,      \* next sequence number to deliver
  send_ack,       \* cumulative ACK put on outbound DATA frames
  inflight,       \* unacknowledged frames, by sequence number
  recv_buffer,    \* payloads received ahead of a gap, by sequence number
  dup_ack_count,
  last_ack,
  failed,         \* a frame exceeded its retries
  feeding,        \* the link task is inside SerialReader::feed
  running,        \* run_link has not returned
  wire,           \* wire[e]: frames e wrote and its peer has not read
  losses,         \* frames lost so far
  sent,           \* payloads handed in (history)
  delivered,      \* payloads handed out, in order (history)
  abandoned       \* payloads poll_retransmits dropped for good (history)

senderVars   == <<inflight, dup_ack_count, last_ack>>
receiverVars == <<recv_next, send_ack, recv_buffer, delivered>>
vars == <<send_seq, senderVars, receiverVars, failed, feeding, running, wire,
          losses, sent, abandoned>>

-----------------------------------------------------------------------------
(* Frames and the line *)

Data(seq, ack, p) == [kind |-> "data", seq |-> seq, ack |-> ack, payload |-> p]
Ack(ack)          == [kind |-> "ack", ack |-> ack]
Nack(missing)     == [kind |-> "nack", missing |-> missing]

\* An in-flight entry: the frame's ack and payload, its retries, and whether
\* a NACK or a duplicate ACK backdated sent_at, so that it is overdue now.
Entry(ack, p) == [ack |-> ack, payload |-> p, retries |-> 0, due |-> FALSE]

Cap(q) == IF Len(q) > LineCapacity THEN SubSeq(q, 1, LineCapacity) ELSE q

\* e writes frames, after reading (if read) the first frame of its peer.
Exchange(e, read, frames) ==
  wire' = [wire EXCEPT ![e] = Cap(@ \o frames),
                       ![Peer(e)] = IF read THEN Tail(@) ELSE @]

InTransit(e, kind) == {i \in DOMAIN wire[e] : wire[e][i].kind = kind}
Quiet == \A e \in End : wire[e] = <<>>

-----------------------------------------------------------------------------
Init ==
  /\ send_seq      = [e \in End |-> 0]
  /\ recv_next     = [e \in End |-> 0]
  /\ send_ack      = [e \in End |-> 0]
  /\ inflight      = [e \in End |-> <<>>]
  /\ recv_buffer   = [e \in End |-> <<>>]
  /\ dup_ack_count = [e \in End |-> 0]
  /\ last_ack      = [e \in End |-> 0]
  /\ failed        = [e \in End |-> FALSE]
  /\ feeding       = [e \in End |-> FALSE]
  /\ running       = [e \in End |-> TRUE]
  /\ wire          = [e \in End |-> <<>>]
  /\ losses        = 0
  /\ sent          = [e \in End |-> 0]
  /\ delivered     = [e \in End |-> <<>>]
  /\ abandoned     = [e \in End |-> {}]

-----------------------------------------------------------------------------
(* prepare_send *)

\* Every sequence number of e's stream that some frame or variable still uses.
InUse(e) ==
  {recv_next[Peer(e)]} \cup DOMAIN inflight[e]
    \cup {wire[e][i].seq : i \in InTransit(e, "data")}
    \cup {wire[Peer(e)][i].ack :
            i \in InTransit(Peer(e), "data") \cup InTransit(Peer(e), "ack")}
    \cup {inflight[Peer(e)][s].ack : s \in DOMAIN inflight[Peer(e)]}

\* The environment's side of serial-number arithmetic: a sender does not run
\* MaxLag frames ahead of a number that is still in use.
RingFresh(e) == \A x \in InUse(e) : WrappingSub(send_seq[e], x) < MaxLag

WindowOpen(e) == Cardinality(DOMAIN inflight[e]) < Window

PrepareSend(e) ==
  /\ running[e] /\ ~feeding[e]
  /\ sent[e] < MaxSend[e]
  /\ RingFresh(e)
  /\ WindowOpen(e)
  /\ LET seq == send_seq[e]
         p   == sent[e] + 1
     IN /\ send_seq' = [send_seq EXCEPT ![e] = WrappingAdd(seq, 1)]
        /\ inflight' = [inflight EXCEPT
             ![e] = [s \in DOMAIN @ \cup {seq} |->
                       IF s = seq THEN Entry(send_ack[e], p) ELSE @[s]]]
        /\ Exchange(e, FALSE, <<Data(seq, send_ack[e], p)>>)
        /\ sent' = [sent EXCEPT ![e] = p]
  /\ UNCHANGED <<dup_ack_count, last_ack, receiverVars, failed, feeding,
                 running, losses, abandoned>>

-----------------------------------------------------------------------------
(* handle_ack and handle_nack *)

\* Make the entries of S due now and charge each a retry.
Expedite(entries, S) ==
  [s \in DOMAIN entries |->
     IF s \in S THEN [entries[s] EXCEPT !.retries = @ + 1, !.due = TRUE]
                ELSE entries[s]]

Lowest(S) == {s \in S : \A t \in S : s <= t}

ThirdDuplicate(e, ack) == ack = last_ack[e] /\ dup_ack_count[e] + 1 >= 3

\* A cumulative ack releases every frame strictly before it.
CoveredToo(ack, S)   == {s \in S : s = ack \/ SeqLt(s, ack)}  \* mutant
Acknowledged(ack, S) == {s \in S : SeqLt(s, ack)}

\* How many duplicates of ack have come in a row, starting again at the third.
CountUp(e, ack)    == IF ack = last_ack[e] THEN dup_ack_count[e] + 1 ELSE 0 \* mutant
Duplicates(e, ack) == IF ack = last_ack[e] /\ dup_ack_count[e] + 1 < 3
                        THEN dup_ack_count[e] + 1 ELSE 0

HandleAck(e, ack) ==
  LET expedited == IF ThirdDuplicate(e, ack)
                     THEN Expedite(inflight[e], Lowest(DOMAIN inflight[e]))
                     ELSE inflight[e]
  IN /\ inflight' = [inflight EXCEPT
          ![e] = Restrict(expedited,
                          DOMAIN expedited \ Acknowledged(ack, DOMAIN expedited))]
     /\ dup_ack_count' = [dup_ack_count EXCEPT ![e] = Duplicates(e, ack)]
     /\ last_ack' = [last_ack EXCEPT ![e] = ack]

HandleNack(e, missing) ==
  /\ inflight' = [inflight EXCEPT ![e] = Expedite(@, {missing})]
  /\ UNCHANGED <<dup_ack_count, last_ack>>

-----------------------------------------------------------------------------
(* on_receive, called by feed for each frame decoded from the line *)

Incoming(e, kind) ==
  /\ running[e]
  /\ wire[Peer(e)] # <<>> /\ Head(wire[Peer(e)]).kind = kind

Receive(e, responses) ==
  /\ Exchange(e, TRUE, responses)
  /\ feeding' = [feeding EXCEPT ![e] = TRUE]
  /\ UNCHANGED <<send_seq, failed, running, losses, sent, abandoned>>

ReceiveAck(e) ==
  /\ Incoming(e, "ack")
  /\ HandleAck(e, Head(wire[Peer(e)]).ack)
  /\ Receive(e, <<>>)
  /\ UNCHANGED receiverVars

ReceiveNack(e) ==
  /\ Incoming(e, "nack")
  /\ HandleNack(e, Head(wire[Peer(e)]).missing)
  /\ Receive(e, <<>>)
  /\ UNCHANGED receiverVars

\* n payloads are buffered right behind recv_next, and no more than n.
Drains(e, n) ==
  /\ \A i \in 1 .. n : WrappingAdd(recv_next[e], i) \in DOMAIN recv_buffer[e]
  /\ WrappingAdd(recv_next[e], n + 1) \notin DOMAIN recv_buffer[e]

NotOld(e, f)   == f.seq = recv_next[e] \/ SeqGt(f.seq, recv_next[e])  \* mutant
Expected(e, f) == f.seq = recv_next[e]

\* The expected frame: hand it out, and everything buffered behind it.
DeliverData(e, f) ==
  /\ Expected(e, f)
  /\ \E n \in 0 .. Cardinality(DOMAIN recv_buffer[e]) :
       /\ Drains(e, n)
       /\ LET next    == WrappingAdd(recv_next[e], n + 1)
              drained == {WrappingAdd(recv_next[e], i) : i \in 1 .. n}
          IN /\ delivered' = [delivered EXCEPT ![e] = (@ \o <<f.payload>>) \o
                  [i \in 1 .. n |-> recv_buffer[e][WrappingAdd(recv_next[e], i)]]]
             /\ recv_buffer' = [recv_buffer EXCEPT
                  ![e] = Restrict(@, DOMAIN @ \ drained)]
             /\ recv_next' = [recv_next EXCEPT ![e] = next]
             /\ send_ack' = [send_ack EXCEPT ![e] = next]
             /\ Receive(e, <<Ack(next)>>)

\* A frame beyond a gap: keep it if there is room, and ask for the gap.
BufferData(e, f) ==
  /\ SeqGt(f.seq, recv_next[e])
  /\ recv_buffer' = [recv_buffer EXCEPT
       ![e] = IF Cardinality(DOMAIN @) < MaxRecvBuffer /\ f.seq \notin DOMAIN @
                THEN [s \in DOMAIN @ \cup {f.seq} |->
                        IF s = f.seq THEN f.payload ELSE @[s]]
                ELSE @]
  /\ send_ack' = [send_ack EXCEPT ![e] = recv_next[e]]
  /\ Receive(e, <<Nack(recv_next[e]), Ack(recv_next[e])>>)
  /\ UNCHANGED <<recv_next, delivered>>

\* A frame delivered before: acknowledge it again.
RepeatAck(e, f) ==
  /\ ~Expected(e, f) /\ ~SeqGt(f.seq, recv_next[e])
  /\ send_ack' = [send_ack EXCEPT ![e] = recv_next[e]]
  /\ Receive(e, <<Ack(recv_next[e])>>)
  /\ UNCHANGED <<recv_next, recv_buffer, delivered>>

ReceiveData(e) ==
  /\ Incoming(e, "data")
  /\ LET f == Head(wire[Peer(e)])
     IN /\ \/ DeliverData(e, f)
           \/ BufferData(e, f)
           \/ RepeatAck(e, f)
        /\ \/ f.ack # 0 /\ HandleAck(e, f.ack)
           \/ f.ack = 0 /\ UNCHANGED senderVars

-----------------------------------------------------------------------------
(* poll_retransmits, at the end of feed and on the link task's 50 ms tick *)

Orderings(S) ==
  {q \in UNION {[1 .. n -> S] : n \in 0 .. Cardinality(S)} :
     Range(q) = S /\ IsInjective(q)}

OnlyExpedited(e) ==  \* mutant
  {{s \in DOMAIN inflight[e] : inflight[e][s].due}}

\* What poll can find overdue: an expedited frame always; any other one when
\* its timer ran out, which a well chosen RTO lets happen only to a frame
\* that is no longer in transit.
Overdue(e) ==
  LET due == {s \in DOMAIN inflight[e] : inflight[e][s].due}
  IN {due \cup late : late \in
        IF EarlyTimeout \/ Quiet THEN SUBSET DOMAIN inflight[e] ELSE {{}}}

\* Frames that used all their retries fail the link; the others go out again
\* in the order the hash map yields them.
Poll(e, overdue) ==
  LET spent == {s \in overdue : inflight[e][s].retries >= MaxRetries}
      again == overdue \ spent
      after == [s \in DOMAIN inflight[e] |->
                  IF s \in again
                    THEN [inflight[e][s] EXCEPT !.retries = @ + 1, !.due = FALSE]
                    ELSE inflight[e][s]]
      kept  == {s \in DOMAIN after : after[s].retries < MaxRetries}
  IN /\ failed' = [failed EXCEPT ![e] = @ \/ spent # {}]
     /\ inflight' = [inflight EXCEPT ![e] = Restrict(after, kept)]
     /\ abandoned' = [abandoned EXCEPT
          ![e] = @ \cup {after[s].payload : s \in DOMAIN after \ kept}]
     /\ \E order \in Orderings(again) :
          Exchange(e, FALSE,
            [i \in DOMAIN order |->
               LET s == order[i]
               IN Data(s, inflight[e][s].ack, inflight[e][s].payload)])
     /\ UNCHANGED <<send_seq, dup_ack_count, last_ack, receiverVars, losses,
                    sent>>

\* The end of feed.  A read that completes no frame comes here directly.
EndFeed(e, overdue) ==
  /\ running[e]
  /\ Poll(e, overdue)
  /\ feeding' = [feeding EXCEPT ![e] = FALSE]
  /\ UNCHANGED running

\* The 50 ms tick: poll, then leave run_link if a frame failed.
Tick(e, overdue) ==
  /\ running[e] /\ ~feeding[e]
  /\ Poll(e, overdue)
  /\ running' = [running EXCEPT ![e] = ~failed'[e]]
  /\ UNCHANGED feeding

-----------------------------------------------------------------------------
\* The line loses a frame, or damages it so that its CRC fails.
Lose(e) ==
  /\ losses < MaxLoss
  /\ losses' = losses + 1
  /\ \E i \in DOMAIN wire[e] :
       wire' = [wire EXCEPT
                  ![e] = SubSeq(@, 1, i - 1) \o SubSeq(@, i + 1, Len(@))]
  /\ UNCHANGED <<send_seq, senderVars, receiverVars, failed, feeding, running,
                 sent, abandoned>>

Next ==
  \E e \in End :
    \/ PrepareSend(e)
    \/ ReceiveAck(e)
    \/ ReceiveNack(e)
    \/ ReceiveData(e)
    \/ \E overdue \in Overdue(e) : EndFeed(e, overdue)
    \/ \E overdue \in Overdue(e) : Tick(e, overdue)
    \/ Lose(e)

Spec == Init /\ [][Next]_vars

\* The link task keeps reading the port and its timer keeps ticking; a frame
\* nobody acknowledges is overdue in the end.
Fairness ==
  \A e \in End :
    /\ WF_vars(ReceiveAck(e) \/ ReceiveNack(e) \/ ReceiveData(e))
    /\ WF_vars(feeding[e] /\ \E overdue \in Overdue(e) : EndFeed(e, overdue))
    /\ WF_vars(DOMAIN inflight[e] \in Overdue(e) /\ Tick(e, DOMAIN inflight[e]))

FairSpec == Spec /\ Fairness

-----------------------------------------------------------------------------
(* Properties *)

FrameType ==
  [kind : {"data"}, seq : Ring, ack : Ring, payload : Nat]
    \cup [kind : {"ack"}, ack : Ring] \cup [kind : {"nack"}, missing : Ring]
EntryType == [ack : Ring, payload : Nat, retries : Nat, due : BOOLEAN]
IsRingMap(m, V) == DOMAIN m \subseteq Ring /\ m \in [DOMAIN m -> V]

\* The types of the two layers' fields, of the line and of the histories.
TypeOK ==
  /\ send_seq \in [End -> Ring]
  /\ recv_next \in [End -> Ring]
  /\ send_ack \in [End -> Ring]
  /\ inflight = [e \in End |-> inflight[e]]
  /\ \A e \in End : IsRingMap(inflight[e], EntryType)
  /\ recv_buffer = [e \in End |-> recv_buffer[e]]
  /\ \A e \in End : IsRingMap(recv_buffer[e], Nat)
  /\ dup_ack_count \in [End -> 0 .. 2]
  /\ last_ack \in [End -> Ring]
  /\ failed \in [End -> BOOLEAN]
  /\ feeding \in [End -> BOOLEAN]
  /\ running \in [End -> BOOLEAN]
  /\ wire \in [End -> Seq(FrameType)]
  /\ losses \in Nat
  /\ sent \in [End -> Nat]
  /\ delivered \in [End -> Seq(Nat)]
  /\ abandoned \in [End -> SUBSET Nat]

\* What an end hands out is a prefix of what its peer handed in: no payload
\* is skipped, repeated, reordered or taken from a previous lap of the ring,
\* whatever the line loses and however often frames and stale ACKs come back.
InOrderDelivery ==
  \A e \in End : /\ Len(delivered[e]) <= sent[Peer(e)]
                 /\ \A i \in 1 .. Len(delivered[e]) : delivered[e][i] = i

\* A payload the sender no longer holds has reached the peer, or was dropped by
\* poll_retransmits when its retries ran out: no ACK, standalone or the stale
\* one of a retransmitted DATA frame, releases a frame that was not received.
ReleasedOnlyIfDelivered ==
  \A e \in End : \A p \in 1 .. sent[e] :
    \/ p <= Len(delivered[Peer(e)])
    \/ \E s \in DOMAIN inflight[e] : inflight[e][s].payload = p
    \/ p \in abandoned[e]

\* While no frame ran out of retries, the frames waiting behind a gap are
\* fewer than the window, so MAX_RECV_BUFFER never makes on_receive drop one.
GapWithinWindow ==
  \A e \in End :
    abandoned[Peer(e)] = {} => Cardinality(DOMAIN recv_buffer[e]) < Window

\* docs/SERIAL_PROTOCOL.md: after MAX_RETRIES "the link is declared lost ...
\* ordered delivery cannot continue past a missing frame".  Once the line is
\* silent and no retransmission is left, a payload that never arrived must
\* have failed the link.
LinkLossDeclared ==
  \A e \in End :
    (Quiet /\ ~feeding[e] /\ inflight[e] = <<>> /\ running[Peer(e)])
      => sent[e] = Len(delivered[Peer(e)]) \/ failed[e]

\* With fewer losses than a frame has retries, every payload handed in comes
\* out at the other end.
EverythingArrives ==
  \A e \in End : \A p \in 1 .. MaxSend[e] :
    (sent[e] >= p) ~> (Len(delivered[Peer(e)]) >= p)

\* The layer implements the channel it stands for: the histories of what was
\* handed in and out are the channel's whole state, everything else is hidden.
Channel == INSTANCE ReliableChannel
             WITH End <- End, Peer <- Peer, sent <- sent, delivered <- delivered
ImplementsChannel == Channel!Spec
=============================================================================
