--------------------- MODULE ReliabilityInvariant_proofs ---------------------
(***************************************************************************)
(* The serial reliability layer delivers in order, releases no frame that  *)
(* was not received, and implements ReliableChannel: for every ring,       *)
(* window, retry limit, buffer cap, workload, timing and loss, as long as  *)
(* a sender stays within half a ring of every number still in use.         *)
(***************************************************************************)
EXTENDS ReliabilityInvariant, SequenceTheorems, FiniteSetTheorems, TLAPS

-----------------------------------------------------------------------------
(* Arithmetic of the ring *)

LEMMA RingFacts ==
  /\ Modulus \in Nat /\ Modulus = 2 * HalfRing /\ HalfRing >= 1
  /\ HalfRing \in Nat /\ Modulus > HalfRing
BY HalfRingAssumption DEF Modulus

LEMMA SubMod ==
  ASSUME NEW m \in Nat \ {0}, NEW x \in 0 .. m - 1, NEW y \in 0 .. m - 1
  PROVE  (x - y) % m = IF x >= y THEN x - y ELSE x - y + m
BY SMT

LEMMA AddMod ==
  ASSUME NEW m \in Nat \ {0}, NEW x \in 0 .. m - 1, NEW n \in 0 .. m
  PROVE  (x + n) % m = IF x + n < m THEN x + n ELSE x + n - m
BY SMT

LEMMA ModInRange ==
  ASSUME NEW m \in Nat \ {0}, NEW x \in Int
  PROVE  x % m \in 0 .. m - 1
BY SMT

\* wrapping_add stays on the ring however far it goes.
LEMMA AddOnRing ==
  ASSUME NEW a \in Ring, NEW n \in Nat
  PROVE  WrappingAdd(a, n) \in Ring
<1> DEFINE M == Modulus
<1>1. M \in Nat \ {0} /\ a + n \in Int
  BY RingFacts DEF Ring
<1>2. WrappingAdd(a, n) = (a + n) % M /\ Ring = 0 .. M - 1
  BY DEF WrappingAdd, Ring
<1> HIDE DEF M
<1>3. (a + n) % M \in 0 .. M - 1
  BY <1>1, ModInRange
<1>4. QED  BY <1>2, <1>3

LEMMA SubValue ==
  ASSUME NEW a \in Ring, NEW b \in Ring
  PROVE  /\ WrappingSub(a, b) = IF a >= b THEN a - b ELSE a - b + Modulus
         /\ WrappingSub(a, b) \in Ring
<1> DEFINE M == Modulus
<1>1. M \in Nat \ {0} /\ a \in 0 .. M - 1 /\ b \in 0 .. M - 1
  BY RingFacts DEF Ring
<1>2. WrappingSub(a, b) = (a - b) % M
  BY DEF WrappingSub
<1> HIDE DEF M
<1>3. WrappingSub(a, b) = IF a >= b THEN a - b ELSE a - b + M
  BY <1>1, <1>2, SubMod
<1>4. WrappingSub(a, b) \in 0 .. M - 1
  BY <1>1, <1>3
<1>5. QED  BY <1>3, <1>4 DEF M, Ring

LEMMA AddValue ==
  ASSUME NEW a \in Ring, NEW n \in 0 .. Modulus
  PROVE  /\ WrappingAdd(a, n) = IF a + n < Modulus THEN a + n ELSE a + n - Modulus
         /\ WrappingAdd(a, n) \in Ring
<1> DEFINE M == Modulus
<1>1. M \in Nat \ {0} /\ a \in 0 .. M - 1 /\ n \in 0 .. M
  BY RingFacts DEF Ring
<1>2. WrappingAdd(a, n) = (a + n) % M
  BY DEF WrappingAdd
<1> HIDE DEF M
<1>3. WrappingAdd(a, n) = IF a + n < M THEN a + n ELSE a + n - M
  BY <1>1, <1>2, AddMod
<1>4. WrappingAdd(a, n) \in 0 .. M - 1
  BY <1>1, <1>3
<1>5. QED  BY <1>3, <1>4 DEF M, Ring

\* WrappingSub(s, x) is how far x lies behind s.  It grows as s advances...
LEMMA SenderAdvances ==
  ASSUME NEW s \in Ring, NEW x \in Ring, WrappingSub(s, x) < HalfRing
  PROVE  /\ WrappingAdd(s, 1) \in Ring
         /\ WrappingSub(WrappingAdd(s, 1), x) = WrappingSub(s, x) + 1
<1>1. 1 \in 0 .. Modulus  BY RingFacts
<1>2. WrappingAdd(s, 1) \in Ring
      /\ WrappingAdd(s, 1) = IF s + 1 < Modulus THEN s + 1 ELSE s + 1 - Modulus
  BY <1>1, AddValue
<1> DEFINE t == WrappingAdd(s, 1)
<1>3. WrappingSub(s, x) = IF s >= x THEN s - x ELSE s - x + Modulus
  BY SubValue
<1>4. WrappingSub(t, x) = IF t >= x THEN t - x ELSE t - x + Modulus
  BY <1>2, SubValue
<1>5. QED  BY <1>2, <1>3, <1>4, RingFacts DEF Ring

\* ... and shrinks as x advances towards s.
LEMMA ReceiverAdvances ==
  ASSUME NEW s \in Ring, NEW x \in Ring, NEW n \in Nat, n <= WrappingSub(s, x)
  PROVE  /\ WrappingAdd(x, n) \in Ring
         /\ WrappingSub(s, WrappingAdd(x, n)) = WrappingSub(s, x) - n
<1>1. n \in 0 .. Modulus  BY SubValue, RingFacts DEF Ring
<1>2. WrappingAdd(x, n) \in Ring
      /\ WrappingAdd(x, n) = IF x + n < Modulus THEN x + n ELSE x + n - Modulus
  BY <1>1, AddValue
<1> DEFINE y == WrappingAdd(x, n)
<1>3. WrappingSub(s, x) = IF s >= x THEN s - x ELSE s - x + Modulus
  BY SubValue
<1>4. WrappingSub(s, y) = IF s >= y THEN s - y ELSE s - y + Modulus
  BY <1>2, SubValue
<1>5. QED  BY <1>2, <1>3, <1>4, RingFacts DEF Ring

\* Among numbers at most half a ring behind s, SeqLt is the order of arrival,
\* and the distance determines the number.
LEMMA OrderByDistance ==
  ASSUME NEW s \in Ring, NEW x \in Ring, NEW y \in Ring,
         WrappingSub(s, x) <= HalfRing, WrappingSub(s, y) <= HalfRing
  PROVE  /\ SeqLt(x, y) => WrappingSub(s, x) > WrappingSub(s, y)
         /\ WrappingSub(s, x) = WrappingSub(s, y) => x = y
<1>1. WrappingSub(s, x) = IF s >= x THEN s - x ELSE s - x + Modulus
  BY SubValue
<1>2. WrappingSub(s, y) = IF s >= y THEN s - y ELSE s - y + Modulus
  BY SubValue
<1>3. WrappingSub(y, x) = IF y >= x THEN y - x ELSE y - x + Modulus
  BY SubValue
<1>4. QED  BY <1>1, <1>2, <1>3, RingFacts DEF Ring, SeqLt

-----------------------------------------------------------------------------
(* The two ends and the line *)

LEMMA PeerFacts ==
  ASSUME NEW e \in End
  PROVE  /\ Peer(e) \in End /\ Peer(e) # e /\ Peer(Peer(e)) = e
         /\ \A x \in End : x = e \/ x = Peer(e)
<1>1. PICK a \in End, b \in End : a # b /\ End = {a, b}
  BY EndAssumption
<1>2. \A x \in End : Peer(x) \in End /\ Peer(x) # x
  BY <1>1 DEF Peer
<1>3. QED  BY <1>1, <1>2

\* A line that is cut to its capacity keeps a prefix of its frames.
LEMMA CapKeepsPrefix ==
  ASSUME NEW T, NEW q \in Seq(T)
  PROVE  /\ Cap(q) \in Seq(T)
         /\ \A i \in DOMAIN Cap(q) : i \in DOMAIN q /\ Cap(q)[i] = q[i]
BY BoundAssumption DEF Cap

\* Writing adds no frame but those written, reading adds none.
LEMMA ExchangeFrames ==
  ASSUME NEW e \in End, wire \in [End -> Seq(FrameType)],
         NEW read \in BOOLEAN, NEW frames \in Seq(FrameType),
         read => wire[Peer(e)] # <<>>,
         Exchange(e, read, frames)
  PROVE  /\ wire' \in [End -> Seq(FrameType)]
         /\ Range(wire'[e]) \subseteq Range(wire[e]) \cup Range(frames)
         /\ Range(wire'[Peer(e)]) \subseteq Range(wire[Peer(e)])
<1> DEFINE q == Peer(e)
           long == wire[e] \o frames
<1>1. q \in End /\ q # e  BY PeerFacts
<1>2. long \in Seq(FrameType)  OBVIOUS
<1>3. /\ wire' = [wire EXCEPT ![e] = Cap(long),
                              ![q] = IF read THEN Tail(@) ELSE @]
  BY DEF Exchange
<1>4. /\ Cap(long) \in Seq(FrameType)
      /\ \A i \in DOMAIN Cap(long) : i \in DOMAIN long /\ Cap(long)[i] = long[i]
  BY <1>2, CapKeepsPrefix
<1>5. Range(Cap(long)) \subseteq Range(wire[e]) \cup Range(frames)
  <2>1. \A i \in DOMAIN long : long[i] \in Range(wire[e]) \cup Range(frames)
    BY DEF Range
  <2>2. QED  BY <2>1, <1>4 DEF Range
<1>6. wire'[e] = Cap(long)  BY <1>1, <1>3
<1>7. wire'[q] = IF read THEN Tail(wire[q]) ELSE wire[q]  BY <1>1, <1>3
<1>8. wire'[q] \in Seq(FrameType) /\ Range(wire'[q]) \subseteq Range(wire[q])
  <2>1. CASE read
    <3>1. wire[q] \in Seq(FrameType) /\ wire[q] # <<>>  BY <2>1, <1>1
    <3>2. \A i \in DOMAIN Tail(wire[q]) : i + 1 \in DOMAIN wire[q]
                                        /\ Tail(wire[q])[i] = wire[q][i + 1]
      BY <3>1
    <3>3. QED  BY <2>1, <1>7, <3>1, <3>2 DEF Range
  <2>2. CASE ~read  BY <2>2, <1>7, <1>1
  <2>3. QED  BY <2>1, <2>2
<1>9. wire' \in [End -> Seq(FrameType)]
  BY <1>1, <1>3, <1>4, <1>6, <1>8
<1>10. QED  BY <1>5, <1>6, <1>8, <1>9

-----------------------------------------------------------------------------
(* ACKs, NACKs and polls only ever take entries away from the window *)

\* No other window changes, and the entries left carry what they carried.
Shrinks(e) ==
  /\ inflight' = [x \in End |-> inflight'[x]]
  /\ \A x \in End : x # e => inflight'[x] = inflight[x]
  /\ IsRingMap(inflight'[e], EntryType)
  /\ DOMAIN inflight'[e] \subseteq DOMAIN inflight[e]
  /\ \A s \in DOMAIN inflight'[e] :
       /\ inflight'[e][s].payload = inflight[e][s].payload
       /\ inflight'[e][s].ack = inflight[e][s].ack

LEMMA ChargedEntry ==
  ASSUME NEW r \in EntryType, NEW d \in BOOLEAN
  PROVE  LET c == [r EXCEPT !.retries = @ + 1, !.due = d]
         IN c \in EntryType /\ c.payload = r.payload /\ c.ack = r.ack
<1> DEFINE n == r.retries + 1
<1>1. n \in Nat  BY DEF EntryType
<1> HIDE DEF n
<1>2. [r EXCEPT !.retries = n, !.due = d] \in EntryType
  BY <1>1, Zenon DEF EntryType
<1>3. /\ [r EXCEPT !.retries = n, !.due = d].payload = r.payload
      /\ [r EXCEPT !.retries = n, !.due = d].ack = r.ack
  BY SMT DEF EntryType
<1>4. [r EXCEPT !.retries = @ + 1, !.due = d] = [r EXCEPT !.retries = n, !.due = d]
  BY DEF n
<1>5. QED  BY <1>2, <1>3, <1>4

LEMMA ExpediteFacts ==
  ASSUME NEW m, IsRingMap(m, EntryType), NEW S
  PROVE  /\ IsRingMap(Expedite(m, S), EntryType)
         /\ DOMAIN Expedite(m, S) = DOMAIN m
         /\ \A s \in DOMAIN m : /\ Expedite(m, S)[s].payload = m[s].payload
                                /\ Expedite(m, S)[s].ack = m[s].ack
<1> DEFINE x == Expedite(m, S)
<1>1. DOMAIN x = DOMAIN m /\ x = [s \in DOMAIN m |-> x[s]]
  BY DEF Expedite
<1>2. ASSUME NEW s \in DOMAIN m
      PROVE  x[s] \in EntryType /\ x[s].payload = m[s].payload /\ x[s].ack = m[s].ack
  <2>1. m[s] \in EntryType  BY DEF IsRingMap
  <2>2. x[s] = IF s \in S THEN [m[s] EXCEPT !.retries = @ + 1, !.due = TRUE] ELSE m[s]
    BY DEF Expedite
  <2>3. QED  BY <2>1, <2>2, ChargedEntry
<1>3. QED  BY <1>1, <1>2 DEF IsRingMap

LEMMA NackShrinks ==
  ASSUME TypeOK, NEW e \in End, NEW missing, HandleNack(e, missing)
  PROVE  Shrinks(e) /\ DOMAIN inflight'[e] = DOMAIN inflight[e]
<1>1. inflight'[e] = Expedite(inflight[e], {missing})
  BY DEF HandleNack, TypeOK
<1>2. IsRingMap(inflight[e], EntryType)  BY DEF TypeOK
<1>3. /\ inflight' = [x \in End |-> inflight'[x]]
      /\ \A x \in End : x # e => inflight'[x] = inflight[x]
  BY DEF HandleNack, TypeOK
<1> HIDE DEF HandleNack
<1>4. QED  BY <1>1, <1>2, <1>3, ExpediteFacts DEF Shrinks

LEMMA AckShrinks ==
  ASSUME TypeOK, NEW e \in End, NEW ack \in Ring, HandleAck(e, ack)
  PROVE  /\ Shrinks(e)
         /\ \A s \in DOMAIN inflight[e] \ DOMAIN inflight'[e] : SeqLt(s, ack)
         /\ dup_ack_count' \in [End -> 0 .. 2]
         /\ last_ack' \in [End -> Ring]
<1> DEFINE m == inflight[e]
           x == IF ThirdDuplicate(e, ack) THEN Expedite(m, Lowest(DOMAIN m)) ELSE m
           left == DOMAIN x \ Acknowledged(ack, DOMAIN x)
<1>1. IsRingMap(m, EntryType)  BY DEF TypeOK
<1>2. /\ IsRingMap(x, EntryType)
      /\ DOMAIN x = DOMAIN m
      /\ \A s \in DOMAIN m : x[s].payload = m[s].payload /\ x[s].ack = m[s].ack
  BY <1>1, ExpediteFacts
<1>3. inflight' = [inflight EXCEPT ![e] = Restrict(x, left)]
  BY DEF HandleAck
<1>4. /\ inflight'[e] = Restrict(x, left)
      /\ inflight' = [y \in End |-> inflight'[y]]
      /\ \A y \in End : y # e => inflight'[y] = inflight[y]
  BY <1>3 DEF TypeOK
<1> HIDE DEF x
<1>5. /\ DOMAIN Restrict(x, left) = left
      /\ \A s \in left : Restrict(x, left)[s] = x[s]
      /\ IsRingMap(Restrict(x, left), EntryType)
  BY <1>2 DEF Restrict, IsRingMap
<1>6. \A s \in DOMAIN m \ left : SeqLt(s, ack)
  BY <1>2 DEF Acknowledged
<1>7. dup_ack_count' \in [End -> 0 .. 2] /\ last_ack' \in [End -> Ring]
  <2>1. /\ dup_ack_count \in [End -> 0 .. 2] /\ last_ack \in [End -> Ring]
    BY DEF TypeOK
  <2>2. /\ dup_ack_count' = [dup_ack_count EXCEPT ![e] =
             IF ack = last_ack[e] /\ dup_ack_count[e] + 1 < 3
               THEN dup_ack_count[e] + 1 ELSE 0]
        /\ last_ack' = [last_ack EXCEPT ![e] = ack]
    BY Zenon DEF HandleAck, Duplicates
  <2>3. QED  BY <2>1, <2>2
<1>8. Shrinks(e)  BY <1>2, <1>4, <1>5 DEF Shrinks
<1>9. QED  BY <1>4, <1>5, <1>6, <1>7, <1>8

\* What poll drops is on record, and what it writes is copied from the window.
LEMMA PollFacts ==
  ASSUME TypeOK, NEW e \in End, NEW overdue \in Overdue(e), Poll(e, overdue)
  PROVE  /\ Shrinks(e)
         /\ \A s \in DOMAIN inflight[e] \ DOMAIN inflight'[e] :
              inflight[e][s].payload \in abandoned'[e]
         /\ abandoned' \in [End -> SUBSET Nat]
         /\ \A x \in End : abandoned[x] \subseteq abandoned'[x]
         /\ \E frames \in Seq(FrameType) :
              /\ Exchange(e, FALSE, frames)
              /\ \A f \in Range(frames) : \E s \in DOMAIN inflight[e] :
                   f = Data(s, inflight[e][s].ack, inflight[e][s].payload)
<1> DEFINE m == inflight[e]
           spent == {s \in overdue : m[s].retries >= MaxRetries}
           again == overdue \ spent
           after == [s \in DOMAIN m |->
                       IF s \in again
                         THEN [m[s] EXCEPT !.retries = @ + 1, !.due = FALSE]
                         ELSE m[s]]
           kept  == {s \in DOMAIN after : after[s].retries < MaxRetries}
<1>1. IsRingMap(m, EntryType)  BY DEF TypeOK
<1>2. overdue \subseteq DOMAIN m  BY DEF Overdue
<1>3. /\ DOMAIN after = DOMAIN m
      /\ IsRingMap(after, EntryType)
      /\ \A s \in DOMAIN m : after[s].payload = m[s].payload /\ after[s].ack = m[s].ack
  <2>1. ASSUME NEW s \in DOMAIN m
        PROVE  /\ after[s] \in EntryType
               /\ after[s].payload = m[s].payload /\ after[s].ack = m[s].ack
    <3>1. m[s] \in EntryType  BY <1>1 DEF IsRingMap
    <3>2. QED  BY <3>1, ChargedEntry
  <2>2. QED  BY <2>1, <1>1 DEF IsRingMap
<1>4. /\ inflight' = [inflight EXCEPT ![e] = Restrict(after, kept)]
      /\ abandoned' = [abandoned EXCEPT
           ![e] = @ \cup {after[s].payload : s \in DOMAIN after \ kept}]
      /\ \E order \in Orderings(again) :
           Exchange(e, FALSE, [i \in DOMAIN order |->
             Data(order[i], m[order[i]].ack, m[order[i]].payload)])
  BY DEF Poll
<1>5. PICK order \in Orderings(again) :
           Exchange(e, FALSE, [i \in DOMAIN order |->
             Data(order[i], m[order[i]].ack, m[order[i]].payload)])
  BY <1>4
<1>6. PICK n \in Nat : order \in [1 .. n -> again]
  <2>1. \E n \in 0 .. Cardinality(again) : order \in [1 .. n -> again]
    BY Zenon DEF Orderings
  <2>2. QED  BY <2>1
<1> HIDE DEF after, kept, again
<1>7. Shrinks(e)
  <2>1. /\ inflight'[e] = Restrict(after, kept)
        /\ inflight' = [y \in End |-> inflight'[y]]
        /\ \A y \in End : y # e => inflight'[y] = inflight[y]
    BY <1>4 DEF TypeOK
  <2>2. kept \subseteq DOMAIN after  BY DEF kept
  <2>3. IsRingMap(Restrict(after, kept), EntryType)
        /\ DOMAIN Restrict(after, kept) = kept
        /\ \A s \in kept : Restrict(after, kept)[s] = after[s]
    BY <1>3, <2>2 DEF Restrict, IsRingMap
  <2>4. QED  BY <2>1, <2>2, <2>3, <1>3 DEF Shrinks
<1>8. \A s \in DOMAIN m \ DOMAIN inflight'[e] : m[s].payload \in abandoned'[e]
  <2>1. DOMAIN inflight'[e] = kept  BY <1>4 DEF Restrict, TypeOK
  <2>2. abandoned'[e] = abandoned[e] \cup {after[s].payload : s \in DOMAIN after \ kept}
    BY <1>4 DEF TypeOK
  <2>3. QED  BY <2>1, <2>2, <1>3
<1>9. abandoned' \in [End -> SUBSET Nat] /\ \A x \in End : abandoned[x] \subseteq abandoned'[x]
  <2>1. {after[s].payload : s \in DOMAIN after \ kept} \subseteq Nat
    BY <1>3 DEF IsRingMap, EntryType
  <2>2. QED  BY <1>4, <2>1 DEF TypeOK
<1>10. \E frames \in Seq(FrameType) :
         /\ Exchange(e, FALSE, frames)
         /\ \A f \in Range(frames) : \E s \in DOMAIN m :
              f = Data(s, m[s].ack, m[s].payload)
  <2> DEFINE frames == [i \in DOMAIN order |->
                          Data(order[i], m[order[i]].ack, m[order[i]].payload)]
  <2>1. again \subseteq DOMAIN m  BY <1>2 DEF again
  <2>2. \A s \in DOMAIN m : Data(s, m[s].ack, m[s].payload) \in FrameType
    BY <1>1 DEF Data, FrameType, IsRingMap, EntryType
  <2>3. frames \in [1 .. n -> FrameType]  BY <1>6, <2>1, <2>2
  <2>4. frames \in Seq(FrameType)  BY <2>3, <1>6
  <2>5. \A f \in Range(frames) : \E s \in DOMAIN m : f = Data(s, m[s].ack, m[s].payload)
    BY <1>6, <2>1 DEF Range
  <2>6. Exchange(e, FALSE, frames)  BY <1>5
  <2>7. QED  BY <2>4, <2>5, <2>6
<1>11. QED  BY <1>7, <1>8, <1>9, <1>10

-----------------------------------------------------------------------------
(* Type correctness *)

\* The frame an endpoint reads was on its peer's line and has its kind's fields.
LEMMA IncomingFrame ==
  ASSUME TypeOK, NEW e \in End, NEW kind, Incoming(e, kind)
  PROVE  LET f == Head(wire[Peer(e)])
         IN /\ wire[Peer(e)] # <<>>
            /\ f \in Range(wire[Peer(e)])
            /\ f.kind = kind
            /\ kind = "data" => f.seq \in Ring /\ f.ack \in Ring /\ f.payload \in Nat
            /\ kind = "ack" => f.ack \in Ring
<1>1. Peer(e) \in End  BY PeerFacts
<1>2. wire[Peer(e)] \in Seq(FrameType) /\ wire[Peer(e)] # <<>>
  BY <1>1 DEF TypeOK, Incoming
<1>3. Head(wire[Peer(e)]) = wire[Peer(e)][1] /\ 1 \in DOMAIN wire[Peer(e)]
  BY <1>2
<1>4. Head(wire[Peer(e)]) \in FrameType  BY <1>2, <1>3
<1>5. Head(wire[Peer(e)]).kind = kind  BY DEF Incoming
<1>6. Head(wire[Peer(e)]) \in Range(wire[Peer(e)])  BY <1>3 DEF Range
<1>7. QED  BY <1>2, <1>4, <1>5, <1>6 DEF FrameType

\* The responses an endpoint writes leave the line well typed.
LEMMA ReceiveFacts ==
  ASSUME TypeOK, NEW e \in End, NEW kind, Incoming(e, kind),
         NEW responses \in Seq(FrameType), Receive(e, responses)
  PROVE  /\ wire' \in [End -> Seq(FrameType)]
         /\ Range(wire'[e]) \subseteq Range(wire[e]) \cup Range(responses)
         /\ Range(wire'[Peer(e)]) \subseteq Range(wire[Peer(e)])
         /\ feeding' \in [End -> BOOLEAN]
         /\ UNCHANGED <<send_seq, failed, running, losses, sent, abandoned>>
<1>1. wire \in [End -> Seq(FrameType)] /\ wire[Peer(e)] # <<>>
  BY DEF TypeOK, Incoming
<1>2. Exchange(e, TRUE, responses)  BY DEF Receive
<1>3. /\ wire' \in [End -> Seq(FrameType)]
      /\ Range(wire'[e]) \subseteq Range(wire[e]) \cup Range(responses)
      /\ Range(wire'[Peer(e)]) \subseteq Range(wire[Peer(e)])
  BY <1>1, <1>2, ExchangeFrames
<1>4. feeding' \in [End -> BOOLEAN]  BY DEF Receive, TypeOK
<1>5. QED  BY <1>3, <1>4 DEF Receive

LEMMA AckOfFrame ==
  ASSUME TypeOK, NEW e \in End, NEW ack \in Ring,
         \/ ack # 0 /\ HandleAck(e, ack)
         \/ ack = 0 /\ UNCHANGED senderVars
  PROVE  /\ Shrinks(e)
         /\ \A s \in DOMAIN inflight[e] \ DOMAIN inflight'[e] : SeqLt(s, ack)
         /\ dup_ack_count' \in [End -> 0 .. 2]
         /\ last_ack' \in [End -> Ring]
<1>1. CASE HandleAck(e, ack)  BY <1>1, AckShrinks
<1>2. CASE UNCHANGED senderVars
  <2>1. inflight' = inflight /\ dup_ack_count' = dup_ack_count /\ last_ack' = last_ack
    BY <1>2 DEF senderVars
  <2>2. Shrinks(e)  BY <2>1 DEF Shrinks, TypeOK
  <2>3. QED  BY <2>1, <2>2 DEF TypeOK
<1>3. QED  BY <1>1, <1>2

LEMMA ShrinksType ==
  ASSUME TypeOK, NEW e \in End, Shrinks(e)
  PROVE  /\ inflight' = [x \in End |-> inflight'[x]]
         /\ \A x \in End : IsRingMap(inflight'[x], EntryType)
BY DEF Shrinks, TypeOK

LEMMA TypeInit == Init => TypeOK
<1> SUFFICES ASSUME Init PROVE TypeOK
  OBVIOUS
<1>1. 0 \in Ring  BY RingFacts DEF Ring
<1>2. IsRingMap(<<>>, EntryType) /\ IsRingMap(<<>>, Nat)
  BY DEF IsRingMap
<1>3. QED  BY <1>1, <1>2 DEF Init, TypeOK

LEMMA PrepareSendType ==
  ASSUME TypeOK, NEW e \in End, PrepareSend(e)
  PROVE  TypeOK'
<1> DEFINE seq == send_seq[e]
           p   == sent[e] + 1
           m   == [s \in DOMAIN inflight[e] \cup {seq} |->
                     IF s = seq THEN Entry(send_ack[e], p) ELSE inflight[e][s]]
           f   == Data(seq, send_ack[e], p)
<1>1. /\ send_seq' = [send_seq EXCEPT ![e] = WrappingAdd(seq, 1)]
      /\ inflight' = [inflight EXCEPT ![e] = m]
      /\ Exchange(e, FALSE, <<f>>)
      /\ sent' = [sent EXCEPT ![e] = p]
      /\ UNCHANGED <<dup_ack_count, last_ack, receiverVars, failed, feeding,
                     running, losses, abandoned>>
  BY DEF PrepareSend
<1>2. seq \in Ring /\ p \in Nat /\ send_ack[e] \in Ring  BY DEF TypeOK
<1>3. WrappingAdd(seq, 1) \in Ring
  BY <1>2, AddValue, RingFacts
<1>4. IsRingMap(m, EntryType)
  <2>1. Entry(send_ack[e], p) \in EntryType  BY <1>2 DEF Entry, EntryType
  <2>2. QED  BY <1>2, <2>1 DEF TypeOK, IsRingMap
<1>5. f \in FrameType  BY <1>2 DEF Data, FrameType
<1>6. wire' \in [End -> Seq(FrameType)]
  <2>1. <<f>> \in Seq(FrameType)  BY <1>5
  <2>2. QED  BY <1>1, <2>1, ExchangeFrames DEF TypeOK
<1> HIDE DEF m, f
<1>7. /\ inflight' = [x \in End |-> inflight'[x]]
      /\ \A x \in End : IsRingMap(inflight'[x], EntryType)
  BY <1>1, <1>4 DEF TypeOK
<1>8. QED  BY <1>1, <1>2, <1>3, <1>6, <1>7 DEF TypeOK, receiverVars

LEMMA ReceiveAckType ==
  ASSUME TypeOK, NEW e \in End, ReceiveAck(e) \/ ReceiveNack(e)
  PROVE  TypeOK'
<1>1. /\ Shrinks(e)
      /\ dup_ack_count' \in [End -> 0 .. 2]
      /\ last_ack' \in [End -> Ring]
  <2>1. CASE ReceiveAck(e)
    <3>1. Head(wire[Peer(e)]).ack \in Ring  BY <2>1, IncomingFrame DEF ReceiveAck
    <3>2. QED  BY <2>1, <3>1, AckShrinks DEF ReceiveAck
  <2>2. CASE ReceiveNack(e)
    BY <2>2, NackShrinks DEF ReceiveNack, HandleNack, TypeOK
  <2>3. QED  BY <2>1, <2>2
<1>2. /\ wire' \in [End -> Seq(FrameType)]
      /\ feeding' \in [End -> BOOLEAN]
      /\ UNCHANGED <<send_seq, failed, running, losses, sent, abandoned>>
  <2>1. <<>> \in Seq(FrameType)  OBVIOUS
  <2>2. QED  BY <2>1, ReceiveFacts DEF ReceiveAck, ReceiveNack
<1>3. UNCHANGED receiverVars  BY DEF ReceiveAck, ReceiveNack
<1>4. QED  BY <1>1, <1>2, <1>3, ShrinksType DEF TypeOK, receiverVars

LEMMA DeliverDataType ==
  ASSUME TypeOK, NEW e \in End, NEW f, f.seq \in Ring, f.payload \in Nat,
         Incoming(e, "data"), DeliverData(e, f)
  PROVE  /\ recv_next' \in [End -> Ring] /\ send_ack' \in [End -> Ring]
         /\ recv_buffer' = [x \in End |-> recv_buffer'[x]]
         /\ \A x \in End : IsRingMap(recv_buffer'[x], Nat)
         /\ delivered' \in [End -> Seq(Nat)]
         /\ \E ack \in Ring : Receive(e, <<Ack(ack)>>)
<1>1. PICK n \in 0 .. Cardinality(DOMAIN recv_buffer[e]) :
        LET next    == WrappingAdd(recv_next[e], n + 1)
            drained == {WrappingAdd(recv_next[e], i) : i \in 1 .. n}
        IN /\ Drains(e, n)
           /\ delivered' = [delivered EXCEPT ![e] = (@ \o <<f.payload>>) \o
                [i \in 1 .. n |-> recv_buffer[e][WrappingAdd(recv_next[e], i)]]]
           /\ recv_buffer' = [recv_buffer EXCEPT
                ![e] = Restrict(@, DOMAIN @ \ drained)]
           /\ recv_next' = [recv_next EXCEPT ![e] = next]
           /\ send_ack' = [send_ack EXCEPT ![e] = next]
           /\ Receive(e, <<Ack(next)>>)
  BY Zenon DEF DeliverData
<1> DEFINE next    == WrappingAdd(recv_next[e], n + 1)
           drained == {WrappingAdd(recv_next[e], i) : i \in 1 .. n}
           tail    == [i \in 1 .. n |->
                         recv_buffer[e][WrappingAdd(recv_next[e], i)]]
<1>2. n \in Nat  OBVIOUS
<1>3. next \in Ring
  <2>1. recv_next[e] \in Ring /\ n + 1 \in Nat
    BY <1>2 DEF TypeOK
  <2>2. QED  BY <2>1, AddOnRing
<1>4. tail \in Seq(Nat)
  <2>1. \A i \in 1 .. n : recv_buffer[e][WrappingAdd(recv_next[e], i)] \in Nat
    BY <1>1 DEF Drains, TypeOK, IsRingMap
  <2>2. QED  BY <1>2, <2>1
<1>5. delivered' \in [End -> Seq(Nat)]
  <2>1. delivered[e] \o <<f.payload>> \in Seq(Nat)  BY DEF TypeOK
  <2>2. (delivered[e] \o <<f.payload>>) \o tail \in Seq(Nat)  BY <2>1, <1>4
  <2>3. delivered' = [delivered EXCEPT ![e] = (@ \o <<f.payload>>) \o tail]  BY <1>1
  <2>4. QED  BY <2>2, <2>3 DEF TypeOK
<1>6. IsRingMap(Restrict(recv_buffer[e], DOMAIN recv_buffer[e] \ drained), Nat)
  BY DEF TypeOK, IsRingMap, Restrict
<1>7. /\ recv_buffer' = [x \in End |-> recv_buffer'[x]]
      /\ \A x \in End : IsRingMap(recv_buffer'[x], Nat)
  BY <1>1, <1>6 DEF TypeOK
<1>8. recv_next' \in [End -> Ring] /\ send_ack' \in [End -> Ring]
  BY <1>1, <1>3 DEF TypeOK
<1>9. QED  BY <1>1, <1>3, <1>5, <1>7, <1>8

LEMMA KeepDataType ==
  ASSUME TypeOK, NEW e \in End, NEW f, f.seq \in Ring, f.payload \in Nat,
         BufferData(e, f) \/ RepeatAck(e, f)
  PROVE  /\ recv_next' = recv_next /\ delivered' = delivered
         /\ send_ack' = [send_ack EXCEPT ![e] = recv_next[e]]
         /\ recv_buffer' = [x \in End |-> recv_buffer'[x]]
         /\ \A x \in End : IsRingMap(recv_buffer'[x], Nat)
         /\ \E responses \in Seq(FrameType) :
              /\ Receive(e, responses)
              /\ \A r \in Range(responses) :
                   \/ r = Nack(recv_next[e]) \/ r = Ack(recv_next[e])
<1> DEFINE m == recv_buffer[e]
           grown == [s \in DOMAIN m \cup {f.seq} |-> IF s = f.seq THEN f.payload ELSE m[s]]
<1>1. IsRingMap(m, Nat) /\ IsRingMap(grown, Nat)  BY DEF TypeOK, IsRingMap
<1>2. recv_next[e] \in Ring  BY DEF TypeOK
<1>3. Nack(recv_next[e]) \in FrameType /\ Ack(recv_next[e]) \in FrameType
  BY <1>2 DEF Nack, Ack, FrameType
<1>4. CASE BufferData(e, f)
  <2>1. recv_buffer' = [recv_buffer EXCEPT ![e] = grown] \/ recv_buffer' = recv_buffer
    <3>1. CASE Cardinality(DOMAIN m) < MaxRecvBuffer /\ f.seq \notin DOMAIN m
      BY <1>4, <3>1 DEF BufferData
    <3>2. CASE ~(Cardinality(DOMAIN m) < MaxRecvBuffer /\ f.seq \notin DOMAIN m)
      <4>1. recv_buffer' = [recv_buffer EXCEPT ![e] = recv_buffer[e]]
        BY <1>4, <3>2 DEF BufferData
      <4>2. QED  BY <4>1 DEF TypeOK
    <3>3. QED  BY <3>1, <3>2
  <2>2. /\ recv_buffer' = [x \in End |-> recv_buffer'[x]]
        /\ \A x \in End : IsRingMap(recv_buffer'[x], Nat)
    BY <2>1, <1>1 DEF TypeOK
  <2> DEFINE rs == <<Nack(recv_next[e]), Ack(recv_next[e])>>
  <2>3. rs \in Seq(FrameType)
    BY <1>3
  <2>4. \A r \in Range(rs) : r = Nack(recv_next[e]) \/ r = Ack(recv_next[e])
    BY DEF Range
  <2>5. Receive(e, rs)  BY <1>4 DEF BufferData
  <2>6. QED  BY <1>4, <2>2, <2>3, <2>4, <2>5 DEF BufferData
<1>5. CASE RepeatAck(e, f)
  <2> DEFINE rs == <<Ack(recv_next[e])>>
  <2>1. rs \in Seq(FrameType)  BY <1>3
  <2>2. \A r \in Range(rs) : r = Ack(recv_next[e])  BY DEF Range
  <2>3. Receive(e, rs)  BY <1>5 DEF RepeatAck
  <2>4. /\ recv_buffer' = [x \in End |-> recv_buffer'[x]]
        /\ \A x \in End : IsRingMap(recv_buffer'[x], Nat)
    BY <1>5 DEF RepeatAck, TypeOK
  <2>5. QED  BY <1>5, <2>1, <2>2, <2>3, <2>4 DEF RepeatAck
<1>6. QED  BY <1>4, <1>5

LEMMA ReceiveDataType ==
  ASSUME TypeOK, NEW e \in End, ReceiveData(e)
  PROVE  TypeOK'
<1> DEFINE f == Head(wire[Peer(e)])
<1>1. f.seq \in Ring /\ f.ack \in Ring /\ f.payload \in Nat /\ Incoming(e, "data")
  BY IncomingFrame DEF ReceiveData
<1>2. /\ Shrinks(e)
      /\ dup_ack_count' \in [End -> 0 .. 2]
      /\ last_ack' \in [End -> Ring]
  BY <1>1, AckOfFrame DEF ReceiveData
<1>3. /\ recv_next' \in [End -> Ring] /\ send_ack' \in [End -> Ring]
      /\ recv_buffer' = [x \in End |-> recv_buffer'[x]]
      /\ \A x \in End : IsRingMap(recv_buffer'[x], Nat)
      /\ delivered' \in [End -> Seq(Nat)]
      /\ \E responses \in Seq(FrameType) : Receive(e, responses)
  <2>1. CASE DeliverData(e, f)
    <3>1. \A ack \in Ring : <<Ack(ack)>> \in Seq(FrameType)
      BY DEF Ack, FrameType
    <3>2. QED  BY <1>1, <2>1, <3>1, DeliverDataType
  <2>2. CASE BufferData(e, f) \/ RepeatAck(e, f)
    <3>1. recv_next \in [End -> Ring] /\ recv_next[e] \in Ring
          /\ send_ack \in [End -> Ring] /\ delivered \in [End -> Seq(Nat)]
      BY DEF TypeOK
    <3>2. QED  BY <1>1, <2>2, <3>1, KeepDataType
  <2>3. QED  BY <2>1, <2>2 DEF ReceiveData
<1>4. /\ wire' \in [End -> Seq(FrameType)]
      /\ feeding' \in [End -> BOOLEAN]
      /\ UNCHANGED <<send_seq, failed, running, losses, sent, abandoned>>
  BY <1>1, <1>3, ReceiveFacts
<1>5. QED  BY <1>2, <1>3, <1>4, ShrinksType DEF TypeOK

LEMMA PollType ==
  ASSUME TypeOK, NEW e \in End, NEW overdue \in Overdue(e), Poll(e, overdue),
         feeding' \in [End -> BOOLEAN], running' \in [End -> BOOLEAN]
  PROVE  TypeOK'
<1>1. Shrinks(e) /\ abandoned' \in [End -> SUBSET Nat]  BY PollFacts
<1>2. wire' \in [End -> Seq(FrameType)]
  <2>1. PICK frames \in Seq(FrameType) : Exchange(e, FALSE, frames)  BY PollFacts
  <2>2. QED  BY <2>1, ExchangeFrames DEF TypeOK
<1>3. failed' \in [End -> BOOLEAN]
      /\ UNCHANGED <<send_seq, dup_ack_count, last_ack, receiverVars, losses, sent>>
  <2>1. failed \in [End -> BOOLEAN]  BY DEF TypeOK
  <2>2. \E b \in BOOLEAN : failed' = [failed EXCEPT ![e] = b]
    BY <2>1, Zenon DEF Poll
  <2>3. QED  BY <2>1, <2>2 DEF Poll
<1>4. QED  BY <1>1, <1>2, <1>3, ShrinksType DEF TypeOK, receiverVars

\* Removing a frame from the line adds none.
LEMMA LoseFrames ==
  ASSUME TypeOK, NEW e \in End, Lose(e)
  PROVE  /\ wire' \in [End -> Seq(FrameType)]
         /\ \A x \in End : Range(wire'[x]) \subseteq Range(wire[x])
<1>1. PICK i \in DOMAIN wire[e] :
        wire' = [wire EXCEPT
                   ![e] = SubSeq(@, 1, i - 1) \o SubSeq(@, i + 1, Len(@))]
  BY DEF Lose
<1> DEFINE w == wire[e]
           front == SubSeq(w, 1, i - 1)
           back  == SubSeq(w, i + 1, Len(w))
<1>2. w \in Seq(FrameType) /\ i \in 1 .. Len(w)  BY DEF TypeOK
<1>3. /\ front \in Seq(FrameType) /\ Len(front) = i - 1
      /\ \A j \in 1 .. i - 1 : front[j] = w[j]
  BY <1>2
<1>4. /\ back \in Seq(FrameType) /\ Len(back) = Len(w) - i
      /\ \A j \in 1 .. Len(w) - i : back[j] = w[i + j]
  BY <1>2
<1> HIDE DEF front, back
<1>5. front \o back \in Seq(FrameType)
      /\ \A j \in DOMAIN (front \o back) : \E k \in DOMAIN w : (front \o back)[j] = w[k]
  <2> DEFINE joined == front \o back
  <2>1. /\ joined \in Seq(FrameType)
        /\ Len(joined) = Len(w) - 1
    <3>1. Len(w) \in Nat
      BY <1>2
    <3>2. joined \in Seq(FrameType) /\ Len(joined) = Len(front) + Len(back)
      BY <1>3, <1>4
    <3>3. QED  BY <1>2, <1>3, <1>4, <3>1, <3>2
  <2>2. ASSUME NEW j \in 1 .. i - 1
        PROVE  joined[j] = w[j] /\ j \in DOMAIN w
    BY <1>2, <1>3, <1>4
  <2>3. ASSUME NEW j \in i .. Len(w) - 1
        PROVE  joined[j] = w[j + 1] /\ j + 1 \in DOMAIN w
    <3>1. joined[j] = back[j - (i - 1)]
      BY <1>2, <1>3, <1>4
    <3>2. j - (i - 1) \in 1 .. Len(w) - i
      BY <1>2
    <3>3. back[j - (i - 1)] = w[i + (j - (i - 1))]
      BY <1>4, <3>2
    <3>4. i + (j - (i - 1)) = j + 1
      BY <1>2
    <3>5. QED  BY <1>2, <3>1, <3>3, <3>4
  <2>4. ASSUME NEW j \in DOMAIN joined
        PROVE  j \in 1 .. i - 1 \/ j \in i .. Len(w) - 1
    BY <1>2, <2>1
  <2>5. QED  BY <2>1, <2>2, <2>3, <2>4
<1>6. wire' = [wire EXCEPT ![e] = front \o back]  BY <1>1 DEF front, back
<1>7. QED  BY <1>5, <1>6 DEF TypeOK, Range

LEMMA TypeStep ==
  ASSUME TypeOK, [Next]_vars
  PROVE  TypeOK'
<1>1. CASE UNCHANGED vars
  BY <1>1 DEF vars, senderVars, receiverVars, TypeOK
<1>2. ASSUME NEW e \in End, PrepareSend(e)
      PROVE  TypeOK'
  BY <1>2, PrepareSendType
<1>3. ASSUME NEW e \in End, ReceiveAck(e) \/ ReceiveNack(e)
      PROVE  TypeOK'
  BY <1>3, ReceiveAckType
<1>4. ASSUME NEW e \in End, ReceiveData(e)
      PROVE  TypeOK'
  BY <1>4, ReceiveDataType
<1>5. ASSUME NEW e \in End, NEW overdue \in Overdue(e), EndFeed(e, overdue)
      PROVE  TypeOK'
  <2>1. feeding' \in [End -> BOOLEAN] /\ running' \in [End -> BOOLEAN]
    BY <1>5 DEF EndFeed, TypeOK
  <2>2. QED  BY <1>5, <2>1, PollType DEF EndFeed
<1>6. ASSUME NEW e \in End, NEW overdue \in Overdue(e), Tick(e, overdue)
      PROVE  TypeOK'
  <2>1. /\ feeding' = feeding
        /\ \E b \in BOOLEAN : running' = [running EXCEPT ![e] = b]
    BY <1>6, Zenon DEF Tick
  <2>2. feeding' \in [End -> BOOLEAN] /\ running' \in [End -> BOOLEAN]
    BY <2>1 DEF TypeOK
  <2>3. QED  BY <1>6, <2>2, PollType DEF Tick
<1>7. ASSUME NEW e \in End, Lose(e)
      PROVE  TypeOK'
  <2>1. wire' \in [End -> Seq(FrameType)]
    BY <1>7, LoseFrames
  <2>2. losses' \in Nat
    BY <1>7 DEF Lose, TypeOK
  <2>3. UNCHANGED <<send_seq, inflight, dup_ack_count, last_ack, recv_next,
                    send_ack, recv_buffer, delivered, failed, feeding,
                    running, sent, abandoned>>
    BY <1>7 DEF Lose, senderVars, receiverVars
  <2>4. QED  BY <2>1, <2>2, <2>3 DEF TypeOK
<1>8. QED  BY <1>1, <1>2, <1>3, <1>4, <1>5, <1>6, <1>7 DEF Next

\* Every reachable state is well typed.
THEOREM TypeCorrect == Spec => []TypeOK
<1>1. Init => TypeOK  BY TypeInit
<1>2. TypeOK /\ [Next]_vars => TypeOK'  BY TypeStep
<1>3. QED  BY <1>1, <1>2, PTL DEF Spec

-----------------------------------------------------------------------------
(* Distances *)

LEMMA BehindFacts ==
  ASSUME TypeOK, NEW e \in End, NEW x \in Ring
  PROVE  Behind(e, x) \in Nat
<1>1. send_seq[e] \in Ring  BY DEF TypeOK
<1>2. Behind(e, x) \in Ring  BY <1>1, SubValue DEF Behind
<1>3. QED  BY <1>2 DEF Ring

\* Nothing about the stream of e changes but what its receiver handed out.
LEMMA SameNumbers ==
  ASSUME NEW e \in End, send_seq'[e] = send_seq[e], sent'[e] = sent[e],
         NEW s, NEW p, Numbers(e, s, p)
  PROVE  Numbers(e, s, p)'
BY DEF Numbers, Behind

LEMMA SameAcknowledges ==
  ASSUME TypeOK, NEW e \in End, NEW a \in Ring, Acknowledges(e, a),
         send_seq'[e] = send_seq[e], sent'[e] = sent[e],
         Len(delivered'[Peer(e)]) \in Nat,
         Len(delivered'[Peer(e)]) >= Len(delivered[Peer(e)])
  PROVE  Acknowledges(e, a)'
<1>1. sent[e] \in Nat /\ Len(delivered[Peer(e)]) \in Nat
  BY PeerFacts DEF TypeOK
<1>2. Behind(e, a)' = Behind(e, a) /\ Behind(e, a) \in Nat
  BY BehindFacts DEF Behind
<1>3. QED  BY <1>1, <1>2 DEF Acknowledges

\* Every ACK in use is a number of the ring.
LEMMA AckTypes ==
  ASSUME TypeOK, NEW e \in End
  PROVE  /\ \A f \in Range(wire[e]) :
              /\ f.kind \in {"data", "ack", "nack"}
              /\ f.kind # "nack" => f.ack \in Ring
              /\ f.kind = "data" => f.seq \in Ring /\ f.payload \in Nat
         /\ \A s \in DOMAIN inflight[e] :
              /\ s \in Ring /\ inflight[e][s].ack \in Ring
              /\ inflight[e][s].payload \in Nat
         /\ \A s \in DOMAIN recv_buffer[e] : s \in Ring /\ recv_buffer[e][s] \in Nat
<1>1. Range(wire[e]) \subseteq FrameType
  BY DEF TypeOK, Range
<1>2. ASSUME NEW f \in FrameType
      PROVE  /\ f.kind \in {"data", "ack", "nack"}
             /\ f.kind # "nack" => f.ack \in Ring
             /\ f.kind = "data" => f.seq \in Ring /\ f.payload \in Nat
  BY DEF FrameType
<1>3. \A s \in DOMAIN inflight[e] : s \in Ring /\ inflight[e][s] \in EntryType
  BY DEF TypeOK, IsRingMap
<1>4. \A s \in DOMAIN recv_buffer[e] : s \in Ring /\ recv_buffer[e][s] \in Nat
  BY DEF TypeOK, IsRingMap
<1>5. QED  BY <1>1, <1>2, <1>3, <1>4 DEF EntryType

-----------------------------------------------------------------------------
(* Steps that send no new payload *)

\* A frame e writes again is a copy of one in its window.
Copies(e, f) ==
  \E s \in DOMAIN inflight[e] :
    f = Data(s, inflight[e][s].ack, inflight[e][s].payload)

LEMMA FramesKept ==
  ASSUME TypeOK, StreamInv, NEW e \in End,
         send_seq'[e] = send_seq[e], sent'[e] = sent[e],
         DOMAIN inflight'[e] \subseteq DOMAIN inflight[e],
         \A s \in DOMAIN inflight'[e] :
           inflight'[e][s].payload = inflight[e][s].payload,
         \A f \in Range(wire'[e]) :
           f \in Range(wire[e]) \/ f.kind # "data" \/ Copies(e, f)
  PROVE  FramesInv(e)'
<1>1. FramesInv(e)  BY DEF StreamInv
<1>2. ASSUME NEW f \in Range(wire'[e]), f.kind = "data"
      PROVE  Numbers(e, f.seq, f.payload)'
  <2>1. Numbers(e, f.seq, f.payload)
    <3>1. CASE f \in Range(wire[e])  BY <3>1, <1>1, <1>2 DEF FramesInv
    <3>2. CASE Copies(e, f)  BY <3>2, <1>1 DEF FramesInv, Copies, Data
    <3>3. QED  BY <3>1, <3>2, <1>2
  <2>2. QED  BY <2>1, SameNumbers
<1>3. ASSUME NEW s \in DOMAIN inflight'[e], NEW p, p = inflight[e][s].payload
      PROVE  Numbers(e, s, p)' /\ p = inflight'[e][s].payload
  <2>1. Numbers(e, s, p)  BY <1>1, <1>3 DEF FramesInv
  <2>2. QED  BY <2>1, <1>3, SameNumbers
<1>4. QED  BY <1>2, <1>3 DEF FramesInv

LEMMA AcksKept ==
  ASSUME TypeOK, StreamInv, NEW e \in End, NEW q \in End, q = Peer(e),
         send_seq'[e] = send_seq[e], sent'[e] = sent[e],
         Len(delivered'[q]) \in Nat,
         Len(delivered'[q]) >= Len(delivered[q]),
         DOMAIN inflight'[q] \subseteq DOMAIN inflight[q],
         \A s \in DOMAIN inflight'[q] : inflight'[q][s].ack = inflight[q][s].ack,
         \A f \in Range(wire'[q]) :
           \/ f \in Range(wire[q]) \/ f.kind = "nack" \/ Copies(q, f)
           \/ Acknowledges(e, f.ack)'
  PROVE  AcksInv(e)'
<1>1. AcksInv(e)  BY DEF StreamInv
<1>2. ASSUME NEW f \in Range(wire'[q]), f.kind # "nack"
      PROVE  Acknowledges(e, f.ack)'
  <2>1. CASE f \in Range(wire[q])
    <3>1. f.ack \in Ring /\ Acknowledges(e, f.ack)
      BY <2>1, <1>1, <1>2, AckTypes DEF AcksInv
    <3>2. QED  BY <3>1, SameAcknowledges
  <2>2. CASE Copies(q, f)
    <3>1. PICK s \in DOMAIN inflight[q] :
            f = Data(s, inflight[q][s].ack, inflight[q][s].payload)
      BY <2>2 DEF Copies
    <3>2. f.ack = inflight[q][s].ack  BY <3>1 DEF Data
    <3>3. f.ack \in Ring /\ Acknowledges(e, f.ack)
      BY <3>2, <1>1, AckTypes DEF AcksInv
    <3>4. QED  BY <3>3, SameAcknowledges
  <2>3. QED  BY <2>1, <2>2, <1>2
<1>3. ASSUME NEW s \in DOMAIN inflight'[q], NEW a, a = inflight[q][s].ack
      PROVE  Acknowledges(e, a)' /\ a = inflight'[q][s].ack
  <2>1. a \in Ring /\ Acknowledges(e, a)
    BY <1>1, <1>3, AckTypes DEF AcksInv
  <2>2. QED  BY <2>1, <1>3, SameAcknowledges
<1>4. QED  BY <1>2, <1>3 DEF AcksInv

\* A step that hands in nothing and hands out nothing keeps the invariant.
LEMMA QuietStep ==
  ASSUME TypeOK, StreamInv, NEW e \in End, Shrinks(e),
         UNCHANGED <<send_seq, sent>>, UNCHANGED receiverVars,
         \A f \in Range(wire'[e]) : f \in Range(wire[e]) \/ Copies(e, f),
         Range(wire'[Peer(e)]) \subseteq Range(wire[Peer(e)])
  PROVE  StreamInv'
<1>1. ASSUME NEW x \in End
      PROVE  /\ DOMAIN inflight'[x] \subseteq DOMAIN inflight[x]
             /\ \A s \in DOMAIN inflight'[x] :
                  /\ inflight'[x][s].payload = inflight[x][s].payload
                  /\ inflight'[x][s].ack = inflight[x][s].ack
             /\ \A f \in Range(wire'[x]) : f \in Range(wire[x]) \/ Copies(x, f)
  <2>1. CASE x = e  BY <2>1 DEF Shrinks
  <2>2. CASE x = Peer(e)
    <3>1. x # e /\ inflight'[x] = inflight[x]  BY <2>2, PeerFacts DEF Shrinks
    <3>2. QED  BY <2>2, <3>1
  <2>3. QED  BY <2>1, <2>2, PeerFacts
<1>2. ASSUME NEW x \in End
      PROVE  FramesInv(x)' /\ AcksInv(x)'
  <2>1. Peer(x) \in End /\ Len(delivered[Peer(x)]) \in Nat
    BY PeerFacts DEF TypeOK
  <2>2. send_seq' = send_seq /\ sent' = sent /\ delivered' = delivered
    BY DEF receiverVars
  <2>3. FramesInv(x)'  BY <1>1, <2>2, FramesKept
  <2>4. \A f \in Range(wire'[Peer(x)]) :
          f \in Range(wire[Peer(x)]) \/ Copies(Peer(x), f)
    BY <1>1, <2>1
  <2>5. Len(delivered'[Peer(x)]) \in Nat
        /\ Len(delivered'[Peer(x)]) >= Len(delivered[Peer(x)])
    BY <2>1, <2>2
  <2>6. AcksInv(x)'  BY <1>1, <2>1, <2>2, <2>4, <2>5, AcksKept
  <2>7. QED  BY <2>3, <2>6
<1>3. ASSUME NEW x \in End
      PROVE  CursorInv(x)' /\ BufferInv(x)'
  <2>1. CursorInv(x) /\ BufferInv(x)  BY DEF StreamInv
  <2>2. QED
    BY <2>1 DEF receiverVars, CursorInv, BufferInv, Numbers, Behind
<1>4. QED  BY <1>2, <1>3 DEF StreamInv

-----------------------------------------------------------------------------
(* prepare_send *)

\* A number in use falls one further behind, and stays within half a ring.
LEMMA FallsBehind ==
  ASSUME TypeOK, NEW e \in End, NEW x \in Ring, Behind(e, x) < HalfRing,
         send_seq' = [send_seq EXCEPT ![e] = WrappingAdd(@, 1)]
  PROVE  /\ Behind(e, x)' = Behind(e, x) + 1
         /\ Behind(e, x)' <= HalfRing
<1>1. send_seq[e] \in Ring /\ send_seq'[e] = WrappingAdd(send_seq[e], 1)
  BY DEF TypeOK
<1>2. Behind(e, x)' = Behind(e, x) + 1
  BY <1>1, SenderAdvances DEF Behind
<1>3. QED  BY <1>2, BehindFacts, RingFacts

\* The numbers the ring guard speaks about.
LEMMA InUseMembers ==
  ASSUME TypeOK, NEW e \in End, NEW q \in End, q = Peer(e)
  PROVE  /\ InUse(e) \subseteq Ring
         /\ recv_next[q] \in InUse(e)
         /\ \A f \in Range(wire[e]) : f.kind = "data" => f.seq \in InUse(e)
         /\ \A s \in DOMAIN inflight[e] : s \in InUse(e)
         /\ \A f \in Range(wire[q]) : f.kind # "nack" => f.ack \in InUse(e)
         /\ \A s \in DOMAIN inflight[q] : inflight[q][s].ack \in InUse(e)
<1> DEFINE seqs == {wire[e][i].seq : i \in InTransit(e, "data")}
           acks == {wire[q][i].ack :
                      i \in InTransit(q, "data") \cup InTransit(q, "ack")}
           held == {inflight[q][s].ack : s \in DOMAIN inflight[q]}
<1>1. InUse(e) = {recv_next[q]} \cup DOMAIN inflight[e] \cup seqs \cup acks \cup held
  BY DEF InUse
<1>2. \A x \in End : \A i \in DOMAIN wire[x] : wire[x][i] \in Range(wire[x])
  BY DEF Range
<1>3. seqs \subseteq Ring  BY <1>2, AckTypes DEF InTransit
<1>4. acks \subseteq Ring
  <2>1. \A i \in InTransit(q, "data") \cup InTransit(q, "ack") :
          wire[q][i] \in Range(wire[q]) /\ wire[q][i].kind # "nack"
    BY <1>2 DEF InTransit
  <2>2. QED  BY <2>1, AckTypes
<1>5. held \subseteq Ring  BY AckTypes
<1>6. recv_next[q] \in Ring /\ DOMAIN inflight[e] \subseteq Ring
  BY AckTypes DEF TypeOK
<1>7. ASSUME NEW f \in Range(wire[e]), f.kind = "data"
      PROVE  f.seq \in seqs
  BY <1>7 DEF InTransit, Range
<1>8. ASSUME NEW f \in Range(wire[q]), f.kind # "nack"
      PROVE  f.ack \in acks
  <2>1. f.kind = "data" \/ f.kind = "ack"  BY <1>8, AckTypes
  <2>2. QED  BY <2>1 DEF InTransit, Range
<1>9. \A s \in DOMAIN inflight[q] : inflight[q][s].ack \in held
  OBVIOUS
<1> HIDE DEF seqs, acks, held
<1>10. QED  BY <1>1, <1>3, <1>4, <1>5, <1>6, <1>7, <1>8, <1>9

LEMMA PrepareSendKeeps ==
  ASSUME MaxLag <= HalfRing, TypeOK, StreamInv, NEW e \in End, PrepareSend(e),
         NEW seq, seq = send_seq[e], NEW p, p = sent[e] + 1,
         NEW ack, ack = send_ack[e]
  PROVE  StreamInv'
<1> DEFINE q   == Peer(e)
           f   == Data(seq, ack, p)
           m   == [s \in DOMAIN inflight[e] \cup {seq} |->
                     IF s = seq THEN Entry(ack, p) ELSE inflight[e][s]]
<1>1. /\ send_seq' = [send_seq EXCEPT ![e] = WrappingAdd(@, 1)]
      /\ inflight' = [inflight EXCEPT ![e] = m]
      /\ Exchange(e, FALSE, <<f>>)
      /\ sent' = [sent EXCEPT ![e] = @ + 1]
      /\ UNCHANGED receiverVars
      /\ RingFresh(e)
  BY DEF PrepareSend
<1>2. /\ q \in End /\ q # e /\ Peer(q) = e /\ \A x \in End : x = e \/ x = q
      /\ seq \in Ring /\ ack \in Ring /\ p \in Nat /\ sent[e] \in Nat
      /\ Len(delivered[q]) \in Nat /\ Len(delivered[e]) \in Nat
      /\ sent'[e] = sent[e] + 1 /\ sent'[q] = sent[q]
      /\ send_seq'[q] = send_seq[q]
      /\ inflight'[e] = m /\ inflight'[q] = inflight[q]
  BY <1>1, PeerFacts DEF TypeOK
<1>3. /\ Range(wire'[e]) \subseteq Range(wire[e]) \cup {f}
      /\ Range(wire'[q]) \subseteq Range(wire[q])
  <2>1. <<f>> \in Seq(FrameType) /\ Range(<<f>>) = {f}
    BY <1>2 DEF Range, Data, FrameType
  <2>2. QED  BY <1>1, <2>1, ExchangeFrames DEF TypeOK
<1>4. ASSUME NEW x \in InUse(e)
      PROVE  /\ Behind(e, x)' = Behind(e, x) + 1
             /\ Behind(e, x)' <= HalfRing
             /\ Behind(e, x) \in Nat
  <2>1. x \in Ring  BY <1>2, InUseMembers
  <2>2. Behind(e, x) < MaxLag  BY <1>1 DEF RingFresh, Behind
  <2>3. Behind(e, x) \in Nat  BY <2>1, BehindFacts
  <2>4. Behind(e, x) < HalfRing  BY <2>2, <2>3, RingFacts, BoundAssumption
  <2>5. QED  BY <1>1, <2>1, <2>3, <2>4, FallsBehind
<1> HIDE DEF m, f
\* The new frame, and the numbers the payloads already had.
<1>5. Numbers(e, seq, p)'
  <2>1. Behind(e, seq) = 0
    <3>1. WrappingSub(seq, seq) = 0
      <4>1. seq \in Ring  BY <1>2
      <4>2. WrappingSub(seq, seq) = IF seq >= seq THEN seq - seq ELSE seq - seq + Modulus
        BY <4>1, SubValue
      <4>3. seq \in Int  BY <4>1 DEF Ring
      <4>4. QED  BY <4>2, <4>3
    <3>2. QED  BY <3>1 DEF Behind
  <2>2. Behind(e, seq)' = 1 /\ Behind(e, seq)' <= HalfRing
    <3>1. Behind(e, seq) < HalfRing  BY <2>1, RingFacts
    <3>2. Behind(e, seq)' = Behind(e, seq) + 1 /\ Behind(e, seq)' <= HalfRing
      BY <1>1, <1>2, <3>1, FallsBehind
    <3>3. QED  BY <2>1, <3>2
  <2>3. QED  BY <1>2, <2>2 DEF Numbers
<1>6. ASSUME NEW s \in InUse(e), NEW r, Numbers(e, s, r)
      PROVE  Numbers(e, s, r)'
  BY <1>2, <1>4, <1>6 DEF Numbers
<1>7. CursorInv(e)'
  <2>1. CursorInv(e) /\ recv_next[q] \in InUse(e)
    BY <1>2, InUseMembers DEF StreamInv
  <2>2. /\ Behind(e, recv_next[q])' = Behind(e, recv_next[q]) + 1
        /\ Behind(e, recv_next[q])' <= HalfRing
    <3>1. recv_next' = recv_next  BY <1>1 DEF receiverVars
    <3> DEFINE r == recv_next[q]
    <3>2. Behind(e, r)' = Behind(e, r) + 1 /\ Behind(e, r)' <= HalfRing
      BY <2>1, <1>4, <3>1
    <3>3. QED  BY <3>1, <3>2
  <2>3. QED  BY <2>1, <2>2, <1>1, <1>2 DEF CursorInv, receiverVars
<1>8. FramesInv(e)'
  <2>1. FramesInv(e)  BY DEF StreamInv
  <2>2. ASSUME NEW g \in Range(wire'[e]), g.kind = "data"
        PROVE  Numbers(e, g.seq, g.payload)'
    <3>1. CASE g = f  BY <3>1, <1>5 DEF f, Data
    <3>2. CASE g \in Range(wire[e])
      <4>1. g.seq \in InUse(e)  BY <3>2, <2>2, <1>2, InUseMembers
      <4>2. Numbers(e, g.seq, g.payload)  BY <3>2, <2>1, <2>2 DEF FramesInv
      <4>3. QED  BY <4>1, <4>2, <1>6
    <3>3. QED  BY <3>1, <3>2, <1>3
  <2>3. ASSUME NEW s \in DOMAIN inflight'[e], NEW r, r = inflight'[e][s].payload
        PROVE  Numbers(e, s, r)'
    <3>1. CASE s = seq
      <4>1. r = p  BY <3>1, <2>3, <1>2 DEF m, Entry
      <4>2. QED  BY <4>1, <3>1, <1>5
    <3>2. CASE s # seq
      <4>1. s \in DOMAIN inflight[e] /\ r = inflight[e][s].payload
        BY <3>2, <2>3, <1>2 DEF m
      <4>2. s \in InUse(e) /\ Numbers(e, s, r)
        BY <4>1, <2>1, <1>2, InUseMembers DEF FramesInv
      <4>3. QED  BY <4>2, <1>6
    <3>3. QED  BY <3>1, <3>2
  <2>4. QED  BY <2>2, <2>3 DEF FramesInv
<1>9. BufferInv(e)'
  <2>1. CursorInv(e) /\ BufferInv(e) /\ recv_next[q] \in InUse(e)
    BY <1>2, InUseMembers DEF StreamInv
  <2>2. ASSUME NEW s \in DOMAIN recv_buffer[q], NEW r, r = recv_buffer[q][s]
        PROVE  Numbers(e, s, r)' /\ r > Len(delivered[q]) + 1
    <3>1. Numbers(e, s, r) /\ r > Len(delivered[q]) + 1
      BY <2>1, <2>2 DEF BufferInv
    <3>2. s \in Ring /\ r \in Nat  BY <1>2, <2>2, AckTypes
    <3>3. Behind(e, s) < Behind(e, recv_next[q])
      BY <3>1, <3>2, <2>1, <1>2 DEF Numbers, CursorInv
    <3>4. Behind(e, recv_next[q]) \in Nat /\ Behind(e, recv_next[q]) < HalfRing
      <4>1. PICK c \in InUse(e) : c = recv_next[q]  BY <2>1
      <4>2. Behind(e, c)' = Behind(e, c) + 1 /\ Behind(e, c)' <= HalfRing
            /\ Behind(e, c) \in Nat
        BY <1>4
      <4>3. QED  BY <4>1, <4>2, RingFacts
    <3>5. Behind(e, s) < HalfRing
      BY <3>2, <3>3, <3>4, BehindFacts, RingFacts
    <3>6. Behind(e, s)' = Behind(e, s) + 1 /\ Behind(e, s)' <= HalfRing
      BY <3>2, <3>5, <1>1, FallsBehind
    <3>7. QED  BY <3>1, <3>6, <1>2 DEF Numbers
  <2>3. recv_buffer' = recv_buffer /\ delivered' = delivered
    BY <1>1 DEF receiverVars
  <2>4. QED  BY <2>2, <2>3 DEF BufferInv
<1>10. AcksInv(e)'
  <2>1. AcksInv(e) /\ delivered' = delivered  BY <1>1 DEF StreamInv, receiverVars
  <2>2. ASSUME NEW a \in InUse(e), Acknowledges(e, a)
        PROVE  Acknowledges(e, a)'
    BY <2>1, <2>2, <1>2, <1>4 DEF Acknowledges
  <2>3. ASSUME NEW g \in Range(wire'[q]), g.kind # "nack"
        PROVE  Acknowledges(e, g.ack)'
    <3>1. g \in Range(wire[q]) /\ g.ack \in InUse(e)
      BY <2>3, <1>2, <1>3, InUseMembers
    <3>2. Acknowledges(e, g.ack)  BY <3>1, <2>1, <2>3 DEF AcksInv
    <3>3. QED  BY <3>1, <3>2, <2>2
  <2>4. ASSUME NEW s \in DOMAIN inflight'[q], NEW a, a = inflight'[q][s].ack
        PROVE  Acknowledges(e, a)'
    <3>1. s \in DOMAIN inflight[q] /\ a = inflight[q][s].ack
      BY <2>4, <1>2
    <3>2. a \in InUse(e) /\ Acknowledges(e, a)
      BY <3>1, <2>1, <1>2, InUseMembers DEF AcksInv
    <3>3. QED  BY <3>2, <2>2
  <2>5. QED  BY <2>3, <2>4 DEF AcksInv
\* The stream of the peer only sees the ACK that the new frame carries.
<1>11. CursorInv(q)' /\ BufferInv(q)'
  <2>1. CursorInv(q) /\ BufferInv(q)  BY <1>2 DEF StreamInv
  <2>2. UNCHANGED <<recv_next, send_ack, recv_buffer, delivered>>
    BY <1>1 DEF receiverVars
  <2>3. QED
    BY <1>2, <2>1, <2>2 DEF CursorInv, BufferInv, Numbers, Behind
<1>12. FramesInv(q)'
  BY <1>2, <1>3, FramesKept
<1>13. AcksInv(q)'
  <2>1. AcksInv(q) /\ delivered' = delivered
    BY <1>1, <1>2 DEF StreamInv, receiverVars
  <2>2. Acknowledges(q, ack)
    <3>1. CursorInv(q)  BY <1>2 DEF StreamInv
    <3>2. Behind(q, recv_next[e]) \in Nat
      BY <1>2, BehindFacts DEF TypeOK
    <3>3. sent[q] \in Nat  BY <1>2 DEF TypeOK
    <3>4. QED  BY <1>2, <3>1, <3>2, <3>3 DEF CursorInv, Acknowledges
  <2>3. ASSUME NEW a, Acknowledges(q, a)
        PROVE  Acknowledges(q, a)'
    BY <2>1, <2>3, <1>2 DEF Acknowledges, Behind
  <2>4. ASSUME NEW g \in Range(wire'[e]), g.kind # "nack"
        PROVE  Acknowledges(q, g.ack)'
    <3>1. CASE g = f
      <4>1. g.ack = ack  BY <3>1 DEF f, Data
      <4>2. QED  BY <4>1, <2>2, <2>3
    <3>2. CASE g \in Range(wire[e])
      <4>1. Acknowledges(q, g.ack)  BY <3>2, <2>1, <2>4, <1>2 DEF AcksInv
      <4>2. QED  BY <4>1, <2>3
    <3>3. QED  BY <3>1, <3>2, <1>3
  <2>5. ASSUME NEW s \in DOMAIN inflight'[e], NEW a, a = inflight'[e][s].ack
        PROVE  Acknowledges(q, a)'
    <3>1. CASE s = seq
      <4>1. a = ack  BY <3>1, <2>5, <1>2 DEF m, Entry
      <4>2. QED  BY <4>1, <2>2, <2>3
    <3>2. CASE s # seq
      <4>1. s \in DOMAIN inflight[e] /\ a = inflight[e][s].ack
        BY <3>2, <2>5, <1>2 DEF m
      <4>2. Acknowledges(q, a)  BY <4>1, <2>1, <1>2 DEF AcksInv
      <4>3. QED  BY <4>2, <2>3
    <3>3. QED  BY <3>1, <3>2
  <2>6. QED  BY <1>2, <2>4, <2>5 DEF AcksInv
<1>14. QED  BY <1>2, <1>7, <1>8, <1>9, <1>10, <1>11, <1>12, <1>13 DEF StreamInv

-----------------------------------------------------------------------------
(* on_receive of the expected frame *)

\* Appending one payload and then the drained ones appends a run of payloads.
LEMMA AppendRun ==
  ASSUME NEW d \in Seq(Nat), NEW n \in Nat, NEW p, p = Len(d) + 1,
         NEW run, run = [i \in 1 .. n |-> p + i]
  PROVE  (d \o <<p>>) \o run = d \o [i \in 1 .. n + 1 |-> Len(d) + i]
<1> DEFINE N == Len(d)
           all == [i \in 1 .. n + 1 |-> N + i]
           left == (d \o <<p>>) \o run
           right == d \o all
<1>1. N \in Nat /\ d \in Seq(Int) /\ p \in Int
  OBVIOUS
<1>2. run \in Seq(Int) /\ Len(run) = n
  BY <1>1
<1>3. all \in Seq(Int) /\ Len(all) = n + 1
  BY <1>1
<1>4. d \o <<p>> \in Seq(Int) /\ Len(d \o <<p>>) = N + 1
  BY <1>1
<1>5. left \in Seq(Int) /\ Len(left) = N + 1 + n
  BY <1>1, <1>2, <1>4
<1>6. right \in Seq(Int) /\ Len(right) = N + 1 + n
  BY <1>1, <1>3
<1>7. ASSUME NEW i \in 1 .. N + 1 + n
      PROVE  left[i] = right[i]
  <2>1. CASE i <= N
    <3>1. left[i] = d[i]  BY <2>1, <1>1, <1>2, <1>4
    <3>2. right[i] = d[i]  BY <2>1, <1>1, <1>3
    <3>3. QED  BY <3>1, <3>2
  <2>2. CASE i = N + 1
    <3>1. (d \o <<p>>)[i] = p  BY <2>2, <1>1
    <3>2. left[i] = (d \o <<p>>)[i]  BY <2>2, <1>1, <1>2, <1>4
    <3>3. right[i] = all[1]  BY <2>2, <1>1, <1>3
    <3>4. all[1] = N + 1  BY <1>1
    <3>5. QED  BY <3>1, <3>2, <3>3, <3>4
  <2>3. CASE i > N + 1
    <3>1. i - (N + 1) \in 1 .. n /\ i - N \in 1 .. n + 1
      BY <2>3, <1>1
    <3>2. left[i] = run[i - (N + 1)]
      BY <3>1, <1>2, <1>4
    <3>3. right[i] = all[i - N]
      BY <3>1, <1>1, <1>3
    <3>4. run[i - (N + 1)] = p + (i - (N + 1)) /\ all[i - N] = N + (i - N)
      BY <3>1
    <3>5. QED  BY <3>2, <3>3, <3>4, <1>1
  <2>4. QED  BY <2>1, <2>2, <2>3, <1>1
<1> HIDE DEF left, right
<1>8. left = right
  BY <1>5, <1>6, <1>7
<1>9. QED  BY <1>8 DEF left, right

\* The i-th number after the cursor carries the i-th payload after the gap, and
\* the run of buffered numbers ends before the numbers not sent yet.
LEMMA DrainedPayloads ==
  ASSUME TypeOK, StreamInv, NEW r \in End, NEW w \in End, w = Peer(r), Peer(w) = r,
         Len(delivered[r]) < sent[w], NEW n \in Nat, Drains(r, n)
  PROVE  LET N == Len(delivered[r])
             c == recv_next[r]
         IN /\ N + 1 + n <= sent[w]
            /\ WrappingAdd(c, n + 1) \in Ring
            /\ Behind(w, WrappingAdd(c, n + 1)) = sent[w] - (N + 1 + n)
            /\ \A i \in 1 .. n : recv_buffer[r][WrappingAdd(c, i)] = N + 1 + i
            /\ \A s \in DOMAIN recv_buffer[r] :
                 recv_buffer[r][s] > N + 2 + n
                   \/ \E i \in 1 .. n : s = WrappingAdd(c, i)
<1> DEFINE N == Len(delivered[r])
           c == recv_next[r]
           S == sent[w]
           buf == recv_buffer[r]
<1>1. /\ N \in Nat /\ S \in Nat /\ c \in Ring /\ send_seq[w] \in Ring
      /\ S - N \in Nat
  BY DEF TypeOK
<1>2. Behind(w, c) = S - N /\ Behind(w, c) <= HalfRing
  BY DEF StreamInv, CursorInv
<1>3. \A s \in DOMAIN buf : /\ s \in Ring /\ buf[s] \in Nat
                            /\ buf[s] \in 1 .. S
                            /\ Behind(w, s) = S + 1 - buf[s]
                            /\ Behind(w, s) <= HalfRing
                            /\ buf[s] > N + 1
  BY AckTypes DEF StreamInv, BufferInv, Numbers
<1>4. ASSUME NEW i \in Nat, i <= S - N
      PROVE  /\ WrappingAdd(c, i) \in Ring
             /\ Behind(w, WrappingAdd(c, i)) = S - N - i
             /\ WrappingAdd(c, i) \in DOMAIN buf =>
                  i < S - N /\ buf[WrappingAdd(c, i)] = N + 1 + i
  <2>1. /\ WrappingAdd(c, i) \in Ring
        /\ Behind(w, WrappingAdd(c, i)) = S - N - i
    BY <1>1, <1>2, <1>4, ReceiverAdvances DEF Behind
  <2> HIDE DEF N, c, S, buf
  <2>2. ASSUME NEW k \in DOMAIN buf, Behind(w, k) = S - N - i
        PROVE  i < S - N /\ buf[k] = N + 1 + i
    BY <2>2, <1>1, <1>3
  <2>3. QED  BY <2>1, <2>2
<1>5. n < S - N
  <2>1. CASE n >= S - N
    <3>1. S - N \in 1 .. n  BY <2>1, <1>1
    <3>2. WrappingAdd(c, S - N) \in DOMAIN buf  BY <3>1 DEF Drains
    <3>3. QED  BY <3>2, <1>1, <1>4
  <2>2. QED  BY <2>1, <1>1
<1>6. \A i \in 1 .. n : buf[WrappingAdd(c, i)] = N + 1 + i
  BY <1>1, <1>4, <1>5 DEF Drains
<1>7. ASSUME NEW s \in DOMAIN buf, ~(buf[s] > N + 2 + n)
      PROVE  \E i \in 1 .. n : s = WrappingAdd(c, i)
  <2>1. PICK i \in Nat : i = buf[s] - (N + 1) /\ i \in 1 .. n + 1
    <3> DEFINE j == buf[s] - (N + 1)
    <3> HIDE DEF N, c, S, buf
    <3>1. j \in 1 .. n + 1  BY <1>1, <1>3, <1>7
    <3>2. QED  BY <3>1
  <2>2. /\ WrappingAdd(c, i) \in Ring
        /\ Behind(w, WrappingAdd(c, i)) = S - N - i
    BY <2>1, <1>1, <1>4, <1>5
  <2>3. Behind(w, s) = S - N - i /\ s \in Ring /\ S - N - i <= HalfRing
    <3> HIDE DEF N, c, S, buf
    <3>1. QED  BY <2>1, <1>1, <1>2, <1>3
  <2>4. s = WrappingAdd(c, i)
    BY <2>2, <2>3, <1>1, OrderByDistance DEF Behind
  <2>5. i # n + 1
    BY <2>4 DEF Drains
  <2>6. QED  BY <2>1, <2>4, <2>5
<1>8. /\ WrappingAdd(c, n + 1) \in Ring
      /\ Behind(w, WrappingAdd(c, n + 1)) = S - N - (n + 1)
  BY <1>1, <1>4, <1>5
<1> HIDE DEF N, S
<1>9. N + 1 + n <= S /\ S - N - (n + 1) = S - (N + 1 + n)
  BY <1>1, <1>5
<1>10. QED  BY <1>6, <1>7, <1>8, <1>9 DEF N, S

\* The expected frame hands out the next k payloads of the peer's stream.
LEMMA DeliverFacts ==
  ASSUME TypeOK, StreamInv, NEW r \in End, NEW w \in End, w = Peer(r), Peer(w) = r,
         NEW f, f.kind = "data", f \in Range(wire[w]), DeliverData(r, f)
  PROVE  \E k \in Nat \ {0}, next \in Ring :
           /\ Len(delivered[r]) + k <= sent[w]
           /\ Behind(w, next) = sent[w] - (Len(delivered[r]) + k)
           /\ delivered' = [delivered EXCEPT
                ![r] = delivered[r] \o [i \in 1 .. k |-> Len(delivered[r]) + i]]
           /\ recv_next' = [recv_next EXCEPT ![r] = next]
           /\ send_ack' = [send_ack EXCEPT ![r] = next]
           /\ recv_buffer'[w] = recv_buffer[w]
           /\ DOMAIN recv_buffer'[r] \subseteq DOMAIN recv_buffer[r]
           /\ \A s \in DOMAIN recv_buffer'[r] :
                /\ recv_buffer'[r][s] = recv_buffer[r][s]
                /\ recv_buffer[r][s] > Len(delivered[r]) + k + 1
           /\ Receive(r, <<Ack(next)>>)
<1> DEFINE N == Len(delivered[r])
           c == recv_next[r]
           buf == recv_buffer[r]
<1>1. PICK n \in 0 .. Cardinality(DOMAIN buf) :
        LET next    == WrappingAdd(c, n + 1)
            drained == {WrappingAdd(c, i) : i \in 1 .. n}
        IN /\ Drains(r, n)
           /\ delivered' = [delivered EXCEPT ![r] = (@ \o <<f.payload>>) \o
                [i \in 1 .. n |-> buf[WrappingAdd(c, i)]]]
           /\ recv_buffer' = [recv_buffer EXCEPT
                ![r] = Restrict(@, DOMAIN @ \ drained)]
           /\ recv_next' = [recv_next EXCEPT ![r] = next]
           /\ send_ack' = [send_ack EXCEPT ![r] = next]
           /\ Receive(r, <<Ack(next)>>)
  BY Zenon DEF DeliverData
<1> DEFINE next    == WrappingAdd(c, n + 1)
           drained == {WrappingAdd(c, i) : i \in 1 .. n}
           run     == [i \in 1 .. n |-> buf[WrappingAdd(c, i)]]
           k       == n + 1
<1>2. n \in Nat /\ N \in Nat /\ delivered[r] \in Seq(Nat) /\ w # r
  BY PeerFacts DEF TypeOK
<1>3. f.payload = N + 1 /\ N < sent[w]
  <2>1. Numbers(w, f.seq, f.payload) /\ f.seq = c
    BY DEF StreamInv, FramesInv, DeliverData, Expected
  <2>2. f.payload \in Nat /\ sent[w] \in Nat
    BY AckTypes DEF TypeOK
  <2>3. Behind(w, c) = sent[w] - N
    BY DEF StreamInv, CursorInv
  <2> HIDE DEF N, c
  <2>4. QED  BY <2>1, <2>2, <2>3, <1>2 DEF Numbers
<1>4. /\ N + 1 + n <= sent[w]
      /\ next \in Ring
      /\ Behind(w, next) = sent[w] - (N + 1 + n)
      /\ \A i \in 1 .. n : buf[WrappingAdd(c, i)] = N + 1 + i
      /\ \A s \in DOMAIN buf :
           buf[s] > N + 2 + n \/ \E i \in 1 .. n : s = WrappingAdd(c, i)
  BY <1>1, <1>2, <1>3, DrainedPayloads
<1>5. delivered' = [delivered EXCEPT
        ![r] = delivered[r] \o [i \in 1 .. k |-> N + i]]
  <2>1. run = [i \in 1 .. n |-> f.payload + i]  BY <1>3, <1>4
  <2>2. (delivered[r] \o <<f.payload>>) \o run
          = delivered[r] \o [i \in 1 .. n + 1 |-> Len(delivered[r]) + i]
    <3> DEFINE d == delivered[r]
               p == f.payload
    <3>1. d \in Seq(Nat) /\ p = Len(d) + 1 /\ n \in Nat
      BY <1>2, <1>3
    <3> HIDE DEF d, p, run
    <3>2. (d \o <<p>>) \o run = d \o [i \in 1 .. n + 1 |-> Len(d) + i]
      BY <2>1, <3>1, AppendRun DEF p
    <3>3. QED  BY <3>2 DEF d, p
  <2>3. delivered' = [delivered EXCEPT ![r] = (delivered[r] \o <<f.payload>>) \o run]
    BY <1>1
  <2>4. QED  BY <2>2, <2>3
<1>6. /\ recv_buffer'[w] = recv_buffer[w]
      /\ DOMAIN recv_buffer'[r] = DOMAIN buf \ drained
      /\ \A s \in DOMAIN buf \ drained : recv_buffer'[r][s] = buf[s]
  <2>1. recv_buffer' = [recv_buffer EXCEPT ![r] = Restrict(buf, DOMAIN buf \ drained)]
    BY <1>1
  <2>2. QED  BY <2>1, <1>2 DEF Restrict, TypeOK
<1>7. \A s \in DOMAIN buf \ drained : buf[s] > N + 2 + n
  BY <1>4
<1>8. /\ recv_next' = [recv_next EXCEPT ![r] = next]
      /\ send_ack' = [send_ack EXCEPT ![r] = next]
      /\ Receive(r, <<Ack(next)>>)
  BY <1>1
<1> HIDE DEF next, drained
<1>9. k \in Nat \ {0} /\ N + 1 + n = N + k /\ N + 2 + n = N + k + 1
  <2>1. n \in Nat /\ N \in Nat  BY <1>2
  <2> HIDE DEF N
  <2>2. QED  BY <2>1
<1> HIDE DEF k
<1>10. QED  BY <1>4, <1>5, <1>6, <1>7, <1>8, <1>9

\* What every way of receiving a DATA frame amounts to: the receiver hands out
\* k payloads more, maybe none, and acknowledges where it stands now.
LEMMA ReceiverStep ==
  ASSUME TypeOK, StreamInv, NEW r \in End, NEW w \in End, w = Peer(r), Peer(w) = r,
         Shrinks(r), UNCHANGED <<send_seq, sent>>,
         NEW k \in Nat, NEW next \in Ring,
         Len(delivered[r]) + k <= sent[w],
         Behind(w, next) = sent[w] - (Len(delivered[r]) + k),
         delivered'[w] = delivered[w],
         Len(delivered'[r]) = Len(delivered[r]) + k,
         \A i \in 1 .. Len(delivered[r]) + k : delivered'[r][i] = i,
         recv_next'[r] = next, recv_next'[w] = recv_next[w],
         send_ack'[r] = next, send_ack'[w] = send_ack[w],
         recv_buffer'[w] = recv_buffer[w],
         \A s \in DOMAIN recv_buffer'[r] :
           /\ Numbers(w, s, recv_buffer'[r][s])
           /\ recv_buffer'[r][s] > Len(delivered[r]) + k + 1,
         Range(wire'[w]) \subseteq Range(wire[w]),
         \A g \in Range(wire'[r]) :
           g \in Range(wire[r]) \/ g.kind = "nack" \/ g = Ack(next)
  PROVE  StreamInv'
<1>1. /\ w # r /\ \A x \in End : x = w \/ x = r
      /\ send_seq' = send_seq /\ sent' = sent
      /\ Len(delivered[r]) \in Nat /\ Len(delivered[w]) \in Nat /\ sent[w] \in Nat
  BY PeerFacts DEF TypeOK
<1>2. /\ inflight'[w] = inflight[w]
      /\ DOMAIN inflight'[r] \subseteq DOMAIN inflight[r]
      /\ \A s \in DOMAIN inflight'[r] :
           /\ inflight'[r][s].payload = inflight[r][s].payload
           /\ inflight'[r][s].ack = inflight[r][s].ack
  BY <1>1 DEF Shrinks
<1>3. Behind(w, next) <= HalfRing /\ Behind(w, next)' = Behind(w, next)
  <2>1. Behind(w, recv_next[r]) = sent[w] - Len(delivered[r])
        /\ Behind(w, recv_next[r]) <= HalfRing
    BY DEF StreamInv, CursorInv
  <2>2. QED  BY <2>1, <1>1, RingFacts DEF Behind
<1>4. FramesInv(w)'
  BY <1>1, <1>2, FramesKept
<1>5. FramesInv(r)'
  <2>1. Ack(next).kind = "ack"  BY DEF Ack
  <2>2. \A g \in Range(wire'[r]) :
          g \in Range(wire[r]) \/ g.kind # "data" \/ Copies(r, g)
    BY <2>1
  <2>3. QED  BY <1>1, <1>2, <2>2, FramesKept
<1>6. AcksInv(r)'
  <2>1. /\ Len(delivered'[w]) \in Nat /\ Len(delivered'[w]) >= Len(delivered[w])
        /\ \A g \in Range(wire'[w]) : g \in Range(wire[w])
        /\ DOMAIN inflight'[w] \subseteq DOMAIN inflight[w]
        /\ \A s \in DOMAIN inflight'[w] : inflight'[w][s].ack = inflight[w][s].ack
    BY <1>1, <1>2
  <2>2. QED  BY <1>1, <2>1, AcksKept
<1>7. AcksInv(w)'
  <2>1. Acknowledges(w, next)'
    BY <1>1, <1>3 DEF Acknowledges
  <2>2. \A g \in Range(wire'[r]) :
          \/ g \in Range(wire[r]) \/ g.kind = "nack" \/ Copies(r, g)
          \/ Acknowledges(w, g.ack)'
    BY <2>1 DEF Ack
  <2>3. QED  BY <1>1, <1>2, <2>2, AcksKept
<1>8. CursorInv(r)' /\ BufferInv(r)'
  <2>1. CursorInv(r) /\ BufferInv(r)  BY DEF StreamInv
  <2>2. QED  BY <1>1, <2>1 DEF CursorInv, BufferInv, Numbers, Behind
<1>9. CursorInv(w)'
  <2>1. Behind(w, recv_next'[r]) = Behind(w, next)
    OBVIOUS
  <2>2. QED  BY <1>1, <1>3, <2>1 DEF CursorInv, Behind
<1>10. BufferInv(w)'
  <2>1. ASSUME NEW s \in DOMAIN recv_buffer'[r], NEW p, p = recv_buffer'[r][s]
        PROVE  Numbers(w, s, p)' /\ p > Len(delivered'[r]) + 1
    <3>1. Numbers(w, s, p)  BY <2>1
    <3>2. Numbers(w, s, p)'  BY <3>1, <1>1, SameNumbers
    <3>3. p > Len(delivered[r]) + k + 1  BY <2>1
    <3>4. QED  BY <3>2, <3>3
  <2>2. QED  BY <2>1, <1>1 DEF BufferInv
<1>11. QED  BY <1>1, <1>4, <1>5, <1>6, <1>7, <1>8, <1>9, <1>10 DEF StreamInv

LEMMA DeliverKeeps ==
  ASSUME TypeOK, StreamInv, NEW r \in End, NEW w \in End, w = Peer(r), Peer(w) = r,
         Shrinks(r), NEW f, f.kind = "data", f \in Range(wire[w]),
         Incoming(r, "data"), DeliverData(r, f)
  PROVE  StreamInv'
<1>1. PICK k \in Nat \ {0}, next \in Ring :
         /\ Len(delivered[r]) + k <= sent[w]
         /\ Behind(w, next) = sent[w] - (Len(delivered[r]) + k)
         /\ delivered' = [delivered EXCEPT
              ![r] = delivered[r] \o [i \in 1 .. k |-> Len(delivered[r]) + i]]
         /\ recv_next' = [recv_next EXCEPT ![r] = next]
         /\ send_ack' = [send_ack EXCEPT ![r] = next]
         /\ recv_buffer'[w] = recv_buffer[w]
         /\ DOMAIN recv_buffer'[r] \subseteq DOMAIN recv_buffer[r]
         /\ \A s \in DOMAIN recv_buffer'[r] :
              /\ recv_buffer'[r][s] = recv_buffer[r][s]
              /\ recv_buffer[r][s] > Len(delivered[r]) + k + 1
         /\ Receive(r, <<Ack(next)>>)
  BY DeliverFacts
<1>2. w # r  BY PeerFacts
<1>3. /\ delivered'[w] = delivered[w] /\ recv_next'[w] = recv_next[w]
      /\ send_ack'[w] = send_ack[w]
      /\ recv_next'[r] = next /\ send_ack'[r] = next
  BY <1>1, <1>2 DEF TypeOK
<1>4. /\ Len(delivered'[r]) = Len(delivered[r]) + k
      /\ \A i \in 1 .. Len(delivered[r]) + k : delivered'[r][i] = i
  <2> DEFINE d == delivered[r]
             new == [i \in 1 .. k |-> Len(d) + i]
  <2>1. \A i \in 1 .. Len(d) : d[i] = i
    BY DEF StreamInv, CursorInv
  <2>2. d \in Seq(Nat) /\ delivered'[r] = d \o new
    BY <1>1 DEF TypeOK
  <2> HIDE DEF d
  <2>3. new \in Seq(Nat) /\ Len(new) = k
    BY <2>2
  <2>4. Len(d \o new) = Len(d) + k
    BY <2>2, <2>3
  <2>5. ASSUME NEW i \in 1 .. Len(d) + k
        PROVE  (d \o new)[i] = i
    <3>1. CASE i <= Len(d)
      <4>1. (d \o new)[i] = d[i]  BY <3>1, <2>2, <2>3
      <4>2. QED  BY <3>1, <4>1, <2>1, <2>2
    <3>2. CASE i > Len(d)
      <4>1. i - Len(d) \in 1 .. k  BY <3>2, <2>2
      <4>2. (d \o new)[i] = new[i - Len(d)]  BY <4>1, <2>2, <2>3
      <4>3. new[i - Len(d)] = Len(d) + (i - Len(d))  BY <4>1
      <4>4. QED  BY <4>2, <4>3, <2>2
    <3>3. QED  BY <3>1, <3>2, <2>2
  <2>6. QED  BY <2>2, <2>4, <2>5 DEF d
<1>5. \A s \in DOMAIN recv_buffer'[r] :
        /\ Numbers(w, s, recv_buffer'[r][s])
        /\ recv_buffer'[r][s] > Len(delivered[r]) + k + 1
  BY <1>1 DEF StreamInv, BufferInv
<1>6. /\ Range(wire'[r]) \subseteq Range(wire[r]) \cup {Ack(next)}
      /\ Range(wire'[w]) \subseteq Range(wire[w])
      /\ UNCHANGED <<send_seq, sent>>
  <2>1. <<Ack(next)>> \in Seq(FrameType)  BY DEF Ack, FrameType
  <2>2. Range(<<Ack(next)>>) = {Ack(next)}  BY DEF Range
  <2>3. QED  BY <1>1, <2>1, <2>2, ReceiveFacts
<1>7. /\ k \in Nat /\ Len(delivered[r]) + k <= sent[w]
      /\ Behind(w, next) = sent[w] - (Len(delivered[r]) + k)
      /\ recv_buffer'[w] = recv_buffer[w]
  BY <1>1
<1>8. \A g \in Range(wire'[r]) :
        g \in Range(wire[r]) \/ g.kind = "nack" \/ g = Ack(next)
  BY <1>6
<1>9. QED  BY <1>3, <1>4, <1>5, <1>6, <1>7, <1>8, ReceiverStep

LEMMA KeepKeeps ==
  ASSUME TypeOK, StreamInv, NEW r \in End, NEW w \in End, w = Peer(r), Peer(w) = r,
         Shrinks(r), NEW f, f.kind = "data", f \in Range(wire[w]),
         Incoming(r, "data"), BufferData(r, f) \/ RepeatAck(r, f),
         NEW next, next = recv_next[r]
  PROVE  StreamInv'
<1> DEFINE buf == recv_buffer[r]
<1>1. /\ w # r /\ next \in Ring /\ Len(delivered[r]) \in Nat /\ sent[w] \in Nat
      /\ f.seq \in Ring /\ f.payload \in Nat
  BY PeerFacts, AckTypes DEF TypeOK
<1>2. PICK responses \in Seq(FrameType) :
        /\ Receive(r, responses)
        /\ \A g \in Range(responses) : g = Nack(next) \/ g = Ack(next)
  BY <1>1, KeepDataType
<1>3. /\ recv_next' = recv_next /\ delivered' = delivered
      /\ send_ack' = [send_ack EXCEPT ![r] = next]
  BY <1>1, KeepDataType
<1>4. CursorInv(w) /\ BufferInv(w) /\ Numbers(w, f.seq, f.payload)
  BY DEF StreamInv, FramesInv
<1>5. /\ recv_buffer'[w] = recv_buffer[w]
      /\ \A s \in DOMAIN recv_buffer'[r] :
           \/ s \in DOMAIN buf /\ recv_buffer'[r][s] = buf[s]
           \/ BufferData(r, f) /\ s = f.seq /\ recv_buffer'[r][s] = f.payload
  <2>1. CASE BufferData(r, f)
    <3> DEFINE grown == [s \in DOMAIN buf \cup {f.seq} |->
                           IF s = f.seq THEN f.payload ELSE buf[s]]
    <3>1. recv_buffer' = [recv_buffer EXCEPT ![r] = grown]
            \/ recv_buffer' = [recv_buffer EXCEPT ![r] = buf]
      BY <2>1 DEF BufferData
    <3>2. QED  BY <2>1, <3>1, <1>1 DEF TypeOK
  <2>2. CASE RepeatAck(r, f)  BY <2>2 DEF RepeatAck
  <2>3. QED  BY <2>1, <2>2
<1>6. BufferData(r, f) => f.payload > Len(delivered[r]) + 1
  <2> SUFFICES ASSUME BufferData(r, f) PROVE f.payload > Len(delivered[r]) + 1
    OBVIOUS
  <2>1. SeqLt(next, f.seq)  BY DEF BufferData, SeqGt
  <2>2. /\ Behind(w, next) = sent[w] - Len(delivered[r]) /\ Behind(w, next) <= HalfRing
        /\ Behind(w, f.seq) = sent[w] + 1 - f.payload /\ Behind(w, f.seq) <= HalfRing
    BY <1>4 DEF CursorInv, Numbers
  <2>3. Behind(w, next) > Behind(w, f.seq)
    BY <1>1, <2>1, <2>2, OrderByDistance DEF Behind, TypeOK
  <2>4. QED  BY <1>1, <2>2, <2>3
<1>7. \A s \in DOMAIN recv_buffer'[r] :
        /\ Numbers(w, s, recv_buffer'[r][s])
        /\ recv_buffer'[r][s] > Len(delivered[r]) + 1
  BY <1>4, <1>5, <1>6 DEF BufferInv
<1>8. /\ \A g \in Range(wire'[r]) :
           g \in Range(wire[r]) \/ g.kind = "nack" \/ g = Ack(next)
      /\ Range(wire'[w]) \subseteq Range(wire[w])
      /\ UNCHANGED <<send_seq, sent>>
  <2>1. Range(wire'[r]) \subseteq Range(wire[r]) \cup Range(responses)
        /\ Range(wire'[w]) \subseteq Range(wire[w])
        /\ UNCHANGED <<send_seq, sent>>
    BY <1>2, ReceiveFacts
  <2>2. Nack(next).kind = "nack"  BY DEF Nack
  <2>3. QED  BY <1>2, <2>1, <2>2
<1>9. /\ Len(delivered[r]) <= sent[w]
      /\ Behind(w, next) = sent[w] - Len(delivered[r])
      /\ send_ack[w] = recv_next[w]
      /\ \A i \in 1 .. Len(delivered[r]) : delivered[r][i] = i
  BY <1>4 DEF CursorInv, StreamInv
<1>10. /\ send_ack'[r] = next /\ send_ack'[w] = send_ack[w]
       /\ recv_next'[r] = next /\ recv_next'[w] = recv_next[w]
  BY <1>1, <1>3 DEF TypeOK
<1> DEFINE k == 0
<1>11. k \in Nat /\ Len(delivered[r]) + k = Len(delivered[r])
  BY <1>1
<1> HIDE DEF k
<1>12. /\ Len(delivered[r]) + k <= sent[w]
       /\ Behind(w, next) = sent[w] - (Len(delivered[r]) + k)
       /\ delivered'[w] = delivered[w]
       /\ Len(delivered'[r]) = Len(delivered[r]) + k
       /\ \A i \in 1 .. Len(delivered[r]) + k : delivered'[r][i] = i
       /\ \A s \in DOMAIN recv_buffer'[r] :
            /\ Numbers(w, s, recv_buffer'[r][s])
            /\ recv_buffer'[r][s] > Len(delivered[r]) + k + 1
  BY <1>3, <1>7, <1>9, <1>11
<1>13. recv_buffer'[w] = recv_buffer[w]  BY <1>5
<1>14. QED
  BY <1>1, <1>8, <1>10, <1>11, <1>12, <1>13, ReceiverStep

LEMMA ReceiveDataKeeps ==
  ASSUME TypeOK, StreamInv, NEW r \in End, ReceiveData(r)
  PROVE  StreamInv'
<1> DEFINE w == Peer(r)
           f == Head(wire[w])
<1>1. w \in End /\ Peer(w) = r  BY PeerFacts
<1>2. /\ Incoming(r, "data") /\ f.kind = "data" /\ f \in Range(wire[w])
      /\ f.ack \in Ring
  BY IncomingFrame DEF ReceiveData
<1>3. Shrinks(r)
  BY <1>2, AckOfFrame DEF ReceiveData
<1>4. DeliverData(r, f) \/ BufferData(r, f) \/ RepeatAck(r, f)
  BY DEF ReceiveData
<1> HIDE DEF w, f
<1>5. w = Peer(r)  BY DEF w
<1>6. PICK next : next = recv_next[r]  OBVIOUS
<1>7. CASE DeliverData(r, f)  BY <1>1, <1>2, <1>3, <1>5, <1>7, DeliverKeeps
<1>8. CASE BufferData(r, f) \/ RepeatAck(r, f)
  BY <1>1, <1>2, <1>3, <1>5, <1>6, <1>8, KeepKeeps
<1>9. QED  BY <1>4, <1>7, <1>8

-----------------------------------------------------------------------------
(* The invariant *)

LEMMA StreamInit == Init => StreamInv
<1> SUFFICES ASSUME Init, NEW e \in End
             PROVE  CursorInv(e) /\ FramesInv(e) /\ BufferInv(e) /\ AcksInv(e)
  BY DEF StreamInv
<1>1. Peer(e) \in End  BY PeerFacts
<1>2. Behind(e, 0) = 0
  <2>1. 0 \in Ring  BY RingFacts DEF Ring
  <2>2. WrappingSub(0, 0) = 0  BY <2>1, SubValue
  <2>3. QED  BY <2>2 DEF Init, Behind
<1>3. CursorInv(e)  BY <1>1, <1>2, RingFacts DEF Init, CursorInv
<1>4. DOMAIN inflight[e] = {} /\ DOMAIN inflight[Peer(e)] = {}
      /\ DOMAIN recv_buffer[Peer(e)] = {}
      /\ Range(wire[e]) = {} /\ Range(wire[Peer(e)]) = {}
  BY <1>1 DEF Init, Range
<1>5. QED  BY <1>3, <1>4 DEF FramesInv, BufferInv, AcksInv

\* Reading an ACK or a NACK, polling and losing a frame are quiet.
LEMMA QuietActions ==
  ASSUME TypeOK, NEW e \in End,
         \/ ReceiveAck(e) \/ ReceiveNack(e) \/ Lose(e)
         \/ \E overdue \in Overdue(e) : Poll(e, overdue)
  PROVE  /\ Shrinks(e)
         /\ UNCHANGED <<send_seq, sent>> /\ UNCHANGED receiverVars
         /\ \A f \in Range(wire'[e]) : f \in Range(wire[e]) \/ Copies(e, f)
         /\ Range(wire'[Peer(e)]) \subseteq Range(wire[Peer(e)])
<1>1. CASE ReceiveAck(e) \/ ReceiveNack(e)
  <2>1. Shrinks(e)
    <3>1. CASE ReceiveAck(e)
      <4>1. Head(wire[Peer(e)]).ack \in Ring
        BY <3>1, IncomingFrame DEF ReceiveAck
      <4>2. QED  BY <3>1, <4>1, AckShrinks DEF ReceiveAck
    <3>2. CASE ReceiveNack(e)  BY <3>2, NackShrinks DEF ReceiveNack
    <3>3. QED  BY <1>1, <3>1, <3>2
  <2>2. /\ Range(wire'[e]) \subseteq Range(wire[e]) \cup Range(<<>>)
        /\ Range(wire'[Peer(e)]) \subseteq Range(wire[Peer(e)])
        /\ UNCHANGED <<send_seq, sent>>
    <3>1. <<>> \in Seq(FrameType)  OBVIOUS
    <3>2. QED  BY <1>1, <3>1, ReceiveFacts DEF ReceiveAck, ReceiveNack
  <2>3. Range(<<>>) = {}  BY DEF Range
  <2>4. UNCHANGED receiverVars  BY <1>1 DEF ReceiveAck, ReceiveNack
  <2>5. QED  BY <2>1, <2>2, <2>3, <2>4
<1>2. CASE Lose(e)
  <2>1. UNCHANGED <<send_seq, sent>> /\ UNCHANGED receiverVars /\ inflight' = inflight
    BY <1>2 DEF Lose, senderVars
  <2>2. Shrinks(e)  BY <2>1 DEF Shrinks, TypeOK
  <2>3. QED  BY <1>2, <2>1, <2>2, LoseFrames, PeerFacts
<1>3. CASE \E overdue \in Overdue(e) : Poll(e, overdue)
  <2>1. PICK overdue \in Overdue(e) : Poll(e, overdue)  BY <1>3
  <2>2. Shrinks(e)  BY <2>1, PollFacts
  <2>3. PICK frames \in Seq(FrameType) :
          /\ Exchange(e, FALSE, frames)
          /\ \A f \in Range(frames) : Copies(e, f)
    BY <2>1, PollFacts DEF Copies
  <2>4. Range(wire'[e]) \subseteq Range(wire[e]) \cup Range(frames)
        /\ Range(wire'[Peer(e)]) \subseteq Range(wire[Peer(e)])
    BY <2>3, ExchangeFrames DEF TypeOK
  <2>5. UNCHANGED <<send_seq, sent>> /\ UNCHANGED receiverVars
    BY <2>1 DEF Poll
  <2>6. QED  BY <2>2, <2>3, <2>4, <2>5
<1>4. QED  BY <1>1, <1>2, <1>3

\* The six kinds of step of the layer, as the proofs below tell them apart.
LEMMA StepCases ==
  ASSUME [Next]_vars
  PROVE  \/ UNCHANGED vars
         \/ \E e \in End :
              \/ PrepareSend(e)
              \/ ReceiveData(e)
              \/ ReceiveAck(e)
              \/ ReceiveNack(e)
              \/ Lose(e)
              \/ \E overdue \in Overdue(e) : Poll(e, overdue)
BY DEF Next, EndFeed, Tick

LEMMA StreamStep ==
  ASSUME MaxLag <= HalfRing, TypeOK, StreamInv, [Next]_vars
  PROVE  StreamInv'
<1>1. CASE UNCHANGED vars
  BY <1>1 DEF vars, senderVars, receiverVars, StreamInv, CursorInv, FramesInv,
              BufferInv, AcksInv, Numbers, Acknowledges, Behind
<1>2. ASSUME NEW e \in End, PrepareSend(e)
      PROVE  StreamInv'
  <2>1. PICK seq, p, ack : seq = send_seq[e] /\ p = sent[e] + 1 /\ ack = send_ack[e]
    OBVIOUS
  <2>2. QED  BY <1>2, <2>1, PrepareSendKeeps
<1>3. ASSUME NEW e \in End, ReceiveData(e)
      PROVE  StreamInv'
  BY <1>3, ReceiveDataKeeps
<1>4. ASSUME NEW e \in End,
             \/ ReceiveAck(e) \/ ReceiveNack(e) \/ Lose(e)
             \/ \E overdue \in Overdue(e) : Poll(e, overdue)
      PROVE  StreamInv'
  BY <1>4, QuietActions, QuietStep
<1>5. QED  BY <1>1, <1>2, <1>3, <1>4, StepCases

\* Every number in use stands for the stream position it was sent for, if no
\* sender runs half a ring ahead of one that is still in use.
THEOREM StreamCorrect ==
  ASSUME MaxLag <= HalfRing
  PROVE  Spec => [](TypeOK /\ StreamInv)
<1>1. Init => TypeOK /\ StreamInv
  BY TypeInit, StreamInit
<1>2. TypeOK /\ StreamInv /\ [Next]_vars => TypeOK' /\ StreamInv'
  BY TypeStep, StreamStep
<1>3. QED
  BY <1>1, <1>2, PTL DEF Spec

\* What comes out at an end is a prefix of what its peer handed in.
THEOREM DeliveryInOrder ==
  ASSUME MaxLag <= HalfRing
  PROVE  Spec => []InOrderDelivery
<1>1. TypeOK /\ StreamInv => InOrderDelivery
  BY PeerFacts DEF StreamInv, CursorInv, InOrderDelivery
<1>2. QED
  BY <1>1, StreamCorrect, PTL

-----------------------------------------------------------------------------
(* No frame is released before it was received *)

\* The payload waiting in the window of e, received, or given up.
Kept(e, p) ==
  \/ p <= Len(delivered[Peer(e)])
  \/ \E s \in DOMAIN inflight[e] : inflight[e][s].payload = p
  \/ p \in abandoned[e]

\* A step that only loses window entries that were received or given up.
LEMMA ReleaseStep ==
  ASSUME TypeOK, ReleasedOnlyIfDelivered, sent' = sent,
         \A x \in End : /\ Len(delivered[x]) \in Nat /\ Len(delivered'[x]) \in Nat
                        /\ Len(delivered'[x]) >= Len(delivered[x])
                        /\ abandoned[x] \subseteq abandoned'[x],
         \A x \in End : \A s \in DOMAIN inflight[x] :
           \/ s \in DOMAIN inflight'[x]
                /\ inflight'[x][s].payload = inflight[x][s].payload
           \/ inflight[x][s].payload <= Len(delivered[Peer(x)])
           \/ inflight[x][s].payload \in abandoned'[x]
  PROVE  ReleasedOnlyIfDelivered'
<1> SUFFICES ASSUME NEW e \in End, NEW p \in 1 .. sent[e]
             PROVE  Kept(e, p)'
  BY DEF ReleasedOnlyIfDelivered, Kept
<1>1. Kept(e, p)  BY DEF ReleasedOnlyIfDelivered, Kept
<1>2. Peer(e) \in End /\ p \in Nat  BY PeerFacts DEF TypeOK
<1>3. CASE p <= Len(delivered[Peer(e)])  BY <1>2, <1>3 DEF Kept
<1>4. CASE p \in abandoned[e]  BY <1>4 DEF Kept
<1>5. ASSUME NEW s \in DOMAIN inflight[e], inflight[e][s].payload = p
      PROVE  Kept(e, p)'
  BY <1>2, <1>5 DEF Kept
<1>6. QED  BY <1>1, <1>3, <1>4, <1>5 DEF Kept

\* What HandleAck releases was handed out at the other end.
LEMMA AckReleases ==
  ASSUME TypeOK, StreamInv, NEW e \in End, NEW q \in End, q = Peer(e),
         NEW ack \in Ring, Acknowledges(e, ack),
         NEW s \in DOMAIN inflight[e], SeqLt(s, ack)
  PROVE  inflight[e][s].payload <= Len(delivered[q])
<1> DEFINE p == inflight[e][s].payload
<1>1. /\ Behind(e, s) = sent[e] + 1 - p /\ Behind(e, s) <= HalfRing
      /\ sent[e] - Len(delivered[q]) <= Behind(e, ack) /\ Behind(e, ack) <= HalfRing
  BY DEF StreamInv, FramesInv, Numbers, Acknowledges
<1>2. /\ s \in Ring /\ p \in Nat /\ send_seq[e] \in Ring /\ sent[e] \in Nat
      /\ Len(delivered[q]) \in Nat
  BY AckTypes DEF TypeOK
<1>3. Behind(e, s) > Behind(e, ack)
  BY <1>1, <1>2, OrderByDistance DEF Behind
<1>4. Behind(e, ack) \in Nat  BY BehindFacts
<1> HIDE DEF p
<1>5. QED  BY <1>1, <1>2, <1>3, <1>4 DEF p

LEMMA PrepareSendReleases ==
  ASSUME TypeOK, StreamInv, ReleasedOnlyIfDelivered, NEW e \in End, PrepareSend(e)
  PROVE  ReleasedOnlyIfDelivered'
<1> DEFINE seq == send_seq[e]
           m   == [s \in DOMAIN inflight[e] \cup {seq} |->
                     IF s = seq THEN Entry(send_ack[e], sent[e] + 1)
                                ELSE inflight[e][s]]
<1>1. /\ inflight' = [inflight EXCEPT ![e] = m]
      /\ sent' = [sent EXCEPT ![e] = sent[e] + 1]
      /\ delivered' = delivered /\ abandoned' = abandoned
  BY DEF PrepareSend, receiverVars
<1>2. sent[e] \in Nat /\ seq \in Ring  BY DEF TypeOK
<1>3. seq \notin DOMAIN inflight[e]
  <2>1. WrappingSub(seq, seq) = 0
    <3>1. WrappingSub(seq, seq) = IF seq >= seq THEN seq - seq ELSE seq - seq + Modulus
      BY <1>2, SubValue
    <3>2. seq \in Int  BY <1>2 DEF Ring
    <3>3. QED  BY <3>1, <3>2
  <2>2. ASSUME NEW s \in DOMAIN inflight[e]
        PROVE  Behind(e, s) # 0
    <3> DEFINE p == inflight[e][s].payload
    <3>1. Behind(e, s) = sent[e] + 1 - p /\ p \in 1 .. sent[e]
      BY DEF StreamInv, FramesInv, Numbers
    <3> HIDE DEF p
    <3>2. QED  BY <3>1, <1>2
  <2>3. QED  BY <2>1, <2>2 DEF Behind
<1>4. ASSUME NEW x \in End, NEW p \in 1 .. sent'[x]
      PROVE  Kept(x, p)'
  <2>1. CASE x = e /\ p = sent[e] + 1
    <3>1. inflight'[e] = m  BY <1>1 DEF TypeOK
    <3>2. m[seq].payload = sent[e] + 1 /\ seq \in DOMAIN m  BY DEF Entry
    <3> HIDE DEF m
    <3>3. QED  BY <2>1, <3>1, <3>2 DEF Kept
  <2>2. CASE ~(x = e /\ p = sent[e] + 1)
    <3>1. p \in 1 .. sent[x]
      <4>1. sent'[x] = IF x = e THEN sent[e] + 1 ELSE sent[x]
        BY <1>1 DEF TypeOK
      <4>2. QED  BY <4>1, <2>2, <1>2
    <3>2. Kept(x, p)  BY <3>1 DEF ReleasedOnlyIfDelivered, Kept
    <3>3. \A s \in DOMAIN inflight[x] :
            s \in DOMAIN inflight'[x] /\ inflight'[x][s] = inflight[x][s]
      BY <1>1, <1>3 DEF TypeOK
    <3>4. QED  BY <3>2, <3>3, <1>1 DEF Kept
  <2>3. QED  BY <2>1, <2>2
<1>5. QED  BY <1>4 DEF ReleasedOnlyIfDelivered, Kept

LEMMA ReceiveReleases ==
  ASSUME TypeOK, StreamInv, ReleasedOnlyIfDelivered, NEW e \in End,
         ReceiveData(e) \/ ReceiveAck(e)
  PROVE  ReleasedOnlyIfDelivered'
<1> DEFINE q == Peer(e)
           f == Head(wire[q])
<1>1. /\ q \in End /\ q # e /\ Peer(q) = e /\ \A x \in End : x = e \/ x = q
  BY PeerFacts
<1>2. f \in Range(wire[q]) /\ f.kind # "nack" /\ f.ack \in Ring
  BY IncomingFrame DEF ReceiveData, ReceiveAck
<1>3. Acknowledges(e, f.ack)
  BY <1>2 DEF StreamInv, AcksInv
<1>4. /\ Shrinks(e)
      /\ \A s \in DOMAIN inflight[e] \ DOMAIN inflight'[e] : SeqLt(s, f.ack)
  BY <1>2, AckOfFrame, AckShrinks DEF ReceiveData, ReceiveAck
<1>5. sent' = sent /\ abandoned' = abandoned
  BY DEF ReceiveData, DeliverData, BufferData, RepeatAck, ReceiveAck, Receive
<1>6. \A x \in End : /\ Len(delivered[x]) \in Nat /\ Len(delivered'[x]) \in Nat
                     /\ Len(delivered'[x]) >= Len(delivered[x])
  <2>1. \A x \in End : Len(delivered[x]) \in Nat  BY DEF TypeOK
  <2>2. CASE delivered' = delivered  BY <2>1, <2>2
  <2>3. CASE ReceiveData(e) /\ DeliverData(e, f)
    <3>1. f.kind = "data"  BY <2>3, IncomingFrame DEF ReceiveData
    <3>2. PICK k \in Nat :
            delivered' = [delivered EXCEPT
              ![e] = delivered[e] \o [i \in 1 .. k |-> Len(delivered[e]) + i]]
      <4> HIDE DEF f
      <4>1. QED  BY <1>1, <1>2, <2>3, <3>1, DeliverFacts
    <3> DEFINE d == delivered[e]
               run == [i \in 1 .. k |-> Len(d) + i]
    <3>3. d \in Seq(Nat) /\ run \in Seq(Nat) /\ Len(run) = k
      <4>1. d \in Seq(Nat)  BY DEF TypeOK
      <4> HIDE DEF d
      <4>2. QED  BY <4>1
    <3>4. Len(d \o run) = Len(d) + k  BY <3>3
    <3>5. delivered'[e] = d \o run /\ \A x \in End : x # e => delivered'[x] = delivered[x]
      BY <3>2 DEF TypeOK
    <3>6. Len(delivered'[e]) = Len(d) + k  BY <3>4, <3>5
    <3>7. QED  BY <2>1, <3>5, <3>6
  <2>4. QED
    BY <2>2, <2>3 DEF ReceiveData, BufferData, RepeatAck, ReceiveAck, receiverVars
<1>7. ASSUME NEW x \in End, NEW s \in DOMAIN inflight[x]
      PROVE  \/ s \in DOMAIN inflight'[x]
                  /\ inflight'[x][s].payload = inflight[x][s].payload
             \/ inflight[x][s].payload <= Len(delivered[Peer(x)])
  <2>1. CASE x = q  BY <2>1, <1>1, <1>4 DEF Shrinks
  <2>2. CASE x = e /\ s \in DOMAIN inflight'[e]  BY <2>2, <1>4 DEF Shrinks
  <2>3. CASE x = e /\ s \notin DOMAIN inflight'[e]
    BY <2>3, <1>1, <1>2, <1>3, <1>4, AckReleases
  <2>4. QED  BY <1>1, <2>1, <2>2, <2>3
<1>8. QED  BY <1>5, <1>6, <1>7, ReleaseStep

LEMMA ReleaseCorrect ==
  ASSUME TypeOK, StreamInv, ReleasedOnlyIfDelivered, [Next]_vars
  PROVE  ReleasedOnlyIfDelivered'
<1>1. CASE UNCHANGED vars
  BY <1>1 DEF vars, senderVars, receiverVars, ReleasedOnlyIfDelivered
<1>2. ASSUME NEW e \in End, PrepareSend(e)
      PROVE  ReleasedOnlyIfDelivered'
  BY <1>2, PrepareSendReleases
<1>3. ASSUME NEW e \in End, ReceiveData(e) \/ ReceiveAck(e)
      PROVE  ReleasedOnlyIfDelivered'
  BY <1>3, ReceiveReleases
<1>4. ASSUME NEW e \in End, ReceiveNack(e) \/ Lose(e)
      PROVE  ReleasedOnlyIfDelivered'
  <2>1. Shrinks(e) /\ DOMAIN inflight'[e] = DOMAIN inflight[e]
    <3>1. CASE ReceiveNack(e)  BY <3>1, NackShrinks DEF ReceiveNack
    <3>2. CASE Lose(e)
      <4>1. inflight' = inflight  BY <3>2 DEF Lose, senderVars
      <4>2. QED  BY <4>1, <3>2, QuietActions
    <3>3. QED  BY <1>4, <3>1, <3>2
  <2>2. sent' = sent /\ delivered' = delivered /\ abandoned' = abandoned
    BY <1>4 DEF ReceiveNack, Receive, Lose, receiverVars
  <2>3. \A x \in End : Len(delivered[x]) \in Nat  BY DEF TypeOK
  <2>4. QED  BY <2>1, <2>2, <2>3, ReleaseStep DEF Shrinks
<1>5. ASSUME NEW e \in End, NEW overdue \in Overdue(e), Poll(e, overdue)
      PROVE  ReleasedOnlyIfDelivered'
  <2>1. /\ Shrinks(e)
        /\ \A s \in DOMAIN inflight[e] \ DOMAIN inflight'[e] :
             inflight[e][s].payload \in abandoned'[e]
        /\ \A x \in End : abandoned[x] \subseteq abandoned'[x]
    BY <1>5, PollFacts
  <2>2. sent' = sent /\ delivered' = delivered  BY <1>5 DEF Poll, receiverVars
  <2>3. \A x \in End : Len(delivered[x]) \in Nat  BY DEF TypeOK
  <2>4. QED  BY <2>1, <2>2, <2>3, ReleaseStep DEF Shrinks
<1>6. QED  BY <1>1, <1>2, <1>3, <1>4, <1>5, StepCases

\* A payload the sender no longer holds was received or given up on.
THEOREM ReleaseOnlyAfterDelivery ==
  ASSUME MaxLag <= HalfRing
  PROVE  Spec => []ReleasedOnlyIfDelivered
<1>1. Init => ReleasedOnlyIfDelivered
  BY DEF Init, ReleasedOnlyIfDelivered
<1>2. TypeOK /\ StreamInv /\ ReleasedOnlyIfDelivered /\ [Next]_vars
        => ReleasedOnlyIfDelivered'
  BY ReleaseCorrect
<1>3. QED
  BY <1>1, <1>2, StreamCorrect, PTL DEF Spec

-----------------------------------------------------------------------------
(* The gap is smaller than the window *)

\* Every action of e takes frames out of windows, or adds one to its open window.
WindowInv == \A e \in End : Cardinality(DOMAIN inflight[e]) <= Window

LEMMA FiniteRing ==
  ASSUME NEW S \in SUBSET Ring
  PROVE  IsFiniteSet(S) /\ Cardinality(S) \in Nat
<1>1. IsFiniteSet(0 .. Modulus - 1)
  BY RingFacts, FS_Interval
<1>2. IsFiniteSet(S)
  BY <1>1, FS_Subset DEF Ring
<1>3. QED  BY <1>2, FS_CardinalityType

LEMMA InflightOnRing ==
  ASSUME TypeOK, NEW e \in End
  PROVE  DOMAIN inflight[e] \in SUBSET Ring /\ DOMAIN recv_buffer[e] \in SUBSET Ring
BY DEF TypeOK, IsRingMap

LEMMA ShrinksKeepsWindow ==
  ASSUME TypeOK, WindowInv,
         \A x \in End : DOMAIN inflight'[x] \subseteq DOMAIN inflight[x]
  PROVE  WindowInv'
<1> SUFFICES ASSUME NEW x \in End
             PROVE  Cardinality(DOMAIN inflight'[x]) <= Window
  BY DEF WindowInv
<1> DEFINE S == DOMAIN inflight[x]
           T == DOMAIN inflight'[x]
<1>1. S \in SUBSET Ring /\ T \in SUBSET S /\ T \in SUBSET Ring
  BY InflightOnRing
<1>2. IsFiniteSet(S) /\ Cardinality(S) \in Nat /\ Cardinality(T) \in Nat
  <2> HIDE DEF S, T
  <2>1. QED  BY <1>1, FiniteRing
<1>3. Cardinality(T) <= Cardinality(S)
  <2> HIDE DEF S, T
  <2>1. QED  BY <1>1, <1>2, FS_Subset
<1>4. Cardinality(S) <= Window
  BY DEF WindowInv
<1> HIDE DEF S, T
<1>5. Cardinality(T) <= Window
  BY <1>2, <1>3, <1>4, BoundAssumption
<1>6. QED  BY <1>5 DEF T

LEMMA WindowStep ==
  ASSUME TypeOK, WindowInv, [Next]_vars
  PROVE  WindowInv'
<1>1. CASE UNCHANGED vars
  BY <1>1 DEF vars, senderVars, WindowInv
<1>2. ASSUME NEW e \in End, PrepareSend(e)
      PROVE  WindowInv'
  <2> DEFINE S == DOMAIN inflight[e]
             seq == send_seq[e]
  <2>1. /\ DOMAIN inflight'[e] = S \cup {seq}
        /\ \A x \in End : x # e => inflight'[x] = inflight[x]
        /\ Cardinality(S) < Window
    BY <1>2 DEF PrepareSend, WindowOpen, TypeOK
  <2>2. IsFiniteSet(S) /\ Cardinality(S) \in Nat
    BY InflightOnRing, FiniteRing
  <2>3. Cardinality(S \cup {seq}) <= Window
    <3> HIDE DEF S, seq
    <3>1. \/ Cardinality(S \cup {seq}) = Cardinality(S)
          \/ Cardinality(S \cup {seq}) = Cardinality(S) + 1
      BY <2>2, FS_AddElement
    <3>2. QED  BY <2>1, <2>2, <3>1, BoundAssumption DEF S
  <2>4. QED  BY <2>1, <2>3 DEF WindowInv
<1>3. ASSUME NEW e \in End,
             \/ ReceiveData(e) \/ ReceiveAck(e) \/ ReceiveNack(e) \/ Lose(e)
             \/ \E overdue \in Overdue(e) : Poll(e, overdue)
      PROVE  WindowInv'
  <2>1. Shrinks(e)
    <3>1. CASE ReceiveData(e)
      <4>1. Head(wire[Peer(e)]).ack \in Ring
        BY <3>1, IncomingFrame DEF ReceiveData
      <4>2. QED  BY <3>1, <4>1, AckOfFrame DEF ReceiveData
    <3>2. QED  BY <1>3, <3>1, QuietActions
  <2>2. QED  BY <2>1, ShrinksKeepsWindow DEF Shrinks
<1>4. QED  BY <1>1, <1>2, <1>3, StepCases

\* A frame behind the gap is still in its sender's window, and so is the one
\* that is missing.
LEMMA GapInWindow ==
  ASSUME TypeOK, StreamInv, ReleasedOnlyIfDelivered, WindowInv, NEW e \in End,
         abandoned[Peer(e)] = {}
  PROVE  Cardinality(DOMAIN recv_buffer[e]) < Window
<1> DEFINE q == Peer(e)
           B == DOMAIN recv_buffer[e]
           W == DOMAIN inflight[q]
           n == Len(delivered[e])
<1>1. q \in End /\ Peer(q) = e
  BY PeerFacts
<1>2. B \in SUBSET Ring /\ W \in SUBSET Ring /\ n \in Nat /\ sent[q] \in Nat
  BY <1>1, InflightOnRing DEF TypeOK
<1>3. ASSUME NEW p \in 1 .. sent[q], p > n
      PROVE  \E s \in W : inflight[q][s].payload = p /\ Behind(q, s) = sent[q] + 1 - p
                          /\ Behind(q, s) <= HalfRing
  <2>1. PICK s \in W : inflight[q][s].payload = p
    <3>1. ~(p <= n)
      BY <1>2, <1>3
    <3>2. QED  BY <1>1, <3>1 DEF ReleasedOnlyIfDelivered
  <2>2. Numbers(q, s, p)
    BY <1>1, <2>1 DEF StreamInv, FramesInv
  <2>3. QED  BY <2>1, <2>2 DEF Numbers
<1>4. ASSUME NEW s \in B
      PROVE  /\ s \in W
             /\ inflight[q][s].payload \in 1 .. sent[q] /\ inflight[q][s].payload > n + 1
  <2> DEFINE p == recv_buffer[e][s]
  <2>1. Numbers(q, s, p) /\ p > n + 1
    BY <1>1 DEF StreamInv, BufferInv
  <2>2. p \in 1 .. sent[q] /\ Behind(q, s) = sent[q] + 1 - p /\ Behind(q, s) <= HalfRing
    BY <2>1 DEF Numbers
  <2> HIDE DEF p
  <2>3. p > n
    BY <1>2, <2>1, <2>2
  <2>4. PICK t \in W : /\ inflight[q][t].payload = p /\ Behind(q, t) = sent[q] + 1 - p
                       /\ Behind(q, t) <= HalfRing
    BY <1>3, <2>2, <2>3
  <2>5. t = s
    <3>1. s \in Ring /\ t \in Ring /\ send_seq[q] \in Ring
      BY <1>1, <1>2 DEF TypeOK
    <3>2. QED  BY <2>2, <2>4, <3>1, OrderByDistance DEF Behind
  <2>6. QED  BY <2>1, <2>2, <2>4, <2>5
<1>5. IsFiniteSet(W) /\ Cardinality(W) \in Nat /\ Cardinality(B) \in Nat /\ Cardinality(W) <= Window
  BY <1>1, <1>2, FiniteRing DEF WindowInv
<1>6. CASE B = {}
  BY <1>6, FS_EmptySet, BoundAssumption
<1>7. CASE B # {}
  <2>1. PICK s \in B : TRUE
    BY <1>7
  <2>2. n + 1 \in 1 .. sent[q]
    BY <1>2, <1>4, <2>1
  <2>3. PICK t \in W : inflight[q][t].payload = n + 1
    BY <1>2, <1>3, <2>2
  <2>4. t \notin B
    BY <1>2, <1>4, <2>3
  <2>5. B \in SUBSET W /\ B # W
    BY <1>4, <2>3, <2>4
  <2> HIDE DEF B, W
  <2>6. Cardinality(B) < Cardinality(W)
    BY <1>5, <2>5, FS_Subset
  <2>7. Cardinality(B) < Window
    BY <1>5, <2>6, BoundAssumption
  <2>8. QED  BY <2>7 DEF B
<1>8. QED  BY <1>6, <1>7

\* While no frame ran out of retries, the frames behind a gap leave room in the
\* window for the one that is missing, so a buffer of the window's size is enough.
THEOREM GapCorrect ==
  ASSUME MaxLag <= HalfRing
  PROVE  Spec => []GapWithinWindow
<1>1. Init => WindowInv
  <2> SUFFICES ASSUME Init, NEW e \in End
               PROVE  Cardinality(DOMAIN inflight[e]) <= Window
    BY DEF WindowInv
  <2>1. DOMAIN inflight[e] = {}
    BY DEF Init
  <2>2. QED  BY <2>1, FS_EmptySet, BoundAssumption
<1>2. TypeOK /\ WindowInv /\ [Next]_vars => WindowInv'
  BY WindowStep
<1>3. TypeOK /\ StreamInv /\ ReleasedOnlyIfDelivered /\ WindowInv => GapWithinWindow
  BY GapInWindow DEF GapWithinWindow
<1>4. QED
  BY <1>1, <1>2, <1>3, StreamCorrect, ReleaseOnlyAfterDelivery, PTL DEF Spec

-----------------------------------------------------------------------------
(* The layer implements the channel *)

LEMMA ChannelInit == Init => Channel!Init
BY DEF Init, Channel!Init

LEMMA ChannelStep ==
  ASSUME TypeOK, StreamInv, [Next]_vars
  PROVE  [Channel!Next]_(Channel!cvars)
<1>1. CASE UNCHANGED vars
  BY <1>1 DEF vars, receiverVars, Channel!cvars
<1>2. ASSUME NEW e \in End, PrepareSend(e)
      PROVE  Channel!Next
  <2>1. Channel!Submit(e)
    BY <1>2 DEF PrepareSend, receiverVars, Channel!Submit
  <2>2. QED  BY <2>1 DEF Channel!Next
<1>3. ASSUME NEW r \in End, ReceiveData(r)
      PROVE  Channel!Next \/ UNCHANGED Channel!cvars
  <2> DEFINE w == Peer(r)
             f == Head(wire[w])
  <2>1. w \in End /\ Peer(w) = r  BY PeerFacts
  <2>2. f.kind = "data" /\ f \in Range(wire[w])
    BY <1>3, IncomingFrame DEF ReceiveData
  <2>3. sent' = sent
    BY <1>3 DEF ReceiveData, DeliverData, BufferData, RepeatAck, Receive
  <2>4. CASE DeliverData(r, f)
    <3>1. PICK k \in Nat \ {0} :
            /\ Len(delivered[r]) + k <= sent[w]
            /\ delivered' = [delivered EXCEPT
                 ![r] = delivered[r] \o [i \in 1 .. k |-> Len(delivered[r]) + i]]
      <4> HIDE DEF f
      <4>1. QED  BY <2>1, <2>2, <2>4, DeliverFacts
    <3>2. Channel!HandOut(r, k)
      BY <3>1, <2>3 DEF Channel!HandOut
    <3>3. k \in 1 .. sent[w]
      BY <3>1, <2>1 DEF TypeOK
    <3>4. QED  BY <3>2, <3>3 DEF Channel!Next
  <2>5. CASE BufferData(r, f) \/ RepeatAck(r, f)
    BY <2>3, <2>5 DEF BufferData, RepeatAck, Channel!cvars
  <2>6. QED  BY <1>3, <2>4, <2>5 DEF ReceiveData
<1>4. ASSUME NEW e \in End,
             \/ ReceiveAck(e) \/ ReceiveNack(e) \/ Lose(e)
             \/ \E overdue \in Overdue(e) : Poll(e, overdue)
      PROVE  UNCHANGED Channel!cvars
  BY <1>4, QuietActions DEF receiverVars, Channel!cvars
<1>5. QED  BY <1>1, <1>2, <1>3, <1>4, StepCases

\* Every behaviour of the two layers and the line is one of the channel.
THEOREM LayerImplementsChannel ==
  ASSUME MaxLag <= HalfRing
  PROVE  Spec => ImplementsChannel
<1>1. TypeOK /\ StreamInv /\ [Next]_vars => [Channel!Next]_(Channel!cvars)
  BY ChannelStep
<1>2. QED
  BY <1>1, ChannelInit, StreamCorrect, PTL
     DEF Spec, ImplementsChannel, Channel!Spec
=============================================================================
