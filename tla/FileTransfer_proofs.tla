------------------------ MODULE FileTransfer_proofs ------------------------
(***************************************************************************)
(* Proofs about FileTransfer for every file, window, number of resends and *)
(* pattern of losses, faults and cancels, with or without the race of      *)
(* cancel_transfer against the send task.                                  *)
(***************************************************************************)
EXTENDS FileTransfer, FiniteSetTheorems, SequenceTheorems,
        WellFoundedInduction, TLAPS

-----------------------------------------------------------------------------
(* Queues *)

\* q2 is what is left of q1: nothing new, nothing nearer to the end.
Shorter(q2, q1) == \A i \in DOMAIN q2 : \E j \in DOMAIN q1 : i <= j /\ q2[i] = q1[j]

LEMMA ShorterRange ==
  ASSUME NEW q1, NEW q2, Shorter(q2, q1)
  PROVE  Range(q2) \subseteq Range(q1)
BY DEF Shorter, Range

\* Reading a message.
LEMMA TailShorter ==
  ASSUME NEW T, NEW q \in Seq(T), q # <<>>
  PROVE  /\ Tail(q) \in Seq(T) /\ Shorter(Tail(q), q)
         /\ Head(q) \in T /\ Head(q) \in Range(q) /\ Head(q) = q[1]
         /\ 1 \in DOMAIN q
<1>1. Tail(q) \in Seq(T) /\ Head(q) = q[1] /\ 1 \in DOMAIN q
  OBVIOUS
<1>2. \A i \in DOMAIN Tail(q) : i + 1 \in DOMAIN q /\ i <= i + 1 /\ Tail(q)[i] = q[i + 1]
  OBVIOUS
<1>3. QED  BY <1>1, <1>2 DEF Shorter, Range

\* No message is read after the offer that is at the head of the queue.
LEMMA TailMoves ==
  ASSUME NEW T, NEW q \in Seq(T), q # <<>>, NEW i \in DOMAIN Tail(q)
  PROVE  i + 1 \in DOMAIN q /\ Tail(q)[i] = q[i + 1]
OBVIOUS

\* Sending one.
LEMMA AppendFacts ==
  ASSUME NEW T, NEW q \in Seq(T), NEW m \in T
  PROVE  /\ Append(q, m) \in Seq(T)
         /\ Range(Append(q, m)) \subseteq Range(q) \cup {m}
         /\ Len(Append(q, m)) = Len(q) + 1
         /\ \A i \in DOMAIN Append(q, m) :
              \/ i \in DOMAIN q /\ Append(q, m)[i] = q[i]
              \/ i = Len(q) + 1 /\ Append(q, m)[i] = m
<1>1. \A i \in DOMAIN Append(q, m) :
        \/ i \in DOMAIN q /\ Append(q, m)[i] = q[i]
        \/ i = Len(q) + 1 /\ Append(q, m)[i] = m
  OBVIOUS
<1>2. Append(q, m) \in Seq(T) /\ Len(Append(q, m)) = Len(q) + 1
  OBVIOUS
<1>3. Range(Append(q, m)) \subseteq Range(q) \cup {m}
  BY <1>1 DEF Range
<1>4. QED  BY <1>1, <1>2, <1>3

\* Losing one.
LEMMA RemoveShorter ==
  ASSUME NEW T, NEW q \in Seq(T), NEW i \in DOMAIN q
  PROVE  LET rest == SubSeq(q, 1, i - 1) \o SubSeq(q, i + 1, Len(q))
         IN rest \in Seq(T) /\ Shorter(rest, q)
<1> DEFINE front == SubSeq(q, 1, i - 1)
           back  == SubSeq(q, i + 1, Len(q))
           rest  == front \o back
<1>1. i \in 1 .. Len(q) /\ Len(q) \in Nat  OBVIOUS
<1>2. /\ front \in Seq(T) /\ Len(front) = i - 1
      /\ \A j \in 1 .. i - 1 : front[j] = q[j]
  BY <1>1
<1>3. /\ back \in Seq(T) /\ Len(back) = Len(q) - i
      /\ \A j \in 1 .. Len(q) - i : back[j] = q[i + j]
  BY <1>1
<1> HIDE DEF front, back
<1>4. rest \in Seq(T) /\ Len(rest) = Len(q) - 1
  <2>1. front \in Seq(T) /\ back \in Seq(T)  BY <1>2, <1>3
  <2>2. rest \in Seq(T) /\ Len(rest) = Len(front) + Len(back)
    BY ONLY <2>1
  <2>3. Len(front) + Len(back) = Len(q) - 1  BY <1>1, <1>2, <1>3
  <2>4. QED  BY <2>2, <2>3
<1>5. ASSUME NEW j \in 1 .. i - 1
      PROVE  rest[j] = q[j] /\ j \in DOMAIN q
  BY <1>1, <1>2, <1>3
<1>6. ASSUME NEW j \in i .. Len(q) - 1
      PROVE  rest[j] = q[j + 1] /\ j + 1 \in DOMAIN q
  <2>1. rest[j] = back[j - (i - 1)]  BY <1>1, <1>2, <1>3
  <2>2. j - (i - 1) \in 1 .. Len(q) - i  BY <1>1
  <2>3. back[j - (i - 1)] = q[i + (j - (i - 1))]  BY <1>3, <2>2
  <2>4. i + (j - (i - 1)) = j + 1  BY <1>1
  <2>5. QED  BY <1>1, <2>1, <2>3, <2>4
<1>7. Shorter(rest, q)
  <2>1. ASSUME NEW j \in DOMAIN rest
        PROVE  \E k \in DOMAIN q : j <= k /\ rest[j] = q[k]
    <3>1. j \in 1 .. i - 1 \/ j \in i .. Len(q) - 1  BY <1>1, <1>4
    <3>2. CASE j \in 1 .. i - 1
      <4>1. rest[j] = q[j] /\ j \in DOMAIN q  BY <3>2, <1>5
      <4>2. j <= j  BY <3>2, <1>1
      <4>3. QED  BY <4>1, <4>2
    <3>3. CASE j \in i .. Len(q) - 1
      <4>1. rest[j] = q[j + 1] /\ j + 1 \in DOMAIN q  BY <3>3, <1>6
      <4>2. j <= j + 1  BY <3>3, <1>1
      <4>3. QED  BY <4>1, <4>2
    <3>4. QED  BY <3>1, <3>2, <3>3
  <2>2. QED  BY <2>1 DEF Shorter
<1>8. QED  BY <1>4, <1>7 DEF front, back

LEMMA EmptyShorter ==
  ASSUME NEW T, NEW q
  PROVE  <<>> \in Seq(T) /\ Shorter(<<>>, q)
BY DEF Shorter

LEMMA SameShorter ==
  ASSUME NEW T, NEW q \in Seq(T)
  PROVE  Shorter(q, q)
BY DEF Shorter

-----------------------------------------------------------------------------
(* What a step does to the wires and the reports *)

LEMMA MessageFacts ==
  /\ Offer \in ReceiverMessages /\ Cancel \in ReceiverMessages
  /\ Cancel \in SenderMessages
  /\ \A id \in ChunkId : /\ Chunk(id) \in ReceiverMessages /\ Ack(id) \in SenderMessages
                         /\ Chunk(id).action = "chunk" /\ Chunk(id).id = id
                         /\ Ack(id).action = "ack" /\ Ack(id).id = id
                         /\ Chunk(id) # Offer
  /\ Offer.action = "offer" /\ Cancel.action = "cancel" /\ Cancel # Offer
  /\ \A m \in ReceiverMessages : /\ m.action = "chunk" => m.id \in ChunkId
                                 /\ m.action = "offer" <=> m = Offer
  /\ \A m \in SenderMessages : m.action = "ack" => m.id \in ChunkId
<1>1. /\ Offer \in ReceiverMessages /\ Cancel \in ReceiverMessages
      /\ Cancel \in SenderMessages
      /\ \A id \in ChunkId : Chunk(id) \in ReceiverMessages /\ Ack(id) \in SenderMessages
  BY DEF ReceiverMessages, SenderMessages
<1>2. \A id \in ChunkId : /\ Chunk(id).action = "chunk" /\ Chunk(id).id = id
                          /\ Ack(id).action = "ack" /\ Ack(id).id = id
  BY DEF Chunk, Ack
<1>3. Offer.action = "offer" /\ Cancel.action = "cancel"
  BY DEF Offer, Cancel
<1>4. Cancel # Offer /\ \A id \in ChunkId : Chunk(id) # Offer
  BY <1>2, <1>3
<1>5. ASSUME NEW m \in ReceiverMessages
      PROVE  (m.action = "chunk" => m.id \in ChunkId) /\ (m.action = "offer" <=> m = Offer)
  BY <1>2, <1>3, <1>5 DEF ReceiverMessages
<1>6. ASSUME NEW m \in SenderMessages, m.action = "ack"
      PROVE  m.id \in ChunkId
  BY <1>2, <1>3, <1>6 DEF SenderMessages
<1>7. QED  BY <1>1, <1>2, <1>3, <1>4, <1>5, <1>6

LEMMA FirstFacts ==
  ASSUME TypeOK, batch # {}
  PROVE  First \in batch /\ First \in ChunkId
<1>1. batch \subseteq ChunkId /\ batch \subseteq Nat
  BY TransferAssumption DEF TypeOK, ChunkId
<1> DEFINE R == OpToRel(<, Nat)
<1>2. \A m, n \in Nat : <<m, n>> \in R <=> m < n
  BY DEF OpToRel
<1>3. IsWellFoundedOn(R, Nat)
  BY NatLessThanWellFounded
<1> HIDE DEF R
<1>4. \E id \in batch : \A other \in batch : id <= other
  <2>1. PICK id \in batch : \A other \in batch : ~ (<<other, id>> \in R)
    BY <1>1, <1>3, WFMin
  <2>2. \A other \in batch : ~ (other < id)
    BY <1>1, <1>2, <2>1
  <2>3. QED  BY <1>1, <2>2
<1>5. QED  BY <1>1, <1>4 DEF First

\* What the sender's side of a step may put on the wire.
ToReceiverStep ==
  \/ toReceiver' \in Seq(ReceiverMessages) /\ Shorter(toReceiver', toReceiver)
  \/ Start /\ task = "idle" /\ toReceiver' = Append(toReceiver, Offer)
  \/ toReceiver' = Append(toReceiver, Cancel)
  \/ batch # {} /\ toReceiver' = Append(toReceiver, Chunk(First))

ToSenderStep ==
  \/ toSender' \in Seq(SenderMessages) /\ Shorter(toSender', toSender)
  \/ /\ toSender' = Append(toSender, Cancel)
     /\ (incoming /\ ~incoming') \/ (ReceiveOffer /\ UNCHANGED incoming)
  \/ /\ toReceiver # <<>> /\ Head(toReceiver).action = "chunk"
     /\ toSender' = Append(toSender, Ack(Head(toReceiver).id))
     /\ received' = Stored(Head(toReceiver).id) \/ completed

LEMMA ToReceiverFacts ==
  ASSUME TypeOK, Next
  PROVE  ToReceiverStep
<1> USE DEF ToReceiverStep, TellReceiver, SendIf
<1>0. toReceiver \in Seq(ReceiverMessages)  BY DEF TypeOK
<1>1. CASE UNCHANGED toReceiver
  BY <1>0, <1>1, SameShorter
<1>2. CASE toReceiver # <<>> /\ toReceiver' = Tail(toReceiver)
  BY <1>0, <1>2, TailShorter
<1>3. CASE toReceiver' = <<>>
  BY <1>3, EmptyShorter
<1>4. CASE Start  BY <1>4 DEF Start
<1>5. CASE SendTask
  BY <1>1, <1>5 DEF SendTask, SeesCancelled, FindsGone, FindsComplete, GivesUp,
       NextChunks, SendChunk, StopsSending
<1>6. CASE SenderLoop
  BY <1>1, <1>6 DEF SenderLoop, ReceiveAck, SenderCancelled
<1>7. CASE ReceiverLoop
  BY <1>2, <1>7 DEF ReceiverLoop, ReceiveOffer, StoreChunk, WriteFails, LateChunk,
       ReceiverCancelled, Reply, ReceiverReads
<1>8. CASE Notice
  BY <1>1, <1>8 DEF Notice, SenderNotices, ReceiverNotices
<1>9. CASE CancelMark \/ CancelRemove \/ ReceiverCancels
  BY <1>1, <1>9 DEF CancelMark, CancelRemove, ReceiverCancels
<1>10. CASE LoseToReceiver
  BY <1>0, <1>10, RemoveShorter DEF LoseToReceiver
<1>11. CASE LoseToSender  BY <1>1, <1>11 DEF LoseToSender
<1>12. CASE LinkLost  BY <1>3, <1>12 DEF LinkLost
<1>13. QED
  BY <1>4, <1>5, <1>6, <1>7, <1>8, <1>9, <1>10, <1>11, <1>12 DEF Next

LEMMA ToSenderFacts ==
  ASSUME TypeOK, Next
  PROVE  ToSenderStep
<1> USE DEF ToSenderStep, SendIf
<1>0. toSender \in Seq(SenderMessages)  BY DEF TypeOK
<1>1. CASE UNCHANGED toSender
  BY <1>0, <1>1, SameShorter
<1>2. CASE toSender # <<>> /\ toSender' = Tail(toSender)
  BY <1>0, <1>2, TailShorter
<1>3. CASE toSender' = <<>>
  BY <1>3, EmptyShorter
<1>4. CASE Start  BY <1>1, <1>4 DEF Start
<1>5. CASE SendTask
  BY <1>1, <1>5 DEF SendTask, SeesCancelled, FindsGone, FindsComplete, GivesUp,
       NextChunks, SendChunk, StopsSending
<1>6. CASE SenderLoop
  BY <1>2, <1>6 DEF SenderLoop, ReceiveAck, SenderCancelled, SenderReads
<1>7. CASE ReceiverLoop
  BY <1>1, <1>7 DEF ReceiverLoop, ReceiveOffer, StoreChunk, WriteFails, LateChunk,
       ReceiverCancelled, Reply, ReceiverReads
<1>8. CASE Notice
  BY <1>1, <1>8 DEF Notice, SenderNotices, ReceiverNotices
<1>9. CASE CancelMark \/ CancelRemove \/ ReceiverCancels
  BY <1>1, <1>9 DEF CancelMark, CancelRemove, ReceiverCancels, Drop
<1>10. CASE LoseToReceiver  BY <1>1, <1>10 DEF LoseToReceiver
<1>11. CASE LoseToSender
  BY <1>0, <1>11, RemoveShorter DEF LoseToSender
<1>12. CASE LinkLost  BY <1>3, <1>12 DEF LinkLost
<1>13. QED
  BY <1>4, <1>5, <1>6, <1>7, <1>8, <1>9, <1>10, <1>11, <1>12 DEF Next

Outcomes == {"complete", "failed", "cancelled"}

LEMMA ReportFacts ==
  ASSUME TypeOK, NEW s \in Side, NEW event \in Outcomes, Report(s, event)
  PROVE  /\ reports' \in [Side -> Seq(Outcomes)]
         /\ reports'[s] = Append(reports[s], event)
         /\ \A t \in Side : t # s => reports'[t] = reports[t]
BY DEF TypeOK, Report, Outcomes

LEMMA FiniteChunks ==
  /\ IsFiniteSet(ChunkId) /\ Cardinality(ChunkId) = Chunks /\ ChunkId \subseteq Nat
  /\ \A S : S \subseteq ChunkId => IsFiniteSet(S) /\ Cardinality(S) \in Nat
<1>1. Chunks \in Nat  BY TransferAssumption
<1>2. IsFiniteSet(ChunkId) /\ Cardinality(ChunkId) = Chunks
  <2>1. Chunks - 1 \in Int /\ 0 \in Int  BY <1>1
  <2>2. /\ IsFiniteSet(0 .. Chunks - 1)
        /\ Cardinality(0 .. Chunks - 1) = IF 0 > Chunks - 1 THEN 0 ELSE Chunks - 1 - 0 + 1
    BY ONLY <2>1, FS_Interval
  <2>3. QED  BY <1>1, <2>2 DEF ChunkId
<1>3. QED  BY <1>1, <1>2, FS_Subset, FS_CardinalityType DEF ChunkId

\* The new chunks are the next ones of the file, no more than fit.
LEMMA FreshFacts ==
  ASSUME TypeOK
  PROVE  /\ Cardinality(Fresh) \in Nat /\ Fresh \subseteq ChunkId
         /\ next_unsent + Cardinality(Fresh) \in 0 .. Chunks
         /\ \A id \in ChunkId :
              id \in Fresh <=> next_unsent <= id /\ id < next_unsent + Cardinality(Fresh)
         /\ Cardinality(Fresh) > 0 => Cardinality(Fresh) <= Room
<1>1. Chunks \in Nat /\ next_unsent \in 0 .. Chunks /\ Window \in Nat
  BY TransferAssumption DEF TypeOK
<1>2. Cardinality(inflight) \in Nat  BY FiniteChunks DEF TypeOK
<1>3. Room \in Int  BY <1>1, <1>2 DEF Room
<1> DEFINE end == next_unsent + Room
           top == IF end <= Chunks THEN end - 1 ELSE Chunks - 1
<1>4. top \in Int /\ top <= Chunks - 1 /\ top <= end - 1  BY <1>1, <1>3
<1>5. Fresh = next_unsent .. top
  BY <1>1, <1>3 DEF Fresh, ChunkId
<1>6. Cardinality(Fresh) = IF next_unsent > top THEN 0 ELSE top - next_unsent + 1
  <2> HIDE DEF top
  <2>1. next_unsent \in Int /\ top \in Int  BY <1>1, <1>4
  <2>2. Cardinality(next_unsent .. top)
          = IF next_unsent > top THEN 0 ELSE top - next_unsent + 1
    BY ONLY <2>1, FS_Interval
  <2>3. QED  BY <1>5, <2>2
<1> HIDE DEF top
<1>7. Fresh \subseteq ChunkId  BY DEF Fresh
<1>8. QED  BY <1>1, <1>3, <1>4, <1>5, <1>6, <1>7 DEF ChunkId

-----------------------------------------------------------------------------
(* Types *)

LEMMA TypeInit == Init => TypeOK
<1>1. ASSUME Init
      PROVE  /\ next_unsent \in 0 .. Chunks /\ rounds \in 0 .. MaxRounds
             /\ losses \in Nat /\ faults \in Nat
  BY <1>1, TransferAssumption DEF Init
<1>2. ASSUME Init
      PROVE  /\ reports \in [Side -> Seq({"complete", "failed", "cancelled"})]
             /\ noticed \in [Side -> BOOLEAN]
             /\ toReceiver \in Seq(ReceiverMessages) /\ toSender \in Seq(SenderMessages)
  BY <1>2 DEF Init
<1>3. QED  BY <1>1, <1>2 DEF Init, TypeOK

LEMMA WireTypes ==
  ASSUME TypeOK, Next
  PROVE  toReceiver' \in Seq(ReceiverMessages) /\ toSender' \in Seq(SenderMessages)
<1>0. toReceiver \in Seq(ReceiverMessages) /\ toSender \in Seq(SenderMessages)
  BY DEF TypeOK
<1>1. toReceiver' \in Seq(ReceiverMessages)
  <2>1. batch # {} => Chunk(First) \in ReceiverMessages  BY FirstFacts, MessageFacts
  <2>2. ASSUME NEW m \in ReceiverMessages, toReceiver' = Append(toReceiver, m)
        PROVE  toReceiver' \in Seq(ReceiverMessages)
    BY <1>0, <2>2
  <2>3. QED
    BY <2>1, <2>2, ToReceiverFacts, MessageFacts DEF ToReceiverStep
<1>2. toSender' \in Seq(SenderMessages)
  <2>1. ASSUME toReceiver # <<>>, Head(toReceiver).action = "chunk"
        PROVE  Ack(Head(toReceiver).id) \in SenderMessages
    BY <1>0, <2>1, TailShorter, MessageFacts
  <2>2. QED
    BY <1>0, <2>1, ToSenderFacts, MessageFacts, AppendFacts DEF ToSenderStep
<1>3. QED  BY <1>1, <1>2

LEMMA ReportTypes ==
  ASSUME TypeOK, Next
  PROVE  reports' \in [Side -> Seq(Outcomes)]
<1>1. CASE UNCHANGED reports  BY <1>1 DEF TypeOK, Outcomes
<1>2. CASE \E s \in Side, event \in Outcomes : Report(s, event)
  BY <1>2, ReportFacts
<1>3. QED
  BY <1>1, <1>2 DEF Next, Start, SendTask, SeesCancelled, FindsGone, FindsComplete,
     GivesUp, NextChunks, SendChunk, StopsSending, SenderLoop, ReceiveAck,
     SenderCancelled, ReceiverLoop, ReceiveOffer, StoreChunk, WriteFails, LateChunk,
     ReceiverCancelled, Finish, Drop, Notice, SenderNotices, ReceiverNotices,
     CancelMark, CancelRemove, ReceiverCancels, LoseToReceiver, LoseToSender,
     LinkLost, Side, Outcomes, receiver

LEMMA BoundTypes ==
  ASSUME TypeOK, Next
  PROVE  losses' \in Nat /\ faults' \in Nat /\ noticeLost' \in BOOLEAN
<1> USE DEF bounds, history
<1>0. losses \in Nat /\ faults \in Nat /\ noticeLost \in BOOLEAN  BY DEF TypeOK
<1>1. CASE LoseToReceiver
  <2>1. PICK i \in DOMAIN toReceiver :
          noticeLost' = (noticeLost \/ toReceiver[i] = Cancel)
    BY <1>1, Zenon DEF LoseToReceiver
  <2>2. (noticeLost \/ toReceiver[i] = Cancel) \in BOOLEAN  OBVIOUS
  <2>3. noticeLost' \in BOOLEAN  BY <2>1, <2>2, Zenon
  <2>4. losses' = losses + 1 /\ faults' = faults  BY <1>1 DEF LoseToReceiver
  <2>5. QED  BY <1>0, <2>3, <2>4
<1>2. CASE LoseToSender
  <2>1. losses' = losses + 1 /\ faults' = faults /\ noticeLost' = noticeLost
    BY <1>2 DEF LoseToSender
  <2>2. QED  BY <1>0, <2>1
<1>3. CASE ~LoseToReceiver /\ ~LoseToSender
  <2>1. losses' = losses /\ noticeLost' = noticeLost
    BY <1>3 DEF Next, Start, SendTask, SeesCancelled, FindsGone, FindsComplete,
       GivesUp, NextChunks, SendChunk, StopsSending, SenderLoop, ReceiveAck,
       SenderCancelled, ReceiverLoop, ReceiveOffer, StoreChunk, WriteFails,
       LateChunk, ReceiverCancelled, Notice, SenderNotices, ReceiverNotices,
       CancelMark, CancelRemove, ReceiverCancels, LinkLost
  <2>2. faults' = faults \/ faults' = faults + 1
    BY <1>3 DEF Next, Start, SendTask, SeesCancelled, FindsGone, FindsComplete,
       GivesUp, NextChunks, SendChunk, StopsSending, SenderLoop, ReceiveAck,
       SenderCancelled, ReceiverLoop, ReceiveOffer, StoreChunk, WriteFails,
       LateChunk, ReceiverCancelled, Notice, SenderNotices, ReceiverNotices,
       CancelMark, CancelRemove, ReceiverCancels, LinkLost
  <2>3. QED  BY <1>0, <2>1, <2>2
<1>4. QED  BY <1>1, <1>2, <1>3

LEMMA RacedType ==
  ASSUME TypeOK, Next
  PROVE  raced' \in BOOLEAN
<1>0. raced \in BOOLEAN  BY DEF TypeOK
<1>1. CASE SeesCancelled
  <2>1. raced' = (raced \/ (transfers /\ cancelling = "marked"))
    BY <1>1 DEF SeesCancelled
  <2>2. (raced \/ (transfers /\ cancelling = "marked")) \in BOOLEAN  OBVIOUS
  <2>3. QED  BY <2>1, <2>2, Zenon
<1>2. CASE ~SeesCancelled
  <2>1. raced' = raced
    BY <1>2 DEF Next, Start, SendTask, FindsGone, FindsComplete, GivesUp,
       NextChunks, SendChunk, StopsSending, SenderLoop, ReceiveAck,
       SenderCancelled, ReceiverLoop, ReceiveOffer, StoreChunk, WriteFails,
       LateChunk, ReceiverCancelled, Notice, SenderNotices, ReceiverNotices,
       CancelMark, CancelRemove, ReceiverCancels, LinkLost, LoseToReceiver,
       LoseToSender, bounds, history
  <2>2. QED  BY <1>0, <2>1, Zenon
<1>3. QED  BY <1>1, <1>2

\* The other variables that are no sequences.
LEMMA DataTypes ==
  ASSUME TypeOK, Next
  PROVE  /\ transfers' \in BOOLEAN /\ cancelled' \in BOOLEAN
         /\ next_unsent' \in 0 .. Chunks
         /\ inflight' \subseteq ChunkId /\ acked' \subseteq ChunkId
         /\ batch' \subseteq ChunkId
         /\ rounds' \in 0 .. MaxRounds
         /\ task' \in {"idle", "running", "ended"}
         /\ cancelling' \in {"no", "marked", "done"}
         /\ incoming' \in BOOLEAN /\ received' \subseteq ChunkId
         /\ completed' \in BOOLEAN
         /\ link' \in {"up", "down"} /\ noticed' \in [Side -> BOOLEAN]
<1> USE DEF TypeOK, sender, receiver, window
<1>1. CASE Start  BY <1>1 DEF Start
<1>2. CASE SendTask
  <2>1. CASE SeesCancelled \/ FindsGone \/ FindsComplete \/ SendChunk \/ StopsSending
    BY <2>1 DEF SeesCancelled, FindsGone, FindsComplete, SendChunk, StopsSending
  <2>2. CASE GivesUp  BY <2>2 DEF GivesUp
  <2>3. ASSUME NEW overdue \in SUBSET inflight, NextChunks(overdue)
        PROVE  /\ next_unsent' \in 0 .. Chunks /\ inflight' \subseteq ChunkId
               /\ batch' \subseteq ChunkId /\ rounds' \in 0 .. MaxRounds
    BY <2>3, FreshFacts, TransferAssumption DEF NextChunks
  <2>4. ASSUME NEW overdue \in SUBSET inflight, NextChunks(overdue)
        PROVE  UNCHANGED <<transfers, cancelled, acked, task, cancelling, receiver,
                           link, noticed>>
    BY <2>4 DEF NextChunks
  <2>5. QED  BY <1>2, <2>1, <2>2, <2>3, <2>4 DEF SendTask
<1>3. CASE SenderLoop
  <2>1. CASE ReceiveAck
    <3>1. Head(toSender).id \in ChunkId
      BY <2>1, TailShorter, MessageFacts DEF ReceiveAck, SenderReads
    <3>2. QED  BY <2>1, <3>1, TransferAssumption DEF ReceiveAck, Landed
  <2>2. CASE SenderCancelled  BY <2>2 DEF SenderCancelled
  <2>3. QED  BY <1>3, <2>1, <2>2 DEF SenderLoop
<1>4. CASE ReceiverLoop
  <2>1. CASE ReceiveOffer  BY <2>1 DEF ReceiveOffer, Finish
  <2>2. CASE StoreChunk
    <3>1. Head(toReceiver).id \in ChunkId
      BY <2>2, TailShorter, MessageFacts DEF StoreChunk, ReceiverReads
    <3>2. QED  BY <2>2, <3>1 DEF StoreChunk, Stored, Finish
  <2>3. CASE WriteFails  BY <2>3 DEF WriteFails
  <2>4. CASE LateChunk \/ ReceiverCancelled
    BY <2>4 DEF LateChunk, ReceiverCancelled, Drop
  <2>5. QED  BY <1>4, <2>1, <2>2, <2>3, <2>4 DEF ReceiverLoop
<1>5. CASE Notice
  BY <1>5 DEF Notice, SenderNotices, ReceiverNotices, Drop
<1>6. CASE CancelMark \/ CancelRemove \/ ReceiverCancels
  BY <1>6 DEF CancelMark, CancelRemove, ReceiverCancels, Drop
<1>7. CASE LoseToReceiver
  BY <1>7 DEF LoseToReceiver
<1>8. CASE LoseToSender \/ LinkLost
  BY <1>8 DEF LoseToSender, LinkLost
<1>9. QED
  BY <1>1, <1>2, <1>3, <1>4, <1>5, <1>6, <1>7, <1>8 DEF Next

LEMMA TypeStep ==
  ASSUME TypeOK, [Next]_vars
  PROVE  TypeOK'
<1>1. CASE UNCHANGED vars
  BY <1>1 DEF vars, sender, receiver, bounds, history, window, TypeOK
<1>2. CASE Next
  BY <1>2, WireTypes, ReportTypes, BoundTypes, RacedType, DataTypes
     DEF TypeOK, Outcomes
<1>3. QED  BY <1>1, <1>2

\* Every reachable state is well typed.
THEOREM TypeCorrect == Spec => []TypeOK
BY TypeInit, TypeStep, PTL DEF Spec

-----------------------------------------------------------------------------
(* Every chunk that went out is in flight or acknowledged *)

\* A chunk on the wire to the receiver is one of the file, one to the sender
\* was written.
LEMMA HeadOfWires ==
  ASSUME TransferInv
  PROVE  /\ ReceiverReads("chunk") => /\ Head(toReceiver).id \in ChunkId
                                      /\ Head(toReceiver).id < next_unsent
         /\ SenderReads("ack") => /\ Head(toSender).id \in received
                                  /\ Head(toSender).id \in ChunkId
                                  /\ Head(toSender).id < next_unsent
<1>1. toReceiver \in Seq(ReceiverMessages) /\ toSender \in Seq(SenderMessages)
  BY DEF TransferInv, TypeOK
<1>2. ReceiverReads("chunk") => /\ Head(toReceiver).id \in ChunkId
                                /\ Head(toReceiver).id < next_unsent
  BY <1>1, TailShorter, MessageFacts DEF TransferInv, OnlySentChunks, ReceiverReads
<1>3. SenderReads("ack") => /\ Head(toSender).id \in received
                            /\ Head(toSender).id \in ChunkId
  BY <1>1, TailShorter, MessageFacts DEF TransferInv, OnlyWrittenAcked, SenderReads
<1>4. \A id \in received : id < next_unsent
  BY DEF TransferInv, OnlySentChunks
<1>5. QED  BY <1>2, <1>3, <1>4

\* The window only moves on: everything that may look at next_unsent agrees.
LEMMA WindowSteps ==
  ASSUME TypeOK, Next
  PROVE  \/ UNCHANGED <<next_unsent, inflight, acked>>
         \/ \E overdue \in SUBSET inflight : NextChunks(overdue)
         \/ ReceiveAck
BY DEF Next, Start, SendTask, SeesCancelled, FindsGone, FindsComplete,
   GivesUp, SendChunk, StopsSending, SenderLoop, SenderCancelled, ReceiverLoop,
   ReceiveOffer, StoreChunk, WriteFails, LateChunk, ReceiverCancelled, Notice,
   SenderNotices, ReceiverNotices, CancelMark, CancelRemove, ReceiverCancels,
   LoseToReceiver, LoseToSender, LinkLost, sender, window

LEMMA TrackedStep ==
  ASSUME TransferInv, Next
  PROVE  EveryChunkTracked'
<1>0. TypeOK /\ EveryChunkTracked  BY DEF TransferInv
<1>1. CASE UNCHANGED <<next_unsent, inflight, acked>>
  BY <1>0, <1>1 DEF EveryChunkTracked
<1>2. ASSUME NEW overdue \in SUBSET inflight, NextChunks(overdue)
      PROVE  EveryChunkTracked'
  <2>1. /\ next_unsent' = next_unsent + Cardinality(Fresh)
        /\ inflight' = inflight \cup Fresh
        /\ acked' = acked
    BY <1>2 DEF NextChunks
  <2>2. Cardinality(inflight') <= Window
    <3>1. IsFiniteSet(inflight) /\ IsFiniteSet(Fresh) /\ IsFiniteSet(inflight \cap Fresh)
      BY <1>0, FiniteChunks, FreshFacts DEF TypeOK
    <3>2. /\ Cardinality(inflight) \in Nat /\ Cardinality(Fresh) \in Nat
          /\ Cardinality(inflight \cap Fresh) \in Nat
      BY <3>1, FS_CardinalityType
    <3>3. Cardinality(inflight \cup Fresh)
            = Cardinality(inflight) + Cardinality(Fresh) - Cardinality(inflight \cap Fresh)
      BY <3>1, FS_Union
    <3>4. CASE Cardinality(Fresh) = 0
      BY <1>0, <2>1, <3>2, <3>3, <3>4, TransferAssumption DEF EveryChunkTracked
    <3>5. CASE Cardinality(Fresh) > 0
      BY <1>0, <2>1, <3>2, <3>3, <3>5, FreshFacts, TransferAssumption DEF Room
    <3>6. QED  BY <3>2, <3>4, <3>5
  <2>3. /\ acked' \cup inflight' = {id \in ChunkId : id < next_unsent'}
        /\ acked' \cap inflight' = {}
    <3>1. \A id \in ChunkId : id \in Nat  BY FiniteChunks
    <3>2. \A id \in ChunkId : id < next_unsent' <=> id < next_unsent \/ id \in Fresh
      BY <1>0, <2>1, <3>1, FreshFacts DEF TypeOK
    <3>3. \A id \in Fresh : ~(id < next_unsent)
      BY <1>0, <3>1, FreshFacts DEF TypeOK
    <3>4. /\ acked \cup inflight = {id \in ChunkId : id < next_unsent}
          /\ acked \cap inflight = {}
      BY <1>0 DEF EveryChunkTracked
    <3>5. Fresh \subseteq ChunkId  BY <1>0, FreshFacts
    <3>6. QED  BY <2>1, <3>2, <3>3, <3>4, <3>5
  <2>4. QED  BY <2>2, <2>3 DEF EveryChunkTracked
<1>3. CASE ReceiveAck
  <2>1. PICK id \in ChunkId : /\ id < next_unsent
                              /\ id = Head(toSender).id
    BY <1>3, HeadOfWires DEF ReceiveAck
  <2>2. \/ acked' = acked \cup {id} /\ inflight' = inflight \ {id}
        \/ UNCHANGED <<acked, inflight>>
    BY <1>3, <2>1 DEF ReceiveAck, Landed
  <2>3. next_unsent' = next_unsent  BY <1>3 DEF ReceiveAck
  <2>4. Cardinality(inflight \ {id}) <= Window
    <3>1. IsFiniteSet(inflight) /\ Cardinality(inflight) \in Nat
      BY <1>0, FiniteChunks DEF TypeOK
    <3>2. /\ Cardinality(inflight \ {id})
               = IF id \in inflight THEN Cardinality(inflight) - 1 ELSE Cardinality(inflight)
      BY <3>1, FS_RemoveElement
    <3>3. QED
      BY <1>0, <3>1, <3>2, TransferAssumption DEF EveryChunkTracked
  <2>5. QED
    BY <1>0, <2>1, <2>2, <2>3, <2>4 DEF EveryChunkTracked
<1>4. QED  BY <1>0, <1>1, <1>2, <1>3, WindowSteps

LEMMA OnlySentStep ==
  ASSUME TransferInv, Next
  PROVE  OnlySentChunks'
<1>0. TypeOK /\ TypeOK' /\ EveryChunkTracked /\ OnlySentChunks
  BY TypeStep DEF TransferInv
<1>1. next_unsent <= next_unsent' /\ next_unsent \in Nat /\ next_unsent' \in Nat
  <2>1. next_unsent \in Nat /\ next_unsent' \in Nat
    BY <1>0, TransferAssumption DEF TypeOK
  <2>2. CASE UNCHANGED next_unsent  BY <2>1, <2>2
  <2>3. ASSUME NEW overdue \in SUBSET inflight, NextChunks(overdue)
        PROVE  next_unsent <= next_unsent'
    BY <2>1, <2>3, <1>0, FreshFacts DEF NextChunks
  <2>4. CASE ReceiveAck  BY <2>2, <2>4 DEF ReceiveAck
  <2>5. QED  BY <1>0, <2>1, <2>2, <2>3, <2>4, WindowSteps
<1>2. \A id \in ChunkId : id < next_unsent => id < next_unsent'
  BY <1>1, FiniteChunks
<1>3. \A id \in received' : id < next_unsent'
  <2>1. \/ received' = received
        \/ ReceiverReads("chunk") /\ received' = received \cup {Head(toReceiver).id}
    BY DEF Next, Start, SendTask, SeesCancelled, FindsGone, FindsComplete,
       GivesUp, NextChunks, SendChunk, StopsSending, SenderLoop, ReceiveAck,
       SenderCancelled, ReceiverLoop, ReceiveOffer, StoreChunk, Stored, WriteFails,
       LateChunk, ReceiverCancelled, Notice, SenderNotices, ReceiverNotices,
       CancelMark, CancelRemove, ReceiverCancels, LoseToReceiver, LoseToSender,
       LinkLost, receiver
  <2>2. \A id \in received : id \in ChunkId /\ id < next_unsent
    BY <1>0 DEF TypeOK, OnlySentChunks
  <2>3. \A id \in received' : id \in ChunkId /\ id < next_unsent
    BY <2>1, <2>2, HeadOfWires
  <2>4. QED  BY <1>2, <2>3
<1>4. \A id \in batch' : id < next_unsent'
  <2>1. \/ batch' \subseteq batch
        \/ \E overdue \in SUBSET inflight : NextChunks(overdue)
    BY DEF Next, Start, SendTask, SeesCancelled, FindsGone, FindsComplete,
       GivesUp, SendChunk, StopsSending, SenderLoop, ReceiveAck,
       SenderCancelled, ReceiverLoop, ReceiveOffer, StoreChunk, WriteFails,
       LateChunk, ReceiverCancelled, Notice, SenderNotices, ReceiverNotices,
       CancelMark, CancelRemove, ReceiverCancels, LoseToReceiver, LoseToSender,
       LinkLost, sender
  <2>2. CASE batch' \subseteq batch
    BY <1>0, <1>2, <2>2 DEF TypeOK, OnlySentChunks
  <2>3. ASSUME NEW overdue \in SUBSET inflight, NextChunks(overdue)
        PROVE  \A id \in batch' : id < next_unsent'
    <3>1. batch' = overdue \cup Fresh /\ next_unsent' = next_unsent + Cardinality(Fresh)
      BY <2>3 DEF NextChunks
    <3>2. \A id \in inflight : id \in ChunkId /\ id < next_unsent
      BY <1>0 DEF EveryChunkTracked
    <3>3. \A id \in Fresh : id < next_unsent'
      BY <1>0, <3>1, FreshFacts
    <3>4. QED  BY <1>2, <3>1, <3>2, <3>3
  <2>4. QED  BY <2>1, <2>2, <2>3
<1>5. \A m \in Range(toReceiver') : m.action = "chunk" => m.id < next_unsent'
  <2>0. toReceiver \in Seq(ReceiverMessages)  BY <1>0 DEF TypeOK
  <2>1. \A m \in Range(toReceiver) : m.action = "chunk" => m.id < next_unsent'
    <3>1. \A m \in Range(toReceiver) : m \in ReceiverMessages
      BY <2>0 DEF Range
    <3>2. QED  BY <1>0, <1>2, <3>1, MessageFacts DEF OnlySentChunks
  <2>2. CASE Shorter(toReceiver', toReceiver)
    BY <2>1, <2>2, ShorterRange
  <2>3. ASSUME NEW m \in ReceiverMessages, toReceiver' = Append(toReceiver, m),
               m.action = "chunk" => m.id < next_unsent'
        PROVE  \A n \in Range(toReceiver') : n.action = "chunk" => n.id < next_unsent'
    <3>1. Range(toReceiver') \subseteq Range(toReceiver) \cup {m}
      BY <2>0, <2>3, AppendFacts
    <3>2. QED  BY <2>1, <2>3, <3>1
  <2>4. CASE batch # {} /\ toReceiver' = Append(toReceiver, Chunk(First))
    <3>1. First \in ChunkId /\ First < next_unsent
      BY <1>0, <2>4, FirstFacts DEF OnlySentChunks
    <3>2. QED  BY <1>2, <2>3, <2>4, <3>1, MessageFacts
  <2>5. QED
    BY <1>0, <2>2, <2>3, <2>4, ToReceiverFacts, MessageFacts DEF ToReceiverStep
<1>6. QED  BY <1>3, <1>4, <1>5 DEF OnlySentChunks

-----------------------------------------------------------------------------
(* What is acknowledged was written *)

LEMMA ReceivedGrows ==
  ASSUME Next
  PROVE  /\ received \subseteq received'
         /\ UNCHANGED received \/ StoreChunk
BY DEF Next, Start, SendTask, SeesCancelled, FindsGone, FindsComplete,
   GivesUp, NextChunks, SendChunk, StopsSending, SenderLoop, ReceiveAck,
   SenderCancelled, ReceiverLoop, ReceiveOffer, StoreChunk, Stored, WriteFails,
   LateChunk, ReceiverCancelled, Notice, SenderNotices, ReceiverNotices,
   CancelMark, CancelRemove, ReceiverCancels, LoseToReceiver, LoseToSender,
   LinkLost, receiver

LEMMA WrittenStep ==
  ASSUME TransferInv, Next
  PROVE  OnlyWrittenAcked'
<1>0. TypeOK /\ TypeOK' /\ OnlyWrittenAcked
  BY TypeStep DEF TransferInv
<1>1. acked' \subseteq received'
  <2>1. acked' = acked \/ (ReceiveAck /\ acked' = acked \cup {Head(toSender).id})
    BY <1>0, WindowSteps DEF NextChunks, ReceiveAck
  <2>2. ReceiveAck => Head(toSender).id \in received
    BY HeadOfWires DEF ReceiveAck
  <2>3. QED  BY <1>0, <2>1, <2>2, ReceivedGrows DEF OnlyWrittenAcked
<1>2. \A m \in Range(toSender') : m.action = "ack" => m.id \in received'
  <2>0. toSender \in Seq(SenderMessages)  BY <1>0 DEF TypeOK
  <2>1. \A m \in Range(toSender) : m.action = "ack" => m.id \in received'
    BY <1>0, ReceivedGrows DEF OnlyWrittenAcked
  <2>2. CASE Shorter(toSender', toSender)  BY <2>1, <2>2, ShorterRange
  <2>3. ASSUME NEW m \in SenderMessages, toSender' = Append(toSender, m),
               m.action = "ack" => m.id \in received'
        PROVE  \A n \in Range(toSender') : n.action = "ack" => n.id \in received'
    <3>1. Range(toSender') \subseteq Range(toSender) \cup {m}
      BY <2>0, <2>3, AppendFacts
    <3>2. QED  BY <2>1, <2>3, <3>1
  <2>4. ASSUME toReceiver # <<>>, Head(toReceiver).action = "chunk",
               toSender' = Append(toSender, Ack(Head(toReceiver).id)),
               received' = Stored(Head(toReceiver).id) \/ completed
        PROVE  \A n \in Range(toSender') : n.action = "ack" => n.id \in received'
    <3>1. Head(toReceiver).id \in ChunkId
      BY <2>4, HeadOfWires DEF ReceiverReads
    <3>2. Head(toReceiver).id \in received'
      BY <1>0, <2>4, <3>1, ReceivedGrows DEF OnlyWrittenAcked, Stored
    <3>3. QED  BY <2>3, <2>4, <3>1, <3>2, MessageFacts
  <2>5. QED
    BY <1>0, <2>2, <2>3, <2>4, ToSenderFacts, MessageFacts DEF ToSenderStep
<1>3. completed' => received' = ChunkId
  <2>1. CASE StoreChunk
    <3>1. \/ received' = ChunkId
          \/ completed' = completed
      BY <2>1 DEF StoreChunk
    <3>2. QED
      BY <1>0, <3>1, ReceivedGrows DEF OnlyWrittenAcked, TypeOK
  <2>2. CASE ReceiveOffer
    <3>1. Chunks = 0 \/ completed' = completed  BY <2>2 DEF ReceiveOffer
    <3>2. Chunks = 0 => ChunkId = {}  BY DEF ChunkId
    <3>3. received' = received  BY <2>2 DEF ReceiveOffer
    <3>4. QED  BY <1>0, <3>1, <3>2, <3>3 DEF OnlyWrittenAcked, TypeOK
  <2>3. CASE ~StoreChunk /\ ~ReceiveOffer
    <3>1. completed' = completed
      BY <2>3 DEF Next, Start, SendTask, SeesCancelled, FindsGone, FindsComplete,
         GivesUp, NextChunks, SendChunk, StopsSending, SenderLoop, ReceiveAck,
         SenderCancelled, ReceiverLoop, WriteFails, LateChunk, ReceiverCancelled,
         Notice, SenderNotices, ReceiverNotices, CancelMark, CancelRemove,
         ReceiverCancels, LoseToReceiver, LoseToSender, LinkLost, receiver
    <3>2. QED
      BY <1>0, <3>1, ReceivedGrows DEF OnlyWrittenAcked, TypeOK
  <2>4. QED  BY <2>1, <2>2, <2>3
<1>4. QED  BY <1>1, <1>2, <1>3 DEF OnlyWrittenAcked

-----------------------------------------------------------------------------
(* One outcome, and the right one *)

\* The sender's report grows only while it holds the transfer, and then it does
\* so no longer.
LEMMA SenderReports ==
  ASSUME TypeOK, Next
  PROVE  \/ reports'["sender"] = reports["sender"] /\ (transfers' => transfers \/ Start)
         \/ /\ transfers /\ ~transfers'
            /\ \E event \in Outcomes :
                 /\ reports'["sender"] = Append(reports["sender"], event)
                 /\ event = "complete" => FindsComplete
<1> USE DEF Outcomes
<1>0. "sender" \in Side /\ "receiver" \in Side /\ "sender" # "receiver"  BY DEF Side
<1>1. CASE UNCHANGED reports /\ (transfers' => transfers \/ Start)
  BY <1>1
<1>2. ASSUME NEW event \in Outcomes, Report("receiver", event), UNCHANGED transfers
      PROVE  reports'["sender"] = reports["sender"] /\ (transfers' => transfers)
  BY <1>0, <1>2, ReportFacts
<1>3. ASSUME NEW event \in Outcomes, Report("sender", event), transfers, ~transfers',
             event = "complete" => FindsComplete
      PROVE  \E e \in Outcomes : /\ reports'["sender"] = Append(reports["sender"], e)
                                 /\ e = "complete" => FindsComplete
  BY <1>0, <1>3, ReportFacts
<1>4. CASE Start  BY <1>4 DEF Start
<1>5. CASE SendTask
  <2>1. CASE FindsComplete
    <3>1. Report("sender", "complete") /\ transfers /\ ~transfers'
      BY <2>1 DEF FindsComplete
    <3>2. QED  BY <1>3, <2>1, <3>1
  <2>2. CASE GivesUp  BY <1>3, <2>2 DEF GivesUp
  <2>3. CASE SendChunk  BY <1>1, <1>3, <2>3 DEF SendChunk
  <2>4. CASE \/ SeesCancelled \/ FindsGone \/ StopsSending
             \/ \E overdue \in SUBSET inflight : NextChunks(overdue)
    BY <1>1, <2>4 DEF SeesCancelled, FindsGone, StopsSending, NextChunks
  <2>5. QED  BY <1>5, <2>1, <2>2, <2>3, <2>4 DEF SendTask
<1>6. CASE SenderLoop
  BY <1>1, <1>3, <1>6 DEF SenderLoop, ReceiveAck, SenderCancelled, StillSending
<1>7. CASE ReceiverLoop
  BY <1>1, <1>2, <1>7 DEF ReceiverLoop, ReceiveOffer, StoreChunk, WriteFails,
     LateChunk, ReceiverCancelled, Finish, Drop, sender
<1>8. CASE Notice
  BY <1>1, <1>2, <1>3, <1>8 DEF Notice, SenderNotices, ReceiverNotices, Drop, sender
<1>9. CASE CancelMark \/ CancelRemove \/ ReceiverCancels
  BY <1>1, <1>2, <1>3, <1>9 DEF CancelMark, CancelRemove, ReceiverCancels, Drop, sender
<1>10. CASE LoseToReceiver \/ LoseToSender \/ LinkLost
  BY <1>1, <1>10 DEF LoseToReceiver, LoseToSender, LinkLost, sender
<1>11. QED
  BY <1>4, <1>5, <1>6, <1>7, <1>8, <1>9, <1>10 DEF Next

\* A transfer whose chunks are all acknowledged has arrived.
LEMMA CompleteFacts ==
  ASSUME TransferInv, FindsComplete
  PROVE  received = ChunkId
<1>0. TypeOK /\ OnlyWrittenAcked  BY DEF TransferInv
<1>1. IsFiniteSet(ChunkId) /\ acked \subseteq ChunkId
  BY <1>0, FiniteChunks DEF TypeOK
<1>2. Cardinality(ChunkId) = Cardinality(acked)
  BY FiniteChunks DEF FindsComplete, IsComplete
<1>3. acked = ChunkId  BY <1>1, <1>2, FS_Subset
<1>4. QED  BY <1>0, <1>3 DEF OnlyWrittenAcked, TypeOK

LEMMA CompleteStep ==
  ASSUME TransferInv, Next
  PROVE  CompleteMeansReceived'
<1>0. TypeOK /\ TypeOK' /\ CompleteMeansReceived /\ OnlyWrittenAcked
  BY TypeStep DEF TransferInv
<1>1. received = ChunkId => received' = ChunkId
  BY <1>0, ReceivedGrows DEF TypeOK
<1>2. CASE "complete" \in Range(reports["sender"])
  BY <1>0, <1>1, <1>2 DEF CompleteMeansReceived
<1>3. CASE FindsComplete
  <2>1. received = ChunkId  BY <1>3, CompleteFacts
  <2>2. QED  BY <1>1, <2>1 DEF CompleteMeansReceived
<1>4. CASE "complete" \notin Range(reports["sender"]) /\ ~FindsComplete
  <2>1. reports["sender"] \in Seq(Outcomes)
    BY <1>0 DEF TypeOK, Outcomes, Side
  <2>2. \/ reports'["sender"] = reports["sender"]
        \/ \E event \in Outcomes : /\ event # "complete"
                                   /\ reports'["sender"] = Append(reports["sender"], event)
    BY <1>0, <1>4, SenderReports
  <2>3. ASSUME NEW event \in Outcomes, event # "complete",
               reports'["sender"] = Append(reports["sender"], event)
        PROVE  "complete" \notin Range(reports'["sender"])
    <3>1. Range(reports'["sender"]) \subseteq Range(reports["sender"]) \cup {event}
      BY <2>1, <2>3, AppendFacts
    <3>2. QED  BY <1>4, <2>3, <3>1
  <2>4. QED  BY <1>4, <2>2, <2>3 DEF CompleteMeansReceived
<1>5. QED  BY <1>2, <1>3, <1>4

\* The same at the receiver, which takes the transfer on with the offer.
LEMMA ReceiverReports ==
  ASSUME TypeOK, Next
  PROVE  \/ /\ reports'["receiver"] = reports["receiver"]
            /\ incoming' => incoming \/ ReceiveOffer
         \/ /\ \/ incoming /\ ~incoming'
               \/ ReceiveOffer /\ UNCHANGED incoming
            /\ \E event \in Outcomes :
                 reports'["receiver"] = Append(reports["receiver"], event)
<1> USE DEF Outcomes
<1>0. "sender" \in Side /\ "receiver" \in Side /\ "sender" # "receiver"  BY DEF Side
<1>1. CASE UNCHANGED reports /\ (incoming' => incoming \/ ReceiveOffer)
  BY <1>1
<1>2. ASSUME NEW event \in Outcomes, Report("sender", event), UNCHANGED incoming
      PROVE  reports'["receiver"] = reports["receiver"] /\ (incoming' => incoming)
  BY <1>0, <1>2, ReportFacts
<1>3. ASSUME NEW event \in Outcomes, Report("receiver", event)
      PROVE  \E e \in Outcomes : reports'["receiver"] = Append(reports["receiver"], e)
  BY <1>0, <1>3, ReportFacts
<1>4. CASE Start  BY <1>1, <1>4 DEF Start, receiver
<1>5. CASE SendTask
  BY <1>1, <1>2, <1>5 DEF SendTask, SeesCancelled, FindsGone, FindsComplete, GivesUp,
     NextChunks, SendChunk, StopsSending, receiver
<1>6. CASE SenderLoop
  BY <1>1, <1>2, <1>6 DEF SenderLoop, ReceiveAck, SenderCancelled, receiver
<1>7. CASE ReceiverLoop
  <2>1. CASE ReceiveOffer
    BY <1>1, <1>3, <2>1 DEF ReceiveOffer, Finish
  <2>2. CASE StoreChunk
    BY <1>1, <1>3, <2>2 DEF StoreChunk, Finish
  <2>3. CASE WriteFails \/ LateChunk \/ ReceiverCancelled
    BY <1>1, <1>3, <2>3 DEF WriteFails, LateChunk, ReceiverCancelled, Drop, receiver
  <2>4. QED  BY <1>7, <2>1, <2>2, <2>3 DEF ReceiverLoop
<1>8. CASE Notice
  BY <1>1, <1>2, <1>3, <1>8 DEF Notice, SenderNotices, ReceiverNotices, Drop, receiver
<1>9. CASE CancelMark \/ CancelRemove \/ ReceiverCancels
  BY <1>1, <1>2, <1>3, <1>9 DEF CancelMark, CancelRemove, ReceiverCancels, Drop,
     receiver
<1>10. CASE LoseToReceiver \/ LoseToSender \/ LinkLost
  BY <1>1, <1>10 DEF LoseToReceiver, LoseToSender, LinkLost, receiver
<1>11. QED
  BY <1>4, <1>5, <1>6, <1>7, <1>8, <1>9, <1>10 DEF Next

\* Before the transfer starts, nothing of it is anywhere.
LEMMA IdleStep ==
  ASSUME TransferInv, Next, task' = "idle"
  PROVE  ~transfers' /\ ~incoming' /\ toReceiver' = <<>> /\ \A s \in Side : reports'[s] = <<>>
<1>1. task = "idle"
  BY DEF Next, Start, SendTask, SeesCancelled, FindsGone, FindsComplete,
     GivesUp, NextChunks, Looping, SendChunk, StopsSending, SenderLoop, ReceiveAck,
     SenderCancelled, ReceiverLoop, ReceiveOffer, StoreChunk, WriteFails, LateChunk,
     ReceiverCancelled, Notice, SenderNotices, ReceiverNotices, CancelMark,
     CancelRemove, ReceiverCancels, LoseToReceiver, LoseToSender, LinkLost, sender
<1>2. ~transfers /\ ~incoming /\ toReceiver = <<>> /\ \A s \in Side : reports[s] = <<>>
  BY <1>1 DEF TransferInv, StillOpen
<1>3. ~Start /\ ~SendTask /\ ~ReceiverLoop
  BY <1>1, <1>2 DEF Start, SendTask, SeesCancelled, FindsGone, FindsComplete,
     GivesUp, NextChunks, Looping, SendChunk, StopsSending, ReceiverLoop,
     ReceiveOffer, StoreChunk, WriteFails, LateChunk, ReceiverCancelled, ReceiverReads
<1>4. ~LoseToReceiver  BY <1>2 DEF LoseToReceiver
<1>5. /\ ~transfers' /\ ~incoming' /\ toReceiver' = <<>>
      /\ UNCHANGED reports
  BY <1>2, <1>3, <1>4 DEF Next, SenderLoop, ReceiveAck, SenderCancelled, StillSending,
     Notice, SenderNotices, ReceiverNotices, Drop, CancelMark, CancelRemove,
     ReceiverCancels, LoseToSender, LinkLost, sender, receiver
<1>6. QED  BY <1>2, <1>5

\* Reading the offer leaves no other behind.
LEMMA OfferFacts ==
  ASSUME TransferInv, ReceiveOffer
  PROVE  /\ ~incoming /\ reports["receiver"] = <<>>
         /\ \A i \in DOMAIN toReceiver' : toReceiver'[i] # Offer
<1>0. toReceiver \in Seq(ReceiverMessages) /\ StillOpen
  BY DEF TransferInv, TypeOK
<1>1. toReceiver # <<>> /\ Head(toReceiver).action = "offer" /\ toReceiver' = Tail(toReceiver)
  BY DEF ReceiveOffer, ReceiverReads, Reply
<1>2. 1 \in DOMAIN toReceiver /\ toReceiver[1] = Offer
  BY <1>0, <1>1, TailShorter, MessageFacts
<1>3. ~incoming /\ reports["receiver"] = <<>>  BY <1>0, <1>2 DEF StillOpen
<1>4. ASSUME NEW i \in DOMAIN toReceiver'
      PROVE  toReceiver'[i] # Offer
  <2>1. i + 1 \in DOMAIN toReceiver /\ toReceiver'[i] = toReceiver[i + 1]
    BY <1>0, <1>1, TailMoves
  <2>2. i \in Nat \ {0}  BY <1>0, <1>1
  <2>3. QED  BY <1>0, <2>1, <2>2 DEF StillOpen
<1>5. QED  BY <1>3, <1>4

LEMMA OutcomeStep ==
  ASSUME TransferInv, Next
  PROVE  OneOutcome' /\ StillOpen'
<1>0. TypeOK /\ TypeOK' /\ OneOutcome /\ StillOpen
  BY TypeStep DEF TransferInv
<1>1. \A s \in Side : reports[s] \in Seq(Outcomes)
  BY <1>0 DEF TypeOK, Outcomes
<1>2. /\ transfers' => reports'["sender"] = <<>>
      /\ Len(reports'["sender"]) <= 1
  <2>1. Start => reports["sender"] = <<>>
    BY <1>0 DEF Start, StillOpen, Side
  <2>2. CASE /\ reports'["sender"] = reports["sender"]
             /\ transfers' => transfers \/ Start
    BY <1>0, <2>1, <2>2 DEF StillOpen, OneOutcome, Side
  <2>3. ASSUME transfers, ~transfers', NEW event \in Outcomes,
               reports'["sender"] = Append(reports["sender"], event)
        PROVE  Len(reports'["sender"]) <= 1
    BY <1>0, <2>3 DEF StillOpen
  <2>4. QED  BY <1>0, <2>2, <2>3, SenderReports
<1>3. /\ incoming' => reports'["receiver"] = <<>>
      /\ Len(reports'["receiver"]) <= 1
  <2>1. CASE /\ reports'["receiver"] = reports["receiver"]
             /\ incoming' => incoming \/ ReceiveOffer
    BY <1>0, <2>1, OfferFacts DEF StillOpen, OneOutcome, Side
  <2>2. ASSUME (incoming /\ ~incoming') \/ (ReceiveOffer /\ UNCHANGED incoming),
               NEW event \in Outcomes,
               reports'["receiver"] = Append(reports["receiver"], event)
        PROVE  /\ incoming' => reports'["receiver"] = <<>>
               /\ Len(reports'["receiver"]) <= 1
    <3>1. reports["receiver"] = <<>> /\ ~incoming'
      BY <1>0, <2>2, OfferFacts DEF StillOpen
    <3>2. QED  BY <2>2, <3>1
  <2>3. CASE /\ (incoming /\ ~incoming') \/ (ReceiveOffer /\ UNCHANGED incoming)
             /\ \E event \in Outcomes :
                  reports'["receiver"] = Append(reports["receiver"], event)
    BY <2>2, <2>3
  <2>4. TypeOK  BY <1>0
  <2>5. QED  BY <2>1, <2>3, <2>4, ReceiverReports
<1>4. ASSUME NEW i \in DOMAIN toReceiver', toReceiver'[i] = Offer
      PROVE  i = 1 /\ ~incoming' /\ reports'["receiver"] = <<>>
  <2>0. /\ toReceiver \in Seq(ReceiverMessages) /\ toReceiver' \in Seq(ReceiverMessages)
        /\ i \in Nat \ {0}
    BY <1>0 DEF TypeOK
  <2>1. ~ReceiveOffer  BY <1>4, OfferFacts
  <2>2. i = 1 /\ ~incoming /\ reports["receiver"] = <<>>
    <3>1. ASSUME NEW j \in DOMAIN toReceiver, i <= j, toReceiver[j] = Offer
          PROVE  i = 1 /\ ~incoming /\ reports["receiver"] = <<>>
      BY <1>0, <2>0, <3>1 DEF StillOpen
    <3>2. CASE Shorter(toReceiver', toReceiver)
      <4>1. \E j \in DOMAIN toReceiver : i <= j /\ toReceiver[j] = Offer
        BY <1>4, <3>2 DEF Shorter
      <4>2. QED  BY <3>1, <4>1
    <3>3. CASE task = "idle" /\ toReceiver' = Append(toReceiver, Offer)
      <4>1. /\ toReceiver = <<>> /\ ~incoming /\ reports["receiver"] = <<>>
        BY <1>0, <3>3 DEF StillOpen, Side
      <4>2. QED  BY <3>3, <4>1
    <3>4. ASSUME NEW m \in ReceiverMessages, m # Offer,
                 toReceiver' = Append(toReceiver, m)
          PROVE  i = 1 /\ ~incoming /\ reports["receiver"] = <<>>
      <4>1. i \in DOMAIN toReceiver /\ toReceiver[i] = Offer
        BY <1>4, <2>0, <3>4, AppendFacts
      <4>2. i <= i  BY <2>0
      <4>3. QED  BY <3>1, <4>1, <4>2
    <3>5. batch # {} => Chunk(First) \in ReceiverMessages /\ Chunk(First) # Offer
      BY <1>0, FirstFacts, MessageFacts
    <3>6. QED
      BY <1>0, <3>2, <3>3, <3>4, <3>5, ToReceiverFacts, MessageFacts DEF ToReceiverStep
  <2>3. QED  BY <1>0, <2>1, <2>2, ReceiverReports
<1>5. StillOpen'
  BY <1>2, <1>3, <1>4, IdleStep DEF StillOpen
<1>6. OneOutcome'
  BY <1>2, <1>3 DEF OneOutcome, Side
<1>7. QED  BY <1>5, <1>6

-----------------------------------------------------------------------------
(* Whoever cancels tells the peer *)

\* The receiver holds the transfer, or will once it has read the offer.
Awaited == incoming \/ (Chunks # 0 /\ Offer \in Range(toReceiver))

\* A receiver that waits has a sender, or a cancel is on its way to it; it has
\* not told the sender of a cancel itself, and has not every chunk.
PeerTold ==
  link = "up" /\ Awaited /\ ~noticeLost /\ ~raced
    => transfers \/ Cancel \in Range(toReceiver)
StillAwaited ==
  Awaited => received # ChunkId /\ Cancel \notin Range(toSender)

\* A transfer that was cancelled, or whose task ended, is in the map only while
\* cancel_transfer is at work.
Marked ==
  /\ transfers /\ (cancelled \/ task = "ended") => cancelling = "marked"
  /\ task = "idle" => ~cancelled /\ toSender = <<>> /\ received = {}

ToldInv == PeerTold /\ StillAwaited /\ Marked

\* What stays in a queue that is read, or loses a message.
LEMMA TailKeeps ==
  ASSUME NEW T, NEW q \in Seq(T), q # <<>>
  PROVE  \A v \in Range(q) : v = Head(q) \/ v \in Range(Tail(q))
<1>1. /\ Len(q) \in Nat /\ DOMAIN q = 1 .. Len(q) /\ DOMAIN Tail(q) = 1 .. Len(q) - 1
      /\ Head(q) = q[1] /\ \A i \in 1 .. Len(q) - 1 : Tail(q)[i] = q[i + 1]
  BY HeadTailProperties
<1>2. ASSUME NEW i \in DOMAIN q, i # 1
      PROVE  i - 1 \in DOMAIN Tail(q) /\ Tail(q)[i - 1] = q[i]
  BY <1>1, <1>2
<1>3. QED  BY <1>1, <1>2 DEF Range

LEMMA RemoveKeeps ==
  ASSUME NEW T, NEW q \in Seq(T), NEW i \in DOMAIN q
  PROVE  \A v \in Range(q) :
           v = q[i] \/ v \in Range(SubSeq(q, 1, i - 1) \o SubSeq(q, i + 1, Len(q)))
<1> DEFINE front == SubSeq(q, 1, i - 1)
           back  == SubSeq(q, i + 1, Len(q))
<1>1. i \in 1 .. Len(q) /\ Len(q) \in Nat /\ DOMAIN q = 1 .. Len(q)  OBVIOUS
<1>2. /\ front \in Seq(T) /\ Len(front) = i - 1
      /\ \A j \in 1 .. i - 1 : front[j] = q[j]
  BY <1>1
<1>3. /\ back \in Seq(T) /\ Len(back) = Len(q) - i
      /\ \A j \in 1 .. Len(q) - i : back[j] = q[i + j]
  BY <1>1
<1> HIDE DEF front, back
<1>4. /\ DOMAIN (front \o back) = 1 .. Len(front) + Len(back)
      /\ \A j \in 1 .. Len(front) + Len(back) :
           (front \o back)[j] = IF j <= Len(front) THEN front[j] ELSE back[j - Len(front)]
  BY <1>2, <1>3, ConcatProperties
<1>5. ASSUME NEW j \in 1 .. Len(q), j # i
      PROVE  q[j] \in Range(front \o back)
  <2>1. CASE j < i
    <3>1. j \in 1 .. Len(front) + Len(back) /\ j <= Len(front) /\ j \in 1 .. i - 1
      BY <1>1, <1>2, <1>3, <2>1
    <3>2. (front \o back)[j] = q[j]  BY <1>2, <1>4, <3>1
    <3>3. QED  BY <1>4, <3>1, <3>2 DEF Range
  <2>2. CASE j > i
    <3>0. /\ Len(front) = i - 1 /\ Len(back) = Len(q) - i
          /\ i \in Int /\ j \in Int /\ Len(q) \in Int /\ 1 <= i /\ i < j /\ j <= Len(q)
      BY <1>1, <1>2, <1>3, <2>2
    <3>1. /\ j - 1 \in 1 .. Len(front) + Len(back) /\ ~(j - 1 <= Len(front))
          /\ (j - 1) - Len(front) = j - i /\ j - i \in 1 .. Len(q) - i /\ i + (j - i) = j
      BY ONLY <3>0
    <3>2. (front \o back)[j - 1] = back[j - i]  BY <1>4, <3>1
    <3>3. back[j - i] = q[j]  BY <1>3, <3>1
    <3>4. QED  BY <1>4, <3>1, <3>2, <3>3 DEF Range
  <2>3. QED  BY <1>1, <1>5, <2>1, <2>2
<1>6. QED  BY <1>1, <1>5 DEF Range, front, back

LEMMA AppendKeeps ==
  ASSUME NEW T, NEW q \in Seq(T), NEW m \in T
  PROVE  Range(Append(q, m)) = Range(q) \cup {m}
<1>1. /\ Len(q) \in Nat /\ DOMAIN q = 1 .. Len(q) /\ DOMAIN Append(q, m) = 1 .. Len(q) + 1
      /\ \A j \in 1 .. Len(q) : Append(q, m)[j] = q[j]
      /\ Append(q, m)[Len(q) + 1] = m
  OBVIOUS
<1>2. Range(q) \cup {m} \subseteq Range(Append(q, m))
  BY <1>1 DEF Range
<1>3. QED  BY <1>2, AppendFacts

\* The offer is read first and leaves no other behind.
LEMMA ReadFacts ==
  ASSUME TransferInv, NEW action, ReceiverReads(action), toReceiver' = Tail(toReceiver)
  PROVE  /\ Offer \notin Range(toReceiver')
         /\ action # "offer" => Offer \notin Range(toReceiver)
         /\ action = "offer" => Offer \in Range(toReceiver)
         /\ action # "cancel" /\ Cancel \in Range(toReceiver) => Cancel \in Range(toReceiver')
<1>0. toReceiver \in Seq(ReceiverMessages) /\ StillOpen
  BY DEF TransferInv, TypeOK
<1>1. toReceiver # <<>> /\ Head(toReceiver).action = action
  BY DEF ReceiverReads
<1>2. /\ 1 \in DOMAIN toReceiver /\ Head(toReceiver) = toReceiver[1]
      /\ Head(toReceiver) \in ReceiverMessages
  BY <1>0, <1>1, TailShorter
<1>3. \A i \in DOMAIN toReceiver : toReceiver[i] = Offer => i = 1
  BY <1>0 DEF StillOpen
<1>4. ASSUME NEW i \in DOMAIN toReceiver'
      PROVE  toReceiver'[i] # Offer
  <2>1. i + 1 \in DOMAIN toReceiver /\ toReceiver'[i] = toReceiver[i + 1]
    BY <1>0, <1>1, TailMoves
  <2>2. i \in Nat \ {0}  BY <1>0, <1>1
  <2>3. QED  BY <1>3, <2>1, <2>2
<1>5. action # "offer" => Offer \notin Range(toReceiver)
  BY <1>1, <1>2, <1>3, MessageFacts DEF Range
<1>6. action = "offer" => Offer \in Range(toReceiver)
  BY <1>1, <1>2, MessageFacts DEF Range
<1>7. action # "cancel" /\ Cancel \in Range(toReceiver) => Cancel \in Range(toReceiver')
  BY <1>0, <1>1, TailKeeps, MessageFacts
<1>8. QED  BY <1>4, <1>5, <1>6, <1>7 DEF Range

\* Incoming, or the offer under way: never both.
LEMMA AwaitedOnce ==
  ASSUME TransferInv, incoming
  PROVE  Offer \notin Range(toReceiver)
BY DEF TransferInv, StillOpen, Range

LEMMA MarkedStep ==
  ASSUME TransferInv, Marked, Next
  PROVE  Marked'
<1>0. StillOpen  BY DEF TransferInv
<1>1. CASE UNCHANGED <<transfers, cancelled, task, cancelling, toSender, received>>
  BY <1>1 DEF Marked
<1>2. CASE Start
  BY <1>2 DEF Start, Marked
<1>3. CASE SendTask
  BY <1>0, <1>1, <1>3 DEF SendTask, SeesCancelled, FindsGone, FindsComplete, GivesUp,
     NextChunks, SendChunk, StopsSending, Looping, Marked, StillOpen, receiver
<1>4. CASE SenderLoop
  BY <1>0, <1>4 DEF SenderLoop, ReceiveAck, SenderCancelled, SenderReads, StillSending,
     Marked, receiver, StillOpen
<1>5. CASE ReceiverLoop
  <2>1. task # "idle"
    BY <1>0, <1>5 DEF ReceiverLoop, ReceiveOffer, StoreChunk, WriteFails, LateChunk,
       ReceiverCancelled, ReceiverReads, StillOpen
  <2>2. UNCHANGED <<transfers, cancelled, task, cancelling>>
    BY <1>5 DEF ReceiverLoop, ReceiveOffer, StoreChunk, WriteFails, LateChunk,
       ReceiverCancelled, sender
  <2>3. QED  BY <2>1, <2>2 DEF Marked
<1>6. CASE SenderNotices
  BY <1>6, <1>0 DEF SenderNotices, Marked, StillOpen, receiver
<1>7. CASE ReceiverNotices \/ ReceiverCancels
  BY <1>0, <1>7 DEF ReceiverNotices, ReceiverCancels, Marked, StillOpen, sender
<1>8. CASE CancelMark \/ CancelRemove
  BY <1>0, <1>8 DEF CancelMark, CancelRemove, Marked, StillOpen, receiver
<1>9. CASE LoseToReceiver \/ LoseToSender \/ LinkLost
  BY <1>9 DEF LoseToReceiver, LoseToSender, LinkLost, Marked, sender, receiver
<1>10. QED
  BY <1>2, <1>3, <1>4, <1>5, <1>6, <1>7, <1>8, <1>9 DEF Next, Notice

\* Nobody begins to wait but with the offer.
LEMMA AwaitedStep ==
  ASSUME TransferInv, Next, Awaited'
  PROVE  Awaited \/ Start
<1>0. TypeOK /\ toReceiver \in Seq(ReceiverMessages)  BY DEF TransferInv, TypeOK
<1>1. Offer \in Range(toReceiver') => Offer \in Range(toReceiver) \/ Start
  <2>1. Shorter(toReceiver', toReceiver) => Range(toReceiver') \subseteq Range(toReceiver)
    BY ShorterRange
  <2>2. ASSUME NEW m \in ReceiverMessages, m # Offer, toReceiver' = Append(toReceiver, m)
        PROVE  Offer \in Range(toReceiver') => Offer \in Range(toReceiver)
    BY <1>0, <2>2, AppendKeeps
  <2>3. batch # {} => Chunk(First) \in ReceiverMessages /\ Chunk(First) # Offer
    BY <1>0, FirstFacts, MessageFacts
  <2>4. QED
    BY <1>0, <2>1, <2>2, <2>3, ToReceiverFacts, MessageFacts DEF ToReceiverStep
<1>2. incoming' => incoming \/ ReceiveOffer
  BY <1>0, ReceiverReports
<1>3. CASE ReceiveOffer
  <2>1. Offer \in Range(toReceiver) /\ Offer \notin Range(toReceiver') /\ ~incoming
    BY <1>3, OfferFacts, ReadFacts DEF ReceiveOffer, Reply
  <2>2. Chunks # 0 \/ UNCHANGED incoming
    BY <1>3 DEF ReceiveOffer
  <2>3. QED  BY <2>1, <2>2 DEF Awaited
<1>4. QED  BY <1>1, <1>2, <1>3 DEF Awaited

\* A receiver that tells the sender of a cancel waits no longer.
LEMMA TellsNobodyWaits ==
  ASSUME TransferInv, Next,
         (incoming /\ ~incoming') \/ (ReceiveOffer /\ UNCHANGED incoming)
  PROVE  ~Awaited'
<1>1. CASE ReceiveOffer
  <2>1. Offer \notin Range(toReceiver') /\ ~incoming
    BY <1>1, OfferFacts, ReadFacts DEF ReceiveOffer, Reply
  <2>2. ~incoming'  BY <2>1
  <2>3. QED  BY <2>1, <2>2 DEF Awaited
<1>2. CASE incoming /\ ~incoming' /\ ~ReceiveOffer
  <2>1. Offer \notin Range(toReceiver)  BY <1>2, AwaitedOnce
  <2>2. task # "idle"  BY <1>2 DEF TransferInv, StillOpen
  <2>3. ASSUME Offer \in Range(toReceiver')
        PROVE  FALSE
    <3>0. TypeOK /\ toReceiver \in Seq(ReceiverMessages)  BY DEF TransferInv, TypeOK
    <3>1. Shorter(toReceiver', toReceiver) => Range(toReceiver') \subseteq Range(toReceiver)
      BY ShorterRange
    <3>2. ASSUME NEW m \in ReceiverMessages, m # Offer, toReceiver' = Append(toReceiver, m)
          PROVE  FALSE
      BY <2>1, <2>3, <3>0, <3>2, AppendKeeps
    <3>3. batch # {} => Chunk(First) \in ReceiverMessages /\ Chunk(First) # Offer
      BY <3>0, FirstFacts, MessageFacts
    <3>4. QED
      BY <2>1, <2>2, <2>3, <3>0, <3>1, <3>2, <3>3, ToReceiverFacts, MessageFacts
         DEF ToReceiverStep
  <2>4. QED  BY <1>2, <2>3 DEF Awaited
<1>3. QED  BY <1>1, <1>2

LEMMA StillAwaitedStep ==
  ASSUME TransferInv, ToldInv, Next
  PROVE  StillAwaited'
<1> SUFFICES ASSUME Awaited'
             PROVE  received' # ChunkId /\ Cancel \notin Range(toSender')
  BY DEF StillAwaited
<1>0. TypeOK /\ toSender \in Seq(SenderMessages) /\ StillOpen
  BY DEF TransferInv, TypeOK
<1>1. CASE Start
  <2>1. received = {} /\ toSender = <<>> /\ UNCHANGED <<received, toSender, incoming>>
        /\ ~incoming
    BY <1>0, <1>1 DEF Start, ToldInv, Marked, receiver, StillOpen
  <2>2. Chunks # 0  BY <2>1 DEF Awaited
  <2>3. 0 \in ChunkId  BY <2>2, TransferAssumption DEF ChunkId
  <2>4. QED  BY <2>1, <2>3 DEF Range
<1>2. CASE ~Start
  <2>1. Awaited /\ received # ChunkId /\ Cancel \notin Range(toSender)
    BY <1>2, AwaitedStep DEF ToldInv, StillAwaited
  <2>2. received' # ChunkId
    <3>1. CASE UNCHANGED received  BY <2>1, <3>1
    <3>2. CASE StoreChunk
      <4>1. toReceiver' = Tail(toReceiver) /\ ReceiverReads("chunk")
        BY <3>2 DEF StoreChunk, Reply
      <4>2. Offer \notin Range(toReceiver')  BY <4>1, ReadFacts
      <4>3. incoming'  BY <4>2 DEF Awaited
      <4>4. QED  BY <3>2, <4>3 DEF StoreChunk
    <3>3. QED
      BY <3>1, <3>2 DEF Next, Start, SendTask, SeesCancelled, FindsGone,
         FindsComplete, GivesUp, NextChunks, SendChunk, StopsSending, SenderLoop,
         ReceiveAck, SenderCancelled, ReceiverLoop, ReceiveOffer, WriteFails,
         LateChunk, ReceiverCancelled, Notice, SenderNotices, ReceiverNotices,
         CancelMark, CancelRemove, ReceiverCancels, LoseToReceiver, LoseToSender,
         LinkLost, receiver
  <2>3. Cancel \notin Range(toSender')
    <3>1. Shorter(toSender', toSender) => Range(toSender') \subseteq Range(toSender)
      BY ShorterRange
    <3>2. ~((incoming /\ ~incoming') \/ (ReceiveOffer /\ UNCHANGED incoming))
      BY TellsNobodyWaits
    <3>3. ASSUME toReceiver # <<>>, Head(toReceiver).action = "chunk",
                 toSender' = Append(toSender, Ack(Head(toReceiver).id))
          PROVE  Cancel \notin Range(toSender')
      <4>1. Head(toReceiver).id \in ChunkId
        BY <1>0, <3>3, TailShorter, MessageFacts DEF TypeOK
      <4>2. Ack(Head(toReceiver).id) \in SenderMessages
            /\ Ack(Head(toReceiver).id) # Cancel
        BY <4>1, MessageFacts
      <4>3. QED  BY <1>0, <2>1, <3>3, <4>2, AppendKeeps
    <3>4. QED
      BY <1>0, <2>1, <3>1, <3>2, <3>3, ToSenderFacts DEF ToSenderStep
  <2>4. QED  BY <2>2, <2>3
<1>3. QED  BY <1>1, <1>2

\* The sender lets go of a transfer that is awaited only with a cancel.
LEMMA LetsGo ==
  ASSUME TransferInv, ToldInv, Next, transfers, ~transfers', Awaited, link' = "up", ~raced'
  PROVE  Cancel \in Range(toReceiver')
<1>0. /\ TypeOK /\ toReceiver \in Seq(ReceiverMessages)
      /\ toSender \in Seq(SenderMessages)
  BY DEF TransferInv, TypeOK
<1>1. link = "up"
  BY DEF Next, Start, SendTask, SeesCancelled, FindsGone,
     FindsComplete, GivesUp, NextChunks, SendChunk, StopsSending, SenderLoop,
     ReceiveAck, SenderCancelled, ReceiverLoop, ReceiveOffer, StoreChunk, WriteFails,
     LateChunk, ReceiverCancelled, Notice, SenderNotices, ReceiverNotices,
     CancelMark, CancelRemove, ReceiverCancels, LoseToReceiver, LoseToSender,
     LinkLost
<1>2. ASSUME toReceiver' = Append(toReceiver, Cancel)
      PROVE  Cancel \in Range(toReceiver')
  BY <1>0, <1>2, AppendKeeps, MessageFacts
<1>3. CASE GivesUp \/ CancelRemove
  BY <1>1, <1>2, <1>3 DEF GivesUp, CancelRemove, TellReceiver, SendIf
<1>4. ~SeesCancelled
  BY DEF SeesCancelled, ToldInv, Marked
<1>5. ~FindsComplete
  BY CompleteFacts DEF ToldInv, StillAwaited
<1>6. ~SenderCancelled
  <2>1. ASSUME SenderCancelled PROVE FALSE
    <3>1. toSender # <<>> /\ Head(toSender).action = "cancel"
      BY <2>1 DEF SenderCancelled, SenderReads
    <3>2. Head(toSender) \in SenderMessages /\ Head(toSender) \in Range(toSender)
      BY <1>0, <3>1, TailShorter
    <3>3. Head(toSender) = Cancel
      BY <3>1, <3>2, MessageFacts DEF SenderMessages
    <3>4. QED  BY <3>2, <3>3 DEF ToldInv, StillAwaited
  <2>2. QED  BY <2>1
<1>7. QED
  BY <1>1, <1>3, <1>4, <1>5, <1>6 DEF Next, Start, SendTask, FindsGone, NextChunks,
     SendChunk, StopsSending, SenderLoop, ReceiveAck, ReceiverLoop, ReceiveOffer,
     StoreChunk, WriteFails, LateChunk, ReceiverCancelled, Notice, SenderNotices,
     ReceiverNotices, CancelMark, ReceiverCancels, LoseToReceiver, LoseToSender,
     LinkLost, sender

\* A cancel on its way is read, or lost with a note, or still on its way.
LEMMA CancelStays ==
  ASSUME TransferInv, Next, Cancel \in Range(toReceiver), Awaited', link' = "up",
         ~noticeLost'
  PROVE  Cancel \in Range(toReceiver')
<1>0. TypeOK /\ toReceiver \in Seq(ReceiverMessages)  BY DEF TransferInv, TypeOK
<1>1. CASE UNCHANGED toReceiver  BY <1>1
<1>2. ASSUME NEW m \in ReceiverMessages, toReceiver' = Append(toReceiver, m)
      PROVE  Cancel \in Range(toReceiver')
  BY <1>0, <1>2, AppendKeeps
<1>3. ASSUME NEW action, action # "cancel", ReceiverReads(action),
             toReceiver' = Tail(toReceiver)
      PROVE  Cancel \in Range(toReceiver')
  BY <1>3, ReadFacts
<1>4. CASE Start
  BY <1>1, <1>2, <1>4, MessageFacts DEF Start, TellReceiver, SendIf
<1>5. CASE SendTask
  <2>1. CASE SendChunk
    <3>1. batch # {} /\ Chunk(First) \in ReceiverMessages
      BY <1>0, <2>1, FirstFacts, MessageFacts DEF SendChunk
    <3>2. QED  BY <1>1, <1>2, <2>1, <3>1 DEF SendChunk, TellReceiver, SendIf
  <2>2. CASE GivesUp
    BY <1>1, <1>2, <2>2, MessageFacts DEF GivesUp, TellReceiver, SendIf
  <2>3. CASE \/ SeesCancelled \/ FindsGone \/ FindsComplete \/ StopsSending
             \/ \E overdue \in SUBSET inflight : NextChunks(overdue)
    BY <1>1, <2>3 DEF SeesCancelled, FindsGone, FindsComplete, StopsSending, NextChunks
  <2>4. QED  BY <1>5, <2>1, <2>2, <2>3 DEF SendTask
<1>6. CASE SenderLoop
  BY <1>1, <1>6 DEF SenderLoop, ReceiveAck, SenderCancelled
<1>7. CASE ReceiverLoop
  <2>1. CASE ReceiveOffer
    BY <1>3, <2>1 DEF ReceiveOffer, Reply
  <2>2. CASE StoreChunk \/ WriteFails \/ LateChunk
    BY <1>3, <2>2 DEF StoreChunk, WriteFails, LateChunk, Reply
  <2>3. CASE ReceiverCancelled
    <3>1. toReceiver' = Tail(toReceiver) /\ ReceiverReads("cancel") /\ ~incoming'
      BY <2>3 DEF ReceiverCancelled, Drop
    <3>2. Offer \notin Range(toReceiver')  BY <3>1, ReadFacts
    <3>3. QED  BY <3>1, <3>2 DEF Awaited
  <2>4. QED  BY <1>7, <2>1, <2>2, <2>3 DEF ReceiverLoop
<1>8. CASE Notice
  BY <1>1, <1>8 DEF Notice, SenderNotices, ReceiverNotices
<1>9. CASE CancelMark \/ CancelRemove \/ ReceiverCancels
  BY <1>1, <1>2, <1>9, MessageFacts DEF CancelMark, CancelRemove, ReceiverCancels,
     TellReceiver, SendIf
<1>10. CASE LoseToReceiver
  <2>1. PICK i \in DOMAIN toReceiver :
          /\ toReceiver' = SubSeq(toReceiver, 1, i - 1)
                             \o SubSeq(toReceiver, i + 1, Len(toReceiver))
          /\ noticeLost' = (noticeLost \/ toReceiver[i] = Cancel)
    BY <1>10, Zenon DEF LoseToReceiver
  <2>2. toReceiver[i] # Cancel  BY <2>1
  <2>3. Cancel \in Range(SubSeq(toReceiver, 1, i - 1)
                           \o SubSeq(toReceiver, i + 1, Len(toReceiver)))
    BY <1>0, <2>2, RemoveKeeps
  <2>4. QED  BY <2>1, <2>3
<1>11. CASE LoseToSender  BY <1>1, <1>11 DEF LoseToSender
<1>12. CASE LinkLost  BY <1>12 DEF LinkLost
<1>13. QED
  BY <1>4, <1>5, <1>6, <1>7, <1>8, <1>9, <1>10, <1>11, <1>12 DEF Next

LEMMA HistoryOnly ==
  ASSUME Next
  PROVE  /\ link' = "up" => link = "up"
         /\ noticeLost => noticeLost'
         /\ raced => raced'
<1>1. link' = "up" => link = "up"
  BY DEF Next, Start, SendTask, SeesCancelled, FindsGone,
     FindsComplete, GivesUp, NextChunks, SendChunk, StopsSending, SenderLoop,
     ReceiveAck, SenderCancelled, ReceiverLoop, ReceiveOffer, StoreChunk, WriteFails,
     LateChunk, ReceiverCancelled, Notice, SenderNotices, ReceiverNotices,
     CancelMark, CancelRemove, ReceiverCancels, LoseToReceiver, LoseToSender,
     LinkLost
<1>2. CASE SeesCancelled
  BY <1>1, <1>2, Zenon DEF SeesCancelled
<1>3. CASE LoseToReceiver
  <2>1. \E i \in DOMAIN toReceiver :
          noticeLost' = (noticeLost \/ toReceiver[i] = Cancel)
    BY <1>3, Zenon DEF LoseToReceiver
  <2>2. noticeLost => noticeLost'  BY <2>1, Zenon
  <2>3. raced' = raced  BY <1>3 DEF LoseToReceiver
  <2>4. QED  BY <1>1, <2>2, <2>3
<1>4. CASE UNCHANGED history
  BY <1>1, <1>4 DEF history
<1>5. QED
  BY <1>2, <1>3, <1>4 DEF Next, Start, SendTask, FindsGone,
     FindsComplete, GivesUp, NextChunks, SendChunk, StopsSending, SenderLoop,
     ReceiveAck, SenderCancelled, ReceiverLoop, ReceiveOffer, StoreChunk, WriteFails,
     LateChunk, ReceiverCancelled, Notice, SenderNotices, ReceiverNotices,
     CancelMark, CancelRemove, ReceiverCancels, LoseToReceiver, LoseToSender,
     LinkLost, bounds

LEMMA PeerToldStep ==
  ASSUME TransferInv, ToldInv, Next
  PROVE  PeerTold'
<1> SUFFICES ASSUME link' = "up", Awaited', ~noticeLost', ~raced'
             PROVE  transfers' \/ Cancel \in Range(toReceiver')
  BY DEF PeerTold
<1>1. CASE Start  BY <1>1 DEF Start
<1>2. CASE ~Start
  <2>1. Awaited  BY <1>2, AwaitedStep
  <2>2. link = "up" /\ ~noticeLost /\ ~raced  BY HistoryOnly DEF TransferInv
  <2>3. transfers \/ Cancel \in Range(toReceiver)
    BY <2>1, <2>2 DEF ToldInv, PeerTold
  <2>4. QED  BY <2>1, <2>3, LetsGo, CancelStays
<1>3. QED  BY <1>1, <1>2

-----------------------------------------------------------------------------
(* The theorems *)

LEMMA TransferInit == Init => TransferInv
<1> SUFFICES ASSUME Init
             PROVE  TransferInv
  OBVIOUS
<1>1. TypeOK  BY TypeInit
<1>2. /\ inflight = {} /\ acked = {} /\ next_unsent = 0 /\ batch = {}
      /\ received = {} /\ ~completed /\ toReceiver = <<>> /\ toSender = <<>>
      /\ ~transfers /\ ~incoming /\ \A s \in Side : reports[s] = <<>>
  BY DEF Init
<1>3. EveryChunkTracked
  <2>1. {id \in ChunkId : id < next_unsent} = {}
    <3>1. \A id \in ChunkId : ~(id < 0)  BY DEF ChunkId
    <3>2. QED  BY <1>2, <3>1
  <2>2. Cardinality(inflight) <= Window
    BY <1>2, FS_EmptySet, TransferAssumption
  <2>3. QED  BY <1>2, <2>1, <2>2 DEF EveryChunkTracked
<1>4. Range(<<>>) = {}  BY DEF Range
<1>5. OnlySentChunks /\ OnlyWrittenAcked
  BY <1>2, <1>4 DEF OnlySentChunks, OnlyWrittenAcked
<1>6. CompleteMeansReceived
  BY <1>2, <1>4 DEF CompleteMeansReceived, Side
<1>7. OneOutcome /\ StillOpen
  BY <1>2 DEF OneOutcome, StillOpen, Side
<1>8. QED  BY <1>1, <1>3, <1>5, <1>6, <1>7 DEF TransferInv

LEMMA TransferStep ==
  ASSUME TransferInv, [Next]_vars
  PROVE  TransferInv'
<1>1. CASE UNCHANGED vars
  BY <1>1 DEF TransferInv, TypeOK, EveryChunkTracked, OnlySentChunks,
     CompleteMeansReceived, OnlyWrittenAcked, OneOutcome, StillOpen, vars, sender,
     receiver, bounds, history, window
<1>2. CASE Next
  BY <1>2, TypeStep, TrackedStep, OnlySentStep, CompleteStep, WrittenStep, OutcomeStep
     DEF TransferInv
<1>3. QED  BY <1>1, <1>2

LEMMA TransferInvariant == Spec => []TransferInv
BY TransferInit, TransferStep, PTL DEF Spec

\* The sender reports a file as sent only when the receiver has written every
\* chunk of it.
THEOREM CompleteIsReceived == Spec => []CompleteMeansReceived
<1>1. TransferInv => CompleteMeansReceived  BY DEF TransferInv
<1>2. QED  BY <1>1, TransferInvariant, PTL

\* Each end reports at most one outcome, whatever crosses what.
THEOREM AtMostOneOutcome == Spec => []OneOutcome
<1>1. TransferInv => OneOutcome  BY DEF TransferInv
<1>2. QED  BY <1>1, TransferInvariant, PTL

\* Every chunk that went out is in flight or acknowledged, never both, and no
\* more are in flight than the window allows.
THEOREM NoChunkForgotten == Spec => []EveryChunkTracked
<1>1. TransferInv => EveryChunkTracked  BY DEF TransferInv
<1>2. QED  BY <1>1, TransferInvariant, PTL

LEMMA ToldInit == Init => ToldInv
<1> SUFFICES ASSUME Init PROVE ToldInv
  OBVIOUS
<1>1. ~incoming /\ toReceiver = <<>> /\ ~transfers /\ ~cancelled /\ toSender = <<>>
      /\ received = {}
  BY DEF Init
<1>2. ~Awaited  BY <1>1 DEF Awaited, Range
<1>3. QED  BY <1>1, <1>2 DEF ToldInv, PeerTold, StillAwaited, Marked

LEMMA ToldStep ==
  ASSUME TransferInv, ToldInv, [Next]_vars
  PROVE  ToldInv'
<1>1. CASE UNCHANGED vars
  BY <1>1 DEF ToldInv, PeerTold, StillAwaited, Marked, Awaited, vars, sender,
     receiver, bounds, history, window
<1>2. CASE Next
  BY <1>2, PeerToldStep, StillAwaitedStep, MarkedStep DEF ToldInv
<1>3. QED  BY <1>1, <1>2

\* When nothing is left to do, no receiver waits for a sender that is gone,
\* unless the cancel was lost or each of the two that might have told it left
\* that to the other.
THEOREM NoReceiverForgotten == Spec => []NoOrphan
<1>1. ToldInv => NoOrphan
  <2> SUFFICES ASSUME ToldInv, task = "ended", cancelling # "marked",
                      toReceiver = <<>>, link = "up", incoming
               PROVE  noticeLost \/ raced
    BY DEF NoOrphan
  <2>1. ~transfers  BY DEF ToldInv, Marked
  <2>2. Cancel \notin Range(toReceiver)  BY DEF Range
  <2>3. QED  BY <2>1, <2>2 DEF ToldInv, PeerTold, Awaited
<1>2. Spec => []ToldInv
  BY TransferInvariant, ToldInit, ToldStep, PTL DEF Spec
<1>3. QED  BY <1>1, <1>2, PTL
=============================================================================
