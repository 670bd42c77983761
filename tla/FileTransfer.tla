---------------------------- MODULE FileTransfer ----------------------------
(***************************************************************************)
(* One file sent to a trusted peer: the ChunkedSender and ChunkedReceiver  *)
(* of core/src/transfer/chunked.rs, driven by the tasks of the two engines *)
(* in core/src/p2p/engine.rs: at the sender the send task                  *)
(* (run_transfer_send), the read loop and a user who may cancel; at the    *)
(* receiver the read loop and such a user; at both, the task that finds    *)
(* the connection lost.                                                    *)
(*                                                                         *)
(* Messages are encrypted and come in order.  One can be lost while the    *)
(* link stays up: its send fails, or the peer cannot decrypt it, or its    *)
(* holding queue is full.  A file is a number of chunks, each named by its *)
(* chunk_id.                                                               *)
(***************************************************************************)
EXTENDS Integers, Sequences, FiniteSets, Functions

CONSTANTS
  Chunks,        \* total_chunks
  Window,        \* 4 on a serial link, 16 over iroh
  MaxRounds,     \* resends of a chunk that fit in TRANSFER_STALL
  MaxLoss,       \* bound: messages lost
  MaxFaults      \* bound: read and write errors

ASSUME TransferAssumption ==
  /\ Chunks \in Nat
  /\ Window \in Nat \ {0}
  /\ MaxRounds \in Nat
  /\ MaxLoss \in Nat /\ MaxFaults \in Nat

VARIABLES
  \* The sender.
  transfers,     \* the transfer is in its map of ActiveTransfers
  cancelled,     \* ... and in its cancelled_transfers
  next_unsent,
  inflight,      \* chunks sent and not acknowledged
  acked,
  rounds,        \* resends since the last newly acknowledged chunk
  task,          \* the send task: "idle", "running" or "ended"
  batch,         \* the chunks it took from next_chunks and has yet to send
  cancelling,    \* cancel_transfer: "no", "marked" or "done"
  \* The receiver.
  incoming,      \* the transfer is in its map of IncomingTransfers
  received,      \* chunks written to the .part file
  completed,     \* it is in completed_incoming
  \* Both.
  reports,       \* reports[s]: the events that ended the transfer at s
  link,          \* "up" or "down"
  noticed,       \* noticed[s]: s ran cancel_peer_transfers for the lost link
  toReceiver, toSender,   \* messages under way
  losses, faults,
  noticeLost,    \* a cancel on its way to the receiver was lost (history)
  raced          \* the send task ended the transfer inside cancel_transfer,
                 \* which then found nothing to cancel (history)

window   == <<next_unsent, inflight, acked, rounds>>
sender   == <<transfers, cancelled, window, task, batch, cancelling>>
receiver == <<incoming, received, completed>>
history  == <<noticeLost, raced>>
bounds   == <<losses, faults, history>>
vars     == <<sender, receiver, reports, link, noticed, toReceiver, toSender,
              bounds>>

-----------------------------------------------------------------------------
ChunkId == 0 .. Chunks - 1
Side    == {"sender", "receiver"}

Offer     == [action |-> "offer"]
Chunk(id) == [action |-> "chunk", id |-> id]
Ack(id)   == [action |-> "ack", id |-> id]
Cancel    == [action |-> "cancel"]

\* send_wire_message fails once the link is down.
SendIf(link_up, q, m) == IF link_up THEN Append(q, m) ELSE q
TellReceiver(m) == toReceiver' = SendIf(link = "up", toReceiver, m)

Report(s, event) == reports' = [reports EXCEPT ![s] = Append(@, event)]

Init ==
  /\ transfers = FALSE /\ cancelled = FALSE
  /\ next_unsent = 0 /\ inflight = {} /\ acked = {} /\ rounds = 0
  /\ task = "idle" /\ batch = {} /\ cancelling = "no"
  /\ incoming = FALSE /\ received = {} /\ completed = FALSE
  /\ reports = [s \in Side |-> <<>>]
  /\ link = "up" /\ noticed = [s \in Side |-> FALSE]
  /\ toReceiver = <<>> /\ toSender = <<>>
  /\ losses = 0 /\ faults = 0 /\ noticeLost = FALSE /\ raced = FALSE

-----------------------------------------------------------------------------
(* The sender *)

\* try_send_file_now
Start ==
  /\ task = "idle" /\ link = "up"
  /\ transfers' = TRUE
  /\ TellReceiver(Offer)
  /\ task' = "running"
  /\ UNCHANGED <<cancelled, window, batch, cancelling, receiver, reports, link,
                 noticed, toSender, bounds>>

Looping == task = "running" /\ batch = {}

\* The loop finds the transfer cancelled, and drops it: also the one that
\* cancel_transfer has marked and is about to take out of the map itself.
SeesCancelled ==
  /\ Looping /\ cancelled
  /\ raced' = (raced \/ (transfers /\ cancelling = "marked"))
  /\ transfers' = FALSE
  /\ task' = "ended"
  /\ UNCHANGED <<cancelled, window, batch, cancelling, receiver, reports, link,
                 noticed, toReceiver, toSender, losses, faults, noticeLost>>

\* The loop finds that somebody else took the transfer out of the map.
FindsGone ==
  /\ Looping /\ ~transfers
  /\ task' = "ended"
  /\ UNCHANGED <<transfers, cancelled, window, batch, cancelling, receiver,
                 reports, link, noticed, toReceiver, toSender, bounds>>

AnyAcked   == acked # {} \/ Chunks = 0                       \* mutant
IsComplete == Cardinality(acked) = Chunks

FindsComplete ==
  /\ Looping /\ transfers
  /\ IsComplete
  /\ transfers' = FALSE
  /\ task' = "ended"
  /\ Report("sender", "complete")
  /\ UNCHANGED <<cancelled, window, batch, cancelling, receiver, link, noticed,
                 toReceiver, toSender, bounds>>

\* TRANSFER_STALL has passed, or next_chunks fails to read the file.
NeverStalls == FALSE                                        \* mutant
Stalled     == rounds >= MaxRounds

GivesUp ==
  /\ Looping /\ transfers /\ ~IsComplete
  /\ \/ Stalled /\ UNCHANGED faults
     \/ faults < MaxFaults /\ faults' = faults + 1
  /\ transfers' = FALSE
  /\ task' = "ended"
  /\ TellReceiver(Cancel)
  /\ Report("sender", "failed")
  /\ UNCHANGED <<cancelled, window, batch, cancelling, receiver, link, noticed,
                 toSender, losses, history>>

\* next_chunks: what is overdue, then new chunks while the window has room.
IgnoresWindow == Window                                     \* mutant
Room          == Window - Cardinality(inflight)

PastTheEnd == next_unsent .. next_unsent + Room - 1         \* mutant
Fresh == {id \in ChunkId : next_unsent <= id /\ id < next_unsent + Room}

NextChunks(overdue) ==
  /\ Looping /\ transfers /\ ~IsComplete
  /\ overdue # {} => rounds < MaxRounds
  /\ overdue \cup Fresh # {}
  /\ next_unsent' = next_unsent + Cardinality(Fresh)
  /\ inflight' = inflight \cup Fresh
  /\ batch' = overdue \cup Fresh
  /\ rounds' = IF overdue # {} THEN rounds + 1 ELSE rounds
  /\ UNCHANGED <<transfers, cancelled, acked, task, cancelling, receiver,
                 reports, link, noticed, toReceiver, toSender, bounds>>

First == CHOOSE id \in batch : \A other \in batch : id <= other

\* The next chunk of the batch goes out.  Once the link is down the task fails
\* the transfer, unless somebody ended it before.
SendChunk ==
  /\ task = "running" /\ batch # {}
  /\ \/ /\ link = "up"
        /\ TellReceiver(Chunk(First))
        /\ batch' = batch \ {First}
        /\ UNCHANGED <<transfers, task, reports>>
     \/ /\ link = "down"
        /\ batch' = {}
        /\ task' = "ended"
        /\ transfers' = FALSE
        /\ IF transfers THEN Report("sender", "failed") ELSE UNCHANGED reports
        /\ UNCHANGED toReceiver
  /\ UNCHANGED <<cancelled, window, cancelling, receiver, link, noticed,
                 toSender, bounds>>

\* Between two chunks the task finds the transfer cancelled.
StopsSending ==
  /\ task = "running" /\ batch # {} /\ cancelled
  /\ batch' = {}
  /\ task' = "ended"
  /\ UNCHANGED <<transfers, cancelled, window, cancelling, receiver, reports,
                 link, noticed, toReceiver, toSender, bounds>>

\* cancel_transfer: the transfer is marked cancelled ...
CancelMark ==
  /\ cancelling = "no" /\ task # "idle"
  /\ cancelling' = "marked"
  /\ cancelled' = TRUE
  /\ UNCHANGED <<transfers, window, task, batch, receiver, reports, link,
                 noticed, toReceiver, toSender, bounds>>

\* ... then taken out of the map, and the peer is told.
CancelRemove ==
  /\ cancelling = "marked"
  /\ cancelling' = "done"
  /\ transfers' = FALSE
  /\ \/ /\ transfers
        /\ TellReceiver(Cancel)
        /\ Report("sender", "cancelled")
     \/ ~transfers /\ UNCHANGED <<toReceiver, reports>>
  /\ UNCHANGED <<cancelled, window, task, batch, receiver, link, noticed,
                 toSender, bounds>>

SenderReads(action) == toSender # <<>> /\ Head(toSender).action = action

\* on_ack, while the transfer is in the map.
KeepsInflight(id) == inflight                               \* mutant
Landed(id) == inflight \ {id}

ReceiveAck ==
  /\ SenderReads("ack")
  /\ toSender' = Tail(toSender)
  /\ LET id == Head(toSender).id
     IN \/ /\ transfers
           /\ acked' = acked \cup {id}
           /\ inflight' = Landed(id)
           /\ rounds' = IF id \in acked THEN rounds ELSE 0
        \/ ~transfers /\ UNCHANGED <<acked, inflight, rounds>>
  /\ UNCHANGED <<transfers, cancelled, next_unsent, task, batch, cancelling,
                 receiver, reports, link, noticed, toReceiver, bounds>>

\* on_remote_cancel at the sender
ReportsAlways == TRUE                                       \* mutant
StillSending  == transfers

SenderCancelled ==
  /\ SenderReads("cancel")
  /\ toSender' = Tail(toSender)
  /\ transfers' = FALSE
  /\ \/ /\ StillSending
        /\ cancelled' = TRUE
        /\ Report("sender", "cancelled")
     \/ ~StillSending /\ UNCHANGED <<cancelled, reports>>
  /\ UNCHANGED <<window, task, batch, cancelling, receiver, link, noticed,
                 toReceiver, bounds>>

-----------------------------------------------------------------------------
(* The receiver *)

ReceiverReads(action) == toReceiver # <<>> /\ Head(toReceiver).action = action

Reply(m) ==
  /\ toReceiver' = Tail(toReceiver)
  /\ toSender' = SendIf(link = "up", toSender, m)

\* finish_incoming: the checksum may not match if the file changed on disk.
Finish ==
  /\ completed' = TRUE
  /\ \E event \in {"complete", "failed"} : Report("receiver", event)

\* on_file_offer: an empty file is complete, a bad offer or a disk error is
\* answered with a cancel.
ReceiveOffer ==
  /\ ReceiverReads("offer")
  /\ \/ /\ Chunks = 0
        /\ toReceiver' = Tail(toReceiver)
        /\ Finish
        /\ UNCHANGED <<incoming, toSender, faults>>
     \/ /\ Chunks # 0
        /\ toReceiver' = Tail(toReceiver)
        /\ incoming' = TRUE
        /\ UNCHANGED <<completed, reports, toSender, faults>>
     \/ /\ faults < MaxFaults /\ faults' = faults + 1
        /\ Reply(Cancel)
        /\ Report("receiver", "failed")
        /\ UNCHANGED <<incoming, completed>>
  /\ UNCHANGED <<sender, received, link, noticed, losses, history>>

\* on_file_chunk for a transfer under way: store the chunk, acknowledge it, and
\* finish with the last one.
AcksUnwritten(id) == received                               \* mutant
Stored(id) == received \cup {id}

StoreChunk ==
  /\ ReceiverReads("chunk") /\ incoming
  /\ LET id == Head(toReceiver).id
     IN /\ received' = Stored(id)
        /\ Reply(Ack(id))
  /\ \/ received' = ChunkId /\ incoming' = FALSE /\ Finish
     \/ received' # ChunkId /\ UNCHANGED <<incoming, completed, reports>>
  /\ UNCHANGED <<sender, link, noticed, bounds>>

\* The chunk cannot be written.
WriteFails ==
  /\ ReceiverReads("chunk") /\ incoming
  /\ Head(toReceiver).id \notin received
  /\ faults < MaxFaults /\ faults' = faults + 1
  /\ incoming' = FALSE
  /\ Reply(Cancel)
  /\ Report("receiver", "failed")
  /\ UNCHANGED <<sender, received, completed, link, noticed, losses, history>>

\* A chunk of a finished transfer is acknowledged again, any other is ignored.
LateChunk ==
  /\ ReceiverReads("chunk") /\ ~incoming
  /\ \/ completed /\ Reply(Ack(Head(toReceiver).id))
     \/ ~completed /\ toReceiver' = Tail(toReceiver) /\ UNCHANGED toSender
  /\ UNCHANGED <<sender, receiver, reports, link, noticed, bounds>>

\* The transfer leaves the map, with the event if it was there.
Drop ==
  /\ incoming' = FALSE
  /\ IF incoming THEN Report("receiver", "cancelled") ELSE UNCHANGED reports

\* on_remote_cancel at the receiver
ReceiverCancelled ==
  /\ ReceiverReads("cancel")
  /\ toReceiver' = Tail(toReceiver)
  /\ Drop
  /\ UNCHANGED <<sender, received, completed, link, noticed, toSender, bounds>>

\* cancel_transfer at the receiver
ReceiverCancels ==
  /\ incoming
  /\ Drop
  /\ toSender' = SendIf(link = "up", toSender, Cancel)
  /\ UNCHANGED <<sender, received, completed, link, noticed, toReceiver, bounds>>

-----------------------------------------------------------------------------
(* The link *)

LoseToReceiver ==
  /\ losses < MaxLoss /\ losses' = losses + 1
  /\ \E i \in DOMAIN toReceiver :
       /\ toReceiver' = SubSeq(toReceiver, 1, i - 1)
                          \o SubSeq(toReceiver, i + 1, Len(toReceiver))
       /\ noticeLost' = (noticeLost \/ toReceiver[i] = Cancel)
  /\ UNCHANGED <<sender, receiver, reports, link, noticed, toSender, faults,
                 raced>>

LoseToSender ==
  /\ losses < MaxLoss /\ losses' = losses + 1
  /\ \E i \in DOMAIN toSender :
       toSender' = SubSeq(toSender, 1, i - 1)
                     \o SubSeq(toSender, i + 1, Len(toSender))
  /\ UNCHANGED <<sender, receiver, reports, link, noticed, toReceiver, faults,
                 history>>

LinkLost ==
  /\ link = "up" /\ link' = "down"
  /\ toReceiver' = <<>> /\ toSender' = <<>>
  /\ UNCHANGED <<sender, receiver, reports, noticed, bounds>>

\* on_connection_lost at the sender: cancel_peer_transfers
SenderNotices ==
  /\ link = "down" /\ ~noticed["sender"]
  /\ noticed' = [noticed EXCEPT !["sender"] = TRUE]
  /\ transfers' = FALSE
  /\ \/ transfers /\ cancelled' = TRUE /\ Report("sender", "cancelled")
     \/ ~transfers /\ UNCHANGED <<cancelled, reports>>
  /\ UNCHANGED <<window, task, batch, cancelling, receiver, link, toReceiver,
                 toSender, bounds>>

ReceiverNotices ==
  /\ link = "down" /\ ~noticed["receiver"]
  /\ noticed' = [noticed EXCEPT !["receiver"] = TRUE]
  /\ Drop
  /\ UNCHANGED <<sender, received, completed, link, toReceiver, toSender, bounds>>

-----------------------------------------------------------------------------
SendTask ==
  \/ SeesCancelled \/ FindsGone \/ FindsComplete \/ GivesUp
  \/ \E overdue \in SUBSET inflight : NextChunks(overdue)
  \/ SendChunk \/ StopsSending

SenderLoop   == ReceiveAck \/ SenderCancelled
ReceiverLoop == ReceiveOffer \/ StoreChunk \/ WriteFails \/ LateChunk
                  \/ ReceiverCancelled
Notice       == SenderNotices \/ ReceiverNotices

Next ==
  \/ Start \/ SendTask \/ SenderLoop \/ ReceiverLoop \/ Notice
  \/ CancelMark \/ CancelRemove \/ ReceiverCancels
  \/ LoseToReceiver \/ LoseToSender \/ LinkLost

Spec == Init /\ [][Next]_vars

\* The tasks of both engines keep running, and a call of cancel_transfer ends.
Fairness ==
  /\ WF_vars(SendTask) /\ WF_vars(SenderLoop) /\ WF_vars(ReceiverLoop)
  /\ WF_vars(SenderNotices) /\ WF_vars(ReceiverNotices) /\ WF_vars(CancelRemove)

FairSpec == Spec /\ Fairness

-----------------------------------------------------------------------------
(* Properties *)

ReceiverMessages == {Offer, Cancel} \cup {Chunk(id) : id \in ChunkId}
SenderMessages   == {Cancel} \cup {Ack(id) : id \in ChunkId}

\* The types of the two ends and of the link.
TypeOK ==
  /\ transfers \in BOOLEAN /\ cancelled \in BOOLEAN
  /\ next_unsent \in 0 .. Chunks
  /\ inflight \subseteq ChunkId /\ acked \subseteq ChunkId
  /\ batch \subseteq ChunkId
  /\ rounds \in 0 .. MaxRounds
  /\ task \in {"idle", "running", "ended"}
  /\ cancelling \in {"no", "marked", "done"}
  /\ incoming \in BOOLEAN /\ received \subseteq ChunkId /\ completed \in BOOLEAN
  /\ reports \in [Side -> Seq({"complete", "failed", "cancelled"})]
  /\ link \in {"up", "down"} /\ noticed \in [Side -> BOOLEAN]
  /\ toReceiver \in Seq(ReceiverMessages)
  /\ toSender \in Seq(SenderMessages)
  /\ losses \in Nat /\ faults \in Nat
  /\ noticeLost \in BOOLEAN /\ raced \in BOOLEAN

\* The sender reports a file as sent only when the receiver has written every
\* chunk of it, whatever was lost, sent again or cancelled meanwhile.
CompleteMeansReceived ==
  "complete" \in Range(reports["sender"]) => received = ChunkId

\* Each end reports at most one outcome: a transfer that completed is not also
\* cancelled or failed when cancels, the lost link and the last ACK cross.
OneOutcome == \A s \in Side : Len(reports[s]) <= 1

\* The sender loses track of no chunk: each one that went out is either in
\* flight, to be sent again, or acknowledged, and the window is respected.
EveryChunkTracked ==
  /\ acked \cup inflight = {id \in ChunkId : id < next_unsent}
  /\ acked \cap inflight = {}
  /\ Cardinality(inflight) <= Window

\* Only chunks that were taken from the file are anywhere to be seen ...
OnlySentChunks ==
  /\ \A id \in batch \cup received : id < next_unsent
  /\ \A m \in Range(toReceiver) : m.action = "chunk" => m.id < next_unsent

\* ... and only chunks that were written are acknowledged.
OnlyWrittenAcked ==
  /\ acked \subseteq received
  /\ \A m \in Range(toSender) : m.action = "ack" => m.id \in received
  /\ completed => received = ChunkId

\* An end that still holds the transfer, or has yet to read the offer, has
\* reported nothing; the offer is read first.
StillOpen ==
  /\ task = "idle" => /\ ~transfers /\ ~incoming /\ toReceiver = <<>>
                      /\ \A s \in Side : reports[s] = <<>>
  /\ transfers => reports["sender"] = <<>>
  /\ incoming => reports["receiver"] = <<>>
  /\ \A i \in DOMAIN toReceiver : toReceiver[i] = Offer =>
       i = 1 /\ ~incoming /\ reports["receiver"] = <<>>

\* What every step preserves: the first three safety properties need the facts
\* about the wires and the outcomes that go with them.
TransferInv ==
  /\ TypeOK
  /\ EveryChunkTracked /\ OnlySentChunks
  /\ CompleteMeansReceived /\ OnlyWrittenAcked
  /\ OneOutcome /\ StillOpen

\* Whoever cancels tells the peer: when nothing is left to do, no receiver
\* waits for a sender that is gone, unless the message was lost or the send
\* task and cancel_transfer each left the telling to the other.
NoOrphan ==
  (task = "ended" /\ cancelling # "marked" /\ toReceiver = <<>> /\ link = "up")
    => (incoming => noticeLost \/ raced)

\* Every transfer ends, at both ends, and the user who sent the file is told.
TransferEnds ==
  (task = "running") ~> /\ task = "ended"
                        /\ reports["sender"] # <<>> \/ raced
                        /\ incoming => noticeLost \/ raced
=============================================================================
