-------------------------- MODULE Messaging_proofs --------------------------
(***************************************************************************)
(* Module Messaging for any number of texts, sessions and places in the    *)
(* queues: the trust gate, the types, and that no queue is forgotten.      *)
(*                                                                         *)
(* A message is seen when the read loop finds the session trusted, or when *)
(* a caller that made it trusted releases what was held; a session is      *)
(* trusted because the user confirmed it or because the key was stored by  *)
(* somebody the user had confirmed.  All of these are confirmed, which is  *)
(* inductive (Gate).  A queue that is not empty has a task that will come  *)
(* to it, or a frame on the wire that will start one (Moves).              *)
(*                                                                         *)
(* Every text is in exactly one place: the places of a text are counted,   *)
(* every action takes a text from one place to another, and the sum of the *)
(* counts is one for a text that was sent and zero for one that was not    *)
(* (Sum).                                                                  *)
(***************************************************************************)
EXTENDS Messaging, SequenceTheorems, FiniteSetTheorems, TLAPS

\* Delivered texts matter here only as something a user has seen or not.
GateTypes ==
  /\ trust \in [Node -> {"none", "handshaking", "sas", "trusted"}]
  /\ trusted_key \in [Node -> BOOLEAN]
  /\ calling \in [Node -> {"idle", "trusted", "open", "release", "flush"}]
  /\ confirmed \in [Node -> BOOLEAN]
  /\ delivered = [p \in Node |-> delivered[p]]

Relies(p) == \/ trust[p] = "trusted" \/ trusted_key[p]
             \/ calling[p] \in {"trusted", "open", "release"}
             \/ delivered[p] # <<>>

Gate == GateTypes /\ \A p \in Node : Relies(p) => confirmed[p]

gate == <<trust, trusted_key, calling, confirmed, delivered>>

LEMMA OtherFacts ==
  ASSUME NEW p \in Node
  PROVE  /\ Other(p) \in Node /\ Other(p) # p /\ Other(Other(p)) = p
         /\ Node = {p, Other(p)}
  BY NodeAssumption DEF Other

LEMMA GateInit == Init => Gate
  BY DEF Init, Gate, GateTypes, Relies

\* Nothing that the gate depends on changes.
LEMMA GateStays == ASSUME Gate, UNCHANGED gate  PROVE Gate'
  BY DEF Gate, GateTypes, Relies, gate

LEMMA GateStep == ASSUME Gate, [Next]_vars  PROVE Gate'
<1> USE DEF Gate, GateTypes, Relies
<1>1. CASE LinkLost
  BY <1>1, GateStays DEF LinkLost, session, tasks, gate
<1>2. ASSUME NEW p \in Node, SendMessage(p) \/ Enqueue(p)  PROVE Gate'
  BY <1>2, GateStays DEF SendMessage, Enqueue, session, gate
<1>3. ASSUME NEW p \in Node, NEW t \in Task, TakePending(p, t) \/ FlushOne(p, t)
      PROVE Gate'
  BY <1>3, GateStays DEF TakePending, FlushOne, session, outcome, gate
<1>4. ASSUME NEW p \in Node, NEW t \in Task, FlushEnd(p, t)  PROVE Gate'
  <2>1. UNCHANGED <<trust, trusted_key, confirmed, delivered>>
    BY <1>4 DEF FlushEnd, session, outcome
  <2>2. calling' = [calling EXCEPT ![p] = "idle"] \/ calling' = calling
    BY <1>4 DEF FlushEnd
  <2>3. QED  BY <2>1, <2>2
<1>5. ASSUME NEW p \in Node, ConfirmPeerTrusted(p)  PROVE Gate'
  BY <1>5 DEF ConfirmPeerTrusted, Trust, outcome
<1>6. ASSUME NEW p \in Node, MaybeAutoTrust(p)  PROVE Gate'
  BY <1>6 DEF MaybeAutoTrust, Trust, outcome
<1>7. ASSUME NEW p \in Node, AddTrustedKey(p)  PROVE Gate'
  BY <1>7 DEF AddTrustedKey, session, outcome
<1>8. ASSUME NEW p \in Node, SendRatchetBootstrap(p)  PROVE Gate'
  BY <1>8 DEF SendRatchetBootstrap, session, outcome
<1>9. ASSUME NEW p \in Node, ReleaseHeldInbound(p)  PROVE Gate'
  BY <1>9 DEF ReleaseHeldInbound, session
<1>10. ASSUME NEW p \in Node, ConnectAgain(p)  PROVE Gate'
  BY <1>10 DEF ConnectAgain, session, outcome
<1>11. ASSUME NEW p \in Node, ReceiveFinish(p)  PROVE Gate'
  BY <1>11 DEF ReceiveFinish, tasks, outcome
<1>12. ASSUME NEW p \in Node, ReceiveOpen(p)  PROVE Gate'
  BY <1>12, GateStays DEF ReceiveOpen, outcome, gate
<1>13. ASSUME NEW p \in Node, ReceiveText(p)  PROVE Gate'
  <2>1. UNCHANGED <<trust, trusted_key, calling, confirmed>>
    BY <1>13 DEF ReceiveText
  <2>2. CASE delivered' = delivered
    BY <2>1, <2>2, GateStays DEF gate
  <2>3. CASE trust[p] = "trusted"
            /\ delivered' = [delivered EXCEPT ![p] = Append(@, Head(wire[Other(p)]).n)]
    BY <2>1, <2>3
  <2>4. QED  BY <1>13, <2>2, <2>3 DEF ReceiveText, Trusted
<1>14. ASSUME NEW p \in Node, HoldInbound(p)  PROVE Gate'
  <2>1. UNCHANGED <<trust, trusted_key, calling, confirmed>>
    BY <1>14 DEF HoldInbound, session
  <2>2. delivered' = delivered
    BY <1>14 DEF HoldInbound, Unseen
  <2>3. QED  BY <2>1, <2>2, GateStays DEF gate
<1>15. ASSUME NEW p \in Node, OnConnectionLost(p)  PROVE Gate'
  BY <1>15 DEF OnConnectionLost, tasks
<1>16. ASSUME NEW p \in Node, Connect(p)  PROVE Gate'
  BY <1>16, OtherFacts DEF Connect, tasks, outcome
<1>17. CASE UNCHANGED vars
  BY <1>17, GateStays DEF vars, session, tasks, outcome, gate
<1>18. QED
  BY <1>1, <1>2, <1>3, <1>4, <1>5, <1>6, <1>7, <1>8, <1>9, <1>10, <1>11, <1>12,
     <1>13, <1>14, <1>15, <1>16, <1>17 DEF Next, Flush

\* No user sees a message of a peer before confirming a SAS with it, however
\* send, read loop and caller interleave and whatever connection breaks.
THEOREM TrustGateHolds == Spec => []TrustGate
<1>1. Gate => TrustGate
  BY DEF Gate, Relies, TrustGate
<1>2. QED  BY <1>1, GateInit, GateStep, PTL DEF Spec

-----------------------------------------------------------------------------
(* The types *)

Frame(p)   == {Finish, Open} \cup {Text(n) : n \in Texts(p)}
Flushes(p) == [stage : {"none", "taking", "sending"},
               items : Seq(Texts(p)), retry : Seq(Texts(p))]

\* TypeOK by variable, and with the queues as functions on Node.
SessionTypes ==
  /\ link \in {"up", "down"}
  /\ trust \in [Node -> {"none", "handshaking", "sas", "trusted"}]
  /\ initiator \in [Node -> BOOLEAN] /\ can_send \in [Node -> BOOLEAN]
  /\ trusted_key \in [Node -> BOOLEAN]
  /\ sessions \in Nat
  /\ calling \in [Node -> {"idle", "trusted", "open", "release", "flush"}]
  /\ confirmed \in [Node -> BOOLEAN] /\ stale \in [Node -> BOOLEAN]
PendingTypes ==
  pending = [p \in Node |-> pending[p]] /\ \A p \in Node : pending[p] \in Seq(Texts(p))
HeldTypes ==
  /\ held = [p \in Node |-> held[p]]
  /\ \A p \in Node : held[p] \in Seq(Texts(Other(p))) /\ Len(held[p]) <= MaxHeld
WireTypes ==
  wire = [p \in Node |-> wire[p]] /\ \A p \in Node : wire[p] \in Seq(Frame(p))
TextTypes ==
  /\ sending = [p \in Node |-> sending[p]] /\ hand = [p \in Node |-> hand[p]]
  /\ sent = [p \in Node |-> sent[p]]
  /\ \A p \in Node : /\ sending[p] \in 0 .. MaxSend[p] /\ hand[p] \in 0 .. MaxSend[Other(p)]
                     /\ sent[p] \in 0 .. MaxSend[p]
FlushTypes ==
  flush = [p \in Node |-> flush[p]] /\ \A p \in Node : flush[p] \in [Task -> Flushes(p)]
EndTypes ==
  /\ told = [p \in Node |-> told[p]] /\ lost = [p \in Node |-> lost[p]]
  /\ \A p \in Node : told[p] \subseteq Texts(p) /\ lost[p] \subseteq Texts(p)
SeenTypes ==
  /\ delivered = [p \in Node |-> delivered[p]]
  /\ \A p \in Node : delivered[p] \in Seq(Texts(Other(p)))

Types == /\ SessionTypes /\ PendingTypes /\ HeldTypes /\ WireTypes /\ TextTypes
         /\ FlushTypes /\ EndTypes /\ SeenTypes

LEMMA TypesOK == Types => TypeOK
  BY DEF Types, TypeOK, SessionTypes, PendingTypes, HeldTypes, WireTypes, TextTypes,
         FlushTypes, EndTypes, SeenTypes, Frame, Flushes

LEMMA Bounds == MaxHeld \in Nat /\ \A p \in Node : MaxSend[p] \in Nat
  BY MessagingAssumption

LEMMA AppendFacts ==
  ASSUME NEW S, NEW s \in Seq(S), NEW x \in S
  PROVE  /\ Append(s, x) \in Seq(S) /\ Len(Append(s, x)) = Len(s) + 1
         /\ Append(s, x)[Len(s) + 1] = x
         /\ \A i \in 1 .. Len(s) : Append(s, x)[i] = s[i]
  BY AppendProperties

LEMMA TailFacts ==
  ASSUME NEW S, NEW s \in Seq(S), s # <<>>
  PROVE  /\ Head(s) \in S /\ Head(s) = s[1] /\ Tail(s) \in Seq(S)
         /\ Len(s) \in Nat /\ Len(s) >= 1 /\ Len(Tail(s)) = Len(s) - 1
         /\ \A i \in 1 .. Len(Tail(s)) : Tail(s)[i] = s[i + 1]
  BY HeadTailProperties, EmptySeq, LenProperties, ElementOfSeq

\* A flush that sends, puts back what failed and goes on.
LEMMA FlushParts ==
  ASSUME Types, NEW p \in Node, NEW t \in Task
  PROVE  /\ flush[p][t] \in Flushes(p)
         /\ flush[p][t].items \in Seq(Texts(p)) /\ flush[p][t].retry \in Seq(Texts(p))
         /\ NoFlush \in Flushes(p) /\ Taking \in Flushes(p)
<1>1. flush[p] \in [Task -> Flushes(p)]
  BY DEF Types, FlushTypes
<1>2. flush[p][t] \in Flushes(p)
  BY <1>1
<1>3. <<>> \in Seq(Texts(p))
  BY EmptySeq
<1>4. QED  BY <1>2, <1>3 DEF Flushes, NoFlush, Taking

LEMMA SetFlushType ==
  ASSUME Types, NEW p \in Node, NEW t \in Task, NEW f \in Flushes(p), SetFlush(p, t, f)
  PROVE  FlushTypes'
  BY DEF Types, FlushTypes, SetFlush

LEMMA PutType ==
  ASSUME Types, NEW p \in Node, NEW x \in Frame(p), Put(p, x)
  PROVE  WireTypes'
<1>1. Append(wire[p], x) \in Seq(Frame(p))
  BY AppendFacts DEF Types, WireTypes
<1>2. QED  BY <1>1 DEF Types, WireTypes, Put

LEMMA FrameFacts ==
  ASSUME NEW p \in Node
  PROVE  /\ Finish \in Frame(p) /\ Open \in Frame(p)
         /\ \A n \in Texts(p) : Text(n) \in Frame(p)
         /\ \A x \in Frame(p) : x.kind = "text" => x.n \in Texts(p)
<1>1. /\ Finish \in Frame(p) /\ Open \in Frame(p)
      /\ \A n \in Texts(p) : Text(n) \in Frame(p)
  BY DEF Frame
<1>2. ASSUME NEW x \in Frame(p), x.kind = "text"  PROVE x.n \in Texts(p)
  <2>1. x # Finish /\ x # Open
    BY <1>2 DEF Finish, Open
  <2>2. PICK n \in Texts(p) : x = Text(n)
    BY <2>1 DEF Frame
  <2>3. QED  BY <2>2 DEF Text
<1>3. QED  BY <1>1, <1>2

LEMMA ReadsType ==
  ASSUME Types, NEW p \in Node, NEW kind, Reads(p, kind), Consume(p)
  PROVE  /\ WireTypes'
         /\ kind = "text" => Head(wire[Other(p)]).n \in Texts(Other(p))
<1>1. /\ Tail(wire[Other(p)]) \in Seq(Frame(Other(p)))
      /\ Head(wire[Other(p)]) \in Frame(Other(p))
      /\ Head(wire[Other(p)]).kind = kind
  BY OtherFacts, TailFacts DEF Reads, Types, WireTypes
<1>2. WireTypes'
  BY <1>1, OtherFacts DEF Types, WireTypes, Consume
<1>3. QED  BY <1>1, <1>2, OtherFacts, FrameFacts

LEMMA TellType ==
  ASSUME Types, NEW p \in Node, NEW n \in Texts(p), Tell(p, n), lost' = lost
  PROVE  EndTypes'
  BY DEF Types, EndTypes, Tell

LEMMA MarkType ==
  ASSUME Types, NEW p \in Node, NEW changed \in BOOLEAN, MarkIf(p, changed)
  PROVE  stale' \in [Node -> BOOLEAN]
  BY DEF Types, SessionTypes, MarkIf

LEMMA TypesInit == Init => Types
<1> SUFFICES ASSUME Init  PROVE Types
  OBVIOUS
<1>1. \A S : <<>> \in Seq(S)
  BY EmptySeq
<1>2. \A p \in Node : MaxSend[p] \in Nat /\ MaxSend[Other(p)] \in Nat
  BY Bounds, OtherFacts
<1>3. SessionTypes
  BY DEF Init, SessionTypes
<1>4. PendingTypes /\ WireTypes /\ SeenTypes
  BY <1>1 DEF Init, PendingTypes, WireTypes, SeenTypes
<1>5. HeldTypes
  BY <1>1, Bounds DEF Init, HeldTypes
<1>6. TextTypes /\ EndTypes
  BY <1>2 DEF Init, TextTypes, EndTypes
<1>7. FlushTypes
  BY <1>1 DEF Init, FlushTypes, Flushes, NoFlush
<1>8. QED  BY <1>3, <1>4, <1>5, <1>6, <1>7 DEF Types

\* The user's send: the text is on the wire, with send_message, or told.
LEMMA SendTypes ==
  ASSUME Types, NEW p \in Node, SendMessage(p) \/ Enqueue(p)  PROVE Types'
<1>1. MaxSend[p] \in Nat /\ sent[p] \in 0 .. MaxSend[p] /\ sending[p] \in 0 .. MaxSend[p]
  BY Bounds DEF Types, TextTypes
<1>2. CASE SendMessage(p)
  <2>1. /\ SessionTypes' /\ PendingTypes' /\ HeldTypes' /\ FlushTypes' /\ SeenTypes'
        /\ sent' = [sent EXCEPT ![p] = @ + 1] /\ hand' = hand /\ lost' = lost
    BY <1>2 DEF SendMessage, session, Types, SessionTypes, PendingTypes, HeldTypes,
                FlushTypes, SeenTypes
  <2>2. sent'[p] = sent[p] + 1 /\ sent'[p] \in Texts(p)
    BY <1>1, <1>2, <2>1 DEF SendMessage, Types, TextTypes, Texts
  <2>3. WireTypes'
    <3>1. wire' = wire \/ Put(p, Text(sent'[p]))
      BY <1>2 DEF SendMessage
    <3>2. QED  BY <2>2, <3>1, FrameFacts, PutType DEF Types, WireTypes
  <2>4. TextTypes'
    <3>1. sending' = sending \/ sending' = [sending EXCEPT ![p] = sent'[p]]
      BY <1>2 DEF SendMessage
    <3>2. QED  BY <1>1, <2>1, <2>2, <3>1 DEF Types, TextTypes, Texts
  <2>5. EndTypes'
    <3>1. told' = told \/ Tell(p, sent'[p])
      BY <1>2 DEF SendMessage
    <3>2. QED  BY <2>1, <2>2, <3>1, TellType DEF Types, EndTypes
  <2>6. QED  BY <2>1, <2>3, <2>4, <2>5 DEF Types
<1>3. CASE Enqueue(p)
  <2>1. sending[p] \in Texts(p)
    BY <1>1, <1>3 DEF Enqueue, Texts
  <2>2. /\ HeldTypes' /\ WireTypes' /\ FlushTypes' /\ SeenTypes'
        /\ lost' = lost
    BY <1>3 DEF Enqueue, Types, HeldTypes, WireTypes, FlushTypes, SeenTypes
  <2>3. EndTypes'
    <3>1. told' = told \/ Tell(p, sending[p])
      BY <1>3 DEF Enqueue
    <3>2. QED  BY <2>1, <2>2, <3>1, TellType DEF Types, EndTypes
  <2>4. PendingTypes'
    <3>1. Append(pending[p], sending[p]) \in Seq(Texts(p))
      BY <2>1, AppendFacts DEF Types, PendingTypes
    <3>2. QED  BY <1>3, <3>1 DEF Enqueue, Types, PendingTypes
  <2>5. SessionTypes'
    <3>1. Ready(p) \in BOOLEAN
      BY DEF Ready, Types, SessionTypes
    <3>2. stale' \in [Node -> BOOLEAN]
      BY <1>3, <3>1, MarkType DEF Enqueue, Types, SessionTypes
    <3>3. QED  BY <1>3, <3>2 DEF Enqueue, session, Types, SessionTypes
  <2>6. TextTypes'
    <3>1. sending' = [sending EXCEPT ![p] = 0] /\ hand' = hand /\ sent' = sent
      BY <1>3 DEF Enqueue
    <3>2. 0 \in 0 .. MaxSend[p]
      BY <1>1
    <3>3. QED  BY <3>1, <3>2 DEF Types, TextTypes
  <2>7. QED  BY <2>2, <2>3, <2>4, <2>5, <2>6 DEF Types
<1>4. QED  BY <1>2, <1>3

\* A flush takes the queue, sends a text and goes on, and puts back what failed.
LEMMA FlushStepTypes ==
  ASSUME Types, NEW p \in Node, NEW t \in Task,
         TakePending(p, t) \/ FlushOne(p, t) \/ FlushEnd(p, t)
  PROVE  Types'
<1> DEFINE f == flush[p][t]
<1>1. f \in Flushes(p) /\ f.items \in Seq(Texts(p)) /\ f.retry \in Seq(Texts(p))
  BY FlushParts
<1>2. <<>> \in Seq(Texts(p))
  BY EmptySeq
<1>3. CASE TakePending(p, t)
  <2>1. [NoFlush EXCEPT !.stage = "sending", !.items = pending[p]] \in Flushes(p)
    BY <1>2 DEF Types, PendingTypes, NoFlush, Flushes
  <2>2. FlushTypes'
    BY <1>3, <2>1, SetFlushType DEF TakePending
  <2>3. PendingTypes'
    BY <1>2, <1>3 DEF TakePending, Types, PendingTypes
  <2>4. /\ SessionTypes' /\ HeldTypes' /\ WireTypes' /\ TextTypes' /\ EndTypes'
        /\ SeenTypes'
    BY <1>3 DEF TakePending, session, outcome, Types, SessionTypes, HeldTypes, WireTypes,
                TextTypes, EndTypes, SeenTypes
  <2>5. QED  BY <2>2, <2>3, <2>4 DEF Types
<1>4. CASE FlushOne(p, t)
  <2>1. /\ Head(f.items) \in Texts(p)
        /\ Tail(f.items) \in Seq(Texts(p))
    BY <1>1, <1>4, TailFacts DEF FlushOne
  <2>2. Kept(f) \in Seq(Texts(p))
    BY <1>1, <2>1, AppendFacts DEF Kept
  <2>3. FlushTypes'
    <3> DEFINE rest == [f EXCEPT !.items = Tail(@)]
    <3>1. rest \in Flushes(p) /\ [rest EXCEPT !.retry = Kept(f)] \in Flushes(p)
      BY <1>1, <2>1, <2>2 DEF Flushes
    <3>2. SetFlush(p, t, rest) \/ SetFlush(p, t, [rest EXCEPT !.retry = Kept(f)])
      BY <1>4 DEF FlushOne
    <3>3. QED  BY <3>1, <3>2, SetFlushType
  <2>4. WireTypes'
    <3>1. wire' = wire \/ Put(p, Text(Head(f.items)))
      BY <1>4 DEF FlushOne
    <3>2. QED  BY <2>1, <3>1, FrameFacts, PutType DEF Types, WireTypes
  <2>5. EndTypes'
    <3>1. lost' = lost /\ (told' = told \/ Tell(p, Head(f.items)))
      BY <1>4 DEF FlushOne
    <3>2. QED  BY <2>1, <3>1, TellType DEF Types, EndTypes
  <2>6. SessionTypes' /\ PendingTypes' /\ HeldTypes' /\ TextTypes' /\ SeenTypes'
    BY <1>4 DEF FlushOne, session, Types, SessionTypes, PendingTypes, HeldTypes,
                TextTypes, SeenTypes
  <2>7. QED  BY <2>3, <2>4, <2>5, <2>6 DEF Types
<1>5. CASE FlushEnd(p, t)
  <2>1. FlushTypes'
    BY <1>5, FlushParts, SetFlushType DEF FlushEnd
  <2>2. PendingTypes'
    <3>1. f.retry \o pending[p] \in Seq(Texts(p))
      BY <1>1, ConcatProperties DEF Types, PendingTypes
    <3>2. QED  BY <1>5, <3>1 DEF FlushEnd, Types, PendingTypes
  <2>3. SessionTypes'
    <3>1. (f.retry # <<>> /\ Ready(p)) \in BOOLEAN
      BY DEF Ready, Types, SessionTypes
    <3>2. stale' \in [Node -> BOOLEAN]
      BY <1>5, <3>1, MarkType DEF FlushEnd
    <3>3. calling' \in [Node -> {"idle", "trusted", "open", "release", "flush"}]
      <4>1. calling' = [calling EXCEPT ![p] = IF t = "caller" THEN "idle" ELSE @]
        BY <1>5 DEF FlushEnd
      <4>2. QED  BY <4>1 DEF Types, SessionTypes
    <3>4. UNCHANGED <<link, session, trusted_key, sessions, confirmed>>
      BY <1>5 DEF FlushEnd
    <3>5. QED  BY <3>2, <3>3, <3>4 DEF session, Types, SessionTypes
  <2>4. HeldTypes' /\ WireTypes' /\ TextTypes' /\ EndTypes' /\ SeenTypes'
    BY <1>5 DEF FlushEnd, outcome, Types, HeldTypes, WireTypes, TextTypes, EndTypes,
                SeenTypes
  <2>5. QED  BY <2>1, <2>2, <2>3, <2>4 DEF Types
<1>6. QED  BY <1>3, <1>4, <1>5

\* The caller, and the connection.
LEMMA CallerTypes ==
  ASSUME Types, NEW p \in Node,
         \/ ConfirmPeerTrusted(p) \/ MaybeAutoTrust(p) \/ AddTrustedKey(p)
         \/ SendRatchetBootstrap(p) \/ ReleaseHeldInbound(p) \/ ConnectAgain(p)
  PROVE  Types'
<1>1. CASE ConfirmPeerTrusted(p) \/ MaybeAutoTrust(p) \/ AddTrustedKey(p)
  <2>1. SessionTypes'
    BY <1>1 DEF ConfirmPeerTrusted, MaybeAutoTrust, AddTrustedKey, Trust, session,
                Types, SessionTypes
  <2>2. /\ PendingTypes' /\ HeldTypes' /\ WireTypes' /\ TextTypes' /\ FlushTypes'
        /\ EndTypes' /\ SeenTypes'
    BY <1>1 DEF ConfirmPeerTrusted, MaybeAutoTrust, AddTrustedKey, Trust, outcome, Types,
                PendingTypes, HeldTypes, WireTypes, TextTypes, FlushTypes, EndTypes, SeenTypes
  <2>3. QED  BY <2>1, <2>2 DEF Types
<1>2. CASE SendRatchetBootstrap(p)
  <2>1. WireTypes'
    <3>1. wire' = wire \/ Put(p, Open)
      BY <1>2 DEF SendRatchetBootstrap
    <3>2. QED  BY <3>1, FrameFacts, PutType DEF Types, WireTypes
  <2>2. /\ SessionTypes' /\ PendingTypes' /\ HeldTypes' /\ TextTypes' /\ FlushTypes'
        /\ EndTypes' /\ SeenTypes'
    BY <1>2 DEF SendRatchetBootstrap, session, outcome, Types, SessionTypes, PendingTypes,
                HeldTypes, TextTypes, FlushTypes, EndTypes, SeenTypes
  <2>3. QED  BY <2>1, <2>2 DEF Types
<1>3. CASE ReleaseHeldInbound(p) \/ ConnectAgain(p)
  <2>1. FlushTypes'
    BY <1>3, FlushParts, SetFlushType DEF ReleaseHeldInbound, ConnectAgain, Task
  <2>2. SessionTypes' /\ PendingTypes' /\ WireTypes' /\ TextTypes' /\ EndTypes'
    BY <1>3 DEF ReleaseHeldInbound, ConnectAgain, session, outcome, Types, SessionTypes,
                PendingTypes, WireTypes, TextTypes, EndTypes
  <2>3. HeldTypes' /\ SeenTypes'
    <3>1. CASE ReleaseHeldInbound(p)
      <4>1. /\ <<>> \in Seq(Texts(Other(p))) /\ Len(<<>>) = 0
            /\ delivered[p] \o held[p] \in Seq(Texts(Other(p)))
        BY EmptySeq, ConcatProperties DEF Types, SeenTypes, HeldTypes
      <4>2. /\ delivered' = [delivered EXCEPT ![p] = @ \o held[p]]
            /\ held' = [held EXCEPT ![p] = <<>>]
        BY <3>1 DEF ReleaseHeldInbound
      <4>3. SeenTypes'
        BY <4>1, <4>2 DEF Types, SeenTypes
      <4>4. HeldTypes'
        BY <4>1, <4>2, Bounds DEF Types, HeldTypes
      <4>5. QED  BY <4>3, <4>4
    <3>2. CASE ConnectAgain(p)
      BY <3>2 DEF ConnectAgain, outcome, Types, SeenTypes, HeldTypes
    <3>3. QED  BY <1>3, <3>1, <3>2
  <2>4. QED  BY <2>1, <2>2, <2>3 DEF Types
<1>4. QED  BY <1>1, <1>2, <1>3

\* The read loop.
LEMMA ReaderTypes ==
  ASSUME Types, NEW p \in Node,
         ReceiveFinish(p) \/ ReceiveOpen(p) \/ ReceiveText(p) \/ HoldInbound(p)
  PROVE  Types'
<1>1. CASE ReceiveFinish(p)
  <2>1. WireTypes'
    BY <1>1, ReadsType DEF ReceiveFinish
  <2>2. /\ SessionTypes' /\ PendingTypes' /\ HeldTypes' /\ TextTypes' /\ FlushTypes'
        /\ EndTypes' /\ SeenTypes'
    BY <1>1 DEF ReceiveFinish, tasks, outcome, Types, SessionTypes, PendingTypes,
                HeldTypes, TextTypes, FlushTypes, EndTypes, SeenTypes
  <2>3. QED  BY <2>1, <2>2 DEF Types
<1>2. CASE ReceiveOpen(p)
  <2>1. WireTypes'
    BY <1>2, ReadsType DEF ReceiveOpen
  <2>2. FlushTypes'
    <3>1. flush' = flush \/ SetFlush(p, "reader", Taking)
      BY <1>2 DEF ReceiveOpen
    <3>2. "reader" \in Task
      BY DEF Task
    <3>3. QED  BY <3>1, <3>2, FlushParts, SetFlushType DEF Types, FlushTypes
  <2>3. /\ SessionTypes' /\ PendingTypes' /\ HeldTypes' /\ TextTypes' /\ EndTypes'
        /\ SeenTypes'
    BY <1>2 DEF ReceiveOpen, Decrypts, outcome, Types, SessionTypes, PendingTypes,
                HeldTypes, TextTypes, EndTypes, SeenTypes
  <2>4. QED  BY <2>1, <2>2, <2>3 DEF Types
<1>3. CASE ReceiveText(p)
  <2> DEFINE n == Head(wire[Other(p)]).n
  <2>1. WireTypes' /\ n \in Texts(Other(p))
    BY <1>3, ReadsType DEF ReceiveText
  <2>2. /\ SessionTypes' /\ PendingTypes' /\ HeldTypes' /\ FlushTypes' /\ EndTypes'
        /\ sending' = sending /\ sent' = sent
    BY <1>3 DEF ReceiveText, Decrypts, Types, SessionTypes, PendingTypes, HeldTypes,
                FlushTypes, EndTypes
  <2>3. SeenTypes'
    <3>1. delivered' = delivered \/ delivered' = [delivered EXCEPT ![p] = Append(@, n)]
      BY <1>3 DEF ReceiveText
    <3>2. Append(delivered[p], n) \in Seq(Texts(Other(p)))
      BY <2>1, AppendFacts DEF Types, SeenTypes
    <3>3. QED  BY <3>1, <3>2 DEF Types, SeenTypes
  <2>4. TextTypes'
    <3>1. hand' = hand \/ hand' = [hand EXCEPT ![p] = n]
      BY <1>3 DEF ReceiveText
    <3>2. n \in 0 .. MaxSend[Other(p)]
      BY <2>1, Bounds, OtherFacts DEF Texts
    <3>3. QED  BY <2>2, <3>1, <3>2 DEF Types, TextTypes
  <2>5. QED  BY <2>1, <2>2, <2>3, <2>4 DEF Types
<1>4. CASE HoldInbound(p)
  <2>1. hand[p] \in Texts(Other(p)) /\ MaxSend[Other(p)] \in Nat
    BY <1>4, Bounds, OtherFacts DEF HoldInbound, Types, TextTypes, Texts
  <2>2. TextTypes'
    <3>1. hand' = [hand EXCEPT ![p] = 0] /\ sending' = sending /\ sent' = sent
      BY <1>4 DEF HoldInbound
    <3>2. 0 \in 0 .. MaxSend[Other(p)]
      BY <2>1
    <3>3. QED  BY <3>1, <3>2 DEF Types, TextTypes
  <2>3. HeldTypes'
    <3>1. CASE held' = held
      BY <3>1 DEF Types, HeldTypes
    <3>2. CASE Fits(p) /\ held' = [held EXCEPT ![p] = Append(@, hand[p])]
      <4>1. /\ Append(held[p], hand[p]) \in Seq(Texts(Other(p)))
            /\ Len(Append(held[p], hand[p])) = Len(held[p]) + 1
            /\ Len(held[p]) \in Nat
        BY <2>1, AppendFacts, LenProperties DEF Types, HeldTypes
      <4>2. Len(Append(held[p], hand[p])) <= MaxHeld
        BY <3>2, <4>1, Bounds DEF Fits
      <4>3. QED  BY <3>2, <4>1, <4>2 DEF Types, HeldTypes
    <3>3. QED  BY <1>4, <3>1, <3>2 DEF HoldInbound
  <2>4. EndTypes'
    <3>1. told' = told
      BY <1>4 DEF HoldInbound
    <3>2. \/ lost' = lost
          \/ lost' = [lost EXCEPT ![Other(p)] = @ \cup {hand[p]}]
      BY <1>4 DEF HoldInbound
    <3>3. QED  BY <2>1, <3>1, <3>2, OtherFacts DEF Types, EndTypes
  <2>5. SessionTypes'
    <3>1. (trust[p] = "trusted") \in BOOLEAN
      OBVIOUS
    <3>2. stale' \in [Node -> BOOLEAN]
      BY <1>4, <3>1, MarkType DEF HoldInbound, Types, SessionTypes
    <3>3. QED  BY <1>4, <3>2 DEF HoldInbound, session, Types, SessionTypes
  <2>6. PendingTypes' /\ WireTypes' /\ FlushTypes' /\ SeenTypes'
    BY <1>4 DEF HoldInbound, Unseen, Types, PendingTypes, WireTypes, FlushTypes, SeenTypes
  <2>7. QED  BY <2>2, <2>3, <2>4, <2>5, <2>6 DEF Types
<1>5. QED  BY <1>1, <1>2, <1>3, <1>4

\* A connection, and its loss.
LEMMA ConnectionTypes ==
  ASSUME Types, LinkLost \/ \E p \in Node : Connect(p) \/ OnConnectionLost(p)
  PROVE  Types'
<1>1. CASE LinkLost
  <2>1. ASSUME NEW p \in Node  PROVE TextsOn(p) \subseteq Texts(p)
    <3>1. \A i \in DOMAIN wire[p] : wire[p][i] \in Frame(p)
      BY ElementOfSeq, LenProperties DEF Types, WireTypes
    <3>2. QED  BY <3>1, FrameFacts DEF TextsOn
  <2>2. EndTypes'
    BY <1>1, <2>1 DEF LinkLost, Types, EndTypes
  <2>3. WireTypes'
    BY <1>1, EmptySeq DEF LinkLost, Types, WireTypes
  <2>4. /\ SessionTypes' /\ PendingTypes' /\ HeldTypes' /\ TextTypes' /\ FlushTypes'
        /\ SeenTypes'
    BY <1>1 DEF LinkLost, session, tasks, Types, SessionTypes, PendingTypes, HeldTypes,
                TextTypes, FlushTypes, SeenTypes
  <2>5. QED  BY <2>2, <2>3, <2>4 DEF Types
<1>2. ASSUME NEW p \in Node, Connect(p)  PROVE Types'
  <2>1. WireTypes'
    BY <1>2, FrameFacts, PutType DEF Connect
  <2>2. SessionTypes'
    <3>1. /\ link' = "up" /\ sessions' = sessions + 1
          /\ UNCHANGED <<trusted_key, calling, confirmed, stale>>
      BY <1>2 DEF Connect, tasks
    <3>2. /\ trust' = [trust EXCEPT ![p] = "sas", ![Other(p)] = "handshaking"]
          /\ initiator' = [initiator EXCEPT ![p] = TRUE]
          /\ can_send' = [can_send EXCEPT ![p] = TRUE]
      BY <1>2 DEF Connect
    <3>3. trust' \in [Node -> {"none", "handshaking", "sas", "trusted"}]
      BY <3>2, OtherFacts DEF Types, SessionTypes
    <3>4. initiator' \in [Node -> BOOLEAN] /\ can_send' \in [Node -> BOOLEAN]
      BY <3>2 DEF Types, SessionTypes
    <3>5. QED  BY <3>1, <3>3, <3>4 DEF Types, SessionTypes
  <2>3. /\ PendingTypes' /\ HeldTypes' /\ TextTypes' /\ FlushTypes' /\ EndTypes'
        /\ SeenTypes'
    BY <1>2 DEF Connect, tasks, outcome, Types, PendingTypes, HeldTypes, TextTypes,
                FlushTypes, EndTypes, SeenTypes
  <2>4. QED  BY <2>1, <2>2, <2>3 DEF Types
<1>3. ASSUME NEW p \in Node, OnConnectionLost(p)  PROVE Types'
  <2>1. Range(held[p]) \subseteq Texts(Other(p))
    BY RangeOfSeq DEF Types, HeldTypes
  <2>2. EndTypes'
    BY <1>3, <2>1, OtherFacts DEF OnConnectionLost, Types, EndTypes
  <2>3. HeldTypes'
    <3>1. <<>> \in Seq(Texts(Other(p))) /\ Len(<<>>) = 0
      BY EmptySeq
    <3>2. held' = [held EXCEPT ![p] = <<>>]
      BY <1>3 DEF OnConnectionLost
    <3>3. QED  BY <3>1, <3>2, Bounds DEF Types, HeldTypes
  <2>4. SessionTypes' /\ PendingTypes' /\ WireTypes' /\ TextTypes' /\ FlushTypes' /\ SeenTypes'
    BY <1>3 DEF OnConnectionLost, tasks, Types, SessionTypes, PendingTypes, WireTypes,
                TextTypes, FlushTypes, SeenTypes
  <2>5. QED  BY <2>2, <2>3, <2>4 DEF Types
<1>4. QED  BY <1>1, <1>2, <1>3

LEMMA TypesStep == ASSUME Types, [Next]_vars  PROVE Types'
<1>1. CASE UNCHANGED vars
  BY <1>1 DEF vars, session, tasks, outcome, Types, SessionTypes, PendingTypes, HeldTypes,
              WireTypes, TextTypes, FlushTypes, EndTypes, SeenTypes
<1>2. QED
  BY <1>1, SendTypes, FlushStepTypes, CallerTypes, ReaderTypes, ConnectionTypes
     DEF Next, Flush

\* The sessions, the queues and the tasks keep their types, and no more than
\* MaxHeld texts of an unverified peer are kept.
THEOREM TypeCorrect == Spec => []TypeOK
BY TypesInit, TypesStep, TypesOK, PTL DEF Spec

-----------------------------------------------------------------------------
(* What waits is sent or released *)

HasOpen(p)    == \E i \in 1 .. Len(wire[p]) : wire[p][i].kind = "open"
HasFinish(p)  == wire[p] # <<>> /\ wire[p][1].kind = "finish"
FinishOnly(p) == \A i \in 1 .. Len(wire[p]) : wire[p][i].kind = "finish" => i = 1

\* A session, its wire and its roles agree.
Agrees(p) ==
  /\ link = "down" => wire[p] = <<>>
  /\ link = "up" => /\ trust[p] # "none" /\ (initiator[p] <=> ~initiator[Other(p)])
                    /\ HasFinish(p) <=> trust[Other(p)] = "handshaking"
  /\ FinishOnly(p)
  /\ trust[p] \in {"none", "handshaking"} => ~can_send[p] /\ hand[p] = 0
  /\ initiator[p] => can_send[p]
  /\ calling[p] = "flush" <=> flush[p]["caller"].stage # "none"

\* The peer's ratchet_open is on its way, or its caller will come to it.
OpenComes(p) == \/ HasOpen(Other(p)) \/ trust[Other(p)] # "trusted"
                \/ calling[Other(p)] \in {"trusted", "open"}

\* A task is about to take the queue.
Flushing(p) == \/ flush[p]["reader"].stage = "taking"
               \/ flush[p]["caller"].stage = "taking"
               \/ calling[p] \in {"trusted", "open", "release"}

Unlocks(p)  == link = "up" /\ ~can_send[p] => OpenComes(p)
Sends(p)    == /\ ~stale[p] /\ pending[p] # <<>>
               /\ link = "up" /\ trust[p] = "trusted"
               => Flushing(p) \/ (~initiator[p] /\ OpenComes(p))
Releases(p) == ~stale[p] /\ held[p] # <<>> =>
                 trust[p] = "sas" \/ calling[p] \in {"trusted", "open", "release"}

Waits(p) == Agrees(p) /\ Unlocks(p) /\ Sends(p) /\ Releases(p)
Moves    == Types /\ \A p \in Node : Waits(p)

\* What a frame put on the wire, or taken from it, changes there.
SameWire(p) == /\ HasOpen(p)' <=> HasOpen(p)
               /\ HasFinish(p)' <=> HasFinish(p)
               /\ FinishOnly(p)' <=> FinishOnly(p)
               /\ wire'[p] = <<>> <=> wire[p] = <<>>

LEMMA Untouched == ASSUME NEW p \in Node, wire'[p] = wire[p]  PROVE SameWire(p)
  BY DEF SameWire, HasOpen, HasFinish, FinishOnly

LEMMA PutFacts ==
  ASSUME Types, NEW p \in Node, NEW x \in Frame(p), Put(p, x), x.kind # "finish"
  PROVE  /\ HasOpen(p)' <=> HasOpen(p) \/ x.kind = "open"
         /\ HasFinish(p)' <=> HasFinish(p)
         /\ FinishOnly(p) => FinishOnly(p)'
         /\ SameWire(Other(p))
<1> DEFINE s == wire[p]
           u == Append(s, x)
<1>1. s \in Seq(Frame(p)) /\ wire'[p] = u /\ wire'[Other(p)] = wire[Other(p)]
  BY OtherFacts DEF Types, WireTypes, Put
<1>2. /\ Len(s) \in Nat /\ Len(u) = Len(s) + 1 /\ u[Len(s) + 1] = x
      /\ \A i \in 1 .. Len(s) : u[i] = s[i]
      /\ u # <<>>
      /\ s # <<>> => Len(s) >= 1
  BY <1>1, AppendFacts, AppendProperties, LenProperties, EmptySeq
<1>3. HasOpen(p)' <=> HasOpen(p) \/ x.kind = "open"
  <2>1. \A i : i \in 1 .. Len(u) <=> i \in 1 .. Len(s) \/ i = Len(s) + 1
    BY <1>2
  <2>2. QED  BY <1>1, <1>2, <2>1 DEF HasOpen
<1>4. HasFinish(p)' <=> HasFinish(p)
  <2>1. CASE s = <<>>
    BY <1>1, <1>2, <2>1, EmptySeq DEF HasFinish
  <2>2. CASE s # <<>>
    BY <1>1, <1>2, <2>2 DEF HasFinish
  <2>3. QED  BY <2>1, <2>2
<1>5. FinishOnly(p) => FinishOnly(p)'
  BY <1>1, <1>2 DEF FinishOnly
<1>6. QED  BY <1>1, <1>3, <1>4, <1>5, Untouched, OtherFacts

LEMMA TakeFacts ==
  ASSUME Types, NEW q \in Node, wire[q] # <<>>, wire' = [wire EXCEPT ![q] = Tail(@)]
  PROVE  /\ HasOpen(q) /\ Head(wire[q]).kind # "open" => HasOpen(q)'
         /\ HasFinish(q) <=> Head(wire[q]).kind = "finish"
         /\ FinishOnly(q) => FinishOnly(q)' /\ ~HasFinish(q)'
         /\ SameWire(Other(q))
<1> DEFINE s == wire[q]
<1>1. s \in Seq(Frame(q)) /\ wire'[q] = Tail(s) /\ wire'[Other(q)] = wire[Other(q)]
  BY OtherFacts DEF Types, WireTypes
<1>2. /\ Head(s) = s[1] /\ Len(s) \in Nat /\ Len(s) >= 1 /\ Len(Tail(s)) = Len(s) - 1
      /\ \A i \in 1 .. Len(Tail(s)) : Tail(s)[i] = s[i + 1]
  BY <1>1, TailFacts
<1>3. HasOpen(q) /\ Head(s).kind # "open" => HasOpen(q)'
  <2> SUFFICES ASSUME HasOpen(q), Head(s).kind # "open"  PROVE HasOpen(q)'
    OBVIOUS
  <2>1. PICK i \in 1 .. Len(s) : s[i].kind = "open"
    BY DEF HasOpen
  <2>2. i # 1
    BY <1>2, <2>1
  <2>3. i - 1 \in 1 .. Len(Tail(s)) /\ Tail(s)[i - 1] = s[i]
    BY <1>2, <2>2
  <2>4. QED  BY <1>1, <2>1, <2>3 DEF HasOpen
<1>4. FinishOnly(q) => FinishOnly(q)'
  BY <1>1, <1>2 DEF FinishOnly
<1>5. FinishOnly(q) => ~HasFinish(q)'
  <2> SUFFICES ASSUME FinishOnly(q), HasFinish(q)'  PROVE FALSE
    OBVIOUS
  <2>1. Tail(s) # <<>> /\ Tail(s)[1].kind = "finish"
    BY <1>1 DEF HasFinish
  <2>2. Len(Tail(s)) >= 1
    BY <1>1, <1>2, <2>1, TailFacts, EmptySeq
  <2>3. s[2].kind = "finish" /\ 2 \in 1 .. Len(s)
    BY <1>2, <2>1, <2>2
  <2>4. QED  BY <2>3 DEF FinishOnly
<1>6. HasFinish(q) <=> Head(s).kind = "finish"
  BY <1>2 DEF HasFinish
<1>7. QED  BY <1>1, <1>3, <1>4, <1>5, <1>6, Untouched, OtherFacts

LEMMA MovesInit == Init => Moves
<1> SUFFICES ASSUME Init, NEW p \in Node  PROVE Waits(p)
  BY TypesInit DEF Moves
<1>1. wire[p] = <<>> /\ Len(wire[p]) = 0
  BY EmptySeq DEF Init
<1>2. ~HasOpen(p) /\ ~HasFinish(p) /\ FinishOnly(p)
  BY <1>1 DEF HasOpen, HasFinish, FinishOnly
<1>3. QED
  BY <1>1, <1>2 DEF Init, NoFlush, Task, Waits, Agrees, Unlocks, Sends, Releases

\* A text on the wire, and nothing else that a queue waits for.
LEMMA SendMoves ==
  ASSUME Moves, NEW p \in Node, SendMessage(p)  PROVE \A r \in Node : Waits(r)'
<1>1. /\ UNCHANGED <<link, trust, initiator, can_send, pending, held, hand, calling,
                     flush, stale>>
      /\ \A r \in Node : SameWire(r) \/ (link = "up" /\ r = p)
      /\ \A r \in Node : /\ HasOpen(r)' <=> HasOpen(r)
                         /\ HasFinish(r)' <=> HasFinish(r)
                         /\ FinishOnly(r) => FinishOnly(r)'
  <2>1. UNCHANGED <<link, trust, initiator, can_send, pending, held, hand, calling,
                    flush, stale>>
    BY DEF SendMessage, session
  <2>2. CASE wire' = wire
    BY <2>1, <2>2, Untouched DEF SameWire
  <2>3. CASE Ready(p) /\ Put(p, Text(sent'[p]))
    <3>1. sent'[p] \in Texts(p)
      BY Bounds DEF SendMessage, Moves, Types, TextTypes, Texts
    <3>2. Text(sent'[p]) \in Frame(p) /\ Text(sent'[p]).kind = "text"
      BY <3>1, FrameFacts DEF Text
    <3>3. Types
      BY DEF Moves
    <3>4. QED  BY <2>1, <2>3, <3>2, <3>3, PutFacts, OtherFacts DEF Ready, SameWire
  <2>4. QED  BY <2>1, <2>2, <2>3 DEF SendMessage
<1>2. QED
  BY <1>1, OtherFacts DEF Moves, Waits, Agrees, Unlocks, Sends, Releases, OpenComes,
     Flushing, SameWire

\* What a task keeps for later is marked if it could be sent now.
LEMMA MarkFacts ==
  ASSUME Types, NEW p \in Node, NEW changed \in BOOLEAN, MarkIf(p, changed)
  PROVE  /\ \A r \in Node : ~stale'[r] => ~stale[r]
         /\ ~stale'[p] => ~changed
  BY DEF Types, SessionTypes, MarkIf

LEMMA EnqueueMoves ==
  ASSUME Moves, NEW p \in Node, Enqueue(p)  PROVE \A r \in Node : Waits(r)'
<1>1. /\ UNCHANGED <<link, trust, initiator, can_send, wire, held, hand, calling, flush>>
      /\ \A r \in Node : r # p => pending'[r] = pending[r]
      /\ \A r \in Node : ~stale'[r] => ~stale[r]
      /\ pending'[p] = pending[p] \/ (~stale'[p] => ~Ready(p))
  <2>1. UNCHANGED <<link, trust, initiator, can_send, wire, held, hand, calling, flush>>
    BY DEF Enqueue, session
  <2>2. Ready(p) \in BOOLEAN
    BY DEF Ready, Moves, Types, SessionTypes
  <2>3. CASE pending' = [pending EXCEPT ![p] = Append(@, sending[p])] /\ MarkIf(p, Ready(p))
    BY <2>1, <2>2, <2>3, MarkFacts DEF Moves, Types, PendingTypes
  <2>4. CASE UNCHANGED <<pending, stale>>
    BY <2>1, <2>4
  <2>5. QED  BY <2>3, <2>4 DEF Enqueue
<1>2. \A r \in Node : SameWire(r)
  BY <1>1, Untouched
<1>3. \A r \in Node : /\ Agrees(r)' /\ Unlocks(r)' /\ (OpenComes(r)' <=> OpenComes(r))
  BY <1>1, <1>2, OtherFacts DEF Moves, Waits, Agrees, Unlocks, OpenComes, SameWire
<1>4. \A r \in Node : Releases(r)'
  BY <1>1 DEF Moves, Waits, Releases
<1>5. Sends(p)'
  BY <1>1, <1>3 DEF Moves, Waits, Agrees, Unlocks, Sends, Flushing, Ready
<1>6. \A r \in Node : r # p => Sends(r)'
  BY <1>1, <1>3 DEF Moves, Waits, Sends, Flushing
<1>7. QED  BY <1>3, <1>4, <1>5, <1>6 DEF Waits

LEMMA StageFacts ==
  ASSUME Types, NEW p \in Node, NEW t \in Task, NEW f \in Flushes(p), SetFlush(p, t, f)
  PROVE  /\ flush'[p][t] = f
         /\ \A r \in Node, u \in Task : r # p \/ u # t => flush'[r][u] = flush[r][u]
  BY DEF Types, FlushTypes, SetFlush

LEMMA TakeMoves ==
  ASSUME Moves, NEW p \in Node, NEW t \in Task, TakePending(p, t)
  PROVE  \A r \in Node : Waits(r)'
<1>1. /\ UNCHANGED <<link, trust, initiator, can_send, wire, held, hand, calling, stale>>
      /\ pending'[p] = <<>> /\ \A r \in Node : r # p => pending'[r] = pending[r]
  BY DEF TakePending, session, outcome, Moves, Types, PendingTypes
<1>2. \A r \in Node : SameWire(r)
  BY <1>1, Untouched
<1>3. /\ flush[p][t].stage = "taking" /\ flush'[p][t].stage = "sending"
      /\ \A r \in Node, u \in Task : r # p \/ u # t => flush'[r][u] = flush[r][u]
  <2> DEFINE f == [NoFlush EXCEPT !.stage = "sending", !.items = pending[p]]
  <2>1. f \in Flushes(p) /\ f.stage = "sending"
    BY EmptySeq DEF Moves, Types, PendingTypes, NoFlush, Flushes
  <2>2. PICK g \in Flushes(p) : g.stage = "sending" /\ SetFlush(p, t, g)
    BY <2>1 DEF TakePending
  <2>3. Types /\ flush[p][t].stage = "taking"
    BY DEF TakePending, Moves
  <2>4. QED  BY <2>2, <2>3, StageFacts
<1>4. "caller" \in Task /\ "reader" \in Task
  BY DEF Task
<1>5. \A r \in Node : Agrees(r)'
  BY <1>1, <1>2, <1>3, <1>4, OtherFacts DEF Moves, Waits, Agrees, SameWire
<1>6. \A r \in Node : Unlocks(r)' /\ Releases(r)' /\ (OpenComes(r)' <=> OpenComes(r))
  BY <1>1, <1>2, OtherFacts DEF Moves, Waits, Unlocks, Releases, OpenComes, SameWire
<1>7. \A r \in Node : Sends(r)'
  BY <1>1, <1>3, <1>4, <1>6 DEF Moves, Waits, Sends, Flushing
<1>8. QED  BY <1>5, <1>6, <1>7 DEF Waits

LEMMA FlushOneMoves ==
  ASSUME Moves, NEW p \in Node, NEW t \in Task, FlushOne(p, t)
  PROVE  \A r \in Node : Waits(r)'
<1> DEFINE f == flush[p][t]
           rest == [f EXCEPT !.items = Tail(@)]
<1>1. UNCHANGED <<link, trust, initiator, can_send, pending, held, hand, calling, stale>>
  BY DEF FlushOne, session
<1>2. f \in Flushes(p) /\ f.items \in Seq(Texts(p)) /\ f.retry \in Seq(Texts(p))
  BY FlushParts DEF Moves
<1>3. Head(f.items) \in Texts(p) /\ Tail(f.items) \in Seq(Texts(p))
  BY <1>2, TailFacts DEF FlushOne
<1>4. \A r \in Node : /\ HasOpen(r)' <=> HasOpen(r)
                      /\ HasFinish(r)' <=> HasFinish(r)
                      /\ FinishOnly(r) => FinishOnly(r)'
                      /\ SameWire(r) \/ (link = "up" /\ r = p)
  <2>1. CASE wire' = wire
    BY <2>1, Untouched DEF SameWire
  <2>2. CASE Ready(p) /\ Put(p, Text(Head(f.items)))
    <3>1. Text(Head(f.items)) \in Frame(p) /\ Text(Head(f.items)).kind = "text"
      BY <1>3, FrameFacts DEF Text
    <3>2. Types
      BY DEF Moves
    <3>3. QED  BY <2>2, <3>1, <3>2, PutFacts, OtherFacts DEF Ready, SameWire
  <2>3. QED  BY <2>1, <2>2 DEF FlushOne
<1>5. \A r \in Node, u \in Task : flush'[r][u].stage = flush[r][u].stage
  <2>1. /\ rest \in Flushes(p) /\ rest.stage = f.stage
        /\ [rest EXCEPT !.retry = Kept(f)] \in Flushes(p)
        /\ [rest EXCEPT !.retry = Kept(f)].stage = f.stage
    <3>1. Kept(f) \in Seq(Texts(p))
      BY <1>2, <1>3, AppendFacts DEF Kept
    <3>2. QED  BY <1>2, <1>3, <3>1 DEF Flushes
  <2>2. SetFlush(p, t, rest) \/ SetFlush(p, t, [rest EXCEPT !.retry = Kept(f)])
    BY DEF FlushOne
  <2>3. Types
    BY DEF Moves
  <2>4. PICK g \in Flushes(p) : g.stage = flush[p][t].stage /\ SetFlush(p, t, g)
    BY <2>1, <2>2
  <2>5. /\ flush'[p][t] = g
        /\ \A r \in Node, u \in Task : r # p \/ u # t => flush'[r][u] = flush[r][u]
    BY <2>3, <2>4, StageFacts
  <2>6. QED  BY <2>4, <2>5
<1>6. "caller" \in Task /\ "reader" \in Task
  BY DEF Task
<1>7. \A r \in Node : Agrees(r)'
  BY <1>1, <1>4, <1>5, <1>6, OtherFacts DEF Moves, Waits, Agrees, SameWire
<1>8. \A r \in Node : Unlocks(r)' /\ Releases(r)' /\ (OpenComes(r)' <=> OpenComes(r))
  BY <1>1, <1>4, OtherFacts DEF Moves, Waits, Unlocks, Releases, OpenComes
<1>9. \A r \in Node : Sends(r)'
  BY <1>1, <1>5, <1>6, <1>8 DEF Moves, Waits, Sends, Flushing
<1>10. QED  BY <1>7, <1>8, <1>9 DEF Waits

LEMMA FlushEndMoves ==
  ASSUME Moves, NEW p \in Node, NEW t \in Task, FlushEnd(p, t)
  PROVE  \A r \in Node : Waits(r)'
<1> DEFINE f == flush[p][t]
<1>1. UNCHANGED <<link, trust, initiator, can_send, wire, held, hand>>
  BY DEF FlushEnd, session, outcome
<1>2. \A r \in Node : SameWire(r)
  BY <1>1, Untouched
<1>3. /\ flush[p][t].stage = "sending" /\ flush'[p][t].stage = "none"
      /\ \A r \in Node, u \in Task : r # p \/ u # t => flush'[r][u] = flush[r][u]
  BY FlushParts, StageFacts DEF FlushEnd, Moves, NoFlush
<1>4. /\ \A r \in Node : ~stale'[r] => ~stale[r]
      /\ ~stale'[p] /\ f.retry # <<>> => ~Ready(p)
  <2>1. (f.retry # <<>> /\ Ready(p)) \in BOOLEAN
    BY DEF Ready, Moves, Types, SessionTypes
  <2>2. MarkIf(p, f.retry # <<>> /\ Ready(p)) /\ Types
    BY DEF FlushEnd, Moves
  <2>3. QED  BY <2>1, <2>2, MarkFacts
<1>5. /\ f.retry = <<>> => pending'[p] = pending[p]
      /\ \A r \in Node : r # p => pending'[r] = pending[r]
  <2>1. pending' = [pending EXCEPT ![p] = f.retry \o @] /\ pending[p] \in Seq(Texts(p))
    BY DEF FlushEnd, Moves, Types, PendingTypes
  <2>2. f.retry = <<>> => f.retry \o pending[p] = pending[p]
    BY <2>1, ConcatEmptySeq
  <2>3. QED  BY <2>1, <2>2 DEF Moves, Types, PendingTypes
<1>6. "caller" \in Task /\ "reader" \in Task /\ t \in {"caller", "reader"}
  BY DEF Task
<1>7. /\ \A r \in Node : r # p => calling'[r] = calling[r]
      /\ t = "caller" => calling[p] = "flush" /\ calling'[p] = "idle"
      /\ t # "caller" => calling'[p] = calling[p]
  <2>1. calling' = [calling EXCEPT ![p] = IF t = "caller" THEN "idle" ELSE @]
    BY DEF FlushEnd
  <2>2. t = "caller" => calling[p] = "flush"
    BY <1>3 DEF Moves, Waits, Agrees
  <2>3. QED  BY <2>1, <2>2 DEF Moves, Types, SessionTypes
<1>8. \A r \in Node : Agrees(r)'
  BY <1>1, <1>2, <1>3, <1>6, <1>7, OtherFacts DEF Moves, Waits, Agrees, SameWire
<1>9. \A r \in Node : Unlocks(r)' /\ (OpenComes(r)' <=> OpenComes(r))
  BY <1>1, <1>2, <1>7, OtherFacts DEF Moves, Waits, Unlocks, OpenComes, SameWire
<1>10. \A r \in Node : Releases(r)'
  BY <1>1, <1>4, <1>7 DEF Moves, Waits, Releases
<1>11. \A r \in Node : r # p => Sends(r)'
  BY <1>1, <1>3, <1>4, <1>5, <1>6, <1>7, <1>9 DEF Moves, Waits, Sends, Flushing
<1>12. Sends(p)'
  <2>1. CASE f.retry # <<>>
    BY <1>1, <1>4, <1>9, <2>1 DEF Moves, Waits, Agrees, Unlocks, Sends, Ready
  <2>2. CASE f.retry = <<>>
    BY <1>1, <1>3, <1>4, <1>5, <1>6, <1>7, <1>9, <2>2 DEF Moves, Waits, Sends, Flushing
  <2>3. QED  BY <2>1, <2>2
<1>13. QED  BY <1>8, <1>9, <1>10, <1>11, <1>12 DEF Waits

\* A caller that trusts the session promises an open, a release and a flush.
LEMMA TrustMoves ==
  ASSUME Moves, NEW p \in Node,
         ConfirmPeerTrusted(p) \/ MaybeAutoTrust(p) \/ AddTrustedKey(p)
  PROVE  \A r \in Node : Waits(r)'
<1>1. UNCHANGED <<link, initiator, can_send, pending, held, wire, hand, flush, stale>>
  BY DEF ConfirmPeerTrusted, MaybeAutoTrust, AddTrustedKey, Trust, session, outcome
<1>2. \A r \in Node : SameWire(r)
  BY <1>1, Untouched
<1>3. /\ \A r \in Node : r # p => trust'[r] = trust[r] /\ calling'[r] = calling[r]
      /\ \/ /\ trust[p] = "sas" /\ trust'[p] = "trusted"
            /\ calling[p] = "idle" /\ calling'[p] = "trusted"
         \/ trust'[p] = trust[p] /\ calling[p] = "trusted" /\ calling'[p] = "open"
  BY DEF ConfirmPeerTrusted, MaybeAutoTrust, AddTrustedKey, Trust, session, Moves, Types,
         SessionTypes
<1>4. \A r \in Node : Agrees(r)'
  BY <1>1, <1>2, <1>3, OtherFacts DEF Moves, Waits, Agrees, SameWire
<1>5. \A r \in Node : OpenComes(r)' <=> OpenComes(r)
  BY <1>2, <1>3, OtherFacts DEF OpenComes, SameWire
<1>6. \A r \in Node : Unlocks(r)' /\ Sends(r)' /\ Releases(r)'
  BY <1>1, <1>3, <1>5 DEF Moves, Waits, Unlocks, Sends, Releases, Flushing
<1>7. QED  BY <1>4, <1>6 DEF Waits

\* An initiator that trusts the session can send: the open is on the wire.
LEMMA BootstrapMoves ==
  ASSUME Moves, NEW p \in Node, SendRatchetBootstrap(p)  PROVE \A r \in Node : Waits(r)'
<1>1. /\ UNCHANGED <<link, trust, initiator, can_send, pending, held, hand, flush, stale>>
      /\ \A r \in Node : r # p => calling'[r] = calling[r]
      /\ calling[p] = "open" /\ calling'[p] = "release"
  BY DEF SendRatchetBootstrap, session, outcome, Moves, Types, SessionTypes
<1>2. /\ \A r \in Node : /\ HasFinish(r)' <=> HasFinish(r)
                         /\ FinishOnly(r) => FinishOnly(r)'
                         /\ HasOpen(r) => HasOpen(r)'
                         /\ SameWire(r) \/ (link = "up" /\ r = p)
      /\ initiator[p] /\ Ready(p) => HasOpen(p)'
  <2>1. CASE wire' = wire /\ ~(initiator[p] /\ Ready(p))
    BY <2>1, Untouched DEF SameWire
  <2>2. CASE Ready(p) /\ Put(p, Open)
    <3>1. Open \in Frame(p) /\ Open.kind = "open" /\ Types
      BY FrameFacts DEF Open, Moves
    <3>2. QED  BY <2>2, <3>1, PutFacts, OtherFacts DEF Ready, SameWire
  <2>3. QED  BY <2>1, <2>2 DEF SendRatchetBootstrap
<1>3. \A r \in Node : Agrees(r)'
  BY <1>1, <1>2, OtherFacts DEF Moves, Waits, Agrees, SameWire
<1>4. \A r \in Node : link = "up" /\ ~initiator[r] /\ OpenComes(r) => OpenComes(r)'
  <2> SUFFICES ASSUME NEW r \in Node, link = "up", ~initiator[r], OpenComes(r)
               PROVE OpenComes(r)'
    OBVIOUS
  <2>1. CASE Other(r) = p
    <3>1. initiator[p] /\ can_send[p]
      BY <2>1, OtherFacts DEF Moves, Waits, Agrees
    <3>2. trust[p] = "trusted" => HasOpen(p)'
      BY <1>2, <3>1 DEF Ready
    <3>3. QED  BY <1>1, <2>1, <3>2 DEF OpenComes
  <2>2. CASE Other(r) # p
    BY <1>1, <1>2, <2>2, OtherFacts DEF OpenComes
  <2>3. QED  BY <2>1, <2>2
<1>5. \A r \in Node : Unlocks(r)'
  BY <1>1, <1>4 DEF Moves, Waits, Agrees, Unlocks
<1>6. \A r \in Node : Sends(r)' /\ Releases(r)'
  BY <1>1, <1>4 DEF Moves, Waits, Sends, Releases, Flushing
<1>7. QED  BY <1>3, <1>5, <1>6 DEF Waits

LEMMA ReleaseMoves ==
  ASSUME Moves, NEW p \in Node, ReleaseHeldInbound(p) \/ ConnectAgain(p)
  PROVE  \A r \in Node : Waits(r)'
<1>1. /\ UNCHANGED <<link, trust, initiator, can_send, pending, wire, hand, stale>>
      /\ \A r \in Node : r # p => calling'[r] = calling[r] /\ held'[r] = held[r]
      /\ calling[p] \in {"release", "idle"} /\ calling'[p] = "flush"
      /\ held'[p] = <<>> \/ (held'[p] = held[p] /\ calling[p] = "idle")
  BY DEF ReleaseHeldInbound, ConnectAgain, session, outcome, Moves, Types, SessionTypes,
         HeldTypes
<1>2. \A r \in Node : SameWire(r)
  BY <1>1, Untouched
<1>3. /\ "caller" \in Task /\ "reader" \in Task
      /\ flush'[p]["caller"].stage = "taking"
      /\ \A r \in Node, u \in Task : r # p \/ u # "caller" => flush'[r][u] = flush[r][u]
  <2>1. SetFlush(p, "caller", Taking) /\ Types
    BY DEF ReleaseHeldInbound, ConnectAgain, Moves
  <2>2. "caller" \in Task /\ "reader" \in Task
    BY DEF Task
  <2>3. Taking \in Flushes(p) /\ Taking.stage = "taking"
    BY <2>1, <2>2, FlushParts DEF Taking, NoFlush
  <2>4. QED  BY <2>1, <2>2, <2>3, StageFacts
<1>4. \A r \in Node : Agrees(r)'
  BY <1>1, <1>2, <1>3, OtherFacts DEF Moves, Waits, Agrees, SameWire
<1>5. \A r \in Node : OpenComes(r)' <=> OpenComes(r)
  BY <1>1, <1>2, OtherFacts DEF OpenComes, SameWire
<1>6. \A r \in Node : Unlocks(r)' /\ Releases(r)'
  BY <1>1, <1>5 DEF Moves, Waits, Unlocks, Releases
<1>7. \A r \in Node : Sends(r)'
  BY <1>1, <1>3, <1>5 DEF Moves, Waits, Sends, Flushing
<1>8. QED  BY <1>4, <1>6, <1>7 DEF Waits

\* What a read says of the session: a finish only meets a responder that waits
\* for it, and nothing else does.
LEMMA ReadFacts ==
  ASSUME Moves, NEW p \in Node, NEW kind, Reads(p, kind), Consume(p)
  PROVE  /\ link = "up" /\ hand[p] = 0 /\ flush[p]["reader"].stage = "none"
         /\ trust[p] # "none" /\ (kind = "finish" <=> trust[p] = "handshaking")
         /\ SameWire(p)
         /\ HasOpen(Other(p)) /\ kind # "open" => HasOpen(Other(p))'
         /\ FinishOnly(Other(p))' /\ ~HasFinish(Other(p))'
<1> DEFINE q == Other(p)
<1>1. /\ q \in Node /\ Other(q) = p /\ Types
      /\ wire[q] # <<>> /\ Head(wire[q]).kind = kind
      /\ wire' = [wire EXCEPT ![q] = Tail(@)]
      /\ hand[p] = 0 /\ flush[p]["reader"].stage = "none"
  BY OtherFacts DEF Reads, Consume, ReaderIdle, Moves
<1>2. Agrees(p) /\ Agrees(q)
  BY <1>1 DEF Moves, Waits
<1>3. link = "up"
  BY <1>1, <1>2 DEF Agrees, Moves, Types, SessionTypes
<1>4. /\ SameWire(p) /\ (HasFinish(q) <=> kind = "finish")
      /\ HasOpen(q) /\ kind # "open" => HasOpen(q)'
      /\ FinishOnly(q) => FinishOnly(q)' /\ ~HasFinish(q)'
  BY <1>1, TakeFacts
<1>5. QED  BY <1>1, <1>2, <1>3, <1>4 DEF Agrees

LEMMA FinishMoves ==
  ASSUME Moves, NEW p \in Node, ReceiveFinish(p)  PROVE \A r \in Node : Waits(r)'
<1> DEFINE q == Other(p)
<1>1. /\ UNCHANGED <<link, initiator, can_send, pending, held, hand, calling, flush, stale>>
      /\ trust'[p] \in {"sas", "trusted"} /\ trust'[q] = trust[q]
  BY OtherFacts DEF ReceiveFinish, tasks, outcome, Moves, Types, SessionTypes
<1>2. /\ link = "up" /\ trust[p] = "handshaking" /\ SameWire(p)
      /\ HasOpen(q) => HasOpen(q)'
      /\ FinishOnly(q)' /\ ~HasFinish(q)' /\ hand[p] = 0
  BY ReadFacts DEF ReceiveFinish
<1>3. q \in Node /\ Other(q) = p /\ p # q /\ Waits(p) /\ Waits(q)
  BY OtherFacts DEF Moves
<1>4. ~can_send[p] /\ ~initiator[p] /\ initiator[q] /\ can_send[q]
  BY <1>1, <1>2, <1>3 DEF Waits, Agrees
<1>5. OpenComes(p)'
  BY <1>1, <1>2, <1>3, <1>4 DEF Waits, Unlocks, OpenComes
<1>6. Agrees(p)'
  BY <1>1, <1>2, <1>3, <1>4 DEF Waits, Agrees, SameWire
<1>7. Agrees(q)'
  BY <1>1, <1>2, <1>3, <1>4 DEF Waits, Agrees, SameWire
<1>8. Unlocks(p)' /\ Sends(p)' /\ Unlocks(q)' /\ Sends(q)'
  BY <1>1, <1>3, <1>4, <1>5 DEF Waits, Unlocks, Sends, Flushing
<1>9. Releases(p)' /\ Releases(q)'
  BY <1>1, <1>2, <1>3 DEF Waits, Releases
<1>10. QED  BY <1>3, <1>6, <1>7, <1>8, <1>9, OtherFacts DEF Waits

LEMMA OpenMoves ==
  ASSUME Moves, NEW p \in Node, ReceiveOpen(p)  PROVE \A r \in Node : Waits(r)'
<1> DEFINE q == Other(p)
<1>1. /\ UNCHANGED <<link, trust, initiator, pending, held, hand, calling, stale>>
      /\ can_send'[p] /\ can_send'[q] = can_send[q]
  BY OtherFacts DEF ReceiveOpen, Decrypts, outcome, Moves, Types, SessionTypes
<1>2. /\ link = "up" /\ trust[p] \notin {"none", "handshaking"} /\ SameWire(p)
      /\ FinishOnly(q)' /\ ~HasFinish(q)' /\ hand[p] = 0
  BY ReadFacts DEF ReceiveOpen
<1>3. q \in Node /\ Other(q) = p /\ p # q /\ Waits(p) /\ Waits(q)
  BY OtherFacts DEF Moves
<1>4. /\ \A r \in Node : flush'[r]["caller"] = flush[r]["caller"]
      /\ flush'[q]["reader"] = flush[q]["reader"]
      /\ trust[p] = "trusted" => flush'[p]["reader"].stage = "taking"
  <2>1. "caller" \in Task /\ "reader" \in Task /\ Types
    BY DEF Task, Moves
  <2>2. Taking \in Flushes(p) /\ Taking.stage = "taking"
    BY <2>1, FlushParts DEF Taking, NoFlush
  <2>3. CASE SetFlush(p, "reader", Taking)
    BY <1>3, <2>1, <2>2, <2>3, StageFacts
  <2>4. CASE flush' = flush /\ trust[p] # "trusted"
    BY <2>4
  <2>5. QED  BY <2>3, <2>4 DEF ReceiveOpen, OpenFlushes
<1>5. Agrees(p)'
  BY <1>1, <1>2, <1>3, <1>4 DEF Waits, Agrees, SameWire
<1>6. Agrees(q)'
  BY <1>1, <1>2, <1>3, <1>4 DEF Waits, Agrees, SameWire
<1>7. OpenComes(q)' <=> OpenComes(q)
  BY <1>1, <1>2, <1>3 DEF OpenComes, SameWire
<1>8. Unlocks(p)' /\ Sends(p)' /\ Unlocks(q)' /\ Sends(q)'
  BY <1>1, <1>3, <1>4, <1>7 DEF Waits, Unlocks, Sends, Flushing
<1>9. Releases(p)' /\ Releases(q)'
  BY <1>1, <1>3 DEF Waits, Releases
<1>10. QED  BY <1>3, <1>5, <1>6, <1>8, <1>9, OtherFacts DEF Waits

LEMMA TextMoves ==
  ASSUME Moves, NEW p \in Node, ReceiveText(p)  PROVE \A r \in Node : Waits(r)'
<1> DEFINE q == Other(p)
<1>1. /\ UNCHANGED <<link, trust, initiator, pending, held, calling, flush, stale>>
      /\ can_send'[p] /\ can_send'[q] = can_send[q] /\ hand'[q] = hand[q]
  BY OtherFacts DEF ReceiveText, Decrypts, Moves, Types, SessionTypes, TextTypes
<1>2. /\ link = "up" /\ trust[p] \notin {"none", "handshaking"} /\ SameWire(p)
      /\ HasOpen(q) => HasOpen(q)'
      /\ FinishOnly(q)' /\ ~HasFinish(q)'
  BY ReadFacts DEF ReceiveText
<1>3. q \in Node /\ Other(q) = p /\ p # q /\ Waits(p) /\ Waits(q)
  BY OtherFacts DEF Moves
<1>4. Agrees(p)'
  BY <1>1, <1>2, <1>3 DEF Waits, Agrees, SameWire
<1>5. Agrees(q)'
  BY <1>1, <1>2, <1>3 DEF Waits, Agrees, SameWire
<1>6. (OpenComes(q)' <=> OpenComes(q)) /\ (OpenComes(p) => OpenComes(p)')
  BY <1>1, <1>2, <1>3 DEF OpenComes, SameWire
<1>7. Unlocks(p)' /\ Sends(p)' /\ Unlocks(q)' /\ Sends(q)'
  BY <1>1, <1>3, <1>6 DEF Waits, Unlocks, Sends, Flushing
<1>8. Releases(p)' /\ Releases(q)'
  BY <1>1, <1>3 DEF Waits, Releases
<1>9. QED  BY <1>3, <1>4, <1>5, <1>7, <1>8, OtherFacts DEF Waits

LEMMA HoldMoves ==
  ASSUME Moves, NEW p \in Node, HoldInbound(p)  PROVE \A r \in Node : Waits(r)'
<1>1. /\ UNCHANGED <<link, trust, initiator, can_send, pending, wire, calling, flush>>
      /\ hand'[p] = 0
      /\ \A r \in Node : r # p => hand'[r] = hand[r] /\ held'[r] = held[r]
  BY DEF HoldInbound, session, Moves, Types, TextTypes, HeldTypes
<1>2. \A r \in Node : SameWire(r)
  BY <1>1, Untouched
<1>3. /\ \A r \in Node : ~stale'[r] => ~stale[r]
      /\ held'[p] = held[p] \/ (~stale'[p] => trust[p] # "trusted")
  <2>1. Types /\ (trust[p] = "trusted") \in BOOLEAN
    BY DEF Moves
  <2>2. CASE MarkIf(p, trust[p] = "trusted")
    BY <2>1, <2>2, MarkFacts
  <2>3. CASE UNCHANGED <<held, stale>>
    BY <2>3
  <2>4. QED  BY <2>2, <2>3 DEF HoldInbound
<1>4. \A r \in Node : Agrees(r)' /\ (OpenComes(r)' <=> OpenComes(r))
  BY <1>1, <1>2, OtherFacts DEF Moves, Waits, Agrees, OpenComes, SameWire
<1>5. trust[p] \in {"sas", "trusted"}
  BY DEF HoldInbound, Moves, Waits, Agrees, Types, SessionTypes
<1>6. \A r \in Node : Unlocks(r)' /\ Sends(r)'
  BY <1>1, <1>3, <1>4 DEF Moves, Waits, Unlocks, Sends, Flushing
<1>7. \A r \in Node : Releases(r)'
  BY <1>1, <1>3, <1>5 DEF Moves, Waits, Releases
<1>8. QED  BY <1>4, <1>6, <1>7 DEF Waits

LEMMA EmptyWire ==
  ASSUME NEW p \in Node, wire'[p] = <<>>
  PROVE  ~HasOpen(p)' /\ ~HasFinish(p)' /\ FinishOnly(p)'
<1>1. Len(wire'[p]) = 0
  BY EmptySeq
<1>2. QED  BY <1>1 DEF HasOpen, HasFinish, FinishOnly

LEMMA LostMoves ==
  ASSUME Moves, LinkLost  PROVE \A r \in Node : Waits(r)'
<1>1. /\ UNCHANGED <<trust, initiator, can_send, pending, held, hand, calling, flush, stale>>
      /\ link' = "down" /\ \A r \in Node : wire'[r] = <<>>
  BY DEF LinkLost, session, tasks
<1>2. \A r \in Node : FinishOnly(r)'
  BY <1>1, EmptyWire
<1>3. QED
  BY <1>1, <1>2 DEF Moves, Waits, Agrees, Unlocks, Sends, Releases

LEMMA ConnectionLostMoves ==
  ASSUME Moves, NEW p \in Node, OnConnectionLost(p)  PROVE \A r \in Node : Waits(r)'
<1>1. /\ UNCHANGED <<link, pending, wire, hand, calling, flush, stale>>
      /\ link = "down" /\ hand[p] = 0
      /\ trust'[p] = "none" /\ ~initiator'[p] /\ ~can_send'[p] /\ held'[p] = <<>>
      /\ \A r \in Node : r # p => /\ trust'[r] = trust[r] /\ initiator'[r] = initiator[r]
                                  /\ can_send'[r] = can_send[r] /\ held'[r] = held[r]
  BY DEF OnConnectionLost, ReaderIdle, tasks, Moves, Types, SessionTypes, HeldTypes
<1>2. \A r \in Node : SameWire(r)
  BY <1>1, Untouched
<1>3. \A r \in Node : Agrees(r)'
  BY <1>1, <1>2 DEF Moves, Waits, Agrees, SameWire
<1>4. \A r \in Node : Unlocks(r)' /\ Sends(r)' /\ Releases(r)'
  BY <1>1 DEF Moves, Waits, Unlocks, Sends, Releases
<1>5. QED  BY <1>3, <1>4 DEF Waits

LEMMA ConnectMoves ==
  ASSUME Moves, NEW p \in Node, Connect(p)  PROVE \A r \in Node : Waits(r)'
<1> DEFINE q == Other(p)
<1>1. q \in Node /\ Other(q) = p /\ p # q /\ Waits(p) /\ Waits(q)
  BY OtherFacts DEF Moves
<1>2. /\ UNCHANGED <<pending, held, hand, calling, flush, stale>>
      /\ link = "down" /\ link' = "up" /\ trust[p] = "none" /\ trust[q] = "none"
      /\ trust'[p] = "sas" /\ trust'[q] = "handshaking"
  BY <1>1 DEF Connect, tasks, outcome, Moves, Types, SessionTypes
<1>3. /\ initiator'[p] /\ initiator'[q] = initiator[q]
      /\ can_send'[p] /\ can_send'[q] = can_send[q]
  BY <1>1 DEF Connect, Moves, Types, SessionTypes
<1>4. wire[p] = <<>> /\ wire'[q] = <<>> /\ wire'[p] = Append(<<>>, Finish)
  BY <1>1, <1>2 DEF Connect, Put, Waits, Agrees, Moves, Types, WireTypes
<1>5. /\ wire'[p] # <<>> /\ Len(wire'[p]) = 1 /\ wire'[p][1].kind = "finish"
  <2>1. <<>> \in Seq({Finish}) /\ Len(<<>>) = 0
    BY EmptySeq
  <2>2. /\ Append(<<>>, Finish) # <<>> /\ Len(Append(<<>>, Finish)) = 1
        /\ Append(<<>>, Finish)[1] = Finish
    BY <2>1, AppendProperties
  <2>3. QED  BY <1>4, <2>2 DEF Finish
<1>6. HasFinish(p)' /\ FinishOnly(p)' /\ ~HasFinish(q)' /\ FinishOnly(q)'
  <2>1. FinishOnly(p)' /\ HasFinish(p)'
    BY <1>5 DEF FinishOnly, HasFinish
  <2>2. QED  BY <1>1, <1>4, <2>1, EmptyWire
<1>7. ~can_send[q] /\ ~initiator[q] /\ hand[q] = 0
  BY <1>1, <1>2 DEF Waits, Agrees
<1>8. Agrees(p)'
  BY <1>1, <1>2, <1>3, <1>6, <1>7 DEF Waits, Agrees
<1>9. Agrees(q)'
  BY <1>1, <1>2, <1>3, <1>6, <1>7 DEF Waits, Agrees
<1>10. Unlocks(p)' /\ Unlocks(q)' /\ Sends(p)' /\ Sends(q)'
  BY <1>1, <1>2, <1>3 DEF Unlocks, Sends, OpenComes
<1>11. Releases(p)' /\ Releases(q)'
  BY <1>1, <1>2 DEF Waits, Releases
<1>12. QED  BY <1>1, <1>8, <1>9, <1>10, <1>11, OtherFacts DEF Waits

LEMMA StillMoves == ASSUME Moves, UNCHANGED vars  PROVE \A r \in Node : Waits(r)'
<1>1. UNCHANGED <<link, trust, initiator, can_send, pending, held, wire, hand, calling,
                  flush, stale>>
  BY DEF vars, session, tasks
<1>2. \A r \in Node : SameWire(r)
  BY <1>1, Untouched
<1>3. \A r \in Node : Agrees(r)' /\ (OpenComes(r)' <=> OpenComes(r))
  BY <1>1, <1>2, OtherFacts DEF Moves, Waits, Agrees, OpenComes, SameWire
<1>4. QED
  BY <1>1, <1>3 DEF Moves, Waits, Unlocks, Sends, Releases, Flushing

LEMMA MovesStep == ASSUME Moves, [Next]_vars  PROVE Moves'
<1>1. Types'
  BY TypesStep DEF Moves
<1>2. \A r \in Node : Waits(r)'
  BY SendMoves, EnqueueMoves, TakeMoves, FlushOneMoves, FlushEndMoves, TrustMoves,
     BootstrapMoves, ReleaseMoves, FinishMoves, OpenMoves, TextMoves, HoldMoves,
     LostMoves, ConnectionLostMoves, ConnectMoves, StillMoves
     DEF Next, Flush
<1>3. QED  BY <1>1, <1>2 DEF Moves

\* At rest nothing waits in a queue that could be sent or released, but for what
\* a task put there because of a state that had changed meanwhile.
THEOREM NothingStranded == Spec => []StrandedOnlyIfStale
<1>1. ASSUME Moves, AtRest, NEW p \in Node, ~stale[p]
      PROVE  pending[p] = <<>> /\ held[p] = <<>>
  <2> DEFINE q == Other(p)
  <2>1. q \in Node /\ Waits(p)
    BY <1>1, OtherFacts DEF Moves
  <2>2. /\ link = "up" /\ trust[p] = "trusted" /\ trust[q] = "trusted"
        /\ wire[q] = <<>> /\ calling[p] = "idle" /\ calling[q] = "idle"
        /\ flush[p]["reader"].stage = "none"
    BY <1>1, <2>1 DEF AtRest, ReaderIdle
  <2>3. flush[p]["caller"].stage = "none"
    BY <2>1, <2>2 DEF Waits, Agrees
  <2>4. ~Flushing(p)
    BY <2>2, <2>3 DEF Flushing
  <2>5. ~OpenComes(p)
    <3>1. Len(wire[q]) = 0
      BY <2>2, EmptySeq
    <3>2. QED  BY <2>2, <3>1 DEF OpenComes, HasOpen
  <2>6. QED  BY <1>1, <2>1, <2>2, <2>4, <2>5 DEF Waits, Sends, Releases
<1>2. Moves => StrandedOnlyIfStale
  BY <1>1 DEF StrandedOnlyIfStale
<1>3. QED  BY <1>2, MovesInit, MovesStep, PTL DEF Spec

-----------------------------------------------------------------------------
(* Copies of a text in a sequence *)

Hits(s, n) == {i \in DOMAIN s : s[i] = n}

LEMMA HitsFacts ==
  ASSUME NEW S, NEW s \in Seq(S), NEW n
  PROVE  /\ Hits(s, n) \in SUBSET (1 .. Len(s)) /\ Len(s) \in Nat
         /\ IsFiniteSet(Hits(s, n)) /\ Copies(s, n) \in Nat
         /\ Copies(s, n) = Cardinality(Hits(s, n))
<1>1. Len(s) \in Nat /\ DOMAIN s = 1 .. Len(s)
  BY LenProperties
<1>2. Hits(s, n) \in SUBSET (1 .. Len(s))
  BY <1>1 DEF Hits
<1>3. IsFiniteSet(1 .. Len(s))
  BY <1>1, FS_Interval
<1>4. IsFiniteSet(Hits(s, n))
  BY <1>2, <1>3, FS_Subset
<1>5. Cardinality(Hits(s, n)) \in Nat
  BY <1>4, FS_CardinalityType
<1>6. Copies(s, n) = Cardinality(Hits(s, n))
  BY DEF Copies, Hits
<1>7. QED  BY <1>1, <1>2, <1>4, <1>5, <1>6

LEMMA NoCopies == ASSUME NEW n  PROVE Copies(<<>>, n) = 0
<1>1. {i \in DOMAIN <<>> : <<>>[i] = n} = {}
  OBVIOUS
<1>2. QED  BY <1>1, FS_EmptySet DEF Copies

LEMMA SomeCopies ==
  ASSUME NEW S, NEW s \in Seq(S), NEW n
  PROVE  Copies(s, n) = 0 <=> \A i \in DOMAIN s : s[i] # n
<1>1. IsFiniteSet(Hits(s, n)) /\ Copies(s, n) = Cardinality(Hits(s, n))
  BY HitsFacts
<1>2. Copies(s, n) = 0 <=> Hits(s, n) = {}
  BY <1>1, FS_EmptySet
<1>3. QED  BY <1>2 DEF Hits

LEMMA CopiesAppend ==
  ASSUME NEW S, NEW s \in Seq(S), NEW x \in S, NEW n
  PROVE  Copies(Append(s, x), n) = Copies(s, n) + Once(x = n)
<1> DEFINE u == Append(s, x)
           k == Len(s) + 1
<1>1. /\ Len(s) \in Nat /\ u \in Seq(S) /\ Len(u) = k /\ u[k] = x
      /\ \A i \in 1 .. Len(s) : u[i] = s[i]
      /\ DOMAIN s = 1 .. Len(s) /\ DOMAIN u = 1 .. Len(u)
  BY AppendFacts, LenProperties
<1>2. /\ IsFiniteSet(Hits(s, n)) /\ Copies(s, n) = Cardinality(Hits(s, n))
      /\ Copies(s, n) \in Nat /\ Hits(s, n) \in SUBSET (1 .. Len(s))
      /\ Copies(u, n) = Cardinality(Hits(u, n))
  BY <1>1, HitsFacts
<1>3. \A i : i \in 1 .. k <=> i \in 1 .. Len(s) \/ i = k
  BY <1>1
<1> HIDE DEF u, k
<1>4. CASE x = n
  <2>1. Hits(u, n) = Hits(s, n) \cup {k}
    BY <1>1, <1>3, <1>4 DEF Hits
  <2>2. k \notin Hits(s, n)
    <3>1. k \notin 1 .. Len(s)  BY <1>1 DEF k
    <3>2. QED  BY <1>2, <3>1
  <2>3. Cardinality(Hits(u, n)) = Cardinality(Hits(s, n)) + 1
    BY <1>2, <2>1, <2>2, FS_AddElement
  <2>4. QED  BY <1>2, <1>4, <2>3 DEF u, Once
<1>5. CASE x # n
  <2>1. Hits(u, n) = Hits(s, n)
    BY <1>1, <1>3, <1>5 DEF Hits
  <2>2. QED  BY <1>2, <1>5, <2>1 DEF u, Once
<1>6. QED  BY <1>4, <1>5

\* The numbers of a set moved up by k are as many.
LEMMA Shifted ==
  ASSUME NEW k \in Int, NEW A \in SUBSET Int, NEW B \in SUBSET Int, IsFiniteSet(A),
         \A j \in Int : j \in B <=> j - k \in A
  PROVE  IsFiniteSet(B) /\ Cardinality(B) = Cardinality(A)
<1> DEFINE f == [i \in A |-> i + k]
<1>1. \A i \in A : f[i] \in B
  <2>1. \A i \in A : i \in Int /\ i + k \in Int /\ (i + k) - k = i
    OBVIOUS
  <2>2. QED  BY <2>1
<1>2. f \in [A -> B]
  BY <1>1
<1>3. \A i, j \in A : f[i] = f[j] => i = j
  <2>1. \A i, j \in A : i \in Int /\ j \in Int /\ (i + k = j + k => i = j)
    OBVIOUS
  <2>2. QED  BY <2>1
<1>4. \A b \in B : \E i \in A : f[i] = b
  <2>1. \A b \in B : b \in Int /\ b - k \in A /\ (b - k) + k = b
    OBVIOUS
  <2>2. QED  BY <2>1
<1>5. ExistsBijection(A, B)
  <2> HIDE DEF f
  <2>1. f \in Bijection(A, B)
    BY <1>2, <1>3, <1>4 DEF Bijection, Injection, Surjection, IsInjective
  <2>2. QED  BY <2>1 DEF ExistsBijection
<1>6. QED  BY <1>5, FS_Bijection

LEMMA CopiesConcat ==
  ASSUME NEW S, NEW s \in Seq(S), NEW t \in Seq(S), NEW n
  PROVE  Copies(s \o t, n) = Copies(s, n) + Copies(t, n)
<1> DEFINE u == s \o t
           k == Len(s)
           B == {j \in Hits(u, n) : j > k}
<1>1. /\ k \in Nat /\ Len(t) \in Nat /\ u \in Seq(S) /\ Len(u) = k + Len(t)
      /\ \A i \in 1 .. Len(u) : u[i] = IF i <= k THEN s[i] ELSE t[i - k]
      /\ DOMAIN s = 1 .. k /\ DOMAIN t = 1 .. Len(t) /\ DOMAIN u = 1 .. Len(u)
  BY ConcatProperties, LenProperties
<1>2. /\ IsFiniteSet(Hits(s, n)) /\ Copies(s, n) = Cardinality(Hits(s, n))
      /\ Copies(s, n) \in Nat /\ Hits(s, n) \in SUBSET (1 .. k)
      /\ IsFiniteSet(Hits(t, n)) /\ Copies(t, n) = Cardinality(Hits(t, n))
      /\ Copies(t, n) \in Nat /\ Hits(t, n) \in SUBSET (1 .. Len(t))
      /\ Copies(u, n) = Cardinality(Hits(u, n)) /\ Hits(u, n) \in SUBSET (1 .. Len(u))
  BY <1>1, HitsFacts
<1>3. \A j \in Int : j \in B <=> j - k \in Hits(t, n)
  <2> SUFFICES ASSUME NEW j \in Int  PROVE j \in B <=> j - k \in Hits(t, n)
    OBVIOUS
  <2>1. j \in 1 .. Len(u) /\ j > k <=> j - k \in 1 .. Len(t)
    BY <1>1
  <2>2. j \in 1 .. Len(u) /\ j > k => u[j] = t[j - k]
    BY <1>1
  <2> HIDE DEF u, k
  <2>3. QED  BY <1>1, <2>1, <2>2 DEF Hits
<1>4. IsFiniteSet(B) /\ Cardinality(B) = Cardinality(Hits(t, n))
  <2>1. B \in SUBSET Int /\ Hits(t, n) \in SUBSET Int
    BY <1>1, <1>2
  <2> HIDE DEF B, k, u
  <2>2. k \in Int  BY <1>1
  <2>3. QED  BY <1>2, <1>3, <2>1, <2>2, Shifted
<1>5. Hits(u, n) = Hits(s, n) \cup B
  <2>1. \A i \in 1 .. k : i \in 1 .. Len(u) /\ u[i] = s[i]
    BY <1>1
  <2>2. \A i \in 1 .. Len(u) : i > k \/ i \in 1 .. k
    BY <1>1
  <2> HIDE DEF u, k
  <2>3. QED  BY <1>1, <2>1, <2>2 DEF Hits
<1>6. Hits(s, n) \cap B = {}
  BY <1>1, <1>2
<1>7. Cardinality(Hits(u, n)) = Cardinality(Hits(s, n)) + Cardinality(B)
  <2> HIDE DEF B, u, k
  <2>1. /\ Cardinality(Hits(u, n))
             = Cardinality(Hits(s, n)) + Cardinality(B) - Cardinality(Hits(s, n) \cap B)
    BY <1>2, <1>4, <1>5, FS_Union
  <2>2. Cardinality(Hits(s, n) \cap B) = 0
    BY <1>6, FS_EmptySet
  <2>3. QED  BY <1>2, <1>4, <2>1, <2>2
<1>8. QED  BY <1>2, <1>4, <1>7

LEMMA CopiesOne == ASSUME NEW x, NEW n  PROVE Copies(<<x>>, n) = Once(x = n)
<1>1. DOMAIN <<x>> = {1} /\ <<x>>[1] = x
  OBVIOUS
<1>2. CASE x = n
  <2>1. {i \in DOMAIN <<x>> : <<x>>[i] = n} = {1}
    BY <1>1, <1>2
  <2>2. QED  BY <1>2, <2>1, FS_Singleton DEF Copies, Once
<1>3. CASE x # n
  <2>1. {i \in DOMAIN <<x>> : <<x>>[i] = n} = {}
    BY <1>1, <1>3
  <2>2. QED  BY <1>3, <2>1, FS_EmptySet DEF Copies, Once
<1>4. QED  BY <1>2, <1>3

LEMMA CopiesTail ==
  ASSUME NEW S, NEW s \in Seq(S), s # <<>>, NEW n
  PROVE  Copies(s, n) = Once(Head(s) = n) + Copies(Tail(s), n)
<1>1. Head(s) \in S /\ Tail(s) \in Seq(S) /\ <<Head(s)>> \in Seq(S) /\ <<>> \in Seq(S)
  BY TailFacts, EmptySeq
<1>2. s = <<Head(s)>> \o Tail(s)
  BY <1>1
<1>4. Copies(<<Head(s)>>, n) = Once(Head(s) = n)
  BY CopiesOne
<1>5. Copies(<<Head(s)>> \o Tail(s), n) = Copies(<<Head(s)>>, n) + Copies(Tail(s), n)
  BY <1>1, CopiesConcat
<1>6. QED  BY <1>2, <1>4, <1>5

-----------------------------------------------------------------------------
(* The places of a text of p, and their sum *)

Sending(p, n)    == Once(sending[p] = n)
Told(p, n)       == Once(n \in told[p])
Lost(p, n)       == Once(n \in lost[p])
Pending(p, n)    == Copies(pending[p], n)
OnWire(p, n)     == Copies(wire[p], Text(n))
Flushed(p, t, n) == Copies(flush[p][t].items, n) + Copies(flush[p][t].retry, n)
InHand(p, n)     == Once(hand[Other(p)] = n)
Held(p, n)       == Copies(held[Other(p)], n)
Seen(p, n)       == Copies(delivered[Other(p)], n)

Sum(p, n) == Sending(p, n) + Told(p, n) + Lost(p, n) + Pending(p, n) + OnWire(p, n)
               + Flushed(p, "reader", n) + Flushed(p, "caller", n)
               + InHand(p, n) + Held(p, n) + Seen(p, n)

\* A flush that is not sending has nothing of its own.
FlushIdle == \A p \in Node, t \in Task :
  flush[p][t].stage # "sending" => flush[p][t].items = <<>> /\ flush[p][t].retry = <<>>

\* A text is somewhere exactly when it was sent.
Counted == \A p \in Node : \A n \in Texts(p) : Sum(p, n) = Once(n <= sent[p])

Conserved == Moves /\ FlushIdle /\ Counted

LEMMA TaskFacts ==
  /\ "reader" \in Task /\ "caller" \in Task
  /\ \A t \in Task : t \in {"reader", "caller"}
  BY DEF Task

LEMMA OnceFacts == /\ \A b \in BOOLEAN : Once(b) \in {0, 1}
                   /\ Once(TRUE) = 1 /\ Once(FALSE) = 0
  BY DEF Once

LEMMA PartFacts ==
  ASSUME Types, NEW p \in Node, NEW n
  PROVE  /\ Sending(p, n) \in Nat /\ Told(p, n) \in Nat /\ Lost(p, n) \in Nat
         /\ Pending(p, n) \in Nat /\ OnWire(p, n) \in Nat
         /\ \A t \in Task : Flushed(p, t, n) \in Nat
         /\ InHand(p, n) \in Nat /\ Held(p, n) \in Nat /\ Seen(p, n) \in Nat
<1>1. Sending(p, n) \in Nat /\ Told(p, n) \in Nat /\ Lost(p, n) \in Nat /\ InHand(p, n) \in Nat
  BY DEF Sending, Told, Lost, InHand, Once
<1>2. /\ pending[p] \in Seq(Texts(p)) /\ wire[p] \in Seq(Frame(p))
      /\ held[Other(p)] \in Seq(Texts(p)) /\ delivered[Other(p)] \in Seq(Texts(p))
  BY OtherFacts DEF Types, PendingTypes, WireTypes, HeldTypes, SeenTypes
<1>3. Pending(p, n) \in Nat /\ OnWire(p, n) \in Nat /\ Held(p, n) \in Nat /\ Seen(p, n) \in Nat
  BY <1>2, HitsFacts DEF Pending, OnWire, Held, Seen
<1>4. ASSUME NEW t \in Task  PROVE Flushed(p, t, n) \in Nat
  <2>1. Copies(flush[p][t].items, n) \in Nat /\ Copies(flush[p][t].retry, n) \in Nat
    BY FlushParts, HitsFacts
  <2>2. QED  BY <2>1 DEF Flushed
<1>5. QED  BY <1>1, <1>3, <1>4

LEMMA SumIsPlaces ==
  ASSUME Types, NEW p \in Node, NEW n
  PROVE  Places(p, n) = Sum(p, n)
<1>1. \A t \in Task : Copies(flush[p][t].items \o flush[p][t].retry, n) = Flushed(p, t, n)
  BY FlushParts, CopiesConcat DEF Flushed
<1>2. QED
  BY <1>1, TaskFacts, PartFacts
     DEF Places, Sum, Sending, Told, Lost, Pending, OnWire, InHand, Held, Seen

\* Nothing that counts a text of p changes.
LEMMA Elsewhere ==
  ASSUME NEW p \in Node, NEW n,
         sending'[p] = sending[p], told'[p] = told[p], lost'[p] = lost[p],
         pending'[p] = pending[p], wire'[p] = wire[p],
         flush'[p]["reader"] = flush[p]["reader"], flush'[p]["caller"] = flush[p]["caller"],
         hand'[Other(p)] = hand[Other(p)], held'[Other(p)] = held[Other(p)],
         delivered'[Other(p)] = delivered[Other(p)]
  PROVE  Sum(p, n)' = Sum(p, n)
BY DEF Sum, Sending, Told, Lost, Pending, OnWire, Flushed, InHand, Held, Seen

\* A text that is in one place is in no other.
LEMMA OnlyThere ==
  ASSUME Conserved, NEW p \in Node, NEW n \in Texts(p)
  PROVE  /\ Sending(p, n) + Told(p, n) <= 1 /\ OnWire(p, n) + Lost(p, n) <= 1
         /\ InHand(p, n) + Lost(p, n) <= 1 /\ Held(p, n) + Lost(p, n) <= 1
         /\ \A t \in Task : Flushed(p, t, n) + Told(p, n) <= 1
         /\ Told(p, n) <= Once(n <= sent[p])
<1>1. Sum(p, n) <= 1 /\ Sum(p, n) = Once(n <= sent[p]) /\ Types
  BY DEF Conserved, Counted, Moves, Once
<1>2. QED  BY <1>1, PartFacts, TaskFacts DEF Sum

LEMMA TellCounts ==
  ASSUME Types, NEW p \in Node, NEW m \in Texts(p), Tell(p, m), Told(p, m) = 0, NEW n
  PROVE  Told(p, n)' = Told(p, n) + Once(m = n)
<1>1. told'[p] = told[p] \cup {m}
  BY DEF Tell, Types, EndTypes
<1>2. m \notin told[p]
  BY DEF Told, Once
<1>3. QED  BY <1>1, <1>2 DEF Told, Once

LEMMA PutCounts ==
  ASSUME Types, NEW p \in Node, NEW x \in Frame(p), Put(p, x), NEW n
  PROVE  /\ OnWire(p, n)' = OnWire(p, n) + Once(x = Text(n))
         /\ wire'[Other(p)] = wire[Other(p)]
<1>1. /\ wire'[p] = Append(wire[p], x) /\ wire[p] \in Seq(Frame(p))
      /\ wire'[Other(p)] = wire[Other(p)]
  BY OtherFacts DEF Put, Types, WireTypes
<1>2. QED  BY <1>1, CopiesAppend DEF OnWire

LEMMA TextFacts ==
  ASSUME NEW n
  PROVE  /\ Finish # Text(n) /\ Open # Text(n)
         /\ \A m : Text(m) = Text(n) <=> m = n
         /\ Text(n).kind = "text" /\ Text(n).n = n
<1>1. Text(n).kind = "text" /\ Text(n).n = n
  BY DEF Text
<1>2. Finish # Text(n) /\ Open # Text(n)
  BY <1>1 DEF Finish, Open
<1>3. ASSUME NEW m, Text(m) = Text(n)  PROVE m = n
  <2>1. Text(m).n = m  BY DEF Text
  <2>2. QED  BY <1>1, <1>3, <2>1
<1>4. QED  BY <1>1, <1>2, <1>3

-----------------------------------------------------------------------------
(* Every action moves a text from one place to another *)

\* A new text is on the wire, with send_message, or told.
LEMMA SendCounts ==
  ASSUME Conserved, NEW p \in Node, SendMessage(p)
  PROVE  \A r \in Node : \A n \in Texts(r) :
           Sum(r, n)' = Sum(r, n) + Once(r = p /\ n = sent[p] + 1)
<1> DEFINE m == sent[p] + 1
<1>1. /\ sent[p] \in Nat /\ m \in Texts(p) /\ sent'[p] = m /\ Types
      /\ UNCHANGED <<pending, held, hand, flush, lost, delivered>>
  BY Bounds DEF SendMessage, Conserved, Moves, Types, TextTypes, Texts
<1>2. ASSUME NEW n \in Texts(p)  PROVE Sum(p, n)' = Sum(p, n) + Once(n = m)
  <2>1. /\ Told(p, m) = 0 /\ sending[p] = 0 /\ n # 0
        /\ Once(m = n) = Once(n = m)
    <3>1. ~(m <= sent[p])
      BY <1>1
    <3>2. Told(p, m) <= Once(m <= sent[p]) /\ Told(p, m) \in Nat
      BY <1>1, OnlyThere, PartFacts
    <3>3. Told(p, m) = 0
      BY <3>1, <3>2 DEF Once
    <3>4. n # 0
      BY DEF Texts
    <3>5. sending[p] = 0
      BY DEF SendMessage
    <3>6. Once(m = n) = Once(n = m)
      BY DEF Once
    <3>7. QED  BY <3>3, <3>4, <3>5, <3>6
  <2>2. CASE Put(p, Text(m)) /\ UNCHANGED <<sending, told>>
    <3>1. OnWire(p, n)' = OnWire(p, n) + Once(Text(m) = Text(n))
      BY <1>1, <2>2, FrameFacts, PutCounts
    <3>2. OnWire(p, n)' = OnWire(p, n) + Once(n = m)
      BY <2>1, <3>1, TextFacts DEF Once
    <3>3. Once(n = m) \in Nat
      BY DEF Once
    <3>4. /\ Sending(p, n)' = Sending(p, n) /\ Told(p, n)' = Told(p, n)
          /\ Lost(p, n)' = Lost(p, n) /\ Pending(p, n)' = Pending(p, n)
          /\ \A t \in Task : Flushed(p, t, n)' = Flushed(p, t, n)
          /\ InHand(p, n)' = InHand(p, n) /\ Held(p, n)' = Held(p, n)
          /\ Seen(p, n)' = Seen(p, n)
      BY <1>1, <2>2 DEF Sending, Told, Lost, Pending, Flushed, InHand, Held, Seen
    <3>5. QED  BY <1>1, <3>2, <3>3, <3>4, PartFacts, TaskFacts DEF Sum
  <2>3. CASE sending' = [sending EXCEPT ![p] = m] /\ UNCHANGED <<wire, told>>
    <3>1. sending'[p] = m
      BY <1>1, <2>3 DEF Types, TextTypes
    <3>2. Sending(p, n)' = Sending(p, n) + Once(n = m)
      BY <2>1, <3>1 DEF Sending, Once
    <3>3. Once(n = m) \in Nat
      BY DEF Once
    <3>4. /\ OnWire(p, n)' = OnWire(p, n) /\ Told(p, n)' = Told(p, n)
          /\ Lost(p, n)' = Lost(p, n) /\ Pending(p, n)' = Pending(p, n)
          /\ \A t \in Task : Flushed(p, t, n)' = Flushed(p, t, n)
          /\ InHand(p, n)' = InHand(p, n) /\ Held(p, n)' = Held(p, n)
          /\ Seen(p, n)' = Seen(p, n)
      BY <1>1, <2>3 DEF OnWire, Told, Lost, Pending, Flushed, InHand, Held, Seen
    <3>5. QED  BY <1>1, <3>2, <3>3, <3>4, PartFacts, TaskFacts DEF Sum
  <2>4. CASE Tell(p, m) /\ UNCHANGED <<wire, sending>>
    <3>1. Told(p, n)' = Told(p, n) + Once(n = m)
      BY <1>1, <2>1, <2>4, TellCounts
    <3>2. Once(n = m) \in Nat
      BY DEF Once
    <3>3. /\ OnWire(p, n)' = OnWire(p, n) /\ Sending(p, n)' = Sending(p, n)
          /\ Lost(p, n)' = Lost(p, n) /\ Pending(p, n)' = Pending(p, n)
          /\ \A t \in Task : Flushed(p, t, n)' = Flushed(p, t, n)
          /\ InHand(p, n)' = InHand(p, n) /\ Held(p, n)' = Held(p, n)
          /\ Seen(p, n)' = Seen(p, n)
      BY <1>1, <2>4 DEF OnWire, Sending, Lost, Pending, Flushed, InHand, Held, Seen
    <3>4. QED  BY <1>1, <3>1, <3>2, <3>3, PartFacts, TaskFacts DEF Sum
  <2>5. QED  BY <1>1, <2>2, <2>3, <2>4 DEF SendMessage
<1>3. ASSUME NEW r \in Node, r # p, NEW n  PROVE Sum(r, n)' = Sum(r, n)
  <2>1. sending'[r] = sending[r] /\ told'[r] = told[r] /\ wire'[r] = wire[r]
    BY <1>1, <1>3 DEF SendMessage, Put, Tell, Types, WireTypes, TextTypes, EndTypes
  <2>2. QED  BY <1>1, <2>1, Elsewhere
<1>4. QED
  <2> SUFFICES ASSUME NEW r \in Node, NEW n \in Texts(r)
               PROVE  Sum(r, n)' = Sum(r, n) + Once(r = p /\ n = m)
    OBVIOUS
  <2>1. CASE r = p
    BY <1>2, <2>1 DEF Once
  <2>2. CASE r # p
    <3>1. Sum(r, n) \in Nat
      BY <1>1, PartFacts, TaskFacts DEF Sum
    <3>2. Once(r = p /\ n = m) = 0
      BY <2>2 DEF Once
    <3>3. QED  BY <1>3, <2>2, <3>1, <3>2
  <2>3. QED  BY <2>1, <2>2

\* The text waits in the queue or was told.
LEMMA EnqueueCounts ==
  ASSUME Conserved, NEW p \in Node, Enqueue(p)
  PROVE  \A r \in Node : \A n \in Texts(r) : Sum(r, n)' = Sum(r, n)
<1> DEFINE m == sending[p]
<1>1. /\ m \in Texts(p) /\ sending'[p] = 0 /\ Types
      /\ UNCHANGED <<wire, held, hand, flush, lost, delivered>>
  BY Bounds DEF Enqueue, Conserved, Moves, Types, TextTypes, Texts
<1>2. ASSUME NEW n \in Texts(p)  PROVE Sum(p, n)' = Sum(p, n)
  <2>1. /\ Sending(p, n) = Sending(p, n)' + Once(m = n)
        /\ Sending(p, n)' = 0 /\ Once(m = n) \in Nat
    <3>1. n # 0
      BY DEF Texts
    <3>2. QED  BY <1>1, <3>1 DEF Sending, Once
  <2>2. /\ OnWire(p, n)' = OnWire(p, n) /\ Lost(p, n)' = Lost(p, n)
        /\ \A t \in Task : Flushed(p, t, n)' = Flushed(p, t, n)
        /\ InHand(p, n)' = InHand(p, n) /\ Held(p, n)' = Held(p, n)
        /\ Seen(p, n)' = Seen(p, n)
    BY <1>1 DEF OnWire, Lost, Flushed, InHand, Held, Seen
  <2>3. CASE pending' = [pending EXCEPT ![p] = Append(@, m)] /\ told' = told
    <3>1. pending'[p] = Append(pending[p], m) /\ pending[p] \in Seq(Texts(p))
      BY <1>1, <2>3 DEF Types, PendingTypes
    <3>2. Pending(p, n)' = Pending(p, n) + Once(m = n)
      BY <1>1, <3>1, CopiesAppend DEF Pending
    <3>3. Told(p, n)' = Told(p, n)
      BY <2>3 DEF Told
    <3>4. QED  BY <1>1, <2>1, <2>2, <3>2, <3>3, PartFacts, TaskFacts DEF Sum
  <2>4. CASE Tell(p, m) /\ pending' = pending
    <3>1. Told(p, m) = 0
      <4>1. Sending(p, m) = 1
        BY DEF Sending, Once
      <4>2. Sending(p, m) + Told(p, m) <= 1 /\ Told(p, m) \in Nat
        BY <1>1, OnlyThere, PartFacts
      <4>3. QED  BY <4>1, <4>2
    <3>2. Told(p, n)' = Told(p, n) + Once(m = n)
      BY <1>1, <2>4, <3>1, TellCounts
    <3>3. Pending(p, n)' = Pending(p, n)
      BY <2>4 DEF Pending
    <3>4. QED  BY <1>1, <2>1, <2>2, <3>2, <3>3, PartFacts, TaskFacts DEF Sum
  <2>5. QED  BY <2>3, <2>4 DEF Enqueue
<1>3. ASSUME NEW r \in Node, r # p, NEW n  PROVE Sum(r, n)' = Sum(r, n)
  <2>1. sending'[r] = sending[r] /\ told'[r] = told[r] /\ pending'[r] = pending[r]
    BY <1>1, <1>3 DEF Enqueue, Tell, Types, PendingTypes, TextTypes, EndTypes
  <2>2. QED  BY <1>1, <2>1, Elsewhere
<1>4. QED  BY <1>2, <1>3

\* The queue becomes what the flush has to send.
LEMMA TakeCounts ==
  ASSUME Conserved, NEW p \in Node, NEW t \in Task, TakePending(p, t)
  PROVE  \A r \in Node : \A n \in Texts(r) : Sum(r, n)' = Sum(r, n)
<1>1. Types /\ UNCHANGED <<sending, told, lost, wire, held, hand, delivered>>
  BY DEF TakePending, Conserved, Moves, outcome
<1>2. /\ flush[p][t].items = <<>> /\ flush[p][t].retry = <<>>
      /\ flush'[p][t].items = pending[p] /\ flush'[p][t].retry = <<>>
      /\ \A r \in Node, u \in Task : r # p \/ u # t => flush'[r][u] = flush[r][u]
  <2>1. flush[p][t].stage # "sending"
    BY DEF TakePending
  <2>2. /\ [NoFlush EXCEPT !.stage = "sending", !.items = pending[p]] \in Flushes(p)
        /\ [NoFlush EXCEPT !.stage = "sending", !.items = pending[p]].items = pending[p]
        /\ [NoFlush EXCEPT !.stage = "sending", !.items = pending[p]].retry = <<>>
    BY <1>1, EmptySeq DEF Types, PendingTypes, NoFlush, Flushes
  <2>3. PICK g \in Flushes(p) : g.items = pending[p] /\ g.retry = <<>> /\ SetFlush(p, t, g)
    BY <2>2 DEF TakePending
  <2>4. /\ flush'[p][t] = g
        /\ \A r \in Node, u \in Task : r # p \/ u # t => flush'[r][u] = flush[r][u]
    BY <1>1, <2>3, StageFacts
  <2>5. QED  BY <2>1, <2>3, <2>4 DEF Conserved, FlushIdle
<1>3. pending'[p] = <<>> /\ \A r \in Node : r # p => pending'[r] = pending[r]
  BY <1>1 DEF TakePending, Types, PendingTypes
<1>4. ASSUME NEW n  PROVE Sum(p, n)' = Sum(p, n)
  <2>1. /\ Pending(p, n)' = 0 /\ Flushed(p, t, n) = 0
        /\ Flushed(p, t, n)' = Pending(p, n)
    <3>1. Pending(p, n) \in Nat
      BY <1>1, PartFacts
    <3>2. QED  BY <1>2, <1>3, <3>1, NoCopies DEF Pending, Flushed
  <2>2. \A u \in Task : u # t => Flushed(p, u, n)' = Flushed(p, u, n)
    BY <1>2 DEF Flushed
  <2>3. /\ Sending(p, n)' = Sending(p, n) /\ Told(p, n)' = Told(p, n)
        /\ OnWire(p, n)' = OnWire(p, n) /\ Lost(p, n)' = Lost(p, n)
        /\ InHand(p, n)' = InHand(p, n) /\ Held(p, n)' = Held(p, n)
        /\ Seen(p, n)' = Seen(p, n)
    BY <1>1 DEF Sending, Told, OnWire, Lost, InHand, Held, Seen
  <2>4. QED  BY <1>1, <2>1, <2>2, <2>3, PartFacts, TaskFacts DEF Sum
<1>5. ASSUME NEW r \in Node, r # p, NEW n  PROVE Sum(r, n)' = Sum(r, n)
  BY <1>1, <1>2, <1>3, <1>5, TaskFacts, Elsewhere
<1>6. QED  BY <1>4, <1>5

\* The head of what a flush has to send is on the wire, kept, or told.
LEMMA FlushOneCounts ==
  ASSUME Conserved, NEW p \in Node, NEW t \in Task, FlushOne(p, t)
  PROVE  \A r \in Node : \A n \in Texts(r) : Sum(r, n)' = Sum(r, n)
<1> DEFINE f == flush[p][t]
           m == Head(f.items)
           rest == [f EXCEPT !.items = Tail(@)]
<1>1. Types /\ UNCHANGED <<sending, lost, pending, held, hand, delivered>>
  BY DEF FlushOne, Conserved, Moves
<1>2. /\ f \in Flushes(p) /\ f.items \in Seq(Texts(p)) /\ f.retry \in Seq(Texts(p))
      /\ f.items # <<>>
  BY <1>1, FlushParts DEF FlushOne
<1>3. m \in Texts(p) /\ Tail(f.items) \in Seq(Texts(p))
  BY <1>2, TailFacts
<1>4. \A n : /\ Copies(f.items, n) = Once(m = n) + Copies(Tail(f.items), n)
             /\ Copies(f.retry, n) \in Nat /\ Copies(Tail(f.items), n) \in Nat
             /\ Once(m = n) \in Nat
  <2>1. \A n : Copies(f.items, n) = Once(m = n) + Copies(Tail(f.items), n)
    BY <1>2, CopiesTail
  <2>2. \A n : Copies(f.retry, n) \in Nat /\ Copies(Tail(f.items), n) \in Nat
    BY <1>2, <1>3, HitsFacts
  <2>3. QED  BY <2>1, <2>2 DEF Once
<1>5. /\ rest \in Flushes(p) /\ rest.items = Tail(f.items) /\ rest.retry = f.retry
      /\ [rest EXCEPT !.retry = Kept(f)] \in Flushes(p)
      /\ [rest EXCEPT !.retry = Kept(f)].items = Tail(f.items)
      /\ [rest EXCEPT !.retry = Kept(f)].retry = Append(f.retry, m)
  <2>1. Kept(f) \in Seq(Texts(p)) /\ Kept(f) = Append(f.retry, m)
    BY <1>2, <1>3, AppendFacts DEF Kept
  <2>2. QED  BY <1>2, <1>3, <2>1 DEF Flushes
<1>6. \/ /\ Put(p, Text(m)) /\ SetFlush(p, t, rest) /\ told' = told
      \/ /\ SetFlush(p, t, [rest EXCEPT !.retry = Kept(f)])
         /\ UNCHANGED <<wire, told>>
      \/ /\ Tell(p, m) /\ SetFlush(p, t, rest) /\ wire' = wire
  BY DEF FlushOne
<1>7. PICK g \in Flushes(p) :
        /\ SetFlush(p, t, g) /\ g.items = Tail(f.items)
        /\ \/ Put(p, Text(m)) /\ g.retry = f.retry /\ told' = told
           \/ g.retry = Append(f.retry, m) /\ UNCHANGED <<wire, told>>
           \/ Tell(p, m) /\ g.retry = f.retry /\ wire' = wire
  <2> HIDE DEF f, m, rest
  <2>1. QED  BY <1>5, <1>6
<1>8. /\ flush'[p][t] = g
      /\ \A r \in Node, u \in Task : r # p \/ u # t => flush'[r][u] = flush[r][u]
  BY <1>1, <1>7, StageFacts
<1>9. ASSUME NEW n \in Texts(p)  PROVE Sum(p, n)' = Sum(p, n)
  <2>1. \A u \in Task : u # t => Flushed(p, u, n)' = Flushed(p, u, n)
    BY <1>8 DEF Flushed
  <2>2. /\ Sending(p, n)' = Sending(p, n) /\ Lost(p, n)' = Lost(p, n)
        /\ Pending(p, n)' = Pending(p, n)
        /\ InHand(p, n)' = InHand(p, n) /\ Held(p, n)' = Held(p, n)
        /\ Seen(p, n)' = Seen(p, n)
    BY <1>1 DEF Sending, Lost, Pending, InHand, Held, Seen
  <2>3. Flushed(p, t, n) = Once(m = n) + Copies(Tail(f.items), n) + Copies(f.retry, n)
    BY <1>4 DEF Flushed
  <2>4. Flushed(p, t, n)' = Copies(Tail(f.items), n) + Copies(g.retry, n)
    BY <1>7, <1>8 DEF Flushed
  <2>5. CASE Put(p, Text(m)) /\ g.retry = f.retry /\ told' = told
    <3>1. OnWire(p, n)' = OnWire(p, n) + Once(Text(m) = Text(n))
      BY <1>1, <1>3, <2>5, FrameFacts, PutCounts
    <3>2. OnWire(p, n)' = OnWire(p, n) + Once(m = n)
      BY <3>1, TextFacts DEF Once
    <3>3. Told(p, n)' = Told(p, n)
      BY <2>5 DEF Told
    <3> HIDE DEF f, m, rest
    <3>4. QED
      BY <1>1, <1>4, <2>1, <2>2, <2>3, <2>4, <2>5, <3>2, <3>3, PartFacts, TaskFacts DEF Sum
  <2>6. CASE g.retry = Append(f.retry, m) /\ UNCHANGED <<wire, told>>
    <3>1. Copies(g.retry, n) = Copies(f.retry, n) + Once(m = n)
      BY <1>2, <1>3, <2>6, CopiesAppend
    <3>2. OnWire(p, n)' = OnWire(p, n) /\ Told(p, n)' = Told(p, n)
      BY <2>6 DEF OnWire, Told
    <3> HIDE DEF f, m, rest
    <3>3. QED
      BY <1>1, <1>4, <2>1, <2>2, <2>3, <2>4, <3>1, <3>2, PartFacts, TaskFacts DEF Sum
  <2>7. CASE Tell(p, m) /\ g.retry = f.retry /\ wire' = wire
    <3>1. Told(p, m) = 0
      <4>1. Flushed(p, t, m) >= 1
        <5>1. Once(m = m) = 1
          BY DEF Once
        <5>2. Flushed(p, t, m) = Once(m = m) + Copies(Tail(f.items), m) + Copies(f.retry, m)
          BY <1>4 DEF Flushed
        <5> HIDE DEF f, m
        <5>3. QED  BY <1>4, <5>1, <5>2
      <4>2. Flushed(p, t, m) + Told(p, m) <= 1 /\ Told(p, m) \in Nat /\ Flushed(p, t, m) \in Nat
        BY <1>1, <1>3, OnlyThere, PartFacts
      <4> HIDE DEF f, m
      <4>3. QED  BY <4>1, <4>2
    <3>2. Told(p, n)' = Told(p, n) + Once(m = n)
      BY <1>1, <1>3, <2>7, <3>1, TellCounts
    <3>3. OnWire(p, n)' = OnWire(p, n)
      BY <2>7 DEF OnWire
    <3> HIDE DEF f, m, rest
    <3>4. QED
      BY <1>1, <1>4, <2>1, <2>2, <2>3, <2>4, <2>7, <3>2, <3>3, PartFacts, TaskFacts DEF Sum
  <2>8. QED  BY <1>7, <2>5, <2>6, <2>7
<1>10. ASSUME NEW r \in Node, r # p, NEW n  PROVE Sum(r, n)' = Sum(r, n)
  <2>1. told'[r] = told[r] /\ wire'[r] = wire[r]
    <3> HIDE DEF f, m, rest
    <3>1. QED  BY <1>1, <1>7, <1>10 DEF Put, Tell, Types, WireTypes, EndTypes
  <2>2. QED  BY <1>1, <1>8, <1>10, <2>1, TaskFacts, Elsewhere
<1>11. QED  BY <1>9, <1>10

\* What is to be sent again is in the queue again.
LEMMA FlushEndCounts ==
  ASSUME Conserved, NEW p \in Node, NEW t \in Task, FlushEnd(p, t)
  PROVE  \A r \in Node : \A n \in Texts(r) : Sum(r, n)' = Sum(r, n)
<1> DEFINE f == flush[p][t]
<1>1. Types /\ UNCHANGED <<sending, told, lost, wire, held, hand, delivered>>
  BY DEF FlushEnd, Conserved, Moves, outcome
<1>2. f.items = <<>> /\ f.retry \in Seq(Texts(p))
  BY <1>1, FlushParts DEF FlushEnd
<1>3. /\ flush'[p][t] = NoFlush
      /\ \A r \in Node, u \in Task : r # p \/ u # t => flush'[r][u] = flush[r][u]
  BY <1>1, FlushParts, StageFacts DEF FlushEnd
<1>4. /\ pending'[p] = f.retry \o pending[p] /\ pending[p] \in Seq(Texts(p))
      /\ \A r \in Node : r # p => pending'[r] = pending[r]
  BY <1>1 DEF FlushEnd, Types, PendingTypes
<1>5. ASSUME NEW n  PROVE Sum(p, n)' = Sum(p, n)
  <2>1. Pending(p, n)' = Copies(f.retry, n) + Pending(p, n)
    <3>1. Copies(f.retry \o pending[p], n) = Copies(f.retry, n) + Copies(pending[p], n)
      BY <1>2, <1>4, CopiesConcat
    <3>2. QED  BY <1>4, <3>1 DEF Pending
  <2>2. Flushed(p, t, n) = Copies(f.retry, n) /\ Flushed(p, t, n)' = 0
        /\ Copies(f.retry, n) \in Nat
    <3>1. Copies(f.retry, n) \in Nat
      BY <1>2, HitsFacts
    <3>2. Flushed(p, t, n) = Copies(f.retry, n)
      BY <1>2, <3>1, NoCopies DEF Flushed
    <3>3. Flushed(p, t, n)' = 0
      BY <1>3, NoCopies DEF Flushed, NoFlush
    <3>4. QED  BY <3>1, <3>2, <3>3
  <2>3. \A u \in Task : u # t => Flushed(p, u, n)' = Flushed(p, u, n)
    BY <1>3 DEF Flushed
  <2>4. /\ Sending(p, n)' = Sending(p, n) /\ Told(p, n)' = Told(p, n)
        /\ OnWire(p, n)' = OnWire(p, n) /\ Lost(p, n)' = Lost(p, n)
        /\ InHand(p, n)' = InHand(p, n) /\ Held(p, n)' = Held(p, n)
        /\ Seen(p, n)' = Seen(p, n)
    BY <1>1 DEF Sending, Told, OnWire, Lost, InHand, Held, Seen
  <2> HIDE DEF f
  <2>5. QED  BY <1>1, <2>1, <2>2, <2>3, <2>4, PartFacts, TaskFacts DEF Sum
<1>6. ASSUME NEW r \in Node, r # p, NEW n  PROVE Sum(r, n)' = Sum(r, n)
  BY <1>1, <1>3, <1>4, <1>6, TaskFacts, Elsewhere
<1>7. QED  BY <1>5, <1>6

\* A flush that starts takes nothing yet.
LEMMA StartCounts ==
  ASSUME Conserved, NEW p \in Node, NEW t \in Task, SetFlush(p, t, Taking),
         flush[p][t].stage # "sending"
  PROVE  \A r \in Node, u \in Task : \A n : Flushed(r, u, n)' = Flushed(r, u, n)
<1>1. flush[p][t].items = <<>> /\ flush[p][t].retry = <<>> /\ Types
  BY DEF Conserved, FlushIdle, Moves
<1>2. Taking \in Flushes(p) /\ Taking.items = <<>> /\ Taking.retry = <<>>
  BY <1>1, FlushParts DEF Taking, NoFlush
<1>3. /\ flush'[p][t] = Taking
      /\ \A r \in Node, u \in Task : r # p \/ u # t => flush'[r][u] = flush[r][u]
  BY <1>1, <1>2, StageFacts
<1>4. SUFFICES ASSUME NEW r \in Node, NEW u \in Task, NEW n
               PROVE  Flushed(r, u, n)' = Flushed(r, u, n)
  OBVIOUS
<1>5. CASE r = p /\ u = t
  BY <1>1, <1>2, <1>3, <1>5 DEF Flushed
<1>6. CASE r # p \/ u # t
  BY <1>3, <1>6 DEF Flushed
<1>7. QED  BY <1>5, <1>6

\* A frame that is no text is taken from the wire.
LEMMA ReadCounts ==
  ASSUME Types, NEW p \in Node, NEW kind, kind # "text", Reads(p, kind), Consume(p)
  PROVE  \A r \in Node : \A n : OnWire(r, n)' = OnWire(r, n)
<1> DEFINE q == Other(p)
<1>1. /\ q \in Node /\ wire[q] \in Seq(Frame(q)) /\ wire[q] # <<>>
      /\ wire'[q] = Tail(wire[q]) /\ Head(wire[q]).kind = kind
      /\ \A r \in Node : r # q => wire'[r] = wire[r]
  BY OtherFacts DEF Reads, Consume, Types, WireTypes
<1>2. ASSUME NEW n  PROVE OnWire(q, n)' = OnWire(q, n)
  <2>1. Head(wire[q]) # Text(n)
    BY <1>1, TextFacts
  <2>2. Copies(wire[q], Text(n)) = Once(Head(wire[q]) = Text(n)) + Copies(Tail(wire[q]), Text(n))
    BY <1>1, CopiesTail
  <2>3. Tail(wire[q]) \in Seq(Frame(q))
    BY <1>1, TailFacts
  <2>4. Copies(Tail(wire[q]), Text(n)) \in Nat
    BY <2>3, HitsFacts
  <2>5. Copies(wire[q], Text(n)) = Copies(Tail(wire[q]), Text(n))
    BY <2>1, <2>2, <2>4 DEF Once
  <2>6. QED  BY <1>1, <2>5 DEF OnWire
<1>3. \A r \in Node : r # q => \A n : OnWire(r, n)' = OnWire(r, n)
  BY <1>1 DEF OnWire
<1>4. QED  BY <1>2, <1>3

\* The caller counts nothing but what ratchet_open and a release move.
LEMMA CallerCounts ==
  ASSUME Conserved, NEW p \in Node,
         \/ ConfirmPeerTrusted(p) \/ MaybeAutoTrust(p) \/ AddTrustedKey(p)
         \/ SendRatchetBootstrap(p) \/ ConnectAgain(p)
  PROVE  \A r \in Node : \A n \in Texts(r) : Sum(r, n)' = Sum(r, n)
<1>1. /\ Types /\ UNCHANGED <<sending, told, lost, pending, hand, held, delivered>>
  BY DEF ConfirmPeerTrusted, MaybeAutoTrust, Trust, AddTrustedKey, SendRatchetBootstrap,
         ConnectAgain, Conserved, Moves, outcome
<1>2. \A r \in Node : \A n : OnWire(r, n)' = OnWire(r, n)
  <2>1. CASE wire' = wire
    BY <2>1 DEF OnWire
  <2>2. CASE Put(p, Open)
    <3>1. ASSUME NEW n  PROVE OnWire(p, n)' = OnWire(p, n)
      <4>1. OnWire(p, n)' = OnWire(p, n) + Once(Open = Text(n))
        BY <1>1, <2>2, FrameFacts, PutCounts
      <4>2. Once(Open = Text(n)) = 0 /\ OnWire(p, n) \in Nat
        BY <1>1, TextFacts, PartFacts DEF Once
      <4>3. QED  BY <4>1, <4>2
    <3>2. \A r \in Node : r # p => wire'[r] = wire[r]
      BY <1>1, <2>2 DEF Put, Types, WireTypes
    <3>3. QED  BY <3>1, <3>2 DEF OnWire
  <2>3. QED
    BY <2>1, <2>2 DEF ConfirmPeerTrusted, MaybeAutoTrust, Trust, AddTrustedKey,
                      SendRatchetBootstrap, ConnectAgain
<1>3. \A r \in Node, u \in Task : \A n : Flushed(r, u, n)' = Flushed(r, u, n)
  <2>1. CASE flush' = flush
    BY <2>1 DEF Flushed
  <2>2. CASE ConnectAgain(p)
    <3>1. flush[p]["caller"].stage = "none" /\ SetFlush(p, "caller", Taking)
      <4>1. calling[p] = "idle" /\ SetFlush(p, "caller", Taking)
        BY <2>2 DEF ConnectAgain
      <4>2. Agrees(p)
        BY DEF Conserved, Moves, Waits
      <4>3. QED  BY <4>1, <4>2 DEF Agrees
    <3>2. QED  BY <3>1, TaskFacts, StartCounts
  <2>3. QED
    BY <2>1, <2>2 DEF ConfirmPeerTrusted, MaybeAutoTrust, Trust, AddTrustedKey,
                      SendRatchetBootstrap
<1>4. QED
  BY <1>1, <1>2, <1>3, TaskFacts
     DEF Sum, Sending, Told, Lost, Pending, InHand, Held, Seen

\* What was held is seen.
LEMMA ReleaseCounts ==
  ASSUME Conserved, NEW p \in Node, ReleaseHeldInbound(p)
  PROVE  \A r \in Node : \A n \in Texts(r) : Sum(r, n)' = Sum(r, n)
<1> DEFINE q == Other(p)
<1>1. /\ Types /\ UNCHANGED <<sending, told, lost, pending, wire, hand>>
      /\ q \in Node /\ Other(q) = p
  BY OtherFacts DEF ReleaseHeldInbound, Conserved, Moves
<1>2. /\ held'[p] = <<>> /\ delivered'[p] = delivered[p] \o held[p]
      /\ \A r \in Node : r # p => held'[r] = held[r] /\ delivered'[r] = delivered[r]
      /\ held[p] \in Seq(Texts(q)) /\ delivered[p] \in Seq(Texts(q))
  BY <1>1 DEF ReleaseHeldInbound, Types, HeldTypes, SeenTypes
<1>3. \A r \in Node, u \in Task : \A n : Flushed(r, u, n)' = Flushed(r, u, n)
  <2>1. calling[p] = "release" /\ SetFlush(p, "caller", Taking)
    BY DEF ReleaseHeldInbound
  <2>2. Agrees(p)
    BY DEF Conserved, Moves, Waits
  <2>3. flush[p]["caller"].stage = "none"
    BY <2>1, <2>2, TaskFacts, FlushParts DEF Agrees, Flushes, Conserved, Moves
  <2>4. QED  BY <2>1, <2>3, TaskFacts, StartCounts
<1>4. ASSUME NEW r \in Node, NEW n
      PROVE  Held(r, n)' + Seen(r, n)' = Held(r, n) + Seen(r, n)
             /\ Held(r, n)' \in Nat /\ Seen(r, n)' \in Nat
  <2>1. CASE r = q
    <3>1. Copies(delivered[p] \o held[p], n) = Copies(delivered[p], n) + Copies(held[p], n)
      BY <1>2, CopiesConcat
    <3>2. Held(q, n) \in Nat /\ Seen(q, n) \in Nat
      BY <1>1, PartFacts
    <3>3. Seen(q, n)' = Seen(q, n) + Held(q, n) /\ Held(q, n)' = 0
      BY <1>1, <1>2, <3>1, NoCopies DEF Seen, Held
    <3> HIDE DEF q
    <3>4. QED  BY <2>1, <3>2, <3>3
  <2>2. CASE r # q
    <3>1. Other(r) \in Node /\ Other(r) # p
      BY <1>1, <2>2, OtherFacts
    <3>2. Held(r, n)' = Held(r, n) /\ Seen(r, n)' = Seen(r, n)
      BY <1>2, <3>1 DEF Held, Seen
    <3>3. QED  BY <1>1, <3>2, PartFacts
  <2>3. QED  BY <2>1, <2>2
<1>5. ASSUME NEW r \in Node, NEW n  PROVE Sum(r, n)' = Sum(r, n)
  <2>1. /\ Sending(r, n)' = Sending(r, n) /\ Told(r, n)' = Told(r, n)
        /\ OnWire(r, n)' = OnWire(r, n) /\ Lost(r, n)' = Lost(r, n)
        /\ Pending(r, n)' = Pending(r, n) /\ InHand(r, n)' = InHand(r, n)
    BY <1>1 DEF Sending, Told, OnWire, Lost, Pending, InHand
  <2>2. /\ Flushed(r, "reader", n)' = Flushed(r, "reader", n)
        /\ Flushed(r, "caller", n)' = Flushed(r, "caller", n)
    BY <1>3, TaskFacts
  <2>3. /\ Held(r, n)' + Seen(r, n)' = Held(r, n) + Seen(r, n)
        /\ Held(r, n)' \in Nat /\ Seen(r, n)' \in Nat
    BY <1>4
  <2>4. /\ Sending(r, n) \in Nat /\ Told(r, n) \in Nat /\ Lost(r, n) \in Nat
        /\ Pending(r, n) \in Nat /\ OnWire(r, n) \in Nat /\ InHand(r, n) \in Nat
        /\ Flushed(r, "reader", n) \in Nat /\ Flushed(r, "caller", n) \in Nat
        /\ Held(r, n) \in Nat /\ Seen(r, n) \in Nat
    BY <1>1, PartFacts, TaskFacts
  <2> HIDE DEF q
  <2>5. QED  BY <2>1, <2>2, <2>3, <2>4 DEF Sum
<1>6. QED  BY <1>5

\* Step 3 of the handshake and ratchet_open count no text.
LEMMA FrameCounts ==
  ASSUME Conserved, NEW p \in Node, ReceiveFinish(p) \/ ReceiveOpen(p)
  PROVE  \A r \in Node : \A n \in Texts(r) : Sum(r, n)' = Sum(r, n)
<1>1. /\ Types /\ UNCHANGED <<sending, told, lost, pending, hand, held, delivered>>
  BY DEF ReceiveFinish, ReceiveOpen, Conserved, Moves, outcome, tasks
<1>2. \A r \in Node : \A n : OnWire(r, n)' = OnWire(r, n)
  BY <1>1, ReadCounts DEF ReceiveFinish, ReceiveOpen
<1>3. \A r \in Node, u \in Task : \A n : Flushed(r, u, n)' = Flushed(r, u, n)
  <2>1. CASE flush' = flush
    BY <2>1 DEF Flushed
  <2>2. CASE SetFlush(p, "reader", Taking) /\ ReaderIdle(p)
    BY <2>2, TaskFacts, StartCounts DEF ReaderIdle
  <2>3. QED  BY <2>1, <2>2 DEF ReceiveFinish, ReceiveOpen, Reads, tasks
<1>4. QED
  BY <1>1, <1>2, <1>3, TaskFacts
     DEF Sum, Sending, Told, Lost, Pending, InHand, Held, Seen

\* A text leaves the wire and is seen, or in the hand of the reader.
LEMMA ReadTextCounts ==
  ASSUME Conserved, NEW p \in Node, ReceiveText(p)
  PROVE  \A r \in Node : \A n \in Texts(r) : Sum(r, n)' = Sum(r, n)
<1> DEFINE q == Other(p)
           m == Head(wire[q]).n
<1>1. /\ Types /\ UNCHANGED <<sending, told, lost, pending, held, flush>>
      /\ q \in Node /\ Other(q) = p /\ q # p /\ Node = {p, q}
  BY OtherFacts DEF ReceiveText, Conserved, Moves
<1>2. /\ wire[q] \in Seq(Frame(q)) /\ wire[q] # <<>> /\ Head(wire[q]).kind = "text"
      /\ wire'[q] = Tail(wire[q]) /\ wire'[p] = wire[p] /\ hand[p] = 0
  BY <1>1 DEF ReceiveText, Reads, ReaderIdle, Consume, Types, WireTypes
<1>3. Head(wire[q]) = Text(m) /\ m \in Texts(q)
  <2>1. Head(wire[q]) \in Frame(q)
    BY <1>2, TailFacts
  <2>2. Head(wire[q]) # Finish /\ Head(wire[q]) # Open
    BY <1>2 DEF Finish, Open
  <2>3. PICK k \in Texts(q) : Head(wire[q]) = Text(k)
    BY <2>1, <2>2 DEF Frame
  <2>4. m = k
    BY <2>3, TextFacts
  <2>5. QED  BY <2>3, <2>4
<1>4. ASSUME NEW n \in Texts(q)
      PROVE  OnWire(q, n) = OnWire(q, n)' + Once(m = n) /\ OnWire(q, n)' \in Nat
  <2>1. Copies(wire[q], Text(n)) = Once(Head(wire[q]) = Text(n)) + Copies(Tail(wire[q]), Text(n))
    BY <1>2, CopiesTail
  <2>2. Once(Head(wire[q]) = Text(n)) = Once(m = n) /\ Once(m = n) \in Nat
    BY <1>3, TextFacts DEF Once
  <2>3. Tail(wire[q]) \in Seq(Frame(q))
    BY <1>2, TailFacts
  <2>4. Copies(Tail(wire[q]), Text(n)) \in Nat
    BY <2>3, HitsFacts
  <2> HIDE DEF m, q
  <2>5. QED  BY <1>2, <2>1, <2>2, <2>4 DEF OnWire
<1>5. ASSUME NEW n \in Texts(q)  PROVE Sum(q, n)' = Sum(q, n)
  <2>1. Once(m = n) \in Nat
    BY DEF Once
  <2>2. /\ Sending(q, n)' = Sending(q, n) /\ Told(q, n)' = Told(q, n)
        /\ Lost(q, n)' = Lost(q, n) /\ Pending(q, n)' = Pending(q, n)
        /\ Held(q, n)' = Held(q, n) /\ \A t \in Task : Flushed(q, t, n)' = Flushed(q, t, n)
    BY <1>1 DEF Sending, Told, Lost, Pending, Held, Flushed
  <2>3. CASE delivered' = [delivered EXCEPT ![p] = Append(@, m)] /\ hand' = hand
    <3>1. delivered'[p] = Append(delivered[p], m) /\ delivered[p] \in Seq(Texts(q))
      BY <1>1, <2>3 DEF Types, SeenTypes
    <3>2. Seen(q, n)' = Seen(q, n) + Once(m = n)
      BY <1>1, <1>3, <3>1, CopiesAppend DEF Seen
    <3>3. InHand(q, n)' = InHand(q, n)
      BY <2>3 DEF InHand
    <3> HIDE DEF m, q
    <3>4. QED  BY <1>1, <1>4, <2>1, <2>2, <3>2, <3>3, PartFacts, TaskFacts DEF Sum
  <2>4. CASE hand' = [hand EXCEPT ![p] = m] /\ delivered' = delivered
    <3>1. hand'[p] = m /\ n # 0
      BY <1>1, <2>4 DEF Types, TextTypes, Texts
    <3>2. InHand(q, n)' = Once(m = n) /\ InHand(q, n) = 0
      BY <1>1, <1>2, <3>1 DEF InHand, Once
    <3>3. Seen(q, n)' = Seen(q, n)
      BY <2>4 DEF Seen
    <3> HIDE DEF m, q
    <3>4. QED  BY <1>1, <1>4, <2>1, <2>2, <3>2, <3>3, PartFacts, TaskFacts DEF Sum
  <2>5. QED  BY <2>3, <2>4 DEF ReceiveText
<1>6. ASSUME NEW n  PROVE Sum(p, n)' = Sum(p, n)
  <2>1. hand'[q] = hand[q] /\ delivered'[q] = delivered[q]
    BY <1>1 DEF ReceiveText, Types, TextTypes, SeenTypes
  <2>2. QED  BY <1>1, <1>2, <2>1, Elsewhere
<1>7. QED  BY <1>1, <1>5, <1>6

\* The text in the hand of the reader is held, or lost.
LEMMA HoldCounts ==
  ASSUME Conserved, NEW p \in Node, HoldInbound(p)
  PROVE  \A r \in Node : \A n \in Texts(r) : Sum(r, n)' = Sum(r, n)
<1> DEFINE q == Other(p)
           m == hand[p]
<1>1. /\ Types /\ UNCHANGED <<sending, told, pending, wire, flush>>
      /\ q \in Node /\ Other(q) = p /\ q # p /\ Node = {p, q}
  BY OtherFacts DEF HoldInbound, Conserved, Moves
<1>2. /\ m \in Texts(q) /\ hand'[p] = 0 /\ hand'[q] = hand[q]
      /\ delivered' = delivered
  <2>1. m \in 0 .. MaxSend[q] /\ m # 0 /\ MaxSend[q] \in Nat
    BY <1>1, Bounds DEF HoldInbound, Types, TextTypes
  <2>2. delivered' = delivered
    BY DEF HoldInbound, Unseen, Types, SeenTypes, Conserved, Moves
  <2>3. QED  BY <1>1, <2>1, <2>2 DEF HoldInbound, Types, TextTypes, Texts
<1>3. ASSUME NEW n \in Texts(q)  PROVE Sum(q, n)' = Sum(q, n)
  <2>1. /\ InHand(q, n) = Once(m = n) /\ InHand(q, n)' = 0 /\ Once(m = n) \in Nat
    <3>1. n # 0
      BY DEF Texts
    <3>2. QED  BY <1>1, <1>2, <3>1 DEF InHand, Once
  <2>2. /\ Sending(q, n)' = Sending(q, n) /\ Told(q, n)' = Told(q, n)
        /\ OnWire(q, n)' = OnWire(q, n) /\ Pending(q, n)' = Pending(q, n)
        /\ Seen(q, n)' = Seen(q, n) /\ \A t \in Task : Flushed(q, t, n)' = Flushed(q, t, n)
    BY <1>1, <1>2 DEF Sending, Told, OnWire, Pending, Seen, Flushed
  <2>3. CASE held' = [held EXCEPT ![p] = Append(@, m)] /\ lost' = lost
    <3>1. held'[p] = Append(held[p], m) /\ held[p] \in Seq(Texts(q))
      BY <1>1, <2>3 DEF Types, HeldTypes
    <3>2. Held(q, n)' = Held(q, n) + Once(m = n)
      BY <1>1, <1>2, <3>1, CopiesAppend DEF Held
    <3>3. Lost(q, n)' = Lost(q, n)
      BY <2>3 DEF Lost
    <3> HIDE DEF m, q
    <3>4. QED  BY <1>1, <2>1, <2>2, <3>2, <3>3, PartFacts, TaskFacts DEF Sum
  <2>4. CASE lost' = [lost EXCEPT ![q] = @ \cup {m}] /\ held' = held
    <3>1. m \notin lost[q]
      <4>1. InHand(q, m) = 1 /\ InHand(q, m) + Lost(q, m) <= 1 /\ Lost(q, m) \in Nat
        BY <1>1, <1>2, OnlyThere, PartFacts DEF InHand, Once
      <4> HIDE DEF m, q
      <4>2. Lost(q, m) = 0
        BY <4>1
      <4>3. QED  BY <4>2 DEF Lost, Once
    <3>2. lost'[q] = lost[q] \cup {m}
      BY <1>1, <2>4 DEF Types, EndTypes
    <3>3. Lost(q, n)' = Lost(q, n) + Once(m = n)
      BY <3>1, <3>2 DEF Lost, Once
    <3>4. Held(q, n)' = Held(q, n)
      BY <2>4 DEF Held
    <3> HIDE DEF m, q
    <3>5. QED  BY <1>1, <2>1, <2>2, <3>3, <3>4, PartFacts, TaskFacts DEF Sum
  <2>5. QED  BY <2>3, <2>4 DEF HoldInbound
<1>4. ASSUME NEW n  PROVE Sum(p, n)' = Sum(p, n)
  <2>1. lost'[p] = lost[p] /\ held'[q] = held[q]
    BY <1>1 DEF HoldInbound, Types, EndTypes, HeldTypes
  <2>2. QED  BY <1>1, <1>2, <2>1, Elsewhere
<1>5. QED  BY <1>1, <1>3, <1>4

\* What was on the wire is lost.
LEMMA LinkLostCounts ==
  ASSUME Conserved, LinkLost
  PROVE  \A r \in Node : \A n \in Texts(r) : Sum(r, n)' = Sum(r, n)
<1>1. /\ Types /\ UNCHANGED <<sending, told, pending, held, hand, flush, delivered>>
      /\ \A r \in Node : wire'[r] = <<>> /\ lost'[r] = lost[r] \cup TextsOn(r)
  BY DEF LinkLost, tasks, Conserved, Moves
<1>2. SUFFICES ASSUME NEW r \in Node, NEW n \in Texts(r)  PROVE Sum(r, n)' = Sum(r, n)
  OBVIOUS
<1>3. n \in TextsOn(r) <=> OnWire(r, n) # 0
  <2>1. wire[r] \in Seq(Frame(r))
    BY <1>1 DEF Types, WireTypes
  <2>2. OnWire(r, n) = 0 <=> \A i \in DOMAIN wire[r] : wire[r][i] # Text(n)
    BY <2>1, SomeCopies DEF OnWire
  <2>3. \A i \in DOMAIN wire[r] :
          wire[r][i] = Text(n) <=> wire[r][i].kind = "text" /\ wire[r][i].n = n
    <3>1. \A i \in DOMAIN wire[r] : wire[r][i] \in Frame(r)
      BY <2>1
    <3>2. ASSUME NEW x \in Frame(r)
          PROVE  x = Text(n) <=> x.kind = "text" /\ x.n = n
      <4>1. CASE x = Finish \/ x = Open
        BY <4>1, TextFacts DEF Finish, Open
      <4>2. CASE \E k \in Texts(r) : x = Text(k)
        BY <4>2, TextFacts
      <4>3. QED  BY <4>1, <4>2 DEF Frame
    <3>3. QED  BY <3>1, <3>2
  <2>4. QED  BY <2>2, <2>3 DEF TextsOn
<1>4. OnWire(r, n)' = 0 /\ Lost(r, n)' = Lost(r, n) + OnWire(r, n)
  <2>1. OnWire(r, n)' = 0
    BY <1>1, NoCopies DEF OnWire
  <2>2. OnWire(r, n) + Lost(r, n) <= 1 /\ OnWire(r, n) \in Nat /\ Lost(r, n) \in Nat
    BY <1>1, OnlyThere, PartFacts
  <2>3. CASE OnWire(r, n) = 0
    <3>1. Lost(r, n)' = Lost(r, n)
      BY <1>1, <1>3, <2>3 DEF Lost
    <3>2. QED  BY <2>1, <2>2, <2>3, <3>1
  <2>4. CASE OnWire(r, n) # 0
    <3>1. Lost(r, n)' = 1
      BY <1>1, <1>3, <2>4 DEF Lost, Once
    <3>2. QED  BY <2>1, <2>2, <2>4, <3>1
  <2>5. QED  BY <2>3, <2>4
<1>5. /\ Sending(r, n)' = Sending(r, n) /\ Told(r, n)' = Told(r, n)
      /\ Pending(r, n)' = Pending(r, n) /\ InHand(r, n)' = InHand(r, n)
      /\ Held(r, n)' = Held(r, n) /\ Seen(r, n)' = Seen(r, n)
      /\ \A t \in Task : Flushed(r, t, n)' = Flushed(r, t, n)
  BY <1>1 DEF Sending, Told, Pending, InHand, Held, Seen, Flushed
<1>6. QED  BY <1>1, <1>4, <1>5, PartFacts, TaskFacts DEF Sum

\* What was held of the peer is lost with the session.
LEMMA ConnectionLostCounts ==
  ASSUME Conserved, NEW p \in Node, OnConnectionLost(p)
  PROVE  \A r \in Node : \A n \in Texts(r) : Sum(r, n)' = Sum(r, n)
<1> DEFINE q == Other(p)
<1>1. /\ Types /\ UNCHANGED <<sending, told, pending, wire, hand, flush, delivered>>
      /\ q \in Node /\ Other(q) = p /\ q # p /\ Node = {p, q}
  BY OtherFacts DEF OnConnectionLost, tasks, Conserved, Moves
<1>2. /\ held'[p] = <<>> /\ held'[q] = held[q] /\ held[p] \in Seq(Texts(q))
      /\ lost'[q] = lost[q] \cup Range(held[p]) /\ lost'[p] = lost[p]
  BY <1>1 DEF OnConnectionLost, Types, HeldTypes, EndTypes
<1>3. ASSUME NEW n \in Texts(q)  PROVE Sum(q, n)' = Sum(q, n)
  <2>1. n \in Range(held[p]) <=> Held(q, n) # 0
    <3>1. Held(q, n) = 0 <=> \A i \in DOMAIN held[p] : held[p][i] # n
      BY <1>1, <1>2, SomeCopies DEF Held
    <3>2. QED  BY <3>1 DEF Range
  <2>2. Held(q, n)' = 0 /\ Lost(q, n)' = Lost(q, n) + Held(q, n)
    <3>1. Held(q, n)' = 0
      BY <1>1, <1>2, NoCopies DEF Held
    <3>2. Held(q, n) + Lost(q, n) <= 1 /\ Held(q, n) \in Nat /\ Lost(q, n) \in Nat
      BY <1>1, OnlyThere, PartFacts
    <3>3. CASE Held(q, n) = 0
      <4>1. Lost(q, n)' = Lost(q, n)
        BY <1>2, <2>1, <3>3 DEF Lost
      <4> HIDE DEF q
      <4>2. QED  BY <3>1, <3>2, <3>3, <4>1
    <3>4. CASE Held(q, n) # 0
      <4>1. Lost(q, n)' = 1
        BY <1>2, <2>1, <3>4 DEF Lost, Once
      <4> HIDE DEF q
      <4>2. QED  BY <3>1, <3>2, <3>4, <4>1
    <3>5. QED  BY <3>3, <3>4
  <2>3. /\ Sending(q, n)' = Sending(q, n) /\ Told(q, n)' = Told(q, n)
        /\ Pending(q, n)' = Pending(q, n) /\ OnWire(q, n)' = OnWire(q, n)
        /\ InHand(q, n)' = InHand(q, n) /\ Seen(q, n)' = Seen(q, n)
        /\ \A t \in Task : Flushed(q, t, n)' = Flushed(q, t, n)
    BY <1>1 DEF Sending, Told, Pending, OnWire, InHand, Seen, Flushed
  <2> HIDE DEF q
  <2>4. QED  BY <1>1, <2>2, <2>3, PartFacts, TaskFacts DEF Sum
<1>4. ASSUME NEW n  PROVE Sum(p, n)' = Sum(p, n)
  BY <1>1, <1>2, Elsewhere
<1>5. QED  BY <1>1, <1>3, <1>4

\* A dial puts step 3 of the handshake on the wire.
LEMMA ConnectCounts ==
  ASSUME Conserved, NEW p \in Node, Connect(p)
  PROVE  \A r \in Node : \A n \in Texts(r) : Sum(r, n)' = Sum(r, n)
<1>1. /\ Types /\ UNCHANGED <<sending, told, lost, pending, held, hand, flush, delivered>>
      /\ Put(p, Finish)
  BY DEF Connect, tasks, outcome, Conserved, Moves
<1>2. \A r \in Node : \A n : OnWire(r, n)' = OnWire(r, n)
  <2>1. ASSUME NEW n  PROVE OnWire(p, n)' = OnWire(p, n)
    <3>1. OnWire(p, n)' = OnWire(p, n) + Once(Finish = Text(n))
      BY <1>1, FrameFacts, PutCounts
    <3>2. Once(Finish = Text(n)) = 0 /\ OnWire(p, n) \in Nat
      BY <1>1, TextFacts, PartFacts DEF Once
    <3>3. QED  BY <3>1, <3>2
  <2>2. \A r \in Node : r # p => wire'[r] = wire[r]
    BY <1>1 DEF Put, Types, WireTypes
  <2>3. QED  BY <2>1, <2>2 DEF OnWire
<1>3. QED
  BY <1>1, <1>2, TaskFacts
     DEF Sum, Sending, Told, Lost, Pending, Flushed, InHand, Held, Seen

LEMMA StillCounts ==
  ASSUME UNCHANGED vars  PROVE \A r \in Node : \A n \in Texts(r) : Sum(r, n)' = Sum(r, n)
BY DEF vars, tasks, outcome, Sum, Sending, Told, Lost, Pending, OnWire, Flushed, InHand,
       Held, Seen

-----------------------------------------------------------------------------
(* The flushes *)

LEMMA IdleStays ==
  ASSUME FlushIdle, Types, NEW p \in Node, NEW t \in Task, NEW f \in Flushes(p),
         SetFlush(p, t, f),
         f.stage = "sending" \/ (f.items = <<>> /\ f.retry = <<>>)
  PROVE  FlushIdle'
<1>1. /\ flush'[p][t] = f
      /\ \A r \in Node, u \in Task : r # p \/ u # t => flush'[r][u] = flush[r][u]
  BY StageFacts
<1>2. QED  BY <1>1 DEF FlushIdle

LEMMA IdleStep == ASSUME Types, FlushIdle, [Next]_vars  PROVE FlushIdle'
<1>1. CASE UNCHANGED flush
  BY <1>1 DEF FlushIdle
<1>2. ASSUME NEW p \in Node, NEW t \in Task, SetFlush(p, t, Taking) \/ SetFlush(p, t, NoFlush)
      PROVE  FlushIdle'
  <2>1. /\ Taking \in Flushes(p) /\ NoFlush \in Flushes(p)
        /\ Taking.items = <<>> /\ Taking.retry = <<>>
        /\ NoFlush.items = <<>> /\ NoFlush.retry = <<>>
    BY FlushParts DEF Taking, NoFlush
  <2>2. QED  BY <1>2, <2>1, IdleStays
<1>3. ASSUME NEW p \in Node, NEW t \in Task, TakePending(p, t)  PROVE FlushIdle'
  <2>1. /\ [NoFlush EXCEPT !.stage = "sending", !.items = pending[p]] \in Flushes(p)
        /\ [NoFlush EXCEPT !.stage = "sending", !.items = pending[p]].stage = "sending"
    BY EmptySeq DEF Types, PendingTypes, NoFlush, Flushes
  <2>2. PICK g \in Flushes(p) : g.stage = "sending" /\ SetFlush(p, t, g)
    BY <1>3, <2>1 DEF TakePending
  <2>3. QED  BY <2>2, IdleStays
<1>4. ASSUME NEW p \in Node, NEW t \in Task, FlushOne(p, t)  PROVE FlushIdle'
  <2> DEFINE f == flush[p][t]
             rest == [f EXCEPT !.items = Tail(@)]
  <2>1. /\ f \in Flushes(p) /\ f.items \in Seq(Texts(p)) /\ f.retry \in Seq(Texts(p))
        /\ f.items # <<>> /\ f.stage = "sending"
    BY <1>4, FlushParts DEF FlushOne
  <2>2. Head(f.items) \in Texts(p) /\ Tail(f.items) \in Seq(Texts(p))
    BY <2>1, TailFacts
  <2>3. Kept(f) \in Seq(Texts(p))
    BY <2>1, <2>2, AppendFacts DEF Kept
  <2>4. /\ rest \in Flushes(p) /\ rest.stage = "sending"
        /\ [rest EXCEPT !.retry = Kept(f)] \in Flushes(p)
        /\ [rest EXCEPT !.retry = Kept(f)].stage = "sending"
    BY <2>1, <2>2, <2>3 DEF Flushes
  <2>5. SetFlush(p, t, rest) \/ SetFlush(p, t, [rest EXCEPT !.retry = Kept(f)])
    BY <1>4 DEF FlushOne
  <2>6. PICK g \in Flushes(p) : g.stage = "sending" /\ SetFlush(p, t, g)
    <3> HIDE DEF f, rest
    <3>1. QED  BY <2>4, <2>5
  <2>7. QED  BY <2>6, IdleStays
<1>5. ASSUME NEW p \in Node, FlushEnd(p, "reader") \/ FlushEnd(p, "caller")  PROVE FlushIdle'
  BY <1>2, <1>5, TaskFacts DEF FlushEnd
<1>6. ASSUME NEW p \in Node, ReleaseHeldInbound(p) \/ ConnectAgain(p)  PROVE FlushIdle'
  BY <1>2, <1>6, TaskFacts DEF ReleaseHeldInbound, ConnectAgain
<1>7. ASSUME NEW p \in Node, ReceiveOpen(p)  PROVE FlushIdle'
  BY <1>1, <1>2, <1>7, TaskFacts DEF ReceiveOpen
<1>8. ASSUME NEW p \in Node, Flush(p)  PROVE FlushIdle'
  BY <1>3, <1>4, <1>5, <1>8, TaskFacts DEF Flush
<1>9. ASSUME NEW p \in Node,
             \/ SendMessage(p) \/ Enqueue(p) \/ ConfirmPeerTrusted(p) \/ MaybeAutoTrust(p)
             \/ AddTrustedKey(p) \/ SendRatchetBootstrap(p) \/ ReceiveFinish(p)
             \/ ReceiveText(p) \/ HoldInbound(p) \/ OnConnectionLost(p) \/ Connect(p)
      PROVE  UNCHANGED flush
  BY <1>9 DEF SendMessage, Enqueue, ConfirmPeerTrusted, MaybeAutoTrust, Trust,
              AddTrustedKey, SendRatchetBootstrap, ReceiveFinish, ReceiveText, HoldInbound,
              OnConnectionLost, Connect, tasks
<1>10. LinkLost \/ UNCHANGED vars => UNCHANGED flush
  BY DEF LinkLost, vars, tasks
<1>11. QED  BY <1>1, <1>6, <1>7, <1>8, <1>9, <1>10 DEF Next

-----------------------------------------------------------------------------
(* The invariant *)

LEMMA ConservedInit == Init => Conserved
<1> SUFFICES ASSUME Init  PROVE Conserved
  OBVIOUS
<1>1. Moves
  BY MovesInit
<1>2. FlushIdle
  BY DEF Init, FlushIdle, NoFlush
<1>3. ASSUME NEW p \in Node, NEW n \in Texts(p)  PROVE Sum(p, n) = Once(n <= sent[p])
  <2>1. n # 0 /\ ~(n <= 0) /\ Other(p) \in Node
    BY Bounds, OtherFacts DEF Texts
  <2>2. /\ Sending(p, n) = 0 /\ Told(p, n) = 0 /\ Lost(p, n) = 0 /\ InHand(p, n) = 0
        /\ Once(n <= sent[p]) = 0
    BY <2>1 DEF Init, Sending, Told, Lost, InHand, Once
  <2>3. /\ Pending(p, n) = 0 /\ OnWire(p, n) = 0 /\ Held(p, n) = 0 /\ Seen(p, n) = 0
        /\ \A t \in Task : Flushed(p, t, n) = 0
    BY <2>1, NoCopies DEF Init, Pending, OnWire, Held, Seen, Flushed, NoFlush
  <2>4. QED  BY <2>2, <2>3, TaskFacts DEF Sum
<1>4. QED  BY <1>1, <1>2, <1>3 DEF Conserved, Counted

LEMMA CountedStep == ASSUME Conserved, [Next]_vars  PROVE Counted'
<1>1. ASSUME sent' = sent, \A r \in Node : \A n \in Texts(r) : Sum(r, n)' = Sum(r, n)
      PROVE  Counted'
  BY <1>1 DEF Conserved, Counted, Texts
<1>2. ASSUME NEW p \in Node, SendMessage(p)  PROVE Counted'
  <2>1. SUFFICES ASSUME NEW r \in Node, NEW n \in Texts(r)
                 PROVE  Sum(r, n)' = Once(n <= sent'[r])
    BY DEF Counted, Texts
  <2>2. /\ Sum(r, n)' = Sum(r, n) + Once(r = p /\ n = sent[p] + 1)
        /\ Sum(r, n) = Once(n <= sent[r]) /\ n \in Nat /\ sent[r] \in Nat
        /\ sent'[r] = IF r = p THEN sent[p] + 1 ELSE sent[r]
    <3>1. Sum(r, n)' = Sum(r, n) + Once(r = p /\ n = sent[p] + 1)
      BY <1>2, SendCounts
    <3>2. Sum(r, n) = Once(n <= sent[r])
      BY DEF Conserved, Counted
    <3>3. n \in Nat /\ sent[r] \in Nat
      BY Bounds DEF Texts, Conserved, Moves, Types, TextTypes
    <3>4. sent'[r] = IF r = p THEN sent[p] + 1 ELSE sent[r]
      BY <1>2 DEF SendMessage, Conserved, Moves, Types, TextTypes
    <3>5. QED  BY <3>1, <3>2, <3>3, <3>4
  <2>3. QED  BY <2>2 DEF Once
<1>3. ASSUME NEW p \in Node,
             \/ Enqueue(p) \/ Flush(p)
             \/ ConfirmPeerTrusted(p) \/ MaybeAutoTrust(p) \/ AddTrustedKey(p)
             \/ SendRatchetBootstrap(p) \/ ReleaseHeldInbound(p) \/ ConnectAgain(p)
             \/ ReceiveFinish(p) \/ ReceiveOpen(p) \/ ReceiveText(p) \/ HoldInbound(p)
             \/ OnConnectionLost(p) \/ Connect(p)
      PROVE  Counted'
  <2>1. sent' = sent
    BY <1>3 DEF Enqueue, Flush, TakePending, FlushOne, FlushEnd, ConfirmPeerTrusted,
                MaybeAutoTrust, Trust, AddTrustedKey, SendRatchetBootstrap,
                ReleaseHeldInbound, ConnectAgain, ReceiveFinish, ReceiveOpen, ReceiveText,
                HoldInbound, OnConnectionLost, Connect
  <2>2. \A r \in Node : \A n \in Texts(r) : Sum(r, n)' = Sum(r, n)
    BY <1>3, EnqueueCounts, TakeCounts, FlushOneCounts, FlushEndCounts, CallerCounts,
       ReleaseCounts, FrameCounts, ReadTextCounts, HoldCounts, ConnectionLostCounts,
       ConnectCounts DEF Flush
  <2>3. QED  BY <1>1, <2>1, <2>2
<1>4. CASE LinkLost \/ UNCHANGED vars
  <2>1. sent' = sent
    BY <1>4 DEF LinkLost, vars
  <2>2. QED  BY <1>1, <1>4, <2>1, LinkLostCounts, StillCounts
<1>5. QED  BY <1>2, <1>3, <1>4 DEF Next

\* Every text a user sent is in exactly one place, however many texts are sent,
\* sessions lost and queues filled.
THEOREM OnePlaceHolds == Spec => []OnePlace
<1>1. ASSUME Conserved, [Next]_vars  PROVE Conserved'
  BY <1>1, MovesStep, IdleStep, CountedStep DEF Conserved, Moves
<1>2. ASSUME Conserved  PROVE OnePlace
  <2>1. SUFFICES ASSUME NEW p \in Node, NEW n \in 1 .. sent[p]  PROVE Places(p, n) = 1
    BY DEF OnePlace
  <2>2. n \in Texts(p) /\ n <= sent[p] /\ Types
    BY <1>2, Bounds DEF Conserved, Moves, Types, TextTypes, Texts
  <2>3. Places(p, n) = Sum(p, n)
    BY <2>2, SumIsPlaces
  <2>4. Sum(p, n) = 1
    BY <1>2, <2>2 DEF Conserved, Counted, Once
  <2>5. QED  BY <2>3, <2>4
<1>3. QED  BY <1>1, <1>2, ConservedInit, PTL DEF Spec
=============================================================================
