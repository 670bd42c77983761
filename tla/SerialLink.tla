---------------------------- MODULE SerialLink ----------------------------
(***************************************************************************)
(* A serial line between two engines, each opening, losing and reopening   *)
(* its port: the SerialTransport and run_link of                           *)
(* core/src/serial/transport.rs and what core/src/p2p/engine.rs does with  *)
(* them (connect_serial, its event task, teardown_peer_session).           *)
(*                                                                         *)
(* Three tasks per link: the link task, blocked while it has a message for *)
(* a full queue of events; the event task of the engine, blocked while it  *)
(* has an answer for a full channel of outbound messages; the thread that  *)
(* reads the port.  A later link of the same end may run beside the event  *)
(* task of an earlier one.                                                 *)
(*                                                                         *)
(* The reliability layer is taken for what module ReliabilityLayer shows   *)
(* it to do.  Frames are numbered from 0 by each link, and nothing tells   *)
(* the peer's link that the numbers start again.                           *)
(***************************************************************************)
EXTENDS Integers, Sequences, Functions

CONSTANTS
  End,            \* the two ends of the line
  Window,         \* window_size
  PendingLimit,   \* fragments pending above which no message is taken
  OutboundCap,    \* room in the channel of outbound messages
  EventCap,       \* room in the queue of events
  MessageLimit,   \* MAX_MESSAGE_BYTES, in fragments
  Fragments,      \* into how many fragments an end's messages are split, in turn
  Asking,         \* the ends whose messages the peer's engine answers
  MaxMessages,    \* bound: messages a user writes, a function on End
  MaxLinks,       \* bound: links an end opens
  MaxTroubles     \* bound: disconnects by a user, failed ports and lost links

ASSUME EndAssumption == \E a, b \in End : a # b /\ End = {a, b}
ASSUME SizeAssumption ==
  /\ Window \in Nat \ {0} /\ PendingLimit \in Nat \ {0}
  /\ OutboundCap \in Nat \ {0} /\ EventCap \in Nat \ {0}
  /\ MessageLimit \in Nat \ {0}
  /\ Asking \subseteq End
  /\ Fragments \in Seq(1 .. MessageLimit) \ {<<>>}
  /\ MaxMessages \in [End -> Nat]
  /\ MaxLinks \in Nat /\ MaxTroubles \in Nat

Peer(e) == CHOOSE q \in End : q # e

VARIABLES
  gen,        \* how many links the end has opened; the last one is its link
  running,    \* SerialTransport.running of that link
  reading,    \* its read thread is alive and holds the port
  phase,      \* its link task: "run", "report" (a message waits for room), "off"
  outbound,   \* the channel of outbound messages
  line,       \* the fragments of the messages it took, numbered or pending
  acked,      \* how many of them it knows to be acknowledged
  expected,   \* the number of the next frame it accepts
  reassembly, \* the fragments of the message coming in
  owes,       \* the ended links whose Disconnected is not yet in their queue
  events,     \* events[e][g]: the queue of events of link g
  answering,  \* answering[e][g]: for room in which link its event task waits, 0: none
  serial,     \* engine.serial is the end's last link (else none)
  peers,      \* the keys under which the engine has a session
  alias,      \* peer_aliases maps "port" to "peer"
  written,    \* messages the user wrote
  made,       \* messages made, answers too; a message is its number
  troubles,   \* disconnects, failed ports and lost links so far
  \* history
  read,       \* how many frames of the end's link the peer has accepted
  unequal,    \* one end's link began amid the life of the other's
  overtaken,  \* an old Disconnected was handled after the link's Connected
  offered,    \* messages each link took
  received,   \* messages each event task was given, whole and not unequal
  source      \* the peer's link they came from, 0: none yet

portVars    == <<gen, running, reading>>
linkVars    == <<phase, outbound, line, acked, expected, reassembly, owes>>
engineVars  == <<serial, peers, alias>>
countVars   == <<written, made, troubles>>
historyVars == <<read, unequal, overtaken, offered, received, source>>
vars == <<portVars, linkVars, events, answering, engineVars, countVars, historyVars>>

-----------------------------------------------------------------------------
Links == 1 .. MaxLinks
Min2(x, y) == IF x <= y THEN x ELSE y

\* fragment: a message is the sequence of its fragments.
Size(m) == Fragments[((m - 1) % Len(Fragments)) + 1]
Split(m) == [i \in 1 .. Size(m) |-> [message |-> m, part |-> i]]
IsFirst(f) == f.part = 1                        \* mutant
IsLast(f)  == f.part = Size(f.message)

\* prepare_send at the head of the loop: what the window allows is written.
Sent(e)    == Min2(Len(line[e]), acked[e] + Window)
Pending(e) == Len(line[e]) - Sent(e)

Room(e, g) == Len(events[e][g]) < EventCap

Put(e, g, ev) == events' = [events EXCEPT ![e][g] = Append(@, ev)]

\* resolve_peer_id("serial:{port}")
Resolve(e) == IF alias[e] /\ "peer" \in peers[e] THEN "peer" ELSE "port"
HasSession(e) == Resolve(e) \in peers[e]

Trouble == troubles < MaxTroubles /\ troubles' = troubles + 1

Init ==
  /\ gen = [e \in End |-> 0]
  /\ running = [e \in End |-> FALSE]
  /\ reading = [e \in End |-> FALSE]
  /\ phase = [e \in End |-> "off"]
  /\ outbound = [e \in End |-> <<>>]
  /\ line = [e \in End |-> <<>>]
  /\ acked = [e \in End |-> 0]
  /\ expected = [e \in End |-> 0]
  /\ reassembly = [e \in End |-> <<>>]
  /\ owes = [e \in End |-> {}]
  /\ events = [e \in End |-> [g \in Links |-> <<>>]]
  /\ answering = [e \in End |-> [g \in Links |-> 0]]
  /\ serial = [e \in End |-> FALSE]
  /\ peers = [e \in End |-> {}]
  /\ alias = [e \in End |-> FALSE]
  /\ written = [e \in End |-> 0]
  /\ made = [e \in End |-> 0]
  /\ troubles = 0
  /\ read = [e \in End |-> 0]
  /\ unequal = [e \in End |-> FALSE]
  /\ overtaken = [e \in End |-> FALSE]
  /\ offered = [e \in End |-> [g \in Links |-> <<>>]]
  /\ received = [e \in End |-> [g \in Links |-> <<>>]]
  /\ source = [e \in End |-> [g \in Links |-> 0]]

-----------------------------------------------------------------------------
(* Opening and closing the port *)

\* connect_serial of a port that is not open: the port must have been released
\* by the tasks of the last link.  The event task gets the event Connected.
\* If the peer's link has accepted frames, or this end goes on where its last
\* link was, the numbers no longer fit.
Connect(e) ==
  LET q == Peer(e)
      g == gen[e] + 1
      misfit == phase[q] # "off" /\ expected[q] > 0
  IN /\ ~(serial[e] /\ running[e])
     /\ phase[e] = "off" /\ ~reading[e]
     /\ g \in Links
     /\ gen' = [gen EXCEPT ![e] = g]
     /\ running' = [running EXCEPT ![e] = TRUE]
     /\ reading' = [reading EXCEPT ![e] = TRUE]
     /\ phase' = [phase EXCEPT ![e] = "run"]
     /\ outbound' = [outbound EXCEPT ![e] = <<>>]
     /\ line' = [line EXCEPT ![e] = <<>>]
     /\ acked' = [acked EXCEPT ![e] = 0]
     /\ expected' = [expected EXCEPT ![e] = 0]
     /\ reassembly' = [reassembly EXCEPT ![e] = <<>>]
     /\ Put(e, g, [kind |-> "connected"])
     /\ serial' = [serial EXCEPT ![e] = TRUE]
     /\ read' = [read EXCEPT ![e] = 0]
     /\ unequal' = [unequal EXCEPT ![e] = misfit, ![q] = @ \/ misfit]
     /\ overtaken' = [overtaken EXCEPT ![e] = FALSE]
     /\ UNCHANGED <<owes, answering, peers, alias, countVars, offered, received, source>>

\* teardown_peer_session for the user, who names the session by one of its ids.
Teardown(e) ==
  /\ Trouble
  /\ \E id \in peers[e] :
       peers' = [peers EXCEPT ![e] = @ \ {id, IF id = "port" THEN Resolve(e) ELSE id}]
  /\ serial' = [serial EXCEPT ![e] = FALSE]
  /\ running' = [running EXCEPT ![e] = @ /\ ~serial[e]]
  /\ UNCHANGED <<gen, reading, linkVars, events, answering, alias, written, made, historyVars>>

\* run_link returns: told to stop at a tick, the channel of the read thread
\* closed, or a frame out of retries because the line or the peer fails.  The
\* messages it had not sent are gone.
ToldToStop(e) == ~running[e]
PortClosed(e) == ~reading[e]
LinkLost(e)   == Sent(e) > acked[e]

Return(e) ==
  /\ phase[e] = "run"
  /\ phase' = [phase EXCEPT ![e] = "off"]
  /\ running' = [running EXCEPT ![e] = FALSE]
  /\ outbound' = [outbound EXCEPT ![e] = <<>>]
  /\ owes' = [owes EXCEPT ![e] = @ \cup {gen[e]}]
  /\ UNCHANGED <<gen, reading, line, acked, expected, reassembly, events,
                 answering, engineVars, written, made, historyVars>>

Stop(e)   == (ToldToStop(e) \/ PortClosed(e)) /\ Return(e) /\ UNCHANGED troubles
GiveUp(e) == LinkLost(e) /\ Return(e) /\ Trouble

\* What the link task does after run_link has returned.
SendDisconnected(e, g) ==
  /\ g \in owes[e] /\ Room(e, g)
  /\ Put(e, g, [kind |-> "disconnected"])
  /\ owes' = [owes EXCEPT ![e] = @ \ {g}]
  /\ UNCHANGED <<portVars, phase, outbound, line, acked, expected, reassembly,
                 answering, engineVars, countVars, historyVars>>

\* The read thread goes on while it sees running, or until the port fails.
ReadsOn(e)      == TRUE                          \* mutant
KeepsReading(e) == running[e]

ReadThreadEnds(e) ==
  /\ reading[e] /\ ~KeepsReading(e)
  /\ reading' = [reading EXCEPT ![e] = FALSE]
  /\ UNCHANGED <<gen, running, linkVars, events, answering, engineVars, countVars, historyVars>>

Unplug(e) ==
  /\ Trouble
  /\ reading[e] /\ running[e]
  /\ Room(e, gen[e])
  /\ Put(e, gen[e], [kind |-> "error"])
  /\ reading' = [reading EXCEPT ![e] = FALSE]
  /\ UNCHANGED <<gen, running, linkVars, answering, engineVars, written, made, historyVars>>

-----------------------------------------------------------------------------
(* The link task *)

\* SerialTransport::send of a new message, with room for it.
Enqueue(e) ==
  /\ Len(outbound[e]) < OutboundCap
  /\ outbound' = [outbound EXCEPT ![e] = Append(@, made[e] + 1)]
  /\ made' = [made EXCEPT ![e] = @ + 1]
  /\ UNCHANGED troubles

UserSends(e) ==
  /\ HasSession(e) /\ serial[e] /\ running[e]
  /\ written[e] < MaxMessages[e]
  /\ written' = [written EXCEPT ![e] = @ + 1]
  /\ Enqueue(e)
  /\ UNCHANGED <<portVars, phase, line, acked, expected, reassembly, owes,
                 events, answering, engineVars, historyVars>>

TakeOutbound(e) ==
  /\ phase[e] = "run"
  /\ outbound[e] # <<>>
  /\ Pending(e) < PendingLimit
  /\ outbound' = [outbound EXCEPT ![e] = Tail(@)]
  /\ line' = [line EXCEPT ![e] = @ \o Split(Head(outbound[e]))]
  /\ offered' = [offered EXCEPT ![e][gen[e]] = Append(@, Head(outbound[e]))]
  /\ UNCHANGED <<portVars, phase, acked, expected, reassembly, owes, events,
                 answering, engineVars, countVars, read, unequal, overtaken,
                 received, source>>

\* The frame with the expected number comes in; a dead link sends none again.
\* Over the limit everything collected is dropped, this fragment too; the last
\* fragment makes a message, and the task waits until the queue has room.
Collected(e, f) ==
  IF Len(reassembly[e]) + 1 > MessageLimit THEN <<>> ELSE Append(reassembly[e], f)

AcceptFrame(e) ==
  LET q == Peer(e)
      n == expected[e] + 1
      f == line[q][n]
      parts == Collected(e, f)
  IN /\ phase[e] = "run" /\ phase[q] # "off"
     /\ n \in acked[q] + 1 .. Sent(q)
     /\ expected' = [expected EXCEPT ![e] = n]
     /\ reassembly' = [reassembly EXCEPT ![e] = parts]
     /\ phase' = [phase EXCEPT ![e] =
                    IF parts # <<>> /\ IsLast(f) THEN "report" ELSE "run"]
     /\ read' = [read EXCEPT ![q] = IF n > @ THEN n ELSE @]
     /\ UNCHANGED <<portVars, outbound, line, acked, owes, events, answering,
                    engineVars, countVars, unequal, overtaken, offered, received,
                    source>>

\* event_tx.send(DataReceived).
Report(e) ==
  /\ phase[e] = "report" /\ Room(e, gen[e])
  /\ Put(e, gen[e], [kind |-> "data", parts |-> reassembly[e],
                     from |-> IF unequal[e] THEN 0 ELSE gen[Peer(e)]])
  /\ reassembly' = [reassembly EXCEPT ![e] = <<>>]
  /\ phase' = [phase EXCEPT ![e] = "run"]
  /\ UNCHANGED <<portVars, outbound, line, acked, expected, owes, answering,
                 engineVars, countVars, historyVars>>

\* An ACK comes in, the peer's answer to a frame it accepted or to one it takes
\* for an old one.  Frames before its number are released, all there are if the
\* peer counts further than this link.
AllSent(e) == Sent(e)                           \* mutant
Covered(e) == Min2(expected[Peer(e)], Sent(e))

ReadAck(e) ==
  LET q == Peer(e)
      n == Covered(e)
  IN /\ phase[e] = "run"
     /\ \/ phase[q] = "run"
        \/ (phase[q] = "report" /\ expected[q] <= read[e])
     /\ n > acked[e]
     /\ acked' = [acked EXCEPT ![e] = n]
     /\ UNCHANGED <<portVars, phase, outbound, line, expected, reassembly, owes,
                    events, answering, engineVars, countVars, historyVars>>

-----------------------------------------------------------------------------
(* The event task of link g *)

\* The task takes the first event, of the given kind.
Takes(e, g, kind) ==
  /\ answering[e][g] = 0
  /\ events[e][g] # <<>> /\ Head(events[e][g]).kind = kind
  /\ events' = [events EXCEPT ![e][g] = Tail(@)]

OnConnected(e, g) ==
  /\ Takes(e, g, "connected")
  /\ peers' = [peers EXCEPT ![e] = @ \cup {"port"}]
  /\ UNCHANGED <<portVars, linkVars, answering, serial, alias, countVars, historyVars>>

OnError(e, g) ==
  /\ Takes(e, g, "error")
  /\ UNCHANGED <<portVars, linkVars, answering, engineVars, countVars, historyVars>>

\* The session the port's id resolves to is removed whatever link it is of;
\* engine.serial is cleared only if it is this link's transport.
ClearsAny(e, g)    == TRUE                       \* mutant
ClearsSerial(e, g) == g = gen[e]

OnDisconnected(e, g) ==
  /\ Takes(e, g, "disconnected")
  /\ peers' = [peers EXCEPT ![e] = @ \ {Resolve(e), "port"}]
  /\ serial' = [serial EXCEPT ![e] = @ /\ ~ClearsSerial(e, g)]
  /\ overtaken' = [overtaken EXCEPT
       ![e] = @ \/ (g < gen[e] /\ [kind |-> "connected"] \notin Range(events[e][gen[e]]))]
  /\ UNCHANGED <<portVars, linkVars, answering, alias, countVars, read, unequal,
                 offered, received, source>>

\* handle_inbound_bytes: without a session the message is dropped; one that
\* ends the handshake moves the session to the peer's id (canonicalize_peer);
\* one may call for an answer, sent over engine.serial by this same task.
\* Fragments of different messages glued together are not a message.
Whole(parts) == parts = Split(parts[1].message)
Name(parts)  == IF Whole(parts) THEN parts[1].message ELSE 0

OnMessage(e, g) ==
  LET ev == Head(events[e][g])
      q  == Peer(e)
      answers == /\ HasSession(e) /\ Whole(ev.parts) /\ q \in Asking
                 /\ serial[e] /\ running[e]
  IN /\ Takes(e, g, "data")
     /\ IF HasSession(e) /\ Resolve(e) = "port" /\ Whole(ev.parts)
        THEN /\ peers' = [peers EXCEPT ![e] = {"peer"}]
             /\ alias' = [alias EXCEPT ![e] = TRUE]
        ELSE UNCHANGED <<peers, alias>>
     /\ answering' = [answering EXCEPT ![e][g] = IF answers THEN gen[e] ELSE 0]
     /\ received' = IF ev.from = 0 THEN received
                    ELSE [received EXCEPT ![e][g] = Append(@, Name(ev.parts))]
     /\ source' = IF ev.from = 0 THEN source ELSE [source EXCEPT ![e][g] = ev.from]
     /\ UNCHANGED <<portVars, linkVars, serial, countVars, read, unequal, overtaken, offered>>

\* The answer goes out when there is room, or fails when the link is gone.
SendAnswer(e, g) ==
  /\ answering[e][g] = gen[e] /\ phase[e] # "off"
  /\ Enqueue(e)
  /\ answering' = [answering EXCEPT ![e][g] = 0]
  /\ UNCHANGED <<written, portVars, phase, line, acked, expected, reassembly, owes,
                 events, engineVars, historyVars>>

AnswerFails(e, g) ==
  /\ answering[e][g] # 0
  /\ answering[e][g] # gen[e] \/ phase[e] = "off"
  /\ answering' = [answering EXCEPT ![e][g] = 0]
  /\ UNCHANGED <<portVars, linkVars, events, engineVars, countVars, historyVars>>

-----------------------------------------------------------------------------
LinkTask(e) == Stop(e) \/ TakeOutbound(e) \/ AcceptFrame(e) \/ Report(e) \/ ReadAck(e)
EventTask(e, g) == \/ OnConnected(e, g) \/ OnError(e, g) \/ OnDisconnected(e, g)
                   \/ OnMessage(e, g) \/ SendAnswer(e, g) \/ AnswerFails(e, g)

Next == \E e \in End :
          \/ Connect(e) \/ Teardown(e) \/ Unplug(e) \/ UserSends(e)
          \/ GiveUp(e) \/ ReadThreadEnds(e) \/ LinkTask(e)
          \/ \E g \in Links : SendDisconnected(e, g) \/ EventTask(e, g)

Spec == Init /\ [][Next]_vars

\* Threads and tasks that can go on do; users and faults need not.
Fairness == \A e \in End :
  /\ WF_vars(Stop(e) \/ Report(e))
  /\ WF_vars(ReadThreadEnds(e))
  /\ \A g \in Links : WF_vars(EventTask(e, g))

FairSpec == Spec /\ Fairness

-----------------------------------------------------------------------------
(* Properties *)

Fragment == [message : Nat, part : Nat]
Event == {[kind |-> k] : k \in {"connected", "disconnected", "error"}}
           \cup [kind : {"data"}, parts : Seq(Fragment), from : 0 .. MaxLinks]

PortTypes ==
  /\ gen \in [End -> 0 .. MaxLinks]
  /\ running \in [End -> BOOLEAN]
  /\ reading \in [End -> BOOLEAN]
LinkTypes ==
  /\ phase \in [End -> {"run", "report", "off"}]
  /\ outbound \in [End -> Seq(Nat \ {0})]
  /\ line \in [End -> Seq(Fragment)]
  /\ acked \in [End -> Nat]
  /\ expected \in [End -> Nat]
  /\ reassembly \in [End -> Seq(Fragment)]
  /\ owes \in [End -> SUBSET Links]
EventTypes ==
  /\ events \in [End -> [Links -> Seq(Event)]]
  /\ answering \in [End -> [Links -> 0 .. MaxLinks]]
EngineTypes ==
  /\ serial \in [End -> BOOLEAN]
  /\ peers \in [End -> SUBSET {"port", "peer"}]
  /\ alias \in [End -> BOOLEAN]
CountTypes ==
  /\ written \in [End -> Nat]
  /\ made \in [End -> Nat]
  /\ troubles \in 0 .. MaxTroubles
HistoryTypes ==
  /\ read \in [End -> Nat]
  /\ unequal \in [End -> BOOLEAN]
  /\ overtaken \in [End -> BOOLEAN]
Limits == \A e \in End :
  /\ Len(outbound[e]) <= OutboundCap
  /\ acked[e] <= Len(line[e])
  /\ Len(reassembly[e]) <= MessageLimit
  /\ \A g \in Links : Len(events[e][g]) <= EventCap
Opened == \A e \in End :
  /\ owes[e] \subseteq 1 .. gen[e]
  /\ phase[e] # "off" \/ reading[e] => gen[e] >= 1
  /\ \A g \in Links : g > gen[e] => events[e][g] = <<>>

\* The variables keep their types (SerialTransport, run_link and the engine's
\* maps), and the queues their limits.
TypeOK == /\ PortTypes /\ LinkTypes /\ EventTypes /\ EngineTypes
          /\ CountTypes /\ HistoryTypes /\ Limits /\ Opened

\* What the engine is given by a link are whole messages of one link of the
\* peer, in order from the first one, none twice (fragment, run_link), as long
\* as neither end's link began amid the life of the other's.
Messages == INSTANCE MessageStream WITH
  End <- End, Peer <- Peer, Link <- Links,
  offered <- offered, received <- received, source <- source
ImplementsStream == Messages!Spec

\* A frame the sender takes for acknowledged was accepted by the peer, unless
\* one end's link began amid the life of the other's: then the peer answers new
\* frames as old ones (ReliabilityLayer::new, on_receive).
AckedMeansAccepted ==
  \A e \in End : phase[e] # "off" => acked[e] <= read[e] \/ unequal[e]

\* When its events are handled, a running link is the engine's link and has a
\* session, unless an old link's Disconnected came after its Connected
\* (connect_serial's event task); a link without one could not even be closed.
Handled(e, g) == events[e][g] = <<>> /\ g \notin owes[e]
LinkHasSession ==
  \A e \in End :
    running[e] /\ phase[e] # "off" /\ Handled(e, gen[e])
      => (serial[e] /\ HasSession(e)) \/ overtaken[e]

\* A port whose transport was told to stop is released (SerialTransport::
\* shutdown), unless the link task waits for the event task, which waits for
\* the link task to take its answer.
Entangled(e) == /\ phase[e] = "report" /\ ~Room(e, gen[e])
                /\ answering[e][gen[e]] = gen[e]
                /\ Len(outbound[e]) = OutboundCap
Released(e) == phase[e] = "off" /\ ~reading[e]
PortReleased == \A e \in End : ~running[e] ~> Released(e) \/ Entangled(e)
=============================================================================
