------------------------- MODULE CallSignaling_proofs -------------------------
(***************************************************************************)
(* Calls between any number of devices: the types of engines and           *)
(* applications, and that no path of an application loses an open          *)
(* microphone.  The stream an application can still stop is always that of *)
(* its peer connection, so that a stream is lost only when that peer       *)
(* connection is replaced (Collides).                                      *)
(*                                                                         *)
(* And, while no link was lost, that an engine at rest remembers no call   *)
(* but those its user is in or is offered.  Every trace of a call, in an   *)
(* application, in the queues or on the wire, is at one of its two devices *)
(* and of the kind that device may have (Order).  A call that was not lost *)
(* track of is Tracked: its offer is somewhere at most once, before the    *)
(* end of the call, and until it is heard the callee knows nothing of it;  *)
(* a device that learns of the end has cleared its table; and what its     *)
(* table names, or is about to, its application has, or prepares, or is    *)
(* asking to end, or is about to hear of.                                  *)
(*                                                                         *)
(* And that the candidates of a peer arrive, in the first call of two      *)
(* devices.  Rested: what a device is still to begin has left nothing      *)
(* behind.  Flushes: a desktop that has both descriptions of its call      *)
(* keeps no candidate waiting.  Delivered: what the peer has gathered is   *)
(* asked for, on the wire, queued or held, as long as a desktop may still  *)
(* want it.                                                                *)
(*                                                                         *)
(* And, while no link was lost, that nobody is left alone in a call.       *)
(* Company: whoever is in a call, or is offered it, has the peer in it, or *)
(* will, or one of the two is on the way out.  Parting: when a device is   *)
(* to hear that a call is over, its peer is out of it or will be.  Upright:*)
(* what an application asks its engine for, and the answer, belong to the  *)
(* step it is at.                                                          *)
(*                                                                         *)
(* The proof looks at one call and at one move.  AppStep is what a move of *)
(* an application, whichever of the two it is, does to the traces of one   *)
(* call; the moves of the engines are treated one by one.                  *)
(***************************************************************************)
EXTENDS CallSignaling, SequenceTheorems, FiniteSetTheorems, TLAPS

-----------------------------------------------------------------------------
(* Types *)

Calls  == CallId \cup {None}
Tables == [Node -> [Node -> Calls]]
Links  == [Node -> [Node -> {"up", "broken", "down"}]]
Wires  == [Node -> [Node -> Seq(Signal)]]

EngineTypes ==
  /\ party \in [CallId -> {<<>>} \cup (Node \X Node)]
  /\ active \in Tables /\ reading \in Tables
  /\ link \in Links /\ wire \in Wires
  /\ cmds \in [Node -> SUBSET Request] /\ replies \in [Node -> SUBSET Reply]
  /\ events \in [Node -> Seq(Event)]
  /\ breaks \in 0 .. MaxBreaks

AppTypes == ui \in [Node -> State] /\ app \in [Node -> Apps]

Counts == /\ faults \in 0 .. MaxFaults /\ overlaps \in 0 .. MaxOverlaps
          /\ astray \subseteq CallId

CallTypes == EngineTypes /\ AppTypes /\ Counts

LEMMA TypeParts == CallTypes => TypeOK
BY DEF CallTypes, EngineTypes, AppTypes, Counts, TypeOK, EngineTypeOK, Calls,
   Tables, Links, Wires

LEMMA NoneFact == None \notin CallId
BY CallAssumption DEF None, CallId

LEMMA EmittedFacts ==
  ASSUME EngineTypes, NEW n \in Node, NEW e \in Event
  PROVE  Emitted(n, e) \in [Node -> Seq(Event)]
<1>1. Append(events[n], e) \in Seq(Event)  BY DEF EngineTypes
<1>2. QED  BY <1>1 DEF EngineTypes, Emitted

LEMMA EventFacts ==
  /\ \A c \in CallId : Ended(c) \in Event
  /\ \A m \in Node : Lost(m) \in Event
  /\ \A t \in {"offer", "answer", "ice", "ended"}, c \in CallId :
       [type |-> t, call |-> c] \in Event
BY DEF Ended, Lost, Event

LEMMA SentFacts ==
  ASSUME EngineTypes, NEW n \in Node, NEW m, NEW s \in Signal
  PROVE  Sent(n, m, s) \in Wires
<1>1. m \in Node => Append(wire[n][m], s) \in Seq(Signal)
  BY DEF EngineTypes, Wires
<1>2. [wire EXCEPT ![n][m] = Append(wire[n][m], s)] \in Wires
  BY <1>1 DEF EngineTypes, Wires
<1>3. QED  BY <1>2 DEF EngineTypes, Sent

LEMMA TakenFacts ==
  ASSUME EngineTypes, NEW n \in Node, NEW x, Taken(n, x)
  PROVE  cmds' \in [Node -> SUBSET Request]
BY DEF EngineTypes, Taken

\* A request that names a call, and what the application is told of it.
LEMMA RequestFacts ==
  ASSUME EngineTypes, NEW n \in Node, NEW x \in cmds[n], x.signal \in Signals
  PROVE  /\ x.call \in CallId /\ x.awaited \in BOOLEAN
         /\ \A s \in Signals : Sig(s, x.call) \in Signal
         /\ \A ok \in BOOLEAN : Answered(n, x, ok) => replies' \in [Node -> SUBSET Reply]
<1>1. x \in Request  BY DEF EngineTypes
<1>2. x \in [signal : Signals, call : CallId, awaited : BOOLEAN]
  BY <1>1 DEF Request, Signals
<1>3. x.call \in CallId /\ x.awaited \in BOOLEAN  BY <1>2
<1>4. ASSUME NEW ok \in BOOLEAN, Answered(n, x, ok)
      PROVE  replies' \in [Node -> SUBSET Reply]
  <2>1. [signal |-> x.signal, call |-> x.call, ok |-> ok] \in Reply
    BY <1>3 DEF Reply
  <2>2. QED  BY <1>4, <2>1 DEF Answered, EngineTypes
<1>5. QED  BY <1>3, <1>4 DEF Sig, Signal

LEMMA OutcomeFacts ==
  ASSUME NEW n, NEW m
  PROVE  Outcomes(n, m) \subseteq BOOLEAN
BY DEF Outcomes

LEMMA ClearFacts ==
  ASSUME EngineTypes, NEW n \in Node, NEW m, NEW c \in CallId, ClearCall(n, m, c)
  PROVE  active' \in Tables /\ events' \in [Node -> Seq(Event)]
<1>1. m \in Node => Remaining(n, m, c) \in Calls
  BY DEF EngineTypes, Tables, Calls, Remaining
<1>2. active' \in Tables
  BY <1>1 DEF EngineTypes, Tables, ClearCall
<1>3. QED  BY <1>2, EventFacts, EmittedFacts DEF ClearCall

-----------------------------------------------------------------------------
(* The engine *)

LEMMA RequestSteps ==
  ASSUME EngineTypes, NEW n \in Node, NEW x \in cmds[n],
         \/ FailUnresolved(n, x) \/ RefuseOffer(n, x) \/ SendOffer(n, x)
         \/ SendMedia(n, x) \/ SendEnd(n, x)
  PROVE  EngineTypes' /\ party' = party
<1>1. x.signal \in Signals /\ Taken(n, x)
  BY DEF FailUnresolved, RefuseOffer, SendOffer, SendMedia, SendEnd, Requested, Signals
<1>2. /\ x.call \in CallId
      /\ \A s \in Signals : Sig(s, x.call) \in Signal
      /\ \A ok \in BOOLEAN : Answered(n, x, ok) => replies' \in [Node -> SUBSET Reply]
  BY <1>1, RequestFacts
<1>3. cmds' \in [Node -> SUBSET Request]  BY <1>1, TakenFacts
<1>4. CASE FailUnresolved(n, x) \/ RefuseOffer(n, x)
  <2>1. /\ Answered(n, x, FALSE)
        /\ UNCHANGED <<party, active, reading, link, wire, events, breaks>>
    BY <1>4 DEF FailUnresolved, RefuseOffer
  <2>2. replies' \in [Node -> SUBSET Reply]  BY <1>2, <2>1
  <2>3. QED  BY <1>3, <2>1, <2>2 DEF EngineTypes
<1> DEFINE m == PeerOf(n, x.call)
<1>5. CASE SendOffer(n, x)
  <2>1. PICK ok \in Outcomes(n, m) :
          /\ wire' = Sent(n, m, Sig("offer", x.call))
          /\ Answered(n, x, ok)
          /\ active' = [active EXCEPT ![n][m] = IF ok THEN x.call ELSE None]
          /\ events' = IF ok THEN events ELSE Emitted(n, Ended(x.call))
          /\ UNCHANGED <<party, reading, link, breaks>>
    BY <1>5 DEF SendOffer
  <2> HIDE DEF m
  <2>2. ok \in BOOLEAN  BY OutcomeFacts
  <2>3. replies' \in [Node -> SUBSET Reply]  BY <1>2, <2>1, <2>2
  <2>4. wire' \in Wires  BY <1>2, <2>1, SentFacts DEF Signals
  <2>5. active' \in Tables
    <3>1. (IF ok THEN x.call ELSE None) \in Calls  BY <1>2 DEF Calls
    <3>2. QED  BY <2>1, <3>1 DEF EngineTypes, Tables
  <2>6. events' \in [Node -> Seq(Event)]
    BY <1>2, <2>1, EventFacts, EmittedFacts DEF EngineTypes
  <2>7. QED  BY <1>3, <2>1, <2>3, <2>4, <2>5, <2>6 DEF EngineTypes
<1>6. CASE SendMedia(n, x)
  <2>1. PICK ok \in Outcomes(n, m) :
          /\ wire' = Sent(n, m, Sig(x.signal, x.call))
          /\ Answered(n, x, ok)
          /\ UNCHANGED <<party, active, reading, link, events, breaks>>
    BY <1>6 DEF SendMedia
  <2> HIDE DEF m
  <2>2. ok \in BOOLEAN  BY OutcomeFacts
  <2>3. replies' \in [Node -> SUBSET Reply]  BY <1>2, <2>1, <2>2
  <2>4. wire' \in Wires  BY <1>1, <1>2, <2>1, SentFacts
  <2>5. QED  BY <1>3, <2>1, <2>3, <2>4 DEF EngineTypes
<1>7. CASE SendEnd(n, x)
  <2>1. PICK ok \in Outcomes(n, m) :
          /\ wire' = Sent(n, m, Sig("end", x.call))
          /\ ClearCall(n, m, x.call)
          /\ Answered(n, x, ok)
          /\ UNCHANGED <<party, reading, link, breaks>>
    BY <1>7 DEF SendEnd
  <2> HIDE DEF m
  <2>2. ok \in BOOLEAN  BY OutcomeFacts
  <2>3. replies' \in [Node -> SUBSET Reply]  BY <1>2, <2>1, <2>2
  <2>4. wire' \in Wires  BY <1>2, <2>1, SentFacts DEF Signals
  <2>5. active' \in Tables /\ events' \in [Node -> Seq(Event)]
    BY <1>2, <2>1, ClearFacts
  <2>6. QED  BY <1>3, <2>1, <2>3, <2>4, <2>5 DEF EngineTypes
<1>8. QED  BY <1>4, <1>5, <1>6, <1>7

LEMMA SeveredFacts ==
  ASSUME EngineTypes, NEW n \in Node, NEW m \in Node
  PROVE  Severed(n, m) \in Wires
<1>1. <<>> \in Seq(Signal)  OBVIOUS
<1>2. QED  BY <1>1 DEF EngineTypes, Wires, Severed

LEMMA DisconnectStep ==
  ASSUME EngineTypes, NEW n \in Node, NEW m \in Node, Disconnect(n, m)
  PROVE  EngineTypes' /\ party' = party
<1> DEFINE x == [signal |-> "disconnect", peer |-> m]
<1>1. /\ Taken(n, x) /\ wire' = Severed(n, m) /\ events' = Emitted(n, Lost(m))
      /\ link' = [link EXCEPT ![n][m] = "down",
                              ![m][n] = IF @ = "up" THEN "broken" ELSE @]
      /\ UNCHANGED <<party, active, reading, replies, breaks>>
  BY DEF Disconnect
<1> HIDE DEF x
<1>2. cmds' \in [Node -> SUBSET Request]  BY <1>1, TakenFacts
<1>3. link' \in Links
  BY <1>1 DEF EngineTypes, Links
<1>4. QED
  BY <1>1, <1>2, <1>3, SeveredFacts, EmittedFacts, EventFacts DEF EngineTypes

LEMMA AcceptStep ==
  ASSUME EngineTypes, NEW n \in Node, NEW m \in Node, AcceptOffer(n, m)
  PROVE  EngineTypes' /\ party' = party
<1>1. reading[n][m] \in CallId
  BY DEF AcceptOffer, EngineTypes, Tables, Calls
<1>2. active' \in Tables /\ reading' \in Tables
  BY <1>1 DEF AcceptOffer, EngineTypes, Tables, Calls
<1>3. [type |-> "offer", call |-> reading[n][m]] \in Event
  BY <1>1, EventFacts
<1>4. events' \in [Node -> Seq(Event)]
  BY <1>3, EmittedFacts DEF AcceptOffer
<1>5. QED  BY <1>2, <1>4 DEF AcceptOffer, EngineTypes

LEMMA EngineWorksStep ==
  ASSUME EngineTypes, NEW n \in Node, EngineWorks(n)
  PROVE  EngineTypes' /\ party' = party
BY RequestSteps, DisconnectStep, AcceptStep DEF EngineWorks

\* What the read loop takes from the wire.
LEMMA ReadFacts ==
  ASSUME EngineTypes, NEW n \in Node, NEW m \in Node, NEW s, Incoming(n, m, s)
  PROVE  /\ Head(wire[m][n]) \in Signal /\ Head(wire[m][n]).call \in CallId
         /\ Head(wire[m][n]).signal = s
         /\ Read(n, m) \in Wires
<1>1. wire[m][n] \in Seq(Signal) /\ wire[m][n] # <<>>
  BY DEF EngineTypes, Wires, Incoming
<1>2. Head(wire[m][n]) \in Signal /\ Tail(wire[m][n]) \in Seq(Signal)
  BY <1>1
<1>3. Read(n, m) \in Wires  BY <1>2 DEF EngineTypes, Wires, Read
<1>4. QED  BY <1>2, <1>3 DEF Signal, Incoming

LEMMA ReceivesStep ==
  ASSUME EngineTypes, NEW n \in Node, Receives(n)
  PROVE  EngineTypes' /\ party' = party
<1>1. PICK m \in Node \ {n} :
        \/ ReceiveEnd(n, m)
        \/ \E s \in {"answer", "ice"} : ReceiveMedia(n, m, s)
        \/ RejectOffer(n, m) \/ TestOffer(n, m) \/ NoticeLoss(n, m)
  BY DEF Receives
<1> DEFINE c == Head(wire[m][n]).call
<1>2. CASE ReceiveEnd(n, m)
  <2>1. /\ Incoming(n, m, "end") /\ wire' = Read(n, m) /\ ClearCall(n, m, c)
        /\ UNCHANGED <<party, reading, link, cmds, replies, breaks>>
    BY <1>2 DEF ReceiveEnd
  <2>2. wire' \in Wires /\ c \in CallId  BY <2>1, ReadFacts
  <2> HIDE DEF c
  <2>3. active' \in Tables /\ events' \in [Node -> Seq(Event)]
    BY <2>1, <2>2, ClearFacts
  <2>4. QED  BY <2>1, <2>2, <2>3 DEF EngineTypes
<1>3. ASSUME NEW s \in {"answer", "ice"}, ReceiveMedia(n, m, s)
      PROVE  EngineTypes' /\ party' = party
  <2>1. /\ Incoming(n, m, s) /\ wire' = Read(n, m)
        /\ events' = Emitted(n, [type |-> s, call |-> c])
        /\ UNCHANGED <<party, active, reading, link, cmds, replies, breaks>>
    BY <1>3 DEF ReceiveMedia
  <2>2. wire' \in Wires /\ c \in CallId  BY <2>1, ReadFacts
  <2> HIDE DEF c
  <2>3. [type |-> s, call |-> c] \in Event  BY <2>2, EventFacts
  <2>4. events' \in [Node -> Seq(Event)]  BY <2>1, <2>3, EmittedFacts
  <2>5. QED  BY <2>1, <2>2, <2>4 DEF EngineTypes
<1>4. CASE RejectOffer(n, m)
  <2>1. /\ Incoming(n, m, "offer") /\ wire' = Refusal(n, m, c)
        /\ UNCHANGED <<party, active, reading, link, cmds, replies, events, breaks>>
    BY <1>4 DEF RejectOffer
  <2>2. Read(n, m) \in Wires /\ c \in CallId  BY <2>1, ReadFacts
  <2> HIDE DEF c
  <2>3. Sig("end", c) \in Signal  BY <2>2 DEF Sig, Signal, Signals
  <2>4. Append(Read(n, m)[n][m], Sig("end", c)) \in Seq(Signal)
    BY <2>2, <2>3 DEF Wires
  <2>5. Refusal(n, m, c) \in Wires
    BY <2>2, <2>4 DEF Refusal, Wires
  <2>6. QED  BY <2>1, <2>5 DEF EngineTypes
<1>5. CASE TestOffer(n, m)
  <2>1. /\ Incoming(n, m, "offer") /\ wire' = Read(n, m)
        /\ reading' = [reading EXCEPT ![n][m] = c]
        /\ UNCHANGED <<party, active, link, cmds, replies, events, breaks>>
    BY <1>5 DEF TestOffer
  <2>2. wire' \in Wires /\ c \in CallId  BY <2>1, ReadFacts
  <2> HIDE DEF c
  <2>3. reading' \in Tables  BY <2>1, <2>2 DEF EngineTypes, Tables, Calls
  <2>4. QED  BY <2>1, <2>2, <2>3 DEF EngineTypes
<1>6. CASE NoticeLoss(n, m)
  <2>1. /\ link' = [link EXCEPT ![n][m] = "down"] /\ events' = Emitted(n, Lost(m))
        /\ UNCHANGED <<party, active, reading, wire, cmds, replies, breaks>>
    BY <1>6 DEF NoticeLoss
  <2>2. link' \in Links  BY <2>1 DEF EngineTypes, Links
  <2>3. QED  BY <2>1, <2>2, EventFacts, EmittedFacts DEF EngineTypes
<1>7. QED  BY <1>1, <1>2, <1>3, <1>4, <1>5, <1>6

LEMMA LinkStep ==
  ASSUME EngineTypes, LinkChanges
  PROVE  EngineTypes' /\ party' = party
<1>1. PICK n \in Node, m \in Node : BreakLink(n, m) \/ Reconnect(n, m)
  BY DEF LinkChanges
<1>2. CASE BreakLink(n, m)
  <2>1. /\ link' = [link EXCEPT ![n][m] = "broken", ![m][n] = "broken"]
        /\ wire' = Severed(n, m) /\ breaks' = breaks + 1 /\ breaks < MaxBreaks
        /\ UNCHANGED <<party, active, reading, cmds, replies, events>>
    BY <1>2 DEF BreakLink
  <2>2. link' \in Links  BY <2>1 DEF EngineTypes, Links
  <2>3. breaks' \in 0 .. MaxBreaks  BY <2>1, CallAssumption DEF EngineTypes
  <2>4. QED  BY <2>1, <2>2, <2>3, SeveredFacts DEF EngineTypes
<1>3. CASE Reconnect(n, m)
  <2>1. /\ link' = [link EXCEPT ![n][m] = "up", ![m][n] = "up"]
        /\ UNCHANGED <<party, active, reading, wire, cmds, replies, events, breaks>>
    BY <1>3 DEF Reconnect
  <2>2. link' \in Links  BY <2>1 DEF EngineTypes, Links
  <2>3. QED  BY <2>1, <2>2 DEF EngineTypes
<1>4. QED  BY <1>1, <1>2, <1>3

-----------------------------------------------------------------------------
(* The state of an application *)

UiTypes == ui \in [Node -> State]

\* The stream an application can stop is that of its peer connection, and the
\* streams it cannot stop are those of calls it lost track of.
Streams == \A n \in Node : /\ ui[n].stream = ui[n].pc
                           /\ ui[n].pc \in Made \cup {None}
                           /\ ui[n].mic \subseteq astray \cup ({ui[n].pc} \ {None})

\* From state v of an application to u no stream is lost, unless the peer
\* connection it belongs to is replaced.
Safe(v, u) == /\ u.stream = u.pc
              /\ u.pc \in {None, v.pc} \cup Made
              /\ \A x \in u.mic : x = u.pc \/ (x \in v.mic /\ (x # v.pc \/ u.pc # None))

\* No stream of n is lost, and nothing happens to another application.
Follows(n) == /\ \A q \in Node \ {n} : ui'[q] = ui[q]
              /\ ui'[n].stream = ui'[n].pc
              /\ ui'[n].pc \in {None, ui[n].pc} \cup Made
              /\ \A x \in ui'[n].mic :
                   x = ui'[n].pc \/ (x \in ui[n].mic /\ (x # ui[n].pc \/ ui'[n].pc # None))

\* The variables of CallApp keep their types, calls stay made.
Proceeds(n) == /\ EngineTypes' /\ UiTypes' /\ Follows(n)
               /\ \A c \in Made : c \in Made'

LEMMA SameMade == ASSUME party' = party PROVE Made' = Made
BY DEF Made

LEMMA SameStreams ==
  ASSUME NEW v, NEW u, v.stream = v.pc, u.pc = v.pc, u.stream = v.stream, u.mic = v.mic
  PROVE  Safe(v, u)
BY DEF Safe

LEMMA RequestsFacts ==
  /\ \A s \in Signals, c \in CallId : Ask(s, c) \in Request /\ Await(s, c) \in Request
  /\ \A m \in Node : Leave(m) \in Request
BY DEF Ask, Await, Leave, Request

LEMMA BecomesFacts ==
  ASSUME EngineTypes, UiTypes, NEW n \in Node, NEW u \in State, Safe(ui[n], u),
         NEW new \in SUBSET Request, Becomes(n, u, new)
  PROVE  /\ UiTypes' /\ Follows(n) /\ cmds' \in [Node -> SUBSET Request]
         /\ UNCHANGED <<active, reading, link, wire>>
<1>1. ui' = [ui EXCEPT ![n] = u] /\ UNCHANGED <<active, reading, link, wire>>
  BY DEF Becomes
<1>2. UiTypes' /\ ui'[n] = u /\ \A q \in Node \ {n} : ui'[q] = ui[q]
  BY <1>1 DEF UiTypes
<1>3. Follows(n)  BY <1>2 DEF Follows, Safe
<1>4. cmds' \in [Node -> SUBSET Request]
  BY DEF Becomes, EngineTypes
<1>5. QED  BY <1>1, <1>2, <1>3, <1>4

LEMMA ActsFacts ==
  ASSUME EngineTypes, UiTypes, NEW n \in Node, NEW u \in State, Safe(ui[n], u),
         NEW new \in SUBSET Request, Acts(n, u, new),
         UNCHANGED <<party, breaks>>
  PROVE  Proceeds(n)
<1>1. Becomes(n, u, new) /\ UNCHANGED <<replies, events>>  BY DEF Acts
<1>2. QED  BY <1>1, BecomesFacts, SameMade DEF EngineTypes, Proceeds

LEMMA BreaksFacts ==
  ASSUME EngineTypes, breaks < MaxBreaks, breaks' = breaks + 1
  PROVE  breaks' \in 0 .. MaxBreaks
BY CallAssumption DEF EngineTypes

LEMMA LeavesFacts ==
  ASSUME EngineTypes, UiTypes, NEW n \in Node, NEW u \in State, Safe(ui[n], u),
         NEW new \in SUBSET Request, Acts(n, u, new),
         breaks < MaxBreaks, breaks' = breaks + 1, UNCHANGED party
  PROVE  Proceeds(n)
<1>1. Becomes(n, u, new) /\ UNCHANGED <<replies, events>>  BY DEF Acts
<1>2. breaks' \in 0 .. MaxBreaks  BY BreaksFacts
<1>3. QED  BY <1>1, <1>2, BecomesFacts, SameMade DEF EngineTypes, Proceeds

LEMMA StartsFacts ==
  ASSUME EngineTypes, UiTypes, NEW n \in Node, NEW m \in Node, NEW u \in State,
         Safe(ui[n], u), Fresh(n, m), Acts(n, u, {}), UNCHANGED breaks
  PROVE  Proceeds(n)
<1>1. Becomes(n, u, {}) /\ UNCHANGED <<replies, events>>  BY DEF Acts
<1>2. PICK k \in CallId : party' = [party EXCEPT ![k] = <<n, m>>]
  BY DEF Fresh
<1>3. /\ party' \in [CallId -> {<<>>} \cup (Node \X Node)]
      /\ \A c \in CallId : party'[c] = IF c = k THEN <<n, m>> ELSE party[c]
  BY <1>2 DEF EngineTypes
<1>4. \A c \in Made : c \in Made'
  <2>1. <<n, m>> # <<>>  OBVIOUS
  <2>2. QED  BY <1>3, <2>1 DEF Made
<1>5. QED  BY <1>1, <1>3, <1>4, BecomesFacts DEF EngineTypes, Proceeds

\* The event that is handled.
LEMMA HandlesFacts ==
  ASSUME EngineTypes, NEW n \in Node, NEW type, Handles(n, type)
  PROVE  /\ events[n] \in Seq(Event) /\ events[n] # <<>>
         /\ type # "peer_disconnected" => Head(events[n]).call \in CallId
<1>1. events[n] \in Seq(Event) /\ events[n] # <<>>
  BY DEF EngineTypes, Handles
<1>2. Head(events[n]) \in Event  BY <1>1
<1>3. Head(events[n]).type = type  BY DEF Handles
<1>4. QED  BY <1>1, <1>2, <1>3 DEF Event

LEMMA HandledFacts ==
  ASSUME EngineTypes, UiTypes, NEW n \in Node, NEW type, Handles(n, type),
         NEW u \in State, Safe(ui[n], u), NEW new \in SUBSET Request, Handled(n, u, new)
  PROVE  Proceeds(n)
<1>1. /\ Becomes(n, u, new) /\ events' = [events EXCEPT ![n] = Tail(@)]
      /\ UNCHANGED <<party, replies, breaks>>
  BY DEF Handled
<1>2. Tail(events[n]) \in Seq(Event)  BY HandlesFacts
<1>3. events' \in [Node -> Seq(Event)]  BY <1>1, <1>2 DEF EngineTypes
<1>4. QED  BY <1>1, <1>3, BecomesFacts, SameMade DEF EngineTypes, Proceeds

LEMMA ReturnedFacts ==
  ASSUME EngineTypes, UiTypes, NEW n \in Node, NEW r,
         NEW u \in State, Safe(ui[n], u), Returned(n, r, u)
  PROVE  Proceeds(n)
<1>1. /\ Becomes(n, u, {}) /\ replies' = [replies EXCEPT ![n] = @ \ {r}]
      /\ UNCHANGED <<party, events, breaks>>
  BY DEF Returned
<1>2. replies' \in [Node -> SUBSET Reply]  BY <1>1 DEF EngineTypes
<1>3. QED  BY <1>1, <1>2, BecomesFacts, SameMade DEF EngineTypes, Proceeds

\* Nothing in the state of an application but what a step names.
LEMMA StateFacts ==
  ASSUME NEW u \in State
  PROVE  /\ u.pending \in Calls /\ u.activeCall \in Calls
         /\ u.pc \in Calls /\ u.remote \in Calls /\ u.stream \in Calls
         /\ u.ice \in SUBSET CallId /\ u.early \in SUBSET CallId /\ u.mic \in SUBSET CallId
         /\ u.hungUp \in BOOLEAN /\ u.watching \in BOOLEAN /\ u.steps \in [CallId -> Steps]
BY DEF State, Calls

\* Helpers of both applications that leave the peer connection alone.
LEMMA HelperFacts ==
  ASSUME NEW u \in State
  PROVE  /\ CleanupCall(u) \in State /\ OnCallEndedLocal(u) \in State
         /\ FlushPendingIce(u) \in State /\ FlushAll(u) \in State
         /\ ManagerEnd(u) \in State /\ HolderEnd(u) \in State /\ Hangup(u) \in State
<1>1. CleanupCall(u) \in State
  BY DEF CleanupCall, Stopped, State
<1>2. OnCallEndedLocal(u) \in State
  BY <1>1 DEF OnCallEndedLocal, State
<1>3. FlushPendingIce(u) \in State
  BY DEF FlushPendingIce, State
<1>4. FlushAll(u) \in State
  BY DEF FlushAll, State
<1>5. ManagerEnd(u) \in State
  BY DEF ManagerEnd, State
<1>6. HolderEnd(u) \in State
  BY <1>5 DEF HolderEnd, State
<1>7. Hangup(u) \in State
  BY <1>6 DEF Hangup, State
<1>8. QED  BY <1>1, <1>2, <1>3, <1>4, <1>5, <1>6, <1>7

\* What they do to the streams.
LEMMA HelperStreams ==
  ASSUME NEW u \in State
  PROVE  /\ FlushPendingIce(u).pc = u.pc /\ FlushPendingIce(u).stream = u.stream
         /\ FlushPendingIce(u).mic = u.mic
         /\ FlushAll(u).pc = u.pc /\ FlushAll(u).stream = u.stream /\ FlushAll(u).mic = u.mic
         /\ CleanupCall(u).pc = None /\ CleanupCall(u).stream = None
         /\ CleanupCall(u).mic = u.mic \ {u.stream}
         /\ OnCallEndedLocal(u).pc = None /\ OnCallEndedLocal(u).stream = None
         /\ OnCallEndedLocal(u).mic = u.mic \ {u.stream}
         /\ ManagerEnd(u).pc = None /\ ManagerEnd(u).stream = None /\ ManagerEnd(u).mic = {}
         /\ Hangup(u).pc = None /\ Hangup(u).stream = None /\ Hangup(u).mic = {}
<1>1. /\ FlushPendingIce(u).pc = u.pc /\ FlushPendingIce(u).stream = u.stream
      /\ FlushPendingIce(u).mic = u.mic
  BY DEF FlushPendingIce, State
<1>2. FlushAll(u).pc = u.pc /\ FlushAll(u).stream = u.stream /\ FlushAll(u).mic = u.mic
  BY DEF FlushAll, State
<1>3. /\ CleanupCall(u).pc = None /\ CleanupCall(u).stream = None
      /\ CleanupCall(u).mic = u.mic \ {u.stream}
  BY DEF CleanupCall, Stopped, State
<1>4. /\ OnCallEndedLocal(u).pc = None /\ OnCallEndedLocal(u).stream = None
      /\ OnCallEndedLocal(u).mic = u.mic \ {u.stream}
  BY DEF OnCallEndedLocal, CleanupCall, Stopped, State
<1>5. ManagerEnd(u).pc = None /\ ManagerEnd(u).stream = None /\ ManagerEnd(u).mic = {}
  BY DEF ManagerEnd, State
<1>6. Hangup(u).pc = None /\ Hangup(u).stream = None /\ Hangup(u).mic = {}
  BY DEF Hangup, HolderEnd, ManagerEnd, State
<1>7. QED  BY <1>1, <1>2, <1>3, <1>4, <1>5, <1>6

\* All microphones an application knows of are closed with its call.
LEMMA EndsSafely ==
  ASSUME NEW v \in State, v.stream = v.pc, NEW u, u.pc = None, u.stream = None,
         u.mic = {} \/ u.mic = v.mic \ {v.stream}
  PROVE  Safe(v, u)
BY DEF Safe

-----------------------------------------------------------------------------
(* The desktop application *)

Holds(v) == v \in State /\ v.stream = v.pc

LEMMA DesktopEndsFacts ==
  ASSUME NEW v, Holds(v)
  PROVE  /\ OnCallEndedLocal(v) \in State /\ Safe(v, OnCallEndedLocal(v))
         /\ CleanupCall(v) \in State /\ Safe(v, CleanupCall(v))
         /\ Safe(v, v)
<1>1. OnCallEndedLocal(v) \in State /\ CleanupCall(v) \in State
  BY HelperFacts DEF Holds
<1>2. Safe(v, OnCallEndedLocal(v))  BY HelperStreams, EndsSafely DEF Holds
<1>3. Safe(v, CleanupCall(v))  BY HelperStreams, EndsSafely DEF Holds
<1>4. QED  BY <1>1, <1>2, <1>3, SameStreams DEF Holds

LEMMA DesktopUserStep ==
  ASSUME EngineTypes, UiTypes, NEW n \in Node, Holds(ui[n]), DesktopUser(n)
  PROVE  Proceeds(n)
<1> DEFINE v == ui[n]
<1>0. v \in State /\ v.stream = v.pc  BY DEF Holds
<1>1. ASSUME NEW m \in Node, StartOutgoingCall(n, m) PROVE Proceeds(n)
  <2> DEFINE w == CleanupCall(v)
             u == [w EXCEPT !.hungUp = FALSE, !.steps[NextCall] = "media"]
  <2>1. Fresh(n, m) /\ Acts(n, u, {}) /\ UNCHANGED breaks
    BY <1>1 DEF StartOutgoingCall
  <2>2. w \in State /\ w.pc = None /\ w.stream = None /\ w.mic = v.mic \ {v.stream}
    BY <1>0, HelperFacts, HelperStreams
  <2> HIDE DEF w
  <2>3. u \in State  BY <2>2 DEF State, Steps
  <2>4. u.pc = None /\ u.stream = None /\ u.mic = v.mic \ {v.stream}
    BY <2>2 DEF State
  <2> HIDE DEF u
  <2>5. Safe(v, u)  BY <1>0, <2>4, EndsSafely
  <2>6. QED  BY <2>1, <2>3, <2>5, StartsFacts
<1>2. ASSUME NEW m \in Node, DesktopDisconnects(n, m) PROVE Proceeds(n)
  <2>1. /\ breaks < MaxBreaks /\ breaks' = breaks + 1 /\ UNCHANGED party
        /\ IF InCallWith(n, m)
             THEN Acts(n, OnCallEndedLocal(v), {Ask("end", v.activeCall), Leave(m)})
             ELSE Acts(n, v, {Leave(m)})
    BY <1>2 DEF DesktopDisconnects
  <2>2. Leave(m) \in Request  BY RequestsFacts
  <2>3. CASE InCallWith(n, m)
    <3>1. v.activeCall \in CallId
      BY <1>0, <2>3, StateFacts DEF InCallWith, Calls
    <3>2. Ask("end", v.activeCall) \in Request
      BY <3>1, RequestsFacts DEF Signals
    <3>3. {Ask("end", v.activeCall), Leave(m)} \in SUBSET Request
      BY <2>2, <3>2
    <3>4. QED  BY <2>1, <2>3, <3>3, DesktopEndsFacts, LeavesFacts
  <2>4. CASE ~InCallWith(n, m)
    <3>1. {Leave(m)} \in SUBSET Request  BY <2>2
    <3>2. Acts(n, v, {Leave(m)}) /\ Safe(v, v)  BY <2>1, <2>4, DesktopEndsFacts
    <3>3. QED  BY <1>0, <2>1, <3>1, <3>2, LeavesFacts
  <2>5. QED  BY <2>3, <2>4
<1>3. CASE AnswerIncomingCall(n)
  <2> DEFINE c == v.pending
             u == [v EXCEPT !.pending = None, !.hungUp = FALSE, !.steps[c] = "media"]
  <2>1. Acts(n, u, {}) /\ UNCHANGED <<party, breaks>>
    BY <1>3 DEF AnswerIncomingCall
  <2>2. u \in State  BY <1>0 DEF State, Steps
  <2>3. u.pc = v.pc /\ u.stream = v.stream /\ u.mic = v.mic
    BY <1>0 DEF State
  <2> HIDE DEF u
  <2>4. Safe(v, u)  BY <1>0, <2>3, SameStreams
  <2>5. QED  BY <2>1, <2>2, <2>4, ActsFacts
<1>4. CASE DeclineIncomingCall(n)
  <2> DEFINE c == v.pending
             u == [v EXCEPT !.pending = None, !.early = @ \ {c}]
  <2>1. c # None /\ Acts(n, u, {Ask("end", c)}) /\ UNCHANGED <<party, breaks>>
    BY <1>4 DEF DeclineIncomingCall
  <2>2. u \in State  BY <1>0 DEF State
  <2>3. u.pc = v.pc /\ u.stream = v.stream /\ u.mic = v.mic
    BY <1>0 DEF State
  <2>4. c \in CallId  BY <1>0, <2>1, StateFacts DEF Calls
  <2>5. {Ask("end", c)} \in SUBSET Request  BY <2>4, RequestsFacts DEF Signals
  <2> HIDE DEF u, c
  <2>6. Safe(v, u)  BY <1>0, <2>3, SameStreams
  <2>7. QED  BY <2>1, <2>2, <2>5, <2>6, ActsFacts
<1>5. CASE EndActiveCall(n)
  <2> DEFINE c == v.activeCall
  <2>1. c # None /\ Acts(n, v, {Await("end", c)}) /\ UNCHANGED <<party, breaks>>
    BY <1>5 DEF EndActiveCall
  <2>2. c \in CallId  BY <1>0, <2>1, StateFacts DEF Calls
  <2>3. {Await("end", c)} \in SUBSET Request  BY <2>2, RequestsFacts DEF Signals
  <2>4. Safe(v, v)  BY DesktopEndsFacts
  <2> HIDE DEF c
  <2>5. QED  BY <1>0, <2>1, <2>3, <2>4, ActsFacts
<1>6. CASE CloseOverlay(n)
  <2>1. Acts(n, OnCallEndedLocal(v), {}) /\ UNCHANGED <<party, breaks>>
    BY <1>6 DEF CloseOverlay
  <2>2. QED  BY <2>1, DesktopEndsFacts, ActsFacts
<1>7. QED  BY <1>1, <1>2, <1>3, <1>4, <1>5, <1>6 DEF DesktopUser

\* startOutgoingCall and answerIncomingCall after their awaits.
LEMMA DesktopCallsStep ==
  ASSUME EngineTypes, UiTypes, NEW n \in Node, Holds(ui[n]), NEW c \in Made,
         MediaReady(n, c) \/ Describe(n, c) \/ DescribeFails(n, c)
  PROVE  Proceeds(n)
<1> DEFINE v == ui[n]
<1>0. v \in State /\ v.stream = v.pc /\ c \in CallId  BY DEF Holds, Made
<1>1. CASE MediaReady(n, c)
  <2> DEFINE u == [v EXCEPT !.stream = c, !.mic = @ \cup {c}, !.pc = c,
                            !.remote = IF Callee(c) = n THEN c ELSE None,
                            !.ice = {}, !.early = @ \cap {c},
                            !.steps[c] = "describe"]
  <2>1. Acts(n, u, {}) /\ UNCHANGED <<party, breaks>>
    BY <1>1 DEF MediaReady
  <2>2. u \in State
    <3> DEFINE remote == IF Callee(c) = n THEN c ELSE None
               mic    == v.mic \cup {c}
               early  == v.early \cap {c}
               steps  == [v.steps EXCEPT ![c] = "describe"]
    <3>1. remote \in Calls /\ c \in Calls  BY <1>0 DEF Calls
    <3>2. mic \in SUBSET CallId /\ early \in SUBSET CallId
      BY <1>0, StateFacts
    <3>3. steps \in [CallId -> Steps]
      BY <1>0, StateFacts DEF Steps
    <3>4. u = [v EXCEPT !.stream = c, !.mic = mic, !.pc = c, !.remote = remote,
                        !.ice = {}, !.early = early, !.steps = steps]
      BY <1>0 DEF State
    <3> HIDE DEF remote, mic, early, steps, u
    <3>5. QED  BY <1>0, <3>1, <3>2, <3>3, <3>4 DEF State, Calls
  <2>3. u.pc = c /\ u.stream = c /\ u.mic = v.mic \cup {c}
    BY <1>0 DEF State
  <2> HIDE DEF u
  <2>4. Safe(v, u)  BY <1>0, <2>3, NoneFact DEF Safe
  <2>5. QED  BY <2>1, <2>2, <2>4, ActsFacts
<1>2. CASE Describe(n, c)
  <2> DEFINE w == FlushPendingIce(v)
             u == [w EXCEPT !.steps[c] = "sending"]
             s == IF Callee(c) = n THEN "answer" ELSE "offer"
             new == {Await(s, c), Ask("ice", c)}
  <2>1. Acts(n, u, new) /\ UNCHANGED <<party, breaks>>
    BY <1>2 DEF Describe
  <2>2. w \in State /\ w.pc = v.pc /\ w.stream = v.stream /\ w.mic = v.mic
    BY <1>0, HelperFacts, HelperStreams
  <2> HIDE DEF w
  <2>3. u \in State  BY <1>0, <2>2 DEF State, Steps
  <2>4. u.pc = v.pc /\ u.stream = v.stream /\ u.mic = v.mic
    BY <2>2 DEF State
  <2>5. new \in SUBSET Request
    BY <1>0, RequestsFacts DEF Signals
  <2> HIDE DEF u, new
  <2>6. Safe(v, u)  BY <1>0, <2>4, SameStreams
  <2>7. QED  BY <2>1, <2>3, <2>5, <2>6, ActsFacts
<1>3. CASE DescribeFails(n, c)
  <2> DEFINE u == [v EXCEPT !.steps[c] = "none"]
  <2>1. Acts(n, u, {}) /\ UNCHANGED <<party, breaks>>
    BY <1>3 DEF DescribeFails
  <2>2. u \in State  BY <1>0 DEF State, Steps
  <2>3. u.pc = v.pc /\ u.stream = v.stream /\ u.mic = v.mic
    BY <1>0 DEF State
  <2> HIDE DEF u
  <2>4. Safe(v, u)  BY <1>0, <2>3, SameStreams
  <2>5. QED  BY <2>1, <2>2, <2>4, ActsFacts
<1>4. QED  BY <1>1, <1>2, <1>3

LEMMA DesktopReturnsStep ==
  ASSUME EngineTypes, UiTypes, NEW n \in Node, Holds(ui[n]), NEW r \in replies[n],
         SignalReturns(n, r) \/ EndReturns(n, r)
  PROVE  Proceeds(n)
<1> DEFINE v == ui[n]
<1>0. v \in State /\ v.stream = v.pc  BY DEF Holds
<1>1. r.call \in CallId  BY DEF EngineTypes, Reply
<1>2. CASE SignalReturns(n, r)
  <2> DEFINE u == [v EXCEPT !.steps[r.call] = "none",
                            !.activeCall = IF r.ok THEN r.call ELSE @]
  <2>1. Returned(n, r, u)  BY <1>2 DEF SignalReturns
  <2>2. u \in State  BY <1>0, <1>1 DEF State, Steps
  <2>3. u.pc = v.pc /\ u.stream = v.stream /\ u.mic = v.mic
    BY <1>0 DEF State
  <2> HIDE DEF u
  <2>4. Safe(v, u)  BY <1>0, <2>3, SameStreams
  <2>5. QED  BY <2>1, <2>2, <2>4, ReturnedFacts
<1>3. CASE EndReturns(n, r)
  <2> DEFINE u == IF r.ok THEN OnCallEndedLocal(v) ELSE v
  <2>1. Returned(n, r, u)  BY <1>3 DEF EndReturns
  <2>2. u \in State /\ Safe(v, u)  BY <1>0, DesktopEndsFacts
  <2> HIDE DEF u
  <2>3. QED  BY <2>1, <2>2, ReturnedFacts
<1>4. QED  BY <1>2, <1>3

\* handleIncomingCallSignal and handleEvent.
LEMMA DesktopEventsStep ==
  ASSUME EngineTypes, UiTypes, NEW n \in Node, Holds(ui[n]),
         \/ OnCallOffer(n) \/ OnCallAnswer(n) \/ OnCallIce(n) \/ OnCallEnded(n)
         \/ OnPeerDisconnected(n)
  PROVE  Proceeds(n)
<1> DEFINE v == ui[n]
           c == Head(events[n]).call
<1>0. v \in State /\ v.stream = v.pc /\ Safe(v, v)  BY DesktopEndsFacts DEF Holds
<1>1. ASSUME NEW type \in {"offer", "answer", "ice", "ended"}, Handles(n, type)
      PROVE  c \in CallId
  BY <1>1, HandlesFacts
<1>2. CASE OnCallOffer(n)
  <2>1. /\ Handles(n, "offer")
        /\ \/ Handled(n, v, {Ask("end", c)})
           \/ Handled(n, [v EXCEPT !.pending = c], {})
    BY <1>2 DEF OnCallOffer
  <2>2. c \in CallId  BY <1>1, <2>1
  <2>3. {Ask("end", c)} \in SUBSET Request  BY <2>2, RequestsFacts DEF Signals
  <2> DEFINE u == [v EXCEPT !.pending = c]
  <2>4. u \in State  BY <1>0, <2>2 DEF State
  <2>5. u.pc = v.pc /\ u.stream = v.stream /\ u.mic = v.mic
    BY <1>0 DEF State
  <2>6. Handled(n, v, {Ask("end", c)}) \/ Handled(n, u, {})  BY <2>1
  <2> HIDE DEF u, c
  <2>7. Safe(v, u)  BY <1>0, <2>5, SameStreams
  <2>8. QED  BY <1>0, <2>1, <2>3, <2>4, <2>6, <2>7, HandledFacts
<1>3. CASE OnCallAnswer(n)
  <2> DEFINE w == [v EXCEPT !.remote = c]
             u == IF v.pc = c THEN FlushPendingIce(w) ELSE v
  <2>1. Handles(n, "answer") /\ Handled(n, u, {})
    BY <1>3 DEF OnCallAnswer
  <2>2. c \in CallId  BY <1>1, <2>1
  <2>3. w \in State /\ w.pc = v.pc /\ w.stream = v.stream /\ w.mic = v.mic
    BY <1>0, <2>2 DEF State
  <2> HIDE DEF w, c
  <2>4. /\ FlushPendingIce(w) \in State /\ FlushPendingIce(w).pc = v.pc
        /\ FlushPendingIce(w).stream = v.stream /\ FlushPendingIce(w).mic = v.mic
    BY <2>3, HelperFacts, HelperStreams
  <2>5. Safe(v, FlushPendingIce(w))  BY <1>0, <2>4, SameStreams
  <2>6. u \in State /\ Safe(v, u)  BY <1>0, <2>4, <2>5
  <2> HIDE DEF u
  <2>7. QED  BY <2>1, <2>6, HandledFacts
<1>4. CASE OnCallIce(n)
  <2> DEFINE u == IF v.pc = c /\ v.remote # None
                    THEN [v EXCEPT !.ice = @ \cup {c}]
                    ELSE [v EXCEPT !.early = @ \cup {c}]
  <2>1. Handles(n, "ice") /\ Handled(n, u, {})
    BY <1>4 DEF OnCallIce
  <2>2. c \in CallId  BY <1>1, <2>1
  <2>3. u \in State  BY <1>0, <2>2 DEF State
  <2>4. u.pc = v.pc /\ u.stream = v.stream /\ u.mic = v.mic
    BY <1>0 DEF State
  <2> HIDE DEF u
  <2>5. Safe(v, u)  BY <1>0, <2>4, SameStreams
  <2>6. QED  BY <2>1, <2>3, <2>5, HandledFacts
<1>5. CASE OnCallEnded(n)
  <2> DEFINE u == IF Concerns(n, c) THEN OnCallEndedLocal(v) ELSE v
  <2>1. Handles(n, "ended") /\ Handled(n, u, {})
    BY <1>5 DEF OnCallEnded
  <2>2. u \in State /\ Safe(v, u)  BY <1>0, DesktopEndsFacts
  <2> HIDE DEF u
  <2>3. QED  BY <2>1, <2>2, HandledFacts
<1>6. CASE OnPeerDisconnected(n)
  <2> DEFINE u == IF InCallWith(n, Head(events[n]).peer) THEN OnCallEndedLocal(v) ELSE v
  <2>1. Handles(n, "peer_disconnected") /\ Handled(n, u, {})
    BY <1>6 DEF OnPeerDisconnected
  <2>2. u \in State /\ Safe(v, u)  BY <1>0, DesktopEndsFacts
  <2> HIDE DEF u
  <2>3. QED  BY <2>1, <2>2, HandledFacts
<1>7. QED  BY <1>2, <1>3, <1>4, <1>5, <1>6

LEMMA DesktopWorksStep ==
  ASSUME EngineTypes, UiTypes, NEW n \in Node, Holds(ui[n]), DesktopWorks(n)
  PROVE  Proceeds(n)
BY DesktopCallsStep, DesktopReturnsStep, DesktopEventsStep DEF DesktopWorks

LEMMA DesktopMediaStep ==
  ASSUME EngineTypes, UiTypes, NEW n \in Node, Holds(ui[n]), MediaFails(n),
         OnConnectionStateChange(n), UNCHANGED breaks
  PROVE  Proceeds(n)
<1> DEFINE v == ui[n]
<1>1. Acts(n, OnCallEndedLocal(v), {Ask("end", v.pc)}) /\ UNCHANGED party
  BY DEF OnConnectionStateChange
<1>2. v.pc \in CallId  BY StateFacts DEF MediaFails, Holds, Calls
<1>3. {Ask("end", v.pc)} \in SUBSET Request  BY <1>2, RequestsFacts DEF Signals
<1>4. QED  BY <1>1, <1>3, DesktopEndsFacts, ActsFacts

-----------------------------------------------------------------------------
(* The Android application *)

LEMMA HangupFacts ==
  ASSUME NEW v, Holds(v)
  PROVE  /\ Hangup(v) \in State /\ Safe(v, Hangup(v)) /\ Safe(v, v)
         /\ v.activeCall # None => NotifyRemote(v) \in SUBSET Request
<1>1. Hangup(v) \in State  BY HelperFacts DEF Holds
<1>2. Safe(v, Hangup(v))  BY HelperStreams, EndsSafely DEF Holds
<1>3. Safe(v, v)  BY SameStreams DEF Holds
<1>4. ASSUME v.activeCall # None PROVE NotifyRemote(v) \in SUBSET Request
  <2>1. v.activeCall \in CallId  BY <1>4, StateFacts DEF Holds, Calls
  <2>2. QED  BY <2>1, RequestsFacts DEF NotifyRemote, Signals
<1>5. QED  BY <1>1, <1>2, <1>3, <1>4

LEMMA AndroidUserStep ==
  ASSUME EngineTypes, UiTypes, NEW n \in Node, Holds(ui[n]), AndroidUser(n)
  PROVE  Proceeds(n)
<1> DEFINE v == ui[n]
<1>0. v \in State /\ v.stream = v.pc  BY DEF Holds
<1>1. ASSUME NEW m \in Node, StartOutgoing(n, m) PROVE Proceeds(n)
  <2> DEFINE u == [v EXCEPT !.steps[NextCall] = "media"]
  <2>1. Fresh(n, m) /\ Acts(n, u, {}) /\ UNCHANGED breaks
    BY <1>1 DEF StartOutgoing
  <2>2. u \in State  BY <1>0 DEF State, Steps
  <2>3. u.pc = v.pc /\ u.stream = v.stream /\ u.mic = v.mic
    BY <1>0 DEF State
  <2> HIDE DEF u
  <2>4. Safe(v, u)  BY <1>0, <2>3, SameStreams
  <2>5. QED  BY <2>1, <2>2, <2>4, StartsFacts
<1>2. ASSUME NEW m \in Node, SoftDisconnect(n, m) PROVE Proceeds(n)
  <2>1. /\ breaks < MaxBreaks /\ breaks' = breaks + 1 /\ UNCHANGED party
        /\ IF InCallWith(n, m)
             THEN Acts(n, Hangup(v), NotifyRemote(v) \cup {Leave(m)})
             ELSE Acts(n, v, {Leave(m)})
    BY <1>2 DEF SoftDisconnect
  <2>2. Leave(m) \in Request  BY RequestsFacts
  <2>3. CASE InCallWith(n, m)
    <3>1. NotifyRemote(v) \in SUBSET Request
      BY <2>3, HangupFacts DEF InCallWith
    <3>2. NotifyRemote(v) \cup {Leave(m)} \in SUBSET Request
      BY <2>2, <3>1
    <3>3. QED  BY <2>1, <2>3, <3>2, HangupFacts, LeavesFacts
  <2>4. CASE ~InCallWith(n, m)
    <3>1. {Leave(m)} \in SUBSET Request  BY <2>2
    <3>2. Acts(n, v, {Leave(m)}) /\ Safe(v, v)  BY <2>1, <2>4, HangupFacts
    <3>3. QED  BY <1>0, <2>1, <3>1, <3>2, LeavesFacts
  <2>5. QED  BY <2>3, <2>4
<1>3. CASE AcceptCall(n)
  <2> DEFINE c == v.pending
             u == [v EXCEPT !.pending = None, !.steps[c] = "media"]
  <2>1. Acts(n, u, {}) /\ UNCHANGED <<party, breaks>>
    BY <1>3 DEF AcceptCall
  <2>2. u \in State  BY <1>0 DEF State, Steps
  <2>3. u.pc = v.pc /\ u.stream = v.stream /\ u.mic = v.mic
    BY <1>0 DEF State
  <2> HIDE DEF u
  <2>4. Safe(v, u)  BY <1>0, <2>3, SameStreams
  <2>5. QED  BY <2>1, <2>2, <2>4, ActsFacts
<1>4. CASE DeclineCall(n)
  <2> DEFINE c == v.pending
             u == [v EXCEPT !.pending = None]
  <2>1. c # None /\ Acts(n, u, {Ask("end", c)}) /\ UNCHANGED <<party, breaks>>
    BY <1>4 DEF DeclineCall
  <2>2. u \in State  BY <1>0 DEF State
  <2>3. u.pc = v.pc /\ u.stream = v.stream /\ u.mic = v.mic
    BY <1>0 DEF State
  <2>4. c \in CallId  BY <1>0, <2>1, StateFacts DEF Calls
  <2>5. {Ask("end", c)} \in SUBSET Request  BY <2>4, RequestsFacts DEF Signals
  <2> HIDE DEF u, c
  <2>6. Safe(v, u)  BY <1>0, <2>3, SameStreams
  <2>7. QED  BY <2>1, <2>2, <2>5, <2>6, ActsFacts
<1>5. CASE HangUp(n)
  <2>1. /\ v.activeCall # None
        /\ Acts(n, Hangup(v), NotifyRemote(v)) /\ UNCHANGED <<party, breaks>>
    BY <1>5 DEF HangUp
  <2>2. QED  BY <2>1, HangupFacts, ActsFacts
<1>6. QED  BY <1>1, <1>2, <1>3, <1>4, <1>5 DEF AndroidUser

\* The coroutines that start or answer a call.
LEMMA AndroidCallsStep ==
  ASSUME EngineTypes, UiTypes, NEW n \in Node, Holds(ui[n]), NEW c \in Made,
         CreatePeer(n, c) \/ CreateDescription(n, c) \/ CreateFails(n, c) \/ OnState(n, c)
  PROVE  Proceeds(n)
<1> DEFINE v == ui[n]
<1>0. v \in State /\ v.stream = v.pc /\ c \in CallId  BY DEF Holds, Made
<1>1. CASE CreatePeer(n, c)
  <2> DEFINE w == ManagerEnd(v)
             watching == Caller(c) = n
             mic == {c}
             u == [w EXCEPT !.pc = c, !.mic = mic, !.stream = c,
                            !.watching = watching, !.steps[c] = "describe"]
  <2>1. Acts(n, u, {}) /\ UNCHANGED <<party, breaks>>
    BY <1>1 DEF CreatePeer
  <2>2. w \in State  BY <1>0, HelperFacts
  <2>3. watching \in BOOLEAN /\ mic \in SUBSET CallId /\ c \in Calls
    BY <1>0 DEF Calls
  <2> HIDE DEF w, watching
  <2>4. u.pc = c /\ u.stream = c /\ u.mic = {c}
    BY <2>2 DEF State
  <2> HIDE DEF mic
  <2>5. u \in State  BY <1>0, <2>2, <2>3 DEF State, Steps, Calls
  <2> HIDE DEF u
  <2>6. Safe(v, u)  BY <2>4 DEF Safe
  <2>7. QED  BY <2>1, <2>5, <2>6, ActsFacts
<1>2. CASE CreateDescription(n, c)
  <2> DEFINE x == [v EXCEPT !.remote = c]
             w == IF Callee(c) = n THEN FlushAll(x) ELSE v
             u == [w EXCEPT !.steps[c] = "notify"]
             s == IF Callee(c) = n THEN "answer" ELSE "offer"
             new == {Ask(s, c), Ask("ice", c)}
  <2>1. Acts(n, u, new) /\ UNCHANGED <<party, breaks>>
    BY <1>2 DEF CreateDescription
  <2>2. x \in State /\ x.pc = v.pc /\ x.stream = v.stream /\ x.mic = v.mic
    BY <1>0 DEF State
  <2> HIDE DEF x
  <2>3. w \in State /\ w.pc = v.pc /\ w.stream = v.stream /\ w.mic = v.mic
    BY <1>0, <2>2, HelperFacts, HelperStreams
  <2> HIDE DEF w
  <2>4. u \in State  BY <1>0, <2>3 DEF State, Steps
  <2>5. u.pc = v.pc /\ u.stream = v.stream /\ u.mic = v.mic
    BY <2>3 DEF State
  <2>6. new \in SUBSET Request
    BY <1>0, RequestsFacts DEF Signals
  <2> HIDE DEF u, new
  <2>7. Safe(v, u)  BY <1>0, <2>5, SameStreams
  <2>8. QED  BY <2>1, <2>4, <2>6, <2>7, ActsFacts
<1>3. CASE CreateFails(n, c)
  <2> DEFINE u == [v EXCEPT !.steps[c] = "none"]
  <2>1. Acts(n, u, {}) /\ UNCHANGED <<party, breaks>>
    BY <1>3 DEF CreateFails
  <2>2. u \in State  BY <1>0 DEF State, Steps
  <2>3. u.pc = v.pc /\ u.stream = v.stream /\ u.mic = v.mic
    BY <1>0 DEF State
  <2> HIDE DEF u
  <2>4. Safe(v, u)  BY <1>0, <2>3, SameStreams
  <2>5. QED  BY <2>1, <2>2, <2>4, ActsFacts
<1>4. CASE OnState(n, c)
  <2> DEFINE u == [v EXCEPT !.steps[c] = "none", !.activeCall = c]
  <2>1. Acts(n, u, {}) /\ UNCHANGED <<party, breaks>>
    BY <1>4 DEF OnState
  <2>2. u \in State  BY <1>0 DEF State, Steps
  <2>3. u.pc = v.pc /\ u.stream = v.stream /\ u.mic = v.mic
    BY <1>0 DEF State
  <2> HIDE DEF u
  <2>4. Safe(v, u)  BY <1>0, <2>3, SameStreams
  <2>5. QED  BY <2>1, <2>2, <2>4, ActsFacts
<1>5. QED  BY <1>1, <1>2, <1>3, <1>4

LEMMA AndroidEventsStep ==
  ASSUME EngineTypes, UiTypes, NEW n \in Node, Holds(ui[n]),
         \/ RingOrReject(n) \/ HandleAnswer(n) \/ HandleIce(n) \/ CallEnded(n)
         \/ EndCallIfPeer(n)
  PROVE  Proceeds(n)
<1> DEFINE v == ui[n]
           c == Head(events[n]).call
<1>0. v \in State /\ v.stream = v.pc /\ Safe(v, v)  BY HangupFacts DEF Holds
<1>1. ASSUME NEW type \in {"offer", "answer", "ice", "ended"}, Handles(n, type)
      PROVE  c \in CallId
  BY <1>1, HandlesFacts
<1>2. CASE RingOrReject(n)
  <2> DEFINE u == [v EXCEPT !.pending = c]
  <2>1. /\ Handles(n, "offer")
        /\ Handled(n, v, {Ask("end", c)}) \/ Handled(n, u, {})
    BY <1>2 DEF RingOrReject
  <2>2. c \in CallId  BY <1>1, <2>1
  <2>3. {Ask("end", c)} \in SUBSET Request  BY <2>2, RequestsFacts DEF Signals
  <2>4. u \in State  BY <1>0, <2>2 DEF State
  <2>5. u.pc = v.pc /\ u.stream = v.stream /\ u.mic = v.mic
    BY <1>0 DEF State
  <2> HIDE DEF u, c
  <2>6. Safe(v, u)  BY <1>0, <2>5, SameStreams
  <2>7. QED  BY <1>0, <2>1, <2>3, <2>4, <2>6, HandledFacts
<1>3. CASE HandleAnswer(n)
  <2> DEFINE x == [v EXCEPT !.watching = TRUE, !.activeCall = c]
             w == [x EXCEPT !.remote = c]
             u == IF x.pc = None THEN x ELSE FlushAll(w)
  <2>1. Handles(n, "answer") /\ Handled(n, u, {})
    BY <1>3 DEF HandleAnswer
  <2>2. c \in CallId  BY <1>1, <2>1
  <2>3. x \in State /\ x.pc = v.pc /\ x.stream = v.stream /\ x.mic = v.mic
    BY <1>0, <2>2 DEF State
  <2> HIDE DEF x
  <2>4. w \in State /\ w.pc = v.pc /\ w.stream = v.stream /\ w.mic = v.mic
    BY <2>2, <2>3 DEF State
  <2> HIDE DEF w, c
  <2>5. u \in State /\ u.pc = v.pc /\ u.stream = v.stream /\ u.mic = v.mic
    BY <2>3, <2>4, HelperFacts, HelperStreams
  <2> HIDE DEF u
  <2>6. Safe(v, u)  BY <1>0, <2>5, SameStreams
  <2>7. QED  BY <2>1, <2>5, <2>6, HandledFacts
<1>4. CASE HandleIce(n)
  <2> DEFINE x == [v EXCEPT !.watching = TRUE]
             u == IF x.pc # None /\ x.remote # None
                    THEN [x EXCEPT !.ice = @ \cup {c}]
                    ELSE [x EXCEPT !.early = @ \cup {c}]
  <2>1. Handles(n, "ice") /\ Handled(n, u, {})
    BY <1>4 DEF HandleIce
  <2>2. c \in CallId  BY <1>1, <2>1
  <2>3. x \in State /\ x.pc = v.pc /\ x.stream = v.stream /\ x.mic = v.mic
    BY <1>0 DEF State
  <2> HIDE DEF x
  <2>4. u \in State  BY <2>2, <2>3 DEF State
  <2>5. u.pc = v.pc /\ u.stream = v.stream /\ u.mic = v.mic
    BY <2>3 DEF State
  <2> HIDE DEF u
  <2>6. Safe(v, u)  BY <1>0, <2>5, SameStreams
  <2>7. QED  BY <2>1, <2>4, <2>6, HandledFacts
<1>5. CASE CallEnded(n)
  <2> DEFINE u == IF ShouldEnd(n, c) THEN Hangup(v) ELSE v
  <2>1. Handles(n, "ended") /\ Handled(n, u, {})
    BY <1>5 DEF CallEnded
  <2>2. u \in State /\ Safe(v, u)  BY <1>0, HangupFacts
  <2> HIDE DEF u
  <2>3. QED  BY <2>1, <2>2, HandledFacts
<1>6. CASE EndCallIfPeer(n)
  <2> DEFINE u == IF InCallWith(n, Head(events[n]).peer) THEN Hangup(v) ELSE v
  <2>1. Handles(n, "peer_disconnected") /\ Handled(n, u, {})
    BY <1>6 DEF EndCallIfPeer
  <2>2. u \in State /\ Safe(v, u)  BY <1>0, HangupFacts
  <2> HIDE DEF u
  <2>3. QED  BY <2>1, <2>2, HandledFacts
<1>7. QED  BY <1>2, <1>3, <1>4, <1>5, <1>6

LEMMA AndroidWorksStep ==
  ASSUME EngineTypes, UiTypes, NEW n \in Node, Holds(ui[n]), AndroidWorks(n)
  PROVE  Proceeds(n)
BY AndroidCallsStep, AndroidEventsStep DEF AndroidWorks

LEMMA AndroidMediaStep ==
  ASSUME EngineTypes, UiTypes, NEW n \in Node, Holds(ui[n]),
         OnIceConnectionChange(n), UNCHANGED breaks
  PROVE  Proceeds(n)
<1>1. /\ ui[n].activeCall # None
      /\ Acts(n, Hangup(ui[n]), NotifyRemote(ui[n])) /\ UNCHANGED party
  BY DEF OnIceConnectionChange, AndroidReports
<1>2. QED  BY <1>1, HangupFacts, ActsFacts

-----------------------------------------------------------------------------
(* The whole *)

CallInv == CallTypes /\ Streams

LEMMA CallInit == Init => CallInv
<1> SUFFICES ASSUME Init PROVE CallInv
  OBVIOUS
<1> USE DEF Init, EngineInit, AppInit
<1>1. EngineTypes
  <2>1. party \in [CallId -> {<<>>} \cup (Node \X Node)]  OBVIOUS
  <2>2. active \in Tables /\ reading \in Tables  BY DEF Tables, Calls
  <2>3. link \in Links  BY DEF Links
  <2>4. <<>> \in Seq(Signal) /\ <<>> \in Seq(Event)  OBVIOUS
  <2>5. wire \in Wires  BY <2>4 DEF Wires
  <2>6. cmds \in [Node -> SUBSET Request] /\ replies \in [Node -> SUBSET Reply]
    OBVIOUS
  <2>7. events \in [Node -> Seq(Event)]  BY <2>4
  <2>8. breaks \in 0 .. MaxBreaks  BY CallAssumption
  <2>9. QED  BY <2>1, <2>2, <2>3, <2>5, <2>6, <2>7, <2>8 DEF EngineTypes
<1>2. Idle \in State
  BY DEF Idle, State, Steps
<1>3. AppTypes /\ Counts
  BY <1>2, SignalingAssumption DEF AppTypes, Counts
<1>4. Streams
  BY <1>2 DEF Streams, Idle
<1>5. QED  BY <1>1, <1>3, <1>4 DEF CallInv, CallTypes

LEMMA HappensFacts ==
  ASSUME Counts, NEW busy, Happens(busy)
  PROVE  overlaps' \in 0 .. MaxOverlaps
BY SignalingAssumption DEF Counts, Happens

\* Whoever moves, the types are kept and at most one application follows.
LEMMA StepFacts ==
  ASSUME CallInv, Next
  PROVE  /\ CallTypes'
         /\ \A c \in Made : c \in Made'
         /\ ui' = ui \/ \E n \in Node : Follows(n)
<1>0. /\ EngineTypes /\ UiTypes /\ Counts /\ app \in [Node -> Apps]
      /\ \A n \in Node : Holds(ui[n])
  BY DEF CallInv, CallTypes, AppTypes, UiTypes, Streams, Holds
<1>1. astray' \subseteq CallId
  BY <1>0 DEF Next, Made, Counts
<1>2. ASSUME app' = app, faults' \in 0 .. MaxFaults, overlaps' \in 0 .. MaxOverlaps,
             NEW n \in Node, Proceeds(n)
      PROVE  /\ CallTypes' /\ \A c \in Made : c \in Made'
             /\ ui' = ui \/ \E q \in Node : Follows(q)
  BY <1>0, <1>1, <1>2 DEF Proceeds, CallTypes, AppTypes, UiTypes, Counts
<1>3. ASSUME app' = app, faults' \in 0 .. MaxFaults, overlaps' \in 0 .. MaxOverlaps,
             ui' = ui, party' = party, EngineTypes'
      PROVE  /\ CallTypes' /\ \A c \in Made : c \in Made'
             /\ ui' = ui \/ \E q \in Node : Follows(q)
  BY <1>0, <1>1, <1>3, SameMade DEF CallTypes, AppTypes, UiTypes, Counts
<1>4. ASSUME NEW n \in Node, Works(n)
      PROVE  /\ CallTypes' /\ \A c \in Made : c \in Made'
             /\ ui' = ui \/ \E q \in Node : Follows(q)
  <2>1. /\ app' = app /\ faults' \in 0 .. MaxFaults /\ overlaps' \in 0 .. MaxOverlaps
        /\ \/ EngineWorks(n) /\ ui' = ui
           \/ DesktopWorks(n) \/ AndroidWorks(n)
    BY <1>0, <1>4 DEF Works, Counts
  <2>2. CASE EngineWorks(n) /\ ui' = ui
    BY <1>0, <1>3, <2>1, <2>2, EngineWorksStep
  <2>3. CASE DesktopWorks(n) \/ AndroidWorks(n)
    <3>1. Proceeds(n)  BY <1>0, <2>3, DesktopWorksStep, AndroidWorksStep
    <3>2. QED  BY <1>2, <2>1, <3>1
  <2>4. QED  BY <2>1, <2>2, <2>3
<1>5. ASSUME NEW n \in Node, User(n)
      PROVE  /\ CallTypes' /\ \A c \in Made : c \in Made'
             /\ ui' = ui \/ \E q \in Node : Follows(q)
  <2>1. /\ app' = app /\ faults' \in 0 .. MaxFaults /\ Happens(Busy(n))
        /\ DesktopUser(n) \/ AndroidUser(n)
    BY <1>0, <1>5 DEF User, Counts
  <2>2. Proceeds(n)  BY <1>0, <2>1, DesktopUserStep, AndroidUserStep
  <2>3. overlaps' \in 0 .. MaxOverlaps  BY <1>0, <2>1, HappensFacts
  <2>4. QED  BY <1>2, <2>1, <2>2, <2>3
<1>6. ASSUME NEW n \in Node, Arrives(n)
      PROVE  /\ CallTypes' /\ \A c \in Made : c \in Made'
             /\ ui' = ui \/ \E q \in Node : Follows(q)
  <2>1. /\ app' = app /\ faults' \in 0 .. MaxFaults /\ Happens(Busy(n))
        /\ ui' = ui /\ Receives(n)
    BY <1>0, <1>6 DEF Arrives, Counts
  <2>2. EngineTypes' /\ party' = party  BY <1>0, <2>1, ReceivesStep
  <2>3. overlaps' \in 0 .. MaxOverlaps  BY <1>0, <2>1, HappensFacts
  <2>4. QED  BY <1>3, <2>1, <2>2, <2>3
<1>7. ASSUME NEW n \in Node, LosesMedia(n)
      PROVE  /\ CallTypes' /\ \A c \in Made : c \in Made'
             /\ ui' = ui \/ \E q \in Node : Follows(q)
  <2>1. /\ MediaFails(n) /\ app' = app /\ UNCHANGED breaks
        /\ Happens((\E m \in Node : Busy(m)) \/ OnTheWire(n, PeerOf(n, ui[n].pc)))
        /\ faults' = faults + IF Joined(n) THEN 1 ELSE 0
        /\ OnConnectionStateChange(n) \/ OnIceConnectionChange(n)
    BY <1>7 DEF LosesMedia
  <2>2. Joined(n) => faults < MaxFaults  BY <2>1 DEF MediaFails
  <2>3. faults' \in 0 .. MaxFaults
    BY <1>0, <2>1, <2>2, SignalingAssumption DEF Counts
  <2>4. overlaps' \in 0 .. MaxOverlaps  BY <1>0, <2>1, HappensFacts
  <2>5. Proceeds(n)  BY <1>0, <2>1, DesktopMediaStep, AndroidMediaStep
  <2>6. QED  BY <1>2, <2>1, <2>3, <2>4, <2>5
<1>8. ASSUME Network
      PROVE  /\ CallTypes' /\ \A c \in Made : c \in Made'
             /\ ui' = ui \/ \E q \in Node : Follows(q)
  <2>1. /\ LinkChanges /\ ui' = ui /\ app' = app
        /\ faults' \in 0 .. MaxFaults /\ overlaps' \in 0 .. MaxOverlaps
    BY <1>0, <1>8 DEF Network, Counts
  <2>2. QED  BY <1>0, <1>3, <2>1, LinkStep
<1>9. QED  BY <1>4, <1>5, <1>6, <1>7, <1>8 DEF Next

LEMMA CallStep == CallInv /\ [Next]_vars => CallInv'
<1> SUFFICES ASSUME CallInv, [Next]_vars PROVE CallInv'
  OBVIOUS
<1>1. CASE Next
  <2>1. /\ CallTypes' /\ \A c \in Made : c \in Made'
        /\ ui' = ui \/ \E n \in Node : Follows(n)
    BY <1>1, StepFacts
  <2>2. /\ \A x \in astray : x \in astray'
        /\ \A c \in Made : LosesTrack(c) => c \in astray'
    BY <1>1 DEF Next
  <2>3. ASSUME NEW q \in Node, ui'[q] = ui[q]
        PROVE  /\ ui'[q].stream = ui'[q].pc
               /\ ui'[q].pc \in Made' \cup {None}
               /\ ui'[q].mic \subseteq astray' \cup ({ui'[q].pc} \ {None})
    BY <2>1, <2>2, <2>3 DEF CallInv, Streams
  <2>4. ASSUME NEW n \in Node, Follows(n)
        PROVE  /\ ui'[n].stream = ui'[n].pc
               /\ ui'[n].pc \in Made' \cup {None}
               /\ ui'[n].mic \subseteq astray' \cup ({ui'[n].pc} \ {None})
    <3>1. /\ ui'[n].stream = ui'[n].pc
          /\ ui'[n].pc \in Made' \cup {None}
      BY <2>1, <2>4 DEF Follows, CallInv, Streams
    <3>2. ASSUME NEW x \in ui'[n].mic, x # ui'[n].pc
          PROVE  x \in astray'
      <4>1. x \in ui[n].mic /\ (x # ui[n].pc \/ ui'[n].pc # None)
        BY <2>4, <3>2 DEF Follows
      <4>2. CASE x # ui[n].pc
        BY <2>2, <4>1, <4>2 DEF CallInv, Streams
      <4>3. CASE x = ui[n].pc
        <5>1. x \in CallId
          BY <4>1, StateFacts DEF CallInv, CallTypes, AppTypes
        <5>2. x \in Made  BY <4>3, <5>1, NoneFact DEF CallInv, Streams
        <5>3. Collides(n, x)
          BY <3>2, <4>1, <4>3 DEF Collides
        <5>4. QED  BY <2>2, <5>2, <5>3 DEF LosesTrack
      <4>4. QED  BY <4>2, <4>3
    <3>3. None \notin ui'[n].mic
      <4>1. ui'[n] \in State  BY <2>1 DEF CallTypes, AppTypes
      <4>2. QED  BY <4>1, StateFacts, NoneFact
    <3>4. QED  BY <3>1, <3>2, <3>3
  <2>5. Streams'
    <3>1. CASE ui' = ui
      BY <2>3, <3>1 DEF Streams
    <3>2. ASSUME NEW n \in Node, Follows(n) PROVE Streams'
      <4>1. \A q \in Node \ {n} : ui'[q] = ui[q]
        BY <3>2 DEF Follows
      <4>2. QED  BY <2>3, <2>4, <3>2, <4>1 DEF Streams
    <3>3. QED  BY <2>1, <3>1, <3>2
  <2>6. QED  BY <2>1, <2>5 DEF CallInv
<1>2. CASE UNCHANGED vars
  BY <1>2 DEF vars, engineVars, CallInv, CallTypes, EngineTypes, AppTypes, Counts,
     Streams, Made
<1>3. QED  BY <1>1, <1>2

\* The engines and the applications keep their types whatever users, engines,
\* links and media do.
THEOREM TypeCorrect == Spec => []TypeOK
<1>1. CallInv => TypeOK  BY TypeParts DEF CallInv
<1>2. QED  BY <1>1, CallInit, CallStep, PTL DEF Spec

\* No microphone or camera is ever open that the application can no longer
\* stop, but for a call whose peer connection was replaced by another's.
THEOREM MicrophonesClosed == Spec => []MicrophoneClosed
<1>1. CallInv => MicrophoneClosed
  BY DEF CallInv, Streams, MicrophoneClosed
<1>2. QED  BY <1>1, CallInit, CallStep, PTL DEF Spec

-----------------------------------------------------------------------------
(* What an application does, whichever of the two it is *)

\* n moves and asks its engine for new, nobody else does anything.
Turn(n, new) == /\ \A q \in Node \ {n} : ui'[q] = ui[q]
                /\ cmds' = [cmds EXCEPT ![n] = @ \cup new]
                /\ UNCHANGED <<active, reading, link, wire>>
Silent     == UNCHANGED <<replies, events>>
Hearing(n) == /\ events' = [events EXCEPT ![n] = Tail(@)]
              /\ UNCHANGED <<party, replies, breaks>>

\* What there is of the calls in state v of an application is there in u.
SameCalls(v, u) == /\ u.pending = v.pending /\ u.activeCall = v.activeCall
                   /\ u.pc = v.pc /\ u.remote = v.remote
SameIce(v, u)   == /\ u.ice = v.ice /\ u.early = v.early
SameWatch(v, u) == u.hungUp = v.hungUp /\ u.watching = v.watching
Same(v, u) == SameCalls(v, u) /\ SameIce(v, u) /\ SameWatch(v, u) /\ u.steps = v.steps
Step(v, u, c, s) == u.steps = [v.steps EXCEPT ![c] = s]

Closed(u) == /\ u.pending = None /\ u.activeCall = None
             /\ u.pc = None /\ u.remote = None /\ u.ice = {} /\ u.early = {}
Reset(v, u) == Closed(u) /\ u.steps = v.steps

\* flushPendingIce
Flushed(v, u) == IF u.remote = None THEN SameIce(v, u)
                 ELSE /\ u.ice = v.ice \cup (v.early \cap {u.pc})
                      /\ u.early = v.early \ {u.pc}

Dials(n) ==
  LET v == ui[n]  u == ui'[n]
  IN \E m \in Node \ {n} :
       /\ Fresh(n, m) /\ Turn(n, {}) /\ Silent /\ UNCHANGED breaks
       /\ v.pending = None /\ v.activeCall = None
       /\ Step(v, u, NextCall, "media")
       /\ \/ ~Desktop(n) /\ SameCalls(v, u) /\ u.watching = v.watching
          \/ Desktop(n) /\ Closed(u) /\ ~u.hungUp

Picks(n) ==
  LET v == ui[n]  u == ui'[n]  c == v.pending
  IN /\ c # None /\ Turn(n, {}) /\ Silent /\ UNCHANGED <<party, breaks>>
     /\ u.pending = None /\ u.activeCall = v.activeCall
     /\ u.pc = v.pc /\ u.remote = v.remote /\ SameIce(v, u)
     /\ u.watching = v.watching /\ (Desktop(n) => ~u.hungUp)
     /\ Step(v, u, c, "media")

Declines(n) ==
  LET v == ui[n]  u == ui'[n]  c == v.pending
  IN /\ c # None /\ Turn(n, {Ask("end", c)}) /\ Silent /\ UNCHANGED <<party, breaks>>
     /\ u.pending = None /\ u.activeCall = v.activeCall
     /\ u.pc = v.pc /\ u.remote = v.remote /\ SameWatch(v, u)
     /\ u.ice = v.ice /\ (Desktop(n) => u.early = v.early \ {c})
     /\ u.steps = v.steps

AsksToEnd(n) ==
  LET v == ui[n]  u == ui'[n]  c == v.activeCall
  IN /\ Desktop(n) /\ c # None /\ Turn(n, {Await("end", c)}) /\ Silent
     /\ UNCHANGED <<party, breaks>> /\ Same(v, u)

\* A disconnect, from inside a call with the peer or not.
Leaves(n) ==
  LET v == ui[n]  u == ui'[n]
  IN \E m \in Node :
       /\ Silent /\ breaks < MaxBreaks /\ breaks' = breaks + 1 /\ UNCHANGED party
       /\ \/ /\ InCallWith(n, m) /\ Turn(n, {Ask("end", v.activeCall), Leave(m)})
             /\ Reset(v, u)
          \/ ~InCallWith(n, m) /\ Turn(n, {Leave(m)}) /\ Same(v, u)

HangsUp(n) ==
  LET v == ui[n]  u == ui'[n]
  IN /\ Silent /\ UNCHANGED <<party, breaks>>
     /\ v.activeCall # None /\ Turn(n, {Ask("end", v.activeCall)}) /\ Reset(v, u)

CutsOff(n) ==
  LET v == ui[n]  u == ui'[n]
  IN /\ Desktop(n) /\ Silent /\ UNCHANGED <<party, breaks>>
     /\ v.pc # None /\ v.remote # None
     /\ Turn(n, {Ask("end", v.pc)}) /\ Reset(v, u)

Closes(n) ==
  LET v == ui[n]  u == ui'[n]
  IN /\ Desktop(n) /\ Silent /\ UNCHANGED <<party, breaks>>
     /\ v.activeCall = None /\ v.pc # None /\ Turn(n, {}) /\ Reset(v, u)

GetsMedia(n, c) ==
  LET v == ui[n]  u == ui'[n]
  IN /\ v.steps[c] = "media" /\ Turn(n, {}) /\ Silent /\ UNCHANGED <<party, breaks>>
     /\ u.pending = v.pending /\ u.activeCall = v.activeCall /\ u.pc = c
     /\ u.remote = IF Desktop(n) /\ Callee(c) = n THEN c ELSE None
     /\ u.hungUp = v.hungUp /\ (~Desktop(n) => (u.watching <=> Caller(c) = n))
     /\ Desktop(n) => u.ice = {} /\ u.early = v.early \cap {c}
     /\ Step(v, u, c, "describe")

Asked(n, c) == {[signal |-> IF Callee(c) = n THEN "answer" ELSE "offer",
                 call |-> c, awaited |-> Desktop(n)], Ask("ice", c)}
Describes(n, c) ==
  LET v == ui[n]  u == ui'[n]
  IN /\ v.steps[c] = "describe" /\ v.pc = c
     /\ Turn(n, Asked(n, c)) /\ Silent /\ UNCHANGED <<party, breaks>>
     /\ u.pending = v.pending /\ u.activeCall = v.activeCall /\ u.pc = v.pc
     /\ u.remote = IF ~Desktop(n) /\ Callee(c) = n THEN c ELSE v.remote
     /\ SameWatch(v, u) /\ (Desktop(n) => Flushed(v, u))
     /\ Step(v, u, c, IF Desktop(n) THEN "sending" ELSE "notify")

Stumbles(n, c) ==
  LET v == ui[n]  u == ui'[n]
  IN /\ v.steps[c] = "describe" /\ v.pc # c
     /\ Turn(n, {}) /\ Silent /\ UNCHANGED <<party, breaks>>
     /\ SameCalls(v, u) /\ SameIce(v, u) /\ SameWatch(v, u) /\ Step(v, u, c, "none")

Notifies(n, c) ==
  LET v == ui[n]  u == ui'[n]
  IN /\ ~Desktop(n) /\ v.steps[c] = "notify"
     /\ Turn(n, {}) /\ Silent /\ UNCHANGED <<party, breaks>>
     /\ u.pending = v.pending /\ u.activeCall = c /\ u.pc = v.pc /\ u.remote = v.remote
     /\ SameIce(v, u) /\ SameWatch(v, u) /\ Step(v, u, c, "none")

\* The answer r of the engine.
Learned(n, r) ==
  LET v == ui[n]  u == ui'[n]
  IN /\ Desktop(n) /\ Turn(n, {}) /\ replies' = [replies EXCEPT ![n] = @ \ {r}]
     /\ UNCHANGED <<party, events, breaks>>
     /\ \/ /\ r.signal \in {"offer", "answer"}
           /\ u.pending = v.pending /\ u.pc = v.pc /\ u.remote = v.remote
           /\ u.activeCall = IF r.ok THEN r.call ELSE v.activeCall
           /\ SameIce(v, u) /\ SameWatch(v, u) /\ Step(v, u, r.call, "none")
        \/ /\ r.signal = "end"
           /\ IF r.ok THEN Reset(v, u) ELSE Same(v, u)

\* The events.
Rings(n) ==
  LET v == ui[n]  u == ui'[n]  c == Head(events[n]).call
  IN /\ Handles(n, "offer") /\ Hearing(n)
     /\ \/ Turn(n, {Ask("end", c)}) /\ Same(v, u)
        \/ /\ v.pending = None /\ v.activeCall = None /\ Turn(n, {})
           /\ u.pending = c /\ u.activeCall = v.activeCall
           /\ u.pc = v.pc /\ u.remote = v.remote
           /\ SameIce(v, u) /\ SameWatch(v, u) /\ u.steps = v.steps

HearsAnswer(n) ==
  LET v == ui[n]  u == ui'[n]  c == Head(events[n]).call
  IN /\ Handles(n, "answer") /\ Hearing(n) /\ Turn(n, {})
     /\ u.pending = v.pending /\ u.pc = v.pc /\ u.hungUp = v.hungUp /\ u.steps = v.steps
     /\ \/ /\ Desktop(n) /\ u.activeCall = v.activeCall
           /\ IF v.pc = c THEN u.remote = c /\ Flushed(v, u)
              ELSE u.remote = v.remote /\ SameIce(v, u)
        \/ /\ ~Desktop(n) /\ u.activeCall = c /\ u.watching
           /\ u.remote = IF v.pc = None THEN v.remote ELSE c

HearsIce(n) ==
  LET v == ui[n]  u == ui'[n]  c == Head(events[n]).call
  IN /\ Handles(n, "ice") /\ Hearing(n) /\ Turn(n, {})
     /\ SameCalls(v, u) /\ u.steps = v.steps /\ u.hungUp = v.hungUp
     /\ v.watching => u.watching
     /\ Desktop(n) => IF v.pc = c /\ v.remote # None
                      THEN u.ice = v.ice \cup {c} /\ u.early = v.early
                      ELSE u.ice = v.ice /\ u.early = v.early \cup {c}

HearsEnd(n) ==
  LET v == ui[n]  u == ui'[n]  c == Head(events[n]).call
  IN /\ Handles(n, "ended") /\ Hearing(n) /\ Turn(n, {})
     /\ IF v.activeCall \in {None, c} \/ PeerOf(n, v.activeCall) = PeerOf(n, c)
        THEN Reset(v, u) ELSE Same(v, u)

HearsLoss(n) ==
  LET v == ui[n]  u == ui'[n]
  IN /\ Handles(n, "peer_disconnected") /\ Hearing(n) /\ Turn(n, {})
     /\ IF InCallWith(n, Head(events[n]).peer) THEN Reset(v, u) ELSE Same(v, u)

AppMoves(n) ==
  \/ Dials(n) \/ Picks(n) \/ Declines(n) \/ AsksToEnd(n)
  \/ Leaves(n) \/ HangsUp(n) \/ CutsOff(n) \/ Closes(n)
  \/ \E c \in Made : GetsMedia(n, c) \/ Describes(n, c) \/ Stumbles(n, c) \/ Notifies(n, c)
  \/ \E r \in replies[n] : Learned(n, r)
  \/ Rings(n) \/ HearsAnswer(n) \/ HearsIce(n) \/ HearsEnd(n) \/ HearsLoss(n)

LEMMA TurnFacts ==
  ASSUME UiTypes, NEW n \in Node, NEW u, NEW new, Becomes(n, u, new)
  PROVE  Turn(n, new) /\ ui'[n] = u
BY DEF Becomes, Turn, UiTypes

LEMMA ActTurn ==
  ASSUME UiTypes, NEW n \in Node, NEW u, NEW new, Acts(n, u, new)
  PROVE  Turn(n, new) /\ Silent /\ ui'[n] = u
BY TurnFacts DEF Acts, Silent

LEMMA HandledTurn ==
  ASSUME UiTypes, NEW n \in Node, NEW u, NEW new, Handled(n, u, new)
  PROVE  Turn(n, new) /\ Hearing(n) /\ ui'[n] = u
BY TurnFacts DEF Handled, Hearing

LEMMA ReturnedTurn ==
  ASSUME UiTypes, NEW n \in Node, NEW u, NEW r, Returned(n, r, u)
  PROVE  /\ Turn(n, {}) /\ ui'[n] = u
         /\ replies' = [replies EXCEPT ![n] = @ \ {r}]
         /\ UNCHANGED <<party, events, breaks>>
BY TurnFacts DEF Returned

LEMMA ResetFacts ==
  ASSUME NEW v \in State
  PROVE  /\ Reset(v, OnCallEndedLocal(v)) /\ Reset(v, Hangup(v))
         /\ Closed(OnCallEndedLocal(v)) /\ Same(v, v)
<1>1. Reset(v, OnCallEndedLocal(v))
  BY DEF Reset, Closed, OnCallEndedLocal, CleanupCall, State
<1>2. Reset(v, Hangup(v))
  BY DEF Reset, Closed, Hangup, HolderEnd, ManagerEnd, State
<1>3. QED  BY <1>1, <1>2 DEF Reset, Same, SameCalls, SameIce, SameWatch

LEMMA FlushFacts ==
  ASSUME NEW v \in State
  PROVE  LET u == FlushPendingIce(v)
         IN /\ SameCalls(v, u) /\ SameWatch(v, u) /\ u.steps = v.steps
            /\ Flushed(v, u)
BY DEF FlushPendingIce, SameCalls, SameWatch, Flushed, SameIce, State

-----------------------------------------------------------------------------

LEMMA DesktopUserMoves ==
  ASSUME UiTypes, NEW n \in Node, Desktop(n), DesktopUser(n)
  PROVE  AppMoves(n)
<1> DEFINE v == ui[n]
           u == ui'[n]
<1>0. v \in State  BY DEF UiTypes
<1>1. ASSUME NEW m \in Node \ {n}, StartOutgoingCall(n, m) PROVE Dials(n)
  <2> DEFINE w == CleanupCall(v)
             x == [w EXCEPT !.hungUp = FALSE, !.steps[NextCall] = "media"]
  <2>1. /\ Fresh(n, m) /\ Acts(n, x, {}) /\ UNCHANGED breaks
        /\ v.pending = None /\ v.activeCall = None
    BY <1>1 DEF StartOutgoingCall
  <2>2. w \in State /\ w.pending = None /\ w.activeCall = v.activeCall
        /\ w.pc = None /\ w.remote = None /\ w.ice = {} /\ w.early = {} /\ w.steps = v.steps
    BY <1>0, HelperFacts, ZenonT(40) DEF CleanupCall, State
  <2> HIDE DEF w
  <2>3. Closed(x) /\ ~x.hungUp /\ Step(v, x, NextCall, "media")
    BY <2>1, <2>2 DEF State, Closed, Step
  <2>4. Turn(n, {}) /\ Silent /\ u = x  BY <2>1, ActTurn
  <2> HIDE DEF x
  <2>5. QED  BY <2>1, <2>3, <2>4 DEF Dials
<1>2. ASSUME NEW m \in Node \ {n}, DesktopDisconnects(n, m) PROVE Leaves(n)
  <2>1. /\ breaks < MaxBreaks /\ breaks' = breaks + 1 /\ UNCHANGED party
        /\ IF InCallWith(n, m)
             THEN Acts(n, OnCallEndedLocal(v), {Ask("end", v.activeCall), Leave(m)})
             ELSE Acts(n, v, {Leave(m)})
    BY <1>2 DEF DesktopDisconnects
  <2>2. CASE InCallWith(n, m)
    <3>1. /\ Turn(n, {Ask("end", v.activeCall), Leave(m)}) /\ Silent
          /\ u = OnCallEndedLocal(v)
      BY <2>1, <2>2, ActTurn
    <3>2. QED  BY <1>0, <2>1, <2>2, <3>1, ResetFacts DEF Leaves
  <2>3. CASE ~InCallWith(n, m)
    <3>1. Turn(n, {Leave(m)}) /\ Silent /\ u = v
      BY <2>1, <2>3, ActTurn
    <3>2. QED  BY <1>0, <2>1, <2>3, <3>1, ResetFacts DEF Leaves
  <2>4. QED  BY <2>2, <2>3
<1>3. CASE AnswerIncomingCall(n)
  <2> DEFINE c == v.pending
             x == [v EXCEPT !.pending = None, !.hungUp = FALSE, !.steps[c] = "media"]
  <2>1. c # None /\ Acts(n, x, {}) /\ UNCHANGED <<party, breaks>>
    BY <1>3 DEF AnswerIncomingCall
  <2>2. /\ x.pending = None /\ x.activeCall = v.activeCall /\ x.pc = v.pc
        /\ x.remote = v.remote /\ SameIce(v, x) /\ x.watching = v.watching
        /\ ~x.hungUp /\ Step(v, x, c, "media")
    BY <1>0 DEF State, SameIce, Step
  <2>3. Turn(n, {}) /\ Silent /\ u = x  BY <2>1, ActTurn
  <2> HIDE DEF x
  <2>4. Picks(n)  BY <2>1, <2>2, <2>3 DEF Picks
  <2>5. QED  BY <2>4 DEF AppMoves
<1>4. CASE DeclineIncomingCall(n)
  <2> DEFINE c == v.pending
             x == [v EXCEPT !.pending = None, !.early = @ \ {c}]
  <2>1. c # None /\ Acts(n, x, {Ask("end", c)}) /\ UNCHANGED <<party, breaks>>
    BY <1>4 DEF DeclineIncomingCall
  <2>2. /\ x.pending = None /\ x.activeCall = v.activeCall /\ x.pc = v.pc
        /\ x.remote = v.remote /\ SameWatch(v, x) /\ x.ice = v.ice
        /\ x.early = v.early \ {c} /\ x.steps = v.steps
    BY <1>0 DEF State, SameWatch
  <2>3. Turn(n, {Ask("end", c)}) /\ Silent /\ u = x  BY <2>1, ActTurn
  <2> HIDE DEF x
  <2>4. Declines(n)  BY <2>1, <2>2, <2>3 DEF Declines
  <2>5. QED  BY <2>4 DEF AppMoves
<1>5. CASE EndActiveCall(n)
  <2>1. /\ v.activeCall # None /\ Acts(n, v, {Await("end", v.activeCall)})
        /\ UNCHANGED <<party, breaks>>
    BY <1>5 DEF EndActiveCall
  <2>2. Turn(n, {Await("end", v.activeCall)}) /\ Silent /\ u = v  BY <2>1, ActTurn
  <2>3. AsksToEnd(n)  BY <1>0, <2>1, <2>2, ResetFacts DEF AsksToEnd
  <2>4. QED  BY <2>3 DEF AppMoves
<1>6. CASE CloseOverlay(n)
  <2>1. /\ v.activeCall = None /\ v.pc # None /\ Acts(n, OnCallEndedLocal(v), {})
        /\ UNCHANGED <<party, breaks>>
    BY <1>6 DEF CloseOverlay
  <2>2. Turn(n, {}) /\ Silent /\ u = OnCallEndedLocal(v)  BY <2>1, ActTurn
  <2>3. Closes(n)  BY <1>0, <2>1, <2>2, ResetFacts DEF Closes
  <2>4. QED  BY <2>3 DEF AppMoves
<1>7. QED  BY <1>1, <1>2, <1>3, <1>4, <1>5, <1>6 DEF DesktopUser, AppMoves

LEMMA DesktopCallMoves ==
  ASSUME UiTypes, NEW n \in Node, Desktop(n), NEW c \in Made,
         MediaReady(n, c) \/ Describe(n, c) \/ DescribeFails(n, c)
  PROVE  AppMoves(n)
<1> DEFINE v == ui[n]
           u == ui'[n]
<1>0. v \in State  BY DEF UiTypes
<1>1. CASE MediaReady(n, c)
  <2> DEFINE remote == IF Callee(c) = n THEN c ELSE None
             early == v.early \cap {c}
             mic == v.mic \cup {c}
             x == [v EXCEPT !.stream = c, !.mic = mic, !.pc = c,
                            !.remote = remote, !.ice = {}, !.early = early,
                            !.steps[c] = "describe"]
  <2>1. v.steps[c] = "media" /\ Acts(n, x, {}) /\ UNCHANGED <<party, breaks>>
    BY <1>1 DEF MediaReady
  <2> HIDE DEF remote, early, mic
  <2>2. /\ x.pending = v.pending /\ x.activeCall = v.activeCall /\ x.pc = c
        /\ x.remote = remote /\ x.hungUp = v.hungUp /\ x.ice = {} /\ x.early = early
        /\ Step(v, x, c, "describe")
    BY <1>0 DEF State, Step
  <2>3. Turn(n, {}) /\ Silent /\ u = x  BY <2>1, ActTurn
  <2> HIDE DEF x
  <2>4. GetsMedia(n, c)  BY <2>1, <2>2, <2>3 DEF GetsMedia, remote, early
  <2>5. QED  BY <2>4 DEF AppMoves
<1>2. CASE Describe(n, c)
  <2> DEFINE w == FlushPendingIce(v)
             x == [w EXCEPT !.steps[c] = "sending"]
             new == {Await(IF Callee(c) = n THEN "answer" ELSE "offer", c), Ask("ice", c)}
  <2>1. /\ v.steps[c] = "describe" /\ v.pc = c
        /\ Acts(n, x, new) /\ UNCHANGED <<party, breaks>>
    BY <1>2 DEF Describe
  <2>2. /\ w \in State /\ SameCalls(v, w) /\ SameWatch(v, w) /\ w.steps = v.steps
        /\ Flushed(v, w)
    BY <1>0, FlushFacts, HelperFacts
  <2> HIDE DEF w
  <2>3. /\ SameCalls(w, x) /\ SameWatch(w, x) /\ SameIce(w, x)
        /\ x.steps = [w.steps EXCEPT ![c] = "sending"]
    BY <2>2 DEF State, SameCalls, SameWatch, SameIce
  <2> HIDE DEF x
  <2>4. /\ SameCalls(v, x) /\ SameWatch(v, x) /\ Flushed(v, x) /\ Step(v, x, c, "sending")
    BY <2>2, <2>3 DEF SameCalls, SameWatch, SameIce, Flushed, Step
  <2>5. new = Asked(n, c)  BY DEF Asked, Await
  <2> HIDE DEF new
  <2>6. Turn(n, new) /\ Silent /\ u = x  BY <2>1, ActTurn
  <2>7. Describes(n, c)  BY <2>1, <2>4, <2>5, <2>6 DEF Describes, SameCalls
  <2>8. QED  BY <2>7 DEF AppMoves
<1>3. CASE DescribeFails(n, c)
  <2> DEFINE x == [v EXCEPT !.steps[c] = "none"]
  <2>1. /\ v.steps[c] = "describe" /\ v.pc # c
        /\ Acts(n, x, {}) /\ UNCHANGED <<party, breaks>>
    BY <1>3 DEF DescribeFails
  <2>2. SameCalls(v, x) /\ SameIce(v, x) /\ SameWatch(v, x) /\ Step(v, x, c, "none")
    BY <1>0 DEF State, SameCalls, SameIce, SameWatch, Step
  <2>3. Turn(n, {}) /\ Silent /\ u = x  BY <2>1, ActTurn
  <2> HIDE DEF x
  <2>4. Stumbles(n, c)  BY <2>1, <2>2, <2>3 DEF Stumbles
  <2>5. QED  BY <2>4 DEF AppMoves
<1>4. QED  BY <1>1, <1>2, <1>3

LEMMA DesktopReturnMoves ==
  ASSUME UiTypes, NEW n \in Node, Desktop(n), NEW r \in replies[n],
         SignalReturns(n, r) \/ EndReturns(n, r)
  PROVE  AppMoves(n)
<1> DEFINE v == ui[n]
           u == ui'[n]
<1>0. v \in State  BY DEF UiTypes
<1>1. CASE SignalReturns(n, r)
  <2> DEFINE k == IF r.ok THEN r.call ELSE v.activeCall
             x == [v EXCEPT !.steps[r.call] = "none", !.activeCall = k]
  <2>1. r.signal \in {"offer", "answer"} /\ Returned(n, r, x)
    BY <1>1, <1>0 DEF SignalReturns, State
  <2> HIDE DEF k
  <2>2. /\ x.pending = v.pending /\ x.pc = v.pc /\ x.remote = v.remote /\ x.activeCall = k
        /\ SameIce(v, x) /\ SameWatch(v, x) /\ Step(v, x, r.call, "none")
    BY <1>0 DEF State, SameIce, SameWatch, Step
  <2> HIDE DEF x
  <2>3. /\ Turn(n, {}) /\ u = x /\ replies' = [replies EXCEPT ![n] = @ \ {r}]
        /\ UNCHANGED <<party, events, breaks>>
    BY <2>1, ReturnedTurn
  <2>4. Learned(n, r)  BY <2>1, <2>2, <2>3 DEF Learned, k
  <2>5. QED  BY <2>4 DEF AppMoves
<1>2. CASE EndReturns(n, r)
  <2> DEFINE x == IF r.ok THEN OnCallEndedLocal(v) ELSE v
  <2>1. r.signal = "end" /\ Returned(n, r, x)
    BY <1>2 DEF EndReturns
  <2>2. /\ Turn(n, {}) /\ u = x /\ replies' = [replies EXCEPT ![n] = @ \ {r}]
        /\ UNCHANGED <<party, events, breaks>>
    BY <2>1, ReturnedTurn
  <2>3. IF r.ok THEN Reset(v, u) ELSE Same(v, u)  BY <1>0, <2>2, ResetFacts
  <2>4. Learned(n, r)  BY <2>1, <2>2, <2>3 DEF Learned
  <2>5. QED  BY <2>4 DEF AppMoves
<1>3. QED  BY <1>1, <1>2

LEMMA DesktopEventMoves ==
  ASSUME EngineTypes, UiTypes, NEW n \in Node, Desktop(n),
         \/ OnCallOffer(n) \/ OnCallAnswer(n) \/ OnCallIce(n) \/ OnCallEnded(n)
         \/ OnPeerDisconnected(n)
  PROVE  AppMoves(n)
<1> DEFINE v == ui[n]
           u == ui'[n]
           c == Head(events[n]).call
<1>0. v \in State /\ Same(v, v)  BY ResetFacts DEF UiTypes
<1>1. CASE OnCallOffer(n)
  <2> DEFINE x == [v EXCEPT !.pending = c]
  <2>1. /\ Handles(n, "offer")
        /\ \/ Handled(n, v, {Ask("end", c)})
           \/ Handled(n, x, {}) /\ v.pending = None /\ v.activeCall = None
    BY <1>1 DEF OnCallOffer
  <2>2. /\ x.pending = c /\ x.activeCall = v.activeCall /\ x.pc = v.pc
        /\ x.remote = v.remote /\ SameIce(v, x) /\ SameWatch(v, x) /\ x.steps = v.steps
    BY <1>0 DEF State, SameIce, SameWatch
  <2> HIDE DEF x
  <2>3. CASE Handled(n, v, {Ask("end", c)})
    <3>1. Turn(n, {Ask("end", c)}) /\ Hearing(n) /\ u = v  BY <2>3, HandledTurn
    <3>2. Rings(n)  BY <1>0, <2>1, <3>1 DEF Rings
    <3>3. QED  BY <3>2 DEF AppMoves
  <2>4. CASE Handled(n, x, {}) /\ v.pending = None /\ v.activeCall = None
    <3>1. Turn(n, {}) /\ Hearing(n) /\ u = x  BY <2>4, HandledTurn
    <3>2. Rings(n)  BY <2>1, <2>2, <2>4, <3>1 DEF Rings
    <3>3. QED  BY <3>2 DEF AppMoves
  <2>5. QED  BY <2>1, <2>3, <2>4
<1>2. CASE OnCallAnswer(n)
  <2> DEFINE w == [v EXCEPT !.remote = c]
             x == IF v.pc = c THEN FlushPendingIce(w) ELSE v
  <2>1. Handles(n, "answer") /\ Handled(n, x, {})
    BY <1>2 DEF OnCallAnswer
  <2>2. c \in CallId  BY <2>1, HandlesFacts
  <2>3. /\ w \in State /\ w.pending = v.pending /\ w.activeCall = v.activeCall
        /\ w.pc = v.pc /\ w.remote = c /\ SameIce(v, w) /\ SameWatch(v, w) /\ w.steps = v.steps
    BY <1>0, <2>2 DEF State, SameIce, SameWatch
  <2> HIDE DEF w
  <2>4. /\ SameCalls(w, FlushPendingIce(w)) /\ SameWatch(w, FlushPendingIce(w))
        /\ FlushPendingIce(w).steps = w.steps /\ Flushed(w, FlushPendingIce(w))
    BY <2>3, FlushFacts
  <2>5. Turn(n, {}) /\ Hearing(n) /\ u = x  BY <2>1, HandledTurn
  <2>6. CASE v.pc = c
    <3> DEFINE y == FlushPendingIce(w)
    <3>1. u = y  BY <2>5, <2>6
    <3> HIDE DEF y, x, c
    <3>2. /\ u.pending = v.pending /\ u.activeCall = v.activeCall /\ u.pc = v.pc
          /\ u.remote = c /\ SameWatch(v, u) /\ u.steps = v.steps /\ Flushed(v, u)
      BY <2>3, <2>4, <3>1 DEF SameCalls, SameWatch, SameIce, Flushed, y
    <3>3. HearsAnswer(n)
      BY <2>1, <2>5, <2>6, <3>2 DEF HearsAnswer, SameWatch, c
    <3>4. QED  BY <3>3 DEF AppMoves
  <2>7. CASE v.pc # c
    <3>1. u = v  BY <2>5, <2>7
    <3>2. HearsAnswer(n)
      BY <1>0, <2>1, <2>5, <2>7, <3>1 DEF HearsAnswer, Same, SameCalls, SameWatch
    <3>3. QED  BY <3>2 DEF AppMoves
  <2>8. QED  BY <2>6, <2>7
<1>3. CASE OnCallIce(n)
  <2> DEFINE y == [v EXCEPT !.ice = @ \cup {c}]
             z == [v EXCEPT !.early = @ \cup {c}]
             x == IF v.pc = c /\ v.remote # None THEN y ELSE z
  <2>1. Handles(n, "ice") /\ Handled(n, x, {})
    BY <1>3 DEF OnCallIce
  <2>2. /\ SameCalls(v, y) /\ SameWatch(v, y) /\ y.steps = v.steps
        /\ y.ice = v.ice \cup {c} /\ y.early = v.early
        /\ SameCalls(v, z) /\ SameWatch(v, z) /\ z.steps = v.steps
        /\ z.ice = v.ice /\ z.early = v.early \cup {c}
    BY <1>0 DEF State, SameCalls, SameWatch
  <2>3. Turn(n, {}) /\ Hearing(n) /\ u = x  BY <2>1, HandledTurn
  <2> HIDE DEF y, z, c
  <2>4. HearsIce(n)  BY <2>1, <2>2, <2>3 DEF HearsIce, SameWatch, c
  <2>5. QED  BY <2>4 DEF AppMoves
<1>4. CASE OnCallEnded(n)
  <2> DEFINE x == IF Concerns(n, c) THEN OnCallEndedLocal(v) ELSE v
  <2>1. Handles(n, "ended") /\ Handled(n, x, {})
    BY <1>4 DEF OnCallEnded
  <2>2. Turn(n, {}) /\ Hearing(n) /\ u = x  BY <2>1, HandledTurn
  <2>3. HearsEnd(n)  BY <1>0, <2>1, <2>2, ResetFacts DEF HearsEnd, Concerns
  <2>4. QED  BY <2>3 DEF AppMoves
<1>5. CASE OnPeerDisconnected(n)
  <2> DEFINE x == IF InCallWith(n, Head(events[n]).peer) THEN OnCallEndedLocal(v) ELSE v
  <2>1. Handles(n, "peer_disconnected") /\ Handled(n, x, {})
    BY <1>5 DEF OnPeerDisconnected
  <2>2. Turn(n, {}) /\ Hearing(n) /\ u = x  BY <2>1, HandledTurn
  <2>3. HearsLoss(n)  BY <1>0, <2>1, <2>2, ResetFacts DEF HearsLoss
  <2>4. QED  BY <2>3 DEF AppMoves
<1>6. QED  BY <1>1, <1>2, <1>3, <1>4, <1>5

-----------------------------------------------------------------------------

LEMMA AndroidUserMoves ==
  ASSUME UiTypes, NEW n \in Node, ~Desktop(n), AndroidUser(n)
  PROVE  AppMoves(n)
<1> DEFINE v == ui[n]
           u == ui'[n]
<1>0. v \in State  BY DEF UiTypes
<1>1. ASSUME NEW m \in Node \ {n}, StartOutgoing(n, m) PROVE Dials(n)
  <2> DEFINE x == [v EXCEPT !.steps[NextCall] = "media"]
  <2>1. /\ Fresh(n, m) /\ Acts(n, x, {}) /\ UNCHANGED breaks
        /\ v.pending = None /\ v.activeCall = None
    BY <1>1 DEF StartOutgoing
  <2>2. SameCalls(v, x) /\ x.watching = v.watching /\ Step(v, x, NextCall, "media")
    BY <1>0 DEF State, SameCalls, Step
  <2>3. Turn(n, {}) /\ Silent /\ u = x  BY <2>1, ActTurn
  <2> HIDE DEF x
  <2>4. QED  BY <2>1, <2>2, <2>3 DEF Dials
<1>2. ASSUME NEW m \in Node \ {n}, SoftDisconnect(n, m) PROVE Leaves(n)
  <2>1. /\ breaks < MaxBreaks /\ breaks' = breaks + 1 /\ UNCHANGED party
        /\ IF InCallWith(n, m)
             THEN Acts(n, Hangup(v), NotifyRemote(v) \cup {Leave(m)})
             ELSE Acts(n, v, {Leave(m)})
    BY <1>2 DEF SoftDisconnect
  <2>2. CASE InCallWith(n, m)
    <3>1. NotifyRemote(v) \cup {Leave(m)} = {Ask("end", v.activeCall), Leave(m)}
      BY DEF NotifyRemote
    <3>2. /\ Turn(n, {Ask("end", v.activeCall), Leave(m)}) /\ Silent
          /\ u = Hangup(v)
      BY <2>1, <2>2, <3>1, ActTurn
    <3>3. QED  BY <1>0, <2>1, <2>2, <3>2, ResetFacts DEF Leaves
  <2>3. CASE ~InCallWith(n, m)
    <3>1. Turn(n, {Leave(m)}) /\ Silent /\ u = v
      BY <2>1, <2>3, ActTurn
    <3>2. QED  BY <1>0, <2>1, <2>3, <3>1, ResetFacts DEF Leaves
  <2>4. QED  BY <2>2, <2>3
<1>3. CASE AcceptCall(n)
  <2> DEFINE c == v.pending
             x == [v EXCEPT !.pending = None, !.steps[c] = "media"]
  <2>1. c # None /\ Acts(n, x, {}) /\ UNCHANGED <<party, breaks>>
    BY <1>3 DEF AcceptCall
  <2>2. /\ x.pending = None /\ x.activeCall = v.activeCall /\ x.pc = v.pc
        /\ x.remote = v.remote /\ SameIce(v, x) /\ x.watching = v.watching
        /\ Step(v, x, c, "media")
    BY <1>0 DEF State, SameIce, Step
  <2>3. Turn(n, {}) /\ Silent /\ u = x  BY <2>1, ActTurn
  <2> HIDE DEF x
  <2>4. Picks(n)  BY <2>1, <2>2, <2>3 DEF Picks
  <2>5. QED  BY <2>4 DEF AppMoves
<1>4. CASE DeclineCall(n)
  <2> DEFINE c == v.pending
             x == [v EXCEPT !.pending = None]
  <2>1. c # None /\ Acts(n, x, {Ask("end", c)}) /\ UNCHANGED <<party, breaks>>
    BY <1>4 DEF DeclineCall
  <2>2. /\ x.pending = None /\ x.activeCall = v.activeCall /\ x.pc = v.pc
        /\ x.remote = v.remote /\ SameWatch(v, x) /\ x.ice = v.ice /\ x.steps = v.steps
    BY <1>0 DEF State, SameWatch
  <2>3. Turn(n, {Ask("end", c)}) /\ Silent /\ u = x  BY <2>1, ActTurn
  <2> HIDE DEF x
  <2>4. Declines(n)  BY <2>1, <2>2, <2>3 DEF Declines
  <2>5. QED  BY <2>4 DEF AppMoves
<1>5. CASE HangUp(n)
  <2>1. /\ v.activeCall # None /\ Acts(n, Hangup(v), {Ask("end", v.activeCall)})
        /\ UNCHANGED <<party, breaks>>
    BY <1>5 DEF HangUp, NotifyRemote
  <2>2. Turn(n, {Ask("end", v.activeCall)}) /\ Silent /\ u = Hangup(v)
    BY <2>1, ActTurn
  <2>3. HangsUp(n)  BY <1>0, <2>1, <2>2, ResetFacts DEF HangsUp
  <2>4. QED  BY <2>3 DEF AppMoves
<1>6. QED  BY <1>1, <1>2, <1>3, <1>4, <1>5 DEF AndroidUser, AppMoves

LEMMA AndroidCallMoves ==
  ASSUME UiTypes, NEW n \in Node, ~Desktop(n), NEW c \in Made,
         CreatePeer(n, c) \/ CreateDescription(n, c) \/ CreateFails(n, c) \/ OnState(n, c)
  PROVE  AppMoves(n)
<1> DEFINE v == ui[n]
           u == ui'[n]
<1>0. v \in State /\ c \in CallId  BY DEF UiTypes, Made
<1>1. CASE CreatePeer(n, c)
  <2> DEFINE w == ManagerEnd(v)
             watching == Caller(c) = n
             x == [w EXCEPT !.pc = c, !.mic = {c}, !.stream = c,
                            !.watching = watching, !.steps[c] = "describe"]
  <2>1. v.steps[c] = "media" /\ Acts(n, x, {}) /\ UNCHANGED <<party, breaks>>
    BY <1>1 DEF CreatePeer
  <2>2. /\ w \in State /\ w.pending = v.pending /\ w.activeCall = v.activeCall
        /\ w.remote = None /\ w.hungUp = v.hungUp /\ w.steps = v.steps
    <3>1. w \in State  BY <1>0, HelperFacts
    <3>2. /\ w.pending = v.pending /\ w.activeCall = v.activeCall
          /\ w.remote = None /\ w.hungUp = v.hungUp /\ w.steps = v.steps
      BY <1>0 DEF ManagerEnd, State
    <3>3. QED  BY <3>1, <3>2
  <2> HIDE DEF w, watching
  <2>3. /\ x.pending = v.pending /\ x.activeCall = v.activeCall /\ x.pc = c
        /\ x.remote = None /\ x.hungUp = v.hungUp /\ x.watching = watching
        /\ Step(v, x, c, "describe")
    BY <2>2 DEF State, Step
  <2>4. Turn(n, {}) /\ Silent /\ u = x  BY <2>1, ActTurn
  <2> HIDE DEF x
  <2>5. GetsMedia(n, c)  BY <2>1, <2>3, <2>4 DEF GetsMedia, watching
  <2>6. QED  BY <2>5 DEF AppMoves
<1>2. CASE CreateDescription(n, c)
  <2> DEFINE y == [v EXCEPT !.remote = c]
             w == IF Callee(c) = n THEN FlushAll(y) ELSE v
             x == [w EXCEPT !.steps[c] = "notify"]
             new == {Ask(IF Callee(c) = n THEN "answer" ELSE "offer", c), Ask("ice", c)}
  <2>1. /\ v.steps[c] = "describe" /\ v.pc = c
        /\ Acts(n, x, new) /\ UNCHANGED <<party, breaks>>
    BY <1>2 DEF CreateDescription
  <2>2. /\ y \in State /\ y.pending = v.pending /\ y.activeCall = v.activeCall
        /\ y.pc = v.pc /\ y.remote = c /\ SameWatch(v, y) /\ y.steps = v.steps
    BY <1>0 DEF State, SameWatch
  <2> HIDE DEF y
  <2>3. /\ FlushAll(y) \in State /\ SameCalls(y, FlushAll(y)) /\ SameWatch(y, FlushAll(y))
        /\ FlushAll(y).steps = y.steps
    BY <2>2, HelperFacts, ZenonT(40) DEF FlushAll, State, SameCalls, SameWatch
  <2>4. /\ w \in State /\ w.pending = v.pending /\ w.activeCall = v.activeCall /\ w.pc = v.pc
        /\ w.remote = IF Callee(c) = n THEN c ELSE v.remote
        /\ SameWatch(v, w) /\ w.steps = v.steps
    BY <1>0, <2>2, <2>3 DEF SameCalls, SameWatch
  <2> HIDE DEF w
  <2>5. /\ x.pending = w.pending /\ x.activeCall = w.activeCall /\ x.pc = w.pc
        /\ x.remote = w.remote /\ SameWatch(w, x) /\ Step(w, x, c, "notify")
    BY <2>4 DEF State, SameWatch, Step
  <2> HIDE DEF x
  <2>6. /\ x.pending = v.pending /\ x.activeCall = v.activeCall /\ x.pc = v.pc
        /\ x.remote = IF Callee(c) = n THEN c ELSE v.remote
        /\ SameWatch(v, x) /\ Step(v, x, c, "notify")
    BY <2>4, <2>5 DEF SameWatch, Step
  <2>7. new = Asked(n, c)  BY DEF Asked, Ask, Desktop
  <2> HIDE DEF new
  <2>8. Turn(n, new) /\ Silent /\ u = x  BY <2>1, ActTurn
  <2>9. Describes(n, c)  BY <2>1, <2>6, <2>7, <2>8 DEF Describes
  <2>10. QED  BY <2>9 DEF AppMoves
<1>3. CASE CreateFails(n, c)
  <2> DEFINE x == [v EXCEPT !.steps[c] = "none"]
  <2>1. /\ v.steps[c] = "describe" /\ v.pc # c
        /\ Acts(n, x, {}) /\ UNCHANGED <<party, breaks>>
    BY <1>3 DEF CreateFails
  <2>2. SameCalls(v, x) /\ SameIce(v, x) /\ SameWatch(v, x) /\ Step(v, x, c, "none")
    BY <1>0 DEF State, SameCalls, SameIce, SameWatch, Step
  <2>3. Turn(n, {}) /\ Silent /\ u = x  BY <2>1, ActTurn
  <2> HIDE DEF x
  <2>4. Stumbles(n, c)  BY <2>1, <2>2, <2>3 DEF Stumbles
  <2>5. QED  BY <2>4 DEF AppMoves
<1>4. CASE OnState(n, c)
  <2> DEFINE x == [v EXCEPT !.steps[c] = "none", !.activeCall = c]
  <2>1. /\ v.steps[c] = "notify" /\ Acts(n, x, {}) /\ UNCHANGED <<party, breaks>>
    BY <1>4 DEF OnState
  <2>2. /\ x.pending = v.pending /\ x.activeCall = c /\ x.pc = v.pc /\ x.remote = v.remote
        /\ SameIce(v, x) /\ SameWatch(v, x) /\ Step(v, x, c, "none")
    BY <1>0 DEF State, SameIce, SameWatch, Step
  <2>3. Turn(n, {}) /\ Silent /\ u = x  BY <2>1, ActTurn
  <2> HIDE DEF x
  <2>4. Notifies(n, c)  BY <2>1, <2>2, <2>3 DEF Notifies
  <2>5. QED  BY <2>4 DEF AppMoves
<1>5. QED  BY <1>1, <1>2, <1>3, <1>4

LEMMA AndroidEventMoves ==
  ASSUME EngineTypes, UiTypes, NEW n \in Node, ~Desktop(n),
         \/ RingOrReject(n) \/ HandleAnswer(n) \/ HandleIce(n) \/ CallEnded(n)
         \/ EndCallIfPeer(n)
  PROVE  AppMoves(n)
<1> DEFINE v == ui[n]
           u == ui'[n]
           c == Head(events[n]).call
<1>0. v \in State /\ Same(v, v)  BY ResetFacts DEF UiTypes
<1>1. CASE RingOrReject(n)
  <2> DEFINE x == [v EXCEPT !.pending = c]
  <2>1. /\ Handles(n, "offer")
        /\ \/ Handled(n, v, {Ask("end", c)})
           \/ Handled(n, x, {}) /\ v.pending = None /\ v.activeCall = None
    BY <1>1 DEF RingOrReject
  <2>2. /\ x.pending = c /\ x.activeCall = v.activeCall /\ x.pc = v.pc
        /\ x.remote = v.remote /\ SameIce(v, x) /\ SameWatch(v, x) /\ x.steps = v.steps
    BY <1>0 DEF State, SameIce, SameWatch
  <2> HIDE DEF x
  <2>3. CASE Handled(n, v, {Ask("end", c)})
    <3>1. Turn(n, {Ask("end", c)}) /\ Hearing(n) /\ u = v  BY <2>3, HandledTurn
    <3>2. Rings(n)  BY <1>0, <2>1, <3>1 DEF Rings
    <3>3. QED  BY <3>2 DEF AppMoves
  <2>4. CASE Handled(n, x, {}) /\ v.pending = None /\ v.activeCall = None
    <3>1. Turn(n, {}) /\ Hearing(n) /\ u = x  BY <2>4, HandledTurn
    <3>2. Rings(n)  BY <2>1, <2>2, <2>4, <3>1 DEF Rings
    <3>3. QED  BY <3>2 DEF AppMoves
  <2>5. QED  BY <2>1, <2>3, <2>4
<1>2. CASE HandleAnswer(n)
  <2> DEFINE w == [v EXCEPT !.watching = TRUE, !.activeCall = c]
             y == [w EXCEPT !.remote = c]
             x == IF w.pc = None THEN w ELSE FlushAll(y)
  <2>1. Handles(n, "answer") /\ Handled(n, x, {})
    BY <1>2 DEF HandleAnswer
  <2>2. c \in CallId  BY <2>1, HandlesFacts
  <2>3. /\ w \in State /\ w.pending = v.pending /\ w.activeCall = c /\ w.pc = v.pc
        /\ w.remote = v.remote /\ w.hungUp = v.hungUp /\ w.watching /\ w.steps = v.steps
    BY <1>0, <2>2 DEF State
  <2> HIDE DEF w
  <2>4. /\ y \in State /\ y.pending = v.pending /\ y.activeCall = c /\ y.pc = v.pc
        /\ y.remote = c /\ y.hungUp = v.hungUp /\ y.watching /\ y.steps = v.steps
    BY <2>2, <2>3 DEF State
  <2> HIDE DEF y
  <2>5. /\ SameCalls(y, FlushAll(y)) /\ SameWatch(y, FlushAll(y)) /\ FlushAll(y).steps = y.steps
    BY <2>4 DEF FlushAll, State, SameCalls, SameWatch
  <2>6. Turn(n, {}) /\ Hearing(n) /\ u = x  BY <2>1, HandledTurn
  <2> HIDE DEF c
  <2>7. /\ u.pending = v.pending /\ u.pc = v.pc /\ u.hungUp = v.hungUp /\ u.steps = v.steps
        /\ u.activeCall = c /\ u.watching
        /\ u.remote = IF v.pc = None THEN v.remote ELSE c
    BY <2>3, <2>4, <2>5, <2>6 DEF SameCalls, SameWatch
  <2> HIDE DEF x
  <2>8. HearsAnswer(n)  BY <2>1, <2>6, <2>7 DEF HearsAnswer, c
  <2>9. QED  BY <2>8 DEF AppMoves
<1>3. CASE HandleIce(n)
  <2> DEFINE w == [v EXCEPT !.watching = TRUE]
             y == [w EXCEPT !.ice = @ \cup {c}]
             z == [w EXCEPT !.early = @ \cup {c}]
             x == IF w.pc # None /\ w.remote # None THEN y ELSE z
  <2>1. Handles(n, "ice") /\ Handled(n, x, {})
    BY <1>3 DEF HandleIce
  <2>2. w \in State /\ SameCalls(v, w) /\ w.hungUp = v.hungUp /\ w.watching /\ w.steps = v.steps
    BY <1>0 DEF State, SameCalls
  <2> HIDE DEF w
  <2>3. /\ SameCalls(v, y) /\ y.hungUp = v.hungUp /\ y.watching /\ y.steps = v.steps
        /\ SameCalls(v, z) /\ z.hungUp = v.hungUp /\ z.watching /\ z.steps = v.steps
    BY <2>2 DEF State, SameCalls
  <2>4. Turn(n, {}) /\ Hearing(n) /\ u = x  BY <2>1, HandledTurn
  <2> HIDE DEF y, z, c
  <2>5. HearsIce(n)  BY <2>1, <2>3, <2>4 DEF HearsIce, c
  <2>6. QED  BY <2>5 DEF AppMoves
<1>4. CASE CallEnded(n)
  <2> DEFINE x == IF ShouldEnd(n, c) THEN Hangup(v) ELSE v
  <2>1. Handles(n, "ended") /\ Handled(n, x, {})
    BY <1>4 DEF CallEnded
  <2>2. Turn(n, {}) /\ Hearing(n) /\ u = x  BY <2>1, HandledTurn
  <2>3. HearsEnd(n)  BY <1>0, <2>1, <2>2, ResetFacts DEF HearsEnd, ShouldEnd
  <2>4. QED  BY <2>3 DEF AppMoves
<1>5. CASE EndCallIfPeer(n)
  <2> DEFINE x == IF InCallWith(n, Head(events[n]).peer) THEN Hangup(v) ELSE v
  <2>1. Handles(n, "peer_disconnected") /\ Handled(n, x, {})
    BY <1>5 DEF EndCallIfPeer
  <2>2. Turn(n, {}) /\ Hearing(n) /\ u = x  BY <2>1, HandledTurn
  <2>3. HearsLoss(n)  BY <1>0, <2>1, <2>2, ResetFacts DEF HearsLoss
  <2>4. QED  BY <2>3 DEF AppMoves
<1>6. QED  BY <1>1, <1>2, <1>3, <1>4, <1>5

LEMMA MediaMoves ==
  ASSUME UiTypes, NEW n \in Node, LosesMedia(n)
  PROVE  AppMoves(n)
<1> DEFINE v == ui[n]
           u == ui'[n]
<1>0. v \in State /\ UNCHANGED breaks  BY DEF UiTypes, LosesMedia
<1>1. CASE Desktop(n) /\ OnConnectionStateChange(n)
  <2>1. /\ v.pc # None /\ v.remote # None
        /\ Acts(n, OnCallEndedLocal(v), {Ask("end", v.pc)}) /\ UNCHANGED party
    BY <1>1 DEF OnConnectionStateChange, LosesMedia, MediaFails
  <2>2. Turn(n, {Ask("end", v.pc)}) /\ Silent /\ u = OnCallEndedLocal(v)
    BY <2>1, ActTurn
  <2>3. CutsOff(n)  BY <1>0, <1>1, <2>1, <2>2, ResetFacts DEF CutsOff
  <2>4. QED  BY <2>3 DEF AppMoves
<1>2. CASE ~Desktop(n) /\ OnIceConnectionChange(n)
  <2>1. /\ v.activeCall # None /\ Acts(n, Hangup(v), {Ask("end", v.activeCall)})
        /\ UNCHANGED party
    BY <1>2 DEF OnIceConnectionChange, AndroidReports, NotifyRemote
  <2>2. Turn(n, {Ask("end", v.activeCall)}) /\ Silent /\ u = Hangup(v)
    BY <2>1, ActTurn
  <2>3. HangsUp(n)  BY <1>0, <2>1, <2>2, ResetFacts DEF HangsUp
  <2>4. QED  BY <2>3 DEF AppMoves
<1>3. QED  BY <1>1, <1>2 DEF LosesMedia

\* Everything that happens is a step of one application, of one engine, or of
\* the network.
EngineMoves(n) == /\ EngineWorks(n) \/ Receives(n)
                  /\ ui' = ui
LinkMoves == LinkChanges /\ ui' = ui

LEMMA MovesFacts ==
  ASSUME EngineTypes, UiTypes, Next
  PROVE  /\ app' = app
         /\ (\E n \in Node : AppMoves(n) \/ EngineMoves(n)) \/ LinkMoves
<1>1. ASSUME NEW n \in Node, Works(n)
      PROVE  app' = app /\ (AppMoves(n) \/ EngineMoves(n))
  BY <1>1, DesktopCallMoves, DesktopReturnMoves, DesktopEventMoves,
     AndroidCallMoves, AndroidEventMoves
     DEF Works, DesktopWorks, AndroidWorks, EngineMoves
<1>2. ASSUME NEW n \in Node, User(n)
      PROVE  app' = app /\ AppMoves(n)
  BY <1>2, DesktopUserMoves, AndroidUserMoves DEF User
<1>3. ASSUME NEW n \in Node, Arrives(n)
      PROVE  app' = app /\ EngineMoves(n)
  BY <1>3 DEF Arrives, EngineMoves
<1>4. ASSUME NEW n \in Node, LosesMedia(n)
      PROVE  app' = app /\ AppMoves(n)
  BY <1>4, MediaMoves DEF LosesMedia
<1>5. ASSUME Network PROVE app' = app /\ LinkMoves
  BY <1>5 DEF Network, LinkMoves
<1>6. QED  BY <1>1, <1>2, <1>3, <1>4, <1>5 DEF Next

-----------------------------------------------------------------------------
(* What is on its way: signals, events, requests and answers *)

Has(q, x) == \E i \in 1 .. Len(q) : q[i] = x
\* x is in q at most once, and before every y.
Leads(q, x, y) == \A i, j \in 1 .. Len(q) :
  q[i] = x /\ q[j] \in {x, y} => i = j \/ (q[j] = y /\ i < j)

Ev(t, c) == [type |-> t, call |-> c]
OnWire(n, m, s, c) == Has(wire[n][m], Sig(s, c))
Queued(n, t, c)    == Has(events[n], Ev(t, c))
LossQueued(n, m)   == Has(events[n], Lost(m))
Replied(n, s, c)   == \E r \in replies[n] : r.signal = s /\ r.call = c
Failed(n, c)       == \E r \in replies[n] : r.signal = "offer" /\ r.call = c /\ ~r.ok

WireOrder(n, m, c) == Leads(wire[n][m], Sig("offer", c), Sig("end", c))
EventOrder(n, c)   == Leads(events[n], Ev("offer", c), Ev("ended", c))

EventTypes == {"offer", "answer", "ice", "ended"}

LEMMA AppendHas ==
  ASSUME NEW S, NEW q \in Seq(S), NEW z \in S, NEW x
  PROVE  Has(Append(q, z), x) <=> Has(q, x) \/ z = x
<1>1. /\ Len(Append(q, z)) = Len(q) + 1 /\ Append(q, z)[Len(q) + 1] = z
      /\ \A i \in 1 .. Len(q) : Append(q, z)[i] = q[i]
      /\ Len(q) \in Nat
  OBVIOUS
<1>2. ASSUME Has(Append(q, z), x) PROVE Has(q, x) \/ z = x
  <2>1. PICK i \in 1 .. Len(Append(q, z)) : Append(q, z)[i] = x
    BY <1>2 DEF Has
  <2>2. CASE i = Len(q) + 1  BY <1>1, <2>1, <2>2
  <2>3. CASE i # Len(q) + 1
    <3>1. i \in 1 .. Len(q)  BY <1>1, <2>1, <2>3
    <3>2. QED  BY <1>1, <2>1, <3>1 DEF Has
  <2>4. QED  BY <2>2, <2>3
<1>3. ASSUME Has(q, x) PROVE Has(Append(q, z), x)
  <2>1. PICK i \in 1 .. Len(q) : q[i] = x  BY <1>3 DEF Has
  <2>2. i \in 1 .. Len(Append(q, z)) /\ Append(q, z)[i] = x  BY <1>1, <2>1
  <2>3. QED  BY <2>2 DEF Has
<1>4. ASSUME z = x PROVE Has(Append(q, z), x)
  <2>1. Len(q) + 1 \in 1 .. Len(Append(q, z))  BY <1>1
  <2>2. QED  BY <1>1, <1>4, <2>1 DEF Has
<1>5. QED  BY <1>2, <1>3, <1>4

LEMMA TailFacts ==
  ASSUME NEW S, NEW q \in Seq(S), q # <<>>
  PROVE  /\ Len(q) \in Nat \ {0} /\ Len(Tail(q)) = Len(q) - 1
         /\ \A i \in 1 .. Len(Tail(q)) : Tail(q)[i] = q[i + 1]
         /\ Head(q) = q[1]
OBVIOUS

LEMMA TailHas ==
  ASSUME NEW S, NEW q \in Seq(S), q # <<>>, NEW x
  PROVE  /\ Has(Tail(q), x) => Has(q, x)
         /\ Has(q, x) => Head(q) = x \/ Has(Tail(q), x)
         /\ Head(q) = x => Has(q, x)
<1>1. /\ Len(q) \in Nat \ {0} /\ Len(Tail(q)) = Len(q) - 1
      /\ \A i \in 1 .. Len(Tail(q)) : Tail(q)[i] = q[i + 1]
      /\ Head(q) = q[1]
  BY TailFacts
<1>2. ASSUME Has(Tail(q), x) PROVE Has(q, x)
  <2>1. PICK i \in 1 .. Len(Tail(q)) : Tail(q)[i] = x  BY <1>2 DEF Has
  <2>2. i + 1 \in 1 .. Len(q) /\ q[i + 1] = x  BY <1>1, <2>1
  <2>3. QED  BY <2>2 DEF Has
<1>3. ASSUME Has(q, x), Head(q) # x PROVE Has(Tail(q), x)
  <2>1. PICK i \in 1 .. Len(q) : q[i] = x  BY <1>3 DEF Has
  <2>2. i # 1  BY <1>1, <1>3, <2>1
  <2>3. i - 1 \in 1 .. Len(Tail(q)) /\ (i - 1) + 1 = i  BY <1>1, <2>1, <2>2
  <2>4. Tail(q)[i - 1] = x  BY <1>1, <2>1, <2>3
  <2>5. QED  BY <2>3, <2>4 DEF Has
<1>4. ASSUME Head(q) = x PROVE Has(q, x)
  <2>1. 1 \in 1 .. Len(q) /\ q[1] = x  BY <1>1, <1>4
  <2>2. QED  BY <2>1 DEF Has
<1>5. QED  BY <1>2, <1>3, <1>4

LEMMA AppendLeads ==
  ASSUME NEW S, NEW q \in Seq(S), NEW z \in S, NEW x, NEW y, x # y,
         Leads(q, x, y), z = x => ~Has(q, x) /\ ~Has(q, y)
  PROVE  Leads(Append(q, z), x, y)
<1> DEFINE p == Append(q, z)
           k == Len(q)
<1>1. /\ Len(p) = k + 1 /\ p[k + 1] = z /\ k \in Nat
      /\ \A i \in 1 .. k : p[i] = q[i]
  OBVIOUS
<1> HIDE DEF p
<1> SUFFICES ASSUME NEW i \in 1 .. Len(p), NEW j \in 1 .. Len(p),
                    p[i] = x, p[j] \in {x, y}, i # j
             PROVE  p[j] = y /\ i < j
  BY DEF Leads, p
<1>2. CASE i \in 1 .. k /\ j \in 1 .. k
  BY <1>1, <1>2 DEF Leads, k
<1>3. CASE i = k + 1
  <2>1. j \in 1 .. k /\ q[j] \in {x, y}  BY <1>1, <1>3
  <2>2. Has(q, q[j])  BY <2>1 DEF Has, k
  <2>3. QED  BY <1>1, <1>3, <2>1, <2>2
<1>4. CASE j = k + 1 /\ i \in 1 .. k
  <2>1. Has(q, x)  BY <1>1, <1>4 DEF Has, k
  <2>2. QED  BY <1>1, <1>4, <2>1
<1>5. QED  BY <1>1, <1>2, <1>3, <1>4

LEMMA TailLeads ==
  ASSUME NEW S, NEW q \in Seq(S), q # <<>>, NEW x, NEW y, x # y, Leads(q, x, y)
  PROVE  /\ Leads(Tail(q), x, y)
         /\ Head(q) = x => ~Has(Tail(q), x)
         /\ Head(q) = y => ~Has(q, x)
<1> DEFINE p == Tail(q)
           k == Len(q)
<1>1. /\ k \in Nat \ {0} /\ Len(p) = k - 1 /\ Head(q) = q[1]
      /\ \A i \in 1 .. Len(p) : p[i] = q[i + 1]
  BY TailFacts
<1> HIDE DEF p
<1>2. ASSUME NEW i \in 1 .. Len(p), NEW j \in 1 .. Len(p),
             p[i] = x, p[j] \in {x, y}, i # j
      PROVE  p[j] = y /\ i < j
  <2>1. i + 1 \in 1 .. k /\ j + 1 \in 1 .. k /\ i + 1 # j + 1
    BY <1>1, <1>2
  <2>2. q[i + 1] = x /\ q[j + 1] \in {x, y}  BY <1>1, <1>2
  <2>3. q[j + 1] = y /\ i + 1 < j + 1  BY <2>1, <2>2 DEF Leads, k
  <2>4. QED  BY <1>1, <2>3
<1>3. ASSUME q[1] = x, Has(p, x) PROVE FALSE
  <2>1. PICK i \in 1 .. Len(p) : p[i] = x  BY <1>3 DEF Has
  <2>2. i + 1 \in 1 .. k /\ q[i + 1] = x /\ 1 \in 1 .. k /\ i + 1 # 1  BY <1>1, <2>1
  <2>3. QED  BY <1>3, <2>2 DEF Leads, k
<1>4. ASSUME q[1] = y, Has(q, x) PROVE FALSE
  <2>1. PICK i \in 1 .. k : q[i] = x  BY <1>4 DEF Has, k
  <2>2. 1 \in 1 .. k  BY <1>1
  <2>3. i = 1 \/ i < 1  BY <1>4, <2>1, <2>2 DEF Leads, k
  <2>4. QED  BY <1>1, <1>4, <2>1, <2>3
<1>5. Leads(p, x, y)  BY <1>2 DEF Leads
<1>6. QED  BY <1>1, <1>3, <1>4, <1>5 DEF p

LEMMA SigFacts ==
  ASSUME NEW s, NEW t, NEW c, NEW d
  PROVE  /\ Sig(s, c) = Sig(t, d) <=> s = t /\ c = d
         /\ Ev(s, c) = Ev(t, d) <=> s = t /\ c = d
         /\ Ended(c) = Ev("ended", c)
BY DEF Sig, Ev, Ended

LEMMA SignalFact ==
  ASSUME NEW x \in Signal
  PROVE  x.signal \in Signals /\ x.call \in CallId /\ x = Sig(x.signal, x.call)
BY DEF Signal, Sig

LEMMA EventFact ==
  ASSUME NEW e \in Event
  PROVE  \/ e.type \in EventTypes /\ e.call \in CallId /\ e = Ev(e.type, e.call)
         \/ e.type = "peer_disconnected" /\ e.peer \in Node /\ e = Lost(e.peer)
BY DEF Event, Ev, Lost, EventTypes

-----------------------------------------------------------------------------

LEMMA SentAtoms ==
  ASSUME EngineTypes, NEW n \in Node, NEW m \in Node, NEW s \in Signals, NEW c \in CallId,
         link[n][m] = "up", wire' = Sent(n, m, Sig(s, c)),
         NEW p \in Node, NEW q \in Node, NEW t, NEW d
  PROVE  OnWire(p, q, t, d)' <=> OnWire(p, q, t, d) \/ (p = n /\ q = m /\ t = s /\ d = c)
<1>1. wire[n][m] \in Seq(Signal) /\ Sig(s, c) \in Signal
  BY DEF EngineTypes, Wires, Sig, Signal
<1>2. wire'[p][q] = IF p = n /\ q = m THEN Append(wire[n][m], Sig(s, c)) ELSE wire[p][q]
  BY DEF EngineTypes, Wires, Sent
<1>3. Has(Append(wire[n][m], Sig(s, c)), Sig(t, d)) <=>
        Has(wire[n][m], Sig(t, d)) \/ Sig(s, c) = Sig(t, d)
  BY <1>1, AppendHas
<1>4. QED  BY <1>2, <1>3, SigFacts DEF OnWire

LEMMA SentOrder ==
  ASSUME EngineTypes, NEW n \in Node, NEW m \in Node, NEW s \in Signals, NEW c \in CallId,
         link[n][m] = "up", wire' = Sent(n, m, Sig(s, c)),
         NEW p \in Node, NEW q \in Node, NEW d, WireOrder(p, q, d),
         p = n /\ q = m /\ s = "offer" /\ d = c
           => ~OnWire(p, q, "offer", d) /\ ~OnWire(p, q, "end", d)
  PROVE  WireOrder(p, q, d)'
<1>1. wire[n][m] \in Seq(Signal) /\ Sig(s, c) \in Signal
  BY DEF EngineTypes, Wires, Sig, Signal
<1>2. wire'[p][q] = IF p = n /\ q = m THEN Append(wire[n][m], Sig(s, c)) ELSE wire[p][q]
  BY DEF EngineTypes, Wires, Sent
<1>3. CASE p = n /\ q = m
  <2>1. Sig("offer", d) # Sig("end", d)  BY SigFacts
  <2>2. Sig(s, c) = Sig("offer", d) =>
          ~Has(wire[n][m], Sig("offer", d)) /\ ~Has(wire[n][m], Sig("end", d))
    BY <1>3, SigFacts DEF OnWire
  <2>3. Leads(wire[n][m], Sig("offer", d), Sig("end", d))  BY <1>3 DEF WireOrder
  <2>4. Leads(Append(wire[n][m], Sig(s, c)), Sig("offer", d), Sig("end", d))
    BY <1>1, <2>1, <2>2, <2>3, AppendLeads
  <2>5. QED  BY <1>2, <1>3, <2>4 DEF WireOrder
<1>4. CASE ~(p = n /\ q = m)  BY <1>2, <1>4 DEF WireOrder
<1>5. QED  BY <1>3, <1>4

\* What the read loop of n takes from the wire of m.
LEMMA ReadAtoms ==
  ASSUME EngineTypes, NEW n \in Node, NEW m \in Node, NEW s, Incoming(n, m, s),
         NEW w \in Wires, w = Read(n, m),
         NEW p \in Node, NEW q \in Node, NEW t, NEW d
  PROVE  LET c == Head(wire[m][n]).call
         IN /\ s \in Signals /\ c \in CallId /\ OnWire(m, n, s, c)
            /\ Has(w[p][q], Sig(t, d)) => OnWire(p, q, t, d)
            /\ OnWire(p, q, t, d) => Has(w[p][q], Sig(t, d)) \/ (p = m /\ q = n /\ t = s /\ d = c)
            /\ WireOrder(p, q, d) => Leads(w[p][q], Sig("offer", d), Sig("end", d))
            /\ WireOrder(m, n, c) /\ s = "offer" => ~Has(w[m][n], Sig("offer", c))
            /\ WireOrder(m, n, c) /\ s = "end" => ~OnWire(m, n, "offer", c)
<1> DEFINE x == Head(wire[m][n])
           c == x.call
           r == wire[m][n]
<1>1. r \in Seq(Signal) /\ r # <<>> /\ x.signal = s
  BY DEF EngineTypes, Wires, Incoming
<1>2. x \in Signal  BY <1>1
<1>3. s \in Signals /\ c \in CallId /\ x = Sig(s, c)  BY <1>1, <1>2, SignalFact
<1>4. w[p][q] = IF p = m /\ q = n THEN Tail(r) ELSE wire[p][q]
  BY SMTT(30) DEF EngineTypes, Wires, Read
<1>4a. w[m][n] = Tail(r)
  BY DEF EngineTypes, Wires, Read
<1>5. Head(r) = Sig(s, c)  BY <1>3
<1> HIDE DEF x, c, r
<1>6. OnWire(m, n, s, c)  BY <1>1, <1>5, TailHas DEF OnWire, r
<1>7. /\ Has(Tail(r), Sig(t, d)) => Has(r, Sig(t, d))
      /\ Has(r, Sig(t, d)) => Sig(s, c) = Sig(t, d) \/ Has(Tail(r), Sig(t, d))
  BY <1>1, <1>5, TailHas
<1>8. /\ Has(w[p][q], Sig(t, d)) => OnWire(p, q, t, d)
      /\ OnWire(p, q, t, d) => Has(w[p][q], Sig(t, d)) \/ (p = m /\ q = n /\ t = s /\ d = c)
  BY <1>4, <1>7, SigFacts DEF OnWire, r
<1>9. Sig("offer", d) # Sig("end", d) /\ Sig("offer", c) # Sig("end", c)  BY SigFacts
<1>10. WireOrder(p, q, d) => Leads(w[p][q], Sig("offer", d), Sig("end", d))
  <2>1. Leads(r, Sig("offer", d), Sig("end", d)) => Leads(Tail(r), Sig("offer", d), Sig("end", d))
    BY <1>1, <1>9, TailLeads
  <2>2. QED  BY <1>4, <2>1 DEF WireOrder, r
<1>11. /\ WireOrder(m, n, c) /\ s = "offer" => ~Has(w[m][n], Sig("offer", c))
       /\ WireOrder(m, n, c) /\ s = "end" => ~OnWire(m, n, "offer", c)
  <2>1. Leads(r, Sig("offer", c), Sig("end", c)) =>
          /\ Head(r) = Sig("offer", c) => ~Has(Tail(r), Sig("offer", c))
          /\ Head(r) = Sig("end", c) => ~Has(r, Sig("offer", c))
    BY <1>1, <1>9, TailLeads
  <2>2. QED  BY <1>4a, <1>5, <2>1 DEF WireOrder, OnWire, r
<1>12. QED  BY <1>3, <1>6, <1>8, <1>10, <1>11 DEF c, x

-----------------------------------------------------------------------------

LEMMA EmittedAtoms ==
  ASSUME EngineTypes, NEW n \in Node, NEW s \in EventTypes, NEW c \in CallId,
         events' = Emitted(n, Ev(s, c)),
         NEW q \in Node, NEW t, NEW d
  PROVE  /\ Queued(q, t, d)' <=> Queued(q, t, d) \/ (q = n /\ t = s /\ d = c)
         /\ \A m : LossQueued(q, m)' <=> LossQueued(q, m)
<1>1. events[n] \in Seq(Event) /\ Ev(s, c) \in Event
  BY DEF EngineTypes, Ev, Event, EventTypes
<1>2. events'[q] = IF q = n THEN Append(events[n], Ev(s, c)) ELSE events[q]
  BY DEF EngineTypes, Emitted
<1>3. Has(Append(events[n], Ev(s, c)), Ev(t, d)) <=>
        Has(events[n], Ev(t, d)) \/ Ev(s, c) = Ev(t, d)
  BY <1>1, AppendHas
<1>4. ASSUME NEW m PROVE LossQueued(q, m)' <=> LossQueued(q, m)
  <2>1. Has(Append(events[n], Ev(s, c)), Lost(m)) <=>
          Has(events[n], Lost(m)) \/ Ev(s, c) = Lost(m)
    BY <1>1, AppendHas
  <2>2. Ev(s, c) # Lost(m)
    <3>1. Ev(s, c).type # Lost(m).type  BY DEF Ev, Lost, EventTypes
    <3>2. QED  BY <3>1
  <2>3. QED  BY <1>2, <2>1, <2>2 DEF LossQueued
<1>5. QED  BY <1>2, <1>3, <1>4, SigFacts DEF Queued

LEMMA EmittedOrder ==
  ASSUME EngineTypes, NEW n \in Node, NEW s \in EventTypes, NEW c \in CallId,
         events' = Emitted(n, Ev(s, c)),
         NEW q \in Node, NEW d, EventOrder(q, d),
         q = n /\ s = "offer" /\ d = c => ~Queued(q, "offer", d) /\ ~Queued(q, "ended", d)
  PROVE  EventOrder(q, d)'
<1>1. events[n] \in Seq(Event) /\ Ev(s, c) \in Event
  BY DEF EngineTypes, Ev, Event, EventTypes
<1>2. events'[q] = IF q = n THEN Append(events[n], Ev(s, c)) ELSE events[q]
  BY DEF EngineTypes, Emitted
<1>3. CASE q = n
  <2>1. Ev("offer", d) # Ev("ended", d)  BY SigFacts
  <2>2. Ev(s, c) = Ev("offer", d) =>
          ~Has(events[n], Ev("offer", d)) /\ ~Has(events[n], Ev("ended", d))
    BY <1>3, SigFacts DEF Queued
  <2>3. Leads(events[n], Ev("offer", d), Ev("ended", d))  BY <1>3 DEF EventOrder
  <2>4. Leads(Append(events[n], Ev(s, c)), Ev("offer", d), Ev("ended", d))
    BY <1>1, <2>1, <2>2, <2>3, AppendLeads
  <2>5. QED  BY <1>2, <1>3, <2>4 DEF EventOrder
<1>4. CASE q # n  BY <1>2, <1>4 DEF EventOrder
<1>5. QED  BY <1>3, <1>4

\* The application of n takes its next event.
LEMMA HeardAtoms ==
  ASSUME EngineTypes, NEW n \in Node, events[n] # <<>>,
         events' = [events EXCEPT ![n] = Tail(@)],
         NEW q \in Node, NEW t, NEW d
  PROVE  /\ Queued(q, t, d)' => Queued(q, t, d)
         /\ Queued(q, t, d) => Queued(q, t, d)' \/ (q = n /\ Head(events[n]) = Ev(t, d))
         /\ Head(events[n]) = Ev(t, d) => Queued(n, t, d)
         /\ \A m : LossQueued(q, m)' => LossQueued(q, m)
         /\ EventOrder(q, d) => EventOrder(q, d)'
         /\ EventOrder(n, d) /\ Head(events[n]) = Ev("offer", d) => ~Queued(n, "offer", d)'
<1> DEFINE r == events[n]
<1>1. r \in Seq(Event) /\ r # <<>>  BY DEF EngineTypes
<1>2. events'[q] = IF q = n THEN Tail(r) ELSE events[q]
  BY DEF EngineTypes
<1>2a. events'[n] = Tail(r)  BY DEF EngineTypes
<1> HIDE DEF r
<1>3. /\ Has(Tail(r), Ev(t, d)) => Has(r, Ev(t, d))
      /\ Has(r, Ev(t, d)) => Head(r) = Ev(t, d) \/ Has(Tail(r), Ev(t, d))
      /\ Head(r) = Ev(t, d) => Has(r, Ev(t, d))
  BY <1>1, TailHas
<1>4. ASSUME NEW m PROVE LossQueued(q, m)' => LossQueued(q, m)
  <2>1. Has(Tail(r), Lost(m)) => Has(r, Lost(m))  BY <1>1, TailHas
  <2>2. QED  BY <1>2, <2>1 DEF LossQueued, r
<1>5. Ev("offer", d) # Ev("ended", d)  BY SigFacts
<1>6. Leads(r, Ev("offer", d), Ev("ended", d)) =>
        /\ Leads(Tail(r), Ev("offer", d), Ev("ended", d))
        /\ Head(r) = Ev("offer", d) => ~Has(Tail(r), Ev("offer", d))
  BY <1>1, <1>5, TailLeads
<1>7. EventOrder(q, d) => EventOrder(q, d)'
  BY <1>2, <1>6 DEF EventOrder, r
<1>8. EventOrder(n, d) /\ Head(r) = Ev("offer", d) => ~Queued(n, "offer", d)'
  BY <1>2a, <1>6 DEF EventOrder, Queued, r
<1>9. /\ Queued(q, t, d)' => Queued(q, t, d)
      /\ Queued(q, t, d) => Queued(q, t, d)' \/ (q = n /\ Head(r) = Ev(t, d))
      /\ Head(r) = Ev(t, d) => Queued(n, t, d)
  BY <1>2, <1>3 DEF Queued, r
<1>10. QED  BY <1>4, <1>7, <1>8, <1>9 DEF r

LEMMA HandlesEvent ==
  ASSUME EngineTypes, NEW n \in Node, NEW t \in EventTypes, Handles(n, t)
  PROVE  /\ events[n] # <<>> /\ Head(events[n]).call \in CallId
         /\ Head(events[n]) = Ev(t, Head(events[n]).call)
<1>1. events[n] \in Seq(Event) /\ events[n] # <<>> /\ Head(events[n]).type = t
  BY DEF EngineTypes, Handles
<1>2. Head(events[n]) \in Event  BY <1>1
<1>3. t # "peer_disconnected"  BY DEF EventTypes
<1>4. QED  BY <1>1, <1>2, <1>3, EventFact

-----------------------------------------------------------------------------

LEMMA TakenAtoms ==
  ASSUME EngineTypes, NEW n \in Node, NEW x \in cmds[n], Taken(n, x),
         NEW q \in Node, NEW s, NEW d
  PROVE  /\ Waits(q, s, d)' => Waits(q, s, d)
         /\ Waits(q, s, d) => Waits(q, s, d)' \/ (q = n /\ s = x.signal /\ d = x.call)
         /\ Waits(n, x.signal, x.call)
<1>1. cmds'[q] = IF q = n THEN cmds[n] \ {x} ELSE cmds[q]
  BY DEF EngineTypes, Taken
<1>2. QED  BY <1>1 DEF Waits

LEMMA AnsweredAtoms ==
  ASSUME EngineTypes, NEW n \in Node, NEW x \in cmds[n], NEW ok \in BOOLEAN,
         Answered(n, x, ok), NEW q \in Node, NEW s, NEW d
  PROVE  /\ Replied(q, s, d) => Replied(q, s, d)'
         /\ Replied(q, s, d)' => Replied(q, s, d) \/ (q = n /\ s = x.signal /\ d = x.call)
         /\ Failed(q, d)' => \/ Failed(q, d)
                             \/ q = n /\ "offer" = x.signal /\ d = x.call /\ ~ok
<1> DEFINE r == [signal |-> x.signal, call |-> x.call, ok |-> ok]
<1>1. replies'[q] = IF q = n /\ x.awaited THEN replies[q] \cup {r} ELSE replies[q]
  BY DEF EngineTypes, Answered
<1>2. r.signal = x.signal /\ r.call = x.call /\ r.ok = ok  OBVIOUS
<1> HIDE DEF r
<1>3. QED  BY <1>1, <1>2 DEF Replied, Failed

LEMMA TurnAtoms ==
  ASSUME EngineTypes, NEW n \in Node, NEW new, Turn(n, new),
         NEW q \in Node, NEW s, NEW d
  PROVE  Waits(q, s, d)' <=> \/ Waits(q, s, d)
                             \/ q = n /\ \E x \in new : x.signal = s /\ x.call = d
<1>1. cmds'[q] = IF q = n THEN cmds[n] \cup new ELSE cmds[q]
  BY DEF EngineTypes, Turn
<1>2. QED  BY <1>1 DEF Waits

-----------------------------------------------------------------------------
(* What a move of n's application means for one call *)

Heard(n, t, c) == /\ events[n] # <<>> /\ Head(events[n]) = Ev(t, c)
                  /\ events' = [events EXCEPT ![n] = Tail(@)]

RingsAnew(n, c)  == ui'[n].pending = c => ui[n].pending = c \/ Heard(n, "offer", c)
ShowsAnew(n, c)  == ui'[n].activeCall = c =>
  \/ ui[n].activeCall = c \/ Replied(n, "offer", c) \/ Replied(n, "answer", c)
  \/ ~Desktop(n) /\ ui[n].steps[c] = "notify"
  \/ Queued(n, "answer", c)
OpensAnew(n, c)  == ui'[n].pc = c => ui[n].pc = c \/ ui[n].steps[c] = "media"
JoinsAnew(n, c)  == ui'[n].remote = c =>
  \/ ui[n].remote = c \/ Queued(n, "answer", c)
  \/ Callee(c) = n /\ ui[n].steps[c] \in {"media", "describe"}
StaysJoined(n)   == Desktop(n) /\ ui[n].remote \in {None, ui[n].pc}
                      => ui'[n].remote \in {None, ui'[n].pc}
Begins(n) == \E m \in Node \ {n} : Fresh(n, m)
GoesOn(n, c) ==
  LET s == ui[n].steps[c]
      t == ui'[n].steps[c]
  IN \/ t = s
     \/ t = "media" /\ (ui[n].pending = c \/ (c = NextCall /\ Begins(n)))
     \/ s = "media" /\ t = "describe" /\ ui'[n].pc = c
     \/ s = "describe" /\ ui[n].pc = c /\ t \in {"sending", "notify"}
     \/ s = "describe" /\ ui[n].pc # c /\ t = "none"
     \/ s = "notify" /\ t = "none" /\ ui'[n].activeCall = c
     \/ /\ t = "none"
        /\ \E r \in replies[n] : /\ r.signal \in {"offer", "answer"} /\ r.call = c
                                 /\ r.ok => ui'[n].activeCall = c
Fields(n, c) == /\ RingsAnew(n, c) /\ ShowsAnew(n, c) /\ OpensAnew(n, c)
                /\ JoinsAnew(n, c) /\ StaysJoined(n) /\ GoesOn(n, c)

Wanted(n, c) == \/ ui[n].pending = c \/ ui[n].activeCall = c
                \/ Desktop(n) /\ ui[n].pc = c /\ ui[n].remote # None
                \/ Heard(n, "offer", c)
Ready(n, c)  == /\ ui[n].steps[c] = "describe" /\ ui[n].pc = c
                /\ ui'[n].steps[c] \in {"sending", "notify"}
KeepsAsking(n, c) == \A s \in Signals : Waits(n, s, c) => Waits(n, s, c)'
AsksOffer(n, c)   == Waits(n, "offer", c)' =>
                       Waits(n, "offer", c) \/ (Ready(n, c) /\ Callee(c) # n)
AsksAnswer(n, c)  == Waits(n, "answer", c)' =>
                       Waits(n, "answer", c) \/ (Ready(n, c) /\ Callee(c) = n)
AsksIce(n, c)     == Waits(n, "ice", c)' => Waits(n, "ice", c) \/ Ready(n, c)
AsksEnd(n, c)     == Waits(n, "end", c)' => Waits(n, "end", c) \/ Wanted(n, c)
Proper(n, x)      == /\ x.signal \in Signals
                     /\ x.signal \in {"offer", "answer"} => (x.awaited <=> Desktop(n))
                     /\ x.signal = "end" /\ x.awaited => Desktop(n)
AsksProperly(n)   == breaks' = breaks =>
                       \A x \in cmds'[n] : x \in cmds[n] \/ Proper(n, x)
Requests(n, c) == /\ KeepsAsking(n, c) /\ AsksOffer(n, c) /\ AsksAnswer(n, c)
                  /\ AsksIce(n, c) /\ AsksEnd(n, c) /\ AsksProperly(n)

Listens(n)    == \/ events' = events
                 \/ events[n] # <<>> /\ events' = [events EXCEPT ![n] = Tail(@)]
Answers(n, c) == events' = events \/ ~Handles(n, "offer") \/ Head(events[n]).call # c
                   \/ ui'[n].pending = c \/ Waits(n, "end", c)'
TakesReplies(n) == replies'[n] \subseteq replies[n]
Notices(n, c) == Listens(n) /\ Answers(n, c) /\ TakesReplies(n)

Elsewhere(n) ==
  /\ \A q \in Node \ {n} : /\ ui'[q] = ui[q] /\ cmds'[q] = cmds[q]
                           /\ replies'[q] = replies[q] /\ events'[q] = events[q]
  /\ UNCHANGED <<active, reading, link, wire>>

AppStep(n, c) == Fields(n, c) /\ Requests(n, c) /\ Notices(n, c) /\ Elsewhere(n)

LEMMA SilentNotices ==
  ASSUME EngineTypes, NEW n \in Node, NEW c, NEW new, Turn(n, new), Silent
  PROVE  Notices(n, c) /\ Elsewhere(n)
<1>1. \A q \in Node \ {n} : cmds'[q] = cmds[q]  BY DEF EngineTypes, Turn
<1>2. QED
  BY <1>1 DEF Silent, Notices, Listens, Answers, TakesReplies, Elsewhere, Turn

LEMMA HearingNotices ==
  ASSUME EngineTypes, NEW n \in Node, NEW c, NEW new, Turn(n, new), Hearing(n),
         NEW t, Handles(n, t),
         t = "offer" /\ Head(events[n]).call = c => ui'[n].pending = c \/ Waits(n, "end", c)'
  PROVE  Notices(n, c) /\ Elsewhere(n)
<1>1. \A q \in Node \ {n} : cmds'[q] = cmds[q]  BY DEF EngineTypes, Turn
<1>2. \A q \in Node \ {n} : events'[q] = events[q]  BY DEF EngineTypes, Hearing
<1>3. Listens(n)  BY DEF Listens, Hearing, Handles
<1>4. Answers(n, c)  BY DEF Answers, Handles
<1>5. QED
  BY <1>1, <1>2, <1>3, <1>4 DEF Hearing, Notices, TakesReplies, Elsewhere, Turn

LEMMA NothingRequested ==
  ASSUME EngineTypes, NEW n \in Node, NEW c, Turn(n, {})
  PROVE  Requests(n, c)
<1>1. \A s : Waits(n, s, c)' <=> Waits(n, s, c)  BY TurnAtoms
<1>2. cmds'[n] = cmds[n]  BY DEF EngineTypes, Turn
<1>3. QED
  BY <1>1, <1>2 DEF Requests, KeepsAsking, AsksOffer, AsksAnswer, AsksIce, AsksEnd, AsksProperly

\* An end is asked for, and perhaps a disconnect.
LEMMA EndRequested ==
  ASSUME EngineTypes, NEW n \in Node, NEW c, NEW d, NEW e, NEW new, Turn(n, new),
         \A x \in new : \/ x = e
                        \/ x.signal = "disconnect" /\ breaks' # breaks,
         e.signal = "end", e.call = d, e.awaited => Desktop(n),
         d = c => Wanted(n, c)
  PROVE  Requests(n, c)
<1>1. \A s : Waits(n, s, c)' <=>
               Waits(n, s, c) \/ \E x \in new : x.signal = s /\ x.call = c
  BY TurnAtoms
<1>2. \A s \in Signals : Waits(n, s, c)' => Waits(n, s, c) \/ (s = "end" /\ d = c)
  BY <1>1 DEF Signals
<1>3. cmds'[n] = cmds[n] \cup new  BY DEF EngineTypes, Turn
<1>4. AsksProperly(n)
  BY <1>3 DEF AsksProperly, Proper, Signals
<1>5. KeepsAsking(n, c)  BY <1>1 DEF KeepsAsking
<1>6. AsksOffer(n, c) /\ AsksAnswer(n, c) /\ AsksIce(n, c) /\ AsksEnd(n, c)
  BY <1>2 DEF AsksOffer, AsksAnswer, AsksIce, AsksEnd, Signals
<1>7. QED  BY <1>4, <1>5, <1>6 DEF Requests

LEMMA LeaveRequested ==
  ASSUME EngineTypes, NEW n \in Node, NEW c, NEW m, Turn(n, {Leave(m)}), breaks' # breaks
  PROVE  Requests(n, c)
<1>1. \A s : Waits(n, s, c)' <=>
               Waits(n, s, c) \/ \E x \in {Leave(m)} : x.signal = s /\ x.call = c
  BY TurnAtoms
<1>2. \A s \in Signals : Waits(n, s, c)' <=> Waits(n, s, c)
  BY <1>1 DEF Leave, Signals
<1>3. QED
  BY <1>2 DEF Requests, KeepsAsking, AsksOffer, AsksAnswer, AsksIce, AsksEnd, AsksProperly, Signals

LEMMA ResetFields ==
  ASSUME UiTypes, NEW n \in Node, NEW c \in CallId, Reset(ui[n], ui'[n])
  PROVE  Fields(n, c)
BY NoneFact DEF Reset, Closed, Fields, RingsAnew, ShowsAnew, OpensAnew, JoinsAnew,
   StaysJoined, GoesOn

LEMMA SameFields ==
  ASSUME UiTypes, NEW n \in Node, NEW c \in CallId, Same(ui[n], ui'[n])
  PROVE  Fields(n, c)
BY DEF Same, SameCalls, Fields, RingsAnew, ShowsAnew, OpensAnew, JoinsAnew,
   StaysJoined, GoesOn

LEMMA StepFact ==
  ASSUME UiTypes, NEW n \in Node, NEW c \in CallId, NEW d, NEW s, Step(ui[n], ui'[n], d, s)
  PROVE  ui'[n].steps[c] = IF c = d THEN s ELSE ui[n].steps[c]
BY DEF UiTypes, State, Step

-----------------------------------------------------------------------------

LEMMA DialsStep ==
  ASSUME EngineTypes, UiTypes, NEW n \in Node, NEW c \in CallId, Dials(n)
  PROVE  AppStep(n, c)
<1>1. /\ Turn(n, {}) /\ Silent /\ Step(ui[n], ui'[n], NextCall, "media")
      /\ Begins(n)
      /\ \/ ~Desktop(n) /\ SameCalls(ui[n], ui'[n])
         \/ Desktop(n) /\ Closed(ui'[n])
  BY DEF Dials, Begins
<1>2. ui'[n].steps[c] = IF c = NextCall THEN "media" ELSE ui[n].steps[c]
  BY <1>1, StepFact
<1>3. Fields(n, c)
  BY <1>1, <1>2, NoneFact DEF SameCalls, Closed, Fields, RingsAnew, ShowsAnew, OpensAnew,
     JoinsAnew, StaysJoined, GoesOn
<1>4. QED  BY <1>1, <1>3, SilentNotices, NothingRequested DEF AppStep

LEMMA PicksStep ==
  ASSUME EngineTypes, UiTypes, NEW n \in Node, NEW c \in CallId, Picks(n)
  PROVE  AppStep(n, c)
<1>1. /\ Turn(n, {}) /\ Silent /\ Step(ui[n], ui'[n], ui[n].pending, "media")
      /\ ui'[n].pending = None /\ ui'[n].activeCall = ui[n].activeCall
      /\ ui'[n].pc = ui[n].pc /\ ui'[n].remote = ui[n].remote
  BY DEF Picks
<1>2. ui'[n].steps[c] = IF c = ui[n].pending THEN "media" ELSE ui[n].steps[c]
  BY <1>1, StepFact
<1>3. Fields(n, c)
  BY <1>1, <1>2, NoneFact DEF Fields, RingsAnew, ShowsAnew, OpensAnew,
     JoinsAnew, StaysJoined, GoesOn
<1>4. QED  BY <1>1, <1>3, SilentNotices, NothingRequested DEF AppStep

LEMMA DeclinesStep ==
  ASSUME EngineTypes, UiTypes, NEW n \in Node, NEW c \in CallId, Declines(n)
  PROVE  AppStep(n, c)
<1> DEFINE e == Ask("end", ui[n].pending)
<1>1. /\ Turn(n, {e}) /\ Silent /\ ui'[n].steps = ui[n].steps
      /\ ui'[n].pending = None /\ ui'[n].activeCall = ui[n].activeCall
      /\ ui'[n].pc = ui[n].pc /\ ui'[n].remote = ui[n].remote
  BY DEF Declines
<1>2. e.signal = "end" /\ e.call = ui[n].pending /\ e.awaited = FALSE  BY DEF Ask
<1> HIDE DEF e
<1>3. Fields(n, c)
  BY <1>1, NoneFact DEF Fields, RingsAnew, ShowsAnew, OpensAnew,
     JoinsAnew, StaysJoined, GoesOn
<1>4. ui[n].pending = c => Wanted(n, c)  BY DEF Wanted
<1>5. Requests(n, c)  BY <1>1, <1>2, <1>4, EndRequested
<1>6. QED  BY <1>1, <1>3, <1>5, SilentNotices DEF AppStep

LEMMA EndsStep ==
  ASSUME EngineTypes, UiTypes, NEW n \in Node, NEW c \in CallId,
         AsksToEnd(n) \/ HangsUp(n) \/ CutsOff(n)
  PROVE  AppStep(n, c)
<1>1. PICK d, e : /\ Turn(n, {e}) /\ Silent /\ e.signal = "end" /\ e.call = d
                  /\ e.awaited => Desktop(n)
                  /\ d = c => Wanted(n, c)
                  /\ Reset(ui[n], ui'[n]) \/ Same(ui[n], ui'[n])
  <2>1. CASE AsksToEnd(n)
    <3>1. /\ Turn(n, {Await("end", ui[n].activeCall)}) /\ Silent /\ Desktop(n)
          /\ Same(ui[n], ui'[n])
      BY <2>1 DEF AsksToEnd
    <3>2. /\ Await("end", ui[n].activeCall).signal = "end"
          /\ Await("end", ui[n].activeCall).call = ui[n].activeCall
      BY DEF Await
    <3>3. QED  BY <3>1, <3>2 DEF Wanted
  <2>2. CASE HangsUp(n)
    <3>1. /\ Turn(n, {Ask("end", ui[n].activeCall)}) /\ Silent
          /\ Reset(ui[n], ui'[n])
      BY <2>2 DEF HangsUp
    <3>2. /\ Ask("end", ui[n].activeCall).signal = "end"
          /\ Ask("end", ui[n].activeCall).call = ui[n].activeCall
          /\ Ask("end", ui[n].activeCall).awaited = FALSE
      BY DEF Ask
    <3>3. QED  BY <3>1, <3>2 DEF Wanted
  <2>3. CASE CutsOff(n)
    <3>1. /\ Turn(n, {Ask("end", ui[n].pc)}) /\ Silent /\ Desktop(n) /\ ui[n].remote # None
          /\ Reset(ui[n], ui'[n])
      BY <2>3 DEF CutsOff
    <3>2. /\ Ask("end", ui[n].pc).signal = "end"
          /\ Ask("end", ui[n].pc).call = ui[n].pc
          /\ Ask("end", ui[n].pc).awaited = FALSE
      BY DEF Ask
    <3>3. QED  BY <3>1, <3>2 DEF Wanted
  <2>4. QED  BY <2>1, <2>2, <2>3
<1>2. Requests(n, c)  BY <1>1, EndRequested
<1>3. Fields(n, c)  BY <1>1, ResetFields, SameFields
<1>4. QED  BY <1>1, <1>2, <1>3, SilentNotices DEF AppStep

LEMMA LeavesStep ==
  ASSUME EngineTypes, UiTypes, NEW n \in Node, NEW c \in CallId, Leaves(n)
  PROVE  AppStep(n, c)
<1>1. PICK m \in Node :
        /\ Silent /\ breaks < MaxBreaks /\ breaks' = breaks + 1
        /\ \/ /\ Turn(n, {Ask("end", ui[n].activeCall), Leave(m)})
              /\ Reset(ui[n], ui'[n])
           \/ Turn(n, {Leave(m)}) /\ Same(ui[n], ui'[n])
  BY DEF Leaves
<1>2. breaks' # breaks  BY <1>1 DEF EngineTypes
<1>3. Fields(n, c)  BY <1>1, ResetFields, SameFields
<1>4. Requests(n, c)
  <2> DEFINE e == Ask("end", ui[n].activeCall)
  <2>1. CASE Turn(n, {e, Leave(m)})
    <3>1. e.signal = "end" /\ e.call = ui[n].activeCall /\ e.awaited = FALSE
      BY DEF Ask
    <3>2. \A x \in {e, Leave(m)} : x = e \/ (x.signal = "disconnect" /\ breaks' # breaks)
      BY <1>2 DEF Leave
    <3>3. ui[n].activeCall = c => Wanted(n, c)  BY DEF Wanted
    <3> HIDE DEF e
    <3>4. QED  BY <2>1, <3>1, <3>2, <3>3, EndRequested
  <2>2. CASE Turn(n, {Leave(m)})
    BY <1>2, <2>2, LeaveRequested
  <2>3. QED  BY <1>1, <2>1, <2>2
<1>5. QED  BY <1>1, <1>3, <1>4, SilentNotices DEF AppStep

LEMMA ClosesStep ==
  ASSUME EngineTypes, UiTypes, NEW n \in Node, NEW c \in CallId, Closes(n)
  PROVE  AppStep(n, c)
BY ResetFields, NothingRequested, SilentNotices DEF Closes, AppStep

LEMMA GetsMediaStep ==
  ASSUME EngineTypes, UiTypes, NEW n \in Node, NEW c \in CallId, NEW d \in Made,
         GetsMedia(n, d)
  PROVE  AppStep(n, c)
<1>1. /\ Turn(n, {}) /\ Silent /\ Step(ui[n], ui'[n], d, "describe")
      /\ ui[n].steps[d] = "media"
      /\ ui'[n].pending = ui[n].pending /\ ui'[n].activeCall = ui[n].activeCall
      /\ ui'[n].pc = d
      /\ ui'[n].remote = IF Desktop(n) /\ Callee(d) = n THEN d ELSE None
  BY DEF GetsMedia
<1>2. ui'[n].steps[c] = IF c = d THEN "describe" ELSE ui[n].steps[c]
  BY <1>1, StepFact
<1>3. Fields(n, c)
  BY <1>1, <1>2, NoneFact DEF Fields, RingsAnew, ShowsAnew, OpensAnew,
     JoinsAnew, StaysJoined, GoesOn
<1>4. QED  BY <1>1, <1>3, SilentNotices, NothingRequested DEF AppStep

LEMMA AskedFacts ==
  ASSUME NEW n, NEW d, NEW x \in Asked(n, d)
  PROVE  /\ x.call = d /\ Proper(n, x)
         /\ x.signal \in {IF Callee(d) = n THEN "answer" ELSE "offer", "ice"}
<1>1. \/ x = [signal |-> IF Callee(d) = n THEN "answer" ELSE "offer",
              call |-> d, awaited |-> Desktop(n)]
      \/ x = Ask("ice", d)
  BY DEF Asked
<1>2. CASE x = Ask("ice", d)
  BY <1>2 DEF Ask, Proper, Signals
<1>3. CASE x = [signal |-> IF Callee(d) = n THEN "answer" ELSE "offer",
                call |-> d, awaited |-> Desktop(n)]
  BY <1>3 DEF Proper, Signals, Desktop
<1>4. QED  BY <1>1, <1>2, <1>3

LEMMA DescribesStep ==
  ASSUME EngineTypes, UiTypes, NEW n \in Node, NEW c \in CallId, NEW d \in Made,
         Describes(n, d)
  PROVE  AppStep(n, c)
<1> DEFINE s == IF Desktop(n) THEN "sending" ELSE "notify"
<1>1. /\ Turn(n, Asked(n, d)) /\ Silent /\ Step(ui[n], ui'[n], d, s)
      /\ ui[n].steps[d] = "describe" /\ ui[n].pc = d
      /\ ui'[n].pending = ui[n].pending /\ ui'[n].activeCall = ui[n].activeCall
      /\ ui'[n].pc = ui[n].pc
      /\ ui'[n].remote = IF ~Desktop(n) /\ Callee(d) = n THEN d ELSE ui[n].remote
  BY DEF Describes
<1>2. s \in {"sending", "notify"}  OBVIOUS
<1> HIDE DEF s
<1>3. ui'[n].steps[c] = IF c = d THEN s ELSE ui[n].steps[c]
  BY <1>1, StepFact
<1>4. Fields(n, c)
  BY <1>1, <1>2, <1>3, NoneFact DEF Fields, RingsAnew, ShowsAnew, OpensAnew,
     JoinsAnew, StaysJoined, GoesOn
<1>5. d = c => Ready(n, c)  BY <1>1, <1>2, <1>3 DEF Ready
<1>6. \A t : Waits(n, t, c)' <=>
               Waits(n, t, c) \/ \E x \in Asked(n, d) : x.signal = t /\ x.call = c
  BY <1>1, TurnAtoms
<1>7. \A t : Waits(n, t, c)' =>
               Waits(n, t, c)
                 \/ (d = c /\ t \in {IF Callee(c) = n THEN "answer" ELSE "offer", "ice"})
  BY <1>6, AskedFacts
<1>8. AsksOffer(n, c) /\ AsksAnswer(n, c) /\ AsksIce(n, c) /\ AsksEnd(n, c)
  BY <1>5, <1>7 DEF AsksOffer, AsksAnswer, AsksIce, AsksEnd
<1>9. KeepsAsking(n, c)  BY <1>6 DEF KeepsAsking
<1>10. AsksProperly(n)
  <2>1. cmds'[n] = cmds[n] \cup Asked(n, d)  BY <1>1 DEF EngineTypes, Turn
  <2>2. QED  BY <2>1, AskedFacts DEF AsksProperly
<1>11. QED
  BY <1>1, <1>4, <1>8, <1>9, <1>10, SilentNotices DEF AppStep, Requests

LEMMA StumblesStep ==
  ASSUME EngineTypes, UiTypes, NEW n \in Node, NEW c \in CallId, NEW d \in Made,
         Stumbles(n, d) \/ Notifies(n, d)
  PROVE  AppStep(n, c)
<1>1. /\ Turn(n, {}) /\ Silent /\ Step(ui[n], ui'[n], d, "none")
      /\ ui'[n].pending = ui[n].pending
      /\ ui'[n].pc = ui[n].pc /\ ui'[n].remote = ui[n].remote
      /\ \/ /\ ui[n].steps[d] = "describe" /\ ui[n].pc # d
            /\ ui'[n].activeCall = ui[n].activeCall
         \/ ~Desktop(n) /\ ui[n].steps[d] = "notify" /\ ui'[n].activeCall = d
  BY DEF Stumbles, Notifies, SameCalls
<1>2. ui'[n].steps[c] = IF c = d THEN "none" ELSE ui[n].steps[c]
  BY <1>1, StepFact
<1>3. Fields(n, c)
  BY <1>1, <1>2, NoneFact DEF Fields, RingsAnew, ShowsAnew, OpensAnew,
     JoinsAnew, StaysJoined, GoesOn
<1>4. QED  BY <1>1, <1>3, SilentNotices, NothingRequested DEF AppStep

LEMMA LearnedStep ==
  ASSUME EngineTypes, UiTypes, NEW n \in Node, NEW c \in CallId, NEW r \in replies[n],
         Learned(n, r)
  PROVE  AppStep(n, c)
<1>1. /\ Turn(n, {}) /\ replies' = [replies EXCEPT ![n] = @ \ {r}] /\ events' = events
      /\ \/ /\ r.signal \in {"offer", "answer"}
            /\ ui'[n].pending = ui[n].pending
            /\ ui'[n].pc = ui[n].pc /\ ui'[n].remote = ui[n].remote
            /\ ui'[n].activeCall = IF r.ok THEN r.call ELSE ui[n].activeCall
            /\ Step(ui[n], ui'[n], r.call, "none")
         \/ Reset(ui[n], ui'[n]) \/ Same(ui[n], ui'[n])
  BY DEF Learned
<1>2. Fields(n, c)
  <2>1. CASE /\ r.signal \in {"offer", "answer"}
             /\ ui'[n].pending = ui[n].pending
             /\ ui'[n].pc = ui[n].pc /\ ui'[n].remote = ui[n].remote
             /\ ui'[n].activeCall = IF r.ok THEN r.call ELSE ui[n].activeCall
             /\ Step(ui[n], ui'[n], r.call, "none")
    <3>1. ui'[n].steps[c] = IF c = r.call THEN "none" ELSE ui[n].steps[c]
      BY <2>1, StepFact
    <3>2. GoesOn(n, c)  BY <2>1, <3>1 DEF GoesOn
    <3>3. ShowsAnew(n, c)  BY <2>1 DEF ShowsAnew, Replied
    <3>4. QED
      BY <2>1, <3>2, <3>3 DEF Fields, RingsAnew, OpensAnew, JoinsAnew, StaysJoined
  <2>2. QED  BY <1>1, <2>1, ResetFields, SameFields
<1>3. Notices(n, c)
  <2>1. replies'[n] = replies[n] \ {r}  BY <1>1 DEF EngineTypes
  <2>2. QED  BY <1>1, <2>1 DEF Notices, Listens, Answers, TakesReplies
<1>4. Elsewhere(n)
  <2>1. \A q \in Node \ {n} : cmds'[q] = cmds[q]  BY <1>1 DEF EngineTypes, Turn
  <2>2. \A q \in Node \ {n} : replies'[q] = replies[q]  BY <1>1 DEF EngineTypes
  <2>3. QED  BY <1>1, <2>1, <2>2 DEF Elsewhere, Turn
<1>5. QED  BY <1>1, <1>2, <1>3, <1>4, NothingRequested DEF AppStep

LEMMA RingsStep ==
  ASSUME EngineTypes, UiTypes, NEW n \in Node, NEW c \in CallId, Rings(n)
  PROVE  AppStep(n, c)
<1> DEFINE d == Head(events[n]).call
           e == Ask("end", d)
<1>1. /\ Handles(n, "offer") /\ Hearing(n)
      /\ \/ Turn(n, {e}) /\ Same(ui[n], ui'[n])
         \/ /\ Turn(n, {}) /\ ui'[n].pending = d
            /\ ui'[n].activeCall = ui[n].activeCall
            /\ ui'[n].pc = ui[n].pc /\ ui'[n].remote = ui[n].remote
            /\ ui'[n].steps = ui[n].steps
  BY DEF Rings
<1>2. events[n] # <<>> /\ Head(events[n]) = Ev("offer", d)
  BY <1>1, HandlesEvent DEF EventTypes
<1>3. d = c => Heard(n, "offer", c)
  BY <1>1, <1>2 DEF Heard, Hearing
<1>4. e.signal = "end" /\ e.call = d /\ e.awaited = FALSE  BY DEF Ask
<1> HIDE DEF e, d
<1>5. CASE Turn(n, {e}) /\ Same(ui[n], ui'[n])
  <2>1. d = c => Wanted(n, c)  BY <1>3 DEF Wanted
  <2>2. Requests(n, c)  BY <1>4, <1>5, <2>1, EndRequested
  <2>3. d = c => Waits(n, "end", c)'
    <3>1. Waits(n, "end", c)' <=>
            Waits(n, "end", c) \/ \E x \in {e} : x.signal = "end" /\ x.call = c
      BY <1>5, TurnAtoms
    <3>2. QED  BY <1>4, <3>1
  <2>4. Notices(n, c) /\ Elsewhere(n)
    BY <1>1, <1>5, <2>3, HearingNotices DEF d
  <2>5. QED  BY <1>5, <2>2, <2>4, SameFields DEF AppStep
<1>6. CASE /\ Turn(n, {}) /\ ui'[n].pending = d
           /\ ui'[n].activeCall = ui[n].activeCall
           /\ ui'[n].pc = ui[n].pc /\ ui'[n].remote = ui[n].remote
           /\ ui'[n].steps = ui[n].steps
  <2>1. Fields(n, c)
    BY <1>3, <1>6 DEF Fields, RingsAnew, ShowsAnew, OpensAnew, JoinsAnew, StaysJoined, GoesOn
  <2>2. Notices(n, c) /\ Elsewhere(n)
    BY <1>1, <1>6, HearingNotices DEF d
  <2>3. QED  BY <1>6, <2>1, <2>2, NothingRequested DEF AppStep
<1>7. QED  BY <1>1, <1>5, <1>6

LEMMA HearsStep ==
  ASSUME EngineTypes, UiTypes, NEW n \in Node, NEW c \in CallId,
         HearsAnswer(n) \/ HearsIce(n) \/ HearsEnd(n) \/ HearsLoss(n)
  PROVE  AppStep(n, c)
<1>1. PICK t \in {"answer", "ice", "ended", "peer_disconnected"} :
        Handles(n, t) /\ Hearing(n) /\ Turn(n, {})
  BY DEF HearsAnswer, HearsIce, HearsEnd, HearsLoss
<1>2. Notices(n, c) /\ Elsewhere(n)
  BY <1>1, HearingNotices
<1>3. CASE HearsAnswer(n)
  <2> DEFINE d == Head(events[n]).call
  <2>1. /\ ui'[n].pending = ui[n].pending /\ ui'[n].pc = ui[n].pc
        /\ ui'[n].steps = ui[n].steps
        /\ \/ /\ Desktop(n) /\ ui'[n].activeCall = ui[n].activeCall
              /\ IF ui[n].pc = d THEN ui'[n].remote = d
                 ELSE ui'[n].remote = ui[n].remote
           \/ /\ ~Desktop(n) /\ ui'[n].activeCall = d
              /\ ui'[n].remote = IF ui[n].pc = None THEN ui[n].remote ELSE d
    BY <1>3 DEF HearsAnswer
  <2>2. Handles(n, "answer")  BY <1>3 DEF HearsAnswer
  <2>3. events[n] # <<>> /\ Head(events[n]) = Ev("answer", d)
    BY <2>2, HandlesEvent DEF EventTypes
  <2>4. Queued(n, "answer", d)
    <3>1. events[n] \in Seq(Event)  BY DEF EngineTypes
    <3>2. QED  BY <2>3, <3>1, TailHas DEF Queued
  <2> HIDE DEF d
  <2>5. Fields(n, c)
    BY <2>1, <2>4 DEF Fields, RingsAnew, ShowsAnew, OpensAnew, JoinsAnew, StaysJoined, GoesOn
  <2>6. QED  BY <1>1, <1>2, <2>5, NothingRequested DEF AppStep
<1>4. CASE HearsIce(n)
  <2>1. SameCalls(ui[n], ui'[n]) /\ ui'[n].steps = ui[n].steps  BY <1>4 DEF HearsIce
  <2>2. Fields(n, c)
    BY <2>1 DEF SameCalls, Fields, RingsAnew, ShowsAnew, OpensAnew, JoinsAnew, StaysJoined, GoesOn
  <2>3. QED  BY <1>1, <1>2, <2>2, NothingRequested DEF AppStep
<1>5. CASE HearsEnd(n) \/ HearsLoss(n)
  <2>1. Reset(ui[n], ui'[n]) \/ Same(ui[n], ui'[n])  BY <1>5 DEF HearsEnd, HearsLoss
  <2>2. Fields(n, c)  BY <2>1, ResetFields, SameFields
  <2>3. QED  BY <1>1, <1>2, <2>2, NothingRequested DEF AppStep
<1>6. QED  BY <1>3, <1>4, <1>5

LEMMA AppParty ==
  ASSUME NEW n \in Node, AppMoves(n)
  PROVE  party' = party \/ Begins(n)
BY ZenonT(40) DEF AppMoves, Dials, Begins, Picks, Declines, AsksToEnd, Leaves, HangsUp, CutsOff, Closes,
   GetsMedia, Describes, Stumbles, Notifies, Learned, Rings, HearsAnswer, HearsIce,
   HearsEnd, HearsLoss, Hearing

LEMMA AppSteps ==
  ASSUME EngineTypes, UiTypes, NEW n \in Node, AppMoves(n), NEW c \in CallId
  PROVE  AppStep(n, c)
BY DialsStep, PicksStep, DeclinesStep, EndsStep, LeavesStep, ClosesStep, GetsMediaStep,
   DescribesStep, StumblesStep, LearnedStep, RingsStep, HearsStep DEF AppMoves

-----------------------------------------------------------------------------
(* While no link was lost: the engine forgets the calls that are over *)

\* Who may send and get signal s of call c.
InCall(n, c)   == c \in Made /\ n \in {Caller(c), Callee(c)}
Sends(n, s, c) == /\ InCall(n, c)
                  /\ s = "offer" => n = Caller(c)
                  /\ s = "answer" => n = Callee(c)
Gets(n, s, c)  == /\ InCall(n, c)
                  /\ s = "offer" => n = Callee(c)
                  /\ s = "answer" => n = Caller(c)

UiOf(n, c)      == /\ ui[n].pending = c => Gets(n, "offer", c)
                   /\ c \in {ui[n].activeCall, ui[n].pc, ui[n].remote} => InCall(n, c)
                   /\ ui[n].steps[c] # "none" => InCall(n, c)
RequestOf(n, c) == \A s \in Signals : Waits(n, s, c) \/ Replied(n, s, c) => Sends(n, s, c)
EventOf(n, c)   == \A t \in EventTypes :
                     Queued(n, t, c) => Gets(n, t, c)
WireOf(n, c)    == \A m \in Node : \A s \in Signals :
                     OnWire(n, m, s, c) => Sends(n, s, c) /\ PeerOf(n, c) = m
TableOf(n, c)   == \A m \in Node :
  /\ active[n][m] = c => InCall(n, c) /\ PeerOf(n, c) = m
  /\ reading[n][m] = c => Gets(n, "offer", c) /\ PeerOf(n, c) = m
Belongs == \A n \in Node, c \in CallId :
  UiOf(n, c) /\ RequestOf(n, c) /\ EventOf(n, c) /\ WireOf(n, c) /\ TableOf(n, c)

Numbered == /\ \E k \in Nat : Made = 1 .. k
            /\ \A c \in Made : /\ Caller(c) \in Node /\ Callee(c) \in Node
                               /\ Caller(c) # Callee(c)
Remotes  == \A n \in Node : Desktop(n) => ui[n].remote \in {None, ui[n].pc}
Awaits   == \A n \in Node : \A x \in cmds[n] : Proper(n, x)

Linked ==
  /\ \A n, m \in Node : link[n][m] = "up"
  /\ \A n, m \in Node : ~LossQueued(n, m)
  /\ \A n \in Node : \A r \in replies[n] : r.ok \/ r.signal = "offer"

Starting(a, c) == ui[a].steps[c] \in {"media", "describe"}
Unsent(a, c)   == Starting(a, c) \/ Waits(a, "offer", c)
Offering(a, b, c) == OnWire(a, b, "offer", c) \/ reading[b][a] = c \/ Queued(b, "offer", c)
Keeps(n, c)    == Shows(n, c) \/ Prepares(n, c) \/ Waits(n, "end", c)

StartsFresh(a, c) ==
  /\ Starting(a, c) => ~Waits(a, "offer", c)
  /\ Starting(a, c) \/ (Desktop(a) /\ Waits(a, "offer", c)) =>
       ~Waits(a, "end", c) /\ ui[a].activeCall # c /\ ui[a].remote # c
OfferUnsent(a, b, c) == Unsent(a, c) =>
  /\ ~Replied(a, "offer", c) /\ ~Replied(a, "end", c) /\ ~Queued(a, "ended", c)
  /\ ~OnWire(a, b, "end", c) /\ ~Queued(b, "ended", c)
  /\ ~Offering(a, b, c)
Unheard(a, b, c) == Unsent(a, c) \/ Offering(a, b, c) =>
  /\ ~Shows(b, c) /\ ~Prepares(b, c) /\ ui[b].pc # c
  /\ ~Waits(b, "answer", c) /\ ~Waits(b, "end", c)
  /\ ~Replied(b, "answer", c) /\ ~Replied(b, "end", c)
  /\ ~OnWire(b, a, "answer", c) /\ ~OnWire(b, a, "end", c)
  /\ ~Queued(a, "answer", c)
OfferedOnce(a, b, c) ==
  /\ WireOrder(a, b, c) /\ EventOrder(b, c)
  /\ OnWire(a, b, "offer", c) \/ reading[b][a] = c =>
       ~Queued(b, "offer", c) /\ ~Queued(b, "ended", c)
  /\ reading[b][a] = c => ~OnWire(a, b, "offer", c)
\* What n has of the call, m the peer.
Described(n, c)  == ui[n].steps[c] = "describe" => ui[n].pc = c
Cleared(n, m, c) == Queued(n, "ended", c) \/ Replied(n, "end", c) \/ Failed(n, c)
                      => active[n][m] # c
Accounted(n, m, c) == active[n][m] = c \/ Waits(n, "offer", c)
                        => Keeps(n, c) \/ Queued(n, "offer", c)
Side(n, m, c) == Described(n, c) /\ Cleared(n, m, c) /\ Accounted(n, m, c)
Tracked(a, b, c) ==
  /\ StartsFresh(a, c) /\ OfferUnsent(a, b, c) /\ Unheard(a, b, c) /\ OfferedOnce(a, b, c)
  /\ Side(a, b, c) /\ Side(b, a, c)

Kept  == Made \ astray
Sound == breaks = 0 => /\ Belongs /\ Numbered /\ Remotes /\ Awaits /\ Linked
                       /\ \A c \in Kept : Tracked(Caller(c), Callee(c), c)

Order == Belongs /\ Numbered /\ Remotes /\ Awaits /\ Linked

LEMMA NumberFacts ==
  ASSUME Numbered
  PROVE  NextCall \notin Made /\ Cardinality(Made) \in Nat
<1>1. PICK k \in Nat : Made = 1 .. k  BY DEF Numbered
<1>2. Cardinality(1 .. k) = IF 1 > k THEN 0 ELSE k - 1 + 1  BY FS_Interval
<1>3. Cardinality(Made) = k  BY <1>1, <1>2
<1>4. QED  BY <1>1, <1>3 DEF NextCall

LEMMA BeginFacts ==
  ASSUME EngineTypes, Numbered, NEW n \in Node, Begins(n)
  PROVE  /\ NextCall \in CallId /\ Made' = Made \cup {NextCall}
         /\ \A c \in CallId \ {NextCall} : party'[c] = party[c]
         /\ \E m \in Node \ {n} : party'[NextCall] = <<n, m>>
<1> DEFINE k == NextCall
<1>1. PICK m \in Node \ {n} : k \in CallId /\ party' = [party EXCEPT ![k] = <<n, m>>]
  BY DEF Begins, Fresh
<1> HIDE DEF k
<1>2. /\ party'[k] = <<n, m>>
      /\ \A c \in CallId \ {k} : party'[c] = party[c]
  BY <1>1 DEF EngineTypes
<1>3. <<n, m>> # <<>>  OBVIOUS
<1>4. Made' = Made \cup {k}  BY <1>1, <1>2, <1>3 DEF Made
<1>5. QED  BY <1>1, <1>2, <1>4 DEF k

LEMMA NumberedStep ==
  ASSUME EngineTypes, Numbered, NEW n \in Node, party' = party \/ Begins(n)
  PROVE  /\ Numbered'
         /\ \A c \in Made : c \in Made' /\ party'[c] = party[c]
<1>1. CASE party' = party
  BY <1>1 DEF Numbered, Made, Caller, Callee
<1>2. CASE Begins(n)
  <2> DEFINE k == NextCall
  <2>1. /\ k \in CallId /\ Made' = Made \cup {k}
        /\ \A c \in CallId \ {k} : party'[c] = party[c]
        /\ k \notin Made
    BY <1>2, BeginFacts, NumberFacts
  <2>2. PICK m \in Node \ {n} : party'[k] = <<n, m>>  BY <1>2, BeginFacts
  <2>3. PICK l \in Nat : Made = 1 .. l  BY DEF Numbered
  <2>4. Cardinality(1 .. l) = IF 1 > l THEN 0 ELSE l - 1 + 1  BY FS_Interval
  <2>5. k = l + 1  BY <2>3, <2>4 DEF NextCall
  <2> HIDE DEF k
  <2>6. Made' = 1 .. (l + 1) /\ l + 1 \in Nat  BY <2>1, <2>3, <2>5
  <2>7. \A c \in Made : c \in Made' /\ party'[c] = party[c]
    BY <2>1 DEF Made
  <2>8. \A c \in Made' : /\ Caller(c)' \in Node /\ Callee(c)' \in Node
                         /\ Caller(c)' # Callee(c)'
    <3>1. ASSUME NEW c \in Made'
          PROVE  party'[c][1] \in Node /\ party'[c][2] \in Node /\ party'[c][1] # party'[c][2]
      <4>1. CASE c = k  BY <2>2, <4>1
      <4>2. CASE c # k
        <5>1. c \in Made /\ party'[c] = party[c]  BY <2>1, <2>7, <3>1, <4>2
        <5>2. QED  BY <5>1 DEF Numbered, Caller, Callee
      <4>3. QED  BY <4>1, <4>2
    <3>2. QED  BY <3>1 DEF Caller, Callee
  <2>9. QED  BY <2>6, <2>7, <2>8 DEF Numbered
<1>3. QED  BY <1>1, <1>2

\* The two devices of a call stay the same.
Lasts(q, c) == /\ InCall(q, c) => InCall(q, c)' /\ PeerOf(q, c)' = PeerOf(q, c)
               /\ \A s : Sends(q, s, c) => Sends(q, s, c)'
               /\ \A s : Gets(q, s, c) => Gets(q, s, c)'

LEMMA LastsFact ==
  ASSUME NEW q, NEW c, \A d \in Made : d \in Made' /\ party'[d] = party[d]
  PROVE  Lasts(q, c)
BY DEF Lasts, InCall, Sends, Gets, PeerOf, Caller, Callee

-----------------------------------------------------------------------------

LEMMA SignalsFact == /\ {"offer", "answer", "ice", "end"} \subseteq Signals
                     /\ {"offer", "answer", "ice", "ended"} \subseteq EventTypes
BY DEF Signals, EventTypes

LEMMA NoticedAtoms ==
  ASSUME EngineTypes, NEW n \in Node, NEW c, NEW d, Notices(n, d), Elsewhere(n),
         NEW q \in Node, NEW t
  PROVE  /\ Queued(q, t, c)' => Queued(q, t, c)
         /\ Replied(q, t, c)' => Replied(q, t, c)
         /\ Failed(q, c)' => Failed(q, c)
         /\ \A m : LossQueued(q, m)' => LossQueued(q, m)
         /\ EventOrder(q, c) => EventOrder(q, c)'
<1>1. CASE events' = events
  BY <1>1 DEF Notices, TakesReplies, Elsewhere, Queued, Replied, Failed, LossQueued, EventOrder
<1>2. CASE events[n] # <<>> /\ events' = [events EXCEPT ![n] = Tail(@)]
  <2>1. /\ Queued(q, t, c)' => Queued(q, t, c)
        /\ \A m : LossQueued(q, m)' => LossQueued(q, m)
        /\ EventOrder(q, c) => EventOrder(q, c)'
    BY <1>2, HeardAtoms
  <2>2. /\ Replied(q, t, c)' => Replied(q, t, c)
        /\ Failed(q, c)' => Failed(q, c)
    BY DEF Notices, TakesReplies, Elsewhere, Replied, Failed
  <2>3. QED  BY <2>1, <2>2
<1>3. QED  BY <1>1, <1>2 DEF Notices, Listens

LEMMA HeardFacts ==
  ASSUME EngineTypes, NEW n \in Node, NEW c, NEW t, Heard(n, t, c)
  PROVE  /\ Queued(n, t, c)
         /\ EventOrder(n, c) /\ t = "offer" => ~Queued(n, "offer", c)'
BY HeardAtoms DEF Heard

LEMMA AppBelongs ==
  ASSUME EngineTypes, UiTypes, Order, NEW n \in Node, AppMoves(n)
  PROVE  Belongs'
<1>1. /\ \A c \in CallId : AppStep(n, c)
      /\ party' = party \/ Begins(n)
  BY AppSteps, AppParty
<1>2. \A d \in Made : d \in Made' /\ party'[d] = party[d]
  BY <1>1, NumberedStep DEF Order
<1> SUFFICES ASSUME NEW q \in Node, NEW c \in CallId
             PROVE  /\ UiOf(q, c)' /\ RequestOf(q, c)' /\ EventOf(q, c)'
                    /\ WireOf(q, c)' /\ TableOf(q, c)'
  BY DEF Belongs
<1>3. Lasts(q, c)  BY <1>2, LastsFact
<1>4. UiOf(q, c) /\ RequestOf(q, c) /\ EventOf(q, c) /\ WireOf(q, c) /\ TableOf(q, c)
  BY DEF Order, Belongs
<1>5. Notices(n, c) /\ Elsewhere(n) /\ Fields(n, c) /\ Requests(n, c)  BY <1>1 DEF AppStep
<1>6. \A t : /\ Queued(q, t, c)' => Queued(q, t, c)
             /\ Replied(q, t, c)' => Replied(q, t, c)
  BY <1>5, NoticedAtoms
<1>7. EventOf(q, c)'  BY <1>3, <1>4, <1>6 DEF EventOf, Lasts
<1>8. WireOf(q, c)' /\ TableOf(q, c)'
  <2>1. wire' = wire /\ active' = active /\ reading' = reading  BY <1>5 DEF Elsewhere
  <2>2. \A m, s : OnWire(q, m, s, c)' <=> OnWire(q, m, s, c)  BY <2>1 DEF OnWire
  <2>3. WireOf(q, c)'
    <3> SUFFICES ASSUME NEW m \in Node, NEW s \in Signals, OnWire(q, m, s, c)'
                 PROVE  Sends(q, s, c)' /\ PeerOf(q, c)' = m
      BY DEF WireOf
    <3>1. Sends(q, s, c) /\ PeerOf(q, c) = m  BY <1>4, <2>2 DEF WireOf
    <3>2. QED  BY <1>3, <3>1 DEF Lasts, Sends
  <2>4. TableOf(q, c)'
    <3> SUFFICES ASSUME NEW m \in Node
                 PROVE  /\ active[q][m]' = c => InCall(q, c)' /\ PeerOf(q, c)' = m
                        /\ reading[q][m]' = c => Gets(q, "offer", c)' /\ PeerOf(q, c)' = m
      BY DEF TableOf
    <3>1. QED  BY <1>3, <1>4, <2>1 DEF Lasts, Gets, TableOf
  <2>5. QED  BY <2>3, <2>4
<1>9. CASE q # n
  <2>1. ui'[q] = ui[q] /\ cmds'[q] = cmds[q]  BY <1>5, <1>9 DEF Elsewhere
  <2>2. \A s : Waits(q, s, c)' <=> Waits(q, s, c)  BY <2>1 DEF Waits
  <2>3. RequestOf(q, c)'  BY <1>3, <1>4, <1>6, <2>2 DEF RequestOf, Lasts
  <2>4. UiOf(q, c)'  BY <1>3, <1>4, <2>1 DEF UiOf, Lasts
  <2>5. QED  BY <1>7, <1>8, <2>3, <2>4
<1>10. CASE q = n
  <2>1. Heard(n, "offer", c) => Gets(n, "offer", c)
    BY <1>4, <1>10, HeardFacts, SignalsFact DEF EventOf
  <2>2. Queued(n, "answer", c) => InCall(n, c)
    BY <1>4, <1>10, SignalsFact DEF EventOf, Gets
  <2>3. /\ Replied(n, "offer", c) => InCall(n, c)
        /\ Replied(n, "answer", c) => InCall(n, c)
    BY <1>4, <1>10, SignalsFact DEF RequestOf, Sends
  <2>4. /\ ui[n].pending = c => Gets(n, "offer", c)
        /\ ui[n].activeCall = c \/ ui[n].pc = c \/ ui[n].remote = c => InCall(n, c)
        /\ ui[n].steps[c] # "none" => InCall(n, c)
    BY <1>4, <1>10 DEF UiOf
  <2>5. \A r \in replies[n] : r.signal \in {"offer", "answer"} /\ r.call = c => InCall(n, c)
    BY <2>3 DEF Replied
  <2>6. UiOf(n, c)'
    <3>1. ui'[n].pending = c => Gets(n, "offer", c)'
      BY <1>3, <1>5, <1>10, <2>1, <2>4 DEF Fields, RingsAnew, Lasts
    <3>2. ui'[n].activeCall = c => InCall(n, c)
      BY <1>5, <2>2, <2>3, <2>4 DEF Fields, ShowsAnew
    <3>3. ui'[n].pc = c => InCall(n, c)
      BY <1>5, <2>4 DEF Fields, OpensAnew
    <3>4. ui'[n].remote = c => InCall(n, c)
      BY <1>5, <2>2, <2>4 DEF Fields, JoinsAnew
    <3>5. ui'[n].steps[c] # "none" => InCall(n, c)'
      <4>1. Gets(n, "offer", c) => InCall(n, c)  BY DEF Gets
      <4>2. CASE c = NextCall /\ Begins(n)
        <5>1. c \in Made'  BY <4>2, BeginFacts DEF Order
        <5>2. PICK m \in Node \ {n} : party'[c] = <<n, m>>  BY <4>2, BeginFacts DEF Order
        <5>3. QED  BY <5>1, <5>2 DEF InCall, Caller, Callee
      <4>3. CASE ui[n].pending = c \/ ui[n].steps[c] # "none"
        BY <1>3, <1>10, <2>4, <4>1, <4>3 DEF Lasts
      <4>4. ui'[n].steps[c] # "none" =>
              \/ c = NextCall /\ Begins(n)
              \/ ui[n].pending = c \/ ui[n].steps[c] # "none"
        BY <1>5 DEF Fields, GoesOn
      <4>5. QED  BY <4>2, <4>3, <4>4
    <3>6. QED  BY <1>3, <1>10, <3>1, <3>2, <3>3, <3>4, <3>5 DEF UiOf, Lasts
  <2>7. RequestOf(n, c)'
    <3> SUFFICES ASSUME NEW s \in Signals, Waits(n, s, c)' \/ Replied(n, s, c)'
                 PROVE  Sends(n, s, c)'
      BY DEF RequestOf
    <3>1. CASE Waits(n, s, c) \/ Replied(n, s, c)
      BY <1>3, <1>4, <1>10, <3>1 DEF RequestOf, Lasts
    <3>2. CASE Waits(n, s, c)' /\ ~Waits(n, s, c)
      <4>1. Ready(n, c) => InCall(n, c)  BY <2>4 DEF Ready
      <4>2. Wanted(n, c) => InCall(n, c)  BY <2>1, <2>4 DEF Wanted, Gets
      <4>3. CASE s = "offer"
        <5>1. Ready(n, c) /\ Callee(c) # n  BY <1>5, <3>2, <4>3 DEF Requests, AsksOffer
        <5>2. Sends(n, s, c)  BY <4>1, <4>3, <5>1 DEF Sends, InCall
        <5>3. QED  BY <1>3, <1>10, <5>2 DEF Lasts
      <4>4. CASE s = "answer"
        <5>1. Ready(n, c) /\ Callee(c) = n  BY <1>5, <3>2, <4>4 DEF Requests, AsksAnswer
        <5>2. Sends(n, s, c)  BY <4>1, <4>4, <5>1 DEF Sends, InCall
        <5>3. QED  BY <1>3, <1>10, <5>2 DEF Lasts
      <4>5. CASE s \in {"ice", "end"}
        <5>1. InCall(n, c)
          BY <1>5, <3>2, <4>1, <4>2, <4>5 DEF Requests, AsksIce, AsksEnd
        <5>2. Sends(n, s, c)  BY <4>5, <5>1 DEF Sends
        <5>3. QED  BY <1>3, <1>10, <5>2 DEF Lasts
      <4>6. QED  BY <4>3, <4>4, <4>5 DEF Signals
    <3>3. QED  BY <1>6, <1>10, <3>1, <3>2
  <2>8. QED  BY <1>7, <1>8, <1>10, <2>6, <2>7
<1>11. QED  BY <1>9, <1>10

LEMMA AppOrder ==
  ASSUME EngineTypes, UiTypes, Order, NEW n \in Node, AppMoves(n),
         app' = app, breaks' = breaks
  PROVE  Order'
<1>1. /\ \A c \in CallId : AppStep(n, c)
      /\ party' = party \/ Begins(n)
  BY AppSteps, AppParty
<1>2. 1 \in CallId  BY CallAssumption DEF CallId
<1>3. /\ Notices(n, 1) /\ Elsewhere(n) /\ StaysJoined(n) /\ AsksProperly(n)
  BY <1>1, <1>2 DEF AppStep, Fields, Requests
<1>4. Belongs'  BY AppBelongs
<1>5. Numbered'  BY <1>1, NumberedStep DEF Order
<1>6. Remotes'
  <2> SUFFICES ASSUME NEW q \in Node, Desktop(q)'
               PROVE  ui'[q].remote \in {None, ui'[q].pc}
    BY DEF Remotes
  <2>1. Desktop(q)  BY DEF Desktop
  <2>2. ui[q].remote \in {None, ui[q].pc}  BY <2>1 DEF Order, Remotes
  <2>3. QED  BY <1>3, <2>1, <2>2 DEF StaysJoined, Elsewhere
<1>7. Awaits'
  <2> SUFFICES ASSUME NEW q \in Node, NEW x \in cmds'[q] PROVE Proper(q, x)'
    BY DEF Awaits
  <2>1. Proper(q, x)
    BY <1>3 DEF Order, Awaits, AsksProperly, Elsewhere
  <2>2. QED  BY <2>1 DEF Proper, Desktop
<1>8. Linked'
  <2>1. link' = link  BY <1>3 DEF Elsewhere
  <2>2. \A q, m \in Node : ~LossQueued(q, m)'
    BY <1>3, NoticedAtoms DEF Order, Linked
  <2>3. \A q \in Node : \A r \in replies'[q] : r.ok \/ r.signal = "offer"
    BY <1>3 DEF Order, Linked, Notices, TakesReplies, Elsewhere
  <2>4. QED  BY <2>1, <2>2, <2>3 DEF Order, Linked
<1>9. QED  BY <1>4, <1>5, <1>6, <1>7, <1>8 DEF Order

-----------------------------------------------------------------------------
(* An application moves *)

RolesOf(n, c, a, b) ==
  /\ ui[n].pending = c => n = b
  /\ Queued(n, "offer", c) => n = b
  /\ Queued(n, "answer", c) => n = a
  /\ Waits(n, "offer", c) \/ Replied(n, "offer", c) => n = a
  /\ Waits(n, "answer", c) \/ Replied(n, "answer", c) => n = b
Between(c, a, b) == /\ c \in Made /\ a = Caller(c) /\ b = Callee(c)
                    /\ a \in Node /\ b \in Node /\ a # b
                    /\ PeerOf(a, c) = b /\ PeerOf(b, c) = a

LEMMA BetweenFact ==
  ASSUME Numbered, NEW c \in Made
  PROVE  Between(c, Caller(c), Callee(c)) /\ c \in CallId
BY DEF Numbered, Between, PeerOf, Made

LEMMA RolesFact ==
  ASSUME Order, NEW c, NEW a, NEW b, Between(c, a, b), NEW n \in Node
  PROVE  RolesOf(n, c, a, b)
<1>1. c \in CallId  BY DEF Between, Made
<1>2. UiOf(n, c) /\ RequestOf(n, c) /\ EventOf(n, c)  BY <1>1 DEF Order, Belongs
<1>3. ui[n].pending = c => n = b  BY <1>2 DEF UiOf, Gets, Between
<1>4. (Queued(n, "offer", c) => n = b) /\ (Queued(n, "answer", c) => n = a)
  BY <1>2, SignalsFact DEF EventOf, Gets, Between
<1>5. /\ Waits(n, "offer", c) \/ Replied(n, "offer", c) => n = a
      /\ Waits(n, "answer", c) \/ Replied(n, "answer", c) => n = b
  BY <1>2, SignalsFact DEF RequestOf, Sends, Between
<1>6. QED  BY <1>3, <1>4, <1>5 DEF RolesOf

\* n's application moves; c, between a and b, is tracked.
Moving(n, c, a, b) ==
  /\ EngineTypes /\ UiTypes /\ Order
  /\ AppStep(n, c) /\ app' = app
  /\ Between(c, a, b) /\ c # NextCall /\ Tracked(a, b, c) /\ ~LosesTrack(c)

\* What is left alone, or only goes away.
Fades(q, c) == /\ \A t : Queued(q, t, c)' => Queued(q, t, c)
               /\ \A s : Replied(q, s, c)' => Replied(q, s, c)
               /\ Failed(q, c)' => Failed(q, c)
               /\ EventOrder(q, c) => EventOrder(q, c)'
               /\ \A m, s : OnWire(q, m, s, c)' <=> OnWire(q, m, s, c)
               /\ \A m : WireOrder(q, m, c)' <=> WireOrder(q, m, c)
               /\ \A m : reading'[q][m] = reading[q][m] /\ active'[q][m] = active[q][m]
Rests(q, c) == /\ ui'[q] = ui[q]
               /\ \A s : Waits(q, s, c)' <=> Waits(q, s, c)

LEMMA FadesFact ==
  ASSUME NEW n \in Node, NEW c, NEW a, NEW b, Moving(n, c, a, b), NEW q \in Node
  PROVE  Fades(q, c) /\ (q # n => Rests(q, c))
<1>1. Notices(n, c) /\ Elsewhere(n) /\ EngineTypes  BY DEF Moving, AppStep
<1>2. /\ \A t : Queued(q, t, c)' => Queued(q, t, c)
      /\ \A s : Replied(q, s, c)' => Replied(q, s, c)
      /\ Failed(q, c)' => Failed(q, c)
      /\ EventOrder(q, c) => EventOrder(q, c)'
  BY <1>1, NoticedAtoms
<1>3. wire' = wire /\ reading' = reading /\ active' = active  BY <1>1 DEF Elsewhere
<1>4. /\ \A m, s : OnWire(q, m, s, c)' <=> OnWire(q, m, s, c)
      /\ \A m : WireOrder(q, m, c)' <=> WireOrder(q, m, c)
  BY <1>3 DEF OnWire, WireOrder
<1>5. q # n => Rests(q, c)  BY <1>1 DEF Elsewhere, Rests, Waits
<1>6. QED  BY <1>2, <1>3, <1>4, <1>5 DEF Fades

LEMMA StartingStays ==
  ASSUME NEW n \in Node, NEW c, NEW a, NEW b, Moving(n, c, a, b)
  PROVE  /\ Starting(a, c)' => Starting(a, c) /\ ~Ready(a, c)
         /\ Unsent(a, c)' => Unsent(a, c)
<1>0. a \in Node /\ RolesOf(n, c, a, b) /\ a # b /\ b = Callee(c)
  BY RolesFact DEF Moving, Between
<1>1. CASE n # a
  <2>1. Rests(a, c)  BY <1>0, <1>1, FadesFact
  <2>2. Starting(a, c)' <=> Starting(a, c)  BY <2>1 DEF Starting, Rests
  <2>3. Unsent(a, c)' <=> Unsent(a, c)  BY <2>1, <2>2 DEF Unsent, Rests
  <2>4. Starting(a, c)' => ~Ready(a, c)  BY <2>1 DEF Ready, Starting, Rests
  <2>5. QED  BY <2>2, <2>3, <2>4
<1>2. CASE n = a
  <2>1. Fields(a, c) /\ Requests(a, c) /\ c # NextCall  BY <1>2 DEF Moving, AppStep
  <2>2. ui[a].pending # c  BY <1>0, <1>2 DEF RolesOf
  <2>3. ASSUME Starting(a, c)' PROVE Starting(a, c) /\ ~Ready(a, c)
    BY <2>1, <2>2, <2>3 DEF Fields, GoesOn, Starting, Ready
  <2>4. ASSUME Waits(a, "offer", c)' PROVE Waits(a, "offer", c) \/ Starting(a, c)
    BY <2>1, <2>4 DEF Requests, AsksOffer, Ready, Starting
  <2>5. QED  BY <2>3, <2>4 DEF Unsent
<1>3. QED  BY <1>1, <1>2

LEMMA OfferingStays ==
  ASSUME NEW n \in Node, NEW c, NEW a, NEW b, Moving(n, c, a, b)
  PROVE  Offering(a, b, c)' => Offering(a, b, c)
<1>1. Fades(a, c) /\ Fades(b, c)  BY FadesFact DEF Moving, Between
<1>2. QED  BY <1>1 DEF Offering, Fades

LEMMA FreshStays ==
  ASSUME NEW n \in Node, NEW c, NEW a, NEW b, Moving(n, c, a, b)
  PROVE  StartsFresh(a, c)'
<1>0. /\ a \in Node /\ RolesOf(n, c, a, b) /\ a # b /\ b = Callee(c)
      /\ StartsFresh(a, c) /\ OfferUnsent(a, b, c) /\ Unheard(a, b, c)
  BY RolesFact DEF Moving, Between, Tracked
<1>1. Desktop(a)' <=> Desktop(a)  BY DEF Moving, Desktop
<1>2. CASE n # a
  <2>1. Rests(a, c)  BY <1>0, <1>2, FadesFact
  <2>2. Starting(a, c)' <=> Starting(a, c)  BY <2>1 DEF Starting, Rests
  <2>3. QED  BY <1>0, <1>1, <2>1, <2>2 DEF StartsFresh, Rests
<1>3. CASE n = a
  <2>1. Fields(a, c) /\ Requests(a, c)  BY <1>3 DEF Moving, AppStep
  <2>2. ui[a].pending # c /\ ~Queued(a, "offer", c) /\ ~Replied(a, "answer", c)
    BY <1>0, <1>3 DEF RolesOf
  <2>3. ASSUME Starting(a, c)' PROVE ~Waits(a, "offer", c)'
    <3>1. Starting(a, c) /\ ~Ready(a, c)  BY <2>3, StartingStays
    <3>2. ~Waits(a, "offer", c)  BY <1>0, <3>1 DEF StartsFresh
    <3>3. QED  BY <2>1, <3>1, <3>2 DEF Requests, AsksOffer
  <2>4. ASSUME Starting(a, c)' \/ (Desktop(a) /\ Waits(a, "offer", c)')
        PROVE  ~Waits(a, "end", c)' /\ ui'[a].activeCall # c /\ ui'[a].remote # c
    <3>1. /\ Starting(a, c) \/ (Desktop(a) /\ Waits(a, "offer", c))
          /\ Unsent(a, c)
      <4>1. CASE Starting(a, c)'  BY <4>1, StartingStays DEF Unsent
      <4>2. CASE Desktop(a) /\ Waits(a, "offer", c)'
        <5>1. Waits(a, "offer", c) \/ Ready(a, c)  BY <2>1, <4>2 DEF Requests, AsksOffer
        <5>2. QED  BY <4>2, <5>1 DEF Ready, Starting, Unsent
      <4>3. QED  BY <2>4, <4>1, <4>2
    <3>2. ~Waits(a, "end", c) /\ ui[a].activeCall # c /\ ui[a].remote # c
      BY <1>0, <3>1 DEF StartsFresh
    <3>3. ~Replied(a, "offer", c) /\ ~Queued(a, "answer", c)
      BY <1>0, <3>1 DEF OfferUnsent, Unheard
    <3>4. ~(~Desktop(a) /\ ui[a].steps[c] = "notify")
      BY <3>1 DEF Starting
    <3>5. ui'[a].activeCall # c
      BY <2>1, <2>2, <3>2, <3>3, <3>4 DEF Fields, ShowsAnew
    <3>6. ui'[a].remote # c
      BY <1>0, <2>1, <3>2, <3>3 DEF Fields, JoinsAnew
    <3>7. ~Wanted(a, c)
      <4>1. ~Heard(a, "offer", c)  BY <1>0, <2>2, HeardFacts DEF Moving
      <4>2. ASSUME Desktop(a), ui[a].pc = c, ui[a].remote # None PROVE FALSE
        <5>1. ui[a].remote \in {None, ui[a].pc}  BY <1>0, <4>2 DEF Moving, Order, Remotes
        <5>2. QED  BY <3>2, <4>2, <5>1
      <4>3. QED  BY <2>2, <3>2, <4>1, <4>2 DEF Wanted
    <3>8. ~Waits(a, "end", c)'  BY <2>1, <3>2, <3>7 DEF Requests, AsksEnd
    <3>9. QED  BY <3>5, <3>6, <3>8
  <2>5. (ui[a].activeCall)' = ui'[a].activeCall /\ (ui[a].remote)' = ui'[a].remote  OBVIOUS
  <2>6. QED  BY <1>1, <2>3, <2>4 DEF StartsFresh
<1>4. QED  BY <1>2, <1>3

LEMMA UnsentStays ==
  ASSUME NEW n \in Node, NEW c, NEW a, NEW b, Moving(n, c, a, b)
  PROVE  OfferUnsent(a, b, c)'
<1>1. Fades(a, c) /\ Fades(b, c)  BY FadesFact DEF Moving, Between
<1>2. OfferUnsent(a, b, c)  BY DEF Moving, Tracked
<1>3. QED
  BY <1>1, <1>2, StartingStays, OfferingStays DEF OfferUnsent, Fades

LEMMA OnceStays ==
  ASSUME NEW n \in Node, NEW c, NEW a, NEW b, Moving(n, c, a, b)
  PROVE  OfferedOnce(a, b, c)'
<1>1. Fades(a, c) /\ Fades(b, c)  BY FadesFact DEF Moving, Between
<1>2. OfferedOnce(a, b, c)  BY DEF Moving, Tracked
<1>3. QED  BY <1>1, <1>2 DEF OfferedOnce, Fades

LEMMA UnheardStays ==
  ASSUME NEW n \in Node, NEW c, NEW a, NEW b, Moving(n, c, a, b)
  PROVE  Unheard(a, b, c)'
<1>0. /\ a \in Node /\ b \in Node /\ RolesOf(n, c, a, b) /\ a # b /\ b = Callee(c)
      /\ OfferUnsent(a, b, c) /\ Unheard(a, b, c) /\ OfferedOnce(a, b, c)
      /\ c # NextCall /\ EngineTypes
  BY RolesFact DEF Moving, Between, Tracked
<1>1. Fades(a, c) /\ Fades(b, c)  BY <1>0, FadesFact
<1> SUFFICES ASSUME Unsent(a, c)' \/ Offering(a, b, c)'
             PROVE  /\ ~Shows(b, c)' /\ ~Prepares(b, c)' /\ (ui[b].pc)' # c
                    /\ ~Waits(b, "answer", c)' /\ ~Waits(b, "end", c)'
                    /\ ~Replied(b, "answer", c)' /\ ~Replied(b, "end", c)'
                    /\ ~OnWire(b, a, "answer", c)' /\ ~OnWire(b, a, "end", c)'
                    /\ ~Queued(a, "answer", c)'
  BY DEF Unheard
<1>2. Unsent(a, c) \/ Offering(a, b, c)  BY StartingStays, OfferingStays
<1>3. /\ ~Shows(b, c) /\ ~Prepares(b, c) /\ ui[b].pc # c
      /\ ~Waits(b, "answer", c) /\ ~Waits(b, "end", c)
      /\ ~Replied(b, "answer", c) /\ ~Replied(b, "end", c)
      /\ ~OnWire(b, a, "answer", c) /\ ~OnWire(b, a, "end", c)
      /\ ~Queued(a, "answer", c)
  BY <1>0, <1>2 DEF Unheard
<1>4. /\ ~Replied(b, "answer", c)' /\ ~Replied(b, "end", c)'
      /\ ~OnWire(b, a, "answer", c)' /\ ~OnWire(b, a, "end", c)'
      /\ ~Queued(a, "answer", c)'
  BY <1>1, <1>3 DEF Fades
<1>5. CASE n # b
  <2>1. Rests(b, c)  BY <1>0, <1>5, FadesFact
  <2>2. ~Shows(b, c)' /\ ~Prepares(b, c)' /\ (ui[b].pc)' # c
    BY <1>3, <2>1 DEF Rests, Shows, Prepares
  <2>3. QED  BY <1>3, <1>4, <2>1, <2>2 DEF Rests
<1>6. CASE n = b
  <2>1. Fields(b, c) /\ Requests(b, c) /\ EngineTypes  BY <1>6 DEF Moving, AppStep
  <2>2. Rests(a, c)  BY <1>0, <1>6, FadesFact
  <2>3. ~Heard(b, "offer", c)
    <3> SUFFICES ASSUME Heard(b, "offer", c) PROVE FALSE
      OBVIOUS
    <3>1. Queued(b, "offer", c) /\ ~Queued(b, "offer", c)'
      BY <1>0, HeardFacts DEF OfferedOnce
    <3>2. ~OnWire(a, b, "offer", c) /\ reading[b][a] # c
      BY <1>0, <3>1 DEF OfferedOnce
    <3>3. ~Offering(a, b, c)'  BY <1>1, <3>1, <3>2 DEF Offering, Fades
    <3>4. ~Unsent(a, c)  BY <1>0, <3>1 DEF OfferUnsent, Offering
    <3>5. QED  BY <3>3, <3>4, StartingStays
  <2>4. ui[b].pending # c /\ ui[b].activeCall # c /\ ui[b].steps[c] = "none"
    BY <1>3 DEF Shows, Prepares
  <2>5. ~Replied(b, "offer", c) /\ ~Queued(b, "answer", c)
    BY <1>0, <1>6 DEF RolesOf
  <2>6. ui'[b].pending # c  BY <2>1, <2>3, <2>4 DEF Fields, RingsAnew
  <2>7. ui'[b].activeCall # c
    BY <1>3, <2>1, <2>4, <2>5 DEF Fields, ShowsAnew
  <2>8. ui'[b].pc # c  BY <1>3, <2>1, <2>4 DEF Fields, OpensAnew
  <2>9. ui'[b].steps[c] = "none"
    BY <1>0, <2>1, <2>4 DEF Fields, GoesOn
  <2>10. ~Waits(b, "answer", c)'
    BY <1>3, <2>1, <2>4 DEF Requests, AsksAnswer, Ready
  <2>11. ~Waits(b, "end", c)'
    BY <1>3, <2>1, <2>3, <2>4 DEF Requests, AsksEnd, Wanted
  <2>12. ~Shows(b, c)' /\ ~Prepares(b, c)'
    BY <2>6, <2>7, <2>9 DEF Shows, Prepares
  <2>13. QED  BY <1>4, <2>8, <2>10, <2>11, <2>12
<1>7. QED  BY <1>5, <1>6

-----------------------------------------------------------------------------
\* Unless a link was lost, only the engine tells an application that a call
\* is over: after the end of the call, or with the answer to its own end.
LEMMA LearnsFact ==
  ASSUME EngineTypes, Linked, NEW n \in Node, NEW c, Learns(n, c)
  PROVE  Queued(n, "ended", c) \/ Replied(n, "end", c)
<1>1. CASE \E r \in replies[n] \ replies'[n] : r.signal = "end" /\ r.call = c
  BY <1>1 DEF Replied
<1>2. CASE events[n] # <<>> /\ IsOver(n, c, Head(events[n]))
  <2> DEFINE e == Head(events[n])
  <2>1. events[n] \in Seq(Event) /\ e \in Event  BY <1>2 DEF EngineTypes
  <2>2. Has(events[n], e)  BY <1>2, <2>1, TailHas
  <2>3. \/ e.type \in EventTypes /\ e = Ev(e.type, e.call)
        \/ e.type = "peer_disconnected" /\ e.peer \in Node /\ e = Lost(e.peer)
    BY <2>1, EventFact
  <2>4. CASE e.type = "ended" /\ e.call = c
    <3>1. e = Ev("ended", c)  BY <2>3, <2>4
    <3>2. QED  BY <2>2, <3>1 DEF Queued
  <2>5. CASE e.type = "peer_disconnected"
    <3>1. e.peer \in Node /\ e = Lost(e.peer)  BY <2>3, <2>5 DEF EventTypes
    <3>2. LossQueued(n, e.peer)  BY <2>2, <3>1 DEF LossQueued
    <3>3. QED  BY <3>1, <3>2 DEF Linked
  <2>6. QED  BY <1>2, <2>4, <2>5 DEF IsOver
<1>3. QED  BY <1>1, <1>2 DEF Learns

\* q's side of the call, m the other one.
LEMMA SideStays ==
  ASSUME NEW n \in Node, NEW c, NEW a, NEW b, Moving(n, c, a, b),
         NEW q \in Node, NEW m, <<q, m>> \in {<<a, b>>, <<b, a>>}
  PROVE  Side(q, m, c)'
<1>0. /\ RolesOf(q, c, a, b) /\ a # b /\ EngineTypes /\ Linked /\ Fades(q, c)
      /\ OfferUnsent(a, b, c) /\ Side(q, m, c) /\ c # NextCall /\ ~LosesTrack(c)
  BY RolesFact, FadesFact DEF Moving, Between, Tracked, Order
<1>1. Cleared(q, m, c)'
  BY <1>0 DEF Side, Cleared, Fades
<1>2. CASE n # q
  <2>1. Rests(q, c)  BY <1>2, FadesFact
  <2>2. Described(q, c)'  BY <1>0, <2>1 DEF Side, Described, Rests
  <2>3. Keeps(q, c) <=> Keeps(q, c)'  BY <2>1 DEF Keeps, Shows, Prepares, Rests
  <2>4. Queued(q, "offer", c)' <=> Queued(q, "offer", c)
    <3>1. events'[q] = events[q]  BY <1>2 DEF Moving, AppStep, Elsewhere
    <3>2. QED  BY <3>1 DEF Queued
  <2>5. Accounted(q, m, c)'
    BY <1>0, <2>1, <2>3, <2>4 DEF Side, Accounted, Rests, Fades
  <2>6. QED  BY <1>1, <2>2, <2>5 DEF Side
<1>3. CASE n = q
  <2>1. Fields(q, c) /\ Requests(q, c) /\ Notices(q, c)  BY <1>3 DEF Moving, AppStep
  <2>2. ~Forgets(q, c) /\ ~Interrupts(q, c)  BY <1>0 DEF LosesTrack
  <2>3. Described(q, c) /\ Cleared(q, m, c) /\ Accounted(q, m, c)  BY <1>0 DEF Side
  <2>4. Described(q, c)'
    <3> SUFFICES ASSUME ui'[q].steps[c] = "describe" PROVE ui'[q].pc = c
      BY DEF Described
    <3>1. \/ ui[q].steps[c] = "describe"
          \/ ui'[q].pc = c
      BY <2>1 DEF Fields, GoesOn
    <3>2. CASE ui[q].steps[c] = "describe"
      <4>1. ui[q].pc = c  BY <2>3, <3>2 DEF Described
      <4>2. Prepares(q, c) /\ Prepares(q, c)'  BY <3>2 DEF Prepares
      <4>3. QED  BY <2>2, <4>1, <4>2 DEF Interrupts
    <3>3. QED  BY <3>1, <3>2
  <2>5. Accounted(q, m, c)'
    <3> SUFFICES ASSUME (active[q][m])' = c \/ Waits(q, "offer", c)'
                 PROVE  Keeps(q, c)' \/ Queued(q, "offer", c)'
      BY DEF Accounted
    <3>1. CASE Ready(q, c)
      BY <3>1 DEF Ready, Keeps, Prepares
    <3>2. CASE active[q][m] = c \/ Waits(q, "offer", c)
      <4>1. Keeps(q, c) \/ Queued(q, "offer", c)  BY <2>3, <3>2 DEF Accounted
      <4>2. ~Learns(q, c)
        <5>1. CASE active[q][m] = c
          BY <1>0, <2>3, <5>1, LearnsFact DEF Cleared
        <5>2. CASE Waits(q, "offer", c)
          <6>1. q = a  BY <1>0, <5>2 DEF RolesOf
          <6>2. ~Queued(a, "ended", c) /\ ~Replied(a, "end", c)
            BY <1>0, <5>2, <6>1 DEF OfferUnsent, Unsent
          <6>3. QED  BY <1>0, <6>1, <6>2, LearnsFact
        <5>3. QED  BY <3>2, <5>1, <5>2
      <4>3. CASE Shows(q, c)
        BY <2>2, <4>2, <4>3 DEF Forgets, Keeps
      <4>4. CASE Waits(q, "end", c)
        BY <2>1, <4>4, SignalsFact DEF Requests, KeepsAsking, Keeps
      <4>5. CASE Prepares(q, c)
        <5>1. ~Failed(q, c)
          <6>1. CASE active[q][m] = c  BY <2>3, <6>1 DEF Cleared
          <6>2. CASE Waits(q, "offer", c)
            <7>1. q = a  BY <1>0, <6>2 DEF RolesOf
            <7>2. ~Replied(a, "offer", c)  BY <1>0, <6>2, <7>1 DEF OfferUnsent, Unsent
            <7>3. QED  BY <7>1, <7>2 DEF Failed, Replied
          <6>3. QED  BY <3>2, <6>1, <6>2
        <5>2. ASSUME NEW r \in replies[q], r.signal \in {"offer", "answer"}, r.call = c
              PROVE  r.ok
          <6>1. r.ok \/ r.signal = "offer"  BY <1>0 DEF Linked
          <6>2. QED  BY <5>1, <5>2, <6>1 DEF Failed
        <5>3. ui[q].steps[c] = "describe" => ui[q].pc = c  BY <2>3 DEF Described
        <5>4. ui'[q].steps[c] # "none" \/ ui'[q].activeCall = c
          BY <2>1, <4>5, <5>2, <5>3 DEF Fields, GoesOn, Prepares
        <5>5. QED  BY <5>4 DEF Keeps, Shows, Prepares
      <4>6. CASE Queued(q, "offer", c)
        <5>1. Queued(q, "offer", c)' \/ (Listens(q) /\ events' # events
                                           /\ Head(events[q]) = Ev("offer", c))
          <6>1. CASE events' = events  BY <4>6, <6>1 DEF Queued
          <6>2. CASE events' # events
            <7>1. events[q] # <<>> /\ events' = [events EXCEPT ![q] = Tail(@)]
              BY <2>1, <6>2 DEF Notices, Listens
            <7>2. Queued(q, "offer", c)' \/ Head(events[q]) = Ev("offer", c)
              BY <1>0, <4>6, <7>1, HeardAtoms
            <7>3. QED  BY <2>1, <6>2, <7>2 DEF Notices
          <6>3. QED  BY <6>1, <6>2
        <5>2. CASE Listens(q) /\ events' # events /\ Head(events[q]) = Ev("offer", c)
          <6>1. events[q] # <<>>  BY <5>2 DEF Listens
          <6>2. Head(events[q]).type = "offer" /\ Head(events[q]).call = c
            BY <5>2 DEF Ev
          <6>3. Handles(q, "offer")  BY <6>1, <6>2 DEF Handles
          <6>4. ui'[q].pending = c \/ Waits(q, "end", c)'
            BY <2>1, <5>2, <6>2, <6>3 DEF Notices, Answers
          <6>5. QED  BY <6>4 DEF Keeps, Shows
        <5>3. QED  BY <5>1, <5>2
      <4>7. QED  BY <4>1, <4>3, <4>4, <4>5, <4>6 DEF Keeps
    <3>3. active'[q][m] = active[q][m]  BY <1>0 DEF Fades
    <3>4. Waits(q, "offer", c)' => Waits(q, "offer", c) \/ Ready(q, c)
      BY <2>1 DEF Requests, AsksOffer
    <3>5. QED  BY <3>1, <3>2, <3>3, <3>4
  <2>6. QED  BY <1>1, <2>4, <2>5 DEF Side
<1>4. QED  BY <1>2, <1>3

LEMMA AppTracks ==
  ASSUME NEW n \in Node, NEW c, NEW a, NEW b, Moving(n, c, a, b)
  PROVE  Tracked(a, b, c)'
<1>1. a \in Node /\ b \in Node  BY DEF Moving, Between
<1>2. Side(a, b, c)' /\ Side(b, a, c)'  BY <1>1, SideStays
<1>3. QED
  BY <1>2, FreshStays, UnsentStays, UnheardStays, OnceStays DEF Tracked

-----------------------------------------------------------------------------
(* The engine of n moves, and no link is lost *)

\* Where what there is of call d came from.
FromWaits(d)      == \A q \in Node, s \in Signals : Waits(q, s, d)' => Waits(q, s, d)
FromReplied(n, d) == \A q \in Node, s \in Signals :
  Replied(q, s, d)' => Replied(q, s, d) \/ (q = n /\ Waits(n, s, d))
FromWire(n, d)    == \A q \in Node, p \in Node, s \in Signals :
  OnWire(q, p, s, d)' => \/ OnWire(q, p, s, d)
                         \/ q = n /\ p = PeerOf(n, d) /\ Waits(n, s, d)
                         \/ q = n /\ s = "end" /\ OnWire(p, n, "offer", d)
Announced(n, t, d) == \/ t = "ended" /\ Waits(n, "end", d)
                      \/ \E m \in Node : \/ t = "ended" /\ OnWire(m, n, "end", d)
                                         \/ t \in {"answer", "ice"} /\ OnWire(m, n, t, d)
                                         \/ t = "offer" /\ reading[n][m] = d
FromQueued(n, d)  == \A q \in Node, t \in EventTypes :
  Queued(q, t, d)' => Queued(q, t, d) \/ (q = n /\ Announced(n, t, d))
FromActive(n, d)  == \A q \in Node, p \in Node :
  active'[q][p] = d => \/ active[q][p] = d
                       \/ q = n /\ p = PeerOf(n, d) /\ Waits(n, "offer", d)
                       \/ q = n /\ reading[n][p] = d
FromReading(n, d) == \A q \in Node, p \in Node :
  reading'[q][p] = d => reading[q][p] = d \/ (q = n /\ OnWire(p, n, "offer", d))
From(n, d) == /\ FromWaits(d) /\ FromReplied(n, d) /\ FromWire(n, d)
              /\ FromQueued(n, d) /\ FromActive(n, d) /\ FromReading(n, d)
Sources(n) == \A d \in CallId : From(n, d)

LEMMA EngineBelongs ==
  ASSUME Belongs, Numbered, ui' = ui, party' = party, NEW n \in Node,
         \A d \in CallId : From(n, d)
  PROVE  Belongs'
<1> SUFFICES ASSUME NEW q \in Node, NEW d \in CallId
             PROVE  /\ UiOf(q, d)' /\ RequestOf(q, d)' /\ EventOf(q, d)'
                    /\ WireOf(q, d)' /\ TableOf(q, d)'
  BY DEF Belongs
<1>1. Lasts(q, d)  BY LastsFact, SameMade
<1>2. UiOf(q, d) /\ RequestOf(q, d) /\ EventOf(q, d) /\ WireOf(q, d) /\ TableOf(q, d)
  BY DEF Belongs
<1>12. RequestOf(n, d) /\ TableOf(n, d)
  BY DEF Belongs
<1>3. /\ FromWaits(d) /\ FromReplied(n, d) /\ FromWire(n, d)
      /\ FromQueued(n, d) /\ FromActive(n, d) /\ FromReading(n, d)
  BY DEF From
<1>4. \A p \in Node, s \in Signals : OnWire(p, n, s, d) => Sends(p, s, d) /\ PeerOf(p, d) = n
  BY DEF Belongs, WireOf
<1>5. \A p \in Node, s \in Signals : OnWire(p, n, s, d) =>
        /\ InCall(n, d) /\ PeerOf(n, d) = p
        /\ s = "offer" => n = Callee(d)
        /\ s = "answer" => n = Caller(d)
  BY <1>4 DEF Sends, InCall, PeerOf, Numbered
<1>6. UiOf(q, d)'  BY <1>1, <1>2 DEF UiOf, Lasts
<1>7. RequestOf(q, d)'
  BY <1>1, <1>2, <1>12, <1>3 DEF RequestOf, FromWaits, FromReplied, Lasts
<1>8. EventOf(q, d)'
  <2> SUFFICES ASSUME NEW t \in EventTypes, Queued(q, t, d)' PROVE Gets(q, t, d)'
    BY DEF EventOf
  <2>1. CASE Queued(q, t, d)  BY <1>1, <1>2, <2>1 DEF EventOf, Lasts
  <2>2. CASE q = n /\ Announced(n, t, d)
    <3>1. CASE t = "ended" /\ Waits(n, "end", d)
      <4>1. InCall(n, d)  BY <1>12, <3>1, SignalsFact DEF RequestOf, Sends
      <4>2. Gets(n, t, d)  BY <3>1, <4>1 DEF Gets
      <4>3. QED  BY <1>1, <2>2, <4>2 DEF Lasts
    <3>2. ASSUME NEW m \in Node,
                 \/ t = "ended" /\ OnWire(m, n, "end", d)
                 \/ t \in {"answer", "ice"} /\ OnWire(m, n, t, d)
          PROVE  Gets(q, t, d)'
      <4>1. Gets(n, t, d)  BY <1>5, <3>2, SignalsFact DEF Gets
      <4>2. QED  BY <1>1, <2>2, <4>1 DEF Lasts
    <3>3. ASSUME NEW m \in Node, t = "offer", reading[n][m] = d PROVE Gets(q, t, d)'
      <4>1. Gets(n, t, d)  BY <1>12, <3>3 DEF TableOf
      <4>2. QED  BY <1>1, <2>2, <4>1 DEF Lasts
    <3>4. QED  BY <2>2, <3>1, <3>2, <3>3 DEF Announced
  <2>3. QED  BY <1>3, <2>1, <2>2 DEF FromQueued
<1>9. WireOf(q, d)'
  <2> SUFFICES ASSUME NEW p \in Node, NEW s \in Signals, OnWire(q, p, s, d)'
               PROVE  Sends(q, s, d)' /\ PeerOf(q, d)' = p
    BY DEF WireOf
  <2>1. Sends(q, s, d) /\ PeerOf(q, d) = p
    <3>1. CASE OnWire(q, p, s, d)  BY <1>2, <3>1 DEF WireOf
    <3>2. CASE q = n /\ p = PeerOf(n, d) /\ Waits(n, s, d)
      BY <1>12, <3>2 DEF RequestOf
    <3>3. CASE q = n /\ s = "end" /\ OnWire(p, n, "offer", d)
      <4>1. InCall(n, d) /\ PeerOf(n, d) = p  BY <1>5, <3>3, SignalsFact
      <4>2. QED  BY <3>3, <4>1 DEF Sends
    <3>4. QED  BY <1>3, <3>1, <3>2, <3>3 DEF FromWire
  <2>2. QED  BY <1>1, <2>1 DEF Lasts, Sends
<1>10. TableOf(q, d)'
  <2> SUFFICES ASSUME NEW p \in Node
               PROVE  /\ active'[q][p] = d => InCall(q, d)' /\ PeerOf(q, d)' = p
                      /\ reading'[q][p] = d => Gets(q, "offer", d)' /\ PeerOf(q, d)' = p
    BY DEF TableOf
  <2>1. ASSUME active'[q][p] = d PROVE InCall(q, d) /\ PeerOf(q, d) = p
    <3>1. CASE active[q][p] = d  BY <1>2, <3>1 DEF TableOf
    <3>2. CASE q = n /\ p = PeerOf(n, d) /\ Waits(n, "offer", d)
      BY <1>12, <3>2, SignalsFact DEF RequestOf, Sends
    <3>3. CASE q = n /\ reading[n][p] = d
      BY <1>12, <3>3 DEF TableOf, Gets
    <3>4. QED  BY <1>3, <2>1, <3>1, <3>2, <3>3 DEF FromActive
  <2>2. ASSUME reading'[q][p] = d PROVE Gets(q, "offer", d) /\ PeerOf(q, d) = p
    <3>1. CASE reading[q][p] = d  BY <1>2, <3>1 DEF TableOf
    <3>2. CASE q = n /\ OnWire(p, n, "offer", d)
      <4>1. InCall(n, d) /\ PeerOf(n, d) = p /\ n = Callee(d)
        BY <1>5, <3>2, SignalsFact
      <4>2. QED  BY <3>2, <4>1 DEF Gets
    <3>3. QED  BY <1>3, <2>2, <3>1, <3>2 DEF FromReading
  <2>3. QED  BY <1>1, <2>1, <2>2 DEF Lasts, Gets
<1>11. QED  BY <1>6, <1>7, <1>8, <1>9, <1>10

\* Nothing happens to call d, but that an engine may forget it.
StillWaits(d)   == \A q \in Node : \A s : Waits(q, s, d)' <=> Waits(q, s, d)
StillReplied(d) == \A q \in Node : /\ \A s : Replied(q, s, d)' <=> Replied(q, s, d)
                                   /\ Failed(q, d)' => Failed(q, d)
StillWire(d)    == \A q \in Node, p \in Node :
  /\ \A s : OnWire(q, p, s, d)' <=> OnWire(q, p, s, d)
  /\ WireOrder(q, p, d) => WireOrder(q, p, d)'
StillQueued(d)  == \A q \in Node :
  /\ \A t : Queued(q, t, d)' <=> Queued(q, t, d)
  /\ EventOrder(q, d) => EventOrder(q, d)'
StillActive(d)  == \A q \in Node, p \in Node : active'[q][p] = d => active[q][p] = d
StillReading(d) == \A q \in Node, p \in Node : reading'[q][p] = d <=> reading[q][p] = d
Still(d) == /\ StillWaits(d) /\ StillReplied(d) /\ StillWire(d)
            /\ StillQueued(d) /\ StillActive(d) /\ StillReading(d)

LEMMA StillTracked ==
  ASSUME NEW a \in Node, NEW b \in Node, NEW d, Tracked(a, b, d), Still(d),
         ui' = ui, app' = app
  PROVE  Tracked(a, b, d)'
<1>1. /\ \A s : /\ Waits(a, s, d)' <=> Waits(a, s, d)
                /\ Waits(b, s, d)' <=> Waits(b, s, d)
                /\ Replied(a, s, d)' <=> Replied(a, s, d)
                /\ Replied(b, s, d)' <=> Replied(b, s, d)
                /\ OnWire(a, b, s, d)' <=> OnWire(a, b, s, d)
                /\ OnWire(b, a, s, d)' <=> OnWire(b, a, s, d)
                /\ Queued(a, s, d)' <=> Queued(a, s, d)
                /\ Queued(b, s, d)' <=> Queued(b, s, d)
      /\ Failed(a, d)' => Failed(a, d)
      /\ Failed(b, d)' => Failed(b, d)
      /\ WireOrder(a, b, d) => WireOrder(a, b, d)'
      /\ EventOrder(b, d) => EventOrder(b, d)'
      /\ active'[a][b] = d => active[a][b] = d
      /\ active'[b][a] = d => active[b][a] = d
      /\ reading'[b][a] = d <=> reading[b][a] = d
  BY DEF Still, StillWaits, StillReplied, StillWire, StillQueued, StillActive, StillReading
<1>2. /\ Starting(a, d)' <=> Starting(a, d)
      /\ Desktop(a)' <=> Desktop(a)
      /\ Shows(a, d)' <=> Shows(a, d)
      /\ Shows(b, d)' <=> Shows(b, d)
      /\ Prepares(a, d)' <=> Prepares(a, d)
      /\ Prepares(b, d)' <=> Prepares(b, d)
  BY DEF Starting, Desktop, Shows, Prepares
<1>3. /\ Unsent(a, d)' <=> Unsent(a, d)
      /\ Offering(a, b, d)' <=> Offering(a, b, d)
      /\ Keeps(a, d)' <=> Keeps(a, d)
      /\ Keeps(b, d)' <=> Keeps(b, d)
  BY <1>1, <1>2 DEF Unsent, Offering, Keeps
<1>4. StartsFresh(a, d)'  BY <1>1, <1>2 DEF Tracked, StartsFresh
<1>5. OfferUnsent(a, b, d)'  BY <1>1, <1>3 DEF Tracked, OfferUnsent
<1>6. Unheard(a, b, d)'  BY <1>1, <1>2, <1>3 DEF Tracked, Unheard
<1>7. OfferedOnce(a, b, d)'  BY <1>1 DEF Tracked, OfferedOnce
<1>8. Side(a, b, d)'  BY <1>1, <1>3 DEF Tracked, Side, Described, Cleared, Accounted
<1>9. Side(b, a, d)'  BY <1>1, <1>3 DEF Tracked, Side, Described, Cleared, Accounted
<1>10. QED  BY <1>4, <1>5, <1>6, <1>7, <1>8, <1>9 DEF Tracked

-----------------------------------------------------------------------------
(* Variable by variable *)

LEMMA SameWaits ==
  ASSUME cmds' = cmds, NEW d
  PROVE  StillWaits(d) /\ FromWaits(d)
BY DEF StillWaits, FromWaits, Waits

LEMMA SameReplied ==
  ASSUME replies' = replies, NEW n, NEW d
  PROVE  StillReplied(d) /\ FromReplied(n, d)
BY DEF StillReplied, FromReplied, Replied, Failed

LEMMA SameWire ==
  ASSUME wire' = wire, NEW n, NEW d
  PROVE  StillWire(d) /\ FromWire(n, d)
BY DEF StillWire, FromWire, OnWire, WireOrder

LEMMA SameQueued ==
  ASSUME events' = events, NEW n, NEW d
  PROVE  StillQueued(d) /\ FromQueued(n, d)
BY DEF StillQueued, FromQueued, Queued, EventOrder

LEMMA SameActive ==
  ASSUME active' = active, NEW n, NEW d
  PROVE  StillActive(d) /\ FromActive(n, d)
BY DEF StillActive, FromActive

LEMMA SameReading ==
  ASSUME reading' = reading, NEW n, NEW d
  PROVE  StillReading(d) /\ FromReading(n, d)
BY DEF StillReading, FromReading

LEMMA TakenWaits ==
  ASSUME EngineTypes, NEW n \in Node, NEW x \in cmds[n], Taken(n, x), NEW d
  PROVE  FromWaits(d) /\ (d # x.call => StillWaits(d))
BY TakenAtoms DEF FromWaits, StillWaits

LEMMA AnsweredReplied ==
  ASSUME EngineTypes, NEW n \in Node, NEW x \in cmds[n], NEW ok \in BOOLEAN,
         Answered(n, x, ok), NEW d
  PROVE  FromReplied(n, d) /\ (d # x.call => StillReplied(d))
<1>1. \A q \in Node : \A s :
        /\ Replied(q, s, d) => Replied(q, s, d)'
        /\ Replied(q, s, d)' => Replied(q, s, d) \/ (q = n /\ s = x.signal /\ d = x.call)
        /\ Failed(q, d)' => \/ Failed(q, d)
                            \/ q = n /\ "offer" = x.signal /\ d = x.call /\ ~ok
  BY AnsweredAtoms
<1>2. d = x.call => Waits(n, x.signal, d)  BY DEF Waits
<1>3. FromReplied(n, d)  BY <1>1, <1>2 DEF FromReplied
<1>4. d # x.call => StillReplied(d)  BY <1>1 DEF StillReplied
<1>5. QED  BY <1>3, <1>4

LEMMA SentWire ==
  ASSUME EngineTypes, NEW n \in Node, NEW m \in Node, NEW s \in Signals, NEW c \in CallId,
         link[n][m] = "up", wire' = Sent(n, m, Sig(s, c)),
         m = PeerOf(n, c), Waits(n, s, c), NEW d
  PROVE  FromWire(n, d) /\ (d # c => StillWire(d))
<1>1. \A p \in Node, q \in Node : \A t :
        OnWire(p, q, t, d)' <=> OnWire(p, q, t, d) \/ (p = n /\ q = m /\ t = s /\ d = c)
  BY SentAtoms
<1>2. FromWire(n, d)  BY <1>1 DEF FromWire
<1>3. ASSUME d # c PROVE StillWire(d)
  <2>1. ASSUME NEW p \in Node, NEW q \in Node, WireOrder(p, q, d)
        PROVE  WireOrder(p, q, d)'
    BY <1>3, <2>1, SentOrder
  <2>2. QED  BY <1>1, <1>3, <2>1 DEF StillWire
<1>4. QED  BY <1>2, <1>3

LEMMA EmittedQueued ==
  ASSUME EngineTypes, NEW n \in Node, NEW s \in EventTypes, NEW c \in CallId,
         events' = Emitted(n, Ev(s, c)), Announced(n, s, c), NEW d
  PROVE  /\ FromQueued(n, d) /\ (d # c => StillQueued(d))
         /\ \A q \in Node : \A m : LossQueued(q, m)' <=> LossQueued(q, m)
<1>1. \A q \in Node : \A t :
        Queued(q, t, d)' <=> Queued(q, t, d) \/ (q = n /\ t = s /\ d = c)
  BY EmittedAtoms
<1>2. \A q \in Node : \A m : LossQueued(q, m)' <=> LossQueued(q, m)
  BY EmittedAtoms
<1>3. FromQueued(n, d)  BY <1>1 DEF FromQueued
<1>4. ASSUME d # c PROVE StillQueued(d)
  <2>1. ASSUME NEW q \in Node, EventOrder(q, d) PROVE EventOrder(q, d)'
    BY <1>4, <2>1, EmittedOrder
  <2>2. QED  BY <1>1, <1>4, <2>1 DEF StillQueued
<1>5. QED  BY <1>2, <1>3, <1>4

LEMMA ReadWire ==
  ASSUME EngineTypes, NEW n \in Node, NEW m \in Node, NEW s, Incoming(n, m, s),
         wire' = Read(n, m), NEW d
  PROVE  FromWire(n, d) /\ (d # Head(wire[m][n]).call => StillWire(d))
<1> DEFINE c == Head(wire[m][n]).call
<1>0. Read(n, m) \in Wires  BY ReadFacts
<1>1. \A p \in Node, q \in Node : \A t :
        /\ OnWire(p, q, t, d)' => OnWire(p, q, t, d)
        /\ OnWire(p, q, t, d) => OnWire(p, q, t, d)' \/ (p = m /\ q = n /\ t = s /\ d = c)
        /\ WireOrder(p, q, d) => WireOrder(p, q, d)'
  BY <1>0, ReadAtoms DEF OnWire, WireOrder
<1> HIDE DEF c
<1>2. FromWire(n, d)  BY <1>1 DEF FromWire
<1>3. d # c => StillWire(d)  BY <1>1 DEF StillWire
<1>4. QED  BY <1>2, <1>3 DEF c

LEMMA RefusedWire ==
  ASSUME EngineTypes, NEW n \in Node, NEW m \in Node \ {n}, Incoming(n, m, "offer"),
         wire' = Refusal(n, m, Head(wire[m][n]).call),
         NEW p \in Node, NEW q \in Node, NEW t, NEW d
  PROVE  LET c == Head(wire[m][n]).call
         IN /\ OnWire(p, q, t, d)' => \/ OnWire(p, q, t, d)
                                      \/ p = n /\ q = m /\ t = "end" /\ d = c
            /\ OnWire(p, q, t, d) => \/ OnWire(p, q, t, d)'
                                     \/ p = m /\ q = n /\ t = "offer" /\ d = c
            /\ WireOrder(p, q, d) => WireOrder(p, q, d)'
            /\ WireOrder(m, n, c) /\ d = c => ~OnWire(m, n, "offer", d)'
<1> DEFINE c == Head(wire[m][n]).call
           w == Read(n, m)
<1>0. w \in Wires /\ c \in CallId  BY ReadFacts
<1>1. /\ Has(w[p][q], Sig(t, d)) => OnWire(p, q, t, d)
      /\ OnWire(p, q, t, d) => \/ Has(w[p][q], Sig(t, d))
                               \/ p = m /\ q = n /\ t = "offer" /\ d = c
      /\ WireOrder(p, q, d) => Leads(w[p][q], Sig("offer", d), Sig("end", d))
      /\ WireOrder(m, n, c) => ~Has(w[m][n], Sig("offer", c))
  BY <1>0, ReadAtoms
<1>2. wire' = [w EXCEPT ![n][m] = Append(w[n][m], Sig("end", c))]
  BY DEF Refusal
<1> HIDE DEF c, w
<1>3. wire'[p][q] = IF p = n /\ q = m THEN Append(w[n][m], Sig("end", c)) ELSE w[p][q]
  BY <1>0, <1>2, ZenonT(40) DEF Wires
<1>13. wire'[m][n] = w[m][n]
  BY <1>0, <1>2, SMTT(30) DEF Wires
<1>4. w[n][m] \in Seq(Signal) /\ Sig("end", c) \in Signal
  BY <1>0 DEF Wires, Sig, Signal, Signals
<1>5. Has(Append(w[n][m], Sig("end", c)), Sig(t, d)) <=>
        Has(w[n][m], Sig(t, d)) \/ Sig("end", c) = Sig(t, d)
  BY <1>4, AppendHas
<1>6. /\ OnWire(p, q, t, d)' => \/ OnWire(p, q, t, d)
                                \/ p = n /\ q = m /\ t = "end" /\ d = c
      /\ OnWire(p, q, t, d) => \/ OnWire(p, q, t, d)'
                               \/ p = m /\ q = n /\ t = "offer" /\ d = c
  BY <1>1, <1>3, <1>5, SigFacts DEF OnWire
<1>7. ASSUME WireOrder(p, q, d) PROVE WireOrder(p, q, d)'
  <2>1. Leads(w[p][q], Sig("offer", d), Sig("end", d))  BY <1>1, <1>7
  <2>2. Sig("offer", d) # Sig("end", d) /\ Sig("end", c) # Sig("offer", d)  BY SigFacts
  <2>3. Leads(w[n][m], Sig("offer", d), Sig("end", d)) =>
          Leads(Append(w[n][m], Sig("end", c)), Sig("offer", d), Sig("end", d))
    BY <1>4, <2>2, AppendLeads
  <2>4. QED  BY <1>3, <2>1, <2>3 DEF WireOrder
<1>8. WireOrder(m, n, c) /\ d = c => ~OnWire(m, n, "offer", d)'
  BY <1>1, <1>13 DEF OnWire
<1>9. QED  BY <1>6, <1>7, <1>8 DEF c

-----------------------------------------------------------------------------
(* One action of the engine after the other *)

\* Neither an application nor a party of a call changes.
Served == ui' = ui /\ app' = app /\ party' = party

LEMMA RequestAt ==
  ASSUME EngineTypes, Order, NEW n \in Node, NEW x \in cmds[n]
  PROVE  /\ x.signal \in Signals /\ x.call \in CallId
         /\ Waits(n, x.signal, x.call) /\ Sends(n, x.signal, x.call)
         /\ PeerOf(n, x.call) \in Node /\ PeerOf(n, x.call) # n
         /\ link[n][PeerOf(n, x.call)] = "up"
         /\ Resolves(n, PeerOf(n, x.call)) /\ Outcomes(n, PeerOf(n, x.call)) = {TRUE}
<1>1. x.signal \in Signals  BY DEF Order, Awaits, Proper
<1>2. x \in Request  BY DEF EngineTypes
<1>3. x.call \in CallId  BY <1>1, <1>2 DEF Request, Signals
<1>4. Waits(n, x.signal, x.call)  BY DEF Waits
<1>5. Sends(n, x.signal, x.call)
  BY <1>1, <1>3, <1>4 DEF Order, Belongs, RequestOf
<1>6. PeerOf(n, x.call) \in Node /\ PeerOf(n, x.call) # n
  BY <1>5 DEF Sends, InCall, Order, Numbered, PeerOf
<1>7. link[n][PeerOf(n, x.call)] = "up"  BY <1>6 DEF Order, Linked
<1>8. QED  BY <1>1, <1>3, <1>4, <1>5, <1>6, <1>7 DEF Resolves, Outcomes

LEMMA TakenGone ==
  ASSUME EngineTypes, Order, NEW n \in Node, NEW x \in cmds[n], Taken(n, x),
         x.signal \in {"offer", "answer"} \/ (x.signal = "end" /\ ~Desktop(n))
  PROVE  ~Waits(n, x.signal, x.call)'
<1> SUFFICES ASSUME NEW y \in cmds'[n], y.signal = x.signal, y.call = x.call
             PROVE  FALSE
  BY DEF Waits
<1>1. cmds'[n] = cmds[n] \ {x}  BY DEF EngineTypes, Taken
<1>2. y \in cmds[n] /\ y # x  BY <1>1
<1>3. Proper(n, x) /\ Proper(n, y)  BY <1>2 DEF Order, Awaits
<1>4. x \in Request /\ y \in Request  BY <1>2 DEF EngineTypes
<1>5. /\ x \in [signal : Signals, call : CallId, awaited : BOOLEAN]
      /\ y \in [signal : Signals, call : CallId, awaited : BOOLEAN]
  BY <1>3, <1>4 DEF Request, Proper, Signals
<1>6. x.awaited = y.awaited
  <2>1. x.awaited \in BOOLEAN /\ y.awaited \in BOOLEAN  BY <1>5
  <2>2. x.awaited <=> y.awaited  BY <1>3 DEF Proper
  <2>3. QED  BY <2>1, <2>2
<1>7. x = y  BY <1>5, <1>6
<1>8. QED  BY <1>2, <1>7

LEMMA EngineOrder ==
  ASSUME EngineTypes, Order, Served, NEW n \in Node, \A d \in CallId : From(n, d),
         link' = link, \A q \in Node : cmds'[q] \subseteq cmds[q],
         \A q \in Node : \A m : LossQueued(q, m)' => LossQueued(q, m),
         \A q \in Node : \A r \in replies'[q] :
           r \in replies[q] \/ r.ok \/ r.signal = "offer"
  PROVE  Order'
<1>1. Belongs'  BY EngineBelongs DEF Order, Served
<1>2. Numbered'  BY DEF Order, Served, Numbered, Made, Caller, Callee
<1>3. Remotes'  BY DEF Order, Served, Remotes, Desktop
<1>4. Awaits'  BY DEF Order, Served, Awaits, Proper, Desktop
<1>5. Linked'  BY DEF Order, Linked
<1>6. QED  BY <1>1, <1>2, <1>3, <1>4, <1>5 DEF Order

LEMMA ReadOrder ==
  ASSUME EngineTypes, Order, Served, NEW n \in Node, \A d \in CallId : From(n, d),
         link' = link, cmds' = cmds, replies' = replies,
         \A q \in Node : \A m : LossQueued(q, m)' => LossQueued(q, m)
  PROVE  Order'
BY EngineOrder

LEMMA RequestOrder ==
  ASSUME EngineTypes, Order, Served, NEW n \in Node, \A d \in CallId : From(n, d),
         link' = link, NEW x \in cmds[n], Taken(n, x),
         NEW ok \in BOOLEAN, ok \/ x.signal = "offer", Answered(n, x, ok),
         \A q \in Node : \A m : LossQueued(q, m)' => LossQueued(q, m)
  PROVE  Order'
<1>1. \A q \in Node : cmds'[q] \subseteq cmds[q]  BY DEF EngineTypes, Taken
<1>2. ASSUME NEW q \in Node, NEW r \in replies'[q]
      PROVE  r \in replies[q] \/ r.ok \/ r.signal = "offer"
  BY <1>2 DEF EngineTypes, Answered
<1>3. QED  BY <1>1, <1>2, EngineOrder

-----------------------------------------------------------------------------

LEMMA PutAt ==
  ASSUME NEW f, NEW g, f \in Tables, NEW n \in Node, NEW m \in Node, NEW y,
         g = [f EXCEPT ![n][m] = y], NEW q \in Node, NEW p \in Node
  PROVE  g[q][p] = IF q = n /\ p = m THEN y ELSE f[q][p]
BY DEF Tables

LEMMA PutActive ==
  ASSUME EngineTypes, NEW n \in Node, NEW m \in Node, NEW y,
         active' = [active EXCEPT ![n][m] = y], NEW d,
         y = d => \/ active[n][m] = d \/ reading[n][m] = d
                  \/ m = PeerOf(n, d) /\ Waits(n, "offer", d)
  PROVE  FromActive(n, d) /\ (d # y => StillActive(d))
<1>1. active \in Tables  BY DEF EngineTypes
<1>2. \A q, p \in Node : active'[q][p] = IF q = n /\ p = m THEN y ELSE active[q][p]
  BY <1>1, PutAt
<1>3. QED  BY <1>2 DEF StillActive, FromActive

LEMMA PutReading ==
  ASSUME EngineTypes, NEW n \in Node, NEW m \in Node, NEW y,
         reading' = [reading EXCEPT ![n][m] = y], NEW d,
         y = d => OnWire(m, n, "offer", d)
  PROVE  FromReading(n, d) /\ (d # y /\ d # reading[n][m] => StillReading(d))
<1>1. reading \in Tables  BY DEF EngineTypes
<1>2. \A q, p \in Node : reading'[q][p] = IF q = n /\ p = m THEN y ELSE reading[q][p]
  BY <1>1, PutAt
<1>3. QED  BY <1>2 DEF StillReading, FromReading

LEMMA ClearedCall ==
  ASSUME EngineTypes, NEW n \in Node, NEW m \in Node, NEW c \in CallId, ClearCall(n, m, c),
         Announced(n, "ended", c), NEW d \in CallId
  PROVE  /\ FromActive(n, d) /\ FromQueued(n, d) /\ active'[n][m] # c
         /\ d # c => StillQueued(d) /\ StillActive(d)
         /\ \A q \in Node : \A p : LossQueued(q, p)' <=> LossQueued(q, p)
<1> DEFINE y == Remaining(n, m, c)
<1>1. /\ active' = [active EXCEPT ![n][m] = y]
      /\ events' = Emitted(n, Ev("ended", c))
  BY SigFacts DEF ClearCall
<1>2. y # c /\ (y = None \/ y = active[n][m])  BY NoneFact DEF Remaining
<1> HIDE DEF y
<1>3. \A q, p \in Node : active'[q][p] = IF q = n /\ p = m THEN y ELSE active[q][p]
  BY <1>1 DEF EngineTypes, Tables
<1>4. FromActive(n, d) /\ StillActive(d)
  BY <1>2, <1>3, NoneFact DEF FromActive, StillActive
<1>5. "ended" \in EventTypes  BY DEF EventTypes
<1>6. QED  BY <1>1, <1>2, <1>3, <1>4, <1>5, EmittedQueued

-----------------------------------------------------------------------------
(* Other calls than that of the action *)

LEMMA RefuseOfferStill ==
  ASSUME EngineTypes, Order, Served, NEW n \in Node, NEW x \in cmds[n], RefuseOffer(n, x)
  PROVE  Order' /\ Sources(n) /\ \A d \in CallId \ {x.call} : Still(d)
<1>1. /\ Taken(n, x) /\ Answered(n, x, FALSE) /\ x.signal = "offer"
      /\ UNCHANGED <<party, active, reading, link, wire, events, breaks>>
  BY DEF RefuseOffer, Requested
<1>2. ASSUME NEW d PROVE From(n, d) /\ (d # x.call => Still(d))
  BY <1>1, TakenWaits, AnsweredReplied, SameWire, SameQueued, SameActive, SameReading
     DEF From, Still
<1>3. \A q \in Node : \A m : LossQueued(q, m)' => LossQueued(q, m)
  BY <1>1 DEF LossQueued
<1>4. Order'  BY <1>1, <1>2, <1>3, RequestOrder
<1>5. QED  BY <1>2, <1>4 DEF Sources

LEMMA SendOfferStill ==
  ASSUME EngineTypes, Order, Served, NEW n \in Node, NEW x \in cmds[n], SendOffer(n, x)
  PROVE  Order' /\ Sources(n) /\ \A d \in CallId \ {x.call} : Still(d)
<1> DEFINE m == PeerOf(n, x.call)
           c == x.call
<1>1. /\ c \in CallId /\ m \in Node /\ link[n][m] = "up" /\ Outcomes(n, m) = {TRUE}
      /\ Waits(n, x.signal, c)
  BY RequestAt
<1>2. /\ Taken(n, x) /\ Answered(n, x, TRUE) /\ x.signal = "offer"
      /\ wire' = Sent(n, m, Sig("offer", c))
      /\ active' = [active EXCEPT ![n][m] = c]
      /\ UNCHANGED <<party, reading, link, events, breaks>>
  BY <1>1 DEF SendOffer, Requested
<1>3. m = PeerOf(n, c)  OBVIOUS
<1> HIDE DEF m, c
<1>4. ASSUME NEW d PROVE From(n, d) /\ (d # c => Still(d))
  <2>1. FromWire(n, d) /\ (d # c => StillWire(d))
    BY <1>1, <1>2, <1>3, SentWire, SignalsFact
  <2>2. FromActive(n, d) /\ (d # c => StillActive(d))
    BY <1>1, <1>2, <1>3, PutActive
  <2>3. FromWaits(d) /\ FromReplied(n, d) /\ (d # c => StillWaits(d) /\ StillReplied(d))
    BY <1>2, TakenWaits, AnsweredReplied DEF c
  <2>4. QED  BY <1>2, <2>1, <2>2, <2>3, SameQueued, SameReading DEF From, Still
<1>5. \A q \in Node : \A p : LossQueued(q, p)' => LossQueued(q, p)
  BY <1>2 DEF LossQueued
<1>6. Order'  BY <1>2, <1>4, <1>5, RequestOrder
<1>7. QED  BY <1>4, <1>6 DEF Sources, c

LEMMA SendMediaStill ==
  ASSUME EngineTypes, Order, Served, NEW n \in Node, NEW x \in cmds[n], SendMedia(n, x)
  PROVE  Order' /\ Sources(n) /\ \A d \in CallId \ {x.call} : Still(d)
<1> DEFINE m == PeerOf(n, x.call)
           c == x.call
<1>1. /\ c \in CallId /\ m \in Node /\ link[n][m] = "up" /\ Outcomes(n, m) = {TRUE}
      /\ Waits(n, x.signal, c) /\ x.signal \in Signals
  BY RequestAt
<1>2. /\ Taken(n, x) /\ Answered(n, x, TRUE)
      /\ wire' = Sent(n, m, Sig(x.signal, c))
      /\ UNCHANGED <<party, active, reading, link, events, breaks>>
  BY <1>1 DEF SendMedia, Requested
<1>3. m = PeerOf(n, c)  OBVIOUS
<1> HIDE DEF m, c
<1>4. ASSUME NEW d PROVE From(n, d) /\ (d # c => Still(d))
  <2>1. FromWire(n, d) /\ (d # c => StillWire(d))
    BY <1>1, <1>2, <1>3, SentWire
  <2>3. FromWaits(d) /\ FromReplied(n, d) /\ (d # c => StillWaits(d) /\ StillReplied(d))
    BY <1>2, TakenWaits, AnsweredReplied DEF c
  <2>4. QED  BY <1>2, <2>1, <2>3, SameQueued, SameReading, SameActive DEF From, Still
<1>5. \A q \in Node : \A p : LossQueued(q, p)' => LossQueued(q, p)
  BY <1>2 DEF LossQueued
<1>6. Order'  BY <1>2, <1>4, <1>5, RequestOrder
<1>7. QED  BY <1>4, <1>6 DEF Sources, c

LEMMA SendEndStill ==
  ASSUME EngineTypes, Order, Served, NEW n \in Node, NEW x \in cmds[n], SendEnd(n, x)
  PROVE  Order' /\ Sources(n) /\ \A d \in CallId \ {x.call} : Still(d)
<1> DEFINE m == PeerOf(n, x.call)
           c == x.call
<1>1. /\ c \in CallId /\ m \in Node /\ link[n][m] = "up" /\ Outcomes(n, m) = {TRUE}
      /\ Waits(n, x.signal, c)
  BY RequestAt
<1>2. /\ Taken(n, x) /\ Answered(n, x, TRUE) /\ x.signal = "end"
      /\ wire' = Sent(n, m, Sig("end", c)) /\ ClearCall(n, m, c)
      /\ UNCHANGED <<party, reading, link, breaks>>
  BY <1>1 DEF SendEnd, Requested
<1>3. m = PeerOf(n, c) /\ Announced(n, "ended", c)  BY <1>1, <1>2 DEF Announced
<1> HIDE DEF m, c
<1>4. ASSUME NEW d \in CallId
      PROVE  /\ From(n, d) /\ (d # c => Still(d))
             /\ \A q \in Node : \A p : LossQueued(q, p)' => LossQueued(q, p)
  <2>1. FromWire(n, d) /\ (d # c => StillWire(d))
    BY <1>1, <1>2, <1>3, SentWire, SignalsFact
  <2>2. /\ FromActive(n, d) /\ FromQueued(n, d)
        /\ d # c => StillQueued(d) /\ StillActive(d)
        /\ \A q \in Node : \A p : LossQueued(q, p)' <=> LossQueued(q, p)
    BY <1>1, <1>2, <1>3, ClearedCall
  <2>3. FromWaits(d) /\ FromReplied(n, d) /\ (d # c => StillWaits(d) /\ StillReplied(d))
    BY <1>2, TakenWaits, AnsweredReplied DEF c
  <2>4. QED  BY <1>2, <2>1, <2>2, <2>3, SameReading DEF From, Still
<1>5. \A q \in Node : \A p : LossQueued(q, p)' => LossQueued(q, p)
  BY <1>1, <1>4
<1>6. Order'  BY <1>2, <1>4, <1>5, RequestOrder
<1>7. QED  BY <1>4, <1>6 DEF Sources, c

LEMMA AcceptOfferStill ==
  ASSUME EngineTypes, Order, Served, NEW n \in Node, NEW m \in Node, AcceptOffer(n, m)
  PROVE  Order' /\ Sources(n) /\ \A d \in CallId \ {reading[n][m]} : Still(d)
<1> DEFINE c == reading[n][m]
<1>1. c \in CallId  BY DEF AcceptOffer, EngineTypes, Tables, Calls
<1>2. /\ active' = [active EXCEPT ![n][m] = c]
      /\ events' = Emitted(n, Ev("offer", c))
      /\ reading' = [reading EXCEPT ![n][m] = None]
      /\ UNCHANGED <<party, link, wire, cmds, replies, breaks>>
  BY DEF AcceptOffer, Ev
<1>3. c = reading[n][m] /\ Announced(n, "offer", c)  BY DEF Announced
<1> HIDE DEF c
<1>4. ASSUME NEW d \in CallId
      PROVE  /\ From(n, d) /\ (d # c => Still(d))
             /\ \A q \in Node : \A p : LossQueued(q, p)' => LossQueued(q, p)
  <2>1. /\ FromQueued(n, d) /\ (d # c => StillQueued(d))
        /\ \A q \in Node : \A p : LossQueued(q, p)' <=> LossQueued(q, p)
    BY <1>1, <1>2, <1>3, EmittedQueued, SignalsFact
  <2>2. FromActive(n, d) /\ (d # c => StillActive(d))
    BY <1>2, <1>3, PutActive
  <2>3. FromReading(n, d) /\ (d # c => StillReading(d))
    BY <1>2, <1>3, PutReading, NoneFact
  <2>4. QED  BY <1>2, <2>1, <2>2, <2>3, SameWaits, SameReplied, SameWire DEF From, Still
<1>5. \A q \in Node : \A p : LossQueued(q, p)' => LossQueued(q, p)
  BY <1>1, <1>4
<1>6. Order'  BY <1>2, <1>4, <1>5, ReadOrder
<1>7. QED  BY <1>4, <1>6 DEF Sources, c

LEMMA ReceiveEndStill ==
  ASSUME EngineTypes, Order, Served, NEW n \in Node, NEW m \in Node, ReceiveEnd(n, m)
  PROVE  Order' /\ Sources(n) /\ \A d \in CallId \ {Head(wire[m][n]).call} : Still(d)
<1> DEFINE c == Head(wire[m][n]).call
<1>1. /\ Incoming(n, m, "end") /\ wire' = Read(n, m) /\ ClearCall(n, m, c)
      /\ UNCHANGED <<party, reading, link, cmds, replies, breaks>>
  BY DEF ReceiveEnd
<1>2. c \in CallId /\ OnWire(m, n, "end", c)  BY <1>1, ReadFacts, ReadAtoms
<1>3. c = Head(wire[m][n]).call /\ Announced(n, "ended", c)  BY <1>2 DEF Announced
<1> HIDE DEF c
<1>4. ASSUME NEW d \in CallId
      PROVE  /\ From(n, d) /\ (d # c => Still(d))
             /\ \A q \in Node : \A p : LossQueued(q, p)' => LossQueued(q, p)
  <2>1. FromWire(n, d) /\ (d # c => StillWire(d))
    BY <1>1, <1>3, ReadWire
  <2>2. /\ FromActive(n, d) /\ FromQueued(n, d)
        /\ d # c => StillQueued(d) /\ StillActive(d)
        /\ \A q \in Node : \A p : LossQueued(q, p)' <=> LossQueued(q, p)
    BY <1>1, <1>2, <1>3, ClearedCall
  <2>3. QED  BY <1>1, <2>1, <2>2, SameWaits, SameReplied, SameReading DEF From, Still
<1>5. \A q \in Node : \A p : LossQueued(q, p)' => LossQueued(q, p)
  BY <1>2, <1>4
<1>6. Order'  BY <1>1, <1>4, <1>5, ReadOrder
<1>7. QED  BY <1>4, <1>6 DEF Sources, c

LEMMA ReceiveMediaStill ==
  ASSUME EngineTypes, Order, Served, NEW n \in Node, NEW m \in Node,
         NEW s \in {"answer", "ice"}, ReceiveMedia(n, m, s)
  PROVE  Order' /\ Sources(n) /\ \A d \in CallId \ {Head(wire[m][n]).call} : Still(d)
<1> DEFINE c == Head(wire[m][n]).call
<1>1. /\ Incoming(n, m, s) /\ wire' = Read(n, m) /\ events' = Emitted(n, Ev(s, c))
      /\ UNCHANGED <<party, active, reading, link, cmds, replies, breaks>>
  BY DEF ReceiveMedia, Ev
<1>2. c \in CallId /\ OnWire(m, n, s, c)  BY <1>1, ReadFacts, ReadAtoms
<1>3. c = Head(wire[m][n]).call /\ Announced(n, s, c) /\ s \in EventTypes
  BY <1>2 DEF Announced, EventTypes
<1> HIDE DEF c
<1>4. ASSUME NEW d \in CallId
      PROVE  /\ From(n, d) /\ (d # c => Still(d))
             /\ \A q \in Node : \A p : LossQueued(q, p)' => LossQueued(q, p)
  <2>1. FromWire(n, d) /\ (d # c => StillWire(d))
    BY <1>1, <1>3, ReadWire
  <2>2. /\ FromQueued(n, d)
        /\ d # c => StillQueued(d)
        /\ \A q \in Node : \A p : LossQueued(q, p)' <=> LossQueued(q, p)
    BY <1>1, <1>2, <1>3, EmittedQueued
  <2>3. QED
    BY <1>1, <2>1, <2>2, SameWaits, SameReplied, SameReading, SameActive DEF From, Still
<1>5. \A q \in Node : \A p : LossQueued(q, p)' => LossQueued(q, p)
  BY <1>2, <1>4
<1>6. Order'  BY <1>1, <1>4, <1>5, ReadOrder
<1>7. QED  BY <1>4, <1>6 DEF Sources, c

LEMMA RejectOfferStill ==
  ASSUME EngineTypes, Order, Served, NEW n \in Node, NEW m \in Node \ {n}, RejectOffer(n, m)
  PROVE  Order' /\ Sources(n) /\ \A d \in CallId \ {Head(wire[m][n]).call} : Still(d)
<1> DEFINE c == Head(wire[m][n]).call
<1>1. /\ Incoming(n, m, "offer") /\ wire' = Refusal(n, m, c)
      /\ UNCHANGED <<party, active, reading, link, cmds, replies, events, breaks>>
  BY DEF RejectOffer
<1>2. c \in CallId /\ OnWire(m, n, "offer", c)  BY <1>1, ReadFacts, ReadAtoms
<1>3. c = Head(wire[m][n]).call  OBVIOUS
<1> HIDE DEF c
<1>4. ASSUME NEW d PROVE From(n, d) /\ (d # c => Still(d))
  <2>1. ASSUME NEW p \in Node, NEW q \in Node, NEW t
        PROVE  /\ OnWire(p, q, t, d)' => \/ OnWire(p, q, t, d)
                                         \/ p = n /\ q = m /\ t = "end" /\ d = c
               /\ OnWire(p, q, t, d) => \/ OnWire(p, q, t, d)'
                                        \/ p = m /\ q = n /\ t = "offer" /\ d = c
               /\ WireOrder(p, q, d) => WireOrder(p, q, d)'
    BY <1>1, <1>3, RefusedWire
  <2>2. FromWire(n, d)  BY <1>2, <2>1 DEF FromWire
  <2>3. d # c => StillWire(d)  BY <2>1 DEF StillWire
  <2>4. QED
    BY <1>1, <2>2, <2>3, SameWaits, SameReplied, SameReading, SameActive, SameQueued
       DEF From, Still
<1>5. \A q \in Node : \A p : LossQueued(q, p)' => LossQueued(q, p)
  BY <1>1 DEF LossQueued
<1>6. Order'  BY <1>1, <1>4, <1>5, ReadOrder
<1>7. QED  BY <1>4, <1>6 DEF Sources, c

LEMMA TestOfferStill ==
  ASSUME EngineTypes, Order, Served, NEW n \in Node, NEW m \in Node, TestOffer(n, m)
  PROVE  Order' /\ Sources(n) /\ \A d \in CallId \ {Head(wire[m][n]).call} : Still(d)
<1> DEFINE c == Head(wire[m][n]).call
<1>1. /\ Incoming(n, m, "offer") /\ wire' = Read(n, m)
      /\ reading' = [reading EXCEPT ![n][m] = c]
      /\ UNCHANGED <<party, active, link, cmds, replies, events, breaks>>
  BY DEF TestOffer
<1>2. c \in CallId /\ OnWire(m, n, "offer", c)  BY <1>1, ReadFacts, ReadAtoms
<1>3. c = Head(wire[m][n]).call /\ reading[n][m] = None  BY <1>1 DEF Incoming
<1> HIDE DEF c
<1>4. ASSUME NEW d \in CallId PROVE From(n, d) /\ (d # c => Still(d))
  <2>1. FromWire(n, d) /\ (d # c => StillWire(d))
    BY <1>1, <1>3, ReadWire
  <2>2. FromReading(n, d) /\ (d # c => StillReading(d))
    <3>1. c = d => OnWire(m, n, "offer", d)  BY <1>2
    <3>2. reading' = [reading EXCEPT ![n][m] = c]  BY <1>1
    <3>3. FromReading(n, d) /\ (d # c /\ d # reading[n][m] => StillReading(d))
      BY <3>1, <3>2, PutReading
    <3>4. d # reading[n][m]  BY <1>3, NoneFact
    <3>5. QED  BY <3>3, <3>4
  <2>3. QED
    BY <1>1, <2>1, <2>2, SameWaits, SameReplied, SameActive, SameQueued DEF From, Still
<1>5. \A q \in Node : \A p : LossQueued(q, p)' => LossQueued(q, p)
  BY <1>1 DEF LossQueued
<1>6. Order'  BY <1>1, <1>4, <1>5, ReadOrder
<1>7. QED  BY <1>4, <1>6 DEF Sources, c

-----------------------------------------------------------------------------
(* The call that the engine serves *)

Serving(c, a, b) == /\ EngineTypes /\ Order /\ Served
                    /\ Between(c, a, b) /\ Tracked(a, b, c) /\ ~LosesTrack(c)

\* What the application of q has of c.
SameUi(q, c) == /\ Starting(q, c)' <=> Starting(q, c)
                /\ Shows(q, c)' <=> Shows(q, c)
                /\ Prepares(q, c)' <=> Prepares(q, c)
                /\ Described(q, c)' <=> Described(q, c)
                /\ Desktop(q)' <=> Desktop(q)
                /\ ui'[q] = ui[q]

LEMMA SameUiFact == ASSUME Served, NEW q, NEW c PROVE SameUi(q, c)
BY DEF Served, SameUi, Starting, Shows, Prepares, Described, Desktop

LEMMA FreshServed ==
  ASSUME NEW c, NEW a, NEW b, Serving(c, a, b), FromWaits(c)
  PROVE  StartsFresh(a, c)'
<1>1. SameUi(a, c) /\ StartsFresh(a, c) /\ a \in Node
  BY SameUiFact DEF Serving, Tracked, Between
<1>2. /\ Waits(a, "offer", c)' => Waits(a, "offer", c)
      /\ Waits(a, "end", c)' => Waits(a, "end", c)
  BY <1>1, SignalsFact DEF FromWaits
<1>3. QED  BY <1>1, <1>2 DEF StartsFresh, SameUi

\* What there is of c at q but its requests, and between q and its peer m.
SameRequests(q, c) == /\ \A s : Waits(q, s, c)' <=> Waits(q, s, c)
SameReplies(q, c)  == /\ \A s : Replied(q, s, c)' <=> Replied(q, s, c)
                      /\ Failed(q, c)' => Failed(q, c)
SameEvents(q, c)   == /\ \A t : Queued(q, t, c)' <=> Queued(q, t, c)
                      /\ EventOrder(q, c) => EventOrder(q, c)'
SameSignals(q, m, c) == /\ \A s : OnWire(q, m, s, c)' <=> OnWire(q, m, s, c)
                        /\ WireOrder(q, m, c) => WireOrder(q, m, c)'
SameTables(q, m, c)  == /\ active'[q][m] = c <=> active[q][m] = c
                        /\ reading'[q][m] = c <=> reading[q][m] = c
SameSide(q, m, c) == /\ SameRequests(q, c) /\ SameReplies(q, c) /\ SameEvents(q, c)
                     /\ SameTables(q, m, c)

LEMMA SideServed ==
  ASSUME NEW c, NEW a, NEW b, Serving(c, a, b), NEW q \in Node, NEW m,
         SameSide(q, m, c), Side(q, m, c)
  PROVE  Side(q, m, c)'
<1>1. SameUi(q, c)  BY SameUiFact DEF Serving
<1>2. Keeps(q, c)' <=> Keeps(q, c)
  BY <1>1 DEF Keeps, SameUi, SameSide, SameRequests
<1>3. QED
  BY <1>1, <1>2 DEF Side, SameUi, SameSide, SameRequests, SameReplies, SameEvents,
     SameTables, Cleared, Accounted

-----------------------------------------------------------------------------

LEMMA RequestAtoms ==
  ASSUME EngineTypes, NEW n \in Node, NEW x \in cmds[n], Taken(n, x),
         NEW ok \in BOOLEAN, Answered(n, x, ok), NEW q \in Node
  PROVE  /\ q # n => SameRequests(q, x.call) /\ SameReplies(q, x.call)
         /\ \A s : s # x.signal => /\ Waits(q, s, x.call)' <=> Waits(q, s, x.call)
                                   /\ Replied(q, s, x.call)' <=> Replied(q, s, x.call)
         /\ Failed(q, x.call)' => Failed(q, x.call) \/ ~ok
BY TakenAtoms, AnsweredAtoms DEF SameRequests, SameReplies

LEMMA SameQueue == ASSUME events' = events, NEW q, NEW c PROVE SameEvents(q, c)
BY DEF SameEvents, Queued, EventOrder

LEMMA SameLine == ASSUME wire' = wire, NEW q, NEW m, NEW c PROVE SameSignals(q, m, c)
BY DEF SameSignals, OnWire, WireOrder

LEMMA SameAsked ==
  ASSUME cmds' = cmds, replies' = replies, NEW q, NEW c
  PROVE  SameRequests(q, c) /\ SameReplies(q, c)
BY DEF SameRequests, SameReplies, Waits, Replied, Failed

LEMMA RefuseOfferOwn ==
  ASSUME NEW c, NEW a, NEW b, Serving(c, a, b), NEW n \in Node, NEW x \in cmds[n],
         RefuseOffer(n, x), c = x.call
  PROVE  Tracked(a, b, c)'
<1>1. /\ Taken(n, x) /\ Answered(n, x, FALSE) /\ x.signal = "offer"
      /\ InAnotherCall(n, PeerOf(n, c), c)
      /\ UNCHANGED <<party, active, reading, link, wire, events, breaks>>
  BY DEF RefuseOffer, Requested
<1>2. EngineTypes /\ Order /\ a \in Node /\ b \in Node /\ a # b  BY DEF Serving, Between
<1>3. Waits(n, "offer", c) /\ n = a /\ PeerOf(n, c) = b
  <2>1. Waits(n, "offer", c)  BY <1>1 DEF Waits
  <2>2. RolesOf(n, c, a, b)  BY <1>2, RolesFact DEF Serving
  <2>3. QED  BY <2>1, <2>2 DEF RolesOf, Serving, Between
<1>4. ~Waits(a, "offer", c)'  BY <1>1, <1>2, <1>3, TakenGone
<1>5. /\ SameRequests(b, c) /\ SameReplies(b, c)
      /\ \A s : s # "offer" => /\ Waits(a, s, c)' <=> Waits(a, s, c)
                               /\ Replied(a, s, c)' <=> Replied(a, s, c)
  BY <1>1, <1>2, <1>3, RequestAtoms
<1>6. /\ SameEvents(a, c) /\ SameEvents(b, c)
      /\ SameSignals(a, b, c) /\ SameSignals(b, a, c)
  BY <1>1, SameQueue, SameLine
<1>7. SameTables(a, b, c) /\ SameTables(b, a, c)  BY <1>1 DEF SameTables
<1>8. /\ StartsFresh(a, c) /\ OfferUnsent(a, b, c) /\ Unheard(a, b, c) /\ OfferedOnce(a, b, c)
      /\ Side(a, b, c) /\ Side(b, a, c)
  BY DEF Serving, Tracked
<1>9. SameUi(a, c) /\ SameUi(b, c)  BY SameUiFact DEF Serving
<1>10. FromWaits(c)  BY <1>1, <1>2, TakenWaits
<1>11. StartsFresh(a, c)'  BY <1>10, FreshServed
<1>12. ~Unsent(a, c)'
  BY <1>3, <1>4, <1>8, <1>9 DEF Unsent, StartsFresh, SameUi
<1>13. OfferUnsent(a, b, c)'  BY <1>12 DEF OfferUnsent
<1>14. Unheard(a, b, c)'
  BY <1>3, <1>5, <1>6, <1>8, <1>9
     DEF Unheard, Unsent, SameUi, SameRequests, SameReplies, SameEvents, SameSignals
<1>15. OfferedOnce(a, b, c)'
  BY <1>6, <1>7, <1>8 DEF OfferedOnce, SameEvents, SameSignals, SameTables
<1>16. Side(b, a, c)'
  BY <1>2, <1>5, <1>6, <1>7, <1>8, SideServed DEF SameSide
<1>17. active'[a][b] # c  BY <1>1, <1>3 DEF InAnotherCall
<1>18. Side(a, b, c)'
  BY <1>4, <1>8, <1>9, <1>17 DEF Side, SameUi, Cleared, Accounted
<1>19. QED  BY <1>11, <1>13, <1>14, <1>15, <1>16, <1>18 DEF Tracked

LEMMA SendOfferOwn ==
  ASSUME NEW c, NEW a, NEW b, Serving(c, a, b), NEW n \in Node, NEW x \in cmds[n],
         SendOffer(n, x), c = x.call
  PROVE  Tracked(a, b, c)'
<1>1. EngineTypes /\ Order /\ a \in Node /\ b \in Node /\ a # b  BY DEF Serving, Between
<1>2. Outcomes(n, PeerOf(n, c)) = {TRUE} /\ c \in CallId /\ link[n][PeerOf(n, c)] = "up"
  BY <1>1, RequestAt
<1>3. /\ Taken(n, x) /\ Answered(n, x, TRUE) /\ x.signal = "offer"
      /\ wire' = Sent(n, PeerOf(n, c), Sig("offer", c))
      /\ active' = [active EXCEPT ![n][PeerOf(n, c)] = c]
      /\ UNCHANGED <<party, reading, link, events, breaks>>
  <2>1. Outcomes(n, PeerOf(n, x.call)) = {TRUE}  BY <1>2
  <2>2. /\ Taken(n, x) /\ Answered(n, x, TRUE) /\ x.signal = "offer"
        /\ wire' = Sent(n, PeerOf(n, x.call), Sig("offer", x.call))
        /\ active' = [active EXCEPT ![n][PeerOf(n, x.call)] = x.call]
        /\ UNCHANGED <<party, reading, link, events, breaks>>
    BY <2>1 DEF SendOffer, Requested
  <2>3. QED  BY <2>2
<1>4. Waits(n, "offer", c) /\ n = a /\ PeerOf(n, c) = b
  <2>1. Waits(n, "offer", c)  BY <1>3 DEF Waits
  <2>2. RolesOf(n, c, a, b)  BY <1>1, RolesFact DEF Serving
  <2>3. QED  BY <2>1, <2>2 DEF RolesOf, Serving, Between
<1>5. ~Waits(a, "offer", c)'  BY <1>1, <1>3, <1>4, TakenGone
<1>6. /\ SameRequests(b, c) /\ SameReplies(b, c)
      /\ \A s : s # "offer" => /\ Waits(a, s, c)' <=> Waits(a, s, c)
                               /\ Replied(a, s, c)' <=> Replied(a, s, c)
      /\ Failed(a, c)' => Failed(a, c)
  BY <1>1, <1>3, <1>4, RequestAtoms
<1>7. SameEvents(a, c) /\ SameEvents(b, c)  BY <1>3, SameQueue
<1>8. \A p, q \in Node : \A t :
        OnWire(p, q, t, c)' <=> OnWire(p, q, t, c) \/ (p = a /\ q = b /\ t = "offer")
  BY <1>1, <1>2, <1>3, <1>4, SentAtoms, SignalsFact
<1>9. /\ StartsFresh(a, c) /\ OfferUnsent(a, b, c) /\ Unheard(a, b, c) /\ OfferedOnce(a, b, c)
      /\ Side(a, b, c) /\ Side(b, a, c)
  BY DEF Serving, Tracked
<1>10. /\ ~Replied(a, "offer", c) /\ ~Replied(a, "end", c) /\ ~Queued(a, "ended", c)
       /\ ~OnWire(a, b, "end", c) /\ ~Queued(b, "ended", c) /\ ~OnWire(a, b, "offer", c)
       /\ reading[b][a] # c /\ ~Queued(b, "offer", c) /\ Unsent(a, c)
  BY <1>4, <1>9 DEF OfferUnsent, Unsent, Offering
<1>11. WireOrder(a, b, c)'
  BY <1>1, <1>2, <1>3, <1>4, <1>9, <1>10, SentOrder, SignalsFact DEF OfferedOnce
<1>12. /\ active'[a][b] = c /\ (active'[b][a] = c <=> active[b][a] = c)
       /\ reading' = reading
  BY <1>1, <1>3, <1>4 DEF EngineTypes, Tables
<1>13. SameUi(a, c) /\ SameUi(b, c)  BY SameUiFact DEF Serving
<1>14. FromWaits(c)  BY <1>1, <1>3, TakenWaits
<1>15. StartsFresh(a, c)'  BY <1>14, FreshServed
<1>16. ~Unsent(a, c)'
  BY <1>4, <1>5, <1>9, <1>13 DEF Unsent, StartsFresh, SameUi
<1>17. OfferUnsent(a, b, c)'  BY <1>16 DEF OfferUnsent
<1>18. Unheard(a, b, c)'
  BY <1>1, <1>6, <1>7, <1>8, <1>9, <1>10, <1>13
     DEF Unheard, SameUi, SameRequests, SameReplies, SameEvents
<1>19. OfferedOnce(a, b, c)'
  BY <1>7, <1>9, <1>10, <1>11, <1>12 DEF OfferedOnce, SameEvents
<1>20. Side(b, a, c)'
  BY <1>1, <1>6, <1>7, <1>9, <1>12, SideServed DEF SameSide, SameTables
<1>21. Side(a, b, c)'
  <2>1. ~Queued(a, "ended", c)' /\ ~Replied(a, "end", c)' /\ ~Failed(a, c)'
    BY <1>6, <1>7, <1>10 DEF SameEvents, Failed, Replied
  <2>2. Keeps(a, c) \/ Queued(a, "offer", c)  BY <1>4, <1>9 DEF Side, Accounted
  <2>3. Keeps(a, c)' \/ Queued(a, "offer", c)'
    BY <1>6, <1>7, <1>13, <2>2 DEF Keeps, SameUi, SameEvents
  <2>4. QED  BY <1>9, <1>13, <2>1, <2>3 DEF Side, SameUi, Cleared, Accounted
<1>22. QED  BY <1>15, <1>17, <1>18, <1>19, <1>20, <1>21 DEF Tracked

-----------------------------------------------------------------------------
\* An answer or a candidate goes on; offers and ends stay where they are.
MediaOnly(q, m, c) ==
  /\ \A s \in {"offer", "end"} : /\ Waits(q, s, c)' <=> Waits(q, s, c)
                                 /\ Replied(q, s, c)' <=> Replied(q, s, c)
                                 /\ OnWire(q, m, s, c)' <=> OnWire(q, m, s, c)
  /\ \A t \in {"offer", "ended"} : Queued(q, t, c)' <=> Queued(q, t, c)
  /\ Failed(q, c)' => Failed(q, c)
  /\ EventOrder(q, c) => EventOrder(q, c)'
  /\ WireOrder(q, m, c) => WireOrder(q, m, c)'
  /\ SameTables(q, m, c)
Answering(a, b, c) == \/ Waits(b, "answer", c) \/ Replied(b, "answer", c)
                      \/ OnWire(b, a, "answer", c) \/ Queued(a, "answer", c)

LEMMA MediaServed ==
  ASSUME NEW c, NEW a, NEW b, Serving(c, a, b), FromWaits(c),
         MediaOnly(a, b, c), MediaOnly(b, a, c),
         Unsent(a, c) \/ Offering(a, b, c) => ~Answering(a, b, c)'
  PROVE  Tracked(a, b, c)'
<1>1. /\ StartsFresh(a, c) /\ OfferUnsent(a, b, c) /\ Unheard(a, b, c) /\ OfferedOnce(a, b, c)
      /\ Side(a, b, c) /\ Side(b, a, c)
  BY DEF Serving, Tracked
<1>2. SameUi(a, c) /\ SameUi(b, c)  BY SameUiFact DEF Serving
<1>3. StartsFresh(a, c)'  BY FreshServed
<1>4. Unsent(a, c)' <=> Unsent(a, c)  BY <1>2 DEF Unsent, SameUi, MediaOnly
<1>5. Offering(a, b, c)' <=> Offering(a, b, c)  BY DEF Offering, MediaOnly, SameTables
<1>6. OfferUnsent(a, b, c)'  BY <1>1, <1>4, <1>5 DEF OfferUnsent, MediaOnly
<1>7. Unheard(a, b, c)'
  <2> SUFFICES ASSUME Unsent(a, c)' \/ Offering(a, b, c)'
               PROVE  /\ ~Shows(b, c)' /\ ~Prepares(b, c)' /\ (ui[b].pc)' # c
                      /\ ~Waits(b, "answer", c)' /\ ~Waits(b, "end", c)'
                      /\ ~Replied(b, "answer", c)' /\ ~Replied(b, "end", c)'
                      /\ ~OnWire(b, a, "answer", c)' /\ ~OnWire(b, a, "end", c)'
                      /\ ~Queued(a, "answer", c)'
    BY DEF Unheard
  <2>1. /\ ~Shows(b, c) /\ ~Prepares(b, c) /\ ui[b].pc # c
        /\ ~Waits(b, "end", c) /\ ~Replied(b, "end", c) /\ ~OnWire(b, a, "end", c)
    BY <1>1, <1>4, <1>5 DEF Unheard
  <2>2. ~Answering(a, b, c)'  BY <1>4, <1>5
  <2>3. QED  BY <1>2, <2>1, <2>2 DEF SameUi, MediaOnly, Answering
<1>8. OfferedOnce(a, b, c)'  BY <1>1 DEF OfferedOnce, MediaOnly, SameTables
<1>9. Keeps(a, c)' <=> Keeps(a, c)  BY <1>2 DEF Keeps, SameUi, MediaOnly
<1>10. Keeps(b, c)' <=> Keeps(b, c)  BY <1>2 DEF Keeps, SameUi, MediaOnly
<1>11. Side(a, b, c)'
  BY <1>1, <1>2, <1>9 DEF Side, SameUi, MediaOnly, SameTables, Cleared, Accounted
<1>12. Side(b, a, c)'
  BY <1>1, <1>2, <1>10 DEF Side, SameUi, MediaOnly, SameTables, Cleared, Accounted
<1>13. QED  BY <1>3, <1>6, <1>7, <1>8, <1>11, <1>12 DEF Tracked

LEMMA AnsweringOver ==
  ASSUME NEW c, NEW a, NEW b, Serving(c, a, b), Unsent(a, c) \/ Offering(a, b, c)
  PROVE  ~Answering(a, b, c) /\ ~OnWire(b, a, "end", c) /\ ~Waits(b, "end", c)
BY DEF Serving, Tracked, Unheard, Answering

LEMMA SendMediaOwn ==
  ASSUME NEW c, NEW a, NEW b, Serving(c, a, b), NEW n \in Node, NEW x \in cmds[n],
         SendMedia(n, x), c = x.call
  PROVE  Tracked(a, b, c)'
<1>1. EngineTypes /\ Order /\ a \in Node /\ b \in Node /\ a # b  BY DEF Serving, Between
<1>2. /\ Outcomes(n, PeerOf(n, c)) = {TRUE} /\ c \in CallId /\ link[n][PeerOf(n, c)] = "up"
      /\ Waits(n, x.signal, c) /\ x.signal \in Signals /\ PeerOf(n, c) \in Node
  BY <1>1, RequestAt
<1>3. /\ Taken(n, x) /\ Answered(n, x, TRUE) /\ x.signal \in {"answer", "ice"}
      /\ wire' = Sent(n, PeerOf(n, c), Sig(x.signal, c))
      /\ UNCHANGED <<party, active, reading, link, events, breaks>>
  <2>1. Outcomes(n, PeerOf(n, x.call)) = {TRUE}  BY <1>2
  <2>2. /\ Taken(n, x) /\ Answered(n, x, TRUE) /\ x.signal \in {"answer", "ice"}
        /\ wire' = Sent(n, PeerOf(n, x.call), Sig(x.signal, x.call))
        /\ UNCHANGED <<party, active, reading, link, events, breaks>>
    BY <2>1 DEF SendMedia, Requested
  <2>3. QED  BY <2>2
<1>4. x.signal = "answer" => n = b
  <2>1. RolesOf(n, c, a, b)  BY <1>1, RolesFact DEF Serving
  <2>2. QED  BY <1>2, <2>1 DEF RolesOf
<1>5. ASSUME NEW q \in Node
      PROVE  /\ \A s : s # x.signal => /\ Waits(q, s, c)' <=> Waits(q, s, c)
                                       /\ Replied(q, s, c)' <=> Replied(q, s, c)
             /\ \A s : /\ Waits(q, s, c)' => Waits(q, s, c)
                       /\ Replied(q, s, c)' => Replied(q, s, c) \/ (q = n /\ s = x.signal)
             /\ Failed(q, c)' => Failed(q, c)
  <2>1. ASSUME NEW s
        PROVE  /\ Waits(q, s, c)' => Waits(q, s, c)
               /\ Waits(q, s, c) => Waits(q, s, c)' \/ s = x.signal
    BY <1>1, <1>3, TakenAtoms
  <2>2. ASSUME NEW s
        PROVE  /\ Replied(q, s, c) => Replied(q, s, c)'
               /\ Replied(q, s, c)' => Replied(q, s, c) \/ (q = n /\ s = x.signal)
    <3>1. EngineTypes /\ Answered(n, x, TRUE) /\ TRUE \in BOOLEAN  BY <1>1, <1>3
    <3>2. Replied(q, s, c) => Replied(q, s, c)'  BY <3>1, AnsweredAtoms
    <3>3. Replied(q, s, c)' => Replied(q, s, c) \/ (q = n /\ s = x.signal)
      BY <3>1, AnsweredAtoms, ZenonT(40)
    <3>4. QED  BY <3>2, <3>3
  <2>3. Failed(q, c)' => Failed(q, c)  BY <1>1, <1>3, AnsweredAtoms
  <2>4. QED  BY <2>1, <2>2, <2>3
<1>6. ASSUME NEW p \in Node, NEW q \in Node
      PROVE  /\ \A t : OnWire(p, q, t, c)' <=>
                         OnWire(p, q, t, c) \/ (p = n /\ q = PeerOf(n, c) /\ t = x.signal)
             /\ WireOrder(p, q, c) => WireOrder(p, q, c)'
  <2>1. \A t : OnWire(p, q, t, c)' <=>
                 OnWire(p, q, t, c) \/ (p = n /\ q = PeerOf(n, c) /\ t = x.signal)
    BY <1>1, <1>2, <1>3, SentAtoms
  <2>2. WireOrder(p, q, c) => WireOrder(p, q, c)'
    BY <1>1, <1>2, <1>3, SentOrder
  <2>3. QED  BY <2>1, <2>2
<1>7. SameEvents(a, c) /\ SameEvents(b, c) /\ SameTables(a, b, c) /\ SameTables(b, a, c)
  BY <1>3, SameQueue DEF SameTables
<1>8. MediaOnly(a, b, c)
  BY <1>1, <1>3, <1>5, <1>6, <1>7 DEF MediaOnly, SameEvents
<1>9. MediaOnly(b, a, c)
  BY <1>1, <1>3, <1>5, <1>6, <1>7 DEF MediaOnly, SameEvents
<1>10. ASSUME Unsent(a, c) \/ Offering(a, b, c) PROVE ~Answering(a, b, c)'
  <2>1. ~Answering(a, b, c)  BY <1>10, AnsweringOver
  <2>2. x.signal # "answer"
    BY <1>2, <1>4, <2>1 DEF Answering
  <2>3. /\ Waits(b, "answer", c)' => Waits(b, "answer", c)
        /\ Replied(b, "answer", c)' => Replied(b, "answer", c)
        /\ OnWire(b, a, "answer", c)' => OnWire(b, a, "answer", c)
        /\ Queued(a, "answer", c)' => Queued(a, "answer", c)
    BY <1>1, <1>5, <1>6, <1>7, <2>2 DEF SameEvents
  <2>4. QED  BY <2>1, <2>3 DEF Answering
<1>11. FromWaits(c)  BY <1>1, <1>3, TakenWaits
<1>12. QED  BY <1>8, <1>9, <1>10, <1>11, MediaServed

LEMMA WireRoles ==
  ASSUME NEW c, NEW a, NEW b, Serving(c, a, b), NEW n \in Node, NEW m \in Node,
         NEW s \in Signals, OnWire(m, n, s, c)
  PROVE  /\ (m = a /\ n = b) \/ (m = b /\ n = a)
         /\ s = "offer" => m = a
         /\ s = "answer" => m = b
<1>1. c \in CallId  BY DEF Serving, Between, Made
<1>2. Sends(m, s, c) /\ PeerOf(m, c) = n  BY <1>1 DEF Serving, Order, Belongs, WireOf
<1>3. QED  BY <1>2 DEF Sends, InCall, Serving, Between

LEMMA ReceiveMediaOwn ==
  ASSUME NEW c, NEW a, NEW b, Serving(c, a, b), NEW n \in Node, NEW m \in Node,
         NEW s \in {"answer", "ice"}, ReceiveMedia(n, m, s), c = Head(wire[m][n]).call
  PROVE  Tracked(a, b, c)'
<1>1. EngineTypes /\ Order /\ a \in Node /\ b \in Node /\ a # b  BY DEF Serving, Between
<1>2. /\ Incoming(n, m, s) /\ wire' = Read(n, m) /\ events' = Emitted(n, Ev(s, c))
      /\ UNCHANGED <<party, active, reading, link, cmds, replies, breaks>>
  BY DEF ReceiveMedia, Ev
<1>3. c \in CallId /\ OnWire(m, n, s, c) /\ Read(n, m) \in Wires /\ s \in Signals
  BY <1>1, <1>2, ReadFacts, ReadAtoms
<1>4. s = "answer" => m = b /\ n = a
  BY <1>1, <1>3, WireRoles
<1>5. ASSUME NEW p \in Node, NEW q \in Node
      PROVE  /\ \A t : t # s => (OnWire(p, q, t, c)' <=> OnWire(p, q, t, c))
             /\ \A t : OnWire(p, q, t, c)' => OnWire(p, q, t, c)
             /\ WireOrder(p, q, c) => WireOrder(p, q, c)'
  <2>1. wire' \in Wires /\ wire' = Read(n, m)  BY <1>2, <1>3
  <2>2. ASSUME NEW w \in Wires, w = Read(n, m), NEW t
        PROVE  /\ Has(w[p][q], Sig(t, c)) => OnWire(p, q, t, c)
               /\ OnWire(p, q, t, c) => Has(w[p][q], Sig(t, c)) \/ t = s
               /\ WireOrder(p, q, c) => Leads(w[p][q], Sig("offer", c), Sig("end", c))
    BY <1>1, <1>2, <2>2, ReadAtoms
  <2>3. ASSUME NEW t
        PROVE  /\ Has(wire'[p][q], Sig(t, c)) => OnWire(p, q, t, c)
               /\ OnWire(p, q, t, c) => Has(wire'[p][q], Sig(t, c)) \/ t = s
               /\ WireOrder(p, q, c) => Leads(wire'[p][q], Sig("offer", c), Sig("end", c))
    BY <2>1, <2>2
  <2>4. QED  BY <2>3 DEF OnWire, WireOrder
<1>6. s \in EventTypes  BY DEF EventTypes
<1>7. ASSUME NEW q \in Node
      PROVE  /\ \A t : Queued(q, t, c)' <=> Queued(q, t, c) \/ (q = n /\ t = s)
             /\ EventOrder(q, c) => EventOrder(q, c)'
  <2>1. \A t : Queued(q, t, c)' <=> Queued(q, t, c) \/ (q = n /\ t = s)
    BY <1>1, <1>2, <1>3, <1>6, EmittedAtoms
  <2>2. EventOrder(q, c) => EventOrder(q, c)'
    BY <1>1, <1>2, <1>3, <1>6, EmittedOrder
  <2>3. QED  BY <2>1, <2>2
<1>8. /\ SameRequests(a, c) /\ SameReplies(a, c) /\ SameRequests(b, c) /\ SameReplies(b, c)
      /\ SameTables(a, b, c) /\ SameTables(b, a, c)
  BY <1>2, SameAsked DEF SameTables
<1>9. MediaOnly(a, b, c)
  BY <1>1, <1>5, <1>7, <1>8 DEF MediaOnly, SameRequests, SameReplies
<1>10. MediaOnly(b, a, c)
  BY <1>1, <1>5, <1>7, <1>8 DEF MediaOnly, SameRequests, SameReplies
<1>11. ASSUME Unsent(a, c) \/ Offering(a, b, c) PROVE ~Answering(a, b, c)'
  <2>1. ~Answering(a, b, c)  BY <1>11, AnsweringOver
  <2>2. s # "answer"  BY <1>3, <1>4, <2>1 DEF Answering
  <2>3. /\ Waits(b, "answer", c)' => Waits(b, "answer", c)
        /\ Replied(b, "answer", c)' => Replied(b, "answer", c)
        /\ OnWire(b, a, "answer", c)' => OnWire(b, a, "answer", c)
        /\ Queued(a, "answer", c)' => Queued(a, "answer", c)
    BY <1>1, <1>5, <1>7, <1>8, <2>2 DEF SameRequests, SameReplies
  <2>4. QED  BY <2>1, <2>3 DEF Answering
<1>12. FromWaits(c)  BY <1>2, SameWaits
<1>13. QED  BY <1>9, <1>10, <1>11, <1>12, MediaServed

-----------------------------------------------------------------------------
(* Offers and ends of the call that the engine serves *)

LEMMA ServingParts ==
  ASSUME NEW c, NEW a, NEW b, Serving(c, a, b)
  PROVE  /\ StartsFresh(a, c) /\ OfferUnsent(a, b, c) /\ Unheard(a, b, c)
         /\ OfferedOnce(a, b, c) /\ Side(a, b, c) /\ Side(b, a, c)
         /\ SameUi(a, c) /\ SameUi(b, c)
         /\ EngineTypes /\ Order /\ a \in Node /\ b \in Node /\ a # b
         /\ c \in CallId /\ ~Overtakes(a, c)
BY SameUiFact DEF Serving, Between, Tracked, LosesTrack, Made

\* The engine of q forgets the call.
LEMMA ClearedSide ==
  ASSUME NEW c, NEW a, NEW b, Serving(c, a, b), NEW q \in Node, NEW m,
         Side(q, m, c), active'[q][m] # c, ~Waits(q, "offer", c)'
  PROVE  Side(q, m, c)'
<1>1. SameUi(q, c)  BY SameUiFact DEF Serving
<1>2. QED  BY <1>1 DEF Side, SameUi, Cleared, Accounted

\* What the read of signal s of call c, that m sent to n, leaves between p and q.
LeavesRest(n, m, s, c, p, q) ==
  /\ \A t : /\ t # s => (OnWire(p, q, t, c)' <=> OnWire(p, q, t, c))
            /\ OnWire(p, q, t, c)' => OnWire(p, q, t, c)
  /\ WireOrder(p, q, c) => WireOrder(p, q, c)'
  /\ WireOrder(m, n, c) /\ s = "offer" => ~OnWire(m, n, "offer", c)'
  /\ WireOrder(m, n, c) /\ s = "end" => ~OnWire(m, n, "offer", c)

LEMMA ReadRest ==
  ASSUME EngineTypes, NEW n \in Node, NEW m \in Node, NEW s, Incoming(n, m, s),
         wire' = Read(n, m), NEW c, c = Head(wire[m][n]).call,
         NEW p \in Node, NEW q \in Node
  PROVE  LeavesRest(n, m, s, c, p, q)
<1>1. wire' \in Wires /\ wire' = Read(n, m)  BY ReadFacts
<1>2. ASSUME NEW w \in Wires, w = Read(n, m), NEW t
      PROVE  /\ Has(w[p][q], Sig(t, c)) => OnWire(p, q, t, c)
             /\ OnWire(p, q, t, c) => Has(w[p][q], Sig(t, c)) \/ t = s
             /\ WireOrder(p, q, c) => Leads(w[p][q], Sig("offer", c), Sig("end", c))
             /\ WireOrder(m, n, c) /\ s = "offer" => ~Has(w[m][n], Sig("offer", c))
             /\ WireOrder(m, n, c) /\ s = "end" => ~OnWire(m, n, "offer", c)
  BY <1>2, ReadAtoms
<1>3. ASSUME NEW t
      PROVE
      /\ Has(wire'[p][q], Sig(t, c)) => OnWire(p, q, t, c)
      /\ OnWire(p, q, t, c) => Has(wire'[p][q], Sig(t, c)) \/ t = s
      /\ WireOrder(p, q, c) => Leads(wire'[p][q], Sig("offer", c), Sig("end", c))
      /\ WireOrder(m, n, c) /\ s = "offer" => ~Has(wire'[m][n], Sig("offer", c))
      /\ WireOrder(m, n, c) /\ s = "end" => ~OnWire(m, n, "offer", c)
  BY <1>1, <1>2
<1>4. QED  BY <1>3 DEF LeavesRest, OnWire, WireOrder

LEMMA ClearAtoms ==
  ASSUME EngineTypes, NEW n \in Node, NEW m \in Node, NEW c \in CallId, ClearCall(n, m, c)
  PROVE  /\ \A q \in Node : \A t : Queued(q, t, c)' <=>
                                     Queued(q, t, c) \/ (q = n /\ t = "ended")
         /\ \A q \in Node : EventOrder(q, c) => EventOrder(q, c)'
         /\ active'[n][m] # c
         /\ \A q, p \in Node : q # n => active'[q][p] = active[q][p]
<1>1. events' = Emitted(n, Ev("ended", c)) /\ "ended" \in EventTypes
  BY SigFacts DEF ClearCall, EventTypes
<1>2. ASSUME NEW q \in Node
      PROVE  \A t : Queued(q, t, c)' <=> Queued(q, t, c) \/ (q = n /\ t = "ended")
  BY <1>1, EmittedAtoms
<1>3. ASSUME NEW q \in Node, EventOrder(q, c) PROVE EventOrder(q, c)'
  BY <1>1, <1>3, EmittedOrder
<1>4. active' = [active EXCEPT ![n][m] = Remaining(n, m, c)] /\ active \in Tables
  BY DEF ClearCall, EngineTypes
<1>5. /\ active'[n][m] = Remaining(n, m, c)
      /\ \A q, p \in Node : q # n => active'[q][p] = active[q][p]
  BY <1>4 DEF Tables
<1>6. Remaining(n, m, c) # c  BY NoneFact DEF Remaining
<1>7. QED  BY <1>2, <1>3, <1>5, <1>6

LEMMA SendEndOwn ==
  ASSUME NEW c, NEW a, NEW b, Serving(c, a, b), NEW n \in Node, NEW x \in cmds[n],
         SendEnd(n, x), c = x.call
  PROVE  Tracked(a, b, c)'
<1>1. EngineTypes /\ Order /\ a \in Node /\ b \in Node /\ a # b /\ c \in CallId
  BY ServingParts
<1>2. /\ Outcomes(n, PeerOf(n, c)) = {TRUE} /\ link[n][PeerOf(n, c)] = "up"
      /\ Sends(n, x.signal, c) /\ PeerOf(n, c) \in Node
  BY <1>1, RequestAt
<1>3. /\ Taken(n, x) /\ Answered(n, x, TRUE) /\ x.signal = "end"
      /\ wire' = Sent(n, PeerOf(n, c), Sig("end", c)) /\ ClearCall(n, PeerOf(n, c), c)
      /\ UNCHANGED <<party, reading, link, breaks>>
  <2>1. Outcomes(n, PeerOf(n, x.call)) = {TRUE}  BY <1>2
  <2>2. /\ Taken(n, x) /\ Answered(n, x, TRUE) /\ x.signal = "end"
        /\ wire' = Sent(n, PeerOf(n, x.call), Sig("end", x.call))
        /\ ClearCall(n, PeerOf(n, x.call), x.call)
        /\ UNCHANGED <<party, reading, link, breaks>>
    BY <2>1 DEF SendEnd, Requested
  <2>3. QED  BY <2>2
<1>4. (n = a /\ PeerOf(n, c) = b) \/ (n = b /\ PeerOf(n, c) = a)
  BY <1>2 DEF Sends, InCall, Serving, Between
<1>5. Waits(n, "end", c)  BY <1>3 DEF Waits
<1>6. ASSUME NEW q \in Node
      PROVE  /\ q # n => SameRequests(q, c) /\ SameReplies(q, c)
             /\ \A s : s # "end" => /\ Waits(q, s, c)' <=> Waits(q, s, c)
                                    /\ Replied(q, s, c)' <=> Replied(q, s, c)
             /\ Failed(q, c)' => Failed(q, c)
  <2>1. EngineTypes /\ Answered(n, x, TRUE) /\ TRUE \in BOOLEAN /\ Taken(n, x)
    BY <1>1, <1>3
  <2>2. /\ q # n => SameRequests(q, x.call) /\ SameReplies(q, x.call)
        /\ \A s : s # x.signal => /\ Waits(q, s, x.call)' <=> Waits(q, s, x.call)
                                  /\ Replied(q, s, x.call)' <=> Replied(q, s, x.call)
        /\ Failed(q, x.call)' => Failed(q, x.call) \/ ~TRUE
    BY <2>1, RequestAtoms
  <2>3. QED  BY <1>3, <2>2
<1>7. ASSUME NEW p \in Node, NEW q \in Node
      PROVE  /\ \A t : OnWire(p, q, t, c)' <=>
                         OnWire(p, q, t, c) \/ (p = n /\ q = PeerOf(n, c) /\ t = "end")
             /\ WireOrder(p, q, c) => WireOrder(p, q, c)'
  <2>1. \A t : OnWire(p, q, t, c)' <=>
                 OnWire(p, q, t, c) \/ (p = n /\ q = PeerOf(n, c) /\ t = "end")
    BY <1>1, <1>2, <1>3, SentAtoms, SignalsFact
  <2>2. WireOrder(p, q, c) => WireOrder(p, q, c)'
    BY <1>1, <1>2, <1>3, SentOrder, SignalsFact
  <2>3. QED  BY <2>1, <2>2
<1>8. /\ \A q \in Node : \A t : Queued(q, t, c)' <=>
                                  Queued(q, t, c) \/ (q = n /\ t = "ended")
      /\ \A q \in Node : EventOrder(q, c) => EventOrder(q, c)'
      /\ active'[n][PeerOf(n, c)] # c
      /\ \A q, p \in Node : q # n => active'[q][p] = active[q][p]
  BY <1>1, <1>2, <1>3, ClearAtoms
<1>9. /\ StartsFresh(a, c) /\ OfferUnsent(a, b, c) /\ Unheard(a, b, c)
      /\ OfferedOnce(a, b, c) /\ Side(a, b, c) /\ Side(b, a, c)
      /\ SameUi(a, c) /\ SameUi(b, c) /\ ~Overtakes(a, c)
  BY ServingParts
<1>10. FromWaits(c)  BY <1>1, <1>3, TakenWaits
<1>11. StartsFresh(a, c)'  BY <1>10, FreshServed
<1>12. ~Unsent(a, c)'
  <2>1. (Starting(a, c)' <=> Starting(a, c)) /\ (Waits(a, "offer", c)' <=> Waits(a, "offer", c))
    BY <1>1, <1>6, <1>9 DEF SameUi
  <2>2. CASE n = b
    <3>1. ~Unsent(a, c)  BY <1>5, <2>2, AnsweringOver
    <3>2. QED  BY <2>1, <3>1 DEF Unsent
  <2>3. CASE n = a
    <3>1. ~Starting(a, c)  BY <1>5, <1>9, <2>3 DEF StartsFresh
    <3>2. ASSUME Waits(a, "offer", c) PROVE FALSE
      <4>1. ~Desktop(a)  BY <1>5, <1>9, <2>3, <3>2 DEF StartsFresh
      <4>2. ~Waits(n, x.signal, x.call)'  BY <1>1, <1>3, <2>3, <4>1, TakenGone
      <4>3. ~Waits(a, "end", c)'  BY <1>3, <2>3, <4>2
      <4>4. QED  BY <1>5, <1>9, <2>1, <2>3, <3>2, <4>3 DEF Overtakes
    <3>3. QED  BY <2>1, <3>1, <3>2 DEF Unsent
  <2>4. QED  BY <1>4, <2>2, <2>3
<1>13. OfferUnsent(a, b, c)'  BY <1>12 DEF OfferUnsent
<1>14. Offering(a, b, c)' <=> Offering(a, b, c)
  BY <1>1, <1>3, <1>7, <1>8 DEF Offering
<1>15. Unheard(a, b, c)'
  <2>1. CASE n = b
    <3>1. ~Offering(a, b, c)  BY <1>5, <2>1, AnsweringOver
    <3>2. QED  BY <1>12, <1>14, <3>1 DEF Unheard
  <2>2. CASE n = a
    <3>1. /\ SameRequests(b, c) /\ SameReplies(b, c)
          /\ OnWire(b, a, "answer", c)' <=> OnWire(b, a, "answer", c)
          /\ OnWire(b, a, "end", c)' <=> OnWire(b, a, "end", c)
          /\ Queued(a, "answer", c)' <=> Queued(a, "answer", c)
      BY <1>1, <1>6, <1>7, <1>8, <2>2
    <3>2. QED
      BY <1>9, <1>12, <1>14, <3>1 DEF Unheard, SameUi, SameRequests, SameReplies
  <2>3. QED  BY <1>4, <2>1, <2>2
<1>16. OfferedOnce(a, b, c)'
  <2>1. /\ WireOrder(a, b, c)' /\ EventOrder(b, c)' /\ reading' = reading
        /\ OnWire(a, b, "offer", c)' <=> OnWire(a, b, "offer", c)
        /\ Queued(b, "offer", c)' <=> Queued(b, "offer", c)
    BY <1>1, <1>3, <1>7, <1>8, <1>9 DEF OfferedOnce
  <2>2. OnWire(a, b, "offer", c) \/ reading[b][a] = c =>
          ~Queued(b, "ended", c)' /\ ~Queued(b, "offer", c)
    <3>1. CASE n = b
      <4>1. ~Offering(a, b, c)  BY <1>5, <3>1, AnsweringOver
      <4>2. QED  BY <4>1 DEF Offering
    <3>2. CASE n = a  BY <1>1, <1>8, <1>9, <3>2 DEF OfferedOnce
    <3>3. QED  BY <1>4, <3>1, <3>2
  <2>3. QED  BY <1>9, <2>1, <2>2 DEF OfferedOnce
<1>17. CASE n = a
  <2>1. Side(a, b, c)'
    BY <1>1, <1>4, <1>8, <1>9, <1>12, <1>17, ClearedSide DEF Unsent
  <2>2. SameSide(b, a, c)
    BY <1>1, <1>3, <1>6, <1>8, <1>17 DEF SameSide, SameEvents, SameTables
  <2>3. Side(b, a, c)'  BY <1>1, <1>9, <2>2, SideServed
  <2>4. QED  BY <1>11, <1>13, <1>15, <1>16, <2>1, <2>3 DEF Tracked
<1>18. CASE n = b
  <2>1. ~Waits(b, "offer", c)
    <3>1. RolesOf(b, c, a, b)  BY <1>1, RolesFact DEF Serving
    <3>2. QED  BY <1>1, <3>1 DEF RolesOf
  <2>2. Side(b, a, c)'
    BY <1>1, <1>4, <1>6, <1>8, <1>9, <1>18, <2>1, ClearedSide
  <2>3. SameSide(a, b, c)
    BY <1>1, <1>3, <1>6, <1>8, <1>18 DEF SameSide, SameEvents, SameTables
  <2>4. Side(a, b, c)'  BY <1>1, <1>9, <2>3, SideServed
  <2>5. QED  BY <1>11, <1>13, <1>15, <1>16, <2>2, <2>4 DEF Tracked
<1>19. QED  BY <1>4, <1>17, <1>18

LEMMA ReceiveEndOwn ==
  ASSUME NEW c, NEW a, NEW b, Serving(c, a, b), NEW n \in Node, NEW m \in Node,
         ReceiveEnd(n, m), c = Head(wire[m][n]).call
  PROVE  Tracked(a, b, c)'
<1>1. EngineTypes /\ Order /\ a \in Node /\ b \in Node /\ a # b /\ c \in CallId
  BY ServingParts
<1>2. /\ Incoming(n, m, "end") /\ wire' = Read(n, m) /\ ClearCall(n, m, c)
      /\ UNCHANGED <<party, reading, link, cmds, replies, breaks>>
  BY DEF ReceiveEnd
<1>3. OnWire(m, n, "end", c) /\ reading[n][m] = None
  BY <1>1, <1>2, ReadFacts, ReadAtoms DEF Incoming
<1>4. (m = a /\ n = b) \/ (m = b /\ n = a)
  BY <1>3, WireRoles, SignalsFact
<1>5. ASSUME NEW p \in Node, NEW q \in Node
      PROVE  /\ \A t : t # "end" => (OnWire(p, q, t, c)' <=> OnWire(p, q, t, c))
             /\ \A t : OnWire(p, q, t, c)' => OnWire(p, q, t, c)
             /\ WireOrder(p, q, c) => WireOrder(p, q, c)'
             /\ WireOrder(m, n, c) => ~OnWire(m, n, "offer", c)
  <2>1. LeavesRest(n, m, "end", c, p, q)  BY <1>1, <1>2, ReadRest
  <2>2. QED  BY <2>1 DEF LeavesRest
<1>6. /\ \A q \in Node : \A t : Queued(q, t, c)' <=>
                                  Queued(q, t, c) \/ (q = n /\ t = "ended")
      /\ \A q \in Node : EventOrder(q, c) => EventOrder(q, c)'
      /\ active'[n][m] # c
      /\ \A q, p \in Node : q # n => active'[q][p] = active[q][p]
  BY <1>1, <1>2, ClearAtoms
<1>7. /\ StartsFresh(a, c) /\ OfferUnsent(a, b, c) /\ Unheard(a, b, c)
      /\ OfferedOnce(a, b, c) /\ Side(a, b, c) /\ Side(b, a, c)
      /\ SameUi(a, c) /\ SameUi(b, c)
  BY ServingParts
<1>8. /\ SameRequests(a, c) /\ SameReplies(a, c)
      /\ SameRequests(b, c) /\ SameReplies(b, c) /\ FromWaits(c)
  BY <1>2, SameAsked, SameWaits
<1>9. StartsFresh(a, c)'  BY <1>8, FreshServed
<1>10. ~Unsent(a, c)
  <2>1. CASE m = b  BY <1>3, <1>4, <2>1, AnsweringOver
  <2>2. CASE m = a  BY <1>3, <1>4, <1>7, <2>2 DEF OfferUnsent
  <2>3. QED  BY <1>4, <2>1, <2>2
<1>11. ~Unsent(a, c)'  BY <1>7, <1>8, <1>10 DEF Unsent, SameUi, SameRequests
<1>12. OfferUnsent(a, b, c)'  BY <1>11 DEF OfferUnsent
<1>13. Offering(a, b, c)' <=> Offering(a, b, c)
  BY <1>1, <1>2, <1>5, <1>6 DEF Offering
<1>14. Unheard(a, b, c)'
  <2>1. /\ OnWire(b, a, "answer", c)' <=> OnWire(b, a, "answer", c)
        /\ OnWire(b, a, "end", c)' => OnWire(b, a, "end", c)
        /\ Queued(a, "answer", c)' <=> Queued(a, "answer", c)
    BY <1>1, <1>5, <1>6
  <2>2. QED
    BY <1>7, <1>8, <1>11, <1>13, <2>1, SMTT(30) DEF Unheard, SameUi, SameRequests, SameReplies
<1>15. OfferedOnce(a, b, c)'
  <2>1. /\ WireOrder(a, b, c)' /\ EventOrder(b, c)' /\ reading' = reading
        /\ OnWire(a, b, "offer", c)' <=> OnWire(a, b, "offer", c)
        /\ Queued(b, "offer", c)' <=> Queued(b, "offer", c)
    BY <1>1, <1>2, <1>5, <1>6, <1>7, SMTT(30) DEF OfferedOnce
  <2>2. OnWire(a, b, "offer", c) \/ reading[b][a] = c =>
          ~Queued(b, "ended", c)' /\ ~Queued(b, "offer", c)
    <3>1. CASE n = b
      <4>1. ~OnWire(a, b, "offer", c)  BY <1>1, <1>4, <1>5, <1>7, <3>1 DEF OfferedOnce
      <4>2. reading[b][a] # c  BY <1>1, <1>3, <1>4, <3>1, NoneFact
      <4>3. QED  BY <4>1, <4>2
    <3>2. CASE n = a  BY <1>1, <1>6, <1>7, <3>2 DEF OfferedOnce
    <3>3. QED  BY <1>4, <3>1, <3>2
  <2>3. QED  BY <1>7, <2>1, <2>2 DEF OfferedOnce
<1>16. CASE n = a
  <2>1. Side(a, b, c)'
    BY <1>1, <1>4, <1>6, <1>7, <1>11, <1>16, ClearedSide DEF Unsent
  <2>2. SameSide(b, a, c)
    BY <1>1, <1>2, <1>6, <1>8, <1>16 DEF SameSide, SameEvents, SameTables
  <2>3. Side(b, a, c)'  BY <1>1, <1>7, <2>2, SideServed
  <2>4. QED  BY <1>9, <1>12, <1>14, <1>15, <2>1, <2>3 DEF Tracked
<1>17. CASE n = b
  <2>1. ~Waits(b, "offer", c)
    <3>1. RolesOf(b, c, a, b)  BY <1>1, RolesFact DEF Serving
    <3>2. QED  BY <1>1, <3>1 DEF RolesOf
  <2>2. Side(b, a, c)'
    BY <1>1, <1>4, <1>6, <1>7, <1>8, <1>17, <2>1, ClearedSide, SMTT(30) DEF SameRequests
  <2>3. SameSide(a, b, c)
    BY <1>1, <1>2, <1>6, <1>8, <1>17 DEF SameSide, SameEvents, SameTables
  <2>4. Side(a, b, c)'  BY <1>1, <1>7, <2>3, SideServed
  <2>5. QED  BY <1>9, <1>12, <1>14, <1>15, <2>2, <2>4 DEF Tracked
<1>18. QED  BY <1>4, <1>16, <1>17

-----------------------------------------------------------------------------
(* An offer arrives *)

LEMMA AcceptOfferOwn ==
  ASSUME NEW c, NEW a, NEW b, Serving(c, a, b), NEW n \in Node, NEW m \in Node,
         AcceptOffer(n, m), c = reading[n][m]
  PROVE  Tracked(a, b, c)'
<1>1. EngineTypes /\ Order /\ a \in Node /\ b \in Node /\ a # b /\ c \in CallId
  BY ServingParts
<1>2. /\ active' = [active EXCEPT ![n][m] = c]
      /\ events' = Emitted(n, Ev("offer", c))
      /\ reading' = [reading EXCEPT ![n][m] = None]
      /\ UNCHANGED <<party, link, wire, cmds, replies, breaks>>
  BY DEF AcceptOffer, Ev
<1>3. n = b /\ m = a
  <2>1. Gets(n, "offer", c) /\ PeerOf(n, c) = m
    BY <1>1 DEF Order, Belongs, TableOf
  <2>2. QED  BY <2>1 DEF Gets, Serving, Between
<1>4. /\ StartsFresh(a, c) /\ OfferUnsent(a, b, c) /\ Unheard(a, b, c)
      /\ OfferedOnce(a, b, c) /\ Side(a, b, c) /\ Side(b, a, c)
      /\ SameUi(a, c) /\ SameUi(b, c)
  BY ServingParts
<1>5. /\ SameRequests(a, c) /\ SameReplies(a, c)
      /\ SameRequests(b, c) /\ SameReplies(b, c) /\ FromWaits(c)
      /\ SameSignals(a, b, c) /\ SameSignals(b, a, c)
  BY <1>2, SameAsked, SameWaits, SameLine
<1>6. Offering(a, b, c)  BY <1>3 DEF Offering
<1>7. ~Unsent(a, c)  BY <1>4, <1>6 DEF OfferUnsent
<1>8. ~Queued(b, "offer", c) /\ ~Queued(b, "ended", c) /\ ~OnWire(a, b, "offer", c)
  BY <1>3, <1>4 DEF OfferedOnce
<1>9. \A q \in Node : \A t : Queued(q, t, c)' <=>
                               Queued(q, t, c) \/ (q = b /\ t = "offer")
  BY <1>1, <1>2, <1>3, EmittedAtoms, SignalsFact
<1>10. EventOrder(b, c)'
  BY <1>1, <1>2, <1>3, <1>4, <1>8, EmittedOrder, SignalsFact DEF OfferedOnce
<1>11. EventOrder(a, c) => EventOrder(a, c)'
  BY <1>1, <1>2, <1>3, EmittedOrder, SignalsFact
<1>12. /\ active'[b][a] = c /\ active'[a][b] = active[a][b]
       /\ reading'[b][a] = None /\ reading'[a][b] = reading[a][b]
  BY <1>1, <1>2, <1>3 DEF EngineTypes, Tables
<1>13. StartsFresh(a, c)'  BY <1>5, FreshServed
<1>14. ~Unsent(a, c)'  BY <1>4, <1>5, <1>7 DEF Unsent, SameUi, SameRequests
<1>15. OfferUnsent(a, b, c)'  BY <1>14 DEF OfferUnsent
<1>16. Unheard(a, b, c)'
  <2>1. Queued(a, "answer", c)' <=> Queued(a, "answer", c)  BY <1>1, <1>9
  <2>2. QED
    BY <1>4, <1>5, <1>6, <2>1 DEF Unheard, SameUi, SameRequests, SameReplies, SameSignals
<1>17. OfferedOnce(a, b, c)'
  BY <1>1, <1>4, <1>5, <1>8, <1>10, <1>12, NoneFact DEF OfferedOnce, SameSignals
<1>18. Side(b, a, c)'
  <2>1. ~Queued(b, "ended", c)'  BY <1>1, <1>8, <1>9
  <2>2. ~Replied(b, "end", c)'  BY <1>4, <1>5, <1>6 DEF Unheard, SameReplies
  <2>3. ~Failed(b, c)'
    <3>1. RolesOf(b, c, a, b)  BY <1>1, RolesFact DEF Serving
    <3>2. ~Failed(b, c)  BY <1>1, <3>1 DEF RolesOf, Failed, Replied
    <3>3. QED  BY <1>5, <3>2 DEF SameReplies
  <2>4. Queued(b, "offer", c)'  BY <1>1, <1>9
  <2>5. QED  BY <1>4, <2>1, <2>2, <2>3, <2>4 DEF Side, SameUi, Cleared, Accounted
<1>19. Side(a, b, c)'
  <2>1. SameEvents(a, c)  BY <1>1, <1>9, <1>11 DEF SameEvents
  <2>2. SameSide(a, b, c)  BY <1>5, <1>12, <2>1 DEF SameSide, SameTables
  <2>3. QED  BY <1>1, <1>4, <2>2, SideServed
<1>20. QED  BY <1>13, <1>15, <1>16, <1>17, <1>18, <1>19 DEF Tracked

LEMMA RejectOfferOwn ==
  ASSUME NEW c, NEW a, NEW b, Serving(c, a, b), NEW n \in Node, NEW m \in Node \ {n},
         RejectOffer(n, m), c = Head(wire[m][n]).call
  PROVE  Tracked(a, b, c)'
<1>1. EngineTypes /\ Order /\ a \in Node /\ b \in Node /\ a # b /\ c \in CallId
  BY ServingParts
<1>2. /\ Incoming(n, m, "offer") /\ wire' = Refusal(n, m, c)
      /\ UNCHANGED <<party, active, reading, link, cmds, replies, events, breaks>>
  BY DEF RejectOffer
<1>3. OnWire(m, n, "offer", c) /\ reading[n][m] = None
  BY <1>1, <1>2, ReadFacts, ReadAtoms DEF Incoming
<1>4. m = a /\ n = b
  BY <1>1, <1>3, WireRoles, SignalsFact
<1>5. /\ StartsFresh(a, c) /\ OfferUnsent(a, b, c) /\ Unheard(a, b, c)
      /\ OfferedOnce(a, b, c) /\ Side(a, b, c) /\ Side(b, a, c)
      /\ SameUi(a, c) /\ SameUi(b, c)
  BY ServingParts
<1>6. WireOrder(a, b, c)' /\ ~OnWire(a, b, "offer", c)'
  <2>1. WireOrder(a, b, c)  BY <1>5 DEF OfferedOnce
  <2>2. wire' = Refusal(n, m, Head(wire[m][n]).call) /\ Incoming(n, m, "offer") /\ EngineTypes
    BY <1>1, <1>2
  <2>3. /\ OnWire(a, b, "offer", c)' => \/ OnWire(a, b, "offer", c)
                                        \/ a = n /\ b = m /\ "offer" = "end" /\ c = c
        /\ WireOrder(a, b, c) => WireOrder(a, b, c)'
        /\ WireOrder(m, n, c) /\ c = c => ~OnWire(m, n, "offer", c)'
    <3>1. c = Head(wire[m][n]).call  OBVIOUS
    <3>2. QED  BY <1>1, <2>2, <3>1, RefusedWire
  <2>4. QED  BY <1>4, <2>1, <2>3
<1>7. /\ SameRequests(a, c) /\ SameReplies(a, c)
      /\ SameRequests(b, c) /\ SameReplies(b, c) /\ FromWaits(c)
      /\ SameEvents(a, c) /\ SameEvents(b, c)
      /\ SameTables(a, b, c) /\ SameTables(b, a, c)
  BY <1>2, SameAsked, SameWaits, SameQueue DEF SameTables
<1>8. ~Unsent(a, c)  BY <1>3, <1>4, <1>5 DEF OfferUnsent, Offering
<1>9. ~Unsent(a, c)'  BY <1>5, <1>7, <1>8, SMTT(30) DEF Unsent, SameUi, SameRequests
<1>10. ~Offering(a, b, c)'
  <2>1. ~Queued(b, "offer", c)  BY <1>3, <1>4, <1>5 DEF OfferedOnce
  <2>2. reading[b][a] # c  BY <1>1, <1>3, <1>4, NoneFact
  <2>3. QED  BY <1>6, <1>7, <2>1, <2>2 DEF Offering, SameEvents, SameTables
<1>11. StartsFresh(a, c)'  BY <1>7, FreshServed
<1>12. OfferUnsent(a, b, c)'  BY <1>9 DEF OfferUnsent
<1>13. Unheard(a, b, c)'  BY <1>9, <1>10 DEF Unheard
<1>14. OfferedOnce(a, b, c)'
  BY <1>5, <1>6, <1>7, <1>10, ZenonT(40) DEF OfferedOnce, Offering, SameEvents
<1>15. Side(a, b, c)' /\ Side(b, a, c)'
  BY <1>1, <1>5, <1>7, SideServed DEF SameSide
<1>16. QED  BY <1>11, <1>12, <1>13, <1>14, <1>15 DEF Tracked

LEMMA TestOfferOwn ==
  ASSUME NEW c, NEW a, NEW b, Serving(c, a, b), NEW n \in Node, NEW m \in Node,
         TestOffer(n, m), c = Head(wire[m][n]).call
  PROVE  Tracked(a, b, c)'
<1>1. EngineTypes /\ Order /\ a \in Node /\ b \in Node /\ a # b /\ c \in CallId
  BY ServingParts
<1>2. /\ Incoming(n, m, "offer") /\ wire' = Read(n, m)
      /\ reading' = [reading EXCEPT ![n][m] = c]
      /\ UNCHANGED <<party, active, link, cmds, replies, events, breaks>>
  BY DEF TestOffer
<1>3. OnWire(m, n, "offer", c) /\ reading[n][m] = None
  BY <1>1, <1>2, ReadFacts, ReadAtoms DEF Incoming
<1>4. m = a /\ n = b
  BY <1>1, <1>3, WireRoles, SignalsFact
<1>5. /\ StartsFresh(a, c) /\ OfferUnsent(a, b, c) /\ Unheard(a, b, c)
      /\ OfferedOnce(a, b, c) /\ Side(a, b, c) /\ Side(b, a, c)
      /\ SameUi(a, c) /\ SameUi(b, c)
  BY ServingParts
<1>6. /\ WireOrder(a, b, c)' /\ ~OnWire(a, b, "offer", c)'
      /\ OnWire(b, a, "answer", c)' => OnWire(b, a, "answer", c)
      /\ OnWire(b, a, "end", c)' => OnWire(b, a, "end", c)
  <2>1. WireOrder(a, b, c)  BY <1>5 DEF OfferedOnce
  <2>2. ASSUME NEW p \in Node, NEW q \in Node
        PROVE  LeavesRest(n, m, "offer", c, p, q)
    BY <1>1, <1>2, ReadRest
  <2>3. QED  BY <1>1, <1>4, <2>1, <2>2 DEF LeavesRest
<1>7. /\ SameRequests(a, c) /\ SameReplies(a, c)
      /\ SameRequests(b, c) /\ SameReplies(b, c) /\ FromWaits(c)
      /\ SameEvents(a, c) /\ SameEvents(b, c)
  BY <1>2, SameAsked, SameWaits, SameQueue
<1>8. Offering(a, b, c)  BY <1>3, <1>4 DEF Offering
<1>9. ~Unsent(a, c)'
  <2>1. ~Unsent(a, c)  BY <1>5, <1>8 DEF OfferUnsent
  <2>2. QED  BY <1>5, <1>7, <2>1 DEF Unsent, SameUi, SameRequests
<1>10. /\ reading'[b][a] = c /\ reading'[a][b] = reading[a][b] /\ active' = active
  BY <1>1, <1>2, <1>4 DEF EngineTypes, Tables
<1>11. StartsFresh(a, c)'  BY <1>7, FreshServed
<1>12. OfferUnsent(a, b, c)'  BY <1>9 DEF OfferUnsent
<1>13. Unheard(a, b, c)'
  BY <1>5, <1>6, <1>7, <1>8, SMTT(30) DEF Unheard, SameUi, SameRequests, SameReplies, SameEvents
<1>14. OfferedOnce(a, b, c)'
  BY <1>3, <1>4, <1>5, <1>6, <1>7, ZenonT(40) DEF OfferedOnce, SameEvents
<1>15. Side(a, b, c)'
  <2>1. SameSide(a, b, c)  BY <1>7, <1>10 DEF SameSide, SameTables
  <2>2. QED  BY <1>1, <1>5, <2>1, SideServed
<1>16. Side(b, a, c)'
  BY SMTT(30), <1>5, <1>7, <1>10
     DEF Side, SameUi, SameRequests, SameReplies, SameEvents, Cleared, Accounted, Keeps
<1>17. QED  BY <1>11, <1>12, <1>13, <1>14, <1>15, <1>16 DEF Tracked

-----------------------------------------------------------------------------
(* Every step of an engine, and every step *)

\* Nothing of the kind happens while every link is up and stays so.
LEMMA NoLoss ==
  ASSUME EngineTypes, Order, NEW n \in Node
  PROVE  /\ \A x \in cmds[n] : ~FailUnresolved(n, x)
         /\ \A m \in Node : ~Disconnect(n, m) /\ ~NoticeLoss(n, m)
<1>1. ASSUME NEW x \in cmds[n] PROVE ~FailUnresolved(n, x)
  BY RequestAt DEF FailUnresolved
<1>2. ASSUME NEW m \in Node PROVE ~Disconnect(n, m)
  BY DEF Disconnect, Order, Awaits, Proper, Signals
<1>3. ASSUME NEW m \in Node PROVE ~NoticeLoss(n, m)
  BY DEF NoticeLoss, Order, Linked
<1>4. QED  BY <1>1, <1>2, <1>3

\* Every call that is tracked still is.
Tracks == \A c \in Made, a, b \in Node :
  Between(c, a, b) /\ Tracked(a, b, c) /\ ~LosesTrack(c) => Tracked(a, b, c)'

LEMMA ServesTracked ==
  ASSUME EngineTypes, Order, Served, NEW k,
         \A d \in CallId \ {k} : Still(d),
         \A c, a, b : Serving(c, a, b) /\ c = k => Tracked(a, b, c)'
  PROVE  Tracks
<1> SUFFICES ASSUME NEW c \in Made, NEW a \in Node, NEW b \in Node,
                    Between(c, a, b), Tracked(a, b, c), ~LosesTrack(c)
             PROVE  Tracked(a, b, c)'
  BY DEF Tracks
<1>1. CASE c = k  BY <1>1 DEF Serving
<1>2. CASE c # k
  <2>1. c \in CallId  BY DEF Made
  <2>2. Still(c)  BY <1>2, <2>1
  <2>3. QED  BY <2>2, StillTracked DEF Served
<1>3. QED  BY <1>1, <1>2

LEMMA EngineSteps ==
  ASSUME EngineTypes, Order, app' = app, NEW n \in Node, EngineMoves(n)
  PROVE  Order' /\ Tracks /\ Sources(n)
<1>1. Served
  BY DEF EngineMoves, EngineWorks, Receives, Served, FailUnresolved, RefuseOffer, SendOffer,
     SendMedia, SendEnd, Disconnect, AcceptOffer, ReceiveEnd, ReceiveMedia, RejectOffer,
     TestOffer, NoticeLoss
<1>2. ASSUME NEW x \in cmds[n],
             RefuseOffer(n, x) \/ SendOffer(n, x) \/ SendMedia(n, x) \/ SendEnd(n, x)
      PROVE  Order' /\ Tracks /\ Sources(n)
  <2>1. Order' /\ Sources(n) /\ \A d \in CallId \ {x.call} : Still(d)
    BY <1>1, <1>2, RefuseOfferStill, SendOfferStill, SendMediaStill, SendEndStill
  <2>2. ASSUME NEW c, NEW a, NEW b, Serving(c, a, b), c = x.call PROVE Tracked(a, b, c)'
    BY <1>2, <2>2, RefuseOfferOwn, SendOfferOwn, SendMediaOwn, SendEndOwn
  <2>3. QED  BY <1>1, <2>1, <2>2, ServesTracked
<1>3. ASSUME NEW m \in Node, AcceptOffer(n, m) PROVE Order' /\ Tracks /\ Sources(n)
  <2>1. Order' /\ Sources(n) /\ \A d \in CallId \ {reading[n][m]} : Still(d)
    BY <1>1, <1>3, AcceptOfferStill
  <2>2. ASSUME NEW c, NEW a, NEW b, Serving(c, a, b), c = reading[n][m]
        PROVE  Tracked(a, b, c)'
    BY <1>3, <2>2, AcceptOfferOwn
  <2>3. QED  BY <1>1, <2>1, <2>2, ServesTracked
<1>4. ASSUME NEW m \in Node \ {n}, NEW s \in {"answer", "ice"},
             \/ ReceiveEnd(n, m) \/ ReceiveMedia(n, m, s)
             \/ RejectOffer(n, m) \/ TestOffer(n, m)
      PROVE  Order' /\ Tracks /\ Sources(n)
  <2> DEFINE k == Head(wire[m][n]).call
  <2>1. Order' /\ Sources(n) /\ \A d \in CallId \ {k} : Still(d)
    BY <1>1, <1>4, ReceiveEndStill, ReceiveMediaStill, RejectOfferStill, TestOfferStill
  <2>2. ASSUME NEW c, NEW a, NEW b, Serving(c, a, b), c = k PROVE Tracked(a, b, c)'
    BY <1>4, <2>2, ReceiveEndOwn, ReceiveMediaOwn, RejectOfferOwn, TestOfferOwn
  <2> HIDE DEF k
  <2>3. QED  BY <1>1, <2>1, <2>2, ServesTracked
<1>5. CASE EngineWorks(n)
  <2>1. \/ \E x \in cmds[n] : \/ RefuseOffer(n, x) \/ SendOffer(n, x)
                              \/ SendMedia(n, x) \/ SendEnd(n, x)
        \/ \E m \in Node : AcceptOffer(n, m)
    BY <1>5, NoLoss DEF EngineWorks
  <2>2. QED  BY <1>2, <1>3, <2>1
<1>6. CASE Receives(n)
  <2>1. \E m \in Node \ {n}, s \in {"answer", "ice"} :
          \/ ReceiveEnd(n, m) \/ ReceiveMedia(n, m, s)
          \/ RejectOffer(n, m) \/ TestOffer(n, m)
    BY <1>6, NoLoss DEF Receives
  <2>2. QED  BY <1>4, <2>1
<1>7. QED  BY <1>5, <1>6 DEF EngineMoves

-----------------------------------------------------------------------------
(* A call that begins *)

\* Nothing is known of call c at q.
Unknown(q, c) ==
  /\ c \notin {ui[q].pending, ui[q].activeCall, ui[q].pc, ui[q].remote}
  /\ ui[q].steps[c] = "none"
  /\ \A s \in Signals : ~Waits(q, s, c) /\ ~Replied(q, s, c)
  /\ \A t \in EventTypes : ~Queued(q, t, c)
  /\ \A m \in Node : /\ \A s \in Signals : ~OnWire(q, m, s, c)
                     /\ active[q][m] # c /\ reading[q][m] # c

LEMMA UnknownFact ==
  ASSUME Order, NEW c \in CallId \ Made, NEW q \in Node
  PROVE  Unknown(q, c)
<1>1. UiOf(q, c) /\ RequestOf(q, c) /\ EventOf(q, c) /\ WireOf(q, c) /\ TableOf(q, c)
  BY DEF Order, Belongs
<1>2. ~InCall(q, c)  BY DEF InCall
<1>3. \A s : ~Sends(q, s, c) /\ ~Gets(q, s, c)  BY <1>2 DEF Sends, Gets
<1>4. QED
  BY <1>1, <1>2, <1>3 DEF Unknown, UiOf, RequestOf, EventOf, WireOf, TableOf

LEMMA BeginTracks ==
  ASSUME EngineTypes, UiTypes, Order, NEW a \in Node, NEW b \in Node \ {a},
         NEW c \in CallId \ Made, AppStep(a, c)
  PROVE  Tracked(a, b, c)'
<1>1. Unknown(a, c) /\ Unknown(b, c)  BY UnknownFact
<1>2. Fields(a, c) /\ Requests(a, c) /\ Notices(a, c) /\ Elsewhere(a)  BY DEF AppStep
<1>3. \A q \in Node : \A t :
        /\ Queued(q, t, c)' => Queued(q, t, c)
        /\ Replied(q, t, c)' => Replied(q, t, c)
  BY <1>2, NoticedAtoms
<1>4. \A q \in {a, b} :
        /\ ~Queued(q, "offer", c)' /\ ~Queued(q, "answer", c)' /\ ~Queued(q, "ended", c)'
        /\ ~Replied(q, "offer", c)' /\ ~Replied(q, "answer", c)' /\ ~Replied(q, "end", c)'
        /\ ~Failed(q, c)'
  BY <1>1, <1>3, SignalsFact, SMTT(30) DEF Unknown, Failed, Replied
<1>5. wire' = wire /\ active' = active /\ reading' = reading  BY <1>2 DEF Elsewhere
<1>6. /\ ~OnWire(a, b, "offer", c)' /\ ~OnWire(a, b, "end", c)'
      /\ ~OnWire(b, a, "answer", c)' /\ ~OnWire(b, a, "end", c)'
      /\ (active[a][b])' # c /\ (active[b][a])' # c /\ (reading[b][a])' # c
  BY <1>1, <1>5, SignalsFact DEF Unknown, OnWire
<1>7. WireOrder(a, b, c)'  BY <1>6 DEF WireOrder, OnWire, Leads, Has
<1>8. EventOrder(b, c)'  BY <1>4 DEF EventOrder, Queued, Leads, Has
<1>9. /\ ~Shows(b, c)' /\ ~Prepares(b, c)' /\ (ui[b].pc)' # c /\ (ui[b].steps[c])' = "none"
      /\ ~Waits(b, "answer", c)' /\ ~Waits(b, "end", c)' /\ ~Waits(b, "offer", c)'
  <2>1. ui'[b] = ui[b] /\ cmds'[b] = cmds[b]  BY <1>2 DEF Elsewhere
  <2>2. QED  BY <1>1, <2>1, SignalsFact DEF Unknown, Shows, Prepares, Waits
<1>10. ~Ready(a, c)  BY <1>1 DEF Ready, Unknown
<1>11. ~Wanted(a, c)
  <2>1. ~Heard(a, "offer", c)  BY <1>1, HeardFacts, SignalsFact DEF Unknown
  <2>2. QED  BY <1>1, <2>1 DEF Wanted, Unknown
<1>12. ~Waits(a, "offer", c)' /\ ~Waits(a, "end", c)'
  BY <1>1, <1>2, <1>10, <1>11, SignalsFact DEF Unknown, Requests, AsksOffer, AsksEnd
<1>13. /\ (ui[a].activeCall)' # c /\ (ui[a].remote)' # c
       /\ (ui[a].steps[c])' # "describe"
  BY <1>1, <1>2, SignalsFact DEF Unknown, Fields, ShowsAnew, JoinsAnew, GoesOn
<1>14. StartsFresh(a, c)'  BY <1>12, <1>13 DEF StartsFresh
<1>15. ~Offering(a, b, c)'  BY <1>4, <1>6 DEF Offering
<1>16. OfferUnsent(a, b, c)'  BY <1>4, <1>6, <1>15 DEF OfferUnsent
<1>17. Unheard(a, b, c)'  BY <1>4, <1>6, <1>9 DEF Unheard
<1>18. OfferedOnce(a, b, c)'  BY <1>4, <1>6, <1>7, <1>8 DEF OfferedOnce
<1>19. Side(a, b, c)'  BY <1>6, <1>12, <1>13 DEF Side, Described, Cleared, Accounted
<1>20. Side(b, a, c)'  BY <1>6, <1>9 DEF Side, Described, Cleared, Accounted
<1>21. QED  BY <1>14, <1>16, <1>17, <1>18, <1>19, <1>20 DEF Tracked

-----------------------------------------------------------------------------

LEMMA BreaksGrow ==
  ASSUME EngineTypes
  PROVE  /\ breaks \in Nat
         /\ \A n \in Node : AppMoves(n) => breaks' \in {breaks, breaks + 1}
         /\ \A n \in Node : EngineMoves(n) => breaks' = breaks
         /\ LinkMoves => breaks' \in {breaks, breaks + 1}
<1>1. breaks \in Nat  BY CallAssumption DEF EngineTypes
<1>2. ASSUME NEW n \in Node, AppMoves(n) PROVE breaks' \in {breaks, breaks + 1}
  BY <1>2, ZenonT(40) DEF AppMoves, Dials, Picks, Declines, AsksToEnd, Leaves, HangsUp, CutsOff, Closes,
     GetsMedia, Describes, Stumbles, Notifies, Learned, Rings, HearsAnswer, HearsIce,
     HearsEnd, HearsLoss, Hearing
<1>3. ASSUME NEW n \in Node, EngineMoves(n) PROVE breaks' = breaks
  BY <1>3 DEF EngineMoves, EngineWorks, Receives, FailUnresolved, RefuseOffer, SendOffer,
     SendMedia, SendEnd, Disconnect, AcceptOffer, ReceiveEnd, ReceiveMedia, RejectOffer,
     TestOffer, NoticeLoss
<1>4. ASSUME LinkMoves PROVE breaks' \in {breaks, breaks + 1}
  BY <1>4 DEF LinkMoves, LinkChanges, BreakLink, Reconnect
<1>5. QED  BY <1>1, <1>2, <1>3, <1>4

\* The calls that are tracked, and those still in the next state.
LEMMA KeptFacts ==
  ASSUME EngineTypes, Order, Next, NEW n \in Node, party' = party \/ Begins(n),
         NEW c \in Kept'
  PROVE  \/ /\ c \in Kept /\ ~LosesTrack(c)
            /\ Between(c, Caller(c), Callee(c)) /\ c # NextCall
            /\ Caller(c)' = Caller(c) /\ Callee(c)' = Callee(c)
         \/ /\ c \in CallId \ Made /\ Begins(n)
            /\ Caller(c)' = n /\ Callee(c)' \in Node \ {n}
<1>1. astray' = astray \cup {d \in Made : LosesTrack(d)} /\ Numbered
  BY DEF Next, Order
<1>2. c \in Made' /\ c \notin astray'  BY DEF Kept
<1>3. CASE c \in Made
  <2>1. c \notin astray /\ ~LosesTrack(c)  BY <1>1, <1>2, <1>3
  <2>2. Between(c, Caller(c), Callee(c)) /\ c # NextCall
    BY <1>1, <1>3, BetweenFact, NumberFacts
  <2>3. party'[c] = party[c]  BY <1>1, <1>3, NumberedStep
  <2>4. QED  BY <1>3, <2>1, <2>2, <2>3 DEF Kept, Caller, Callee
<1>4. CASE c \notin Made
  <2>1. CASE party' = party
    <3>1. Made' = Made  BY <2>1, SameMade
    <3>2. QED  BY <1>2, <1>4, <3>1
  <2>2. CASE Begins(n)
    <3>1. /\ NextCall \in CallId /\ Made' = Made \cup {NextCall}
          /\ \E m \in Node \ {n} : party'[NextCall] = <<n, m>>
      BY <1>1, <2>2, BeginFacts
    <3>2. c = NextCall  BY <1>2, <1>4, <3>1
    <3>3. PICK m \in Node \ {n} : party'[c] = <<n, m>>  BY <3>1, <3>2
    <3>4. Caller(c)' = n /\ Callee(c)' = m  BY <3>3 DEF Caller, Callee
    <3>5. QED  BY <1>4, <2>2, <3>1, <3>2, <3>4
  <2>3. QED  BY <2>1, <2>2
<1>5. QED  BY <1>3, <1>4

LEMMA NoLinkMoves ==
  ASSUME Order, breaks = 0, breaks' = 0
  PROVE  ~LinkMoves
<1> SUFFICES ASSUME NEW n \in Node, NEW m \in Node, BreakLink(n, m) \/ Reconnect(n, m)
             PROVE  FALSE
  BY DEF LinkMoves, LinkChanges
<1>1. link[n][m] = "up"  BY DEF Order, Linked
<1>2. BreakLink(n, m)  BY <1>1 DEF Reconnect
<1>3. breaks' = 1  BY <1>2 DEF BreakLink
<1>4. QED  BY <1>3

\* No engine makes a call.
LEMMA EngineParty ==
  ASSUME NEW n \in Node, EngineMoves(n)
  PROVE  party' = party
BY DEF EngineMoves, EngineWorks, Receives, FailUnresolved, RefuseOffer, SendOffer, SendMedia,
   SendEnd, Disconnect, AcceptOffer, ReceiveEnd, ReceiveMedia, RejectOffer, TestOffer, NoticeLoss

LEMMA SoundStep == CallInv /\ Sound /\ [Next]_vars => Sound'
<1> SUFFICES ASSUME CallInv, Sound, [Next]_vars, breaks' = 0
             PROVE  Order' /\ \A c \in Kept' : Tracked(Caller(c), Callee(c), c)'
  BY DEF Sound, Order
<1>1. EngineTypes /\ UiTypes
  BY DEF CallInv, CallTypes, AppTypes, UiTypes
<1>2. CASE UNCHANGED vars
  <2>1. breaks = 0  BY <1>2 DEF vars, engineVars
  <2>2. Order /\ \A c \in Kept : Tracked(Caller(c), Callee(c), c)
    BY <2>1 DEF Sound, Order
  <2>3. /\ Served /\ cmds' = cmds /\ replies' = replies /\ wire' = wire /\ events' = events
        /\ active' = active /\ reading' = reading /\ link' = link /\ astray' = astray
    BY <1>2 DEF vars, engineVars, Served
  <2>4. ASSUME NEW n \in Node, NEW d PROVE From(n, d) /\ Still(d)
    BY <2>3, SameWaits, SameReplied, SameWire, SameQueued, SameActive, SameReading
       DEF From, Still
  <2>5. Order'
    <3>1. CASE Node = {}
      BY <2>2, <2>3, <3>1 DEF Order, Belongs, Numbered, Remotes, Awaits, Linked, Served,
         Made, Caller, Callee
    <3>2. CASE Node # {}
      <4>1. PICK n \in Node : TRUE  BY <3>2
      <4>2. \A q \in Node : \A m : LossQueued(q, m)' => LossQueued(q, m)
        BY <2>3 DEF LossQueued
      <4>3. QED  BY <1>1, <2>2, <2>3, <2>4, <4>1, <4>2, ReadOrder
    <3>3. QED  BY <3>1, <3>2
  <2>6. ASSUME NEW c \in Kept' PROVE Tracked(Caller(c), Callee(c), c)'
    <3>1. /\ c \in Kept /\ Caller(c)' = Caller(c) /\ Callee(c)' = Callee(c)
      BY <2>3 DEF Served, Kept, Made, Caller, Callee
    <3>2. Caller(c) \in Node /\ Callee(c) \in Node
      BY <2>2, <3>1 DEF Kept, Order, Numbered
    <3>3. Tracked(Caller(c), Callee(c), c)  BY <2>2, <3>1
    <3>4. ASSUME NEW a \in Node, NEW b \in Node, Tracked(a, b, c)
          PROVE  Tracked(a, b, c)'
      BY <2>3, <2>4, <3>4, StillTracked DEF Served
    <3>5. ASSUME NEW a, NEW b, a = Caller(c), b = Callee(c) PROVE Tracked(a, b, c)'
      BY <3>2, <3>3, <3>4, <3>5
    <3>6. QED  BY <3>1, <3>5
  <2>7. QED  BY <2>5, <2>6
<1>3. CASE Next
  <2>1. app' = app /\ ((\E n \in Node : AppMoves(n) \/ EngineMoves(n)) \/ LinkMoves)
    BY <1>1, <1>3, MovesFacts
  <2>2. breaks = 0  BY <1>1, <2>1, BreaksGrow
  <2>3. Order /\ \A c \in Kept : Tracked(Caller(c), Callee(c), c)
    BY <2>2 DEF Sound, Order
  <2>4. ASSUME NEW n \in Node, AppMoves(n)
        PROVE  Order' /\ \A c \in Kept' : Tracked(Caller(c), Callee(c), c)'
    <3>1. Order'  BY <1>1, <2>1, <2>2, <2>3, <2>4, AppOrder
    <3>2. party' = party \/ Begins(n)  BY <2>4, AppParty
    <3>3. ASSUME NEW c \in Kept', NEW a, NEW b, a = Caller(c)', b = Callee(c)'
          PROVE  Tracked(a, b, c)'
      <4>1. CASE /\ c \in Kept /\ ~LosesTrack(c)
                 /\ Between(c, Caller(c), Callee(c)) /\ c # NextCall
                 /\ Caller(c)' = Caller(c) /\ Callee(c)' = Callee(c)
        <5>1. Between(c, a, b) /\ Tracked(a, b, c)  BY <2>3, <3>3, <4>1
        <5>2. c \in CallId  BY <5>1 DEF Between, Made
        <5>3. AppStep(n, c)  BY <1>1, <2>4, <5>2, AppSteps
        <5>4. Moving(n, c, a, b)  BY <1>1, <2>1, <2>3, <4>1, <5>1, <5>3 DEF Moving
        <5>5. QED  BY <5>4, AppTracks
      <4>2. CASE /\ c \in CallId \ Made /\ Begins(n)
                 /\ Caller(c)' = n /\ Callee(c)' \in Node \ {n}
        <5>1. AppStep(n, c)  BY <1>1, <2>4, <4>2, AppSteps
        <5>2. a = n /\ b \in Node \ {n}  BY <3>3, <4>2
        <5>3. QED  BY <1>1, <2>3, <4>2, <5>1, <5>2, BeginTracks
      <4>3. QED  BY <1>1, <1>3, <2>3, <3>2, <3>3, <4>1, <4>2, KeptFacts
    <3>4. QED  BY <3>1, <3>3
  <2>5. ASSUME NEW n \in Node, EngineMoves(n)
        PROVE  Order' /\ \A c \in Kept' : Tracked(Caller(c), Callee(c), c)'
    <3>1. Order' /\ Tracks  BY <1>1, <2>1, <2>3, <2>5, EngineSteps
    <3>2. party' = party  BY <2>5, EngineParty
    <3>3. ASSUME NEW c \in Kept', NEW a, NEW b, a = Caller(c)', b = Callee(c)'
          PROVE  Tracked(a, b, c)'
      <4>1. c \in Made  BY <3>2, SameMade DEF Kept
      <4>2. /\ c \in Kept /\ ~LosesTrack(c) /\ Between(c, Caller(c), Callee(c))
            /\ Caller(c)' = Caller(c) /\ Callee(c)' = Callee(c)
        BY <1>1, <1>3, <2>3, <3>2, <4>1, KeptFacts
      <4>3. Between(c, a, b) /\ Tracked(a, b, c)  BY <2>3, <3>3, <4>2
      <4>4. QED  BY <3>1, <4>1, <4>2, <4>3 DEF Tracks, Between
    <3>4. QED  BY <3>1, <3>3
  <2>6. ~LinkMoves  BY <2>2, <2>3, NoLinkMoves
  <2>7. QED  BY <2>1, <2>4, <2>5, <2>6
<1>4. QED  BY <1>2, <1>3

LEMMA SoundInit == Init => Sound
<1> SUFFICES ASSUME Init PROVE Order /\ Kept = {}
  BY DEF Sound, Order
<1>1. /\ ui = [n \in Node |-> Idle] /\ party = [c \in CallId |-> <<>>]
      /\ active = [n \in Node |-> [m \in Node |-> None]] /\ reading = active
      /\ link = [n \in Node |-> [m \in Node |-> "up"]]
      /\ wire = [n \in Node |-> [m \in Node |-> <<>>]]
      /\ cmds = [n \in Node |-> {}] /\ replies = cmds
      /\ events = [n \in Node |-> <<>>]
  BY DEF Init, EngineInit, AppInit
<1>2. Made = {}  BY <1>1 DEF Made
<1>3. ASSUME NEW n \in Node, NEW c \in CallId PROVE Unknown(n, c)
  <2>1. /\ ui[n].pending = None /\ ui[n].activeCall = None /\ ui[n].pc = None
        /\ ui[n].remote = None /\ ui[n].steps[c] = "none"
    BY <1>1 DEF Idle
  <2>2. cmds[n] = {} /\ replies[n] = {} /\ events[n] = <<>>  BY <1>1
  <2>3. \A m \in Node : wire[n][m] = <<>> /\ active[n][m] = None /\ reading[n][m] = None
    BY <1>1
  <2>4. \A x : ~Has(<<>>, x)  BY DEF Has
  <2>5. QED
    BY <2>1, <2>2, <2>3, <2>4, NoneFact DEF Unknown, Waits, Replied, Queued, OnWire
<1>4. Belongs
  BY <1>3 DEF Unknown, Belongs, UiOf, RequestOf, EventOf, WireOf, TableOf
<1>5. Numbered
  <2>1. Made = 1 .. 0 /\ 0 \in Nat  BY <1>2
  <2>2. QED  BY <1>2, <2>1 DEF Numbered
<1>6. Remotes  BY <1>1 DEF Remotes, Idle
<1>7. Awaits  BY <1>1 DEF Awaits
<1>8. Linked
  <2>1. \A n, m \in Node : ~LossQueued(n, m)  BY <1>1 DEF LossQueued, Has
  <2>2. QED  BY <1>1, <2>1 DEF Linked
<1>9. QED  BY <1>2, <1>4, <1>5, <1>6, <1>7, <1>8 DEF Order, Kept

LEMMA SoundFollows == CallInv /\ Sound => EngineFollowsUser
<1> SUFFICES ASSUME CallInv, Sound, Quiet, breaks = 0, NEW n \in Node, NEW m \in Node,
                    active[n][m] \notin astray, active[n][m] # None
             PROVE  active[n][m] \in {ui[n].pending, ui[n].activeCall}
  BY DEF EngineFollowsUser
<1>1. EngineTypes  BY DEF CallInv, CallTypes
<1>2. Order /\ \A c \in Kept : Tracked(Caller(c), Callee(c), c)
  BY DEF Sound, Order
<1>3. PICK c \in CallId : active[n][m] = c
  BY <1>1 DEF EngineTypes, Tables, Calls
<1>4. InCall(n, c) /\ PeerOf(n, c) = m  BY <1>2, <1>3 DEF Order, Belongs, TableOf
<1>5. c \in Kept  BY <1>3, <1>4 DEF InCall, Kept
<1>6. Side(n, m, c)
  BY <1>2, <1>4, <1>5 DEF Tracked, InCall, PeerOf
<1>7. Keeps(n, c) \/ Queued(n, "offer", c)  BY <1>3, <1>6 DEF Side, Accounted
<1>8. cmds[n] = {} /\ events[n] = <<>> /\ ui[n].steps[c] = "none"
  BY DEF Quiet, Busy
<1>9. ~Queued(n, "offer", c)  BY <1>8 DEF Queued, Has
<1>10. ~Waits(n, "end", c) /\ ~Prepares(n, c)  BY <1>8 DEF Waits, Prepares
<1>11. QED  BY <1>3, <1>7, <1>9, <1>10 DEF Keeps, Shows

\* Unless a link was lost, an engine at rest remembers no call but one that its
\* user is in or is offered, or that an application lost track of: a refused
\* or failed offer, an end and an end that crosses an offer leave nothing in
\* active_peer_calls.
THEOREM EngineFollows == Spec => []EngineFollowsUser
<1>1. Init => CallInv /\ Sound  BY CallInit, SoundInit
<1>2. CallInv /\ Sound /\ [Next]_vars => (CallInv /\ Sound)'
  BY CallStep, SoundStep
<1>3. CallInv /\ Sound => EngineFollowsUser  BY SoundFollows
<1>4. QED  BY <1>1, <1>2, <1>3, PTL DEF Spec

-----------------------------------------------------------------------------
(* Candidates: what a move of an application does to the peer connection *)

\* n is offered the call, or waits for the microphone for it.
Opening(n, c) == ui[n].pending = c \/ ui[n].steps[c] = "media"

\* The peer connection opens with the description to come; nothing waits that
\* is offered still; a description is asked for together with the candidate.
Opens(n, c)     == ui'[n].pc = c => ui[n].pc = c \/ ui'[n].steps[c] = "describe"
TakesUp(n, c)   == ui'[n].steps[c] = "media" => ui[n].steps[c] = "media" \/ ui'[n].pending # c
AsksMedia(n, c) == Ready(n, c) => Waits(n, "ice", c)'
Finer(n, c) == Opens(n, c) /\ TakesUp(n, c) /\ AsksMedia(n, c)

\* A desktop gives its peer connection only candidates of that connection's call.
Given(n) == Desktop(n) => ui[n].ice \subseteq {ui[n].pc}

LEMMA ResetFiner ==
  ASSUME UiTypes, NEW n \in Node, NEW c \in CallId,
         Reset(ui[n], ui'[n]) \/ Same(ui[n], ui'[n])
  PROVE  Finer(n, c) /\ (app' = app /\ Given(n) => Given(n)')
<1>1. /\ ui'[n].steps = ui[n].steps /\ ui'[n].pc \in {ui[n].pc, None}
      /\ ui'[n].ice = {} \/ (ui'[n].ice = ui[n].ice /\ ui'[n].pc = ui[n].pc)
  BY DEF Reset, Closed, Same, SameCalls, SameIce
<1>2. ~Ready(n, c)  BY <1>1 DEF Ready
<1>3. Finer(n, c)  BY <1>1, <1>2, NoneFact DEF Finer, Opens, TakesUp, AsksMedia
<1>4. app' = app /\ Given(n) => Given(n)'  BY <1>1 DEF Given, Desktop
<1>5. QED  BY <1>3, <1>4

LEMMA StepFiner ==
  ASSUME UiTypes, NEW n \in Node, NEW c \in CallId, NEW d, NEW s,
         Step(ui[n], ui'[n], d, s), s \in {"media", "describe", "none"},
         s = "media" /\ d = c => ui'[n].pending # c,
         ui'[n].pc \in {ui[n].pc, None} \/ (ui'[n].pc = d /\ s = "describe")
  PROVE  Finer(n, c)
<1>1. ui'[n].steps[c] = IF c = d THEN s ELSE ui[n].steps[c]  BY StepFact
<1>2. ~Ready(n, c)  BY <1>1 DEF Ready
<1>3. QED  BY <1>1, <1>2, NoneFact DEF Finer, Opens, TakesUp, AsksMedia

LEMMA StartsFiner ==
  ASSUME EngineTypes, UiTypes, NEW n \in Node, NEW c \in CallId, app' = app,
         Dials(n) \/ Picks(n) \/ Declines(n)
  PROVE  Finer(n, c) /\ (Given(n) => Given(n)')
<1>1. CASE Dials(n)
  <2>1. /\ Step(ui[n], ui'[n], NextCall, "media") /\ ui'[n].pending = None
        /\ ui'[n].pc \in {ui[n].pc, None}
        /\ Desktop(n) => ui'[n].ice = {}
    BY <1>1 DEF Dials, SameCalls, Closed
  <2>2. ui'[n].pending # c  BY <2>1, NoneFact
  <2>4. Finer(n, c)  BY <2>1, <2>2, StepFiner
  <2>3. QED  BY <2>1, <2>4 DEF Given, Desktop
<1>2. CASE Picks(n)
  <2>1. /\ Step(ui[n], ui'[n], ui[n].pending, "media") /\ ui'[n].pending = None
        /\ ui'[n].pc = ui[n].pc /\ ui'[n].ice = ui[n].ice
    BY <1>2 DEF Picks, SameIce
  <2>2. Finer(n, c)  BY <2>1, NoneFact, StepFiner, ZenonT(40)
  <2>3. QED  BY <2>1, <2>2 DEF Given, Desktop
<1>3. CASE Declines(n)
  <2>1. /\ ui'[n].steps = ui[n].steps
        /\ ui'[n].pc = ui[n].pc /\ ui'[n].ice = ui[n].ice
    BY <1>3 DEF Declines
  <2>2. Finer(n, c)  BY <2>1 DEF Finer, Opens, TakesUp, AsksMedia, Ready
  <2>3. QED  BY <2>1, <2>2 DEF Given, Desktop
<1>4. QED  BY <1>1, <1>2, <1>3

LEMMA DescribesFiner ==
  ASSUME EngineTypes, UiTypes, NEW n \in Node, NEW c \in CallId, NEW d, app' = app,
         Describes(n, d)
  PROVE  Finer(n, c) /\ (Given(n) => Given(n)')
<1>1. /\ Turn(n, Asked(n, d)) /\ ui'[n].pc = ui[n].pc
      /\ Step(ui[n], ui'[n], d, IF Desktop(n) THEN "sending" ELSE "notify")
      /\ Desktop(n) => Flushed(ui[n], ui'[n])
  BY DEF Describes
<1>2. ui'[n].steps[c] = IF c = d THEN (IF Desktop(n) THEN "sending" ELSE "notify")
                        ELSE ui[n].steps[c]
  BY <1>1, StepFact
<1>3. ASSUME Ready(n, c) PROVE Waits(n, "ice", c)'
  <2>1. c = d  BY <1>2, <1>3 DEF Ready
  <2>2. Ask("ice", c) \in Asked(n, d)  BY <2>1 DEF Asked
  <2>3. Ask("ice", c).signal = "ice" /\ Ask("ice", c).call = c  BY DEF Ask
  <2>4. QED  BY <1>1, <2>2, <2>3, TurnAtoms
<1>4. Finer(n, c)  BY <1>1, <1>2, <1>3 DEF Finer, Opens, TakesUp, AsksMedia
<1>5. Desktop(n) => ui'[n].ice \subseteq ui[n].ice \cup {ui'[n].pc}
  BY <1>1 DEF Flushed, SameIce
<1>6. QED  BY <1>1, <1>4, <1>5 DEF Given, Desktop

LEMMA CallsFiner ==
  ASSUME EngineTypes, UiTypes, NEW n \in Node, NEW c \in CallId, NEW d, app' = app,
         GetsMedia(n, d) \/ Stumbles(n, d) \/ Notifies(n, d)
  PROVE  Finer(n, c) /\ (Given(n) => Given(n)')
<1>1. CASE GetsMedia(n, d)
  <2>1. /\ Step(ui[n], ui'[n], d, "describe") /\ ui'[n].pc = d
        /\ Desktop(n) => ui'[n].ice = {}
    BY <1>1 DEF GetsMedia
  <2>2. Finer(n, c)  BY <2>1, StepFiner
  <2>3. QED  BY <2>1, <2>2 DEF Given, Desktop
<1>2. CASE Stumbles(n, d) \/ Notifies(n, d)
  <2>1. /\ Step(ui[n], ui'[n], d, "none") /\ ui'[n].pc = ui[n].pc
        /\ ui'[n].ice = ui[n].ice
    BY <1>2 DEF Stumbles, Notifies, SameCalls, SameIce
  <2>2. Finer(n, c)  BY <2>1, StepFiner
  <2>3. QED  BY <2>1, <2>2 DEF Given, Desktop
<1>3. QED  BY <1>1, <1>2

LEMMA LearnedFiner ==
  ASSUME EngineTypes, UiTypes, NEW n \in Node, NEW c \in CallId, app' = app,
         NEW r, Learned(n, r)
  PROVE  Finer(n, c) /\ (Given(n) => Given(n)')
<1>1. CASE Step(ui[n], ui'[n], r.call, "none") /\ ui'[n].pc = ui[n].pc
           /\ ui'[n].ice = ui[n].ice
  <2>1. Finer(n, c)  BY <1>1, StepFiner
  <2>2. QED  BY <1>1, <2>1 DEF Given, Desktop
<1>2. CASE Reset(ui[n], ui'[n]) \/ Same(ui[n], ui'[n])
  BY <1>2, ResetFiner
<1>3. QED  BY <1>1, <1>2 DEF Learned, SameIce

LEMMA HearsFiner ==
  ASSUME EngineTypes, UiTypes, NEW n \in Node, NEW c \in CallId, app' = app,
         \/ Rings(n) \/ HearsAnswer(n) \/ HearsIce(n) \/ HearsEnd(n) \/ HearsLoss(n)
  PROVE  Finer(n, c) /\ (Given(n) => Given(n)')
<1>1. CASE HearsEnd(n) \/ HearsLoss(n)
  BY <1>1, ResetFiner DEF HearsEnd, HearsLoss
<1>2. CASE Rings(n) \/ HearsAnswer(n) \/ HearsIce(n)
  <2>1. ui'[n].steps = ui[n].steps /\ ui'[n].pc = ui[n].pc
    BY <1>2 DEF Rings, HearsAnswer, HearsIce, Same, SameCalls
  <2>2. Finer(n, c)  BY <2>1 DEF Finer, Opens, TakesUp, AsksMedia, Ready
  <2>3. Desktop(n) => ui'[n].ice \subseteq ui[n].ice \cup {ui'[n].pc}
    BY <1>2, <2>1 DEF Rings, HearsAnswer, HearsIce, Same, SameIce, Flushed
  <2>4. QED  BY <2>1, <2>2, <2>3 DEF Given, Desktop
<1>3. QED  BY <1>1, <1>2

LEMMA FinerFact ==
  ASSUME EngineTypes, UiTypes, NEW n \in Node, AppMoves(n), app' = app, NEW c \in CallId
  PROVE  Finer(n, c) /\ (Given(n) => Given(n)')
<1>1. CASE Leaves(n) \/ HangsUp(n) \/ CutsOff(n) \/ Closes(n) \/ AsksToEnd(n)
  BY <1>1, ResetFiner DEF Leaves, HangsUp, CutsOff, Closes, AsksToEnd
<1>2. QED
  BY <1>1, StartsFiner, DescribesFiner, CallsFiner, LearnedFiner, HearsFiner DEF AppMoves

-----------------------------------------------------------------------------
(* and to the candidates of the only call there is *)

\* The application of desktop n moves, and c is the only call there is.
Alone(n, c) == /\ EngineTypes /\ UiTypes /\ Order /\ c \in CallId /\ Made = {c}
               /\ ~Begins(n) /\ breaks' = breaks /\ Desktop(n)
Only(n, c) == /\ ui[n].pending \in {None, c} /\ ui[n].activeCall \in {None, c}
              /\ ui[n].pc \in {None, c}
              /\ \A d \in CallId, t \in EventTypes : Queued(n, t, d) => d = c
              /\ \A r \in replies[n] : r.call = c
              /\ ~Handles(n, "peer_disconnected")

LEMMA OnlyFact ==
  ASSUME EngineTypes, UiTypes, Order, NEW c \in CallId, Made = {c}, NEW n \in Node
  PROVE  Only(n, c)
<1>1. \A d \in CallId : UiOf(n, d) /\ RequestOf(n, d) /\ EventOf(n, d)
  BY DEF Order, Belongs
<1>2. \A d : InCall(n, d) => d = c  BY DEF InCall
<1>3. \A s, d : Sends(n, s, d) \/ Gets(n, s, d) => d = c  BY <1>2 DEF Sends, Gets
<1>4. /\ ui[n].pending \in CallId \cup {None} /\ ui[n].activeCall \in CallId \cup {None}
      /\ ui[n].pc \in CallId \cup {None}
  BY DEF UiTypes, State
<1>5. ui[n].pending \in {None, c} /\ ui[n].activeCall \in {None, c} /\ ui[n].pc \in {None, c}
  BY <1>1, <1>2, <1>3, <1>4 DEF UiOf
<1>6. ASSUME NEW d \in CallId, NEW t \in EventTypes, Queued(n, t, d) PROVE d = c
  BY <1>1, <1>3, <1>6 DEF EventOf
<1>7. ASSUME NEW r \in replies[n] PROVE r.call = c
  <2>1. r \in Reply  BY DEF EngineTypes
  <2>2. r.signal \in Signals /\ r.call \in CallId  BY <2>1 DEF Reply
  <2>3. Replied(n, r.signal, r.call)  BY DEF Replied
  <2>4. QED  BY <1>1, <1>3, <2>2, <2>3 DEF RequestOf
<1>8. ASSUME Handles(n, "peer_disconnected") PROVE FALSE
  <2> DEFINE e == Head(events[n])
  <2>1. events[n] \in Seq(Event) /\ events[n] # <<>> /\ e.type = "peer_disconnected"
    BY <1>8 DEF EngineTypes, Handles
  <2>2. e \in Event /\ Has(events[n], e)  BY <2>1, TailHas
  <2>3. e.peer \in Node /\ e = Lost(e.peer)  BY <2>1, <2>2, EventFact DEF EventTypes
  <2>4. LossQueued(n, e.peer)  BY <2>2, <2>3 DEF LossQueued
  <2>5. QED  BY <2>3, <2>4 DEF Order, Linked
<1>9. QED  BY <1>5, <1>6, <1>7, <1>8 DEF Only

\* The ways in which a desktop's candidate of c goes: the call is closed, or
\* refused, or begins anew.
Ends(n, c)     == /\ Reset(ui[n], ui'[n])
                  /\ ui[n].activeCall = c \/ ui[n].pc = c \/ Learns(n, c)
Refuses(n, c)  == /\ ui[n].pending = c /\ ui'[n].pending = None
                  /\ ui'[n].pc = ui[n].pc /\ ui'[n].steps = ui[n].steps
Restarts(n, c) == ui[n].steps[c] = "media" /\ c \in ui[n].ice

Holding(n, c)  == c \in ui[n].early \/ c \in ui[n].ice
\* A candidate waits though the call has both descriptions.
Unflushed(n, c) == /\ ui[n].pc = c /\ ui[n].remote = c /\ ~Starting(n, c)
                   /\ c \in ui[n].early

KeepsIce(n, c) == Holding(n, c) => \/ Holding(n, c)'
                                   \/ Ends(n, c) \/ Refuses(n, c) \/ Restarts(n, c)
TakesIce(n, c) == Queued(n, "ice", c) => Queued(n, "ice", c)' \/ Holding(n, c)'
LeavesIce(n, c) == Unflushed(n, c)' =>
                     \/ Unflushed(n, c)
                     \/ Starting(n, c) /\ (Replied(n, "offer", c) \/ Replied(n, "answer", c))
IceStep(n, c) == KeepsIce(n, c) /\ TakesIce(n, c) /\ LeavesIce(n, c)

LEMMA QuietIce ==
  ASSUME NEW n, NEW c, events' = events
  PROVE  TakesIce(n, c)
BY DEF TakesIce, Queued

LEMMA OtherIce ==
  ASSUME EngineTypes, NEW n \in Node, NEW c, NEW t, Handles(n, t), t # "ice", Hearing(n)
  PROVE  TakesIce(n, c)
<1>1. events[n] # <<>> /\ Head(events[n]).type = t
      /\ events' = [events EXCEPT ![n] = Tail(@)]
  BY DEF Handles, Hearing
<1>2. Head(events[n]) # Ev("ice", c)  BY <1>1 DEF Ev
<1>3. Queued(n, "ice", c) => Queued(n, "ice", c)'  BY <1>1, <1>2, HeardAtoms
<1>4. QED  BY <1>3 DEF TakesIce

\* The peer connection and the candidates stay.
LEMMA CalmIce ==
  ASSUME NEW n, NEW c, TakesIce(n, c),
         ui'[n].pc = ui[n].pc, ui'[n].remote = ui[n].remote,
         SameIce(ui[n], ui'[n]),
         ui'[n].steps[c] \in {ui[n].steps[c], "media"}
           \/ Replied(n, "offer", c) \/ Replied(n, "answer", c)
  PROVE  IceStep(n, c)
<1>1. Holding(n, c)' <=> Holding(n, c)  BY DEF Holding, SameIce
<1>2. KeepsIce(n, c)  BY <1>1 DEF KeepsIce
<1>3. LeavesIce(n, c)  BY DEF LeavesIce, Unflushed, Starting, SameIce
<1>4. QED  BY <1>2, <1>3 DEF IceStep

LEMMA SameStill ==
  ASSUME NEW n, NEW c, TakesIce(n, c), Same(ui[n], ui'[n])
  PROVE  IceStep(n, c)
BY CalmIce DEF Same, SameCalls

LEMMA EndsIce ==
  ASSUME NEW n, NEW c \in CallId, TakesIce(n, c), Ends(n, c)
  PROVE  IceStep(n, c)
<1>1. ui'[n].pc = None  BY DEF Ends, Reset, Closed
<1>2. LeavesIce(n, c)  BY <1>1, NoneFact DEF LeavesIce, Unflushed
<1>3. QED  BY <1>2 DEF IceStep, KeepsIce

LEMMA PicksIce ==
  ASSUME NEW n \in Node, NEW c, Alone(n, c), Picks(n)
  PROVE  IceStep(n, c)
<1>1. /\ Step(ui[n], ui'[n], ui[n].pending, "media") /\ events' = events
      /\ ui'[n].pc = ui[n].pc /\ ui'[n].remote = ui[n].remote /\ SameIce(ui[n], ui'[n])
  BY DEF Picks, Silent
<1>4. UiTypes /\ c \in CallId  BY DEF Alone
<1>2. ui'[n].steps[c] = IF c = ui[n].pending THEN "media" ELSE ui[n].steps[c]
  BY <1>1, <1>4, StepFact
<1>3. QED  BY <1>1, <1>2, QuietIce, CalmIce

LEMMA DeclinesIce ==
  ASSUME NEW n \in Node, NEW c, Alone(n, c), Declines(n)
  PROVE  IceStep(n, c)
<1>1. /\ ui'[n].pending = None /\ ui'[n].steps = ui[n].steps /\ events' = events
      /\ ui'[n].pc = ui[n].pc /\ ui'[n].remote = ui[n].remote
      /\ ui'[n].ice = ui[n].ice /\ ui'[n].early = ui[n].early \ {ui[n].pending}
  BY DEF Declines, Silent, Alone
<1>2. TakesIce(n, c)  BY <1>1, QuietIce
<1>3. KeepsIce(n, c)  BY <1>1 DEF KeepsIce, Holding, Refuses
<1>4. LeavesIce(n, c)  BY <1>1 DEF LeavesIce, Unflushed, Starting
<1>5. QED  BY <1>2, <1>3, <1>4 DEF IceStep

LEMMA HangsIce ==
  ASSUME NEW n \in Node, NEW c, Alone(n, c),
         AsksToEnd(n) \/ HangsUp(n) \/ CutsOff(n) \/ Closes(n)
  PROVE  IceStep(n, c)
<1>1. events' = events  BY DEF AsksToEnd, HangsUp, CutsOff, Closes, Silent
<1>2. TakesIce(n, c)  BY <1>1, QuietIce
<1>3. CASE AsksToEnd(n)  BY <1>2, <1>3, SameStill DEF AsksToEnd
<1>4. CASE HangsUp(n) \/ CutsOff(n) \/ Closes(n)
  <2>1. Reset(ui[n], ui'[n]) /\ (ui[n].activeCall # None \/ ui[n].pc # None)
    BY <1>4 DEF HangsUp, CutsOff, Closes
  <2>2. Only(n, c) /\ c \in CallId  BY OnlyFact DEF Alone
  <2>3. Ends(n, c)  BY <2>1, <2>2 DEF Ends, Only
  <2>4. QED  BY <1>2, <2>2, <2>3, EndsIce
<1>5. QED  BY <1>3, <1>4

LEMMA GetsMediaIce ==
  ASSUME NEW n \in Node, NEW c, Alone(n, c), GetsMedia(n, c)
  PROVE  IceStep(n, c)
<1>1. /\ ui[n].steps[c] = "media" /\ Step(ui[n], ui'[n], c, "describe") /\ events' = events
      /\ ui'[n].early = ui[n].early \cap {c}
  BY DEF GetsMedia, Silent, Alone
<1>2. TakesIce(n, c)  BY <1>1, QuietIce
<1>3. ui'[n].steps[c] = "describe"  BY <1>1, StepFact DEF Alone
<1>4. KeepsIce(n, c)  BY <1>1 DEF KeepsIce, Holding, Restarts
<1>5. LeavesIce(n, c)  BY <1>3 DEF LeavesIce, Unflushed, Starting
<1>6. QED  BY <1>2, <1>4, <1>5 DEF IceStep

LEMMA DescribesIce ==
  ASSUME NEW n \in Node, NEW c, Alone(n, c), Describes(n, c)
  PROVE  IceStep(n, c)
<1>1. /\ ui'[n].pc = ui[n].pc /\ ui[n].pc = c /\ ui'[n].remote = ui[n].remote
      /\ Flushed(ui[n], ui'[n]) /\ events' = events
  BY DEF Describes, Silent, Alone
<1>2. TakesIce(n, c)  BY <1>1, QuietIce
<1>3. KeepsIce(n, c)  BY <1>1 DEF KeepsIce, Holding, Flushed, SameIce
<1>4. c # None  BY NoneFact DEF Alone
<1>5. LeavesIce(n, c)  BY <1>1, <1>4 DEF LeavesIce, Unflushed, Flushed
<1>6. QED  BY <1>2, <1>3, <1>5 DEF IceStep

LEMMA StumblesIce ==
  ASSUME NEW n \in Node, NEW c, Alone(n, c), Stumbles(n, c)
  PROVE  IceStep(n, c)
<1>1. /\ ui'[n].pc = ui[n].pc /\ ui[n].pc # c
      /\ SameIce(ui[n], ui'[n]) /\ events' = events
  BY DEF Stumbles, Silent, SameCalls
<1>2. TakesIce(n, c)  BY <1>1, QuietIce
<1>3. KeepsIce(n, c)  BY <1>1 DEF KeepsIce, Holding, SameIce
<1>4. LeavesIce(n, c)  BY <1>1 DEF LeavesIce, Unflushed
<1>5. QED  BY <1>2, <1>3, <1>4 DEF IceStep

LEMMA LearnedIce ==
  ASSUME NEW n \in Node, NEW c, Alone(n, c), NEW r \in replies[n], Learned(n, r)
  PROVE  IceStep(n, c)
<1>1. r.call = c /\ c \in CallId /\ events' = events
  BY OnlyFact DEF Alone, Only, Learned
<1>2. TakesIce(n, c)  BY <1>1, QuietIce
<1>3. CASE r.signal \in {"offer", "answer"}
  <2>1. /\ ui'[n].pc = ui[n].pc /\ ui'[n].remote = ui[n].remote
        /\ SameIce(ui[n], ui'[n])
    BY <1>3 DEF Learned
  <2>2. Replied(n, "offer", c) \/ Replied(n, "answer", c)
    BY <1>1, <1>3 DEF Replied
  <2>3. QED  BY <1>2, <2>1, <2>2, CalmIce
<1>4. CASE r.signal = "end" /\ ~r.ok
  BY <1>2, <1>4, SameStill DEF Learned
<1>5. CASE r.signal = "end" /\ r.ok
  <2>1. Reset(ui[n], ui'[n]) /\ replies' = [replies EXCEPT ![n] = @ \ {r}]
    BY <1>5 DEF Learned
  <2>2. replies'[n] = replies[n] \ {r}  BY <2>1 DEF Alone, EngineTypes
  <2>3. Learns(n, c)  BY <1>1, <1>5, <2>2 DEF Learns
  <2>4. QED  BY <1>1, <1>2, <2>1, <2>3, EndsIce DEF Ends
<1>6. QED  BY <1>3, <1>4, <1>5 DEF Learned

LEMMA RingsIce ==
  ASSUME NEW n \in Node, NEW c, Alone(n, c), Rings(n)
  PROVE  IceStep(n, c)
<1>1. /\ ui'[n].pc = ui[n].pc /\ ui'[n].remote = ui[n].remote
      /\ SameIce(ui[n], ui'[n]) /\ ui'[n].steps = ui[n].steps
      /\ Handles(n, "offer") /\ Hearing(n)
  BY DEF Rings, Same, SameCalls
<1>2. TakesIce(n, c)  BY <1>1, OtherIce DEF Alone
<1>3. QED  BY <1>1, <1>2, CalmIce

LEMMA HearsAnswerIce ==
  ASSUME NEW n \in Node, NEW c, Alone(n, c), HearsAnswer(n)
  PROVE  IceStep(n, c)
<1> DEFINE d == Head(events[n]).call
<1>1. /\ Handles(n, "answer") /\ Hearing(n)
      /\ ui'[n].pc = ui[n].pc /\ ui'[n].steps = ui[n].steps
      /\ IF ui[n].pc = d THEN ui'[n].remote = d /\ Flushed(ui[n], ui'[n])
         ELSE ui'[n].remote = ui[n].remote /\ SameIce(ui[n], ui'[n])
  BY DEF HearsAnswer, Alone
<1> HIDE DEF d
<1>2. TakesIce(n, c)  BY <1>1, OtherIce DEF Alone
<1>3. KeepsIce(n, c)  BY <1>1 DEF KeepsIce, Holding, Flushed, SameIce
<1>4. c # None  BY NoneFact DEF Alone
<1>5. LeavesIce(n, c)  BY <1>1, <1>4 DEF LeavesIce, Unflushed, Starting, Flushed, SameIce
<1>6. QED  BY <1>2, <1>3, <1>5 DEF IceStep

LEMMA HearsIceIce ==
  ASSUME NEW n \in Node, NEW c, Alone(n, c), HearsIce(n)
  PROVE  IceStep(n, c)
<1> DEFINE d == Head(events[n]).call
<1>1. /\ Handles(n, "ice") /\ Hearing(n) /\ SameCalls(ui[n], ui'[n])
      /\ ui'[n].steps = ui[n].steps
      /\ IF ui[n].pc = d /\ ui[n].remote # None
         THEN ui'[n].ice = ui[n].ice \cup {d} /\ ui'[n].early = ui[n].early
         ELSE ui'[n].ice = ui[n].ice /\ ui'[n].early = ui[n].early \cup {d}
  BY DEF HearsIce, Alone
<1>2. Head(events[n]) = Ev("ice", d) /\ events[n] # <<>>
  BY <1>1, HandlesEvent DEF Alone, EventTypes
<1> HIDE DEF d
<1>9. Ev("ice", d) = Ev("ice", c) => d = c  BY SigFacts
<1>10. EngineTypes /\ events' = [events EXCEPT ![n] = Tail(@)]
  BY <1>1 DEF Alone, Hearing
<1>3. Queued(n, "ice", c) => Queued(n, "ice", c)' \/ d = c
  BY <1>2, <1>9, <1>10, HeardAtoms
<1>4. TakesIce(n, c)  BY <1>1, <1>3 DEF TakesIce, Holding
<1>5. KeepsIce(n, c)  BY <1>1 DEF KeepsIce, Holding
<1>6. c # None  BY NoneFact DEF Alone
<1>7. LeavesIce(n, c)  BY <1>1, <1>6 DEF LeavesIce, Unflushed, Starting, SameCalls
<1>8. QED  BY <1>4, <1>5, <1>7 DEF IceStep

LEMMA HearsEndIce ==
  ASSUME NEW n \in Node, NEW c, Alone(n, c), HearsEnd(n)
  PROVE  IceStep(n, c)
<1> DEFINE d == Head(events[n]).call
<1>1. /\ Handles(n, "ended") /\ Hearing(n)
      /\ Reset(ui[n], ui'[n]) \/ Same(ui[n], ui'[n])
  BY DEF HearsEnd
<1>2. /\ Head(events[n]) = Ev("ended", d) /\ events[n] # <<>> /\ d \in CallId
  BY <1>1, HandlesEvent DEF Alone, EventTypes
<1>8. EngineTypes /\ events' = [events EXCEPT ![n] = Tail(@)]
  BY <1>1 DEF Alone, Hearing
<1> HIDE DEF d
<1>9. Queued(n, "ended", d)
  <2>1. ASSUME NEW e, Head(events[n]) = Ev("ended", e) PROVE Queued(n, "ended", e)
    BY <1>2, <1>8, <2>1, HeardAtoms
  <2>2. QED  BY <1>2, <2>1
<1>3. d = c /\ c \in CallId  BY <1>2, <1>9, OnlyFact, SignalsFact DEF Alone, Only
<1>4. TakesIce(n, c)  BY <1>1, OtherIce DEF Alone
<1>5. CASE Reset(ui[n], ui'[n])
  <2>1. events'[n] = Tail(events[n])  BY <1>1 DEF Hearing, Alone, EngineTypes
  <2>2. IsOver(n, c, Head(events[n]))  BY <1>2, <1>3 DEF IsOver, Ev
  <2>3. Learns(n, c)  BY <1>2, <2>1, <2>2 DEF Learns
  <2>4. QED  BY <1>3, <1>4, <1>5, <2>3, EndsIce DEF Ends
<1>6. CASE Same(ui[n], ui'[n])  BY <1>4, <1>6, SameStill
<1>7. QED  BY <1>1, <1>5, <1>6

LEMMA IceFact ==
  ASSUME NEW n \in Node, NEW c, Alone(n, c), AppMoves(n)
  PROVE  IceStep(n, c)
<1>1. ~Dials(n)  BY DEF Dials, Begins, Alone
<1>2. ~Leaves(n)
  <2>1. breaks \in Nat  BY BreaksGrow DEF Alone
  <2>2. breaks' = breaks  BY DEF Alone
  <2>3. Leaves(n) => breaks' = breaks + 1  BY DEF Leaves
  <2>4. QED  BY <2>1, <2>2, <2>3
<1>3. ~HearsLoss(n)  BY OnlyFact DEF HearsLoss, Alone, Only
<1>4. \A d \in Made : d = c /\ ~Notifies(n, d)  BY DEF Alone, Notifies
<1>5. QED
  BY <1>1, <1>2, <1>3, <1>4, PicksIce, DeclinesIce, HangsIce, GetsMediaIce, DescribesIce,
     StumblesIce, LearnedIce, RingsIce, HearsAnswerIce, HearsIceIce, HearsEndIce
     DEF AppMoves

-----------------------------------------------------------------------------
(* What is on its way to a device, and for how long it may want it *)

Unasked(n, c) == \A s \in {"offer", "answer"} : ~Waits(n, s, c) /\ ~Replied(n, s, c)
\* What is still to begin has left nothing behind.
Rested(n, c) ==
  /\ Opening(n, c) => ui[n].pc # c
  /\ Opening(n, c) \/ ui[n].steps[c] = "describe" => ui[n].activeCall # c /\ Unasked(n, c)
  /\ ui[n].pending = c => ui[n].steps[c] = "none"

\* The candidate of m for n, once m has gathered it, and while n may want it.
OnItsWay(n, m, c) == \/ Waits(m, "ice", c) \/ OnWire(m, n, "ice", c)
                     \/ Queued(n, "ice", c) \/ Holding(n, c)
Gathered(m, c)  == ui[m].pc = c /\ ~Starting(m, c)
Coming(n, m, c) == \/ Waits(m, "offer", c) \/ OnWire(m, n, "offer", c)
                   \/ reading[n][m] = c \/ Queued(n, "offer", c)
Alive(n, m, c)  == ui[n].pc = c \/ Opening(n, c) \/ Coming(n, m, c)
Delivered(n, m, c) == Desktop(n) /\ Alive(n, m, c) /\ Gathered(m, c) => OnItsWay(n, m, c)

Advancing(n, c, a, b) == /\ Moving(n, c, a, b) /\ Finer(n, c)
                         /\ Desktop(n) => IceStep(n, c)
Ends2(q, m, a, b) == <<q, m>> \in {<<a, b>>, <<b, a>>}

LEMMA OfferFacts ==
  ASSUME NEW n \in Node, NEW c, NEW a, NEW b, Moving(n, c, a, b), Queued(n, "offer", c)
  PROVE  /\ n = b /\ ~Shows(n, c) /\ ~Prepares(n, c) /\ ui[n].pc # c
         /\ ~Waits(n, "answer", c) /\ ~Replied(n, "answer", c)
<1>1. RolesOf(n, c, a, b) /\ Unheard(a, b, c)  BY RolesFact DEF Moving, Tracked
<1>2. n = b  BY <1>1 DEF RolesOf
<1>3. QED  BY <1>1, <1>2 DEF Unheard, Offering

LEMMA RestedStays ==
  ASSUME NEW n \in Node, NEW c, NEW a, NEW b, Moving(n, c, a, b), Finer(n, c),
         NEW q \in {a, b}, Rested(q, c)
  PROVE  Rested(q, c)'
<1>0. /\ Moving(n, c, a, b) /\ q \in Node /\ a # b /\ EngineTypes /\ RolesOf(q, c, a, b)
      /\ Unheard(a, b, c) /\ Fades(q, c) /\ c # NextCall
  BY RolesFact, FadesFact DEF Moving, Between, Tracked
<1>1. CASE q # n
  <2>1. Rests(q, c)  BY <1>0, <1>1, FadesFact
  <2>2. Unasked(q, c) => Unasked(q, c)'  BY <1>0, <2>1 DEF Unasked, Rests, Fades
  <2>3. QED  BY <2>1, <2>2 DEF Rested, Opening, Rests
<1>2. CASE q = n
  <2>1. Fields(q, c) /\ Requests(q, c) /\ Finer(q, c)
    BY <1>0, <1>2 DEF Moving, AppStep
  <2>2. ui'[q].pending = c => ui[q].pending = c \/ Queued(q, "offer", c)
    BY <1>0, <2>1, HeardFacts DEF Fields, RingsAnew
  <2>3. Queued(q, "offer", c) =>
          /\ q = b /\ ui[q].pending # c /\ ui[q].activeCall # c /\ ui[q].steps[c] = "none"
          /\ ui[q].pc # c /\ ~Waits(q, "answer", c) /\ ~Replied(q, "answer", c)
    BY <1>0, <1>2, OfferFacts DEF Shows, Prepares
  <2>4. ui'[q].steps[c] = "media" => Opening(q, c)
    BY <1>0, <2>1 DEF Fields, GoesOn, Opening
  <2>5. ui'[q].steps[c] = "describe" => Starting(q, c)
    BY <2>1 DEF Fields, GoesOn, Starting
  <2>6. ASSUME ui'[q].pending = c PROVE ui'[q].steps[c] = "none"
    <3>1. ui[q].steps[c] = "none"  BY <2>2, <2>3, <2>6 DEF Rested
    <3>2. ui'[q].steps[c] # "media"  BY <2>1, <2>6, <3>1 DEF Finer, TakesUp
    <3>3. QED  BY <2>1, <3>1, <3>2 DEF Fields, GoesOn
  <2>7. ASSUME ui'[q].pending = c \/ ui'[q].steps[c] = "media" PROVE ui'[q].pc # c
    <3>1. ui'[q].steps[c] # "describe"  BY <2>6, <2>7
    <3>2. ui[q].pc # c  BY <2>2, <2>3, <2>4, <2>7 DEF Rested, Opening
    <3>3. QED  BY <2>1, <3>1, <3>2 DEF Finer, Opens
  <2>8. ASSUME ui'[q].pending = c \/ ui'[q].steps[c] \in {"media", "describe"}
        PROVE  ui'[q].activeCall # c /\ Unasked(q, c)'
    <3>1. ui[q].pending = c \/ Starting(q, c) \/ Queued(q, "offer", c)
      BY <2>2, <2>4, <2>5, <2>8 DEF Opening, Starting
    <3>2. ui[q].activeCall # c /\ ui[q].steps[c] # "notify"
      BY <2>3, <3>1 DEF Rested, Opening, Starting
    <3>3. Unasked(q, c)
      <4>1. CASE ui[q].pending = c \/ Starting(q, c)
        BY <4>1 DEF Rested, Opening, Starting
      <4>2. CASE Queued(q, "offer", c)
        BY <1>0, <2>3, <4>2 DEF Unasked, RolesOf
      <4>3. QED  BY <3>1, <4>1, <4>2
    <3>4. ~Queued(q, "answer", c)
      BY <1>0, <3>1 DEF RolesOf, Unheard, Unsent
    <3>5. ui'[q].activeCall # c
      BY <2>1, <3>2, <3>3, <3>4 DEF Fields, ShowsAnew, Unasked
    <3>6. ~Ready(q, c)
      BY <2>3, <2>2, <2>8 DEF Ready, Rested
    <3>7. Unasked(q, c)'
      BY <1>0, <2>1, <3>3, <3>6 DEF Unasked, Requests, AsksOffer, AsksAnswer, Fades
    <3>8. QED  BY <3>5, <3>7
  <2>9. /\ (ui[q].pending)' = ui'[q].pending /\ (ui[q].pc)' = ui'[q].pc
        /\ (ui[q].steps[c])' = ui'[q].steps[c] /\ (ui[q].activeCall)' = ui'[q].activeCall
    OBVIOUS
  <2>10. QED  BY <2>6, <2>7, <2>8, <2>9 DEF Rested, Opening
<1>3. QED  BY <1>1, <1>2

LEMMA ComingFacts ==
  ASSUME Order, NEW c, NEW a, NEW b, Between(c, a, b),
         NEW q \in Node, NEW m \in Node, Ends2(q, m, a, b), Coming(q, m, c)
  PROVE  q = b /\ m = a /\ (Unsent(a, c) \/ Offering(a, b, c))
<1>1. RolesOf(q, c, a, b) /\ RolesOf(m, c, a, b) /\ a # b /\ c \in CallId
      /\ a = Caller(c) /\ b = Callee(c)
  BY RolesFact DEF Between, Made
<1>2. WireOf(m, c) /\ TableOf(q, c)  BY <1>1 DEF Order, Belongs
<1>3. OnWire(m, q, "offer", c) => m = a  BY <1>1, <1>2, SignalsFact DEF WireOf, Sends
<1>4. reading[q][m] = c => q = b  BY <1>1, <1>2 DEF TableOf, Gets
<1>5. m = a \/ q = b  BY <1>1, <1>3, <1>4 DEF Coming, RolesOf
<1>6. q = b /\ m = a  BY <1>1, <1>5 DEF Ends2
<1>7. QED  BY <1>6 DEF Coming, Unsent, Offering

\* Unless its own end is answered, n learns from the next event.
LEMMA LearnsHead ==
  ASSUME EngineTypes, Linked, NEW n \in Node, NEW c, Learns(n, c)
  PROVE  Replied(n, "end", c) \/ (events[n] # <<>> /\ Head(events[n]) = Ev("ended", c))
<1>1. CASE \E r \in replies[n] \ replies'[n] : r.signal = "end" /\ r.call = c
  BY <1>1 DEF Replied
<1>2. CASE events[n] # <<>> /\ IsOver(n, c, Head(events[n]))
  <2> DEFINE e == Head(events[n])
  <2>1. events[n] \in Seq(Event) /\ e \in Event  BY <1>2 DEF EngineTypes
  <2>2. Has(events[n], e)  BY <1>2, <2>1, TailHas
  <2>3. \/ e.type \in EventTypes /\ e = Ev(e.type, e.call)
        \/ e.type = "peer_disconnected" /\ e.peer \in Node /\ e = Lost(e.peer)
    BY <2>1, EventFact
  <2>4. CASE e.type = "ended" /\ e.call = c  BY <1>2, <2>3, <2>4
  <2>5. CASE e.type = "peer_disconnected"
    <3>1. e.peer \in Node /\ e = Lost(e.peer)  BY <2>3, <2>5 DEF EventTypes
    <3>2. LossQueued(n, e.peer)  BY <2>2, <3>1 DEF LossQueued
    <3>3. QED  BY <3>1, <3>2 DEF Linked
  <2>6. QED  BY <1>2, <2>4, <2>5 DEF IsOver
<1>3. QED  BY <1>1, <1>2 DEF Learns

LEMMA NoEndFirst ==
  ASSUME EngineTypes, NEW n \in Node, NEW c, EventOrder(n, c), events[n] # <<>>,
         Head(events[n]) = Ev("ended", c)
  PROVE  ~Queued(n, "offer", c)
<1>1. events[n] \in Seq(Event)  BY DEF EngineTypes
<1>2. Ev("offer", c) # Ev("ended", c)  BY SigFacts
<1>3. Leads(events[n], Ev("offer", c), Ev("ended", c))  BY DEF EventOrder
<1>4. ~Has(events[n], Ev("offer", c))  BY <1>1, <1>2, <1>3, TailLeads
<1>5. QED  BY <1>4 DEF Queued

LEMMA AliveStays ==
  ASSUME NEW n \in Node, NEW c, NEW a, NEW b, Moving(n, c, a, b),
         NEW m \in Node, Ends2(n, m, a, b), Alive(n, m, c)'
  PROVE  Alive(n, m, c) /\ (Coming(n, m, c)' => Coming(n, m, c))
<1>1. /\ a # b /\ EngineTypes /\ Fades(n, c) /\ Fades(m, c) /\ c # NextCall
      /\ Fields(n, c)
  BY FadesFact DEF Moving, Between, AppStep
<1>2. n # m  BY <1>1 DEF Ends2
<1>3. Rests(m, c)  BY <1>2, FadesFact
<1>4. Coming(n, m, c)' => Coming(n, m, c)
  BY <1>1, <1>3 DEF Coming, Rests, Fades
<1>5. ui'[n].pc = c => ui[n].pc = c \/ Opening(n, c)
  BY <1>1 DEF Fields, OpensAnew, Opening
<1>6. ui'[n].pending = c => Opening(n, c) \/ Coming(n, m, c)
  BY <1>1, HeardFacts DEF Fields, RingsAnew, Opening, Coming
<1>7. ui'[n].steps[c] = "media" => Opening(n, c)
  BY <1>1 DEF Fields, GoesOn, Opening
<1>8. ui'[n].pc = c \/ ui'[n].pending = c \/ ui'[n].steps[c] = "media" \/ Coming(n, m, c)'
  BY DEF Alive, Opening
<1>9. QED  BY <1>4, <1>5, <1>6, <1>7, <1>8 DEF Alive

\* A call that is still to come, or that n goes on to answer, does not end.
LEMMA EndsNot ==
  ASSUME NEW n \in Node, NEW c, NEW a, NEW b, Moving(n, c, a, b), Rested(n, c),
         NEW m \in Node, Ends2(n, m, a, b), Ends(n, c)
  PROVE  ~Alive(n, m, c)'
<1> SUFFICES ASSUME Alive(n, m, c)' PROVE FALSE
  OBVIOUS
<1>0. /\ EngineTypes /\ Order /\ Linked /\ c \in CallId /\ ~LosesTrack(c)
      /\ Between(c, a, b) /\ OfferUnsent(a, b, c) /\ Unheard(a, b, c) /\ OfferedOnce(a, b, c)
  BY DEF Moving, Between, Made, Tracked, Order
<1>1. /\ ui'[n].pending = None /\ ui'[n].pc = None /\ ui'[n].steps = ui[n].steps
      /\ ui[n].activeCall = c \/ ui[n].pc = c \/ Learns(n, c)
  BY DEF Ends, Reset, Closed
<1>2. CASE ui[n].steps[c] = "media"
  <2>1. ui[n].activeCall # c /\ ui[n].pc # c  BY <1>2 DEF Rested, Opening
  <2>2. Prepares(n, c) /\ Prepares(n, c)'  BY <1>1, <1>2 DEF Prepares
  <2>3. Interrupts(n, c)  BY <1>1, <2>1, <2>2 DEF Interrupts
  <2>4. QED  BY <1>0, <2>3 DEF LosesTrack
<1>3. CASE Coming(n, m, c)'
  <2>1. Coming(n, m, c)  BY <1>3, AliveStays
  <2>2. n = b /\ m = a /\ (Unsent(a, c) \/ Offering(a, b, c))
    BY <1>0, <2>1, ComingFacts
  <2>3. ui[n].activeCall # c /\ ui[n].pc # c /\ ~Replied(n, "end", c)
    BY <1>0, <2>2 DEF Unheard, Shows
  <2>4. Learns(n, c)  BY <1>1, <2>3
  <2>5. events[n] # <<>> /\ Head(events[n]) = Ev("ended", c)
    BY <1>0, <2>3, <2>4, LearnsHead
  <2>6. ~Queued(b, "offer", c)  BY <1>0, <2>2, <2>5, NoEndFirst DEF OfferedOnce
  <2>7. Queued(b, "ended", c)  BY <1>0, <2>2, <2>3, <2>4, LearnsFact
  <2>8. QED  BY <1>0, <2>2, <2>6, <2>7 DEF OfferUnsent, OfferedOnce, Offering
<1>4. ui'[n].pc # c /\ ui'[n].pending # c  BY <1>0, <1>1, NoneFact
<1>5. QED  BY <1>1, <1>2, <1>3, <1>4 DEF Alive, Opening

LEMMA RefusesNot ==
  ASSUME NEW n \in Node, NEW c, NEW a, NEW b, Moving(n, c, a, b), Rested(n, c),
         NEW m \in Node, Ends2(n, m, a, b), Refuses(n, c)
  PROVE  ~Alive(n, m, c)'
<1> SUFFICES ASSUME Alive(n, m, c)' PROVE FALSE
  OBVIOUS
<1>0. Order /\ c \in CallId /\ Between(c, a, b) /\ Unheard(a, b, c)
  BY DEF Moving, Between, Made, Tracked
<1>1. /\ ui[n].pending = c /\ ui'[n].pending = None /\ ui'[n].pc # c
      /\ ui'[n].steps[c] = "none"
  BY DEF Refuses, Rested, Opening
<1>2. Coming(n, m, c)'  BY <1>0, <1>1, NoneFact DEF Alive, Opening
<1>3. Coming(n, m, c)  BY <1>2, AliveStays
<1>4. n = b /\ (Unsent(a, c) \/ Offering(a, b, c))  BY <1>0, <1>3, ComingFacts
<1>5. QED  BY <1>0, <1>1, <1>4 DEF Unheard, Shows

-----------------------------------------------------------------------------
(* A move of an application leaves no candidate behind *)

LEMMA GatheredStays ==
  ASSUME NEW n \in Node, NEW c, NEW a, NEW b, Advancing(n, c, a, b),
         NEW m \in {a, b}, Rested(m, c), Gathered(m, c)'
  PROVE  Gathered(m, c) \/ (n = m /\ Ready(m, c))
<1>0. m \in Node /\ Moving(n, c, a, b) /\ c # NextCall
  BY DEF Advancing, Moving, Between
<1>1. CASE n # m
  <2>1. Rests(m, c)  BY <1>0, <1>1, FadesFact
  <2>2. QED  BY <2>1 DEF Gathered, Starting, Rests
<1>2. CASE n = m
  <2>1. Fields(m, c) /\ Finer(m, c)  BY <1>0, <1>2 DEF Advancing, Moving, AppStep
  <2>2. ui'[m].pc = c /\ ui'[m].steps[c] \notin {"media", "describe"}
    BY DEF Gathered, Starting
  <2>3. ui[m].pc = c  BY <2>1, <2>2 DEF Finer, Opens
  <2>4. ui[m].steps[c] # "media"  BY <2>3 DEF Rested, Opening
  <2>5. CASE ui[m].steps[c] = "describe"
    <3>1. ~Replied(m, "offer", c) /\ ~Replied(m, "answer", c)
      BY <2>5 DEF Rested, Unasked
    <3>2. Ready(m, c)
      BY <2>1, <2>2, <2>3, <2>5, <3>1 DEF Fields, GoesOn, Ready, Replied
    <3>3. QED  BY <1>2, <3>2
  <2>6. CASE ui[m].steps[c] # "describe"
    BY <2>3, <2>4, <2>6 DEF Gathered, Starting
  <2>7. QED  BY <2>5, <2>6
<1>3. QED  BY <1>1, <1>2

\* The candidate stays on its way when n itself moves,
LEMMA OwnDelivery ==
  ASSUME NEW n \in Node, NEW c, NEW a, NEW b, Advancing(n, c, a, b),
         NEW m \in Node, Ends2(n, m, a, b), Rested(n, c), Given(n),
         Delivered(n, m, c)
  PROVE  Delivered(n, m, c)'
<1>0. /\ Moving(n, c, a, b) /\ a # b /\ EngineTypes /\ app' = app
  BY DEF Advancing, Moving, Between
<1>1. n # m /\ Rests(m, c) /\ Fades(m, c) /\ Fades(n, c)
  BY <1>0, FadesFact DEF Ends2
<1> SUFFICES ASSUME Desktop(n)', Alive(n, m, c)', Gathered(m, c)'
             PROVE  OnItsWay(n, m, c)'
  BY DEF Delivered
<1>2. Desktop(n)  BY <1>0 DEF Desktop
<1>3. Alive(n, m, c)  BY <1>0, AliveStays
<1>4. Gathered(m, c)  BY <1>1 DEF Gathered, Starting, Rests
<1>5. OnItsWay(n, m, c)  BY <1>2, <1>3, <1>4 DEF Delivered
<1>6. CASE Waits(m, "ice", c) \/ OnWire(m, n, "ice", c)
  BY <1>1, <1>6 DEF OnItsWay, Rests, Fades
<1>7. IceStep(n, c)  BY <1>2 DEF Advancing
<1>8. CASE Queued(n, "ice", c)  BY <1>7, <1>8 DEF IceStep, TakesIce, OnItsWay
<1>9. CASE Holding(n, c)
  <2>1. ~Ends(n, c) /\ ~Refuses(n, c)  BY <1>0, EndsNot, RefusesNot
  <2>2. ~Restarts(n, c)
    BY <1>2 DEF Restarts, Rested, Opening, Given
  <2>3. QED  BY <1>7, <1>9, <2>1, <2>2 DEF IceStep, KeepsIce, OnItsWay
<1>10. QED  BY <1>5, <1>6, <1>8, <1>9 DEF OnItsWay

\* and when another does.
LEMMA PeerDelivery ==
  ASSUME NEW n \in Node, NEW c, NEW a, NEW b, Advancing(n, c, a, b),
         NEW q \in Node, NEW m \in Node, Ends2(q, m, a, b), Rested(m, c), n # q,
         Delivered(q, m, c)
  PROVE  Delivered(q, m, c)'
<1>0. /\ Moving(n, c, a, b) /\ m \in {a, b} /\ EngineTypes /\ app' = app /\ Finer(n, c)
      /\ Requests(n, c) /\ Elsewhere(n)
  BY DEF Advancing, Moving, Between, AppStep, Ends2
<1>1. Rests(q, c) /\ Fades(m, c) /\ Fades(q, c)
  BY <1>0, FadesFact
<1> SUFFICES ASSUME Desktop(q)', Alive(q, m, c)', Gathered(m, c)'
             PROVE  OnItsWay(q, m, c)'
  BY DEF Delivered
<1>2. Desktop(q)  BY <1>0 DEF Desktop
<1>3. CASE n = m /\ Ready(m, c)
  <2>1. Waits(m, "ice", c)'  BY <1>0, <1>3 DEF Finer, AsksMedia
  <2>2. QED  BY <2>1 DEF OnItsWay
<1>4. CASE ~(n = m /\ Ready(m, c))
  <2>1. Gathered(m, c)  BY <1>0, <1>4, GatheredStays
  <2>2. /\ Waits(m, "offer", c)' => Waits(m, "offer", c)
        /\ Waits(m, "ice", c) => Waits(m, "ice", c)'
    <3>1. CASE n = m
      BY <1>0, <1>4, <3>1, SignalsFact DEF Requests, AsksOffer, KeepsAsking
    <3>2. CASE n # m
      <4>1. Rests(m, c)  BY <1>0, <3>2, FadesFact
      <4>2. QED  BY <4>1 DEF Rests
    <3>3. QED  BY <3>1, <3>2
  <2>3. Alive(q, m, c)
    BY <1>1, <2>2 DEF Alive, Opening, Coming, Rests, Fades
  <2>4. OnItsWay(q, m, c)  BY <1>2, <2>1, <2>3 DEF Delivered
  <2>5. events'[q] = events[q]  BY <1>0 DEF Elsewhere
  <2>6. Queued(q, "ice", c) => Queued(q, "ice", c)'  BY <2>5 DEF Queued
  <2>7. Holding(q, c) => Holding(q, c)'  BY <1>1 DEF Holding, Rests
  <2>8. QED  BY <1>1, <2>2, <2>4, <2>6, <2>7 DEF OnItsWay, Fades
<1>5. QED  BY <1>3, <1>4

\* Desktop n gives its peer connection what it has, as soon as it can.
Flushes(n, c) == Given(n) /\ (Desktop(n) => ~Unflushed(n, c))

LEMMA FlushesStays ==
  ASSUME NEW n \in Node, NEW c, NEW a, NEW b, Advancing(n, c, a, b),
         Given(n) => Given(n)',
         NEW q \in {a, b}, Rested(q, c), Flushes(q, c)
  PROVE  Flushes(q, c)'
<1>0. Moving(n, c, a, b) /\ q \in Node /\ app' = app
  BY DEF Advancing, Moving, Between
<1>1. CASE n # q
  <2>1. Rests(q, c)  BY <1>0, <1>1, FadesFact
  <2>2. QED  BY <1>0, <2>1 DEF Flushes, Given, Unflushed, Starting, Desktop, Rests
<1>2. CASE n = q
  <2>1. Given(q)'  BY <1>2 DEF Flushes
  <2>2. ASSUME Desktop(q)' PROVE ~Unflushed(q, c)'
    <3>1. Desktop(q)  BY <1>0, <2>2 DEF Desktop
    <3>2. IceStep(q, c) /\ ~Unflushed(q, c)  BY <1>2, <3>1 DEF Advancing, Flushes
    <3>3. Starting(q, c) => ~Replied(q, "offer", c) /\ ~Replied(q, "answer", c)
      BY DEF Starting, Rested, Opening, Unasked
    <3>4. QED  BY <3>2, <3>3 DEF IceStep, LeavesIce
  <2>3. QED  BY <2>1, <2>2 DEF Flushes
<1>3. QED  BY <1>1, <1>2

\* What n has of the call of m.
Receiving(n, m, c) == Rested(n, c) /\ Flushes(n, c) /\ Delivered(n, m, c)
Receivings(a, b, c) == Receiving(a, b, c) /\ Receiving(b, a, c)

LEMMA AppReceives ==
  ASSUME NEW n \in Node, NEW c, NEW a, NEW b, Advancing(n, c, a, b),
         Given(n) => Given(n)', Receivings(a, b, c)
  PROVE  Receivings(a, b, c)'
<1>0. a \in Node /\ b \in Node  BY DEF Advancing, Moving, Between
<1>1. ASSUME NEW q \in Node, NEW m \in Node, Ends2(q, m, a, b),
             Receiving(q, m, c), Receiving(m, q, c)
      PROVE  Receiving(q, m, c)'
  <2>1. q \in {a, b} /\ m \in {a, b} /\ Rested(q, c) /\ Flushes(q, c) /\ Delivered(q, m, c)
        /\ Rested(m, c) /\ Given(q)
    BY <1>1 DEF Ends2, Receiving, Flushes
  <2>2. Rested(q, c)' /\ Flushes(q, c)'
    BY <2>1, RestedStays, FlushesStays DEF Advancing
  <2>3. Delivered(q, m, c)'
    <3>1. CASE n = q  BY <1>1, <2>1, <3>1, OwnDelivery
    <3>2. CASE n # q  BY <1>1, <2>1, <3>2, PeerDelivery
    <3>3. QED  BY <3>1, <3>2
  <2>4. QED  BY <2>2, <2>3 DEF Receiving
<1>2. QED  BY <1>0, <1>1 DEF Receivings, Ends2

-----------------------------------------------------------------------------
(* nor does a move of an engine *)

\* An engine hands on what it takes.
Carries(m, q, c) ==
  /\ Waits(m, "ice", c) => Waits(m, "ice", c)' \/ OnWire(m, q, "ice", c)'
  /\ OnWire(m, q, "ice", c) => OnWire(m, q, "ice", c)' \/ Queued(q, "ice", c)'
  /\ Queued(q, "ice", c) => Queued(q, "ice", c)'
Carrying(c) == \A m, q \in Node : PeerOf(m, c) = q => Carries(m, q, c)

\* Of one queue,
KeepsWire(c)   == \A m, q \in Node : OnWire(m, q, "ice", c) => OnWire(m, q, "ice", c)'
KeepsEvents(c) == \A q \in Node : Queued(q, "ice", c) => Queued(q, "ice", c)'

LEMMA KeepsFacts ==
  ASSUME EngineTypes, NEW c
  PROVE  /\ wire' = wire => KeepsWire(c)
         /\ events' = events => KeepsEvents(c)
         /\ \A n, m \in Node : \A s \in Signals, d \in CallId :
              link[n][m] = "up" /\ wire' = Sent(n, m, Sig(s, d)) => KeepsWire(c)
         /\ \A n \in Node : \A s \in EventTypes, d \in CallId :
              events' = Emitted(n, Ev(s, d)) => KeepsEvents(c)
<1>1. wire' = wire => KeepsWire(c)  BY DEF KeepsWire, OnWire
<1>2. events' = events => KeepsEvents(c)  BY DEF KeepsEvents, Queued
<1>3. ASSUME NEW n \in Node, NEW m \in Node, NEW s \in Signals, NEW d \in CallId,
             link[n][m] = "up", wire' = Sent(n, m, Sig(s, d))
      PROVE  KeepsWire(c)
  BY <1>3, SentAtoms DEF KeepsWire
<1>4. ASSUME NEW n \in Node, NEW s \in EventTypes, NEW d \in CallId,
             events' = Emitted(n, Ev(s, d))
      PROVE  KeepsEvents(c)
  BY <1>4, EmittedAtoms DEF KeepsEvents
<1>5. QED  BY <1>1, <1>2, <1>3, <1>4

\* and of a request, which leaves the candidate on the wire.
LEMMA TakenCarries ==
  ASSUME EngineTypes, Order, NEW n \in Node, NEW x \in cmds[n], Taken(n, x), NEW c,
         KeepsWire(c), KeepsEvents(c),
         x.signal = "ice" => wire' = Sent(n, PeerOf(n, x.call), Sig("ice", x.call))
  PROVE  Carrying(c)
<1>1. PICK p \in Node : p = PeerOf(n, x.call) /\ link[n][p] = "up"
  BY RequestAt
<1>2. ASSUME x.signal = "ice" PROVE OnWire(n, p, "ice", x.call)'
  <2>1. wire' = Sent(n, p, Sig("ice", x.call)) /\ "ice" \in Signals /\ x.call \in CallId
    BY <1>1, <1>2, RequestAt, SignalsFact
  <2>2. QED  BY <1>1, <2>1, SentAtoms
<1>3. ASSUME NEW m \in Node, NEW q \in Node, PeerOf(m, c) = q
      PROVE  Waits(m, "ice", c) => Waits(m, "ice", c)' \/ OnWire(m, q, "ice", c)'
  <2>1. Waits(m, "ice", c) => Waits(m, "ice", c)' \/ (m = n /\ "ice" = x.signal /\ c = x.call)
    BY TakenAtoms
  <2>2. QED  BY <1>1, <1>2, <1>3, <2>1
<1>4. QED  BY <1>3 DEF Carrying, Carries, KeepsWire, KeepsEvents

LEMMA RequestCarries ==
  ASSUME EngineTypes, Order, NEW n \in Node, NEW x \in cmds[n], NEW c,
         RefuseOffer(n, x) \/ SendOffer(n, x) \/ SendMedia(n, x) \/ SendEnd(n, x)
  PROVE  Carrying(c)
<1> DEFINE m == PeerOf(n, x.call)
<1>1. /\ x.call \in CallId /\ m \in Node /\ link[n][m] = "up" /\ Outcomes(n, m) = {TRUE}
      /\ x.signal \in Signals
  BY RequestAt
<1>2. /\ Taken(n, x)
      /\ \/ wire' = wire /\ x.signal = "offer"
         \/ wire' = Sent(n, m, Sig(x.signal, x.call))
      /\ \/ events' = events
         \/ events' = Emitted(n, Ev("ended", x.call))
  <2>1. CASE RefuseOffer(n, x)  BY <2>1 DEF RefuseOffer, Requested
  <2>2. CASE SendOffer(n, x)  BY <1>1, <2>2 DEF SendOffer, Requested
  <2>3. CASE SendMedia(n, x)  BY <1>1, <2>3 DEF SendMedia, Requested
  <2>4. CASE SendEnd(n, x)
    BY <1>1, <2>4, SigFacts DEF SendEnd, Requested, ClearCall
  <2>5. QED  BY <2>1, <2>2, <2>3, <2>4
<1>3. KeepsWire(c)  BY <1>1, <1>2, KeepsFacts
<1>4. KeepsEvents(c)
  <2>1. "ended" \in EventTypes  BY DEF EventTypes
  <2>2. QED  BY <1>1, <1>2, <2>1, KeepsFacts
<1>5. x.signal = "ice" => wire' = Sent(n, m, Sig("ice", x.call))  BY <1>2
<1>6. QED  BY <1>2, <1>3, <1>4, <1>5, TakenCarries

\* A candidate that is read becomes an event.
LEMMA ReadCarries ==
  ASSUME EngineTypes, Order, NEW n \in Node, NEW m \in Node \ {n}, NEW c \in CallId,
         NEW s \in {"answer", "ice"},
         \/ ReceiveEnd(n, m) \/ ReceiveMedia(n, m, s)
         \/ RejectOffer(n, m) \/ TestOffer(n, m)
  PROVE  Carrying(c)
<1>0. PICK k : k = Head(wire[m][n]).call  OBVIOUS
<1>1. cmds' = cmds
  BY DEF ReceiveEnd, ReceiveMedia, RejectOffer, TestOffer
<1>2. \A p \in Node : \A t : Waits(p, t, c)' <=> Waits(p, t, c)
  BY <1>1 DEF Waits
<1>3. PICK t \in {"end", "offer", s} :
        /\ Incoming(n, m, t)
        /\ wire' = Read(n, m) \/ (t = "offer" /\ wire' = Refusal(n, m, k))
        /\ events' = events \/ (t = "end" /\ events' = Emitted(n, Ev("ended", k)))
             \/ (t = s /\ events' = Emitted(n, Ev(s, k)))
        /\ t = s => events' = Emitted(n, Ev(s, k))
  <2>1. CASE ReceiveEnd(n, m)
    <3>1. /\ Incoming(n, m, "end") /\ wire' = Read(n, m)
          /\ events' = Emitted(n, Ev("ended", k))
      BY <1>0, <2>1, SigFacts DEF ReceiveEnd, ClearCall
    <3>2. s # "end"  OBVIOUS
    <3>3. QED  BY <3>1, <3>2
  <2>2. CASE ReceiveMedia(n, m, s)  BY <1>0, <2>2 DEF ReceiveMedia, Ev
  <2>3. CASE RejectOffer(n, m)
    <3>1. Incoming(n, m, "offer") /\ wire' = Refusal(n, m, k) /\ events' = events
      BY <1>0, <2>3 DEF RejectOffer
    <3>2. QED  BY <3>1
  <2>4. CASE TestOffer(n, m)
    <3>1. Incoming(n, m, "offer") /\ wire' = Read(n, m) /\ events' = events
      BY <2>4 DEF TestOffer
    <3>2. QED  BY <3>1
  <2>5. QED  BY <2>1, <2>2, <2>3, <2>4
<1>4. k \in CallId  BY <1>0, <1>3, ReadFacts
<1>5. ASSUME NEW p \in Node, NEW q \in Node, OnWire(p, q, "ice", c)
      PROVE  OnWire(p, q, "ice", c)' \/ (q = n /\ t = s /\ s = "ice" /\ c = k)
  <2>1. CASE wire' = Read(n, m)
    <3>1. wire' \in Wires  BY <1>3, <2>1, ReadFacts
    <3>2. OnWire(p, q, "ice", c) =>
            Has(wire'[p][q], Sig("ice", c)) \/ (p = m /\ q = n /\ "ice" = t /\ c = k)
      <4>1. ASSUME NEW w \in Wires, w = Read(n, m)
            PROVE  OnWire(p, q, "ice", c) =>
                     Has(w[p][q], Sig("ice", c)) \/ (p = m /\ q = n /\ "ice" = t /\ c = k)
        BY <1>3, <1>0, <4>1, ReadAtoms
      <4>2. QED  BY <2>1, <3>1, <4>1
    <3>3. QED  BY <1>3, <1>5, <3>2 DEF OnWire
  <2>2. CASE t = "offer" /\ wire' = Refusal(n, m, k)
    <3>1. OnWire(p, q, "ice", c) => \/ OnWire(p, q, "ice", c)'
                                    \/ p = m /\ q = n /\ "ice" = "offer" /\ c = k
      BY <1>3, <1>0, <2>2, RefusedWire
    <3>2. QED  BY <1>5, <3>1
  <2>3. QED  BY <1>3, <2>1, <2>2
<1>6. s \in EventTypes /\ "ended" \in EventTypes  BY DEF EventTypes
<1>7. KeepsEvents(c)  BY <1>3, <1>4, <1>6, KeepsFacts
<1>8. ASSUME t = s PROVE Queued(n, s, k)'
  BY <1>3, <1>4, <1>6, <1>8, EmittedAtoms
<1>9. QED  BY <1>2, <1>5, <1>7, <1>8 DEF Carrying, Carries, KeepsEvents

LEMMA AcceptCarries ==
  ASSUME EngineTypes, Order, NEW n \in Node, NEW m \in Node, NEW c, AcceptOffer(n, m)
  PROVE  Carrying(c)
<1>1. /\ reading[n][m] \in CallId /\ events' = Emitted(n, Ev("offer", reading[n][m]))
      /\ wire' = wire /\ cmds' = cmds
  BY DEF AcceptOffer, EngineTypes, Tables, Calls, Ev
<1>2. "offer" \in EventTypes  BY DEF EventTypes
<1>3. KeepsWire(c) /\ KeepsEvents(c)  BY <1>1, <1>2, KeepsFacts
<1>4. QED  BY <1>1, <1>3 DEF Carrying, Carries, Waits, KeepsWire, KeepsEvents

LEMMA EngineCarries ==
  ASSUME EngineTypes, Order, NEW n \in Node, EngineMoves(n), NEW c \in CallId
  PROVE  Carrying(c)
<1>1. CASE EngineWorks(n)
  <2>1. \/ \E x \in cmds[n] : \/ RefuseOffer(n, x) \/ SendOffer(n, x)
                              \/ SendMedia(n, x) \/ SendEnd(n, x)
        \/ \E m \in Node : AcceptOffer(n, m)
    BY <1>1, NoLoss DEF EngineWorks
  <2>2. QED  BY <2>1, RequestCarries, AcceptCarries
<1>2. CASE Receives(n)
  <2>1. \E m \in Node \ {n}, s \in {"answer", "ice"} :
          \/ ReceiveEnd(n, m) \/ ReceiveMedia(n, m, s)
          \/ RejectOffer(n, m) \/ TestOffer(n, m)
    BY <1>2, NoLoss DEF Receives
  <2>2. QED  BY <2>1, ReadCarries
<1>3. QED  BY <1>1, <1>2 DEF EngineMoves

LEMMA EngineComing ==
  ASSUME Order, NEW c, NEW a, NEW b, Between(c, a, b), NEW n \in Node, From(n, c),
         NEW q \in Node, NEW m \in Node, Ends2(q, m, a, b), Coming(q, m, c)'
  PROVE  Coming(q, m, c)
<1>1. c \in CallId /\ PeerOf(q, c) = m /\ PeerOf(m, c) = q
  BY DEF Between, Made, Ends2
<1>2. TableOf(q, c)  BY <1>1 DEF Order, Belongs
<1>3. /\ FromWaits(c) /\ FromWire(n, c) /\ FromQueued(n, c) /\ FromReading(n, c)
  BY DEF From
<1>4. CASE Waits(m, "offer", c)'
  BY <1>3, <1>4, SignalsFact DEF FromWaits, Coming
<1>5. CASE OnWire(m, q, "offer", c)'
  <2>1. OnWire(m, q, "offer", c) \/ Waits(m, "offer", c)
    BY <1>3, <1>5, SignalsFact DEF FromWire
  <2>2. QED  BY <2>1 DEF Coming
<1>6. CASE reading'[q][m] = c
  <2>1. reading[q][m] = c \/ OnWire(m, q, "offer", c)  BY <1>3, <1>6 DEF FromReading
  <2>2. QED  BY <2>1 DEF Coming
<1>7. CASE Queued(q, "offer", c)'
  <2>1. "offer" \in EventTypes  BY DEF EventTypes
  <2>2. Queued(q, "offer", c) \/ (q = n /\ Announced(n, "offer", c))
    BY <1>3, <1>7, <2>1 DEF FromQueued
  <2>3. Announced(n, "offer", c) => \E p \in Node : reading[n][p] = c
    BY DEF Announced
  <2>4. \A p \in Node : reading[q][p] = c => p = m  BY <1>1, <1>2 DEF TableOf
  <2>5. QED  BY <2>2, <2>3, <2>4 DEF Coming
<1>8. QED  BY <1>4, <1>5, <1>6, <1>7 DEF Coming

LEMMA EngineReceives ==
  ASSUME EngineTypes, Order, Served, NEW c, NEW a, NEW b, Between(c, a, b),
         NEW n \in Node, EngineMoves(n), Sources(n), Receivings(a, b, c)
  PROVE  Receivings(a, b, c)'
<1>0. a \in Node /\ b \in Node /\ c \in CallId /\ PeerOf(a, c) = b /\ PeerOf(b, c) = a
  BY DEF Between, Made
<1>1. From(n, c) /\ Carrying(c)  BY <1>0, EngineCarries DEF Sources
<1>2. ASSUME NEW q \in Node, NEW m \in Node, Ends2(q, m, a, b), Receiving(q, m, c)
      PROVE  Receiving(q, m, c)'
  <2>1. ui'[q] = ui[q] /\ ui'[m] = ui[m] /\ app' = app  BY DEF Served
  <2>2. Unasked(q, c) => Unasked(q, c)'
    BY <1>1, SignalsFact DEF Unasked, From, FromWaits, FromReplied
  <2>3. Rested(q, c)'
    BY <1>2, <2>1, <2>2 DEF Receiving, Rested, Opening
  <2>4. Flushes(q, c)'
    BY <1>2, <2>1 DEF Receiving, Flushes, Given, Unflushed, Starting, Desktop
  <2>5. ASSUME Desktop(q)', Alive(q, m, c)', Gathered(m, c)' PROVE OnItsWay(q, m, c)'
    <3>1. Coming(q, m, c)' => Coming(q, m, c)  BY <1>1, <1>2, EngineComing
    <3>2. Desktop(q) /\ Alive(q, m, c) /\ Gathered(m, c)
      BY <2>1, <2>5, <3>1 DEF Desktop, Alive, Opening, Gathered, Starting
    <3>3. OnItsWay(q, m, c)  BY <1>2, <3>2 DEF Receiving, Delivered
    <3>4. Carries(m, q, c)  BY <1>0, <1>1, <1>2 DEF Carrying, Ends2
    <3>5. Holding(q, c)' <=> Holding(q, c)  BY <2>1 DEF Holding
    <3>6. QED  BY <3>3, <3>4, <3>5 DEF OnItsWay, Carries
  <2>6. QED  BY <2>3, <2>4, <2>5 DEF Receiving, Delivered
<1>3. QED  BY <1>0, <1>2 DEF Receivings, Ends2

-----------------------------------------------------------------------------
(* The candidates of the only call are delivered *)

\* What a desktop has of the only call there is.
Handed     == breaks = 0 /\ astray = {} => \A c \in Made : Made = {c} =>
                Receivings(Caller(c), Callee(c), c)
Candidates == (\A n \in Node : Given(n)) /\ Handed

LEMMA BeginReceives ==
  ASSUME EngineTypes, UiTypes, Order, NEW a \in Node, NEW b \in Node \ {a},
         NEW c \in CallId \ Made, AppStep(a, c), Finer(a, c),
         Given(a)', Given(b)'
  PROVE  Receivings(a, b, c)'
<1>1. Unknown(a, c) /\ Unknown(b, c)  BY UnknownFact
<1>2. Fields(a, c) /\ Requests(a, c) /\ Notices(a, c) /\ Elsewhere(a)  BY DEF AppStep
<1>3. ui'[b] = ui[b] /\ cmds'[b] = cmds[b]  BY <1>2 DEF Elsewhere
<1>4. \A q \in Node, t \in {"offer", "answer"} :
        Replied(q, t, c)' => Replied(q, t, c)
  BY <1>2, NoticedAtoms
<1>5. Unasked(b, c)'
  BY <1>1, <1>3, <1>4, SignalsFact DEF Unknown, Unasked, Waits
<1>6. ~Ready(a, c)  BY <1>1 DEF Ready, Unknown
<1>7. Unasked(a, c)'
  BY <1>1, <1>2, <1>4, <1>6, SignalsFact DEF Unknown, Unasked, Requests, AsksOffer, AsksAnswer
<1>8. ~Queued(a, "offer", c)  BY <1>1, SignalsFact DEF Unknown
<1>9. /\ ui'[a].pending # c /\ ui'[a].activeCall # c /\ ui'[a].steps[c] # "describe"
      /\ ui'[a].pc # c
  <2>1. ~Heard(a, "offer", c)  BY <1>1, HeardFacts, SignalsFact DEF Unknown
  <2>2. ui'[a].pending # c
    BY <1>1, <1>2, <2>1, HeardFacts DEF Unknown, Fields, RingsAnew
  <2>3. ui'[a].activeCall # c /\ ui'[a].steps[c] # "describe"
    BY <1>1, <1>2, SignalsFact DEF Unknown, Fields, ShowsAnew, GoesOn
  <2>4. ui'[a].pc # c  BY <1>1, <2>3 DEF Finer, Opens, Unknown
  <2>5. QED  BY <2>2, <2>3, <2>4
<1>10. /\ ui'[b].pending # c /\ ui'[b].activeCall # c /\ ui'[b].steps[c] = "none"
       /\ ui'[b].pc # c
  BY <1>1, <1>3 DEF Unknown
<1>11. Rested(a, c)' /\ Rested(b, c)'
  BY <1>5, <1>7, <1>9, <1>10 DEF Rested, Opening
<1>12. Flushes(a, c)' /\ Flushes(b, c)'
  BY <1>9, <1>10 DEF Flushes, Unflushed
<1>13. ~Gathered(a, c)' /\ ~Gathered(b, c)'  BY <1>9, <1>10 DEF Gathered
<1>14. QED  BY <1>11, <1>12, <1>13 DEF Receivings, Receiving, Delivered

LEMMA GivenStep ==
  ASSUME EngineTypes, UiTypes, Next, NEW n \in Node, Given(n)
  PROVE  Given(n)'
<1>1. app' = app /\ ((\E q \in Node : AppMoves(q) \/ EngineMoves(q)) \/ LinkMoves)
  BY MovesFacts
<1>2. CASE ui' = ui  BY <1>1, <1>2 DEF Given, Desktop
<1>3. ASSUME NEW q \in Node, AppMoves(q) PROVE Given(n)'
  <2>1. 1 \in CallId  BY CallAssumption DEF CallId
  <2>2. CASE q = n  BY <1>1, <1>3, <2>1, <2>2, FinerFact
  <2>3. CASE q # n
    <3>1. Elsewhere(q)  BY <1>3, <2>1, AppSteps DEF AppStep
    <3>2. ui'[n] = ui[n]  BY <2>3, <3>1 DEF Elsewhere
    <3>3. QED  BY <1>1, <3>2 DEF Given, Desktop
  <2>4. QED  BY <2>2, <2>3
<1>4. QED  BY <1>1, <1>2, <1>3 DEF EngineMoves, LinkMoves

LEMMA CandidatesStep ==
  CallInv /\ Sound /\ Candidates /\ [Next]_vars => Candidates'
<1> SUFFICES ASSUME CallInv, Sound, Candidates, [Next]_vars PROVE Candidates'
  OBVIOUS
<1>1. EngineTypes /\ UiTypes  BY DEF CallInv, CallTypes, AppTypes, UiTypes
<1>2. CASE UNCHANGED vars
  <2>1. /\ ui' = ui /\ app' = app /\ party' = party /\ astray' = astray /\ breaks' = breaks
        /\ cmds' = cmds /\ replies' = replies /\ wire' = wire /\ events' = events
        /\ reading' = reading
    BY <1>2 DEF vars, engineVars
  <2>2. \A c, a, b : Receivings(a, b, c) => Receivings(a, b, c)'
    BY <2>1 DEF Receivings, Receiving, Rested, Opening, Unasked, Waits, Replied, Flushes,
       Given, Desktop, Unflushed, Starting, Delivered, Alive, Coming, OnWire, Queued,
       Gathered, OnItsWay, Holding
  <2>3. Made' = Made /\ \A c : Caller(c)' = Caller(c) /\ Callee(c)' = Callee(c)
    BY <2>1 DEF Made, Caller, Callee
  <2>4. ASSUME NEW c \in Made, NEW a, NEW b, a = Caller(c), b = Callee(c),
               Receivings(Caller(c), Callee(c), c)
        PROVE  Receivings(Caller(c), Callee(c), c)'
    <3>1. Receivings(a, b, c)'  BY <2>2, <2>4
    <3>2. a = Caller(c)' /\ b = Callee(c)'  BY <2>3, <2>4
    <3>3. QED  BY <3>1, <3>2
  <2>5. Handed'  BY <2>1, <2>3, <2>4 DEF Candidates, Handed
  <2>6. \A n \in Node : Given(n)'  BY <2>1 DEF Candidates, Given, Desktop
  <2>7. QED  BY <2>5, <2>6 DEF Candidates
<1>3. CASE Next
  <2>1. app' = app /\ ((\E n \in Node : AppMoves(n) \/ EngineMoves(n)) \/ LinkMoves)
    BY <1>1, <1>3, MovesFacts
  <2>2. \A n \in Node : Given(n)'  BY <1>1, <1>3, GivenStep DEF Candidates
  <2>3. ASSUME breaks' = 0, astray' = {}, NEW c \in Made', Made' = {c},
               NEW a, NEW b, a = Caller(c)', b = Callee(c)'
        PROVE  Receivings(a, b, c)'
    <3>1. breaks = 0  BY <1>1, <2>1, <2>3, BreaksGrow
    <3>2. astray = {}  BY <1>3, <2>3 DEF Next
    <3>3. Order /\ \A d \in Kept : Tracked(Caller(d), Callee(d), d)
      BY <3>1 DEF Sound, Order
    <3>4. c \in Kept'  BY <2>3 DEF Kept
    <3>5. Made = {c} => Receivings(Caller(c), Callee(c), c)
      BY <3>1, <3>2 DEF Candidates, Handed
    <3>6. ASSUME NEW n \in Node, AppMoves(n) PROVE Receivings(a, b, c)'
      <4>1. party' = party \/ Begins(n)  BY <3>6, AppParty
      <4>2. c \in CallId
        BY <1>1, <2>3, <3>3, <4>1, NumberedStep DEF Made
      <4>3. AppStep(n, c)  BY <1>1, <3>6, <4>2, AppSteps
      <4>4. Finer(n, c) /\ (Given(n) => Given(n)')  BY <1>1, <2>1, <3>6, <4>2, FinerFact
      <4>5. CASE /\ c \in Kept /\ ~LosesTrack(c)
                 /\ Between(c, Caller(c), Callee(c)) /\ c # NextCall
                 /\ Caller(c)' = Caller(c) /\ Callee(c)' = Callee(c)
        <5>1. Between(c, a, b) /\ Tracked(a, b, c)  BY <2>3, <3>3, <4>5
        <5>2. Moving(n, c, a, b)  BY <1>1, <2>1, <3>3, <4>3, <4>5, <5>1 DEF Moving
        <5>3. ~Begins(n)
          <6>1. Begins(n) => NextCall \in Made'
            BY <1>1, <3>3, BeginFacts DEF Order
          <6>2. QED  BY <2>3, <4>5, <6>1
        <5>4. Made = {c}
          <6>1. party' = party  BY <4>1, <5>3
          <6>2. QED  BY <2>3, <6>1, SameMade
        <5>5. Receivings(a, b, c)  BY <2>3, <3>5, <4>5, <5>4
        <5>6. Desktop(n) => IceStep(n, c)
          <6>1. ASSUME Desktop(n) PROVE Alone(n, c)
            BY <1>1, <2>3, <3>1, <3>3, <4>2, <5>3, <5>4, <6>1 DEF Alone
          <6>2. QED  BY <3>6, <6>1, IceFact
        <5>7. Advancing(n, c, a, b)  BY <4>4, <5>2, <5>6 DEF Advancing
        <5>8. QED  BY <4>4, <5>5, <5>7, AppReceives
      <4>6. CASE /\ c \in CallId \ Made /\ Begins(n)
                 /\ Caller(c)' = n /\ Callee(c)' \in Node \ {n}
        <5>1. a = n /\ b \in Node \ {n}  BY <2>3, <4>6
        <5>2. Given(a)' /\ Given(b)'  BY <2>2, <5>1
        <5>3. QED  BY <1>1, <3>3, <4>3, <4>4, <4>6, <5>1, <5>2, BeginReceives
      <4>7. QED  BY <1>1, <1>3, <3>3, <3>4, <4>1, <4>5, <4>6, KeptFacts
    <3>7. ASSUME NEW n \in Node, EngineMoves(n) PROVE Receivings(a, b, c)'
      <4>1. Sources(n)  BY <1>1, <2>1, <3>3, <3>7, EngineSteps
      <4>2. party' = party  BY <3>7, EngineParty
      <4>3. Served  BY <2>1, <3>7, <4>2 DEF Served, EngineMoves
      <4>4. Made = {c} /\ a = Caller(c) /\ b = Callee(c)
        BY <2>3, <4>2, SameMade DEF Caller, Callee
      <4>5. Between(c, a, b)  BY <3>3, <4>4, BetweenFact DEF Order
      <4>6. Receivings(a, b, c)  BY <3>5, <4>4
      <4>7. QED  BY <1>1, <3>3, <3>7, <4>1, <4>3, <4>5, <4>6, EngineReceives
    <3>8. ~LinkMoves  BY <2>3, <3>1, <3>3, NoLinkMoves
    <3>9. QED  BY <2>1, <3>6, <3>7, <3>8
  <2>4. Handed'
    <3>1. ASSUME breaks' = 0, astray' = {}, NEW c \in Made', Made' = {c}
          PROVE  Receivings(Caller(c), Callee(c), c)'
      BY <2>3, <3>1
    <3>2. QED  BY <3>1 DEF Handed
  <2>5. QED  BY <2>2, <2>4 DEF Candidates
<1>4. QED  BY <1>2, <1>3

LEMMA CandidatesInit == Init => Candidates
<1> SUFFICES ASSUME Init PROVE Candidates
  OBVIOUS
<1>1. ui = [n \in Node |-> Idle] /\ party = [c \in CallId |-> <<>>]
  BY DEF Init, EngineInit, AppInit
<1>2. Made = {}  BY <1>1 DEF Made
<1>3. \A n \in Node : ui[n].ice = {}  BY <1>1 DEF Idle
<1>4. QED  BY <1>2, <1>3 DEF Candidates, Handed, Given

LEMMA FirstCall ==
  ASSUME Numbered, Cardinality(Made) = 1
  PROVE  \E c \in CallId : Made = {c}
<1>1. PICK k \in Nat : Made = 1 .. k  BY DEF Numbered
<1>2. Cardinality(1 .. k) = IF 1 > k THEN 0 ELSE k - 1 + 1  BY FS_Interval
<1>3. k = 1  BY <1>1, <1>2
<1>4. Made = {1}  BY <1>1, <1>3
<1>5. QED  BY <1>4 DEF Made

LEMMA CandidatesFollow == CallInv /\ Sound /\ Candidates => CandidatesArrive
<1> SUFFICES ASSUME CallInv, Sound, Candidates, Quiet, breaks = 0, astray = {},
                    Cardinality(Made) = 1,
                    NEW n \in Node, Desktop(n), Joined(n)
             PROVE  ui[n].pc \in ui[n].ice
  BY DEF CandidatesArrive
<1>1. EngineTypes /\ UiTypes  BY DEF CallInv, CallTypes, AppTypes, UiTypes
<1>2. Order  BY DEF Sound, Order
<1>3. PICK c \in CallId : Made = {c}  BY <1>2, FirstCall DEF Order
<1>4. ui[n].pc = c /\ ui[n].remote = c /\ ui[PeerOf(n, c)].pc = c
  <2>1. ui[n].pc \in {None, c}  BY <1>1, <1>2, <1>3, OnlyFact DEF Only
  <2>2. QED  BY <2>1 DEF Joined
<1>5. Receivings(Caller(c), Callee(c), c) /\ Between(c, Caller(c), Callee(c))
  BY <1>2, <1>3, BetweenFact DEF Candidates, Handed, Order
<1>6. InCall(n, c)  BY <1>2, <1>4 DEF Order, Belongs, UiOf
<1>7. PICK m \in Node : m = PeerOf(n, c) /\ Receiving(n, m, c)
  BY <1>5, <1>6 DEF InCall, Between, Receivings
<1>8. /\ \A q \in Node : cmds[q] = {} /\ events[q] = <<>> /\ ui[q].steps[c] = "none"
      /\ wire[m][n] = <<>>
  BY DEF Quiet, Busy
<1>9. /\ ~Starting(n, c) /\ ~Starting(m, c)
      /\ ~Waits(m, "ice", c) /\ ~OnWire(m, n, "ice", c) /\ ~Queued(n, "ice", c)
  BY <1>8 DEF Starting, Waits, OnWire, Queued, Has
<1>10. Alive(n, m, c) /\ Gathered(m, c)  BY <1>4, <1>7, <1>9 DEF Alive, Gathered
<1>11. Holding(n, c)
  BY <1>7, <1>9, <1>10 DEF Receiving, Delivered, OnItsWay
<1>12. c \notin ui[n].early
  BY <1>4, <1>7, <1>9 DEF Receiving, Flushes, Unflushed
<1>13. QED  BY <1>4, <1>11, <1>12 DEF Holding

\* The first call of two devices leaves no desktop without the candidates of
\* its peer: however the candidate, the offer, the answer, the user and the
\* microphone race, it is given to the peer connection once both descriptions
\* are there.
THEOREM CandidatesDelivered == Spec => []CandidatesArrive
<1>1. Init => CallInv /\ Sound /\ Candidates  BY CallInit, SoundInit, CandidatesInit
<1>2. CallInv /\ Sound /\ Candidates /\ [Next]_vars => (CallInv /\ Sound /\ Candidates)'
  BY CallStep, SoundStep, CandidatesStep
<1>3. CallInv /\ Sound /\ Candidates => CandidatesArrive  BY CandidatesFollow
<1>4. QED  BY <1>1, <1>2, <1>3, PTL DEF Spec

-----------------------------------------------------------------------------
(* Company in a call: what a move of an application does for it *)

\* r answers the offer or the answer of c that n has asked its engine for.
IsAnswer(r, c) == r.signal \in {"offer", "answer"} /\ r.call = c

\* Why c is shown, how its start ends, what is asked for then, and what an
\* end that n hears of, or its engine's answer to one, does.
ShowsFor(n, c) == ui'[n].activeCall = c =>
  \/ ui[n].activeCall = c
  \/ Desktop(n) /\ \E r \in replies[n] : IsAnswer(r, c) /\ r.ok
  \/ ~Desktop(n) /\ ui[n].steps[c] = "notify"
  \/ ~Desktop(n) /\ Heard(n, "answer", c)
GivesBack(n, c) == ui[n].steps[c] = "sending" /\ ui'[n].steps[c] # "sending" =>
  \/ ui[n].pending = c \/ c = NextCall
  \/ \E r \in replies[n] : IsAnswer(r, c) /\ replies'[n] = replies[n] \ {r}
TakesBack(n, c) == \A r \in replies[n] \ replies'[n] : IsAnswer(r, c) =>
  /\ ui'[n].steps[c] = "none"
  /\ ui'[n].activeCall = c => ui[n].activeCall = c \/ r.ok
SendsOut(n, c) == Ready(n, c) =>
  /\ Callee(c) = n => Waits(n, "answer", c)'
  /\ Callee(c) # n => Waits(n, "offer", c)'
  /\ Desktop(n) => ui'[n].steps[c] = "sending"
HearsOver(n, c) ==
  events[n] # <<>> /\ events'[n] = Tail(events[n]) /\ Head(events[n]) = Ev("ended", c) =>
    \/ Reset(ui[n], ui'[n])
    \/ Same(ui[n], ui'[n]) /\ ui[n].activeCall \notin {None, c}
EndsFor(n) == \A r \in replies[n] \ replies'[n] :
                r.signal = "end" /\ r.ok => Reset(ui[n], ui'[n])
AsksAlone(n, c) == ~Desktop(n) /\ breaks' = breaks =>
  /\ replies'[n] = replies[n]
  /\ Waits(n, "end", c)' =>
       \/ Waits(n, "end", c)
       \/ Reset(ui[n], ui'[n]) /\ ui[n].activeCall = c
       \/ /\ ui[n].pending = c /\ ui'[n].pending = None
          /\ ui'[n].activeCall = ui[n].activeCall /\ ui'[n].steps = ui[n].steps
       \/ Heard(n, "offer", c) /\ Same(ui[n], ui'[n])
Firm(n, c) == /\ ShowsFor(n, c) /\ GivesBack(n, c) /\ TakesBack(n, c) /\ SendsOut(n, c)
              /\ HearsOver(n, c) /\ EndsFor(n) /\ AsksAlone(n, c)

LEMMA TailShorter ==
  ASSUME EngineTypes, NEW n \in Node, events[n] # <<>>, events' = events
  PROVE  events'[n] # Tail(events[n])
<1>1. PICK q : q = events[n]  OBVIOUS
<1>2. q \in Seq(Event) /\ q # <<>>  BY <1>1 DEF EngineTypes
<1>3. Len(Tail(q)) = Len(q) - 1 /\ Len(q) \in Nat \ {0}  BY <1>2, TailFacts
<1>4. Tail(q) # q
  <2>1. ASSUME Tail(q) = q PROVE FALSE
    <3>1. Len(Tail(q)) = Len(q)  BY <2>1
    <3>2. QED  BY <1>3, <3>1
  <2>2. QED  BY <2>1
<1>5. QED  BY <1>1, <1>4

\* A move that hears nothing, and one that asks for nothing.
LEMMA SilentFirm ==
  ASSUME EngineTypes, NEW n \in Node, NEW c, Silent
  PROVE  HearsOver(n, c) /\ TakesBack(n, c) /\ EndsFor(n) /\ replies'[n] = replies[n]
<1>1. events' = events /\ replies' = replies  BY DEF Silent
<1>2. HearsOver(n, c)  BY <1>1, TailShorter DEF HearsOver
<1>3. QED  BY <1>1, <1>2 DEF EndsFor, TakesBack

LEMMA MuteFirm ==
  ASSUME EngineTypes, NEW n \in Node, NEW c, Turn(n, {}), Desktop(n) \/ replies'[n] = replies[n]
  PROVE  AsksAlone(n, c)
<1>1. Waits(n, "end", c)' => Waits(n, "end", c)  BY TurnAtoms
<1>2. QED  BY <1>1 DEF AsksAlone

\* A call is closed, or nothing happens to it.
LEMMA ResetFirm ==
  ASSUME UiTypes, NEW n \in Node, NEW c \in CallId,
         Reset(ui[n], ui'[n]) \/ Same(ui[n], ui'[n])
  PROVE  ShowsFor(n, c) /\ GivesBack(n, c) /\ SendsOut(n, c)
<1>1. ui'[n].steps = ui[n].steps /\ ui'[n].activeCall \in {ui[n].activeCall, None}
  BY DEF Reset, Closed, Same, SameCalls
<1>2. QED  BY <1>1, NoneFact DEF ShowsFor, GivesBack, SendsOut, Ready

\* A step begins or ends, and nothing is shown.
LEMMA StepFirm ==
  ASSUME UiTypes, NEW n \in Node, NEW c \in CallId, NEW d, NEW s,
         Step(ui[n], ui'[n], d, s), s \in {"media", "describe", "none"},
         ui[n].steps[c] = "sending" => d # c \/ d = NextCall \/ d = ui[n].pending,
         ui'[n].activeCall \in {ui[n].activeCall, None}
  PROVE  ShowsFor(n, c) /\ GivesBack(n, c) /\ SendsOut(n, c)
<1>1. ui'[n].steps[c] = IF c = d THEN s ELSE ui[n].steps[c]  BY StepFact
<1>2. ~Ready(n, c)  BY <1>1 DEF Ready
<1>3. QED  BY <1>1, <1>2, NoneFact DEF ShowsFor, GivesBack, SendsOut

LEMMA StartsFirm ==
  ASSUME EngineTypes, UiTypes, NEW n \in Node, NEW c \in CallId,
         Dials(n) \/ Picks(n) \/ Declines(n)
  PROVE  Firm(n, c)
<1>1. CASE Dials(n)
  <2>1. /\ Step(ui[n], ui'[n], NextCall, "media") /\ Silent /\ Turn(n, {})
        /\ ui'[n].activeCall \in {ui[n].activeCall, None}
    BY <1>1 DEF Dials, SameCalls, Closed
  <2>2. ShowsFor(n, c) /\ GivesBack(n, c) /\ SendsOut(n, c)  BY <2>1, StepFirm
  <2>3. QED  BY <2>1, <2>2, SilentFirm, MuteFirm DEF Firm
<1>2. CASE Picks(n)
  <2>1. /\ Step(ui[n], ui'[n], ui[n].pending, "media") /\ Silent /\ Turn(n, {})
        /\ ui'[n].activeCall = ui[n].activeCall
    BY <1>2 DEF Picks
  <2>2. ShowsFor(n, c) /\ GivesBack(n, c) /\ SendsOut(n, c)  BY <2>1, StepFirm
  <2>3. QED  BY <2>1, <2>2, SilentFirm, MuteFirm DEF Firm
<1>3. CASE Declines(n)
  <2>1. /\ ui'[n].steps = ui[n].steps /\ ui'[n].activeCall = ui[n].activeCall
        /\ Turn(n, {Ask("end", ui[n].pending)}) /\ Silent /\ ui'[n].pending = None
    BY <1>3 DEF Declines
  <2>2. ShowsFor(n, c) /\ GivesBack(n, c) /\ SendsOut(n, c)
    BY <2>1 DEF ShowsFor, GivesBack, SendsOut, Ready
  <2>3. Waits(n, "end", c)' => Waits(n, "end", c) \/ ui[n].pending = c
    BY <2>1, TurnAtoms DEF Ask
  <2>4. HearsOver(n, c) /\ TakesBack(n, c) /\ EndsFor(n) /\ replies'[n] = replies[n]
    BY <2>1, SilentFirm
  <2>5. AsksAlone(n, c)  BY <2>1, <2>3, <2>4 DEF AsksAlone
  <2>6. QED  BY <2>2, <2>4, <2>5 DEF Firm
<1>4. QED  BY <1>1, <1>2, <1>3

LEMMA ClosesFirm ==
  ASSUME EngineTypes, UiTypes, NEW n \in Node, NEW c \in CallId,
         AsksToEnd(n) \/ Leaves(n) \/ HangsUp(n) \/ CutsOff(n) \/ Closes(n)
  PROVE  Firm(n, c)
<1>1. Silent /\ (Reset(ui[n], ui'[n]) \/ Same(ui[n], ui'[n]))
  BY DEF AsksToEnd, Leaves, HangsUp, CutsOff, Closes
<1>2. ShowsFor(n, c) /\ GivesBack(n, c) /\ SendsOut(n, c)  BY <1>1, ResetFirm
<1>3. HearsOver(n, c) /\ TakesBack(n, c) /\ EndsFor(n) /\ replies'[n] = replies[n]
    BY <1>1, SilentFirm
<1>4. AsksAlone(n, c)
  <2>1. CASE Leaves(n)
    <3>1. breaks \in Nat /\ breaks' = breaks + 1
      BY <2>1, CallAssumption DEF Leaves, EngineTypes
    <3>2. QED  BY <3>1 DEF AsksAlone
  <2>2. CASE HangsUp(n)
    <3>1. Turn(n, {Ask("end", ui[n].activeCall)}) /\ Reset(ui[n], ui'[n])
      BY <2>2 DEF HangsUp
    <3>2. Waits(n, "end", c)' => Waits(n, "end", c) \/ ui[n].activeCall = c
      BY <3>1, TurnAtoms DEF Ask
    <3>3. QED  BY <1>3, <3>1, <3>2 DEF AsksAlone
  <2>3. CASE AsksToEnd(n) \/ CutsOff(n) \/ Closes(n)
    BY <2>3 DEF AsksAlone, AsksToEnd, CutsOff, Closes
  <2>4. QED  BY <2>1, <2>2, <2>3
<1>5. QED  BY <1>2, <1>3, <1>4 DEF Firm

LEMMA CallsFirm ==
  ASSUME EngineTypes, UiTypes, NEW n \in Node, NEW c \in CallId, NEW d,
         GetsMedia(n, d) \/ Stumbles(n, d) \/ Notifies(n, d)
  PROVE  Firm(n, c)
<1>1. Silent /\ Turn(n, {})  BY DEF GetsMedia, Stumbles, Notifies
<1>2. CASE GetsMedia(n, d) \/ Stumbles(n, d)
  <2>1. /\ ui'[n].activeCall = ui[n].activeCall /\ ui[n].steps[d] \in {"media", "describe"}
        /\ \E s \in {"describe", "none"} : Step(ui[n], ui'[n], d, s)
    BY <1>2 DEF GetsMedia, Stumbles, SameCalls
  <2>2. ShowsFor(n, c) /\ GivesBack(n, c) /\ SendsOut(n, c)  BY <2>1, StepFirm
  <2>3. QED  BY <1>1, <2>2, SilentFirm, MuteFirm DEF Firm
<1>3. CASE Notifies(n, d)
  <2>1. /\ ~Desktop(n) /\ ui[n].steps[d] = "notify" /\ ui'[n].activeCall = d
        /\ Step(ui[n], ui'[n], d, "none")
    BY <1>3 DEF Notifies
  <2>2. ui'[n].steps[c] = IF c = d THEN "none" ELSE ui[n].steps[c]  BY <2>1, StepFact
  <2>3. ShowsFor(n, c) /\ GivesBack(n, c) /\ SendsOut(n, c)
    BY <2>1, <2>2 DEF ShowsFor, GivesBack, SendsOut, Ready
  <2>4. QED  BY <1>1, <2>3, SilentFirm, MuteFirm DEF Firm
<1>4. QED  BY <1>2, <1>3

LEMMA DescribesFirm ==
  ASSUME EngineTypes, UiTypes, NEW n \in Node, NEW c \in CallId, NEW d, Describes(n, d)
  PROVE  Firm(n, c)
<1>1. /\ Turn(n, Asked(n, d)) /\ Silent /\ ui'[n].activeCall = ui[n].activeCall
      /\ ui[n].steps[d] = "describe"
      /\ Step(ui[n], ui'[n], d, IF Desktop(n) THEN "sending" ELSE "notify")
  BY DEF Describes
<1>2. ui'[n].steps[c] = IF c = d THEN (IF Desktop(n) THEN "sending" ELSE "notify")
                        ELSE ui[n].steps[c]
  BY <1>1, StepFact
<1>3. SendsOut(n, c)
  <2> SUFFICES ASSUME Ready(n, c)
               PROVE  /\ Callee(c) = n => Waits(n, "answer", c)'
                      /\ Callee(c) # n => Waits(n, "offer", c)'
                      /\ Desktop(n) => ui'[n].steps[c] = "sending"
    BY DEF SendsOut
  <2>1. c = d  BY <1>2 DEF Ready
  <2>2. PICK x \in Asked(n, d) : /\ x.signal = IF Callee(c) = n THEN "answer" ELSE "offer"
                                 /\ x.call = c
    BY <2>1 DEF Asked
  <2>3. \A t : (\E y \in Asked(n, d) : y.signal = t /\ y.call = c) => Waits(n, t, c)'
    BY <1>1, TurnAtoms
  <2>4. /\ Callee(c) = n => Waits(n, "answer", c)'
        /\ Callee(c) # n => Waits(n, "offer", c)'
    BY <2>2, <2>3
  <2>5. QED  BY <1>2, <2>1, <2>4
<1>4. ShowsFor(n, c) /\ GivesBack(n, c)  BY <1>1, <1>2 DEF ShowsFor, GivesBack
<1>5. HearsOver(n, c) /\ TakesBack(n, c) /\ EndsFor(n) /\ replies'[n] = replies[n]
    BY <1>1, SilentFirm
<1>6. Waits(n, "end", c)' => Waits(n, "end", c)
  <2>1. \A x \in Asked(n, d) : x.signal # "end"  BY DEF Asked, Ask
  <2>2. QED  BY <1>1, <2>1, TurnAtoms
<1>7. AsksAlone(n, c)  BY <1>5, <1>6 DEF AsksAlone
<1>8. QED  BY <1>3, <1>4, <1>5, <1>7 DEF Firm

LEMMA LearnedFirm ==
  ASSUME EngineTypes, UiTypes, NEW n \in Node, NEW c \in CallId, NEW r \in replies[n],
         Learned(n, r)
  PROVE  Firm(n, c)
<1>1. /\ Desktop(n) /\ Turn(n, {}) /\ events' = events /\ replies'[n] = replies[n] \ {r}
  BY DEF Learned, EngineTypes
<1>2. HearsOver(n, c)  BY <1>1, TailShorter DEF HearsOver
<1>3. EndsFor(n)  BY <1>1 DEF Learned, EndsFor
<1>4. AsksAlone(n, c)  BY <1>1 DEF AsksAlone
<1>5. CASE r.signal = "end" /\ (Reset(ui[n], ui'[n]) \/ Same(ui[n], ui'[n]))
  <2>1. TakesBack(n, c)  BY <1>1, <1>5 DEF TakesBack, IsAnswer
  <2>2. QED  BY <1>2, <1>3, <1>4, <1>5, <2>1, ResetFirm DEF Firm
<1>6. CASE /\ r.signal \in {"offer", "answer"}
           /\ ui'[n].activeCall = IF r.ok THEN r.call ELSE ui[n].activeCall
           /\ Step(ui[n], ui'[n], r.call, "none")
  <2>1. ui'[n].steps[c] = IF c = r.call THEN "none" ELSE ui[n].steps[c]  BY <1>6, StepFact
  <2>2. ~Ready(n, c)  BY <2>1 DEF Ready
  <2>3. ShowsFor(n, c)  BY <1>1, <1>6 DEF ShowsFor, IsAnswer
  <2>4. GivesBack(n, c)  BY <1>1, <1>6, <2>1 DEF GivesBack, IsAnswer
  <2>5. TakesBack(n, c)  BY <1>1, <1>6, <2>1 DEF TakesBack, IsAnswer
  <2>6. QED  BY <1>2, <1>3, <1>4, <2>2, <2>3, <2>4, <2>5 DEF Firm, SendsOut
<1>7. QED  BY <1>5, <1>6 DEF Learned

LEMMA HearsFirm ==
  ASSUME EngineTypes, UiTypes, NEW n \in Node, NEW c \in CallId,
         \/ Rings(n) \/ HearsAnswer(n) \/ HearsIce(n) \/ HearsEnd(n) \/ HearsLoss(n)
  PROVE  Firm(n, c)
<1>1. Hearing(n)  BY DEF Rings, HearsAnswer, HearsIce, HearsEnd, HearsLoss
<1>2. replies'[n] = replies[n] /\ EndsFor(n) /\ TakesBack(n, c)
  BY <1>1 DEF Hearing, EndsFor, TakesBack
<1>3. CASE HearsEnd(n)
  <2>1. Turn(n, {}) /\ (Reset(ui[n], ui'[n]) \/ Same(ui[n], ui'[n]))  BY <1>3 DEF HearsEnd
  <2>2. ASSUME Head(events[n]) = Ev("ended", c)
        PROVE  \/ Reset(ui[n], ui'[n])
               \/ Same(ui[n], ui'[n]) /\ ui[n].activeCall \notin {None, c}
    <3>1. Head(events[n]).call = c  BY <2>2 DEF Ev
    <3>2. QED  BY <1>3, <3>1 DEF HearsEnd
  <2>3. QED  BY <1>2, <2>1, <2>2, ResetFirm, MuteFirm DEF Firm, HearsOver
<1>4. CASE HearsLoss(n)
  <2>1. /\ Turn(n, {}) /\ (Reset(ui[n], ui'[n]) \/ Same(ui[n], ui'[n]))
        /\ Head(events[n]).type = "peer_disconnected"
    BY <1>4 DEF HearsLoss, Handles
  <2>2. HearsOver(n, c)  BY <2>1 DEF HearsOver, Ev
  <2>3. QED  BY <1>2, <2>1, <2>2, ResetFirm, MuteFirm DEF Firm
<1>5. CASE Rings(n) \/ HearsAnswer(n) \/ HearsIce(n)
  <2>1. /\ ui'[n].steps = ui[n].steps
        /\ Head(events[n]).type \in {"offer", "answer", "ice"}
    BY <1>5 DEF Rings, HearsAnswer, HearsIce, Same, Handles
  <2>2. HearsOver(n, c) /\ GivesBack(n, c) /\ SendsOut(n, c)
    BY <2>1 DEF HearsOver, Ev, GivesBack, SendsOut, Ready
  <2>3. ShowsFor(n, c)
    <3>1. CASE Rings(n) \/ HearsIce(n) \/ Desktop(n)
      BY <1>5, <3>1 DEF Rings, HearsIce, HearsAnswer, Same, SameCalls, ShowsFor
    <3>2. CASE HearsAnswer(n)
      <4>1. "answer" \in EventTypes  BY SignalsFact
      <4>2. events[n] # <<>> /\ Head(events[n]) = Ev("answer", Head(events[n]).call)
        BY <3>2, <4>1, HandlesEvent DEF HearsAnswer
      <4>3. ui'[n].activeCall = c => ui[n].activeCall = c \/ (~Desktop(n) /\ Head(events[n]).call = c)
        BY <3>2 DEF HearsAnswer
      <4>4. Head(events[n]).call = c => Heard(n, "answer", c)
        BY <1>1, <4>2 DEF Heard, Hearing
      <4>5. QED  BY <4>3, <4>4 DEF ShowsFor
    <3>3. QED  BY <1>5, <3>1, <3>2
  <2>4. AsksAlone(n, c)
    <3>1. CASE Turn(n, {})  BY <1>2, <3>1, MuteFirm
    <3>2. CASE Rings(n) /\ ~Turn(n, {})
      <4>1. /\ Turn(n, {Ask("end", Head(events[n]).call)}) /\ Same(ui[n], ui'[n])
            /\ Handles(n, "offer")
        BY <3>2 DEF Rings
      <4>2. "offer" \in EventTypes  BY SignalsFact
      <4>3. events[n] # <<>> /\ Head(events[n]) = Ev("offer", Head(events[n]).call)
        BY <4>1, <4>2, HandlesEvent
      <4>4. Waits(n, "end", c)' => Waits(n, "end", c) \/ Head(events[n]).call = c
        BY <4>1, TurnAtoms DEF Ask
      <4>5. Head(events[n]).call = c => Heard(n, "offer", c)
        BY <1>1, <4>3 DEF Heard, Hearing
      <4>6. QED  BY <1>2, <4>1, <4>4, <4>5 DEF AsksAlone
    <3>3. QED  BY <1>5, <3>1, <3>2 DEF HearsAnswer, HearsIce
  <2>5. QED  BY <1>2, <2>2, <2>3, <2>4 DEF Firm
<1>6. QED  BY <1>3, <1>4, <1>5

LEMMA FirmFact ==
  ASSUME EngineTypes, UiTypes, NEW n \in Node, AppMoves(n), NEW c \in CallId
  PROVE  Firm(n, c)
BY StartsFirm, ClosesFirm, CallsFirm, DescribesFirm, LearnedFirm, HearsFirm DEF AppMoves

-----------------------------------------------------------------------------
(* Who is in a call, who has left it, and what is on the way meanwhile *)

On(n, c) == Shows(n, c) \/ Prepares(n, c)
\* n asks to end the call, or is to hear that it is over.
Ending(n, m, c) == \/ Waits(n, "end", c) \/ Replied(n, "end", c)
                   \/ Queued(n, "ended", c) \/ OnWire(m, n, "end", c)
\* What m hears of the end, the engine of n having sent it or failed to offer.
Parted(m, n, c) == \/ OnWire(n, m, "end", c) \/ Queued(m, "ended", c)
                   \/ Replied(m, "end", c) \/ Failed(m, c)
OutOf(n, m, c)  == ~On(n, c) /\ ~Coming(n, m, c)
\* The call of n is still to reach m.
Reaching(n, m, c) == (n = Caller(c) /\ Starting(n, c)) \/ Coming(m, n, c)

\* What n asks its engine for, and its answer, belong to the step n is at.
Settled(n, c) == ui[n].steps[c] \in {"describe", "sending", "notify"} => ui[n].pc = c
Asks(n, c)    == \A s \in {"offer", "answer"} :
  /\ Replied(n, s, c) => Desktop(n) /\ ui[n].steps[c] = "sending"
  /\ Waits(n, s, c) /\ Desktop(n) => ui[n].steps[c] = "sending" /\ ~Replied(n, s, c)
Alike(n, c)   == \A r, s \in replies[n] : IsAnswer(r, c) /\ IsAnswer(s, c) => r = s
Turned(n, c)  == Failed(n, c) => ui[n].activeCall # c
Plain(n, c)   == ~Desktop(n) => /\ ui[n].pc = c => On(n, c)
                                /\ Waits(n, "end", c) => ~On(n, c)
Upright(n, c) == /\ Rested(n, c) /\ Settled(n, c) /\ Asks(n, c)
                 /\ Alike(n, c) /\ Turned(n, c) /\ Plain(n, c)

\* When m is to hear that the call is over, n is out of it or will be.
Parting(n, m, c) == Parted(m, n, c) => OutOf(n, m, c) \/ Ending(n, m, c)
\* Whoever is in a call has company, or will, or will be out.
Company(n, m, c) == On(n, c) \/ Coming(n, m, c) =>
  \/ On(m, c) \/ Ending(n, m, c) \/ Waits(m, "end", c)
  \/ Reaching(n, m, c) \/ Failed(n, c)
Mate(n, m, c)  == Upright(n, c) /\ Parting(n, m, c) /\ Company(n, m, c)
Mates(a, b, c) == Mate(a, b, c) /\ Mate(b, a, c)

\* n's application moves.
Going(n, c, a, b) == /\ Moving(n, c, a, b) /\ Finer(n, c) /\ Firm(n, c)
                     /\ breaks' = breaks /\ breaks = 0
                     /\ Caller(c)' = Caller(c) /\ Callee(c)' = Callee(c)

LEMMA GoingFacts ==
  ASSUME NEW n \in Node, NEW c, NEW a, NEW b, Going(n, c, a, b),
         NEW q, NEW m, Ends2(q, m, a, b)
  PROVE  /\ Moving(n, c, a, b) /\ EngineTypes /\ UiTypes /\ Order /\ Linked
         /\ a \in Node /\ b \in Node /\ a # b /\ c \in CallId /\ c # NextCall
         /\ a = Caller(c) /\ b = Callee(c) /\ app' = app /\ ~LosesTrack(c)
         /\ q \in Node /\ m \in Node /\ q # m /\ Between(c, a, b)
         /\ RolesOf(q, c, a, b) /\ RolesOf(m, c, a, b)
         /\ Fades(q, c) /\ (q # n => Rests(q, c))
         /\ StartsFresh(a, c) /\ OfferUnsent(a, b, c) /\ Unheard(a, b, c)
         /\ OfferedOnce(a, b, c) /\ Described(a, c) /\ Described(b, c)
<1>1. /\ Moving(n, c, a, b) /\ EngineTypes /\ UiTypes /\ Order /\ Linked
      /\ a \in Node /\ b \in Node /\ a # b /\ c \in CallId /\ c # NextCall
      /\ a = Caller(c) /\ b = Callee(c) /\ app' = app /\ ~LosesTrack(c) /\ Between(c, a, b)
      /\ StartsFresh(a, c) /\ OfferUnsent(a, b, c) /\ Unheard(a, b, c)
      /\ OfferedOnce(a, b, c) /\ Described(a, c) /\ Described(b, c)
  BY DEF Going, Moving, Between, Made, Order, Tracked, Side
<1>2. q \in Node /\ m \in Node /\ q # m  BY <1>1 DEF Ends2
<1>3. RolesOf(q, c, a, b) /\ RolesOf(m, c, a, b)  BY <1>1, <1>2, RolesFact
<1>4. Fades(q, c) /\ (q # n => Rests(q, c))  BY <1>1, <1>2, FadesFact
<1>5. QED  BY <1>1, <1>2, <1>3, <1>4

\* Nobody comes into a call but by its offer,
LEMMA OnAnew ==
  ASSUME NEW n \in Node, NEW c, NEW a, NEW b, Going(n, c, a, b),
         NEW q, NEW m, Ends2(q, m, a, b), Upright(q, c), On(q, c)'
  PROVE  On(q, c) \/ (q = n /\ Queued(q, "offer", c))
<1>0. /\ EngineTypes /\ app' = app /\ ~LosesTrack(c) /\ c # NextCall /\ q \in Node
      /\ (q # n => Rests(q, c)) /\ Firm(n, c)
  BY GoingFacts DEF Going
<1>1. CASE q # n
  BY <1>0, <1>1 DEF On, Rests, Shows, Prepares
<1>2. CASE q = n
  <2>1. Fields(n, c)  BY DEF Going, Moving, AppStep
  <2>2. CASE ui'[n].pending = c
    BY <1>0, <1>2, <2>1, <2>2, HeardFacts DEF Fields, RingsAnew, On, Shows
  <2>3. CASE ui'[n].activeCall = c
    <3>1. CASE ui[n].activeCall = c  BY <1>2, <3>1 DEF On, Shows
    <3>2. ASSUME NEW r \in replies[n], IsAnswer(r, c) PROVE On(n, c)
      <4>1. Replied(n, r.signal, c) /\ r.signal \in {"offer", "answer"}
        BY <3>2 DEF Replied, IsAnswer
      <4>2. ui[n].steps[c] = "sending"  BY <1>2, <4>1 DEF Upright, Asks
      <4>3. QED  BY <4>2 DEF On, Prepares
    <3>3. CASE ui[n].steps[c] = "notify"  BY <1>2, <3>3 DEF On, Prepares
    <3>4. CASE ~Desktop(n) /\ Heard(n, "answer", c)
      <4>1. CASE ui[n].pc = c  BY <1>2, <3>4, <4>1 DEF Upright, Plain
      <4>2. CASE ui[n].pc # c
        <5>1. /\ events[n] # <<>> /\ Head(events[n]).type = "answer"
              /\ Head(events[n]).call = c /\ events'[n] = Tail(events[n])
          BY <1>0, <3>4 DEF Heard, Ev, EngineTypes
        <5>2. Misdirects(n, c)  BY <3>4, <4>2, <5>1 DEF Misdirects, Handles
        <5>3. QED  BY <1>0, <5>2 DEF LosesTrack
      <4>3. QED  BY <4>1, <4>2
    <3>5. QED  BY <1>0, <1>2, <2>3, <3>1, <3>2, <3>3, <3>4 DEF Firm, ShowsFor
  <2>4. CASE ui'[n].steps[c] # "none"
    <3>1. ui[n].steps[c] # "none" \/ ui[n].pending = c
      BY <1>0, <2>1, <2>4 DEF Fields, GoesOn
    <3>2. QED  BY <1>2, <3>1 DEF On, Shows, Prepares
  <2>5. (ui'[q].pending = c \/ ui'[q].activeCall = c \/ ui'[q].steps[c] # "none")
    BY DEF On, Shows, Prepares
  <2>6. QED  BY <1>2, <2>2, <2>3, <2>4, <2>5
<1>3. QED  BY <1>1, <1>2

\* and an offer comes only from a caller that starts.
LEMMA ComingAnew ==
  ASSUME NEW n \in Node, NEW c, NEW a, NEW b, Going(n, c, a, b),
         NEW q, NEW m, Ends2(q, m, a, b), Coming(q, m, c)'
  PROVE  \/ Coming(q, m, c)
         \/ n = m /\ m = a /\ Starting(a, c) /\ Ready(a, c)
<1>0. /\ Moving(n, c, a, b) /\ q \in Node /\ m \in Node /\ RolesOf(m, c, a, b) /\ a # b
      /\ b = Callee(c)
  BY GoingFacts
<1>1. Fades(q, c) /\ Fades(m, c) /\ (m # n => Rests(m, c))
  BY <1>0, FadesFact
<1>2. CASE OnWire(m, q, "offer", c)' \/ reading'[q][m] = c \/ Queued(q, "offer", c)'
  BY <1>1, <1>2 DEF Fades, Coming
<1>3. CASE Waits(m, "offer", c)' /\ m # n
  BY <1>1, <1>3 DEF Rests, Coming
<1>4. CASE Waits(m, "offer", c)' /\ m = n
  <2>1. Waits(m, "offer", c) \/ (Ready(m, c) /\ Callee(c) # m)
    BY <1>0, <1>4 DEF Moving, AppStep, Requests, AsksOffer
  <2>2. Ready(m, c) => Starting(m, c)  BY DEF Ready, Starting
  <2>3. QED  BY <1>0, <1>4, <2>1, <2>2 DEF Coming, Ends2
<1>5. QED  BY <1>2, <1>3, <1>4 DEF Coming

LEMMA OutStays ==
  ASSUME NEW n \in Node, NEW c, NEW a, NEW b, Going(n, c, a, b),
         NEW q, NEW m, Ends2(q, m, a, b), Upright(q, c), OutOf(q, m, c),
         m = a => ~Unsent(a, c)
  PROVE  OutOf(q, m, c)'
<1>1. ~On(q, c)'  BY OnAnew DEF OutOf, Coming
<1>2. ~Coming(q, m, c)'  BY ComingAnew DEF OutOf, Unsent
<1>3. QED  BY <1>1, <1>2 DEF OutOf

\* Who leaves a call has learned of its end, asks for it, or could not offer it.
LEMMA LeavesCall ==
  ASSUME NEW n \in Node, NEW c, NEW a, NEW b, Going(n, c, a, b),
         NEW q, NEW m, Ends2(q, m, a, b), On(q, c), ~On(q, c)'
  PROVE  q = n /\ (Learns(q, c) \/ Waits(q, "end", c)' \/ Failed(q, c))
<1>0. /\ ~LosesTrack(c) /\ c # NextCall /\ q \in Node /\ (q # n => Rests(q, c))
      /\ Linked /\ Described(q, c)
  BY GoingFacts DEF Ends2
<1>1. q = n  BY <1>0 DEF On, Rests, Shows, Prepares
<1>2. CASE Shows(n, c)
  <2>1. ~(Shows(n, c) \/ Prepares(n, c))'  BY <1>1 DEF On
  <2>2. ~Forgets(n, c)  BY <1>0 DEF LosesTrack
  <2>3. QED  BY <1>1, <1>2, <2>1, <2>2 DEF Forgets
<1>3. CASE ~Shows(n, c)
  <2>1. ui[n].steps[c] # "none" /\ ui[n].pending # c
    BY <1>1, <1>3 DEF On, Shows, Prepares
  <2>2. ui'[n].steps[c] = "none" /\ ui'[n].activeCall # c
    BY <1>1 DEF On, Shows, Prepares
  <2>3. GoesOn(n, c)  BY <1>1 DEF Going, Moving, AppStep, Fields
  <2>4. \E r \in replies[n] : /\ r.signal \in {"offer", "answer"} /\ r.call = c
                              /\ r.ok => ui'[n].activeCall = c
    BY <1>0, <1>1, <2>1, <2>2, <2>3 DEF GoesOn, Described
  <2>5. Failed(n, c)  BY <1>0, <2>2, <2>4 DEF Failed, Linked
  <2>6. QED  BY <1>1, <2>5
<1>4. QED  BY <1>2, <1>3

\* Whoever hears of the end is out of the call.
LEMMA HearsOut ==
  ASSUME NEW n \in Node, NEW c, NEW a, NEW b, Going(n, c, a, b),
         NEW q, NEW m, Ends2(q, m, a, b), Upright(q, c),
         Ending(q, m, c), ~Ending(q, m, c)'
  PROVE  OutOf(q, m, c)'
<1>0. /\ EngineTypes /\ UiTypes /\ Order /\ Linked /\ ~LosesTrack(c) /\ c \in CallId
      /\ q \in Node /\ m \in Node /\ q # m /\ Fades(q, c) /\ Fades(m, c)
      /\ Between(c, a, b)
      /\ OfferUnsent(a, b, c) /\ Unheard(a, b, c) /\ OfferedOnce(a, b, c)
  <2>1. m \in Node  BY GoingFacts
  <2>2. Fades(m, c)  BY <2>1, FadesFact, GoingFacts
  <2>3. QED  BY <2>2, GoingFacts
<1>1. Requests(n, c) /\ Notices(n, c) /\ Elsewhere(n) /\ Firm(n, c)
  BY DEF Going, Moving, AppStep
<1>2. OnWire(m, q, "end", c) <=> OnWire(m, q, "end", c)'  BY <1>0 DEF Fades
<1>3. q = n
  <2>1. CASE q # n
    <3>1. cmds'[q] = cmds[q] /\ replies'[q] = replies[q] /\ events'[q] = events[q]
      BY <1>0, <1>1, <2>1 DEF Elsewhere
    <3>2. QED  BY <1>2, <3>1 DEF Ending, Waits, Replied, Queued
  <2>2. QED  BY <2>1
<1>4. ~Waits(n, "end", c)
  <2>1. Waits(n, "end", c) => Waits(n, "end", c)'
    BY <1>1, SignalsFact DEF Requests, KeepsAsking
  <2>2. QED  BY <1>3, <2>1 DEF Ending
<1>5. /\ Learns(n, c)
      /\ \/ Replied(n, "end", c) /\ Reset(ui[n], ui'[n])
         \/ /\ Queued(n, "ended", c) /\ events[n] # <<>>
            /\ Head(events[n]) = Ev("ended", c) /\ events'[n] = Tail(events[n])
            /\ \/ Reset(ui[n], ui'[n])
               \/ Same(ui[n], ui'[n]) /\ ui[n].activeCall \notin {None, c}
  <2>1. CASE Replied(n, "end", c) /\ ~Replied(n, "end", c)'
    <3>1. PICK r \in replies[n] : r.signal = "end" /\ r.call = c
      BY <2>1 DEF Replied
    <3>2. r \notin replies'[n]  BY <2>1, <3>1 DEF Replied
    <3>3. r.ok  BY <1>0, <3>1 DEF Linked
    <3>4. Reset(ui[n], ui'[n])  BY <1>1, <3>1, <3>2, <3>3 DEF Firm, EndsFor
    <3>5. Learns(n, c)  BY <3>1, <3>2 DEF Learns
    <3>6. QED  BY <2>1, <3>4, <3>5
  <2>2. CASE Queued(n, "ended", c) /\ ~Queued(n, "ended", c)'
    <3>1. events' # events  BY <2>2 DEF Queued
    <3>2. events[n] # <<>> /\ events' = [events EXCEPT ![n] = Tail(@)]
      BY <1>1, <3>1 DEF Notices, Listens
    <3>3. Head(events[n]) = Ev("ended", c)  BY <1>0, <2>2, <3>2, HeardAtoms
    <3>4. events'[n] = Tail(events[n])  BY <1>0, <3>2 DEF EngineTypes
    <3>5. IsOver(n, c, Head(events[n]))  BY <3>3 DEF IsOver, Ev
    <3>6. QED  BY <1>1, <2>2, <3>2, <3>3, <3>4, <3>5 DEF Firm, HearsOver, Learns
  <2>3. QED  BY <1>2, <1>3, <1>4, <2>1, <2>2 DEF Ending
<1>6. ui'[n].steps[c] = "none"
  <2>1. ui'[n].steps = ui[n].steps  BY <1>5 DEF Reset, Same
  <2>2. ui[n].steps[c] # "none" => Interrupts(n, c)
    BY <1>5, <2>1 DEF Interrupts, Prepares
  <2>3. ~Interrupts(n, c)  BY <1>0 DEF LosesTrack
  <2>4. QED  BY <2>1, <2>2, <2>3
<1>7. ui'[n].pending # c /\ ui'[n].activeCall # c
  <2>1. CASE Reset(ui[n], ui'[n])  BY <1>0, <2>1, NoneFact DEF Reset, Closed
  <2>2. CASE ~Reset(ui[n], ui'[n])
    <3>1. /\ Same(ui[n], ui'[n]) /\ ui[n].activeCall # c
          /\ events[n] # <<>> /\ Head(events[n]) = Ev("ended", c)
          /\ events'[n] = Tail(events[n])
      BY <1>5, <2>2
    <3>2. ui[n].pending = c => Ignores(n, c)
      BY <3>1 DEF Ignores, Handles, Ev, Same, SameCalls
    <3>3. ~Ignores(n, c)  BY <1>0 DEF LosesTrack
    <3>4. QED  BY <3>1, <3>2, <3>3 DEF Same, SameCalls
  <2>3. QED  BY <2>1, <2>2
<1>8. ~Coming(n, m, c)'
  <2> SUFFICES ASSUME Coming(n, m, c)' PROVE FALSE
    OBVIOUS
  <2>1. Coming(n, m, c)  BY <1>0, <1>3, ComingAnew
  <2>2. n = b /\ m = a /\ (Unsent(a, c) \/ Offering(a, b, c))
    BY <1>0, <1>3, <2>1, ComingFacts
  <2>3. ~Replied(n, "end", c)  BY <1>0, <2>2 DEF Unheard
  <2>4. /\ Queued(b, "ended", c) /\ events[b] # <<>>
        /\ Head(events[b]) = Ev("ended", c)
    BY <1>5, <2>2, <2>3
  <2>5. ~Queued(b, "offer", c)
    BY <1>0, <2>2, <2>4, NoEndFirst DEF OfferedOnce
  <2>6. QED  BY <1>0, <2>2, <2>4, <2>5 DEF OfferUnsent, OfferedOnce, Offering
<1>9. QED  BY <1>3, <1>6, <1>7, <1>8 DEF OutOf, On, Shows, Prepares

\* What is to be heard of the end was on the way.
LEMMA PartingStays ==
  ASSUME NEW n \in Node, NEW c, NEW a, NEW b, Going(n, c, a, b),
         NEW q, NEW m, Ends2(q, m, a, b), Upright(q, c), Parting(q, m, c)
  PROVE  Parting(q, m, c)'
<1> SUFFICES ASSUME Parted(m, q, c)' PROVE OutOf(q, m, c)' \/ Ending(q, m, c)'
  BY DEF Parting
<1>0. /\ Fades(q, c) /\ Fades(m, c) /\ a # b
      /\ OfferUnsent(a, b, c) /\ Unheard(a, b, c)
  <2>1. m \in Node  BY GoingFacts
  <2>2. Fades(m, c)  BY <2>1, FadesFact, GoingFacts
  <2>3. QED  BY <2>2, GoingFacts
<1>1. Parted(m, q, c)  BY <1>0 DEF Parted, Fades
<1>2. m = a => ~Unsent(a, c)
  <2>1. Failed(a, c) => Replied(a, "offer", c)  BY DEF Failed, Replied
  <2>2. m = a => q = b  BY <1>0 DEF Ends2
  <2>3. QED  BY <1>0, <1>1, <2>1, <2>2 DEF Parted, OfferUnsent, Unheard
<1>3. QED  BY <1>1, <1>2, OutStays, HearsOut DEF Parting

\* What n's move may take from a call that m is to be in.
LEMMA StartingGoes ==
  ASSUME NEW n \in Node, NEW c, NEW a, NEW b, Going(n, c, a, b),
         Upright(a, c), Starting(a, c)
  PROVE  Starting(a, c)' \/ (n = a /\ Ready(a, c))
<1>0. /\ a \in Node /\ b \in Node /\ a # b /\ Ends2(a, b, a, b) /\ c # NextCall
      /\ Described(a, c)
  <2>1. a \in Node /\ b \in Node /\ a # b  BY DEF Going, Moving, Between
  <2>2. Ends2(a, b, a, b)  BY DEF Ends2
  <2>3. QED  BY <2>1, <2>2, GoingFacts
<1>1. CASE n # a
  <2>1. Rests(a, c)  BY <1>0, <1>1, GoingFacts
  <2>2. QED  BY <2>1 DEF Starting, Rests
<1>2. CASE n = a
  <2>1. GoesOn(a, c)  BY <1>2 DEF Going, Moving, AppStep, Fields
  <2>2. Unasked(a, c)  BY DEF Upright, Rested, Opening, Starting
  <2>3. ~\E r \in replies[a] : r.signal \in {"offer", "answer"} /\ r.call = c
    BY <2>2 DEF Unasked, Replied
  <2>4. CASE ui[a].steps[c] = "media"  BY <2>1, <2>3, <2>4 DEF GoesOn, Starting
  <2>5. CASE ui[a].steps[c] = "describe"
    <3>1. ui[a].pc = c  BY <1>0, <2>5 DEF Described
    <3>2. ui'[a].steps[c] \in {"media", "describe", "sending", "notify"}
      BY <2>1, <2>3, <2>5, <3>1 DEF GoesOn
    <3>3. QED  BY <1>2, <2>5, <3>1, <3>2 DEF Starting, Ready
  <2>6. QED  BY <2>4, <2>5 DEF Starting
<1>3. QED  BY <1>1, <1>2

LEMMA ComingGoes ==
  ASSUME NEW n \in Node, NEW c, NEW a, NEW b, Going(n, c, a, b),
         NEW q, NEW m, Ends2(q, m, a, b), Coming(m, q, c)
  PROVE  Coming(m, q, c)' \/ On(m, c)' \/ Waits(m, "end", c)'
<1>0. /\ q \in Node /\ m \in Node /\ EngineTypes
      /\ Requests(n, c) /\ Notices(n, c) /\ Elsewhere(n)
      /\ Fades(q, c) /\ Fades(m, c) /\ (q # n => Rests(q, c)) /\ (m # n => Rests(m, c))
  <2>1. m \in Node /\ q \in Node /\ EngineTypes /\ Moving(n, c, a, b) BY GoingFacts
  <2>2. Fades(m, c) /\ (m # n => Rests(m, c)) /\ Fades(q, c) /\ (q # n => Rests(q, c))
    BY <2>1, FadesFact
  <2>3. QED  BY <2>1, <2>2 DEF Moving, AppStep
<1>1. Waits(q, "offer", c) => Waits(q, "offer", c)'
  BY <1>0, SignalsFact DEF Requests, KeepsAsking, Rests
<1>2. CASE Waits(q, "offer", c) \/ OnWire(q, m, "offer", c) \/ reading[m][q] = c
  BY <1>0, <1>1, <1>2 DEF Coming, Fades
<1>3. CASE Queued(m, "offer", c) /\ ~Queued(m, "offer", c)'
  <2>1. events' # events  BY <1>3 DEF Queued
  <2>2. events[n] # <<>> /\ events' = [events EXCEPT ![n] = Tail(@)]
    BY <1>0, <2>1 DEF Notices, Listens
  <2>3. m = n /\ Head(events[n]) = Ev("offer", c)  BY <1>0, <1>3, <2>2, HeardAtoms
  <2>4. Handles(n, "offer") /\ Head(events[n]).call = c
    BY <2>2, <2>3 DEF Handles, Ev
  <2>5. ui'[n].pending = c \/ Waits(n, "end", c)'
    BY <1>0, <2>1, <2>4 DEF Notices, Answers
  <2>6. QED  BY <2>3, <2>5 DEF On, Shows
<1>4. QED  BY <1>2, <1>3 DEF Coming

\* The failure of its offer takes n out of the call.
LEMMA FailedGoes ==
  ASSUME NEW n \in Node, NEW c, NEW a, NEW b, Going(n, c, a, b),
         NEW q, NEW m, Ends2(q, m, a, b), Upright(q, c), Failed(q, c), ~Failed(q, c)'
  PROVE  OutOf(q, m, c)'
<1>0. /\ q \in Node /\ m \in Node /\ q # m /\ a # b /\ EngineTypes /\ Order
      /\ Between(c, a, b)
      /\ RolesOf(q, c, a, b) /\ Moving(n, c, a, b)
  BY GoingFacts
<1>1. q = n
  <2>1. CASE q # n
    <3>1. replies'[q] = replies[q]
      BY <1>0, <2>1 DEF Moving, AppStep, Elsewhere
    <3>2. QED  BY <3>1 DEF Failed
  <2>2. QED  BY <2>1
<1>2. PICK r \in replies[n] : r.signal = "offer" /\ r.call = c /\ ~r.ok
  BY <1>1 DEF Failed
<1>3. r \in replies[n] \ replies'[n] /\ IsAnswer(r, c)
  BY <1>1, <1>2 DEF Failed, IsAnswer
<1>4. TakesBack(n, c)  BY DEF Going, Firm
<1>5. ui'[n].steps[c] = "none" /\ ui'[n].activeCall # c
  BY <1>1, <1>2, <1>3, <1>4 DEF TakesBack, Upright, Turned
<1>6. q = a /\ ui[q].pending # c /\ ~Queued(q, "offer", c)
  <2>1. Replied(q, "offer", c)  BY <1>1, <1>2 DEF Replied
  <2>2. QED  BY <1>0, <2>1 DEF RolesOf
<1>7. ui'[n].pending # c
  <2>1. RingsAnew(n, c)  BY <1>0 DEF Moving, AppStep, Fields
  <2>2. Heard(n, "offer", c) => Queued(n, "offer", c)  BY <1>0, HeardFacts
  <2>3. QED  BY <1>1, <1>6, <2>1, <2>2 DEF RingsAnew
<1>8. ~Coming(q, m, c)'
  <2>1. Coming(q, m, c)' => Coming(q, m, c)  BY <1>0, <1>1, ComingAnew
  <2>2. Coming(q, m, c) => q = b  BY <1>0, ComingFacts
  <2>3. QED  BY <1>0, <1>6, <2>1, <2>2
<1>9. QED  BY <1>1, <1>5, <1>7, <1>8 DEF OutOf, On, Shows, Prepares

LEMMA CompanyStays ==
  ASSUME NEW n \in Node, NEW c, NEW a, NEW b, Going(n, c, a, b),
         NEW q, NEW m, Ends2(q, m, a, b), Upright(q, c), Upright(m, c),
         Parting(q, m, c), Company(q, m, c)
  PROVE  Company(q, m, c)'
<1> DEFINE Goal == \/ On(m, c) \/ Ending(q, m, c) \/ Waits(m, "end", c)
                   \/ Reaching(q, m, c) \/ Failed(q, c)
<1> SUFFICES ASSUME On(q, c)' \/ Coming(q, m, c)', ~OutOf(q, m, c)' PROVE Goal'
  BY DEF Company, OutOf
<1>0. /\ q \in Node /\ m \in Node /\ q # m /\ a # b /\ EngineTypes /\ Linked
      /\ Moving(n, c, a, b) /\ Requests(n, c) /\ a = Caller(c) /\ b = Callee(c)
      /\ (m # n => Rests(m, c)) /\ Ends2(m, q, a, b) /\ c # NextCall
  <2>1. Ends2(m, q, a, b)  BY DEF Ends2
  <2>2. m \in Node /\ (m # n => Rests(m, c))  BY <2>1, GoingFacts
  <2>3. QED  BY <2>1, <2>2, GoingFacts DEF Moving, AppStep
<1>1. On(q, c) \/ Coming(q, m, c) \/ (n = m /\ Ready(m, c))
  <2>1. On(q, c)' => On(q, c) \/ Coming(q, m, c)  BY OnAnew DEF Coming
  <2>2. Coming(q, m, c)' => Coming(q, m, c) \/ (n = m /\ Ready(m, c))  BY ComingAnew
  <2>3. QED  BY <2>1, <2>2
<1>2. ~OutOf(q, m, c) \/ On(m, c)'
  <2>1. Ready(m, c) => On(m, c)'  BY DEF Ready, On, Prepares
  <2>2. QED  BY <1>1, <2>1 DEF OutOf
<1>3. CASE Ending(q, m, c)  BY <1>3, HearsOut
<1>4. CASE On(m, c)
  <2>1. CASE ~On(m, c)'
    <3>1. m = n /\ (Learns(m, c) \/ Waits(m, "end", c)' \/ Failed(m, c))
      BY <1>0, <1>4, <2>1, LeavesCall
    <3>2. CASE Learns(m, c) \/ Failed(m, c)
      <4>1. Learns(m, c) => Replied(m, "end", c) \/ Queued(m, "ended", c)
        <5>1. Learns(m, c) => \/ Replied(m, "end", c)
                              \/ events[m] # <<>> /\ Head(events[m]) = Ev("ended", c)
          BY <1>0, LearnsHead
        <5>2. events[m] # <<>> /\ Head(events[m]) = Ev("ended", c) => Queued(m, "ended", c)
          <6>1. events[m] \in Seq(Event)  BY <1>0 DEF EngineTypes
          <6>2. QED  BY <6>1, TailHas DEF Queued
        <5>3. QED  BY <5>1, <5>2
      <4>2. Parted(m, q, c)  BY <3>2, <4>1 DEF Parted
      <4>3. Ending(q, m, c)  BY <1>2, <2>1, <4>2 DEF Parting
      <4>4. QED  BY <1>3, <4>3
    <3>3. QED  BY <3>1, <3>2
  <2>2. QED  BY <2>1
<1>5. CASE Waits(m, "end", c)
  BY <1>0, <1>5, SignalsFact DEF Requests, KeepsAsking, Rests
<1>6. CASE Reaching(q, m, c)
  <2>1. CASE q = a /\ Starting(a, c)
    <3>1. CASE Starting(a, c)'
      <4>1. a = Caller(c)'  BY <1>0 DEF Going
      <4>2. QED  BY <2>1, <3>1, <4>1 DEF Reaching
    <3>2. CASE n = a /\ Ready(a, c)
      <4>1. SendsOut(a, c)  BY <3>2 DEF Going, Firm
      <4>2. Waits(a, "offer", c)'  BY <1>0, <3>2, <4>1 DEF SendsOut
      <4>3. QED  BY <2>1, <4>2 DEF Reaching, Coming
    <3>3. QED  BY <2>1, <3>1, <3>2, StartingGoes
  <2>2. CASE Coming(m, q, c)
    <3>1. Coming(m, q, c)' \/ On(m, c)' \/ Waits(m, "end", c)'
      BY <2>2, ComingGoes
    <3>2. QED  BY <3>1 DEF Reaching
  <2>3. QED  BY <1>0, <1>6, <2>1, <2>2 DEF Reaching
<1>7. CASE Failed(q, c)  BY <1>7, FailedGoes
<1>8. QED  BY <1>2, <1>3, <1>4, <1>5, <1>6, <1>7 DEF Company, OutOf

\* How n learns of the end, when no link is lost.
LEMMA LearnsHow ==
  ASSUME EngineTypes, Linked, NEW n \in Node, NEW c, Learns(n, c)
  PROVE  \/ \E r \in replies[n] \ replies'[n] : r.signal = "end" /\ r.call = c
         \/ /\ events[n] # <<>> /\ events'[n] = Tail(events[n])
            /\ Head(events[n]) = Ev("ended", c)
<1>1. CASE events[n] # <<>> /\ events'[n] = Tail(events[n]) /\ IsOver(n, c, Head(events[n]))
  <2> DEFINE e == Head(events[n])
  <2>1. events[n] \in Seq(Event) /\ e \in Event  BY <1>1 DEF EngineTypes
  <2>2. Has(events[n], e)  BY <1>1, <2>1, TailHas
  <2>3. \/ e.type \in EventTypes /\ e = Ev(e.type, e.call)
        \/ e.type = "peer_disconnected" /\ e.peer \in Node /\ e = Lost(e.peer)
    BY <2>1, EventFact
  <2>4. CASE e.type = "ended" /\ e.call = c  BY <1>1, <2>3, <2>4
  <2>5. CASE e.type = "peer_disconnected"
    <3>1. e.peer \in Node /\ e = Lost(e.peer)  BY <2>3, <2>5 DEF EventTypes
    <3>2. LossQueued(n, e.peer)  BY <2>2, <3>1 DEF LossQueued
    <3>3. QED  BY <3>1, <3>2 DEF Linked
  <2>6. QED  BY <1>1, <2>4, <2>5 DEF IsOver
<1>2. QED  BY <1>1 DEF Learns

LEMMA SettledStays ==
  ASSUME NEW n \in Node, NEW c, NEW a, NEW b, Going(n, c, a, b),
         NEW q, NEW m, Ends2(q, m, a, b), Upright(q, c)
  PROVE  Settled(q, c)'
<1>0. (q # n => Rests(q, c)) /\ ~LosesTrack(c) /\ Moving(n, c, a, b)
  BY GoingFacts
<1>1. CASE q # n  BY <1>0, <1>1 DEF Upright, Settled, Rests
<1>2. CASE q = n
  <2>1. GoesOn(n, c)  BY <1>0 DEF Moving, AppStep, Fields
  <2>2. ASSUME ui'[n].steps[c] \in {"describe", "sending", "notify"}, ui'[n].pc # c
        PROVE  FALSE
    <3>1. ui[n].steps[c] # "none" /\ ui[n].pc = c
      BY <1>2, <2>1, <2>2 DEF GoesOn, Upright, Settled
    <3>2. Interrupts(n, c)  BY <2>2, <3>1 DEF Interrupts, Prepares
    <3>3. QED  BY <1>0, <3>2 DEF LosesTrack
  <2>3. QED  BY <1>2, <2>2 DEF Settled
<1>3. QED  BY <1>1, <1>2

LEMMA AsksStays ==
  ASSUME NEW n \in Node, NEW c, NEW a, NEW b, Going(n, c, a, b),
         NEW q, NEW m, Ends2(q, m, a, b), Upright(q, c)
  PROVE  Asks(q, c)' /\ Alike(q, c)' /\ Turned(q, c)'
<1>0. /\ (q # n => Rests(q, c)) /\ Moving(n, c, a, b) /\ Fades(q, c) /\ c # NextCall
      /\ RolesOf(q, c, a, b) /\ a # b /\ app' = app /\ a = Caller(c) /\ b = Callee(c)
      /\ q \in {a, b} /\ Firm(n, c)
  BY GoingFacts DEF Ends2, Going
<1>1. replies'[q] \subseteq replies[q]
  BY <1>0, GoingFacts DEF Moving, AppStep, Notices, TakesReplies, Elsewhere
<1>2. Alike(q, c)'
  <2>1. \A r, s \in replies[q] : IsAnswer(r, c) /\ IsAnswer(s, c) => r = s
    BY DEF Upright, Alike
  <2>2. \A r, s \in replies'[q] : IsAnswer(r, c) /\ IsAnswer(s, c) => r = s
    BY <1>1, <2>1
  <2>3. QED  BY <2>2 DEF Alike, IsAnswer
<1>3. \A s \in {"offer", "answer"} :
        /\ Replied(q, s, c) => Desktop(q) /\ ui[q].steps[c] = "sending"
        /\ Waits(q, s, c) /\ Desktop(q) => ui[q].steps[c] = "sending" /\ ~Replied(q, s, c)
  BY DEF Upright, Asks
\* The step ends with the answer.
<1>4. ASSUME q = n, ui[n].steps[c] = "sending", ui'[n].steps[c] # "sending"
      PROVE  \E r \in replies[n] : IsAnswer(r, c) /\ replies'[n] = replies[n] \ {r}
  <2>1. ui[n].pending # c  BY <1>4 DEF Upright, Rested
  <2>2. QED  BY <1>0, <1>4, <2>1 DEF Firm, GivesBack
<1>5. ASSUME NEW s \in {"offer", "answer"}, Replied(q, s, c)'
      PROVE  Desktop(q)' /\ (ui[q].steps[c])' = "sending"
  <2>1. Replied(q, s, c)  BY <1>0, <1>5 DEF Fades
  <2>2. Desktop(q) /\ ui[q].steps[c] = "sending"  BY <1>3, <2>1
  <2>3. CASE q # n  BY <1>0, <2>2, <2>3 DEF Rests, Desktop
  <2>4. CASE q = n
    <3>1. ASSUME ui'[n].steps[c] # "sending" PROVE FALSE
      <4>1. PICK r \in replies[n] : IsAnswer(r, c) /\ replies'[n] = replies[n] \ {r}
        BY <1>4, <2>2, <2>4, <3>1
      <4>2. PICK x \in replies'[n] : x.signal = s /\ x.call = c
        BY <1>5, <2>4 DEF Replied
      <4>3. x \in replies[n] /\ IsAnswer(x, c) /\ x # r  BY <4>1, <4>2 DEF IsAnswer
      <4>4. QED  BY <2>4, <4>1, <4>3 DEF Upright, Alike
    <3>2. QED  BY <1>0, <2>2, <2>4, <3>1 DEF Desktop
  <2>5. QED  BY <2>3, <2>4
<1>6. ASSUME NEW s \in {"offer", "answer"}, Waits(q, s, c)', Desktop(q)'
      PROVE  (ui[q].steps[c])' = "sending" /\ ~Replied(q, s, c)'
  <2>1. Desktop(q)  BY <1>0, <1>6 DEF Desktop
  <2>2. CASE Waits(q, s, c)
    <3>1. ui[q].steps[c] = "sending" /\ ~Replied(q, s, c)  BY <1>3, <2>1, <2>2
    <3>2. ASSUME NEW r \in replies[q], IsAnswer(r, c) PROVE FALSE
      <4>1. Replied(q, r.signal, c) /\ r.signal \in {"offer", "answer"}
        BY <3>2 DEF IsAnswer, Replied
      <4>2. r.signal = s  BY <1>0, <2>2, <4>1 DEF RolesOf
      <4>3. QED  BY <3>1, <4>1, <4>2
    <3>3. ui'[q].steps[c] = "sending"
      BY <1>0, <1>4, <3>1, <3>2 DEF Rests
    <3>4. QED  BY <1>0, <3>1, <3>3 DEF Fades
  <2>3. CASE ~Waits(q, s, c)
    <3>1. q = n  BY <1>0, <1>6, <2>3 DEF Rests
    <3>2. Ready(n, c)
      BY <1>0, <1>6, <2>3, <3>1 DEF Moving, AppStep, Requests, AsksOffer, AsksAnswer
    <3>3. ui'[n].steps[c] = "sending"  BY <1>0, <2>1, <3>1, <3>2 DEF Firm, SendsOut
    <3>4. ~Replied(n, s, c)  BY <3>1, <3>2 DEF Ready, Upright, Rested, Unasked
    <3>5. QED  BY <1>0, <3>1, <3>3, <3>4 DEF Fades
  <2>4. QED  BY <2>2, <2>3
<1>7. Asks(q, c)'  BY <1>5, <1>6 DEF Asks
<1>8. Turned(q, c)'
  <2> SUFFICES ASSUME Failed(q, c)' PROVE ui'[q].activeCall # c
    BY DEF Turned
  <2>1. Failed(q, c)  BY <1>0 DEF Fades
  <2>2. PICK x \in replies[q] : x.signal = "offer" /\ x.call = c /\ ~x.ok
    BY <2>1 DEF Failed
  <2>3. ui[q].activeCall # c  BY <2>1 DEF Upright, Turned
  <2>4. Replied(q, "offer", c)  BY <2>2 DEF Replied
  <2>5. Desktop(q)  BY <1>3, <2>4
  <2>6. ~\E r \in replies[q] : IsAnswer(r, c) /\ r.ok
    BY <2>2 DEF Upright, Alike, IsAnswer
  <2>7. QED  BY <1>0, <2>3, <2>5, <2>6 DEF Firm, ShowsFor, Rests
<1>9. QED  BY <1>2, <1>7, <1>8

LEMMA PlainStays ==
  ASSUME NEW n \in Node, NEW c, NEW a, NEW b, Going(n, c, a, b),
         NEW q, NEW m, Ends2(q, m, a, b), Upright(q, c)
  PROVE  Plain(q, c)'
<1>0. /\ (q # n => Rests(q, c)) /\ Moving(n, c, a, b) /\ app' = app /\ ~LosesTrack(c)
      /\ EngineTypes /\ Linked /\ c \in CallId /\ Firm(n, c) /\ Finer(n, c)
      /\ RolesOf(q, c, a, b) /\ Unheard(a, b, c)
  BY GoingFacts DEF Going
<1>1. CASE q # n
  BY <1>0, <1>1 DEF Upright, Plain, Rests, On, Shows, Prepares, Desktop
<1>2. CASE q = n /\ ~Desktop(n)
  <2>1. AsksAlone(n, c) /\ breaks' = breaks /\ HearsOver(n, c)  BY <1>0 DEF Going, Firm
  <2>2. /\ replies'[n] = replies[n]
        /\ Waits(n, "end", c)' =>
             \/ Waits(n, "end", c)
             \/ Reset(ui[n], ui'[n]) /\ ui[n].activeCall = c
             \/ /\ ui[n].pending = c /\ ui'[n].pending = None
                /\ ui'[n].activeCall = ui[n].activeCall /\ ui'[n].steps = ui[n].steps
             \/ Heard(n, "offer", c) /\ Same(ui[n], ui'[n])
    BY <1>2, <2>1 DEF AsksAlone
  <2>3. Heard(n, "offer", c) => ~On(n, c) /\ ui[n].pc # c
    <3>1. Heard(n, "offer", c) => Queued(n, "offer", c)  BY <1>0, HeardFacts
    <3>2. QED  BY <1>0, <3>1, OfferFacts DEF On
  <2>4. /\ Rested(n, c) /\ Settled(n, c)
        /\ ui[n].pc = c => On(n, c)
        /\ Waits(n, "end", c) => ~On(n, c)
    BY <1>2 DEF Upright, Plain
  <2>5. Reset(ui[n], ui'[n]) => ui'[n].pc # c /\ ui'[n].pending # c /\ ui'[n].activeCall # c
    BY <1>0, NoneFact DEF Reset, Closed
  <2>6. ASSUME ui'[n].pc = c, ~On(n, c)' PROVE FALSE
    <3>1. ui[n].pc = c
      BY <1>0, <2>6 DEF Finer, Opens, On, Prepares
    <3>2. On(n, c)  BY <2>4, <3>1
    <3>3. Learns(n, c) \/ Waits(n, "end", c)' \/ Failed(n, c)
      BY <1>2, <2>6, <3>2, LeavesCall
    <3>4. ~Failed(n, c)
      <4>1. Failed(n, c) => Replied(n, "offer", c)  BY DEF Failed, Replied
      <4>2. Replied(n, "offer", c) => Desktop(n)  BY <1>2 DEF Upright, Asks
      <4>3. QED  BY <1>2, <4>1, <4>2
    <3>5. ~Waits(n, "end", c)'
      <4>1. ui[n].pending # c  BY <2>4, <3>1 DEF Rested, Opening
      <4>2. QED  BY <2>2, <2>3, <2>4, <2>5, <2>6, <3>1, <3>2, <4>1
    <3>6. Learns(n, c)  BY <3>3, <3>4, <3>5
    <3>7. events[n] # <<>> /\ events'[n] = Tail(events[n]) /\ Head(events[n]) = Ev("ended", c)
      BY <1>0, <2>2, <3>6, LearnsHow
    <3>8. Reset(ui[n], ui'[n]) \/ Same(ui[n], ui'[n])  BY <2>1, <3>7 DEF HearsOver
    <3>9. Same(ui[n], ui'[n])  BY <2>5, <2>6, <3>8
    <3>10. On(n, c)'  BY <3>2, <3>9 DEF Same, SameCalls, On, Shows, Prepares
    <3>11. QED  BY <2>6, <3>10
  <2>7. ASSUME Waits(n, "end", c)', On(n, c)' PROVE FALSE
    <3>1. CASE Waits(n, "end", c)
      <4>1. ~On(n, c)  BY <2>4, <3>1
      <4>2. Queued(n, "offer", c)  BY <1>2, <2>7, <4>1, OnAnew
      <4>3. n = b /\ ~Waits(n, "end", c)
        BY <1>0, <1>2, <4>2 DEF RolesOf, Unheard, Offering
      <4>4. QED  BY <3>1, <4>3
    <3>2. CASE Reset(ui[n], ui'[n]) /\ ui[n].activeCall = c
      <4>1. ui'[n].steps = ui[n].steps /\ ui'[n].pc # c
        BY <2>5, <3>2 DEF Reset
      <4>2. ui[n].steps[c] # "none"
        BY <2>5, <2>7, <3>2, <4>1 DEF On, Shows, Prepares
      <4>3. ui[n].pc = c \/ ui[n].steps[c] = "media" \/ Interrupts(n, c)
        <5>1. UiTypes  BY <1>0 DEF Moving
        <5>2. ui[n].steps[c] \in Steps  BY <1>0, <5>1 DEF UiTypes, State
        <5>3. QED  BY <2>4, <4>2, <5>2 DEF Settled, Steps
      <4>4. ui[n].steps[c] # "media"  BY <2>4, <3>2 DEF Rested, Opening
      <4>5. Interrupts(n, c)
        BY <4>1, <4>2, <4>3, <4>4 DEF Interrupts, Prepares
      <4>6. QED  BY <1>0, <4>5 DEF LosesTrack
    <3>3. CASE /\ ui[n].pending = c /\ ui'[n].pending = None
               /\ ui'[n].activeCall = ui[n].activeCall /\ ui'[n].steps = ui[n].steps
      <4>1. ui[n].activeCall # c /\ ui[n].steps[c] = "none"
        BY <2>4, <3>3 DEF Rested, Opening
      <4>2. QED  BY <1>0, <2>7, <3>3, <4>1, NoneFact DEF On, Shows, Prepares
    <3>4. CASE Heard(n, "offer", c) /\ Same(ui[n], ui'[n])
      BY <2>3, <2>7, <3>4 DEF Same, SameCalls, On, Shows, Prepares
    <3>5. QED  BY <2>2, <2>7, <3>1, <3>2, <3>3, <3>4
  <2>8. QED  BY <1>2, <2>6, <2>7 DEF Plain
<1>3. CASE q = n /\ Desktop(n)  BY <1>0, <1>3 DEF Plain, Desktop
<1>4. QED  BY <1>1, <1>2, <1>3

LEMMA AppMates ==
  ASSUME NEW n \in Node, NEW c, NEW a, NEW b, Going(n, c, a, b), Mates(a, b, c)
  PROVE  Mates(a, b, c)'
<1>1. ASSUME NEW q, NEW m, Ends2(q, m, a, b), Mate(q, m, c), Mate(m, q, c)
      PROVE  Mate(q, m, c)'
  <2>1. /\ Upright(q, c) /\ Parting(q, m, c) /\ Company(q, m, c) /\ Upright(m, c)
        /\ q \in {a, b} /\ Moving(n, c, a, b) /\ Finer(n, c)
    BY <1>1 DEF Mate, Ends2, Going
  <2>2. Rested(q, c)'  BY <2>1, RestedStays DEF Upright
  <2>3. Settled(q, c)' /\ Asks(q, c)' /\ Alike(q, c)' /\ Turned(q, c)' /\ Plain(q, c)'
    BY <1>1, <2>1, SettledStays, AsksStays, PlainStays
  <2>4. Parting(q, m, c)' /\ Company(q, m, c)'
    BY <1>1, <2>1, PartingStays, CompanyStays
  <2>5. QED  BY <2>2, <2>3, <2>4 DEF Mate, Upright
<1>2. QED  BY <1>1 DEF Mates, Ends2

\* What q has of a call that begins: at most that its caller asks for media.
Bare(q, m, c) ==
  /\ ~Shows(q, c) /\ ui[q].pc # c /\ ui[q].steps[c] \in {"none", "media"}
  /\ Unasked(q, c) /\ ~Failed(q, c) /\ ~Coming(q, m, c) /\ ~OnWire(q, m, "end", c)
  /\ ~Waits(q, "end", c) /\ ~Replied(q, "end", c) /\ ~Queued(q, "ended", c)

LEMMA BareMate ==
  ASSUME NEW q, NEW m, NEW c, Bare(q, m, c)', Bare(m, q, c)',
         ui'[q].steps[c] = "none" \/ q = Caller(c)'
  PROVE  Mate(q, m, c)'
<1>1. Rested(q, c)' /\ Settled(q, c)'  BY DEF Bare, Rested, Settled, Opening, Shows
<1>2. Asks(q, c)' /\ Alike(q, c)'
  BY DEF Bare, Asks, Alike, Unasked, IsAnswer, Replied
<1>3. Turned(q, c)' /\ Plain(q, c)'  BY DEF Bare, Turned, Plain
<1>4. Parting(q, m, c)'  BY DEF Bare, Parting, Parted
<1>5. Company(q, m, c)'
  <2>1. On(q, c)' => q = Caller(c)' /\ Starting(q, c)'
    BY DEF Bare, On, Prepares, Starting
  <2>2. QED  BY <2>1 DEF Bare, Company, Reaching
<1>6. QED  BY <1>1, <1>2, <1>3, <1>4, <1>5 DEF Mate, Upright

LEMMA BeginBare ==
  ASSUME EngineTypes, UiTypes, Order, NEW a \in Node, NEW b \in Node \ {a},
         NEW c \in CallId \ Made, AppStep(a, c), Finer(a, c)
  PROVE  Bare(a, b, c)' /\ Bare(b, a, c)' /\ ui'[b].steps[c] = "none"
<1>1. Unknown(a, c) /\ Unknown(b, c)  BY UnknownFact
<1>2. Fields(a, c) /\ Requests(a, c) /\ Notices(a, c) /\ Elsewhere(a)  BY DEF AppStep
<1>3. ui'[b] = ui[b] /\ cmds'[b] = cmds[b] /\ wire' = wire /\ reading' = reading
  BY <1>2 DEF Elsewhere
<1>4. \A q \in Node : \A t : /\ Queued(q, t, c)' => Queued(q, t, c)
                             /\ Replied(q, t, c)' => Replied(q, t, c)
  BY <1>2, NoticedAtoms
<1>5. ASSUME NEW q \in {a, b}
      PROVE  /\ ~Queued(q, "offer", c)' /\ ~Queued(q, "ended", c)'
             /\ ~Replied(q, "offer", c)' /\ ~Replied(q, "answer", c)' /\ ~Replied(q, "end", c)'
             /\ ~Failed(q, c)'
  <2>1. Unknown(q, c) /\ q \in Node  BY <1>1
  <2>2. /\ ~Queued(q, "offer", c) /\ ~Queued(q, "ended", c)
        /\ ~Replied(q, "offer", c) /\ ~Replied(q, "answer", c) /\ ~Replied(q, "end", c)
    BY <2>1, SignalsFact DEF Unknown
  <2>3. Failed(q, c)' => Replied(q, "offer", c)'  BY DEF Failed, Replied
  <2>4. QED  BY <1>4, <2>1, <2>2, <2>3
<1>6. ~OnWire(a, b, "offer", c)' /\ ~OnWire(a, b, "end", c)'
      /\ ~OnWire(b, a, "offer", c)' /\ ~OnWire(b, a, "end", c)'
      /\ (reading[b][a])' # c /\ (reading[a][b])' # c
  BY <1>1, <1>3, SignalsFact DEF Unknown, OnWire
<1>7. /\ ~Waits(b, "offer", c)' /\ ~Waits(b, "answer", c)' /\ ~Waits(b, "end", c)'
  BY <1>1, <1>3, SignalsFact DEF Unknown, Waits
<1>8. ~Ready(a, c)  BY <1>1 DEF Ready, Unknown
<1>9. ~Heard(a, "offer", c)  BY <1>1, HeardFacts, SignalsFact DEF Unknown
<1>10. /\ ~Waits(a, "offer", c)' /\ ~Waits(a, "answer", c)' /\ ~Waits(a, "end", c)'
  <2>1. ~Wanted(a, c)  BY <1>1, <1>9 DEF Wanted, Unknown
  <2>2. QED
    BY <1>1, <1>2, <1>8, <2>1, SignalsFact
       DEF Unknown, Requests, AsksOffer, AsksAnswer, AsksEnd
<1>11. /\ ui'[a].pending # c /\ ui'[a].activeCall # c /\ ui'[a].pc # c
       /\ ui'[a].steps[c] \in {"none", "media"}
  <2>1. ui'[a].pending # c  BY <1>1, <1>2, <1>9 DEF Unknown, Fields, RingsAnew
  <2>2. ui'[a].activeCall # c /\ ui'[a].steps[c] \in {"none", "media"}
    BY <1>1, <1>2, SignalsFact DEF Unknown, Fields, ShowsAnew, GoesOn
  <2>3. ui'[a].pc # c  BY <1>1, <2>2 DEF Finer, Opens, Unknown
  <2>4. QED  BY <2>1, <2>2, <2>3
<1>12. /\ ui'[b].pending # c /\ ui'[b].activeCall # c /\ ui'[b].pc # c
       /\ ui'[b].steps[c] = "none"
  BY <1>1, <1>3 DEF Unknown
<1>13. Bare(a, b, c)'
  BY <1>5, <1>6, <1>7, <1>10, <1>11 DEF Bare, Shows, Unasked, Coming
<1>14. Bare(b, a, c)'
  BY <1>5, <1>6, <1>7, <1>10, <1>12 DEF Bare, Shows, Unasked, Coming
<1>15. QED  BY <1>12, <1>13, <1>14

LEMMA BeginMates ==
  ASSUME EngineTypes, UiTypes, Order, NEW a \in Node, NEW b \in Node \ {a},
         NEW c \in CallId \ Made, AppStep(a, c), Finer(a, c), Caller(c)' = a
  PROVE  Mates(a, b, c)'
<1>1. Bare(a, b, c)' /\ Bare(b, a, c)' /\ ui'[b].steps[c] = "none"  BY BeginBare
<1>2. Mate(a, b, c)'  BY <1>1, BareMate
<1>3. Mate(b, a, c)'  BY <1>1, BareMate
<1>4. QED  BY <1>2, <1>3 DEF Mates

-----------------------------------------------------------------------------
(* Company in a call: what an engine does for it *)

\* What m sends, and what it asks for, goes on towards q or comes back.
Passes(m, q, c) ==
  /\ Waits(m, "end", c) => \/ Waits(m, "end", c)'
                           \/ OnWire(m, q, "end", c)' /\ Queued(m, "ended", c)'
  /\ OnWire(m, q, "end", c) => OnWire(m, q, "end", c)' \/ Queued(q, "ended", c)'
  /\ Waits(m, "offer", c) => \/ Waits(m, "offer", c)' \/ OnWire(m, q, "offer", c)'
                             \/ Failed(m, c)'
  /\ OnWire(m, q, "offer", c) => \/ OnWire(m, q, "offer", c)' \/ reading'[q][m] = c
                                 \/ OnWire(q, m, "end", c)'
  /\ reading[q][m] = c => reading'[q][m] = c \/ Queued(q, "offer", c)'
  /\ \A t \in {"offer", "ended"} : Queued(q, t, c) => Queued(q, t, c)'
\* Where what m hears of the end, q being the peer, comes from: q ends the call,
\* or m's own end goes out, or an offer is over.
Hails(m, q, c) ==
  /\ OnWire(q, m, "end", c)' => \/ OnWire(q, m, "end", c) \/ Queued(q, "ended", c)'
                                \/ OnWire(m, q, "offer", c) /\ ~Coming(q, m, c)'
  /\ Queued(m, "ended", c)' => \/ Queued(m, "ended", c) \/ OnWire(q, m, "end", c)
                               \/ OnWire(m, q, "end", c)'
  /\ Replied(m, "end", c)' => Replied(m, "end", c) \/ OnWire(m, q, "end", c)'
  /\ Failed(m, c)' => Failed(m, c) \/ (Waits(m, "offer", c) /\ ~Coming(q, m, c)')
Relays(m, q, c) == Passes(m, q, c) /\ Hails(m, q, c)

\* q's application is told at most one result of an offer or answer, its own.
OneAnswer(q, c) ==
  \E x : \A r \in replies'[q] : IsAnswer(r, c) =>
    \/ r \in replies[q]
    \/ /\ r = x /\ Desktop(q)
       /\ Waits(q, r.signal, c) /\ ~Waits(q, r.signal, c)'
TellsOnce(q, c) == replies[q] \subseteq replies'[q] /\ OneAnswer(q, c)

LEMMA RequestAnswers ==
  ASSUME EngineTypes, Order, app' = app, NEW n \in Node, NEW x \in cmds[n], Taken(n, x),
         NEW ok \in BOOLEAN, Answered(n, x, ok), NEW q \in Node, NEW c
  PROVE  TellsOnce(q, c)
<1> DEFINE new == [signal |-> x.signal, call |-> x.call, ok |-> ok]
<1>1. replies'[q] = IF q = n /\ x.awaited THEN replies[q] \cup {new} ELSE replies[q]
  BY DEF EngineTypes, Answered
<1>2. new.signal = x.signal /\ new.call = x.call  OBVIOUS
<1> HIDE DEF new
<1>3. ASSUME NEW r \in replies'[q], IsAnswer(r, c), r \notin replies[q]
      PROVE  /\ r = new /\ Desktop(q)
             /\ Waits(q, r.signal, c) /\ ~Waits(q, r.signal, c)'
  <2>1. r = new /\ q = n /\ x.awaited  BY <1>1, <1>3
  <2>2. x.signal \in {"offer", "answer"} /\ x.call = c
    BY <1>2, <1>3, <2>1 DEF IsAnswer
  <2>3. Desktop(n)  BY <2>1, <2>2 DEF Order, Awaits, Proper
  <2>4. Waits(n, x.signal, c)  BY <2>2 DEF Waits
  <2>5. ~Waits(n, x.signal, c)'  BY <2>2, TakenGone
  <2>6. QED  BY <1>2, <2>1, <2>3, <2>4, <2>5
<1>4. OneAnswer(q, c)  BY <1>3 DEF OneAnswer
<1>5. QED  BY <1>1, <1>4 DEF TellsOnce

LEMMA EngineAnswers ==
  ASSUME EngineTypes, Order, app' = app, NEW n \in Node, EngineMoves(n),
         NEW q \in Node, NEW c
  PROVE  TellsOnce(q, c)
<1>1. ASSUME NEW x \in cmds[n],
             \/ RefuseOffer(n, x) \/ SendOffer(n, x) \/ SendMedia(n, x) \/ SendEnd(n, x)
      PROVE  TellsOnce(q, c)
  <2>1. Outcomes(n, PeerOf(n, x.call)) = {TRUE}  BY RequestAt
  <2>2. Taken(n, x) /\ \E ok \in BOOLEAN : Answered(n, x, ok)
    BY <1>1, <2>1 DEF RefuseOffer, SendOffer, SendMedia, SendEnd, Requested
  <2>3. QED  BY <2>2, RequestAnswers
<1>2. CASE replies' = replies  BY <1>2 DEF TellsOnce, OneAnswer
<1>3. CASE EngineWorks(n)
  <2>1. \/ \E x \in cmds[n] : \/ RefuseOffer(n, x) \/ SendOffer(n, x)
                              \/ SendMedia(n, x) \/ SendEnd(n, x)
        \/ \E m \in Node : AcceptOffer(n, m)
    BY <1>3, NoLoss DEF EngineWorks
  <2>2. QED  BY <1>1, <1>2, <2>1 DEF AcceptOffer
<1>4. CASE Receives(n)
  <2>1. replies' = replies
    BY <1>4 DEF Receives, ReceiveEnd, ReceiveMedia, RejectOffer, TestOffer, NoticeLoss
  <2>2. QED  BY <1>2, <2>1
<1>5. QED  BY <1>3, <1>4 DEF EngineMoves

-----------------------------------------------------------------------------
\* The engine of n moves; q and m are the two ends of c.
Relaying(n, q, m, c, a, b) ==
  /\ Serving(c, a, b) /\ n \in Node /\ From(n, c) /\ Ends2(q, m, a, b)
  /\ Relays(m, q, c) /\ Relays(q, m, c) /\ TellsOnce(q, c) /\ TellsOnce(m, c)

LEMMA RelayingFacts ==
  ASSUME NEW n, NEW q, NEW m, NEW c, NEW a, NEW b, Relaying(n, q, m, c, a, b)
  PROVE  /\ q \in Node /\ m \in Node /\ EngineTypes /\ Order /\ Served /\ a # b
         /\ c \in CallId /\ a \in Node /\ b \in Node
         /\ RolesOf(q, c, a, b) /\ (Coming(q, m, c)' => Coming(q, m, c))
         /\ \A s \in Signals : Waits(q, s, c)' => Waits(q, s, c)
         /\ (On(q, c)' <=> On(q, c)) /\ (On(m, c)' <=> On(m, c))
         /\ (Queued(q, "ended", c) => Queued(q, "ended", c)')
         /\ \A s : Replied(q, s, c) => Replied(q, s, c)'
         /\ (Failed(q, c) => Failed(q, c)')
         /\ StartsFresh(a, c) /\ OfferUnsent(a, b, c) /\ Unheard(a, b, c)
         /\ OfferedOnce(a, b, c)
<1>1. /\ EngineTypes /\ Order /\ Served /\ Between(c, a, b) /\ a # b
      /\ a \in Node /\ b \in Node /\ c \in CallId
      /\ StartsFresh(a, c) /\ OfferUnsent(a, b, c) /\ Unheard(a, b, c)
      /\ OfferedOnce(a, b, c)
  BY ServingParts DEF Relaying, Serving
<1>2. q \in Node /\ m \in Node /\ n \in Node /\ From(n, c) /\ Ends2(q, m, a, b)
  BY <1>1 DEF Relaying, Ends2
<1>3. RolesOf(q, c, a, b)  BY <1>1, <1>2, RolesFact
<1>4. Coming(q, m, c)' => Coming(q, m, c)  BY <1>1, <1>2, EngineComing
<1>5. \A s \in Signals : Waits(q, s, c)' => Waits(q, s, c)
  BY <1>2 DEF From, FromWaits
<1>6. (On(q, c)' <=> On(q, c)) /\ (On(m, c)' <=> On(m, c))
  BY <1>1 DEF Served, On, Shows, Prepares
<1>7. Queued(q, "ended", c) => Queued(q, "ended", c)'
  BY DEF Relaying, Relays, Passes
<1>8. replies[q] \subseteq replies'[q]  BY DEF Relaying, TellsOnce
<1>9. /\ \A s : Replied(q, s, c) => Replied(q, s, c)'
      /\ Failed(q, c) => Failed(q, c)'
  BY <1>8 DEF Replied, Failed
<1>10. QED  BY <1>1, <1>2, <1>3, <1>4, <1>5, <1>6, <1>7, <1>9

\* Who is to hear of the end still is.
LEMMA EndingPasses ==
  ASSUME NEW n, NEW q, NEW m, NEW c, NEW a, NEW b, Relaying(n, q, m, c, a, b),
         Ending(q, m, c)
  PROVE  Ending(q, m, c)'
<1>1. /\ Waits(q, "end", c) => Waits(q, "end", c)' \/ Queued(q, "ended", c)'
      /\ OnWire(m, q, "end", c) => OnWire(m, q, "end", c)' \/ Queued(q, "ended", c)'
  BY DEF Relaying, Relays, Passes
<1>2. QED  BY <1>1, RelayingFacts DEF Ending

LEMMA PartingRelayed ==
  ASSUME NEW n, NEW q, NEW m, NEW c, NEW a, NEW b, Relaying(n, q, m, c, a, b),
         Parting(q, m, c)
  PROVE  Parting(q, m, c)'
<1> SUFFICES ASSUME Parted(m, q, c)', ~Ending(q, m, c)' PROVE OutOf(q, m, c)'
  BY DEF Parting
<1>1. Hails(m, q, c) /\ Hails(q, m, c) /\ Ends2(q, m, a, b)
  BY DEF Relaying, Relays
<1>2. CASE Parted(m, q, c)
  <2>1. OutOf(q, m, c)  BY <1>2, EndingPasses DEF Parting
  <2>2. QED  BY <2>1, RelayingFacts DEF OutOf
<1>3. CASE ~Parted(m, q, c)
  <2>1. ~Queued(q, "ended", c)' /\ ~OnWire(m, q, "end", c)'  BY DEF Ending
  <2>2. \/ OnWire(m, q, "offer", c) /\ ~Coming(q, m, c)'
        \/ Waits(m, "offer", c) /\ ~Coming(q, m, c)'
    <3>1. /\ ~OnWire(q, m, "end", c) /\ ~Queued(m, "ended", c)
          /\ ~Replied(m, "end", c) /\ ~Failed(m, c)
      BY <1>3 DEF Parted
    <3>2. Queued(m, "ended", c)' => FALSE  BY <1>1, <2>1, <3>1 DEF Hails
    <3>3. Replied(m, "end", c)' => FALSE  BY <1>1, <2>1, <3>1 DEF Hails
    <3>4. OnWire(q, m, "end", c)' => OnWire(m, q, "offer", c) /\ ~Coming(q, m, c)'
      BY <1>1, <2>1, <3>1 DEF Hails
    <3>5. Failed(m, c)' => Waits(m, "offer", c) /\ ~Coming(q, m, c)'
      BY <1>1, <3>1 DEF Hails
    <3>6. QED  BY <3>2, <3>3, <3>4, <3>5 DEF Parted
  <2>3. Coming(q, m, c) /\ ~Coming(q, m, c)'  BY <2>2 DEF Coming
  <2>4. q = b /\ (Unsent(a, c) \/ Offering(a, b, c))
    <3>1. Between(c, a, b)  BY DEF Relaying, Serving
    <3>2. QED  BY <1>1, <2>3, <3>1, ComingFacts, RelayingFacts
  <2>5. ~On(q, c)  BY <2>4, RelayingFacts DEF Unheard, On
  <2>6. QED  BY <2>3, <2>5, RelayingFacts DEF OutOf
<1>4. QED  BY <1>2, <1>3

LEMMA CompanyRelayed ==
  ASSUME NEW n, NEW q, NEW m, NEW c, NEW a, NEW b, Relaying(n, q, m, c, a, b),
         Company(q, m, c)
  PROVE  Company(q, m, c)'
<1> SUFFICES ASSUME On(q, c)' \/ Coming(q, m, c)'
             PROVE  \/ On(m, c)' \/ Ending(q, m, c)' \/ Waits(m, "end", c)'
                    \/ Reaching(q, m, c)' \/ Failed(q, c)'
  BY DEF Company
<1>1. Passes(m, q, c) /\ Passes(q, m, c)  BY DEF Relaying, Relays
<1>2. On(q, c) \/ Coming(q, m, c)  BY RelayingFacts
<1>3. CASE On(m, c)  BY <1>3, RelayingFacts
<1>4. CASE Ending(q, m, c)  BY <1>4, EndingPasses
<1>5. CASE Waits(m, "end", c)  BY <1>1, <1>5 DEF Passes, Ending
<1>6. CASE q = Caller(c) /\ Starting(q, c)
  <2>1. ui' = ui /\ party' = party  BY RelayingFacts DEF Served
  <2>2. Starting(q, c)' /\ q = Caller(c)'  BY <1>6, <2>1 DEF Starting, Caller
  <2>3. QED  BY <2>2 DEF Reaching
<1>7. CASE Coming(m, q, c)
  <2>1. CASE Waits(q, "offer", c)  BY <1>1, <2>1 DEF Passes, Reaching, Coming
  <2>2. CASE OnWire(q, m, "offer", c)
    BY <1>1, <2>2 DEF Passes, Reaching, Coming, Ending
  <2>3. CASE reading[m][q] = c  BY <1>1, <2>3 DEF Passes, Reaching, Coming
  <2>4. CASE Queued(m, "offer", c)  BY <1>1, <2>4 DEF Passes, Reaching, Coming
  <2>5. QED  BY <1>7, <2>1, <2>2, <2>3, <2>4 DEF Coming
<1>8. CASE Failed(q, c)  BY <1>8, RelayingFacts
<1>9. QED  BY <1>2, <1>3, <1>4, <1>5, <1>6, <1>7, <1>8 DEF Company, Reaching

LEMMA UprightRelayed ==
  ASSUME NEW n, NEW q, NEW m, NEW c, NEW a, NEW b, Relaying(n, q, m, c, a, b),
         Upright(q, c)
  PROVE  Upright(q, c)'
<1>1. /\ ui' = ui /\ app' = app /\ TellsOnce(q, c) /\ RolesOf(q, c, a, b) /\ a # b
      /\ \A s \in Signals : Waits(q, s, c)' => Waits(q, s, c)
      /\ \A s \in {"offer", "answer"} :
           /\ Replied(q, s, c) => Desktop(q) /\ ui[q].steps[c] = "sending"
           /\ Waits(q, s, c) /\ Desktop(q) => ui[q].steps[c] = "sending" /\ ~Replied(q, s, c)
  BY RelayingFacts DEF Served, Relaying, Upright, Asks
<1>2. ASSUME NEW s \in {"offer", "answer"}, Replied(q, s, c)'
      PROVE  \/ Replied(q, s, c)
             \/ Desktop(q) /\ Waits(q, s, c) /\ ~Waits(q, s, c)'
  <2>1. PICK r \in replies'[q] : r.signal = s /\ r.call = c
    BY <1>2 DEF Replied
  <2>2. IsAnswer(r, c)  BY <2>1 DEF IsAnswer
  <2>3. \/ r \in replies[q]
        \/ Desktop(q) /\ Waits(q, r.signal, c) /\ ~Waits(q, r.signal, c)'
    BY <1>1, <2>2 DEF TellsOnce, OneAnswer
  <2>4. QED  BY <2>1, <2>3 DEF Replied
<1>3. Asks(q, c)'
  <2>1. ASSUME NEW s \in {"offer", "answer"}, Replied(q, s, c)'
        PROVE  Desktop(q)' /\ (ui[q].steps[c])' = "sending"
    BY <1>1, <1>2, <2>1 DEF Desktop
  <2>2. ASSUME NEW s \in {"offer", "answer"}, Waits(q, s, c)', Desktop(q)'
        PROVE  (ui[q].steps[c])' = "sending" /\ ~Replied(q, s, c)'
    <3>1. Waits(q, s, c) /\ Desktop(q)  BY <1>1, <2>2, SignalsFact DEF Desktop
    <3>2. QED  BY <1>1, <1>2, <2>2, <3>1
  <2>3. QED  BY <2>1, <2>2 DEF Asks
<1>4. Rested(q, c)'
  <2>1. Rested(q, c)  BY DEF Upright
  <2>2. (ui[q].pending = c \/ Starting(q, c)) => Unasked(q, c)'
    <3> SUFFICES ASSUME ui[q].pending = c \/ Starting(q, c),
                        NEW s \in {"offer", "answer"}
                 PROVE  ~Waits(q, s, c)' /\ ~Replied(q, s, c)'
      BY DEF Unasked
    <3>1. ~Waits(q, s, c) /\ ~Replied(q, s, c)
      BY <2>1 DEF Rested, Opening, Starting, Unasked
    <3>2. QED  BY <1>1, <1>2, <3>1, SignalsFact
  <2>3. QED  BY <1>1, <2>1, <2>2 DEF Rested, Opening, Starting
<1>5. Settled(q, c)'  BY <1>1 DEF Upright, Settled
<1>6. Alike(q, c)'
  <2>1. PICK x : \A r \in replies'[q] : IsAnswer(r, c) =>
          r \in replies[q] \/ (r = x /\ Desktop(q) /\ Waits(q, r.signal, c))
    BY <1>1 DEF TellsOnce, OneAnswer
  <2>2. \A r, s \in replies[q] : IsAnswer(r, c) /\ IsAnswer(s, c) => r = s
    BY DEF Upright, Alike
  <2>3. ASSUME NEW r \in replies[q], NEW s, IsAnswer(r, c), IsAnswer(s, c),
               Desktop(q), Waits(q, s.signal, c)
        PROVE  FALSE
    <3>1. Replied(q, r.signal, c)  BY <2>3 DEF Replied, IsAnswer
    <3>2. r.signal = s.signal  BY <1>1, <2>3, <3>1 DEF RolesOf, IsAnswer
    <3>3. QED  BY <1>1, <2>3, <3>1, <3>2 DEF IsAnswer
  <2>4. \A r, s \in replies'[q] : IsAnswer(r, c) /\ IsAnswer(s, c) => r = s
    BY <2>1, <2>2, <2>3
  <2>5. QED  BY <2>4 DEF Alike, IsAnswer
<1>7. Turned(q, c)'
  <2> SUFFICES ASSUME Failed(q, c)' PROVE ui[q].activeCall # c
    BY <1>1 DEF Turned
  <2>1. CASE Failed(q, c)  BY <2>1 DEF Upright, Turned
  <2>2. CASE ~Failed(q, c)
    <3>1. PICK r \in replies'[q] : r.signal = "offer" /\ r.call = c /\ ~r.ok
      BY DEF Failed
    <3>2. IsAnswer(r, c) /\ r \notin replies[q]
      BY <2>2, <3>1 DEF IsAnswer, Failed
    <3>3. Desktop(q) /\ Waits(q, "offer", c)
      BY <1>1, <3>1, <3>2 DEF TellsOnce, OneAnswer
    <3>4. q = a /\ StartsFresh(a, c)  BY <1>1, <3>3, RelayingFacts DEF RolesOf
    <3>5. QED  BY <3>3, <3>4 DEF StartsFresh
  <2>3. QED  BY <2>1, <2>2
<1>8. Plain(q, c)'
  BY <1>1, RelayingFacts, SignalsFact DEF Upright, Plain, Desktop
<1>9. QED  BY <1>3, <1>4, <1>5, <1>6, <1>7, <1>8 DEF Upright

\* An engine that serves another call changes nothing of this one.
LEMMA StillRelays ==
  ASSUME NEW c, Still(c), NEW q \in Node, NEW m \in Node
  PROVE  Relays(m, q, c)
<1>1. /\ \A p \in Node : \A s : /\ Waits(p, s, c)' <=> Waits(p, s, c)
                                /\ Replied(p, s, c)' <=> Replied(p, s, c)
                                /\ Queued(p, s, c)' <=> Queued(p, s, c)
      /\ \A p \in Node : Failed(p, c)' => Failed(p, c)
      /\ \A p, o \in Node : \A s : OnWire(p, o, s, c)' <=> OnWire(p, o, s, c)
      /\ \A p, o \in Node : reading'[p][o] = c <=> reading[p][o] = c
  BY DEF Still, StillWaits, StillReplied, StillWire, StillQueued, StillReading
<1>2. Passes(m, q, c)  BY <1>1 DEF Passes
<1>3. Hails(m, q, c)  BY <1>1 DEF Hails
<1>4. QED  BY <1>2, <1>3 DEF Relays

LEMMA RefuseOfferRelays ==
  ASSUME NEW c, NEW a, NEW b, Serving(c, a, b), NEW n \in Node, NEW x \in cmds[n],
         RefuseOffer(n, x), c = x.call, NEW q, NEW m, Ends2(q, m, a, b)
  PROVE  Relays(m, q, c)
<1>1. /\ Taken(n, x) /\ Answered(n, x, FALSE) /\ x.signal = "offer"
      /\ wire' = wire /\ reading' = reading /\ events' = events
  BY DEF RefuseOffer, Requested
<1>2. /\ EngineTypes /\ Order /\ Served /\ a \in Node /\ b \in Node /\ a # b
      /\ q \in Node /\ m \in Node /\ OfferUnsent(a, b, c) /\ Between(c, a, b)
  BY ServingParts DEF Serving, Ends2
<1>3. Waits(n, "offer", c) /\ n = a /\ PeerOf(n, c) = b
  <2>1. Waits(n, "offer", c)  BY <1>1 DEF Waits
  <2>2. RolesOf(n, c, a, b)  BY <1>2, RolesFact
  <2>3. QED  BY <1>2, <2>1, <2>2 DEF RolesOf, Between
<1>4. ~Waits(a, "offer", c)'  BY <1>1, <1>2, <1>3, TakenGone
<1>5. ASSUME NEW p \in Node
      PROVE  /\ \A s : s # "offer" => /\ Waits(p, s, c)' <=> Waits(p, s, c)
                                      /\ Replied(p, s, c)' <=> Replied(p, s, c)
             /\ p # a => /\ Waits(p, "offer", c)' <=> Waits(p, "offer", c)
                         /\ Failed(p, c)' => Failed(p, c)
  <2>1. /\ p # n => SameRequests(p, x.call) /\ SameReplies(p, x.call)
        /\ \A s : s # x.signal => /\ Waits(p, s, x.call)' <=> Waits(p, s, x.call)
                                  /\ Replied(p, s, x.call)' <=> Replied(p, s, x.call)
    BY <1>1, <1>2, RequestAtoms
  <2>2. QED  BY <1>1, <1>3, <2>1 DEF SameRequests, SameReplies
<1>6. /\ \A p, o, s : OnWire(p, o, s, c)' <=> OnWire(p, o, s, c)
      /\ \A p, t : Queued(p, t, c)' <=> Queued(p, t, c)
  BY <1>1 DEF OnWire, Queued
\* An Android application is not told, and loses track of the call.
<1>7. Failed(a, c)'
  <2>1. CASE Desktop(a)
    <3>1. x.awaited  BY <1>1, <1>2, <1>3, <2>1 DEF Order, Awaits, Proper
    <3>2. [signal |-> x.signal, call |-> x.call, ok |-> FALSE] \in replies'[a]
      BY <1>1, <1>2, <1>3, <3>1 DEF EngineTypes, Answered
    <3>3. QED  BY <1>1, <3>2 DEF Failed
  <2>2. CASE ~Desktop(a)
    <3>1. Swallows(a, c)  BY <1>1, <1>3, <1>4, <2>2 DEF Swallows
    <3>2. QED  BY <1>2, <3>1 DEF Serving, LosesTrack
  <2>3. QED  BY <2>1, <2>2
<1>8. Passes(m, q, c)
  BY <1>1, <1>2, <1>5, <1>6, <1>7 DEF Passes, Ends2
<1>9. ~Coming(b, a, c)'
  <2>1. ~Offering(a, b, c)  BY <1>2, <1>3 DEF OfferUnsent, Unsent
  <2>2. QED  BY <1>1, <1>4, <1>6, <2>1 DEF Coming, Offering
<1>10. Hails(m, q, c)
  <2>1. Failed(m, c)' => Failed(m, c) \/ (Waits(m, "offer", c) /\ ~Coming(q, m, c)')
    BY <1>2, <1>3, <1>5, <1>9 DEF Ends2
  <2>2. QED  BY <1>2, <1>5, <1>6, <2>1 DEF Hails
<1>11. QED  BY <1>8, <1>10 DEF Relays

\* What is sent: signal x.signal, and an end also clears the call.
LEMMA SentRelays ==
  ASSUME NEW c, NEW a, NEW b, Serving(c, a, b), NEW n \in Node, NEW x \in cmds[n],
         NEW s, s = x.signal, c = x.call, Taken(n, x), Answered(n, x, TRUE),
         reading' = reading, wire' = Sent(n, PeerOf(n, c), Sig(s, c)),
         \/ s # "end" /\ events' = events
         \/ s = "end" /\ events' = Emitted(n, Ev("ended", c)),
         NEW q, NEW m, Ends2(q, m, a, b)
  PROVE  Relays(m, q, c)
<1>1. /\ EngineTypes /\ Order /\ a \in Node /\ b \in Node /\ a # b
      /\ q \in Node /\ m \in Node /\ Between(c, a, b) /\ c \in CallId
  BY ServingParts DEF Serving, Ends2
<1>2. /\ s \in Signals /\ PeerOf(n, c) \in Node /\ link[n][PeerOf(n, c)] = "up"
      /\ n \in {a, b}
  <2>1. Sends(n, x.signal, c)  BY <1>1, RequestAt
  <2>2. n \in {a, b}  BY <1>1, <2>1 DEF Sends, InCall, Between
  <2>3. QED  BY <1>1, <2>2, RequestAt
<1>3. PICK o \in Node : /\ o = PeerOf(n, c) /\ link[n][o] = "up"
                       /\ wire' = Sent(n, o, Sig(s, c))
  BY <1>2
<1>4. (n = q /\ o = m) \/ (n = m /\ o = q)
  BY <1>1, <1>2, <1>3 DEF Between, Ends2
<1>5. ASSUME NEW p \in Node
      PROVE  /\ \A t : Waits(p, t, c) => Waits(p, t, c)' \/ (p = n /\ t = s)
             /\ \A t : Replied(p, t, c)' => Replied(p, t, c) \/ (p = n /\ t = s)
             /\ Failed(p, c)' => Failed(p, c)
  <2>1. \A t : Waits(p, t, c) => Waits(p, t, c)' \/ (p = n /\ t = s)
    BY <1>1, TakenAtoms
  <2>2. /\ p # n => SameReplies(p, x.call)
        /\ \A t : t # x.signal => (Replied(p, t, x.call)' <=> Replied(p, t, x.call))
        /\ Failed(p, x.call)' => Failed(p, x.call)
    <3>1. EngineTypes /\ Answered(n, x, TRUE) /\ TRUE \in BOOLEAN  BY <1>1
    <3>2. QED  BY <3>1, RequestAtoms
  <2>3. QED  BY <2>1, <2>2 DEF SameReplies
<1>6. ASSUME NEW p \in Node, NEW k \in Node, NEW t
      PROVE  OnWire(p, k, t, c)' <=> OnWire(p, k, t, c) \/ (p = n /\ k = o /\ t = s)
  BY <1>1, <1>2, <1>3, SentAtoms
<1>7. \A p \in Node : \A t : Queued(p, t, c)' <=>
        Queued(p, t, c) \/ (p = n /\ t = "ended" /\ s = "end")
  <2>1. "ended" \in EventTypes  BY DEF EventTypes
  <2>2. CASE s # "end"  BY <2>2 DEF Queued
  <2>3. CASE s = "end"  BY <1>1, <2>1, <2>3, EmittedAtoms
  <2>4. QED  BY <2>2, <2>3
<1>8. OnWire(n, o, s, c)'  BY <1>6
<1>9. Passes(m, q, c)
  <2>1. Waits(m, "end", c) => Waits(m, "end", c)'
                                \/ (OnWire(m, q, "end", c)' /\ Queued(m, "ended", c)')
    BY <1>1, <1>4, <1>5, <1>7, <1>8
  <2>2. Waits(m, "offer", c) => Waits(m, "offer", c)' \/ OnWire(m, q, "offer", c)'
    BY <1>1, <1>4, <1>5, <1>8
  <2>3. QED  BY <1>1, <1>6, <1>7, <2>1, <2>2 DEF Passes
<1>10. Hails(m, q, c)
  <2>1. OnWire(q, m, "end", c)' => OnWire(q, m, "end", c) \/ Queued(q, "ended", c)'
    BY <1>1, <1>6, <1>7
  <2>2. Queued(m, "ended", c)' => Queued(m, "ended", c) \/ OnWire(m, q, "end", c)'
    BY <1>1, <1>4, <1>7, <1>8
  <2>3. Replied(m, "end", c)' => Replied(m, "end", c) \/ OnWire(m, q, "end", c)'
    BY <1>1, <1>4, <1>5, <1>8
  <2>4. QED  BY <1>1, <1>5, <2>1, <2>2, <2>3 DEF Hails
<1>11. QED  BY <1>9, <1>10 DEF Relays

LEMMA RequestRelays ==
  ASSUME NEW c, NEW a, NEW b, Serving(c, a, b), NEW n \in Node, NEW x \in cmds[n],
         \/ RefuseOffer(n, x) \/ SendOffer(n, x) \/ SendMedia(n, x) \/ SendEnd(n, x),
         c = x.call, NEW q, NEW m, Ends2(q, m, a, b)
  PROVE  Relays(m, q, c)
<1>1. Outcomes(n, PeerOf(n, x.call)) = {TRUE}
  BY RequestAt DEF Serving
<1>2. CASE RefuseOffer(n, x)  BY <1>2, RefuseOfferRelays
<1>3. CASE SendOffer(n, x)
  <2>1. /\ Taken(n, x) /\ Answered(n, x, TRUE) /\ x.signal = "offer" /\ reading' = reading
        /\ wire' = Sent(n, PeerOf(n, x.call), Sig("offer", x.call)) /\ events' = events
    BY <1>1, <1>3 DEF SendOffer, Requested
  <2>2. QED  BY <2>1, SentRelays
<1>4. CASE SendMedia(n, x)
  <2>1. /\ Taken(n, x) /\ Answered(n, x, TRUE) /\ x.signal \in {"answer", "ice"}
        /\ reading' = reading /\ events' = events
        /\ wire' = Sent(n, PeerOf(n, x.call), Sig(x.signal, x.call))
    BY <1>1, <1>4 DEF SendMedia, Requested
  <2>2. QED  BY <2>1, SentRelays
<1>5. CASE SendEnd(n, x)
  <2>1. /\ Taken(n, x) /\ Answered(n, x, TRUE) /\ x.signal = "end" /\ reading' = reading
        /\ wire' = Sent(n, PeerOf(n, x.call), Sig("end", x.call))
        /\ events' = Emitted(n, Ev("ended", x.call))
    BY <1>1, <1>5, SigFacts DEF SendEnd, Requested, ClearCall
  <2>2. QED  BY <2>1, SentRelays
<1>6. QED  BY <1>2, <1>3, <1>4, <1>5

-----------------------------------------------------------------------------
(* The read loop *)

LEMMA AcceptRelays ==
  ASSUME NEW c, NEW a, NEW b, Serving(c, a, b), NEW n \in Node, NEW o \in Node,
         AcceptOffer(n, o), c = reading[n][o], NEW q, NEW m, Ends2(q, m, a, b)
  PROVE  Relays(m, q, c)
<1>1. /\ EngineTypes /\ Order /\ a \in Node /\ b \in Node /\ a # b
      /\ q \in Node /\ m \in Node /\ c \in CallId
  BY ServingParts DEF Serving, Ends2
<1>2. /\ events' = Emitted(n, Ev("offer", c))
      /\ reading' = [reading EXCEPT ![n][o] = None]
      /\ wire' = wire /\ cmds' = cmds /\ replies' = replies
  BY DEF AcceptOffer, Ev
<1>3. \A p \in Node : \A t : Queued(p, t, c)' <=>
                               Queued(p, t, c) \/ (p = n /\ t = "offer")
  <2>1. "offer" \in EventTypes  BY DEF EventTypes
  <2>2. QED  BY <1>1, <1>2, <2>1, EmittedAtoms
<1>4. /\ \A p, s : /\ Waits(p, s, c)' <=> Waits(p, s, c)
                   /\ Replied(p, s, c)' <=> Replied(p, s, c)
                   /\ Failed(p, c)' <=> Failed(p, c)
      /\ \A p, k, s : OnWire(p, k, s, c)' <=> OnWire(p, k, s, c)
  BY <1>2 DEF Waits, Replied, Failed, OnWire
<1>5. reading[q][m] = c => reading'[q][m] = c \/ Queued(q, "offer", c)'
  <2>1. CASE q = n  BY <1>1, <1>3, <2>1
  <2>2. CASE q # n  BY <1>1, <1>2, <2>2 DEF EngineTypes, Tables
  <2>3. QED  BY <2>1, <2>2
<1>6. Passes(m, q, c)  BY <1>1, <1>3, <1>4, <1>5 DEF Passes
<1>7. Hails(m, q, c)  BY <1>1, <1>3, <1>4 DEF Hails
<1>8. QED  BY <1>6, <1>7 DEF Relays

\* Only the signal that is read leaves the wire.
LEMMA ReadLeaves ==
  ASSUME EngineTypes, NEW n \in Node, NEW o \in Node, NEW s, Incoming(n, o, s),
         wire' = Read(n, o), NEW c, c = Head(wire[o][n]).call,
         NEW p \in Node, NEW q \in Node, NEW t
  PROVE  /\ OnWire(p, q, t, c)' => OnWire(p, q, t, c)
         /\ OnWire(p, q, t, c) => OnWire(p, q, t, c)' \/ (p = o /\ q = n /\ t = s)
<1>1. wire' \in Wires /\ wire' = Read(n, o)  BY ReadFacts
<1>2. ASSUME NEW w \in Wires, w = Read(n, o)
      PROVE  /\ Has(w[p][q], Sig(t, c)) => OnWire(p, q, t, c)
             /\ OnWire(p, q, t, c) => Has(w[p][q], Sig(t, c)) \/ (p = o /\ q = n /\ t = s)
  BY <1>2, ReadAtoms
<1>3. OnWire(p, q, t, c)' <=> Has(wire'[p][q], Sig(t, c))  BY DEF OnWire
<1>4. QED  BY <1>1, <1>2, <1>3

LEMMA ReceiveRelays ==
  ASSUME NEW c, NEW a, NEW b, Serving(c, a, b), NEW n \in Node, NEW o \in Node,
         NEW s \in {"answer", "ice"}, ReceiveEnd(n, o) \/ ReceiveMedia(n, o, s),
         c = Head(wire[o][n]).call, NEW q, NEW m, Ends2(q, m, a, b)
  PROVE  Relays(m, q, c)
<1>1. /\ EngineTypes /\ Order /\ a \in Node /\ b \in Node /\ a # b
      /\ q \in Node /\ m \in Node /\ c \in CallId
  BY ServingParts DEF Serving, Ends2
<1>2. PICK t \in {"end", s} :
        /\ Incoming(n, o, t) /\ wire' = Read(n, o)
        /\ events' = Emitted(n, Ev(IF t = "end" THEN "ended" ELSE t, c))
        /\ cmds' = cmds /\ replies' = replies /\ reading' = reading
  <2>1. CASE ReceiveEnd(n, o)
    <3>1. /\ Incoming(n, o, "end") /\ wire' = Read(n, o) /\ events' = Emitted(n, Ended(c))
          /\ cmds' = cmds /\ replies' = replies /\ reading' = reading
      BY <2>1 DEF ReceiveEnd, ClearCall
    <3>2. Ended(c) = Ev("ended", c)  BY SigFacts
    <3>3. QED  BY <3>1, <3>2
  <2>2. CASE ReceiveMedia(n, o, s)
    <3>1. /\ Incoming(n, o, s) /\ wire' = Read(n, o) /\ events' = Emitted(n, Ev(s, c))
          /\ cmds' = cmds /\ replies' = replies /\ reading' = reading
      BY <2>2 DEF ReceiveMedia, Ev
    <3>2. s # "end"  OBVIOUS
    <3>3. QED  BY <3>1, <3>2
  <2>3. QED  BY <2>1, <2>2
<1>3. ASSUME NEW p \in Node, NEW k \in Node, NEW u
      PROVE  /\ OnWire(p, k, u, c)' => OnWire(p, k, u, c)
             /\ OnWire(p, k, u, c) => OnWire(p, k, u, c)' \/ (p = o /\ k = n /\ u = t)
  <2>1. /\ EngineTypes /\ Incoming(n, o, t) /\ wire' = Read(n, o)
        /\ c = Head(wire[o][n]).call
    BY <1>1, <1>2
  <2>2. QED  BY <2>1, ReadLeaves
<1>4. \A p \in Node : \A u : Queued(p, u, c)' <=>
        Queued(p, u, c) \/ (p = n /\ u = IF t = "end" THEN "ended" ELSE t)
  <2>1. (IF t = "end" THEN "ended" ELSE t) \in EventTypes  BY <1>2 DEF EventTypes
  <2>2. QED  BY <1>1, <1>2, <2>1, EmittedAtoms
<1>5. /\ \A p, u : /\ Waits(p, u, c)' <=> Waits(p, u, c)
                   /\ Replied(p, u, c)' <=> Replied(p, u, c)
                   /\ Failed(p, c)' <=> Failed(p, c)
  BY <1>2 DEF Waits, Replied, Failed
<1>6. Passes(m, q, c)
  <2>1. OnWire(m, q, "end", c) => OnWire(m, q, "end", c)' \/ Queued(q, "ended", c)'
    BY <1>1, <1>3, <1>4
  <2>2. OnWire(m, q, "offer", c) => OnWire(m, q, "offer", c)'
    BY <1>1, <1>2, <1>3
  <2>3. QED  BY <1>1, <1>2, <1>4, <1>5, <2>1, <2>2 DEF Passes
<1>7. Hails(m, q, c)
  <2>1. Queued(m, "ended", c)' => Queued(m, "ended", c) \/ OnWire(q, m, "end", c)
    <3> SUFFICES ASSUME Queued(m, "ended", c)', ~Queued(m, "ended", c)
                 PROVE  OnWire(q, m, "end", c)
      OBVIOUS
    <3>1. m = n /\ t = "end"  BY <1>1, <1>2, <1>4
    <3>2. OnWire(o, n, "end", c) /\ "end" \in Signals
      BY <1>1, <1>2, <3>1, ReadFacts, ReadAtoms, SignalsFact
    <3>3. (o = a /\ n = b) \/ (o = b /\ n = a)  BY <3>2, WireRoles
    <3>4. QED  BY <1>1, <3>1, <3>2, <3>3 DEF Ends2
  <2>2. QED  BY <1>1, <1>3, <1>5, <2>1 DEF Hails
<1>8. QED  BY <1>6, <1>7 DEF Relays

LEMMA TestRelays ==
  ASSUME NEW c, NEW a, NEW b, Serving(c, a, b), NEW n \in Node, NEW o \in Node,
         TestOffer(n, o), c = Head(wire[o][n]).call, NEW q, NEW m, Ends2(q, m, a, b)
  PROVE  Relays(m, q, c)
<1>1. /\ EngineTypes /\ Order /\ a \in Node /\ b \in Node /\ a # b
      /\ q \in Node /\ m \in Node /\ c \in CallId
  BY ServingParts DEF Serving, Ends2
<1>2. /\ Incoming(n, o, "offer") /\ wire' = Read(n, o)
      /\ reading' = [reading EXCEPT ![n][o] = c]
      /\ cmds' = cmds /\ replies' = replies /\ events' = events
  BY DEF TestOffer
<1>3. ASSUME NEW p \in Node, NEW k \in Node, NEW u
      PROVE  /\ OnWire(p, k, u, c)' => OnWire(p, k, u, c)
             /\ OnWire(p, k, u, c) => \/ OnWire(p, k, u, c)'
                                      \/ p = o /\ k = n /\ u = "offer"
  <2>1. /\ EngineTypes /\ Incoming(n, o, "offer") /\ wire' = Read(n, o)
        /\ c = Head(wire[o][n]).call
    BY <1>1, <1>2
  <2>2. QED  BY <2>1, ReadLeaves
<1>4. /\ \A p, u : /\ Waits(p, u, c)' <=> Waits(p, u, c)
                   /\ Replied(p, u, c)' <=> Replied(p, u, c)
                   /\ Queued(p, u, c)' <=> Queued(p, u, c)
                   /\ Failed(p, c)' <=> Failed(p, c)
  BY <1>2 DEF Waits, Replied, Failed, Queued
<1>5. /\ reading'[n][o] = c
      /\ \A p, k \in Node : reading[p][k] = c => reading'[p][k] = c
  BY <1>1, <1>2 DEF EngineTypes, Tables
<1>6. Passes(m, q, c)  BY <1>1, <1>3, <1>4, <1>5 DEF Passes
<1>7. Hails(m, q, c)  BY <1>1, <1>3, <1>4 DEF Hails
<1>8. QED  BY <1>6, <1>7 DEF Relays

\* A busy engine takes the offer away and ends the call.
LEMMA RejectRelays ==
  ASSUME NEW c, NEW a, NEW b, Serving(c, a, b), NEW n \in Node, NEW o \in Node \ {n},
         RejectOffer(n, o), c = Head(wire[o][n]).call, NEW q, NEW m, Ends2(q, m, a, b)
  PROVE  Relays(m, q, c)
<1>1. /\ EngineTypes /\ Order /\ a \in Node /\ b \in Node /\ a # b
      /\ q \in Node /\ m \in Node /\ c \in CallId
      /\ OfferUnsent(a, b, c) /\ OfferedOnce(a, b, c)
  BY ServingParts DEF Serving, Ends2
<1>2. /\ Incoming(n, o, "offer") /\ wire' = Refusal(n, o, c)
      /\ reading' = reading /\ cmds' = cmds /\ replies' = replies /\ events' = events
  BY DEF RejectOffer
<1>3. OnWire(o, n, "offer", c) /\ reading[n][o] = None
  BY <1>1, <1>2, ReadFacts, ReadAtoms DEF Incoming
<1>4. o = a /\ n = b  BY <1>1, <1>3, WireRoles, SignalsFact
<1>5. ASSUME NEW p \in Node, NEW k \in Node, NEW u
      PROVE  /\ OnWire(p, k, u, c)' => \/ OnWire(p, k, u, c)
                                       \/ p = n /\ k = o /\ u = "end"
             /\ OnWire(p, k, u, c) => \/ OnWire(p, k, u, c)'
                                      \/ p = o /\ k = n /\ u = "offer"
             /\ WireOrder(o, n, c) => ~OnWire(o, n, "offer", c)'
  <2>1. /\ EngineTypes /\ Incoming(n, o, "offer") /\ n \in Node /\ o \in Node \ {n}
        /\ wire' = Refusal(n, o, Head(wire[o][n]).call) /\ c = Head(wire[o][n]).call
    BY <1>1, <1>2
  <2>2. QED  BY <2>1, RefusedWire
<1>6. OnWire(n, o, "end", c)'
  <2>1. wire'[n][o] = Append(wire[n][o], Sig("end", c))
    BY <1>1, <1>2 DEF EngineTypes, Wires, Refusal, Read
  <2>2. wire[n][o] \in Seq(Signal)  BY <1>1 DEF EngineTypes, Wires
  <2>3. Sig("end", c) \in Signal  BY <1>1, SignalsFact DEF Sig, Signal
  <2>4. Has(Append(wire[n][o], Sig("end", c)), Sig("end", c))
    BY <2>2, <2>3, AppendHas
  <2>5. QED  BY <2>1, <2>4 DEF OnWire
<1>7. /\ \A p, u : /\ Waits(p, u, c)' <=> Waits(p, u, c)
                   /\ Replied(p, u, c)' <=> Replied(p, u, c)
                   /\ Queued(p, u, c)' <=> Queued(p, u, c)
                   /\ Failed(p, c)' <=> Failed(p, c)
  BY <1>2 DEF Waits, Replied, Failed, Queued
<1>8. ~Coming(b, a, c)'
  <2>1. ~Waits(a, "offer", c)  BY <1>1, <1>3, <1>4 DEF OfferUnsent, Unsent, Offering
  <2>2. ~OnWire(a, b, "offer", c)'  BY <1>1, <1>4, <1>5 DEF OfferedOnce
  <2>3. reading'[b][a] # c
    <3>1. reading'[b][a] = None  BY <1>2, <1>3, <1>4
    <3>2. QED  BY <1>1, <3>1, NoneFact
  <2>4. ~Queued(b, "offer", c)  BY <1>1, <1>3, <1>4 DEF OfferedOnce
  <2>5. QED  BY <1>7, <2>1, <2>2, <2>3, <2>4 DEF Coming
<1>9. Passes(m, q, c)
  <2>1. OnWire(m, q, "end", c) => OnWire(m, q, "end", c)'  BY <1>1, <1>5
  <2>2. OnWire(m, q, "offer", c) => OnWire(m, q, "offer", c)' \/ OnWire(q, m, "end", c)'
    BY <1>1, <1>5, <1>6
  <2>3. reading[q][m] = c => reading'[q][m] = c  BY <1>2
  <2>4. QED  BY <1>7, <2>1, <2>2, <2>3 DEF Passes
<1>10. Hails(m, q, c)
  <2>1. OnWire(q, m, "end", c)' =>
          OnWire(q, m, "end", c) \/ (OnWire(m, q, "offer", c) /\ ~Coming(q, m, c)')
    BY <1>1, <1>3, <1>4, <1>5, <1>8
  <2>2. QED  BY <1>1, <1>7, <2>1 DEF Hails
<1>11. QED  BY <1>9, <1>10 DEF Relays

LEMMA EngineRelays ==
  ASSUME NEW c, NEW a, NEW b, Serving(c, a, b), NEW n \in Node, EngineMoves(n),
         NEW q, NEW m, Ends2(q, m, a, b)
  PROVE  Relays(m, q, c)
<1>1. /\ EngineTypes /\ Order /\ Served /\ c \in CallId
      /\ a \in Node /\ b \in Node /\ q \in Node /\ m \in Node
  BY ServingParts DEF Serving, Ends2
<1>2. Still(c) => Relays(m, q, c)  BY <1>1, StillRelays
<1>3. ASSUME NEW x \in cmds[n],
             RefuseOffer(n, x) \/ SendOffer(n, x) \/ SendMedia(n, x) \/ SendEnd(n, x)
      PROVE  Relays(m, q, c)
  <2>1. \A d \in CallId \ {x.call} : Still(d)
    BY <1>1, <1>3, RefuseOfferStill, SendOfferStill, SendMediaStill, SendEndStill
  <2>2. CASE c = x.call  BY <1>3, <2>2, RequestRelays
  <2>3. QED  BY <1>1, <1>2, <2>1, <2>2
<1>4. ASSUME NEW o \in Node, AcceptOffer(n, o) PROVE Relays(m, q, c)
  <2>1. \A d \in CallId \ {reading[n][o]} : Still(d)  BY <1>1, <1>4, AcceptOfferStill
  <2>2. CASE c = reading[n][o]  BY <1>4, <2>2, AcceptRelays
  <2>3. QED  BY <1>1, <1>2, <2>1, <2>2
<1>5. ASSUME NEW o \in Node \ {n}, NEW s \in {"answer", "ice"},
             \/ ReceiveEnd(n, o) \/ ReceiveMedia(n, o, s)
             \/ RejectOffer(n, o) \/ TestOffer(n, o)
      PROVE  Relays(m, q, c)
  <2> DEFINE k == Head(wire[o][n]).call
  <2>1. \A d \in CallId \ {k} : Still(d)
    BY <1>1, <1>5, ReceiveEndStill, ReceiveMediaStill, RejectOfferStill, TestOfferStill
  <2>2. CASE c = k  BY <1>5, <2>2, ReceiveRelays, RejectRelays, TestRelays
  <2> HIDE DEF k
  <2>3. QED  BY <1>1, <1>2, <2>1, <2>2
<1>6. CASE EngineWorks(n)
  <2>1. \/ \E x \in cmds[n] : \/ RefuseOffer(n, x) \/ SendOffer(n, x)
                              \/ SendMedia(n, x) \/ SendEnd(n, x)
        \/ \E o \in Node : AcceptOffer(n, o)
    BY <1>1, <1>6, NoLoss DEF EngineWorks
  <2>2. QED  BY <1>3, <1>4, <2>1
<1>7. CASE Receives(n)
  <2>1. \E o \in Node \ {n}, s \in {"answer", "ice"} :
          \/ ReceiveEnd(n, o) \/ ReceiveMedia(n, o, s)
          \/ RejectOffer(n, o) \/ TestOffer(n, o)
    BY <1>1, <1>7, NoLoss DEF Receives
  <2>2. QED  BY <1>5, <2>1
<1>8. QED  BY <1>6, <1>7 DEF EngineMoves

LEMMA EngineMates ==
  ASSUME NEW c, NEW a, NEW b, Serving(c, a, b), app' = app, NEW n \in Node,
         EngineMoves(n), Sources(n), Mates(a, b, c)
  PROVE  Mates(a, b, c)'
<1>1. /\ EngineTypes /\ Order /\ Served /\ c \in CallId /\ a \in Node /\ b \in Node
  BY ServingParts DEF Serving
<1>2. From(n, c)  BY <1>1 DEF Sources
<1>3. ASSUME NEW q, NEW m, Ends2(q, m, a, b), Mate(q, m, c) PROVE Mate(q, m, c)'
  <2>1. q \in Node /\ m \in Node /\ Ends2(m, q, a, b)  BY <1>1, <1>3 DEF Ends2
  <2>2. Relays(m, q, c) /\ Relays(q, m, c)  BY <1>3, <2>1, EngineRelays
  <2>3. TellsOnce(q, c) /\ TellsOnce(m, c)  BY <1>1, <2>1, EngineAnswers
  <2>4. Relaying(n, q, m, c, a, b)  BY <1>2, <1>3, <2>2, <2>3 DEF Relaying
  <2>5. QED  BY <1>3, <2>4, UprightRelayed, PartingRelayed, CompanyRelayed DEF Mate
<1>4. Ends2(a, b, a, b) /\ Ends2(b, a, a, b)  BY DEF Ends2
<1>5. QED  BY <1>3, <1>4 DEF Mates

-----------------------------------------------------------------------------
(* Company in every call *)

Companions == breaks = 0 => \A c \in Kept : Mates(Caller(c), Callee(c), c)

\* Nothing changes.
LEMMA SameMates ==
  ASSUME UNCHANGED vars, NEW a, NEW b, NEW c, Mates(a, b, c)
  PROVE  Mates(a, b, c)'
<1>1. /\ ui' = ui /\ app' = app /\ party' = party
      /\ cmds' = cmds /\ replies' = replies /\ wire' = wire /\ events' = events
      /\ reading' = reading
  BY DEF vars, engineVars
<1>2. ASSUME NEW q, NEW m
      PROVE  /\ \A s : Waits(q, s, c)' <=> Waits(q, s, c)
             /\ \A s : Replied(q, s, c)' <=> Replied(q, s, c)
             /\ \A s : Queued(q, s, c)' <=> Queued(q, s, c)
             /\ \A s : OnWire(q, m, s, c)' <=> OnWire(q, m, s, c)
             /\ Failed(q, c)' <=> Failed(q, c)
             /\ On(q, c)' <=> On(q, c)
             /\ Starting(q, c)' <=> Starting(q, c)
             /\ Desktop(q)' <=> Desktop(q)
             /\ Caller(c)' = Caller(c)
  BY <1>1 DEF Waits, Replied, Queued, OnWire, Failed, On, Shows, Prepares, Starting,
     Desktop, Caller
<1>3. ASSUME NEW q, NEW m, Mate(q, m, c) PROVE Mate(q, m, c)'
  <2>1. Coming(q, m, c)' <=> Coming(q, m, c)  BY <1>1, <1>2 DEF Coming
  <2>2. Coming(m, q, c)' <=> Coming(m, q, c)  BY <1>1, <1>2 DEF Coming
  <2>3. Ending(q, m, c)' <=> Ending(q, m, c)  BY <1>2 DEF Ending
  <2>4. Parting(q, m, c)'  BY <1>2, <1>3, <2>1, <2>3 DEF Mate, Parting, Parted, OutOf
  <2>5. Company(q, m, c)'
    BY <1>2, <1>3, <2>1, <2>2, <2>3 DEF Mate, Company, Reaching
  <2>6. Rested(q, c)' /\ Settled(q, c)' /\ Asks(q, c)'
    BY <1>1, <1>2, <1>3 DEF Mate, Upright, Rested, Opening, Starting, Unasked, Settled, Asks
  <2>7. Alike(q, c)' /\ Turned(q, c)' /\ Plain(q, c)'
    BY <1>1, <1>2, <1>3 DEF Mate, Upright, Alike, IsAnswer, Turned, Plain
  <2>8. QED  BY <2>4, <2>5, <2>6, <2>7 DEF Mate, Upright
<1>4. QED  BY <1>3 DEF Mates

LEMMA CompanionsStep == CallInv /\ Sound /\ Companions /\ [Next]_vars => Companions'
<1> SUFFICES ASSUME CallInv, Sound, Companions, [Next]_vars, breaks' = 0,
                    NEW c \in Kept', NEW a, NEW b, a = Caller(c)', b = Callee(c)'
             PROVE  Mates(a, b, c)'
  <2>1. ASSUME CallInv, Sound, Companions, [Next]_vars, breaks' = 0, NEW c \in Kept'
        PROVE  Mates(Caller(c), Callee(c), c)'
    BY <2>1
  <2>2. QED  BY <2>1 DEF Companions
<1>1. EngineTypes /\ UiTypes  BY DEF CallInv, CallTypes, AppTypes, UiTypes
<1>2. CASE UNCHANGED vars
  <2>1. party' = party /\ astray' = astray /\ breaks' = breaks
    BY <1>2 DEF vars, engineVars
  <2>2. c \in Kept /\ a = Caller(c) /\ b = Callee(c)
    BY <2>1 DEF Kept, Made, Caller, Callee
  <2>3. Mates(a, b, c)  BY <2>1, <2>2 DEF Companions
  <2>4. QED  BY <1>2, <2>3, SameMates
<1>3. CASE Next
  <2>1. app' = app /\ ((\E n \in Node : AppMoves(n) \/ EngineMoves(n)) \/ LinkMoves)
    BY <1>1, <1>3, MovesFacts
  <2>2. breaks = 0  BY <1>1, <2>1, BreaksGrow
  <2>3. /\ Order /\ \A d \in Kept : Tracked(Caller(d), Callee(d), d)
        /\ \A d \in Kept : Mates(Caller(d), Callee(d), d)
    BY <2>2 DEF Sound, Order, Companions
  <2>4. ASSUME NEW n \in Node, AppMoves(n) PROVE Mates(a, b, c)'
    <3>1. party' = party \/ Begins(n)  BY <2>4, AppParty
    <3>2. CASE /\ c \in Kept /\ ~LosesTrack(c)
               /\ Between(c, Caller(c), Callee(c)) /\ c # NextCall
               /\ Caller(c)' = Caller(c) /\ Callee(c)' = Callee(c)
      <4>1. Between(c, a, b) /\ Tracked(a, b, c) /\ Mates(a, b, c)  BY <2>3, <3>2
      <4>2. c \in CallId  BY <4>1 DEF Between, Made
      <4>3. AppStep(n, c)  BY <1>1, <2>4, <4>2, AppSteps
      <4>4. Moving(n, c, a, b)  BY <1>1, <2>1, <2>3, <3>2, <4>1, <4>3 DEF Moving
      <4>5. Finer(n, c) /\ Firm(n, c)  BY <1>1, <2>1, <2>4, <4>2, FinerFact, FirmFact
      <4>6. Going(n, c, a, b)  BY <2>2, <3>2, <4>4, <4>5 DEF Going
      <4>7. QED  BY <4>1, <4>6, AppMates
    <3>3. CASE /\ c \in CallId \ Made /\ Begins(n)
               /\ Caller(c)' = n /\ Callee(c)' \in Node \ {n}
      <4>1. AppStep(n, c)  BY <1>1, <2>4, <3>3, AppSteps
      <4>2. Finer(n, c)  BY <1>1, <2>1, <2>4, <3>3, FinerFact
      <4>3. a = n /\ b \in Node \ {n} /\ Caller(c)' = a  BY <3>3
      <4>4. QED  BY <1>1, <2>3, <3>3, <4>1, <4>2, <4>3, BeginMates
    <3>4. QED  BY <1>1, <1>3, <2>3, <3>1, <3>2, <3>3, KeptFacts
  <2>5. ASSUME NEW n \in Node, EngineMoves(n) PROVE Mates(a, b, c)'
    <3>1. Sources(n)  BY <1>1, <2>1, <2>3, <2>5, EngineSteps
    <3>2. party' = party  BY <2>5, EngineParty
    <3>3. Served  BY <2>1, <2>5, <3>2 DEF Served, EngineMoves
    <3>4. c \in Made  BY <3>2, SameMade DEF Kept
    <3>5. /\ c \in Kept /\ ~LosesTrack(c) /\ Between(c, Caller(c), Callee(c))
          /\ Caller(c)' = Caller(c) /\ Callee(c)' = Callee(c)
      BY <1>1, <1>3, <2>3, <3>2, <3>4, KeptFacts
    <3>6. Between(c, a, b) /\ Tracked(a, b, c) /\ Mates(a, b, c)  BY <2>3, <3>5
    <3>7. Serving(c, a, b)  BY <1>1, <2>3, <3>3, <3>5, <3>6 DEF Serving
    <3>8. QED  BY <2>1, <2>5, <3>1, <3>6, <3>7, EngineMates
  <2>6. ~LinkMoves  BY <2>2, <2>3, NoLinkMoves
  <2>7. QED  BY <2>1, <2>4, <2>5, <2>6
<1>4. QED  BY <1>2, <1>3

LEMMA CompanionsInit == Init => Companions
<1> SUFFICES ASSUME Init PROVE Kept = {}
  BY DEF Companions
<1>1. party = [c \in CallId |-> <<>>]  BY DEF Init, EngineInit
<1>2. QED  BY <1>1 DEF Kept, Made

LEMMA CompanionsFollow ==
  CallInv /\ Sound /\ Companions => (breaks = 0 => NobodyCallsAlone)
<1> SUFFICES ASSUME CallInv, Sound, Companions, breaks = 0, Quiet, NEW n \in Node,
                    ui[n].activeCall \notin astray, ui[n].activeCall # None
             PROVE  Shares(n, ui[n].activeCall)
  BY DEF NobodyCallsAlone
<1>1. UiTypes  BY DEF CallInv, CallTypes, AppTypes, UiTypes
<1>2. Order /\ \A d \in Kept : Mates(Caller(d), Callee(d), d)
  BY DEF Sound, Order, Companions
<1>3. PICK c \in CallId : ui[n].activeCall = c
  BY <1>1 DEF UiTypes, State, Calls
<1>4. InCall(n, c)  BY <1>2, <1>3 DEF Order, Belongs, UiOf
<1>5. c \in Kept /\ Between(c, Caller(c), Callee(c))
  BY <1>2, <1>3, <1>4, BetweenFact DEF InCall, Kept, Order
<1>6. PICK m \in Node : m = PeerOf(n, c) /\ Mate(n, m, c)
  BY <1>2, <1>4, <1>5 DEF InCall, Between, Mates
<1>7. /\ \A q \in Node : /\ cmds[q] = {} /\ replies[q] = {} /\ events[q] = <<>>
                         /\ ui[q].steps[c] = "none"
                         /\ \A p \in Node : reading[q][p] = None /\ wire[q][p] = <<>>
  BY DEF Quiet, Busy
<1>8. ASSUME NEW q \in Node
      PROVE  /\ ~Prepares(q, c) /\ ~Starting(q, c) /\ ~Failed(q, c)
             /\ \A s : ~Waits(q, s, c) /\ ~Replied(q, s, c) /\ ~Queued(q, s, c)
             /\ \A p \in Node : ~OnWire(q, p, "end", c) /\ ~OnWire(q, p, "offer", c)
  BY <1>7 DEF Prepares, Starting, Failed, Waits, Replied, Queued, OnWire, Has
<1>9. ~Coming(m, n, c)  BY <1>7, <1>8, NoneFact DEF Coming
<1>10. On(n, c)  BY <1>3 DEF On, Shows
<1>11. On(m, c)
  BY <1>6, <1>8, <1>9, <1>10 DEF Mate, Company, Ending, Reaching
<1>12. QED  BY <1>3, <1>6, <1>8, <1>11 DEF On, Shows, Shares

\* "Call ends both sides when one peer hangs up" (CHANGELOG.md:97), for any
\* number of devices and calls: while no link has been lost, whatever the users,
\* the two applications, the engines and the microphones do, when everything has
\* been delivered nobody sits in a call that the peer neither rings for nor is
\* in, unless an application lost track of it.
THEOREM NobodyAlone == Spec => [](breaks = 0 => NobodyCallsAlone)
<1>1. Init => CallInv /\ Sound /\ Companions  BY CallInit, SoundInit, CompanionsInit
<1>2. CallInv /\ Sound /\ Companions /\ [Next]_vars => (CallInv /\ Sound /\ Companions)'
  BY CallStep, SoundStep, CompanionsStep
<1>3. CallInv /\ Sound /\ Companions => (breaks = 0 => NobodyCallsAlone)
  BY CompanionsFollow
<1>4. QED  BY <1>1, <1>2, <1>3, PTL DEF Spec
=============================================================================
