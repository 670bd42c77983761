------------------------- MODULE SerialLink_proofs -------------------------
(***************************************************************************)
(* Proofs about SerialLink for every window, limit, size of messages and   *)
(* number of links, disconnects and failures; that it implements           *)
(* MessageStream.                                                          *)
(***************************************************************************)
EXTENDS SerialLink, SequenceTheorems, TLAPS

-----------------------------------------------------------------------------
(* Two ends; sequences *)

LEMMA PeerFacts ==
  ASSUME NEW e \in End
  PROVE  /\ Peer(e) \in End /\ Peer(e) # e /\ Peer(Peer(e)) = e
         /\ \A x \in End : x = e \/ x = Peer(e)
<1>1. PICK a, b \in End : a # b /\ End = {a, b}  BY EndAssumption
<1>2. \A x \in End : Peer(x) \in End /\ Peer(x) # x
  <2> TAKE x \in End
  <2>1. \E q \in End : q # x  BY <1>1
  <2>2. QED  BY <2>1 DEF Peer
<1>3. QED  BY <1>1, <1>2

\* Putting an event in a queue, and taking the first.
LEMMA AppendFacts ==
  ASSUME NEW T, NEW q \in Seq(T), NEW v \in T
  PROVE  /\ Append(q, v) \in Seq(T) /\ Len(Append(q, v)) = Len(q) + 1
         /\ Range(Append(q, v)) = Range(q) \cup {v}
<1>1. Append(q, v) \in Seq(T) /\ Len(Append(q, v)) = Len(q) + 1
  OBVIOUS
<1>2. \A i \in 1 .. Len(q) : Append(q, v)[i] = q[i]
  OBVIOUS
<1>3. Append(q, v)[Len(q) + 1] = v
  OBVIOUS
<1>4. /\ Len(q) \in Nat /\ DOMAIN q = 1 .. Len(q)
      /\ DOMAIN Append(q, v) = 1 .. Len(q) + 1
  BY <1>1
<1>5. \A i \in DOMAIN Append(q, v) : i \in DOMAIN q \/ i = Len(q) + 1
  BY <1>4
<1>6. Range(Append(q, v)) \subseteq Range(q) \cup {v}
  BY <1>2, <1>3, <1>4, <1>5 DEF Range
<1>7. Range(q) \cup {v} \subseteq Range(Append(q, v))
  BY <1>2, <1>3, <1>4 DEF Range
<1>8. QED  BY <1>1, <1>6, <1>7

LEMMA TailFacts ==
  ASSUME NEW T, NEW q \in Seq(T), q # <<>>
  PROVE  /\ Head(q) \in T /\ Tail(q) \in Seq(T) /\ Len(Tail(q)) = Len(q) - 1
         /\ Range(Tail(q)) \subseteq Range(q)
         /\ \A v \in Range(q) : v = Head(q) \/ v \in Range(Tail(q))
         /\ Head(q) \in Range(q)
<1>1. /\ Head(q) \in T /\ Tail(q) \in Seq(T) /\ Len(Tail(q)) = Len(q) - 1
      /\ Head(q) = q[1] /\ \A i \in 1 .. Len(Tail(q)) : Tail(q)[i] = q[i + 1]
      /\ Len(q) \in Nat /\ Len(q) >= 1 /\ DOMAIN q = 1 .. Len(q)
      /\ DOMAIN Tail(q) = 1 .. Len(q) - 1
  BY HeadTailProperties
<1>2. ASSUME NEW i \in DOMAIN q
      PROVE  i = 1 \/ (i - 1 \in DOMAIN Tail(q) /\ Tail(q)[i - 1] = q[i])
  BY <1>1
<1>3. \A i \in DOMAIN Tail(q) : i + 1 \in DOMAIN q /\ Tail(q)[i] = q[i + 1]
  BY <1>1
<1>4. Range(Tail(q)) \subseteq Range(q)
  BY <1>3 DEF Range
<1>5. ASSUME NEW v \in Range(q), v # Head(q)  PROVE v \in Range(Tail(q))
  <2>1. PICK i \in DOMAIN q : v = q[i]  BY DEF Range
  <2>2. i # 1  BY <1>1, <1>5, <2>1
  <2>3. i - 1 \in DOMAIN Tail(q) /\ v = Tail(q)[i - 1]  BY <1>2, <2>1, <2>2
  <2>4. QED  BY <2>3 DEF Range
<1>6. Head(q) \in Range(q)
  BY <1>1 DEF Range
<1>7. QED  BY <1>1, <1>4, <1>5, <1>6

\* The fragments of a message (fragment): how many, and what.
LEMMA SizeLimit == \A m \in Nat \ {0} : Size(m) \in 1 .. MessageLimit
<1> TAKE m \in Nat \ {0}
<1>1. Len(Fragments) \in Nat /\ Len(Fragments) >= 1 /\ DOMAIN Fragments = 1 .. Len(Fragments)
  BY SizeAssumption, EmptySeq, LenProperties
<1>2. ((m - 1) % Len(Fragments)) + 1 \in 1 .. Len(Fragments)
  BY <1>1
<1>3. QED  BY <1>1, <1>2, SizeAssumption, ElementOfSeq DEF Size

LEMMA SplitType ==
  ASSUME NEW m \in Nat, m # 0
  PROVE  Split(m) \in Seq(Fragment) /\ Size(m) \in Nat /\ Size(m) >= 1
<1>1. Size(m) \in 1 .. MessageLimit
  BY SizeLimit
<1>2. Size(m) \in Nat /\ Size(m) >= 1
  BY <1>1, SizeAssumption
<1>3. \A i \in 1 .. Size(m) : [message |-> m, part |-> i] \in Fragment
  BY <1>2 DEF Fragment
<1>4. QED  BY <1>2, <1>3, IsASeq DEF Split

-----------------------------------------------------------------------------
(* The types *)

LEMMA ActionCases ==
  ASSUME [Next]_vars, NEW P,
         UNCHANGED vars => P,
         \A e \in End :
           /\ (Connect(e) => P) /\ (Teardown(e) => P) /\ (Stop(e) => P)
           /\ (GiveUp(e) => P) /\ (ReadThreadEnds(e) => P) /\ (Unplug(e) => P)
           /\ (UserSends(e) => P) /\ (TakeOutbound(e) => P) /\ (AcceptFrame(e) => P)
           /\ (Report(e) => P) /\ (ReadAck(e) => P)
           /\ \A g \in Links :
                /\ (SendDisconnected(e, g) => P) /\ (OnConnected(e, g) => P)
                /\ (OnError(e, g) => P) /\ (OnDisconnected(e, g) => P)
                /\ (OnMessage(e, g) => P) /\ (SendAnswer(e, g) => P)
                /\ (AnswerFails(e, g) => P)
  PROVE  P
<1>1. CASE UNCHANGED vars  BY <1>1
<1>2. ASSUME NEW e \in End,
             \/ Connect(e) \/ Teardown(e) \/ Unplug(e) \/ UserSends(e)
             \/ GiveUp(e) \/ ReadThreadEnds(e) \/ LinkTask(e)
             \/ \E g \in Links : SendDisconnected(e, g) \/ EventTask(e, g)
      PROVE  P
  BY <1>2 DEF LinkTask, EventTask
<1>3. QED  BY <1>1, <1>2 DEF Next

\* What an end's queue of events may be, before and after.
LEMMA PutType ==
  ASSUME TypeOK, NEW e \in End, NEW g \in Links, NEW ev \in Event,
         Room(e, g), Put(e, g, ev)
  PROVE  /\ events' \in [End -> [Links -> Seq(Event)]]
         /\ \A x \in End, h \in Links : Len(events'[x][h]) <= EventCap
<1>1. Append(events[e][g], ev) \in Seq(Event) /\ Len(Append(events[e][g], ev)) <= EventCap
  BY AppendFacts, SizeAssumption DEF TypeOK, EventTypes, Limits, Room
<1>2. QED  BY <1>1 DEF TypeOK, EventTypes, Limits, Put

LEMMA TakesType ==
  ASSUME TypeOK, NEW e \in End, NEW g \in Links, NEW k, Takes(e, g, k)
  PROVE  /\ events' \in [End -> [Links -> Seq(Event)]]
         /\ \A x \in End, h \in Links : Len(events'[x][h]) <= EventCap
<1>1. /\ Tail(events[e][g]) \in Seq(Event) /\ Len(Tail(events[e][g])) <= EventCap
  BY TailFacts, SizeAssumption, LenProperties DEF TypeOK, EventTypes, Limits, Takes
<1>2. QED  BY <1>1 DEF TypeOK, EventTypes, Limits, Takes

LEMMA SentType ==
  ASSUME TypeOK, NEW e \in End
  PROVE  /\ Len(line[e]) \in Nat /\ Sent(e) \in Nat
         /\ Sent(e) <= Len(line[e]) /\ Sent(e) <= acked[e] + Window
<1>1. Len(line[e]) \in Nat /\ acked[e] \in Nat /\ Window \in Nat
  BY LenProperties, SizeAssumption DEF TypeOK, LinkTypes
<1>2. QED  BY <1>1 DEF Sent, Min2

LEMMA EventFacts ==
  /\ [kind |-> "connected"] \in Event
  /\ [kind |-> "disconnected"] \in Event
  /\ [kind |-> "error"] \in Event
  /\ \A parts \in Seq(Fragment), h \in 0 .. MaxLinks :
       [kind |-> "data", parts |-> parts, from |-> h] \in Event
BY DEF Event

LEMMA NoSeq ==
  /\ Len(<<>>) = 0 /\ <<>> \in Seq(Fragment) /\ <<>> \in Seq(Nat \ {0})
BY EmptySeq

\* A message is put in the channel of outbound messages.
LEMMA EnqueueType ==
  ASSUME TypeOK, NEW e \in End, Enqueue(e)
  PROVE  /\ outbound' \in [End -> Seq(Nat \ {0})]
         /\ \A x \in End : Len(outbound'[x]) <= OutboundCap
         /\ made' \in [End -> Nat] /\ troubles' \in 0 .. MaxTroubles
<1>1. made[e] + 1 \in Nat \ {0}
  BY DEF TypeOK, CountTypes
<1>2. /\ Append(outbound[e], made[e] + 1) \in Seq(Nat \ {0})
      /\ Len(Append(outbound[e], made[e] + 1)) <= OutboundCap
  BY <1>1, AppendFacts, LenProperties, SizeAssumption DEF TypeOK, LinkTypes, Enqueue
<1>3. QED  BY <1>1, <1>2 DEF TypeOK, LinkTypes, Limits, CountTypes, Enqueue

LEMMA TypeStep ==
  ASSUME TypeOK, [Next]_vars
  PROVE  TypeOK'
<1> USE DEF portVars, linkVars, engineVars, countVars, historyVars
<1>0. ASSUME UNCHANGED vars  PROVE TypeOK'
  BY <1>0 DEF TypeOK, PortTypes, LinkTypes, EventTypes, EngineTypes, CountTypes,
              HistoryTypes, Limits, Opened, vars
<1>1. ASSUME NEW e \in End, Connect(e)  PROVE TypeOK'
  <2>1. gen[e] + 1 \in Links /\ Room(e, gen[e] + 1)
    <3>1. gen[e] + 1 \in Links /\ gen[e] + 1 > gen[e]
      BY <1>1 DEF TypeOK, PortTypes, Connect
    <3>2. events[e][gen[e] + 1] = <<>>
      BY <3>1 DEF TypeOK, Opened
    <3>3. QED  BY <3>1, <3>2, NoSeq, SizeAssumption DEF Room
  <2>2. EngineTypes' /\ CountTypes' /\ HistoryTypes'
    BY <1>1 DEF TypeOK, EngineTypes, CountTypes, HistoryTypes, Connect
  <2>3. PortTypes'
    BY <1>1 DEF TypeOK, PortTypes, Links, Connect
  <2>4. LinkTypes'
    BY <1>1, NoSeq DEF TypeOK, LinkTypes, Connect
  <2>5. EventTypes'
    BY <1>1, <2>1, PutType, EventFacts DEF TypeOK, EventTypes, Connect
  <2>6. Limits'
    <3>1. \A x \in End, h \in Links : Len(events'[x][h]) <= EventCap
      BY <1>1, <2>1, PutType, EventFacts DEF Connect
    <3>2. \A x \in End : Len(outbound'[x]) <= OutboundCap /\ Len(reassembly'[x]) <= MessageLimit
      BY <1>1, NoSeq, SizeAssumption DEF TypeOK, LinkTypes, Limits, Connect
    <3>3. \A x \in End : acked'[x] <= Len(line'[x])
      BY <1>1, NoSeq DEF TypeOK, LinkTypes, Limits, Connect
    <3>4. QED  BY <3>1, <3>2, <3>3 DEF Limits
  <2>7. Opened'
    <3>1. \A x \in End : gen[x] \in Int /\ gen'[x] = IF x = e THEN gen[x] + 1 ELSE gen[x]
      BY <1>1 DEF TypeOK, PortTypes, Connect
    <3>2. \A x \in End : owes'[x] \subseteq 1 .. gen'[x]
      BY <1>1, <3>1 DEF TypeOK, Opened, Connect
    <3>3. \A x \in End : phase'[x] # "off" \/ reading'[x] => gen'[x] >= 1
      BY <1>1, <3>1, <2>1 DEF TypeOK, Opened, LinkTypes, PortTypes, Links, Connect
    <3>4. ASSUME NEW x \in End, NEW h \in Links, h > gen'[x]  PROVE events'[x][h] = <<>>
      <4>1. h > gen[x] /\ (x = e => h # gen[e] + 1)
        BY <3>1, <3>4 DEF Links
      <4>2. QED  BY <1>1, <4>1 DEF TypeOK, Opened, EventTypes, Connect, Put
    <3>5. QED  BY <3>2, <3>3, <3>4 DEF Opened
  <2>8. QED  BY <2>2, <2>3, <2>4, <2>5, <2>6, <2>7 DEF TypeOK
<1>2. ASSUME NEW e \in End, Teardown(e)  PROVE TypeOK'
  <2>1. PortTypes' /\ LinkTypes' /\ EventTypes' /\ EngineTypes' /\ HistoryTypes' /\ Limits'
    <3>1. PortTypes' /\ EngineTypes'
      BY <1>2 DEF TypeOK, PortTypes, EngineTypes, Teardown
    <3>2. LinkTypes' /\ EventTypes'
      BY <1>2 DEF TypeOK, LinkTypes, EventTypes, Teardown
    <3>3. HistoryTypes' /\ Limits'
      BY <1>2 DEF TypeOK, HistoryTypes, Limits, Teardown
    <3>4. QED  BY <3>1, <3>2, <3>3
  <2>2. CountTypes'
    BY <1>2, SizeAssumption DEF TypeOK, CountTypes, Teardown, Trouble
  <2>3. Opened'
    BY <1>2 DEF TypeOK, Opened, PortTypes, LinkTypes, EventTypes, Links, Teardown
  <2>4. QED  BY <2>1, <2>2, <2>3 DEF TypeOK
<1>3. ASSUME NEW e \in End, Stop(e)  PROVE TypeOK'
  <2>1. PortTypes' /\ EventTypes' /\ EngineTypes' /\ CountTypes' /\ HistoryTypes'
    BY <1>3 DEF TypeOK, PortTypes, EventTypes, EngineTypes, CountTypes, HistoryTypes, Stop, Return
  <2>2. LinkTypes'
    BY <1>3, NoSeq DEF TypeOK, LinkTypes, PortTypes, Opened, Links, Stop, Return
  <2>3. Limits'
    BY <1>3, NoSeq, SizeAssumption DEF TypeOK, Limits, LinkTypes, Stop, Return
  <2>4. Opened'
    BY <1>3 DEF TypeOK, Opened, PortTypes, LinkTypes, EventTypes, Links, Stop, Return
  <2>5. QED  BY <2>1, <2>2, <2>3, <2>4 DEF TypeOK
<1>4. ASSUME NEW e \in End, GiveUp(e)  PROVE TypeOK'
  <2>1. PortTypes' /\ EventTypes' /\ EngineTypes' /\ HistoryTypes'
    BY <1>4 DEF TypeOK, PortTypes, EventTypes, EngineTypes, HistoryTypes, GiveUp, Return, Trouble
  <2>2. LinkTypes'
    BY <1>4, NoSeq DEF TypeOK, LinkTypes, PortTypes, Opened, Links, GiveUp, Return
  <2>3. Limits'
    BY <1>4, NoSeq, SizeAssumption DEF TypeOK, Limits, LinkTypes, GiveUp, Return, Trouble
  <2>4. CountTypes'
    BY <1>4, SizeAssumption DEF TypeOK, CountTypes, GiveUp, Return, Trouble
  <2>5. Opened'
    BY <1>4 DEF TypeOK, Opened, PortTypes, LinkTypes, EventTypes, Links, GiveUp, Return
  <2>6. QED  BY <2>1, <2>2, <2>3, <2>4, <2>5 DEF TypeOK
<1>5. ASSUME NEW e \in End, ReadThreadEnds(e)  PROVE TypeOK'
  <2>1. PortTypes' /\ LinkTypes' /\ EventTypes' /\ EngineTypes' /\ CountTypes' /\ HistoryTypes' /\ Limits'
    BY <1>5 DEF TypeOK, PortTypes, LinkTypes, EventTypes, EngineTypes, CountTypes, HistoryTypes, Limits, ReadThreadEnds
  <2>2. Opened'
    BY <1>5 DEF TypeOK, Opened, PortTypes, LinkTypes, EventTypes, Links, ReadThreadEnds
  <2>3. QED  BY <2>1, <2>2 DEF TypeOK
<1>6. ASSUME NEW e \in End, Unplug(e)  PROVE TypeOK'
  <2>1. gen[e] \in Links
    BY <1>6 DEF TypeOK, PortTypes, Opened, Links, Unplug
  <2>2. PortTypes' /\ LinkTypes' /\ EngineTypes' /\ HistoryTypes'
    BY <1>6 DEF TypeOK, PortTypes, LinkTypes, EngineTypes, HistoryTypes, Unplug
  <2>3. CountTypes'
    BY <1>6, SizeAssumption DEF TypeOK, CountTypes, Unplug, Trouble
  <2>4. EventTypes'
    BY <1>6, <2>1, PutType, EventFacts DEF TypeOK, EventTypes, Unplug
  <2>5. Limits'
    BY <1>6, <2>1, PutType, EventFacts DEF TypeOK, Limits, Unplug
  <2>6. Opened'
    BY <1>6 DEF TypeOK, Opened, PortTypes, LinkTypes, EventTypes, Links, Unplug, Put
  <2>7. QED  BY <2>2, <2>3, <2>4, <2>5, <2>6 DEF TypeOK
<1>7. ASSUME NEW e \in End, UserSends(e)  PROVE TypeOK'
  <2>1. PortTypes' /\ EventTypes' /\ EngineTypes' /\ HistoryTypes'
    BY <1>7 DEF TypeOK, PortTypes, EventTypes, EngineTypes, HistoryTypes, UserSends
  <2>2. LinkTypes'
    BY <1>7, EnqueueType DEF TypeOK, LinkTypes, UserSends
  <2>3. CountTypes'
    BY <1>7, EnqueueType DEF TypeOK, CountTypes, UserSends
  <2>4. Limits'
    BY <1>7, EnqueueType DEF TypeOK, Limits, UserSends
  <2>5. Opened'
    BY <1>7 DEF TypeOK, Opened, PortTypes, LinkTypes, EventTypes, Links, UserSends, Enqueue
  <2>6. QED  BY <2>1, <2>2, <2>3, <2>4, <2>5 DEF TypeOK
<1>8. ASSUME NEW e \in End, TakeOutbound(e)  PROVE TypeOK'
  <2>1. /\ Tail(outbound[e]) \in Seq(Nat \ {0})
        /\ Len(Tail(outbound[e])) <= OutboundCap
        /\ line[e] \o Split(Head(outbound[e])) \in Seq(Fragment)
        /\ Len(line[e] \o Split(Head(outbound[e]))) >= acked[e]
    <3>1. Head(outbound[e]) \in Nat \ {0}
      BY <1>8, TailFacts DEF TypeOK, LinkTypes, TakeOutbound
    <3>2. /\ Tail(outbound[e]) \in Seq(Nat \ {0})
          /\ Len(Tail(outbound[e])) <= OutboundCap
      BY <1>8, TailFacts, LenProperties, SizeAssumption
      DEF TypeOK, LinkTypes, Limits, TakeOutbound
    <3>3. Split(Head(outbound[e])) \in Seq(Fragment)
      BY <3>1, SplitType
    <3>4. /\ line[e] \o Split(Head(outbound[e])) \in Seq(Fragment)
          /\ Len(line[e] \o Split(Head(outbound[e])))
               = Len(line[e]) + Len(Split(Head(outbound[e])))
      BY <3>3, ConcatProperties DEF TypeOK, LinkTypes
    <3>5. Len(line[e]) \in Nat /\ Len(Split(Head(outbound[e]))) \in Nat /\ acked[e] \in Nat
      BY <3>3, LenProperties DEF TypeOK, LinkTypes
    <3>6. acked[e] <= Len(line[e])
      BY DEF TypeOK, Limits
    <3>7. Len(line[e]) + Len(Split(Head(outbound[e]))) >= acked[e]
      <4>1. \A i, j, k \in Nat : k <= i => i + j >= k
        OBVIOUS
      <4>2. QED  BY <3>5, <3>6, <4>1, Zenon
    <3>8. QED  BY <3>2, <3>4, <3>7
  <2>2. PortTypes' /\ EventTypes' /\ EngineTypes' /\ CountTypes' /\ HistoryTypes'
    BY <1>8 DEF TypeOK, PortTypes, EventTypes, EngineTypes, CountTypes, HistoryTypes, TakeOutbound
  <2>3. LinkTypes'
    BY <1>8, <2>1 DEF TypeOK, LinkTypes, TakeOutbound
  <2>4. Limits'
    BY <1>8, <2>1 DEF TypeOK, Limits, LinkTypes, TakeOutbound
  <2>5. Opened'
    BY <1>8 DEF TypeOK, Opened, PortTypes, LinkTypes, EventTypes, Links, TakeOutbound
  <2>6. QED  BY <2>2, <2>3, <2>4, <2>5 DEF TypeOK
<1>9. ASSUME NEW e \in End, AcceptFrame(e)  PROVE TypeOK'
  <2>1. /\ expected[e] + 1 \in Nat /\ Peer(e) \in End
        /\ Collected(e, line[Peer(e)][expected[e] + 1]) \in Seq(Fragment)
        /\ Len(Collected(e, line[Peer(e)][expected[e] + 1])) <= MessageLimit
    <3>1. Peer(e) \in End /\ expected[e] + 1 \in Nat /\ expected[e] + 1 >= 1
      BY PeerFacts DEF TypeOK, LinkTypes
    <3>2. expected[e] + 1 <= Sent(Peer(e))
      BY <1>9, <3>1, SentType DEF AcceptFrame, TypeOK, LinkTypes
    <3>3. expected[e] + 1 \in 1 .. Len(line[Peer(e)])
      BY <3>1, <3>2, SentType
    <3>4. line[Peer(e)][expected[e] + 1] \in Fragment
      BY <3>1, <3>3, ElementOfSeq DEF TypeOK, LinkTypes
    <3>5. /\ Append(reassembly[e], line[Peer(e)][expected[e] + 1]) \in Seq(Fragment)
          /\ Len(Append(reassembly[e], line[Peer(e)][expected[e] + 1])) = Len(reassembly[e]) + 1
          /\ Len(reassembly[e]) \in Nat
      BY <3>4, AppendFacts, LenProperties DEF TypeOK, LinkTypes
    <3>6. QED  BY <3>1, <3>5, NoSeq, SizeAssumption DEF Collected
  <2>2. PortTypes' /\ EventTypes' /\ EngineTypes' /\ CountTypes'
    BY <1>9 DEF TypeOK, PortTypes, EventTypes, EngineTypes, CountTypes, AcceptFrame
  <2>3. LinkTypes'
    BY <1>9, <2>1 DEF TypeOK, LinkTypes, AcceptFrame
  <2>4. HistoryTypes'
    BY <1>9, <2>1 DEF TypeOK, HistoryTypes, AcceptFrame
  <2>5. Limits'
    BY <1>9, <2>1 DEF TypeOK, Limits, LinkTypes, AcceptFrame
  <2>6. Opened'
    BY <1>9 DEF TypeOK, Opened, PortTypes, LinkTypes, EventTypes, Links, AcceptFrame
  <2>7. QED  BY <2>2, <2>3, <2>4, <2>5, <2>6 DEF TypeOK
<1>10. ASSUME NEW e \in End, Report(e)  PROVE TypeOK'
  <2>1. /\ gen[e] \in Links
        /\ [kind |-> "data", parts |-> reassembly[e],
            from |-> IF unequal[e] THEN 0 ELSE gen[Peer(e)]] \in Event
    <3>1. gen[e] \in Links
      BY <1>10 DEF TypeOK, PortTypes, Opened, Links, Report
    <3>2. (IF unequal[e] THEN 0 ELSE gen[Peer(e)]) \in 0 .. MaxLinks
      BY PeerFacts, SizeAssumption DEF TypeOK, PortTypes
    <3>3. reassembly[e] \in Seq(Fragment)
      BY DEF TypeOK, LinkTypes
    <3>4. QED  BY <3>1, <3>2, <3>3, EventFacts
  <2>2. PortTypes' /\ EngineTypes' /\ CountTypes' /\ HistoryTypes'
    BY <1>10 DEF TypeOK, PortTypes, EngineTypes, CountTypes, HistoryTypes, Report
  <2>3. LinkTypes'
    BY <1>10, NoSeq DEF TypeOK, LinkTypes, Report
  <2>4. EventTypes'
    BY <1>10, <2>1, PutType DEF TypeOK, EventTypes, Report
  <2>5. Limits'
    <3>1. \A x \in End, h \in Links : Len(events'[x][h]) <= EventCap
      BY <1>10, <2>1, PutType DEF Report
    <3>2. QED  BY <1>10, <3>1, NoSeq, SizeAssumption DEF TypeOK, Limits, LinkTypes, Report
  <2>6. Opened'
    BY <1>10 DEF TypeOK, Opened, PortTypes, LinkTypes, EventTypes, Links, Report, Put
  <2>7. QED  BY <2>2, <2>3, <2>4, <2>5, <2>6 DEF TypeOK
<1>11. ASSUME NEW e \in End, ReadAck(e)  PROVE TypeOK'
  <2>1. Covered(e) \in Nat /\ Covered(e) <= Len(line[e])
    BY PeerFacts, SentType DEF TypeOK, LinkTypes, Covered, Min2
  <2>2. PortTypes' /\ EventTypes' /\ EngineTypes' /\ CountTypes' /\ HistoryTypes'
    BY <1>11 DEF TypeOK, PortTypes, EventTypes, EngineTypes, CountTypes, HistoryTypes, ReadAck
  <2>3. LinkTypes'
    BY <1>11, <2>1 DEF TypeOK, LinkTypes, ReadAck
  <2>4. Limits'
    BY <1>11, <2>1 DEF TypeOK, Limits, LinkTypes, ReadAck
  <2>5. Opened'
    BY <1>11 DEF TypeOK, Opened, PortTypes, LinkTypes, EventTypes, Links, ReadAck
  <2>6. QED  BY <2>2, <2>3, <2>4, <2>5 DEF TypeOK
<1>12. ASSUME NEW e \in End, NEW g \in Links, SendDisconnected(e, g)  PROVE TypeOK'
  <2>1. PortTypes' /\ LinkTypes' /\ EngineTypes' /\ CountTypes' /\ HistoryTypes'
    BY <1>12 DEF TypeOK, PortTypes, LinkTypes, EngineTypes, CountTypes, HistoryTypes, SendDisconnected
  <2>2. EventTypes'
    BY <1>12, PutType, EventFacts DEF TypeOK, EventTypes, SendDisconnected
  <2>3. Limits'
    BY <1>12, PutType, EventFacts DEF TypeOK, Limits, LinkTypes, SendDisconnected
  <2>4. Opened'
    BY <1>12 DEF TypeOK, Opened, PortTypes, LinkTypes, EventTypes, Links, SendDisconnected, Put
  <2>5. QED  BY <2>1, <2>2, <2>3, <2>4 DEF TypeOK
<1>13. ASSUME NEW e \in End, NEW g \in Links, OnConnected(e, g)  PROVE TypeOK'
  <2>1. PortTypes' /\ LinkTypes' /\ EngineTypes' /\ CountTypes' /\ HistoryTypes'
    BY <1>13 DEF TypeOK, PortTypes, LinkTypes, EngineTypes, CountTypes, HistoryTypes, OnConnected
  <2>2. EventTypes'
    BY <1>13, TakesType DEF TypeOK, EventTypes, OnConnected
  <2>3. Limits'
    BY <1>13, TakesType DEF TypeOK, Limits, LinkTypes, OnConnected
  <2>4. Opened'
    BY <1>13 DEF TypeOK, Opened, PortTypes, LinkTypes, EventTypes, Links, OnConnected, Takes
  <2>5. QED  BY <2>1, <2>2, <2>3, <2>4 DEF TypeOK
<1>14. ASSUME NEW e \in End, NEW g \in Links, OnError(e, g)  PROVE TypeOK'
  <2>1. PortTypes' /\ LinkTypes' /\ EngineTypes' /\ CountTypes' /\ HistoryTypes'
    BY <1>14 DEF TypeOK, PortTypes, LinkTypes, EngineTypes, CountTypes, HistoryTypes, OnError
  <2>2. EventTypes'
    BY <1>14, TakesType DEF TypeOK, EventTypes, OnError
  <2>3. Limits'
    BY <1>14, TakesType DEF TypeOK, Limits, LinkTypes, OnError
  <2>4. Opened'
    BY <1>14 DEF TypeOK, Opened, PortTypes, LinkTypes, EventTypes, Links, OnError, Takes
  <2>5. QED  BY <2>1, <2>2, <2>3, <2>4 DEF TypeOK
<1>15. ASSUME NEW e \in End, NEW g \in Links, OnDisconnected(e, g)  PROVE TypeOK'
  <2>1. PortTypes' /\ LinkTypes' /\ EngineTypes' /\ CountTypes' /\ HistoryTypes'
    BY <1>15 DEF TypeOK, PortTypes, LinkTypes, EngineTypes, CountTypes, HistoryTypes, OnDisconnected
  <2>2. EventTypes'
    BY <1>15, TakesType DEF TypeOK, EventTypes, OnDisconnected
  <2>3. Limits'
    BY <1>15, TakesType DEF TypeOK, Limits, LinkTypes, OnDisconnected
  <2>4. Opened'
    BY <1>15 DEF TypeOK, Opened, PortTypes, LinkTypes, EventTypes, Links, OnDisconnected, Takes
  <2>5. QED  BY <2>1, <2>2, <2>3, <2>4 DEF TypeOK
<1>16. ASSUME NEW e \in End, NEW g \in Links, OnMessage(e, g)  PROVE TypeOK'
  <2>1. PortTypes' /\ LinkTypes' /\ CountTypes' /\ HistoryTypes'
    BY <1>16 DEF TypeOK, PortTypes, LinkTypes, CountTypes, HistoryTypes, OnMessage
  <2>2. EngineTypes'
    <3>1. /\ peers' = peers \/ peers' = [peers EXCEPT ![e] = {"peer"}]
          /\ alias' = alias \/ alias' = [alias EXCEPT ![e] = TRUE]
          /\ serial' = serial
      BY <1>16 DEF OnMessage
    <3>2. QED  BY <3>1 DEF TypeOK, EngineTypes
  <2>3. EventTypes'
    <3>1. Takes(e, g, "data")
      BY <1>16 DEF OnMessage
    <3>2. events' \in [End -> [Links -> Seq(Event)]]
      BY <3>1, TakesType
    <3>3. PICK n \in 0 .. MaxLinks : answering' = [answering EXCEPT ![e][g] = n]
      <4>1. gen[e] \in 0 .. MaxLinks /\ 0 \in 0 .. MaxLinks
        BY SizeAssumption DEF TypeOK, PortTypes
      <4>2. answering' = [answering EXCEPT ![e][g] = gen[e]] \/ answering' = [answering EXCEPT ![e][g] = 0]
        BY <1>16 DEF OnMessage
      <4>3. QED  BY <4>1, <4>2
    <3>4. answering' \in [End -> [Links -> 0 .. MaxLinks]]
      BY <3>3 DEF TypeOK, EventTypes
    <3>5. QED  BY <3>2, <3>4 DEF EventTypes
  <2>4. Limits'
    BY <1>16, TakesType DEF TypeOK, Limits, LinkTypes, OnMessage
  <2>5. Opened'
    BY <1>16 DEF TypeOK, Opened, PortTypes, LinkTypes, EventTypes, Links, OnMessage, Takes
  <2>6. QED  BY <2>1, <2>2, <2>3, <2>4, <2>5 DEF TypeOK
<1>17. ASSUME NEW e \in End, NEW g \in Links, SendAnswer(e, g)  PROVE TypeOK'
  <2>1. PortTypes' /\ EventTypes' /\ EngineTypes' /\ HistoryTypes'
    BY <1>17, SizeAssumption DEF TypeOK, PortTypes, EventTypes, EngineTypes, HistoryTypes, SendAnswer
  <2>2. LinkTypes'
    BY <1>17, EnqueueType DEF TypeOK, LinkTypes, SendAnswer
  <2>3. CountTypes'
    BY <1>17, EnqueueType DEF TypeOK, CountTypes, SendAnswer
  <2>4. Limits'
    BY <1>17, EnqueueType DEF TypeOK, Limits, SendAnswer
  <2>5. Opened'
    BY <1>17 DEF TypeOK, Opened, PortTypes, LinkTypes, EventTypes, Links, SendAnswer, Enqueue
  <2>6. QED  BY <2>1, <2>2, <2>3, <2>4, <2>5 DEF TypeOK
<1>18. ASSUME NEW e \in End, NEW g \in Links, AnswerFails(e, g)  PROVE TypeOK'
  <2>1. PortTypes' /\ LinkTypes' /\ EngineTypes' /\ CountTypes' /\ HistoryTypes' /\ Limits'
    BY <1>18 DEF TypeOK, PortTypes, LinkTypes, EngineTypes, CountTypes, HistoryTypes, Limits, AnswerFails
  <2>2. EventTypes'
    BY <1>18, SizeAssumption DEF TypeOK, EventTypes, AnswerFails
  <2>3. Opened'
    BY <1>18 DEF TypeOK, Opened, PortTypes, LinkTypes, EventTypes, Links, AnswerFails
  <2>4. QED  BY <2>1, <2>2, <2>3 DEF TypeOK
<1>19. QED
  BY <1>0, <1>1, <1>2, <1>3, <1>4, <1>5, <1>6, <1>7, <1>8, <1>9, <1>10, <1>11,
     <1>12, <1>13, <1>14, <1>15, <1>16, <1>17, <1>18, ActionCases

LEMMA TypeInit == Init => TypeOK
<1> SUFFICES ASSUME Init  PROVE TypeOK
  OBVIOUS
<1>1. <<>> \in Seq(Event) /\ Len(<<>>) = 0  BY EmptySeq
<1>2. PortTypes /\ CountTypes  BY SizeAssumption DEF Init, PortTypes, CountTypes
<1>3. EngineTypes /\ HistoryTypes  BY DEF Init, EngineTypes, HistoryTypes
<1>4. LinkTypes  BY NoSeq DEF Init, LinkTypes
<1>5. EventTypes  BY <1>1, SizeAssumption DEF Init, EventTypes
<1>6. Limits  BY <1>1, NoSeq, SizeAssumption DEF Init, Limits
<1>7. Opened  BY DEF Init, Opened
<1>8. QED  BY <1>2, <1>3, <1>4, <1>5, <1>6, <1>7 DEF TypeOK

\* The variables keep their types and the queues their limits, whatever the
\* two engines, their users and the line do.
THEOREM TypeCorrect == Spec => []TypeOK
<1>1. TypeOK /\ [Next]_vars => TypeOK'  BY TypeStep
<1>2. QED  BY TypeInit, <1>1, PTL DEF Spec

-----------------------------------------------------------------------------
(* Acknowledgements *)

\* The peer's link expects no frame this link has not seen accepted, unless
\* their numbers no longer fit; so an acknowledgement covers accepted frames.
Accepted ==
  \A e \in End :
    phase[e] # "off" =>
      /\ acked[e] <= read[e] \/ unequal[e]
      /\ phase[Peer(e)] # "off" => expected[Peer(e)] <= read[e] \/ unequal[e]

LEMMA AcceptedStep ==
  ASSUME TypeOK, Accepted, [Next]_vars
  PROVE  Accepted'
<1> USE DEF portVars, linkVars, engineVars, countVars, historyVars
<1>t. /\ phase \in [End -> {"run", "report", "off"}]
      /\ \A e \in End : acked[e] \in Nat /\ expected[e] \in Nat /\ read[e] \in Nat
      /\ read \in [End -> Nat] /\ expected \in [End -> Nat] /\ acked \in [End -> Nat]
      /\ unequal \in [End -> BOOLEAN]
  BY DEF TypeOK, LinkTypes, HistoryTypes
\* Steps that leave all of it alone, but for a link that ends.
<1>0. ASSUME UNCHANGED <<acked, expected, read, unequal>>,
             \A x \in End : phase'[x] # "off" => phase[x] # "off"
      PROVE  Accepted'
  BY <1>0, PeerFacts DEF Accepted
<1>1. ASSUME NEW e \in End, Connect(e)  PROVE Accepted'
  <2> DEFINE q == Peer(e)
             misfit == phase[q] # "off" /\ expected[q] > 0
  <2>1. /\ acked'[e] = 0 /\ expected'[e] = 0 /\ read'[e] = 0
        /\ unequal'[e] = misfit /\ unequal'[q] = (unequal[q] \/ misfit)
        /\ acked'[q] = acked[q] /\ expected'[q] = expected[q] /\ read'[q] = read[q]
        /\ phase'[q] = phase[q]
    BY <1>1, <1>t, PeerFacts DEF Connect
  <2>2. phase[q] # "off" => expected[q] <= 0 \/ misfit
    BY <1>t, PeerFacts
  <2>3. q \in End /\ q # e /\ Peer(q) = e /\ \A x \in End : x = e \/ x = q
    BY PeerFacts
  <2>4. /\ acked'[e] <= read'[e]
        /\ phase'[q] # "off" => expected'[q] <= read'[e] \/ unequal'[e]
    <3>1. acked'[e] <= read'[e] /\ read'[e] = 0 /\ expected'[q] = expected[q]
      BY <2>1
    <3>2. unequal'[e] <=> (phase[q] # "off" /\ expected[q] > 0)
      BY <2>1
    <3>3. expected[q] \in Nat
      BY <1>t, <2>3
    <3>4. QED  BY <2>1, <3>1, <3>2, <3>3
  <2>5. phase'[q] # "off" =>
          /\ acked'[q] <= read'[q] \/ unequal'[q]
          /\ expected'[e] <= read'[q]
    BY <2>1, <2>3, <1>t DEF Accepted
  <2>6. QED  BY <2>3, <2>4, <2>5 DEF Accepted
<1>9. ASSUME NEW e \in End, AcceptFrame(e)  PROVE Accepted'
  <2> DEFINE q == Peer(e)
             n == expected[e] + 1
  <2>1. /\ phase[e] # "off" /\ phase[q] # "off"
        /\ \A x \in End : phase'[x] # "off" <=> phase[x] # "off"
        /\ expected' = [expected EXCEPT ![e] = n]
        /\ read' = [read EXCEPT ![q] = IF n > @ THEN n ELSE @]
        /\ UNCHANGED <<acked, unequal>>
    BY <1>9, <1>t DEF AcceptFrame
  <2>2. read'[q] \in Nat /\ n \in Nat /\ n <= read'[q] /\ read[q] <= read'[q]
    BY <2>1, <1>t, PeerFacts
  <2>3. /\ expected'[e] = n /\ expected'[q] = expected[q] /\ read'[e] = read[e]
    BY <2>1, <1>t, PeerFacts
  <2>4. QED  BY <2>1, <2>2, <2>3, <1>t, PeerFacts DEF Accepted
<1>11. ASSUME NEW e \in End, ReadAck(e)  PROVE Accepted'
  <2>1. /\ phase[e] # "off" /\ phase[Peer(e)] # "off"
        /\ acked' = [acked EXCEPT ![e] = Covered(e)]
        /\ UNCHANGED <<phase, expected, read, unequal>>
    BY <1>11 DEF ReadAck
  <2>2. Covered(e) \in Nat /\ Covered(e) <= expected[Peer(e)]
    BY <1>t, PeerFacts, SentType DEF Covered, Min2
  <2>3. QED  BY <2>1, <2>2, <1>t, PeerFacts DEF Accepted
<1>12. ASSUME NEW e \in End, Stop(e) \/ GiveUp(e)  PROVE Accepted'
  BY <1>12, <1>0, <1>t DEF Stop, GiveUp, Return
<1>13. ASSUME NEW e \in End, Report(e)  PROVE Accepted'
  BY <1>13, <1>0, <1>t DEF Report
<1>14. ASSUME NEW e \in End,
              \/ Teardown(e) \/ ReadThreadEnds(e) \/ Unplug(e) \/ UserSends(e)
              \/ TakeOutbound(e)
       PROVE  Accepted'
  BY <1>14, <1>0 DEF Teardown, ReadThreadEnds, Unplug, UserSends, TakeOutbound
<1>15. ASSUME NEW e \in End, NEW g \in Links,
              \/ SendDisconnected(e, g) \/ OnConnected(e, g) \/ OnError(e, g)
              \/ OnDisconnected(e, g) \/ OnMessage(e, g) \/ SendAnswer(e, g)
              \/ AnswerFails(e, g)
       PROVE  Accepted'
  BY <1>15, <1>0 DEF SendDisconnected, OnConnected, OnError, OnDisconnected,
                     OnMessage, SendAnswer, AnswerFails
<1>16. ASSUME UNCHANGED vars  PROVE Accepted'
  BY <1>16, <1>0 DEF vars
<1>17. QED
  BY <1>1, <1>9, <1>11, <1>12, <1>13, <1>14, <1>15, <1>16, ActionCases

\* A frame the sender takes for acknowledged was accepted by the peer, or the
\* numbers of the two links did not fit (on_receive, on_ack).
THEOREM AckedCorrect == Spec => []AckedMeansAccepted
<1>1. Init => Accepted  BY DEF Init, Accepted
<1>2. TypeOK /\ Accepted /\ [Next]_vars => Accepted'  BY AcceptedStep
<1>3. Accepted => AckedMeansAccepted  BY DEF Accepted, AckedMeansAccepted
<1>4. QED  BY TypeCorrect, <1>1, <1>2, <1>3, PTL DEF Spec

-----------------------------------------------------------------------------
(* Sessions *)

Waits(e, g, k) == [kind |-> k] \in Range(events[e][g])

\* The engine's transport is the running one; a link's Disconnected comes when
\* the link is over; until its Connected is handled a running link may have
\* no session.
Sessions ==
  \A e \in End :
    /\ running[e] /\ phase[e] # "off" => serial[e]
    /\ \A g \in Links : Waits(e, g, "disconnected") \/ g \in owes[e] =>
                           g < gen[e] \/ phase[e] = "off"
    /\ running[e] /\ phase[e] # "off" =>
         Waits(e, gen[e], "connected") \/ HasSession(e) \/ overtaken[e]

\* What the queues hold after an event is put in, or taken out.
LEMMA WaitsAfterPut ==
  ASSUME TypeOK, NEW e \in End, NEW g \in Links, NEW ev \in Event, Put(e, g, ev)
  PROVE  \A x \in End, h \in Links, k \in {"connected", "disconnected"} :
           Waits(x, h, k)' <=> Waits(x, h, k) \/ (x = e /\ h = g /\ ev = [kind |-> k])
<1> TAKE x \in End, h \in Links, k \in {"connected", "disconnected"}
<1>1. events[e][g] \in Seq(Event)  BY DEF TypeOK, EventTypes
<1>2. Range(Append(events[e][g], ev)) = Range(events[e][g]) \cup {ev}
  BY <1>1, AppendFacts
<1>3. events'[x][h] = IF x = e /\ h = g THEN Append(events[e][g], ev) ELSE events[x][h]
  BY DEF TypeOK, EventTypes, Put
<1>4. QED  BY <1>2, <1>3 DEF Waits

LEMMA WaitsAfterTake ==
  ASSUME TypeOK, NEW e \in End, NEW g \in Links, NEW kind, Takes(e, g, kind)
  PROVE  \A x \in End, h \in Links, k \in {"connected", "disconnected"} :
           /\ Waits(x, h, k)' => Waits(x, h, k)
           /\ Waits(x, h, k) /\ (x # e \/ h # g \/ k # kind) => Waits(x, h, k)'
<1> TAKE x \in End, h \in Links, k \in {"connected", "disconnected"}
<1>1. events[e][g] \in Seq(Event) /\ events[e][g] # <<>> /\ Head(events[e][g]).kind = kind
  BY DEF TypeOK, EventTypes, Takes
<1>2. /\ Range(Tail(events[e][g])) \subseteq Range(events[e][g])
      /\ \A v \in Range(events[e][g]) :
           v = Head(events[e][g]) \/ v \in Range(Tail(events[e][g]))
  BY <1>1, TailFacts
<1>3. events'[x][h] = IF x = e /\ h = g THEN Tail(events[e][g]) ELSE events[x][h]
  BY DEF TypeOK, EventTypes, Takes
<1>4. k # kind => [kind |-> k] # Head(events[e][g])
  BY <1>1
<1>5. Waits(x, h, k)' => Waits(x, h, k)
  BY <1>2, <1>3 DEF Waits
<1>6. Waits(x, h, k) /\ (x # e \/ h # g \/ k # kind) => Waits(x, h, k)'
  BY <1>2, <1>3, <1>4 DEF Waits
<1>7. QED  BY <1>5, <1>6

\* The first event is one that waits.
LEMMA TakenWaited ==
  ASSUME TypeOK, NEW e \in End, NEW g \in Links, Takes(e, g, "disconnected")
  PROVE  Waits(e, g, "disconnected")
<1>1. events[e][g] \in Seq(Event) /\ events[e][g] # <<>> /\ Head(events[e][g]).kind = "disconnected"
  BY DEF TypeOK, EventTypes, Takes
<1>2. Head(events[e][g]) \in Event /\ Head(events[e][g]) \in Range(events[e][g])
  BY <1>1, TailFacts
<1>3. Head(events[e][g]) = [kind |-> "disconnected"]
  BY <1>1, <1>2 DEF Event
<1>4. QED  BY <1>2, <1>3 DEF Waits

LEMMA SessionsStep ==
  ASSUME TypeOK, Sessions, [Next]_vars
  PROVE  Sessions'
<1> USE DEF portVars, linkVars, engineVars, countVars, historyVars
<1>t. /\ phase \in [End -> {"run", "report", "off"}]
      /\ running \in [End -> BOOLEAN] /\ serial \in [End -> BOOLEAN]
      /\ gen \in [End -> 0 .. MaxLinks] /\ overtaken \in [End -> BOOLEAN]
      /\ peers \in [End -> SUBSET {"port", "peer"}] /\ alias \in [End -> BOOLEAN]
      /\ owes \in [End -> SUBSET Links]
      /\ \A e \in End : phase[e] # "off" => gen[e] \in Links
  BY DEF TypeOK, LinkTypes, PortTypes, EngineTypes, HistoryTypes, Opened, Links
\* Steps that change no session and no event; a link may end, and be told to.
<1>0. ASSUME UNCHANGED <<gen, serial, peers, alias, overtaken>>,
             \A x \in End, h \in Links, k \in {"connected", "disconnected"} :
               Waits(x, h, k)' <=> Waits(x, h, k),
             \A x \in End : /\ running'[x] => running[x]
                            /\ phase'[x] # "off" => phase[x] # "off" /\ owes'[x] = owes[x]
      PROVE  Sessions'
  <2>1. \A x \in End : HasSession(x)' <=> HasSession(x)
    BY <1>0 DEF HasSession, Resolve
  <2>2. \A x \in End, k \in {"connected", "disconnected"} :
          phase'[x] # "off" => (Waits(x, gen[x], k)' <=> Waits(x, gen[x], k))
    BY <1>0, <1>t
  <2>3. QED  BY <1>0, <1>t, <2>1, <2>2 DEF Sessions, Waits
\* Nor is any taken or put.
<1>1. ASSUME UNCHANGED <<gen, running, serial, peers, alias, overtaken, events, owes>>,
             \A x \in End : phase'[x] # "off" => phase[x] # "off"
      PROVE  Sessions'
  <2>1. \A x \in End, h \in Links, k \in {"connected", "disconnected"} :
          Waits(x, h, k)' <=> Waits(x, h, k)
    BY <1>1 DEF Waits
  <2>2. QED  BY <1>0, <1>1, <2>1
<1>2. ASSUME NEW e \in End, Connect(e)  PROVE Sessions'
  <2> DEFINE g == gen[e] + 1
  <2>1. /\ g \in Links /\ Put(e, g, [kind |-> "connected"])
        /\ gen' = [gen EXCEPT ![e] = g] /\ running' = [running EXCEPT ![e] = TRUE]
        /\ serial' = [serial EXCEPT ![e] = TRUE] /\ phase' = [phase EXCEPT ![e] = "run"]
        /\ overtaken' = [overtaken EXCEPT ![e] = FALSE]
        /\ UNCHANGED <<owes, peers, alias>>
    BY <1>2 DEF Connect
  <2>2. \A x \in End, h \in Links, k \in {"connected", "disconnected"} :
          Waits(x, h, k)' <=> Waits(x, h, k) \/ (x = e /\ h = g /\ k = "connected")
    BY <2>1, WaitsAfterPut, EventFacts
  <2>3. ASSUME NEW x \in End, x # e  PROVE HasSession(x)' <=> HasSession(x)
    BY <2>1 DEF HasSession, Resolve
  <2>4. \A h \in Links : h > gen[e] => ~Waits(e, h, "disconnected") /\ h \notin owes[e]
    <3> TAKE h \in Links
    <3>1. h > gen[e] => events[e][h] = <<>>
      BY DEF TypeOK, Opened
    <3>2. Range(<<>>) = {}
      BY DEF Range
    <3>3. QED  BY <3>1, <3>2, <1>t DEF TypeOK, Opened, Waits, Links
  <2>5. \A h \in Links : (Waits(e, h, "disconnected") \/ h \in owes[e]) => h < g
    BY <2>4, <1>t DEF Links
  <2>6. ASSUME NEW x \in End
        PROVE  /\ running'[x] /\ phase'[x] # "off" => serial'[x]
               /\ \A h \in Links : Waits(x, h, "disconnected")' \/ h \in owes'[x] =>
                                      h < gen'[x] \/ phase'[x] = "off"
               /\ running'[x] /\ phase'[x] # "off" =>
                    Waits(x, gen[x], "connected")' \/ HasSession(x)' \/ overtaken'[x]
    <3>1. CASE x = e  BY <3>1, <2>1, <2>2, <2>5, <1>t
    <3>2. CASE x # e  BY <3>2, <2>1, <2>2, <2>3, <1>t DEF Sessions
    <3>3. QED  BY <3>1, <3>2
  <2>7. QED  BY <2>6 DEF Sessions
<1>3. ASSUME NEW e \in End, Teardown(e)  PROVE Sessions'
  <2>1. /\ running'[e] => running[e] /\ ~serial[e]
        /\ \A x \in End : x # e => running'[x] = running[x] /\ serial'[x] = serial[x]
                                /\ peers'[x] = peers[x]
        /\ UNCHANGED <<gen, phase, owes, events, alias, overtaken>>
    BY <1>3, <1>t DEF Teardown
  <2>2. running'[e] => phase[e] = "off"
    BY <2>1, <1>t DEF Sessions
  <2>3. \A x \in End : x # e => (HasSession(x)' <=> HasSession(x))
    BY <2>1 DEF HasSession, Resolve
  <2>4. \A x \in End : x # e => (Waits(x, gen[x], "connected")' <=> Waits(x, gen[x], "connected"))
    BY <2>1 DEF Waits
  <2>5. \A x \in End, h \in Links : Waits(x, h, "disconnected")' <=> Waits(x, h, "disconnected")
    BY <2>1 DEF Waits
  <2>6. QED  BY <2>1, <2>2, <2>3, <2>4, <2>5 DEF Sessions
<1>4. ASSUME NEW e \in End, Stop(e) \/ GiveUp(e)  PROVE Sessions'
  <2>1. \A x \in End, h \in Links, k \in {"connected", "disconnected"} :
          Waits(x, h, k)' <=> Waits(x, h, k)
    BY <1>4 DEF Stop, GiveUp, Return, Waits
  <2>2. QED  BY <1>4, <2>1, <1>0, <1>t DEF Stop, GiveUp, Return
<1>5. ASSUME NEW e \in End, ReadThreadEnds(e) \/ UserSends(e) \/ TakeOutbound(e)
                             \/ AcceptFrame(e) \/ ReadAck(e)
      PROVE  Sessions'
  BY <1>5, <1>1, <1>t DEF ReadThreadEnds, UserSends, TakeOutbound, AcceptFrame, ReadAck
<1>6. ASSUME NEW e \in End, Unplug(e)  PROVE Sessions'
  <2>1. gen[e] \in Links
    BY <1>6 DEF TypeOK, PortTypes, Opened, Links, Unplug
  <2>2. \A x \in End, h \in Links, k \in {"connected", "disconnected"} :
          Waits(x, h, k)' <=> Waits(x, h, k)
    BY <1>6, <2>1, WaitsAfterPut, EventFacts DEF Unplug
  <2>3. QED  BY <1>6, <2>2, <1>0 DEF Unplug
<1>7. ASSUME NEW e \in End, Report(e)  PROVE Sessions'
  <2> DEFINE from == IF unequal[e] THEN 0 ELSE gen[Peer(e)]
             ev == [kind |-> "data", parts |-> reassembly[e], from |-> from]
  <2>1. gen[e] \in Links /\ from \in 0 .. MaxLinks
    BY <1>7, <1>t, PeerFacts, SizeAssumption DEF Report
  <2>2. ev \in Event /\ Put(e, gen[e], ev)
    BY <1>7, <2>1, EventFacts DEF TypeOK, LinkTypes, Report
  <2>3. ev.kind = "data"
    OBVIOUS
  <2> HIDE DEF ev
  <2>4. \A x \in End, h \in Links, k \in {"connected", "disconnected"} :
          Waits(x, h, k)' <=> Waits(x, h, k)
    BY <2>1, <2>2, <2>3, WaitsAfterPut
  <2>5. QED  BY <1>7, <2>4, <1>0, <1>t DEF Report
<1>8. ASSUME NEW e \in End, NEW g \in Links, SendDisconnected(e, g)  PROVE Sessions'
  <2>1. \A x \in End, h \in Links, k \in {"connected", "disconnected"} :
          Waits(x, h, k)' <=> Waits(x, h, k) \/ (x = e /\ h = g /\ k = "disconnected")
    BY <1>8, WaitsAfterPut, EventFacts DEF SendDisconnected
  <2>2. /\ g \in owes[e] /\ owes' = [owes EXCEPT ![e] = @ \ {g}]
        /\ UNCHANGED <<gen, running, phase, serial, peers, alias, overtaken>>
    BY <1>8 DEF SendDisconnected
  <2>3. \A x \in End : HasSession(x)' <=> HasSession(x)
    BY <2>2 DEF HasSession, Resolve
  <2>4. \A x \in End : phase[x] # "off" =>
          (Waits(x, gen[x], "connected")' <=> Waits(x, gen[x], "connected"))
    BY <2>1, <2>2, <1>t
  <2>5. QED  BY <2>1, <2>2, <2>3, <2>4, <1>t DEF Sessions
<1>9. ASSUME NEW e \in End, NEW g \in Links, OnConnected(e, g)  PROVE Sessions'
  <2>1. \A x \in End, h \in Links, k \in {"connected", "disconnected"} :
          /\ Waits(x, h, k)' => Waits(x, h, k)
          /\ Waits(x, h, k) /\ x # e => Waits(x, h, k)'
    BY <1>9, WaitsAfterTake DEF OnConnected
  <2>2. /\ peers' = [peers EXCEPT ![e] = @ \cup {"port"}]
        /\ UNCHANGED <<gen, running, phase, owes, serial, alias, overtaken>>
    BY <1>9 DEF OnConnected
  <2>3. HasSession(e)'
    BY <2>2, <1>t DEF HasSession, Resolve
  <2>4. \A x \in End : x # e => (HasSession(x)' <=> HasSession(x))
    BY <2>2 DEF HasSession, Resolve
  <2>5. \A x \in End : phase[x] # "off" /\ x # e =>
          (Waits(x, gen[x], "connected") => Waits(x, gen[x], "connected")')
    BY <2>1, <2>2, <1>t
  <2>6. QED  BY <2>1, <2>2, <2>3, <2>4, <2>5, <1>t DEF Sessions
<1>10. ASSUME NEW e \in End, NEW g \in Links, OnError(e, g)  PROVE Sessions'
  <2>1. \A x \in End, h \in Links, k \in {"connected", "disconnected"} :
          Waits(x, h, k)' <=> Waits(x, h, k)
    BY <1>10, WaitsAfterTake DEF OnError
  <2>2. QED  BY <1>10, <2>1, <1>0 DEF OnError
<1>11. ASSUME NEW e \in End, NEW g \in Links, OnDisconnected(e, g)  PROVE Sessions'
  <2>1. \A x \in End, h \in Links, k \in {"connected", "disconnected"} :
          /\ Waits(x, h, k)' => Waits(x, h, k)
          /\ Waits(x, h, k) /\ (x # e \/ k = "connected") => Waits(x, h, k)'
    BY <1>11, WaitsAfterTake DEF OnDisconnected
  <2>2. /\ Waits(e, g, "disconnected")
        /\ peers' = [peers EXCEPT ![e] = @ \ {Resolve(e), "port"}]
        /\ serial' = [serial EXCEPT ![e] = @ /\ g # gen[e]]
        /\ overtaken' = [overtaken EXCEPT
             ![e] = @ \/ (g < gen[e] /\ ~Waits(e, gen[e], "connected"))]
        /\ UNCHANGED <<gen, running, phase, owes, alias>>
    BY <1>11, TakenWaited DEF OnDisconnected, Waits, ClearsSerial
  <2>3. phase[e] # "off" => g < gen[e] /\ g # gen[e]
    BY <2>2, <1>t DEF Sessions, Links
  <2>4. phase[e] # "off" => Waits(e, gen[e], "connected")' \/ overtaken'[e]
    BY <2>1, <2>2, <2>3, <1>t
  <2>5. /\ phase[e] # "off" => serial'[e] = serial[e]
        /\ \A x \in End : x # e => serial'[x] = serial[x] /\ overtaken'[x] = overtaken[x]
    BY <2>2, <2>3, <1>t
  <2>6. \A x \in End : x # e => (HasSession(x)' <=> HasSession(x))
    BY <2>2 DEF HasSession, Resolve
  <2>7. \A x \in End : phase[x] # "off" /\ x # e =>
          (Waits(x, gen[x], "connected") => Waits(x, gen[x], "connected")')
    BY <2>1, <2>2, <1>t
  <2>8. QED  BY <2>1, <2>2, <2>4, <2>5, <2>6, <2>7 DEF Sessions
<1>12. ASSUME NEW e \in End, NEW g \in Links, OnMessage(e, g)  PROVE Sessions'
  <2>1. \A x \in End, h \in Links, k \in {"connected", "disconnected"} :
          Waits(x, h, k)' <=> Waits(x, h, k)
    BY <1>12, WaitsAfterTake DEF OnMessage
  <2>2. /\ \/ UNCHANGED <<peers, alias>>
           \/ peers' = [peers EXCEPT ![e] = {"peer"}] /\ alias' = [alias EXCEPT ![e] = TRUE]
        /\ UNCHANGED <<gen, running, phase, owes, serial, overtaken>>
    BY <1>12 DEF OnMessage
  <2>3. \A x \in End : HasSession(x) => HasSession(x)'
    BY <2>2, <1>t DEF HasSession, Resolve
  <2>4. \A x \in End : phase[x] # "off" =>
          (Waits(x, gen[x], "connected") => Waits(x, gen[x], "connected")')
    BY <2>1, <2>2, <1>t
  <2>5. QED  BY <2>1, <2>2, <2>3, <2>4, <1>t DEF Sessions
<1>13. ASSUME NEW e \in End, NEW g \in Links, SendAnswer(e, g) \/ AnswerFails(e, g)
       PROVE  Sessions'
  BY <1>13, <1>1 DEF SendAnswer, AnswerFails
<1>14. ASSUME UNCHANGED vars  PROVE Sessions'
  BY <1>14, <1>1 DEF vars
<1>15. QED
  BY <1>2, <1>3, <1>4, <1>5, <1>6, <1>7, <1>8, <1>9, <1>10, <1>11, <1>12, <1>13,
     <1>14, ActionCases

\* A running link has its session once its events are handled, or an old
\* link's Disconnected took it away (connect_serial's event task).
THEOREM SessionCorrect == Spec => []LinkHasSession
<1>1. Init => Sessions
  BY DEF Init, Sessions, Waits, Range
<1>2. TypeOK /\ Sessions /\ [Next]_vars => Sessions'  BY SessionsStep
<1>3. Sessions => LinkHasSession
  <2> SUFFICES ASSUME Sessions, NEW e \in End, running[e], phase[e] # "off",
                      Handled(e, gen[e])
               PROVE  (serial[e] /\ HasSession(e)) \/ overtaken[e]
    BY DEF LinkHasSession
  <2>1. ~Waits(e, gen[e], "connected")
    BY DEF Handled, Waits, Range
  <2>2. QED  BY <2>1 DEF Sessions
<1>4. QED  BY TypeCorrect, <1>1, <1>2, <1>3, PTL DEF Spec

-----------------------------------------------------------------------------
(* The stream of messages *)

HistoryKept ==
  /\ offered \in [End -> [Links -> Seq(Nat \ {0})]]
  /\ received \in [End -> [Links -> Seq(Nat)]]
  /\ source \in [End -> [Links -> 0 .. MaxLinks]]
  /\ \A e \in End, g \in Links :
       g > gen[e] => offered[e][g] = <<>> /\ received[e][g] = <<>> /\ source[e][g] = 0

\* The messages the end's last link took.
Given(e) == IF gen[e] \in Links THEN offered[e][gen[e]] ELSE <<>>

\* The line holds the fragments of these messages, one message after the other:
\* those of message k follow the first s[k] fragments.
Starts(e, s) ==
  /\ s \in [1 .. Len(Given(e)) + 1 -> Nat]
  /\ s[1] = 0 /\ s[Len(Given(e)) + 1] = Len(line[e])
  /\ \A k \in 1 .. Len(Given(e)) + 1 : k - 1 <= s[k] /\ s[k] <= Len(line[e])
  /\ \A k \in 1 .. Len(Given(e)) :
       /\ s[k + 1] = s[k] + Size(Given(e)[k])
       /\ \A i \in 1 .. Size(Given(e)[k]) :
            line[e][s[k] + i] = [message |-> Given(e)[k], part |-> i]

\* An event that brings a message, and tells the peer's link it is from.
Counted(ev) == ev.kind = "data" /\ ev.from # 0

IsNth(e, ev, k) ==
  /\ ev.from \in Links
  /\ k \in 1 .. Len(offered[Peer(e)][ev.from])
  /\ ev.parts = Split(offered[Peer(e)][ev.from][k])

\* When the i-th event of the queue is handled, a[i] messages have come out of
\* the link, the event's own being the a[i]-th of the peer's link.
Places(e, g, a) ==
  /\ a \in [0 .. Len(events[e][g]) -> Nat]
  /\ a[0] = Len(received[e][g])
  /\ \A i \in 0 .. Len(events[e][g]) : a[i] <= a[Len(events[e][g])]
  /\ \A i \in 1 .. Len(events[e][g]) :
       IF Counted(events[e][g][i])
       THEN a[i] = a[i - 1] + 1 /\ IsNth(e, events[e][g][i], a[i])
       ELSE a[i] = a[i - 1]

\* All the link's messages are from link h of the peer.
FromOne(e, g, h) ==
  /\ source[e][g] \in {0, h}
  /\ Len(received[e][g]) = 0 => source[e][g] = 0
  /\ \A i \in 1 .. Len(events[e][g]) :
       Counted(events[e][g][i]) => events[e][g][i].from = h

\* After n messages, the link task is amid the next one.
Reads(e, s, n) ==
  /\ n \in 0 .. Len(Given(Peer(e)))
  /\ expected[e] = s[n + 1] + Len(reassembly[e])
  /\ \A i \in 1 .. Len(reassembly[e]) : reassembly[e][i] = line[Peer(e)][s[n + 1] + i]
  /\ Len(reassembly[e]) = 0
       \/ (n < Len(Given(Peer(e))) /\ Len(reassembly[e]) <= Size(Given(Peer(e))[n + 1]))
  /\ phase[e] = "report" <=>
       n < Len(Given(Peer(e))) /\ Len(reassembly[e]) = Size(Given(Peer(e))[n + 1])

Live(e) == phase[e] # "off" /\ ~unequal[e]

Stream(e, g, a, s, h) ==
  /\ Places(e, g, a) /\ Starts(Peer(e), s) /\ FromOne(e, g, h)
  /\ Live(e) /\ g = gen[e] => h = gen[Peer(e)] /\ Reads(e, s, a[Len(events[e][g])])

Streams == \A e \in End, g \in Links : \E a, s, h : Stream(e, g, a, s, h)

LEMMA StartsKept ==
  ASSUME NEW e, NEW s, Starts(e, s), Given(e)' = Given(e), line'[e] = line[e]
  PROVE  Starts(e, s)'
BY DEF Starts

LEMMA ReadsKept ==
  ASSUME NEW x, NEW s, NEW n, Reads(x, s, n), Given(Peer(x))' = Given(Peer(x)),
         line' = line \/ line'[Peer(x)] = line[Peer(x)], phase'[x] = phase[x],
         expected'[x] = expected[x], reassembly'[x] = reassembly[x]
  PROVE  Reads(x, s, n)'
BY DEF Reads

\* A step that changes nothing of it.
LEMMA StreamKept ==
  ASSUME NEW x \in End, NEW g \in Links, NEW a, NEW s, NEW h, Stream(x, g, a, s, h),
         events'[x][g] = events[x][g], received'[x][g] = received[x][g],
         source'[x][g] = source[x][g], offered'[Peer(x)] = offered[Peer(x)],
         gen'[Peer(x)] = gen[Peer(x)], line'[Peer(x)] = line[Peer(x)],
         Live(x)' /\ g = gen'[x] =>
           /\ Live(x) /\ g = gen[x] /\ phase'[x] = phase[x]
           /\ expected'[x] = expected[x] /\ reassembly'[x] = reassembly[x]
  PROVE  Stream(x, g, a, s, h)'
<1>1. Given(Peer(x))' = Given(Peer(x))
  BY DEF Given
<1>2. Starts(Peer(x), s)'
  BY <1>1, StartsKept DEF Stream
<1>3. Places(x, g, a)' /\ FromOne(x, g, h)'
  BY DEF Stream, Places, FromOne, IsNth
<1>4. Live(x)' /\ g = gen'[x] => h = gen'[Peer(x)] /\ Reads(x, s, a[Len(events[x][g])])'
  <2> SUFFICES ASSUME Live(x)', g = gen'[x]
               PROVE  h = gen'[Peer(x)] /\ Reads(x, s, a[Len(events[x][g])])'
    OBVIOUS
  <2>1. PICK n : n = a[Len(events[x][g])]
    OBVIOUS
  <2>2. h = gen[Peer(x)] /\ Reads(x, s, n)
    BY <2>1 DEF Stream
  <2>3. Reads(x, s, n)'
    BY <1>1, <2>2, ReadsKept
  <2>4. QED  BY <2>1, <2>2, <2>3
<1>5. QED  BY <1>2, <1>3, <1>4 DEF Stream

\* An event is put in the queue; if it brings a message, the next one.
LEMMA PlacesPut ==
  ASSUME TypeOK, NEW e \in End, NEW g \in Links, NEW ev \in Event, Put(e, g, ev),
         NEW a, Places(e, g, a), UNCHANGED <<offered, received>>,
         Counted(ev) => IsNth(e, ev, a[Len(events[e][g])] + 1)
  PROVE  \E b : /\ Places(e, g, b)'
                /\ b[Len(events'[e][g])] = IF Counted(ev) THEN a[Len(events[e][g])] + 1
                                           ELSE a[Len(events[e][g])]
<1> DEFINE q == events[e][g]
           n == Len(q)
           last == IF Counted(ev) THEN a[n] + 1 ELSE a[n]
<1>1. q \in Seq(Event) /\ n \in Nat
  BY LenProperties DEF TypeOK, EventTypes
<1>2. events'[e][g] = Append(q, ev)
  BY DEF TypeOK, EventTypes, Put
<1>3. /\ Len(events'[e][g]) = n + 1
      /\ \A i \in 1 .. n : events'[e][g][i] = q[i]
      /\ events'[e][g][n + 1] = ev
  BY <1>1, <1>2
<1>4. /\ a \in [0 .. n -> Nat] /\ a[0] = Len(received[e][g])
      /\ \A i \in 0 .. n : a[i] <= a[n]
      /\ \A i \in 1 .. n : IF Counted(q[i]) THEN a[i] = a[i - 1] + 1 /\ IsNth(e, q[i], a[i])
                           ELSE a[i] = a[i - 1]
  BY DEF Places
<1>5. PICK b : b = [i \in 0 .. n + 1 |-> IF i <= n THEN a[i] ELSE last]
  OBVIOUS
<1> HIDE DEF q, n
<1>6. last \in Nat /\ a[n] <= last
  BY <1>1, <1>4
<1>7. /\ b \in [0 .. n + 1 -> Nat] /\ b[0] = a[0] /\ b[n + 1] = last
      /\ \A i \in 0 .. n : b[i] = a[i]
  BY <1>1, <1>4, <1>5, <1>6
<1>8. \A i \in 0 .. n + 1 : b[i] <= b[n + 1]
  BY <1>1, <1>4, <1>6, <1>7
<1>9. \A i \in 1 .. n : i - 1 \in 0 .. n /\ i \in 0 .. n
  BY <1>1
<1>10. ASSUME NEW i \in 1 .. n + 1
       PROVE  IF Counted(events'[e][g][i])
              THEN b[i] = b[i - 1] + 1 /\ IsNth(e, events'[e][g][i], b[i])
              ELSE b[i] = b[i - 1]
  <2>1. CASE i \in 1 .. n
    BY <2>1, <1>3, <1>4, <1>7, <1>9
  <2>2. CASE i = n + 1
    <3>1. i - 1 = n /\ n \in 0 .. n
      BY <2>2, <1>1
    <3>2. b[i - 1] = a[n] /\ b[i] = last /\ events'[e][g][i] = ev
      BY <3>1, <2>2, <1>3, <1>7
    <3>3. Counted(ev) => IsNth(e, ev, a[n] + 1)
      BY DEF n, q
    <3>4. QED  BY <3>2, <3>3
  <2>3. QED  BY <2>1, <2>2, <1>1
<1>11. Places(e, g, b)'
  BY <1>3, <1>4, <1>7, <1>8, <1>10 DEF Places, IsNth
<1>12. b[Len(events'[e][g])] = last
  BY <1>3, <1>7
<1>13. QED  BY <1>11, <1>12 DEF n, q

\* The first event is taken; if it brings a message, it is given out.
LEMMA PlacesTake ==
  ASSUME TypeOK, NEW e \in End, NEW g \in Links, NEW kind, Takes(e, g, kind),
         NEW a, Places(e, g, a), UNCHANGED offered,
         Len(received'[e][g]) = IF Counted(Head(events[e][g]))
                                THEN Len(received[e][g]) + 1 ELSE Len(received[e][g])
  PROVE  /\ \E b : Places(e, g, b)' /\ b[Len(events'[e][g])] = a[Len(events[e][g])]
         /\ Counted(Head(events[e][g])) =>
              IsNth(e, Head(events[e][g]), Len(received[e][g]) + 1)
<1> DEFINE q == events[e][g]
           n == Len(q)
<1>1. q \in Seq(Event) /\ q # <<>>
  BY DEF TypeOK, EventTypes, Takes
<1>2. events'[e][g] = Tail(q)
  BY DEF TypeOK, EventTypes, Takes
<1>3. /\ n \in Nat /\ n >= 1 /\ Head(q) = q[1]
      /\ Len(events'[e][g]) = n - 1
      /\ \A i \in 1 .. n - 1 : events'[e][g][i] = q[i + 1]
  BY <1>1, <1>2, HeadTailProperties
<1>4. /\ a \in [0 .. n -> Nat] /\ a[0] = Len(received[e][g])
      /\ \A i \in 0 .. n : a[i] <= a[n]
      /\ \A i \in 1 .. n : IF Counted(q[i]) THEN a[i] = a[i - 1] + 1 /\ IsNth(e, q[i], a[i])
                           ELSE a[i] = a[i - 1]
  BY DEF Places
<1>5. PICK b : b = [i \in 0 .. n - 1 |-> a[i + 1]]
  OBVIOUS
<1>6. a[1] = Len(received'[e][g])
      /\ (Counted(Head(q)) => IsNth(e, Head(q), Len(received[e][g]) + 1))
  <2>1. 1 \in 1 .. n /\ 1 - 1 = 0
    BY <1>3
  <2>2. IF Counted(q[1]) THEN a[1] = a[0] + 1 /\ IsNth(e, q[1], a[1]) ELSE a[1] = a[0]
    BY <2>1, <1>4
  <2>3. QED  BY <2>2, <1>3, <1>4
<1> HIDE DEF q, n
<1>7. /\ b \in [0 .. n - 1 -> Nat] /\ b[0] = a[1] /\ b[n - 1] = a[n]
      /\ \A i \in 0 .. n - 1 : b[i] = a[i + 1] /\ i + 1 \in 0 .. n
  BY <1>3, <1>4, <1>5
<1>8. \A i \in 0 .. n - 1 : b[i] <= b[n - 1]
  BY <1>4, <1>7
<1>9. ASSUME NEW i \in 1 .. n - 1
      PROVE  IF Counted(events'[e][g][i])
             THEN b[i] = b[i - 1] + 1 /\ IsNth(e, events'[e][g][i], b[i])
             ELSE b[i] = b[i - 1]
  <2>1. i + 1 \in 1 .. n /\ (i + 1) - 1 = i /\ i \in 0 .. n - 1 /\ i - 1 \in 0 .. n - 1
    BY <1>3
  <2>2. IF Counted(q[i + 1])
        THEN a[i + 1] = a[(i + 1) - 1] + 1 /\ IsNth(e, q[i + 1], a[i + 1])
        ELSE a[i + 1] = a[(i + 1) - 1]
    BY <2>1, <1>4
  <2>3. b[i] = a[i + 1] /\ b[i - 1] = a[i]
    <3>1. (i - 1) + 1 = i  OBVIOUS
    <3>2. QED  BY <3>1, <2>1, <1>7
  <2>4. QED  BY <2>1, <2>2, <2>3, <1>3
<1>10. Places(e, g, b)'
  BY <1>3, <1>6, <1>7, <1>8, <1>9 DEF Places, IsNth
<1>11. b[Len(events'[e][g])] = a[Len(events[e][g])]
  BY <1>3, <1>7 DEF n, q
<1>12. QED  BY <1>6, <1>10, <1>11 DEF q

\* Its events are still from one link.
LEMMA FromOnePut ==
  ASSUME TypeOK, NEW e \in End, NEW g \in Links, NEW ev \in Event, Put(e, g, ev),
         NEW h, FromOne(e, g, h), UNCHANGED <<received, source>>,
         Counted(ev) => ev.from = h
  PROVE  FromOne(e, g, h)'
<1>1. events[e][g] \in Seq(Event) /\ Len(events[e][g]) \in Nat
  BY LenProperties DEF TypeOK, EventTypes
<1>2. events'[e][g] = Append(events[e][g], ev)
  BY DEF TypeOK, EventTypes, Put
<1>3. /\ Len(events'[e][g]) = Len(events[e][g]) + 1
      /\ \A i \in 1 .. Len(events[e][g]) : events'[e][g][i] = events[e][g][i]
      /\ events'[e][g][Len(events[e][g]) + 1] = ev
  BY <1>1, <1>2
<1>4. ASSUME NEW i \in 1 .. Len(events'[e][g]), Counted(events'[e][g][i])
      PROVE  events'[e][g][i].from = h
  <2>1. i \in 1 .. Len(events[e][g]) \/ i = Len(events[e][g]) + 1
    BY <1>1, <1>3
  <2>2. QED  BY <2>1, <1>3, <1>4 DEF FromOne
<1>5. QED  BY <1>4 DEF FromOne

LEMMA FromOneTake ==
  ASSUME TypeOK, NEW e \in End, NEW g \in Links, NEW kind, Takes(e, g, kind),
         NEW h, FromOne(e, g, h),
         \/ received'[e][g] = received[e][g] /\ source'[e][g] = source[e][g]
         \/ Len(received'[e][g]) # 0 /\ source'[e][g] = h
  PROVE  /\ FromOne(e, g, h)'
         /\ Counted(Head(events[e][g])) => Head(events[e][g]).from = h
<1>1. events[e][g] \in Seq(Event) /\ events[e][g] # <<>>
  BY DEF TypeOK, EventTypes, Takes
<1>2. events'[e][g] = Tail(events[e][g])
  BY DEF TypeOK, EventTypes, Takes
<1>3. /\ Len(events[e][g]) \in Nat /\ Len(events[e][g]) >= 1
      /\ Head(events[e][g]) = events[e][g][1]
      /\ Len(events'[e][g]) = Len(events[e][g]) - 1
      /\ \A i \in 1 .. Len(events'[e][g]) :
           events'[e][g][i] = events[e][g][i + 1] /\ i + 1 \in 1 .. Len(events[e][g])
  BY <1>1, <1>2, HeadTailProperties
<1>4. FromOne(e, g, h)'
  BY <1>3 DEF FromOne
<1>5. 1 \in 1 .. Len(events[e][g])
  BY <1>3
<1>6. QED  BY <1>3, <1>4, <1>5 DEF FromOne

LEMMA GivenType ==
  ASSUME TypeOK, HistoryKept, NEW e \in End
  PROVE  /\ Given(e) \in Seq(Nat \ {0}) /\ Len(Given(e)) \in Nat
         /\ \A k \in 1 .. Len(Given(e)) :
              Given(e)[k] \in Nat \ {0} /\ Size(Given(e)[k]) \in Nat /\ Size(Given(e)[k]) >= 1
         /\ Given(e) # <<>> => gen[e] \in Links /\ Given(e) = offered[e][gen[e]]
<1>1. Given(e) \in Seq(Nat \ {0})
  BY EmptySeq DEF HistoryKept, Given
<1>2. Len(Given(e)) \in Nat
  BY <1>1, LenProperties
<1>3. \A k \in 1 .. Len(Given(e)) : Given(e)[k] \in Nat \ {0}
  BY <1>1, ElementOfSeq
<1>4. QED  BY <1>1, <1>2, <1>3, SplitType DEF Given

\* A message is taken from the channel: the starts go on, and what was on the
\* line stays where it was.
LEMMA StartsExtend ==
  ASSUME TypeOK, HistoryKept, NEW e \in End, TakeOutbound(e), NEW s, Starts(e, s)
  PROVE  \E t : /\ Starts(e, t)'
                /\ \A k \in 1 .. Len(Given(e)) + 1 : t[k] = s[k]
                /\ \A i \in 1 .. Len(line[e]) : line'[e][i] = line[e][i]
                /\ Len(Given(e)') = Len(Given(e)) + 1
                /\ \A k \in 1 .. Len(Given(e)) : Given(e)'[k] = Given(e)[k]
<1> DEFINE m == Head(outbound[e])
           G == Given(e)
           L == Len(G)
           n == Len(line[e])
<1>1. m \in Nat \ {0} /\ gen[e] \in Links /\ gen'[e] = gen[e]
  BY TailFacts DEF TypeOK, LinkTypes, PortTypes, Opened, Links, TakeOutbound, portVars
<1>2. Given(e)' = Append(G, m)
  BY <1>1 DEF HistoryKept, Given, TakeOutbound
<1>3. line'[e] = line[e] \o Split(m)
  BY DEF TypeOK, LinkTypes, TakeOutbound
<1>4. /\ G \in Seq(Nat \ {0}) /\ L \in Nat /\ Split(m) \in Seq(Fragment)
      /\ line[e] \in Seq(Fragment) /\ n \in Nat /\ Size(m) \in Nat /\ Size(m) >= 1
      /\ \A k \in 1 .. L : Size(G[k]) \in Nat
  BY <1>1, GivenType, SplitType, LenProperties DEF TypeOK, LinkTypes
<1>5. /\ Len(Given(e)') = L + 1 /\ Given(e)'[L + 1] = m
      /\ \A k \in 1 .. L : Given(e)'[k] = G[k]
  BY <1>2, <1>4
<1>6. Len(Split(m)) = Size(m)
      /\ \A i \in 1 .. Size(m) : Split(m)[i] = [message |-> m, part |-> i]
  BY <1>4, LenProperties DEF Split
<1>7. /\ Len(line'[e]) = n + Size(m)
      /\ \A i \in 1 .. n : line'[e][i] = line[e][i]
      /\ \A i \in 1 .. Size(m) : line'[e][n + i] = [message |-> m, part |-> i]
  <2> DEFINE w == Split(m)
             l == line[e]
  <2>1. /\ w \in Seq(Fragment) /\ l \in Seq(Fragment) /\ line'[e] = l \o w
        /\ Len(l) = n /\ Len(w) = Size(m)
        /\ \A i \in 1 .. Size(m) : w[i] = [message |-> m, part |-> i]
    BY <1>3, <1>4, <1>6
  <2> HIDE DEF w, l, m, n
  <2>2. /\ Len(l \o w) = Len(l) + Len(w)
        /\ \A i \in 1 .. Len(l) + Len(w) : (l \o w)[i] = IF i <= Len(l) THEN l[i] ELSE w[i - Len(l)]
    BY <2>1, ConcatProperties
  <2>3. \A i \in 1 .. Size(m) : /\ n + i \in 1 .. n + Size(m) /\ ~(n + i <= n)
                                /\ (n + i) - n = i
    BY <1>4
  <2>4. \A i \in 1 .. n : i \in 1 .. n + Size(m) /\ i <= n
    BY <1>4
  <2>5. /\ \A i \in 1 .. n : (l \o w)[i] = l[i]
        /\ \A i \in 1 .. Size(m) : (l \o w)[n + i] = w[i]
    BY <2>1, <2>2, <2>3, <2>4
  <2>6. QED  BY <2>1, <2>2, <2>5 DEF l
<1>8. PICK t : t = [k \in 1 .. L + 2 |-> IF k <= L + 1 THEN s[k] ELSE n + Size(m)]
  OBVIOUS
<1>9. /\ s \in [1 .. L + 1 -> Nat] /\ s[1] = 0 /\ s[L + 1] = n
      /\ \A k \in 1 .. L + 1 : k - 1 <= s[k] /\ s[k] <= n
      /\ \A k \in 1 .. L :
           /\ s[k + 1] = s[k] + Size(G[k])
           /\ \A i \in 1 .. Size(G[k]) : line[e][s[k] + i] = [message |-> G[k], part |-> i]
  BY DEF Starts
<1> HIDE DEF m, G, L, n
<1>10. /\ t \in [1 .. L + 2 -> Nat] /\ \A k \in 1 .. L + 1 : t[k] = s[k]
       /\ t[L + 2] = n + Size(m)
  BY <1>4, <1>8, <1>9
<1>11. t[1] = 0 /\ L + 2 = (L + 1) + 1
  BY <1>4, <1>9, <1>10
<1>12. \A k \in 1 .. L + 2 : k - 1 <= t[k] /\ t[k] <= n + Size(m)
  <2> TAKE k \in 1 .. L + 2
  <2>1. CASE k \in 1 .. L + 1
    BY <2>1, <1>4, <1>9, <1>10
  <2>2. CASE k = L + 2
    <3>1. L + 1 \in 1 .. L + 1 /\ L <= n
      BY <1>4, <1>9
    <3>2. QED  BY <2>2, <3>1, <1>4, <1>10
  <2>3. QED  BY <2>1, <2>2, <1>4
<1>13. ASSUME NEW k \in 1 .. L + 1
       PROVE  /\ t[k + 1] = t[k] + Size(Given(e)'[k])
              /\ \A i \in 1 .. Size(Given(e)'[k]) :
                   line'[e][t[k] + i] = [message |-> Given(e)'[k], part |-> i]
  <2>1. CASE k \in 1 .. L
    <3>1. k + 1 \in 1 .. L + 1 /\ k \in 1 .. L + 1
      BY <2>1, <1>4
    <3>2. /\ t[k + 1] = s[k + 1] /\ t[k] = s[k] /\ Given(e)'[k] = G[k]
          /\ s[k + 1] = s[k] + Size(G[k]) /\ s[k + 1] <= n /\ s[k] \in Nat /\ Size(G[k]) \in Nat
      BY <2>1, <3>1, <1>4, <1>5, <1>9, <1>10
    <3>3. ASSUME NEW i \in 1 .. Size(G[k])
          PROVE  s[k] + i \in 1 .. n
      <4> DEFINE a == s[k]
                 z == Size(G[k])
      <4>1. a \in Nat /\ z \in Nat /\ n \in Nat /\ a + z <= n /\ i \in 1 .. z
        BY <3>2, <1>4
      <4> HIDE DEF a, z
      <4>2. a + i \in 1 .. n
        BY <4>1
      <4>3. QED  BY <4>2 DEF a
    <3>4. QED  BY <2>1, <3>2, <3>3, <1>7, <1>9
  <2>2. CASE k = L + 1
    <3>1. t[k] = n /\ t[k + 1] = n + Size(m) /\ Given(e)'[k] = m
      BY <2>2, <1>4, <1>5, <1>9, <1>10, <1>11
    <3>2. QED  BY <3>1, <1>7
  <2>3. QED  BY <2>1, <2>2, <1>4
<1>14. /\ t \in [1 .. Len(Given(e)') + 1 -> Nat] /\ t[1] = 0
       /\ t[Len(Given(e)') + 1] = Len(line'[e])
       /\ \A k \in 1 .. Len(Given(e)') + 1 : k - 1 <= t[k] /\ t[k] <= Len(line'[e])
  BY <1>5, <1>7, <1>10, <1>11, <1>12
<1>15. Starts(e, t)'
  BY <1>5, <1>13, <1>14 DEF Starts
<1>16. QED
  <2>1. /\ \A k \in 1 .. Len(Given(e)) + 1 : t[k] = s[k]
        /\ \A i \in 1 .. Len(line[e]) : line'[e][i] = line[e][i]
        /\ Len(Given(e)') = Len(Given(e)) + 1
        /\ \A k \in 1 .. Len(Given(e)) : Given(e)'[k] = Given(e)[k]
    BY <1>5, <1>7, <1>10 DEF G, L, n
  <2>2. QED  BY <1>15, <2>1

\* The link task of an end goes on where it was, or has ended.
GoesOn(x) ==
  Live(x)' => /\ Live(x) /\ phase'[x] = phase[x]
              /\ expected'[x] = expected[x] /\ reassembly'[x] = reassembly[x]

\* An event that brings no message is put in a queue.
LEMMA StreamsPut ==
  ASSUME TypeOK, Streams, NEW e \in End, NEW g \in Links, NEW ev \in Event,
         Put(e, g, ev), ~Counted(ev),
         UNCHANGED <<gen, line, offered, received, source>>, \A x \in End : GoesOn(x)
  PROVE  Streams'
<1> SUFFICES ASSUME NEW x \in End, NEW f \in Links
             PROVE  \E a, s, h : Stream(x, f, a, s, h)'
  BY DEF Streams
<1>1. PICK a, s, h : Stream(x, f, a, s, h)
  BY DEF Streams
<1>2. CASE x # e \/ f # g
  <2>1. events'[x][f] = events[x][f]
    BY <1>2 DEF TypeOK, EventTypes, Put
  <2>2. Stream(x, f, a, s, h)'
    BY <1>1, <2>1, StreamKept, PeerFacts DEF GoesOn
  <2>3. QED  BY <2>2
<1>3. CASE x = e /\ f = g
  <2>1. Places(e, g, a) /\ FromOne(e, g, h)
    BY <1>1, <1>3 DEF Stream
  <2>2. PICK b : Places(e, g, b)' /\ b[Len(events'[e][g])] = a[Len(events[e][g])]
    BY <2>1, PlacesPut
  <2>3. FromOne(e, g, h)'
    BY <2>1, FromOnePut
  <2>4. Given(Peer(x))' = Given(Peer(x))
    BY DEF Given
  <2>5. Starts(Peer(x), s)'
    BY <1>1, <2>4, StartsKept DEF Stream
  <2>6. ASSUME Live(x)', g = gen'[x]
        PROVE  h = gen'[Peer(x)] /\ Reads(x, s, b[Len(events[x][g])])'
    <3>1. PICK n : n = a[Len(events[x][g])]
      OBVIOUS
    <3>2. h = gen[Peer(x)] /\ Reads(x, s, n) /\ GoesOn(x)
      BY <1>1, <1>3, <2>6, <3>1 DEF Stream, GoesOn
    <3>3. Reads(x, s, n)'
      BY <2>4, <2>6, <3>2, ReadsKept DEF GoesOn
    <3>4. QED  BY <1>3, <2>2, <3>1, <3>2, <3>3
  <2>7. QED  BY <1>3, <2>2, <2>3, <2>5, <2>6 DEF Stream
<1>4. QED  BY <1>2, <1>3

\* An event is taken; what it brings, if anything, comes out of the link.
LEMMA StreamsTake ==
  ASSUME TypeOK, Streams, NEW e \in End, NEW g \in Links, NEW kind, Takes(e, g, kind),
         UNCHANGED <<gen, line, offered>>, \A x \in End : GoesOn(x),
         \A x \in End, f \in Links : x # e \/ f # g =>
           received'[x][f] = received[x][f] /\ source'[x][f] = source[x][f],
         IF Counted(Head(events[e][g]))
         THEN /\ Len(received'[e][g]) = Len(received[e][g]) + 1
              /\ Len(received'[e][g]) # 0 /\ source'[e][g] = Head(events[e][g]).from
         ELSE received'[e][g] = received[e][g] /\ source'[e][g] = source[e][g]
  PROVE  Streams'
<1> SUFFICES ASSUME NEW x \in End, NEW f \in Links
             PROVE  \E a, s, h : Stream(x, f, a, s, h)'
  BY DEF Streams
<1>1. PICK a, s, h : Stream(x, f, a, s, h)
  BY DEF Streams
<1>2. CASE x # e \/ f # g
  <2>1. events'[x][f] = events[x][f]
    BY <1>2 DEF TypeOK, EventTypes, Takes
  <2>2. Stream(x, f, a, s, h)'
    BY <1>1, <1>2, <2>1, StreamKept, PeerFacts DEF GoesOn
  <2>3. QED  BY <2>2
<1>3. CASE x = e /\ f = g
  <2>1. Places(e, g, a) /\ FromOne(e, g, h)
    BY <1>1, <1>3 DEF Stream
  <2>2. PICK b : Places(e, g, b)' /\ b[Len(events'[e][g])] = a[Len(events[e][g])]
    BY <2>1, PlacesTake
  <2>3. FromOne(e, g, h)'
    <3>1. /\ events[e][g] \in Seq(Event) /\ events[e][g] # <<>>
      BY DEF TypeOK, EventTypes, Takes
    <3>2. Len(events[e][g]) \in Nat /\ 1 \in 1 .. Len(events[e][g])
          /\ Head(events[e][g]) = events[e][g][1]
      BY <3>1, HeadTailProperties
    <3>3. Counted(Head(events[e][g])) => Head(events[e][g]).from = h
      BY <2>1, <3>2 DEF FromOne
    <3>4. \/ received'[e][g] = received[e][g] /\ source'[e][g] = source[e][g]
          \/ Len(received'[e][g]) # 0 /\ source'[e][g] = h
      BY <3>3
    <3>5. QED  BY <2>1, <3>4, FromOneTake
  <2>4. Given(Peer(x))' = Given(Peer(x))
    BY DEF Given
  <2>5. Starts(Peer(x), s)'
    BY <1>1, <2>4, StartsKept DEF Stream
  <2>6. ASSUME Live(x)', g = gen'[x]
        PROVE  h = gen'[Peer(x)] /\ Reads(x, s, b[Len(events[x][g])])'
    <3>1. PICK n : n = a[Len(events[x][g])]
      OBVIOUS
    <3>2. h = gen[Peer(x)] /\ Reads(x, s, n) /\ GoesOn(x)
      BY <1>1, <1>3, <2>6, <3>1 DEF Stream, GoesOn
    <3>3. Reads(x, s, n)'
      BY <2>4, <2>6, <3>2, ReadsKept DEF GoesOn
    <3>4. QED  BY <1>3, <2>2, <3>1, <3>2, <3>3
  <2>7. QED  BY <1>3, <2>2, <2>3, <2>5, <2>6 DEF Stream
<1>4. QED  BY <1>2, <1>3

\* Nothing of it changes.
LEMMA StreamsKept ==
  ASSUME Streams, UNCHANGED <<gen, line, events, offered, received, source>>,
         \A x \in End : GoesOn(x)
  PROVE  Streams'
<1> SUFFICES ASSUME NEW x \in End, NEW f \in Links
             PROVE  \E a, s, h : Stream(x, f, a, s, h)'
  BY DEF Streams
<1>1. PICK a, s, h : Stream(x, f, a, s, h)
  BY DEF Streams
<1>2. Stream(x, f, a, s, h)'
  BY <1>1, StreamKept DEF GoesOn
<1>3. QED  BY <1>2

\* A message is taken from the channel of outbound messages.
LEMMA StreamsTakeOutbound ==
  ASSUME TypeOK, HistoryKept, Streams, NEW e \in End, TakeOutbound(e)
  PROVE  Streams'
<1> SUFFICES ASSUME NEW x \in End, NEW f \in Links
             PROVE  \E a, s, h : Stream(x, f, a, s, h)'
  BY DEF Streams
<1>1. PICK a, s, h : Stream(x, f, a, s, h)
  BY DEF Streams
<1>2. /\ UNCHANGED <<gen, phase, expected, reassembly, events, received, source, unequal>>
      /\ line' = [line EXCEPT ![e] = @ \o Split(Head(outbound[e]))]
      /\ offered' = [offered EXCEPT ![e][gen[e]] = Append(@, Head(outbound[e]))]
      /\ gen[e] \in Links /\ Head(outbound[e]) \in Nat \ {0}
  BY TailFacts DEF TypeOK, LinkTypes, PortTypes, Opened, Links, TakeOutbound, portVars
<1>3. CASE x = e
  <2>1. line'[Peer(x)] = line[Peer(x)] /\ offered'[Peer(x)] = offered[Peer(x)]
    BY <1>2, <1>3, PeerFacts DEF TypeOK, LinkTypes, HistoryKept
  <2>2. Stream(x, f, a, s, h)'
    BY <1>1, <1>2, <2>1, StreamKept DEF Live
  <2>3. QED  BY <2>2
<1>4. CASE x # e
  <2>1. Peer(x) = e
    BY <1>4, PeerFacts
  <2>2. Starts(e, s)
    BY <1>1, <2>1 DEF Stream
  <2>3. PICK t : /\ Starts(e, t)'
                 /\ \A k \in 1 .. Len(Given(e)) + 1 : t[k] = s[k]
                 /\ \A i \in 1 .. Len(line[e]) : line'[e][i] = line[e][i]
                 /\ Len(Given(e)') = Len(Given(e)) + 1
                 /\ \A k \in 1 .. Len(Given(e)) : Given(e)'[k] = Given(e)[k]
    BY <2>2, StartsExtend
  <2>4. \A ev, k : IsNth(x, ev, k) => IsNth(x, ev, k)'
    <3> TAKE ev, k
    <3>1. \A r \in Links : /\ offered[e][r] \in Seq(Nat \ {0}) /\ Len(offered[e][r]) \in Nat
                           /\ offered'[e][r] = IF r = gen[e] THEN Append(offered[e][r], Head(outbound[e]))
                                               ELSE offered[e][r]
      <4> TAKE r \in Links
      <4>1. offered[e][r] \in Seq(Nat \ {0})
        BY DEF HistoryKept
      <4>2. Len(offered[e][r]) \in Nat
        BY <4>1, LenProperties
      <4>3. offered'[e][r] = IF r = gen[e] THEN Append(offered[e][r], Head(outbound[e]))
                             ELSE offered[e][r]
        BY <1>2 DEF HistoryKept
      <4>4. QED  BY <4>1, <4>2, <4>3
    <3>2. \A r \in Links : /\ Len(offered'[e][r]) \in Nat /\ Len(offered[e][r]) <= Len(offered'[e][r])
                           /\ \A i \in 1 .. Len(offered[e][r]) : offered'[e][r][i] = offered[e][r][i]
      BY <1>2, <3>1
    <3>3. QED  BY <2>1, <3>1, <3>2 DEF IsNth
  <2>5. Places(x, f, a)'
    BY <1>1, <1>2, <2>4 DEF Stream, Places
  <2>6. FromOne(x, f, h)'
    BY <1>1, <1>2 DEF Stream, FromOne
  <2>7. ASSUME Live(x)', f = gen'[x]
        PROVE  h = gen'[e] /\ Reads(x, t, a[Len(events[x][f])])'
    <3> DEFINE G == Given(e)
               r == Len(reassembly[x])
    <3>0. PICK n : n = a[Len(events[x][f])]
      OBVIOUS
    <3>1. Live(x) /\ h = gen[e] /\ Reads(x, s, n)
      BY <1>1, <1>2, <2>1, <2>7, <3>0 DEF Stream, Live
    <3>2. /\ n \in 0 .. Len(G) /\ expected[x] = s[n + 1] + r
          /\ \A i \in 1 .. r : reassembly[x][i] = line[e][s[n + 1] + i]
          /\ r = 0 \/ (n < Len(G) /\ r <= Size(G[n + 1]))
          /\ phase[x] = "report" <=> n < Len(G) /\ r = Size(G[n + 1])
      BY <3>1, <2>1 DEF Reads
    <3>3. /\ Len(G) \in Nat /\ r \in Nat /\ Len(line[e]) \in Nat
          /\ \A k \in 1 .. Len(G) : Size(G[k]) \in Nat /\ Size(G[k]) >= 1
      BY GivenType, LenProperties DEF TypeOK, LinkTypes
    <3>4. Given(e)' = Append(G, Head(outbound[e]))
      BY <1>2 DEF HistoryKept, Given
    <3>5. Given(e)'[Len(G) + 1] = Head(outbound[e]) /\ Size(Head(outbound[e])) >= 1
      BY <1>2, <3>4, GivenType, SplitType
    <3>6. /\ t[n + 1] = s[n + 1] /\ n \in 0 .. Len(Given(e)') /\ n < Len(Given(e)')
      BY <2>3, <3>2, <3>3
    <3>7. n < Len(G) => Given(e)'[n + 1] = G[n + 1]
      BY <2>3, <3>2, <3>3
    <3>8. \A i \in 1 .. r : line'[e][t[n + 1] + i] = line[e][s[n + 1] + i]
      <4>1. CASE r = 0
        BY <4>1
      <4>2. CASE n < Len(G) /\ r <= Size(G[n + 1])
        <5>1. /\ n + 1 \in 1 .. Len(G) /\ n + 1 \in 1 .. Len(G) + 1
              /\ (n + 1) + 1 \in 1 .. Len(G) + 1
          BY <3>2, <3>3, <4>2
        <5>2. /\ s[(n + 1) + 1] = s[n + 1] + Size(G[n + 1]) /\ s[n + 1] \in Nat
              /\ s[(n + 1) + 1] <= Len(line[e])
          BY <2>2, <5>1 DEF Starts
        <5>3. \A i \in 1 .. r : s[n + 1] + i \in 1 .. Len(line[e])
          BY <3>3, <4>2, <5>1, <5>2
        <5>4. QED  BY <2>3, <3>6, <5>3
      <4>3. QED  BY <3>2, <4>1, <4>2
    <3>9. phase[x] = "report" <=> r = Size(Given(e)'[n + 1])
      <4>1. CASE n < Len(G)
        BY <4>1, <3>2, <3>7
      <4>2. CASE n = Len(G)
        BY <4>2, <3>2, <3>3, <3>5
      <4>3. QED  BY <4>1, <4>2, <3>2, <3>3
    <3>10. r = 0 \/ r <= Size(Given(e)'[n + 1])
      BY <3>2, <3>7
    <3>11. Reads(x, t, n)'
      <4>1. /\ n \in 0 .. Len(Given(Peer(x))') /\ n < Len(Given(Peer(x))')
            /\ expected'[x] = t[n + 1] + Len(reassembly'[x])
            /\ Len(reassembly'[x]) = 0 \/ Len(reassembly'[x]) <= Size(Given(Peer(x))'[n + 1])
            /\ phase'[x] = "report" <=> Len(reassembly'[x]) = Size(Given(Peer(x))'[n + 1])
        BY <1>2, <2>1, <3>2, <3>6, <3>9, <3>10
      <4>2. \A i \in 1 .. Len(reassembly'[x]) : reassembly'[x][i] = line'[Peer(x)][t[n + 1] + i]
        BY <1>2, <2>1, <3>2, <3>8
      <4>3. QED  BY <4>1, <4>2 DEF Reads
    <3>12. QED  BY <1>2, <3>0, <3>1, <3>11
  <2>8. Stream(x, f, a, t, h)'
    BY <2>1, <2>3, <2>5, <2>6, <2>7, <1>2 DEF Stream
  <2>9. QED  BY <2>8
<1>5. QED  BY <1>3, <1>4

\* A link begins: it has given and read nothing, and the peer's link had read
\* nothing of it, or the numbers no longer fit.
LEMMA StreamsConnect ==
  ASSUME TypeOK, HistoryKept, Streams, NEW e \in End, Connect(e)
  PROVE  Streams'
<1>0. PICK g, q : g = gen[e] + 1 /\ q = Peer(e)
  OBVIOUS
<1>1. /\ q \in End /\ q # e /\ Peer(q) = e /\ \A x \in End : x = e \/ x = q
      /\ g \in Links /\ gen'[e] = g /\ gen'[q] = gen[q] /\ g > gen[e]
      /\ \A f \in Links : f # g => events'[e][f] = events[e][f]
      /\ events'[q] = events[q] /\ UNCHANGED <<offered, received, source>>
      /\ line'[e] = <<>> /\ line'[q] = line[q]
      /\ phase'[e] = "run" /\ expected'[e] = 0 /\ reassembly'[e] = <<>>
      /\ phase'[q] = phase[q] /\ expected'[q] = expected[q] /\ reassembly'[q] = reassembly[q]
  <2>1. /\ q \in End /\ q # e /\ Peer(q) = e /\ \A x \in End : x = e \/ x = q
    BY <1>0, PeerFacts
  <2>2. /\ g \in Links /\ gen'[e] = g /\ gen'[q] = gen[q] /\ g > gen[e]
    BY <1>0, <2>1 DEF TypeOK, PortTypes, Connect
  <2>3. /\ \A f \in Links : f # g => events'[e][f] = events[e][f]
        /\ events'[q] = events[q] /\ UNCHANGED <<offered, received, source>>
    BY <1>0, <2>1 DEF TypeOK, EventTypes, Connect, Put
  <2>4. /\ line'[e] = <<>> /\ line'[q] = line[q]
        /\ phase'[e] = "run" /\ expected'[e] = 0 /\ reassembly'[e] = <<>>
        /\ phase'[q] = phase[q] /\ expected'[q] = expected[q] /\ reassembly'[q] = reassembly[q]
    BY <1>0, <2>1 DEF TypeOK, LinkTypes, Connect
  <2>5. QED  BY <2>1, <2>2, <2>3, <2>4
<1>2. unequal'[q] <=> unequal[q] \/ (phase[q] # "off" /\ expected[q] > 0)
  BY <1>0, PeerFacts DEF TypeOK, HistoryTypes, Connect
<1>3. /\ offered[e][g] = <<>> /\ received[e][g] = <<>> /\ source[e][g] = 0
  BY <1>1 DEF HistoryKept
<1>4. /\ Len(events'[e][g]) = 1 /\ ~Counted(events'[e][g][1])
  <2>1. events[e][g] = <<>>
    BY <1>1 DEF TypeOK, Opened
  <2>2. events'[e][g] = <<[kind |-> "connected"]>>
    BY <1>0, <1>1, <2>1 DEF TypeOK, EventTypes, Connect, Put
  <2>3. QED  BY <2>2 DEF Counted
<1> SUFFICES ASSUME NEW x \in End, NEW f \in Links
             PROVE  \E a, s, h : Stream(x, f, a, s, h)'
  BY DEF Streams
<1>5. PICK a, s, h : Stream(x, f, a, s, h)
  BY DEF Streams
<1>6. CASE x = e /\ f # g
  <2>1. Stream(x, f, a, s, h)'
    BY <1>0, <1>1, <1>5, <1>6, StreamKept
  <2>2. QED  BY <2>1
<1>7. CASE x = e /\ f = g
  <2>1. Given(q)' = Given(q) /\ Starts(q, s)'
    BY <1>0, <1>1, <1>5, <1>7, StartsKept DEF Stream, Given
  <2>2. PICK b : b = [i \in 0 .. 1 |-> 0]
    OBVIOUS
  <2>3. Places(e, g, b)'
    BY <1>1, <1>3, <1>4, <2>2 DEF Places
  <2>r. PICK r : r = gen[q]
    OBVIOUS
  <2>4. FromOne(e, g, r)'
    BY <1>1, <1>3, <1>4 DEF FromOne
  <2>5. Reads(e, s, b[Len(events[e][g])])'
    <3>1. s[1] = 0 /\ Len(Given(q)) \in Nat
      BY <1>1, <1>5, <1>7, GivenType, <1>0 DEF Stream, Starts
    <3>2. b[Len(events'[e][g])] = 0
      BY <1>4, <2>2
    <3>3. 0 \in 0 .. Len(Given(q)') /\ ~(0 < Len(Given(q)') /\ 0 = Size(Given(q)'[0 + 1]))
      <4> DEFINE G == Given(q)
      <4>1. /\ Len(G) \in Nat
            /\ \A k \in 1 .. Len(G) : Size(G[k]) \in Nat /\ Size(G[k]) >= 1
        BY <1>1, <1>0, GivenType
      <4>2. Given(q)' = G
        BY <2>1
      <4> HIDE DEF G
      <4>3. 0 \in 0 .. Len(G) /\ 0 + 1 = 1
        BY <4>1
      <4>4. 0 < Len(G) => Size(G[1]) \in Nat /\ Size(G[1]) >= 1
        BY <4>1
      <4>5. ~(0 < Len(G) /\ 0 = Size(G[1]))
        BY <4>4
      <4>6. QED  BY <4>2, <4>3, <4>5
    <3>4. QED  BY <1>0, <1>1, <2>1, <3>1, <3>2, <3>3, NoSeq DEF Reads
  <2>6. Stream(e, g, b, s, r)'
    BY <1>0, <1>1, <2>r, <2>1, <2>3, <2>4, <2>5 DEF Stream
  <2>7. QED  BY <1>7, <2>6
<1>8. CASE x = q
  <2>1. Given(e)' = <<>>
    BY <1>1, <1>3 DEF Given
  <2>2. PICK t : t = [k \in 1 .. 1 |-> 0]
    OBVIOUS
  <2>3. Starts(e, t)'
    BY <1>1, <2>1, <2>2 DEF Starts
  <2>4. Places(q, f, a)' /\ FromOne(q, f, h)'
    BY <1>1, <1>5, <1>8 DEF Stream, Places, FromOne, IsNth
  <2>5. CASE Live(q)' /\ f = gen'[q]
    <3>1. PICK n : n = a[Len(events[q][f])]
      OBVIOUS
    <3>2. phase[q] # "off" /\ ~unequal[q] /\ ~(expected[q] > 0) /\ Live(q) /\ Reads(q, s, n)
      BY <1>1, <1>2, <1>5, <1>8, <2>5, <3>1 DEF Stream, Live
    <3>3. /\ n \in 0 .. Len(Given(e)) /\ expected[q] = s[n + 1] + Len(reassembly[q])
          /\ phase[q] = "report" <=> n < Len(Given(e)) /\ Len(reassembly[q]) = Size(Given(e)[n + 1])
      BY <1>1, <3>2 DEF Reads
    <3>4. /\ expected[q] \in Nat /\ Len(reassembly[q]) \in Nat /\ Len(Given(e)) \in Nat
      BY <1>1, GivenType, LenProperties DEF TypeOK, LinkTypes
    <3>5. n + 1 \in 1 .. Len(Given(e)) + 1
      BY <3>3, <3>4
    <3>6. s[n + 1] \in Nat /\ n <= s[n + 1]
      BY <1>1, <1>5, <1>8, <3>3, <3>4, <3>5 DEF Stream, Starts
    <3>7. n = 0 /\ Len(reassembly[q]) = 0
      BY <3>2, <3>3, <3>4, <3>6
    <3>8. phase[q] # "report"
      <4>1. 0 < Len(Given(e)) => Size(Given(e)[0 + 1]) >= 1
        BY <3>4, GivenType
      <4>2. QED  BY <3>3, <3>7, <4>1
    <3>9. /\ Len(events[q][f]) \in Nat /\ Len(received[q][f]) \in Nat
      BY <1>1, LenProperties DEF TypeOK, EventTypes, HistoryKept
    <3>10. /\ \A i \in 1 .. Len(events[q][f]) : ~Counted(events[q][f][i])
           /\ Len(received[q][f]) = 0
      <4>1. /\ a \in [0 .. Len(events[q][f]) -> Nat] /\ a[0] = Len(received[q][f])
            /\ \A i \in 0 .. Len(events[q][f]) : a[i] <= 0
            /\ \A i \in 1 .. Len(events[q][f]) : Counted(events[q][f][i]) => a[i] = a[i - 1] + 1
        BY <1>5, <1>8, <3>1, <3>7 DEF Stream, Places
      <4>2. \A i \in 0 .. Len(events[q][f]) : a[i] = 0
        BY <4>1, <3>9
      <4>3. \A i \in 1 .. Len(events[q][f]) : i \in 0 .. Len(events[q][f]) /\ i - 1 \in 0 .. Len(events[q][f])
        BY <3>9
      <4>4. 0 \in 0 .. Len(events[q][f])
        BY <3>9
      <4>5. QED  BY <4>1, <4>2, <4>3, <4>4
    <3>12. 0 \in 0 .. Len(Given(e)') /\ ~(0 < Len(Given(e)')) /\ t[0 + 1] = 0
      BY <2>1, <2>2, NoSeq
    <3>13. Reads(q, t, n)'
      <4>1. /\ n \in 0 .. Len(Given(Peer(q))') /\ Len(reassembly'[q]) = 0 /\ t[n + 1] = 0
            /\ expected'[q] = 0
        BY <1>1, <3>2, <3>4, <3>7, <3>12
      <4>3. \A i \in 1 .. Len(reassembly'[q]) : reassembly'[q][i] = line'[Peer(q)][t[n + 1] + i]
        BY <4>1
      <4>4. phase'[q] # "report" /\ ~(n < Len(Given(Peer(q))'))
        BY <1>1, <3>7, <3>8, <3>12
      <4>5. QED  BY <4>1, <4>3, <4>4 DEF Reads
    <3>14. PICK r : r = gen'[e]
      OBVIOUS
    <3>15. FromOne(q, f, r)'
      BY <1>1, <1>5, <1>8, <3>10 DEF Stream, FromOne
    <3>16. Stream(q, f, a, t, r)'
      BY <1>1, <2>3, <2>4, <3>1, <3>13, <3>14, <3>15 DEF Stream
    <3>17. QED  BY <1>8, <3>16
  <2>6. CASE ~(Live(q)' /\ f = gen'[q])
    <3>1. Stream(q, f, a, t, h)'
      BY <1>1, <2>3, <2>4, <2>6 DEF Stream
    <3>2. QED  BY <1>8, <3>1
  <2>7. QED  BY <2>5, <2>6
<1>9. QED  BY <1>1, <1>6, <1>7, <1>8

\* The frame with the expected number is the next fragment.
LEMMA StreamsAcceptFrame ==
  ASSUME TypeOK, HistoryKept, Streams, NEW e \in End, AcceptFrame(e)
  PROVE  Streams'
<1> SUFFICES ASSUME NEW x \in End, NEW f \in Links
             PROVE  \E a, s, h : Stream(x, f, a, s, h)'
  BY DEF Streams
<1>1. PICK a, s, h : Stream(x, f, a, s, h)
  BY DEF Streams
<1>2. PICK q, p : /\ q = Peer(e) /\ p = expected[e] + 1
  OBVIOUS
<1>3. /\ q \in End /\ phase[e] = "run" /\ phase[q] # "off" /\ p <= Sent(q)
      /\ expected'[e] = p /\ reassembly'[e] = Collected(e, line[q][p])
      /\ phase'[e] = IF reassembly'[e] # <<>> /\ IsLast(line[q][p]) THEN "report" ELSE "run"
      /\ \A y \in End : y # e => /\ expected'[y] = expected[y] /\ reassembly'[y] = reassembly[y]
                                 /\ phase'[y] = phase[y]
      /\ UNCHANGED <<gen, line, events, offered, received, source, unequal>>
  BY <1>2, PeerFacts, SentType DEF TypeOK, LinkTypes, AcceptFrame, portVars
<1>4. CASE ~(x = e /\ f = gen[e] /\ Live(e))
  <2>1. Live(x)' /\ f = gen'[x] =>
           /\ Live(x) /\ f = gen[x] /\ phase'[x] = phase[x]
           /\ expected'[x] = expected[x] /\ reassembly'[x] = reassembly[x]
    BY <1>3, <1>4 DEF Live
  <2>2. Stream(x, f, a, s, h)'
    BY <1>1, <1>3, <2>1, StreamKept
  <2>3. QED  BY <2>2
<1>5. CASE x = e /\ f = gen[e] /\ Live(e)
  <2>0. PICK n : n = a[Len(events[e][f])]
    OBVIOUS
  <2> DEFINE G == Given(q)
             r == Len(reassembly[e])
  <2>1. /\ h = gen[q] /\ Places(e, f, a) /\ FromOne(e, f, h) /\ Starts(q, s) /\ Reads(e, s, n)
    BY <1>1, <1>2, <1>5, <2>0 DEF Stream
  <2>2. Given(q)' = Given(q)
    BY <1>3 DEF Given
  <2>3. Starts(q, s)'
    BY <2>1, <2>2, <1>3, StartsKept
  <2>4. Places(e, f, a)' /\ FromOne(e, f, h)'
    BY <2>1, <1>3 DEF Places, FromOne, IsNth
  <2>5. /\ n \in 0 .. Len(G) /\ expected[e] = s[n + 1] + r
        /\ \A i \in 1 .. r : reassembly[e][i] = line[q][s[n + 1] + i]
        /\ r = 0 \/ (n < Len(G) /\ r <= Size(G[n + 1]))
        /\ ~(n < Len(G) /\ r = Size(G[n + 1]))
    BY <2>1, <1>2, <1>3 DEF Reads
  <2>6. /\ s \in [1 .. Len(G) + 1 -> Nat] /\ s[Len(G) + 1] = Len(line[q])
        /\ \A k \in 1 .. Len(G) :
             \A i \in 1 .. Size(G[k]) : line[q][s[k] + i] = [message |-> G[k], part |-> i]
    BY <2>1 DEF Starts
  <2>7. /\ r \in Nat /\ Len(G) \in Nat /\ Len(line[q]) \in Nat /\ Sent(q) <= Len(line[q])
        /\ reassembly[e] \in Seq(Fragment) /\ Sent(q) \in Nat
        /\ \A k \in 1 .. Len(G) : Size(G[k]) \in 1 .. MessageLimit /\ Size(G[k]) \in Nat
    <3>1. \A k \in 1 .. Len(G) : G[k] \in Nat \ {0}
      BY GivenType, <1>3
    <3>2. \A m \in Nat \ {0} : Size(m) \in 1 .. MessageLimit
      BY SizeLimit
    <3>3. QED  BY <1>3, <3>1, <3>2, GivenType, SentType, LenProperties DEF TypeOK, LinkTypes
  <2> HIDE DEF G, r
  <2>8. n + 1 \in 1 .. Len(G) + 1 /\ s[n + 1] \in Nat
    BY <2>5, <2>6, <2>7
  <2>9. n < Len(G)
    <3>1. CASE n = Len(G)
      <4>1. r = 0 /\ s[n + 1] = Len(line[q])
        BY <2>5, <2>6, <2>7, <3>1
      <4>2. QED  BY <4>1, <1>2, <1>3, <2>5, <2>7
    <3>2. QED  BY <3>1, <2>5, <2>7
  <2>10. PICK m : m = G[n + 1]
    OBVIOUS
  <2>11. /\ Size(m) \in Nat /\ Size(m) <= MessageLimit /\ r + 1 \in 1 .. Size(m)
    <3>1. n + 1 \in 1 .. Len(G)
      BY <2>5, <2>7, <2>9
    <3>2. Size(m) \in Nat /\ Size(m) \in 1 .. MessageLimit
      BY <2>7, <2>10, <3>1
    <3>3. r <= Size(m) /\ r # Size(m)
      BY <2>5, <2>9, <2>10, <3>2
    <3>4. QED  BY <2>7, <3>2, <3>3, SizeAssumption
  <2>12. p = s[n + 1] + (r + 1)
    <3>1. expected[e] = s[n + 1] + r /\ p = expected[e] + 1
      BY <1>2, <2>5
    <3>2. r \in Nat /\ s[n + 1] \in Nat
      BY <2>7, <2>8
    <3>3. QED  BY <3>1, <3>2
  <2>13. line[q][p] = [message |-> m, part |-> r + 1]
    <3>1. n + 1 \in 1 .. Len(G)
      BY <2>5, <2>7, <2>9
    <3>2. line[q][s[n + 1] + (r + 1)] = [message |-> m, part |-> r + 1]
      BY <2>6, <2>10, <2>11, <3>1
    <3>3. QED  BY <2>12, <3>2
  <2>14. reassembly'[e] = Append(reassembly[e], line[q][p])
    BY <1>3, <2>7, <2>11, SizeAssumption DEF Collected, r
  <2>15. /\ Len(reassembly'[e]) = r + 1 /\ reassembly'[e] # <<>>
         /\ \A i \in 1 .. r : reassembly'[e][i] = reassembly[e][i]
         /\ reassembly'[e][r + 1] = line[q][p]
    <3>1. line[q][p] \in Fragment
      <4>1. m \in Nat
        BY <1>3, <2>5, <2>7, <2>9, <2>10, GivenType DEF G
      <4>2. QED  BY <4>1, <2>7, <2>13 DEF Fragment
    <3>2. reassembly'[e] \in Seq(Fragment) /\ Len(reassembly'[e]) = r + 1
      BY <2>7, <2>14, <3>1, AppendFacts DEF r
    <3>3. /\ \A i \in 1 .. Len(reassembly[e]) : reassembly'[e][i] = reassembly[e][i]
          /\ reassembly'[e][Len(reassembly[e]) + 1] = line[q][p]
      BY <2>7, <2>14, <3>1
    <3>4. Len(reassembly'[e]) # 0
      BY <2>7, <3>2
    <3>5. QED  BY <3>2, <3>3, <3>4, NoSeq DEF r
  <2>16. phase'[e] = "report" <=> r + 1 = Size(m)
    BY <1>3, <2>13, <2>15 DEF IsLast
  <2>17. \A i \in 1 .. r + 1 : reassembly'[e][i] = line[q][s[n + 1] + i]
    <3> TAKE i \in 1 .. r + 1
    <3>1. CASE i \in 1 .. r
      BY <3>1, <2>5, <2>15
    <3>2. CASE i = r + 1
      BY <3>2, <2>15, <2>12
    <3>3. QED  BY <3>1, <3>2, <2>7
  <2>18. Reads(e, s, n)'
    <3>1. /\ n \in 0 .. Len(Given(Peer(e))') /\ n < Len(Given(Peer(e))')
          /\ Given(Peer(e))'[n + 1] = m
      BY <1>2, <2>2, <2>5, <2>9, <2>10 DEF G
    <3>2. /\ expected'[e] = s[n + 1] + Len(reassembly'[e])
          /\ Len(reassembly'[e]) <= Size(m)
          /\ phase'[e] = "report" <=> Len(reassembly'[e]) = Size(m)
      BY <1>3, <2>11, <2>15, <2>16, <2>12
    <3>3. \A i \in 1 .. Len(reassembly'[e]) : reassembly'[e][i] = line'[Peer(e)][s[n + 1] + i]
      BY <1>2, <1>3, <2>15, <2>17
    <3>4. QED  BY <3>1, <3>2, <3>3 DEF Reads
  <2>19. Stream(e, f, a, s, h)'
    BY <1>2, <1>3, <2>0, <2>1, <2>3, <2>4, <2>18 DEF Stream
  <2>20. QED  BY <2>19, <1>5
<1>6. QED  BY <1>4, <1>5

\* The message put together is the peer's next one.
LEMMA StreamsReport ==
  ASSUME TypeOK, HistoryKept, Streams, NEW e \in End, Report(e)
  PROVE  Streams'
<1>1. PICK q, g, ev : /\ q = Peer(e) /\ g = gen[e]
                      /\ ev = [kind |-> "data", parts |-> reassembly[e],
                               from |-> IF unequal[e] THEN 0 ELSE gen[Peer(e)]]
  OBVIOUS
<1>2. /\ q \in End /\ g \in Links /\ phase[e] = "report" /\ Put(e, g, ev)
      /\ reassembly'[e] = <<>> /\ phase'[e] = "run" /\ expected'[e] = expected[e]
      /\ \A y \in End : y # e => /\ expected'[y] = expected[y] /\ reassembly'[y] = reassembly[y]
                                 /\ phase'[y] = phase[y]
      /\ UNCHANGED <<gen, line, offered, received, source, unequal>>
  BY <1>1, PeerFacts DEF TypeOK, LinkTypes, PortTypes, Opened, Links, Report, portVars, historyVars
<1>3. ev \in Event /\ ev.kind = "data" /\ ev.parts = reassembly[e]
      /\ ev.from = IF unequal[e] THEN 0 ELSE gen[q]
  <2>1. gen[q] \in 0 .. MaxLinks /\ 0 \in 0 .. MaxLinks
    BY <1>2, SizeAssumption DEF TypeOK, PortTypes
  <2>2. QED  BY <1>1, <2>1, EventFacts DEF TypeOK, LinkTypes
<1>4. CASE unequal[e]
  <2>1. ~Counted(ev)
    BY <1>3, <1>4 DEF Counted
  <2>2. \A y \in End : GoesOn(y)
    BY <1>2, <1>4 DEF GoesOn, Live
  <2>3. QED  BY <1>2, <1>3, <2>1, <2>2, StreamsPut
<1>5. CASE ~unequal[e]
  <2> SUFFICES ASSUME NEW x \in End, NEW f \in Links
               PROVE  \E a, s, h : Stream(x, f, a, s, h)'
    BY DEF Streams
  <2>1. PICK a, s, h : Stream(x, f, a, s, h)
    BY DEF Streams
  <2>2. CASE x # e \/ f # g
    <3>1. events'[x][f] = events[x][f]
      BY <1>2, <2>2 DEF TypeOK, EventTypes, Put
    <3>2. Live(x)' /\ f = gen'[x] =>
             /\ Live(x) /\ f = gen[x] /\ phase'[x] = phase[x]
             /\ expected'[x] = expected[x] /\ reassembly'[x] = reassembly[x]
      BY <1>1, <1>2, <2>2 DEF Live
    <3>3. Stream(x, f, a, s, h)'
      BY <1>2, <2>1, <3>1, <3>2, StreamKept
    <3>4. QED  BY <3>3
  <2>3. CASE x = e /\ f = g
    <3> DEFINE G == Given(q)
               r == Len(reassembly[e])
    <3>1. PICK n : n = a[Len(events[e][g])]
      OBVIOUS
    <3>2. /\ h = gen[q] /\ Places(e, g, a) /\ FromOne(e, g, h) /\ Starts(q, s) /\ Reads(e, s, n)
      BY <1>1, <1>2, <1>5, <2>1, <2>3, <3>1 DEF Stream, Live
    <3>3. /\ n \in Nat /\ n < Len(G) /\ expected[e] = s[n + 1] + r
          /\ \A i \in 1 .. r : reassembly[e][i] = line[q][s[n + 1] + i]
          /\ r = Size(G[n + 1])
      BY <1>1, <1>2, <3>2 DEF Reads
    <3>4. /\ s \in [1 .. Len(G) + 1 -> Nat]
          /\ \A k \in 1 .. Len(G) :
               /\ s[k + 1] = s[k] + Size(G[k])
               /\ \A i \in 1 .. Size(G[k]) : line[q][s[k] + i] = [message |-> G[k], part |-> i]
      BY <3>2 DEF Starts
    <3>5. /\ Len(G) \in Nat /\ r \in Nat /\ reassembly[e] \in Seq(Fragment)
          /\ \A k \in 1 .. Len(G) : G[k] \in Nat \ {0} /\ Size(G[k]) >= 1 /\ Size(G[k]) \in Nat
          /\ G # <<>> => gen[q] \in Links /\ G = offered[q][gen[q]]
      BY <1>2, GivenType, LenProperties DEF TypeOK, LinkTypes
    <3>6. G # <<>>
      BY <3>3, NoSeq
    <3> HIDE DEF G
    <3>7. n + 1 \in 1 .. Len(G) /\ (n + 1) + 1 \in 1 .. Len(G) + 1
      BY <3>3, <3>5
    <3>8. reassembly[e] = Split(G[n + 1])
      <4>1. /\ DOMAIN reassembly[e] = 1 .. r
            /\ reassembly[e] = [i \in 1 .. r |-> reassembly[e][i]]
        BY <3>5
      <4>2. \A i \in 1 .. r : reassembly[e][i] = [message |-> G[n + 1], part |-> i]
        BY <3>3, <3>4, <3>7
      <4> HIDE DEF r
      <4>3. QED  BY <3>3, <4>1, <4>2 DEF Split
    <3>9. /\ gen[q] \in Links /\ IsNth(e, ev, n + 1) /\ Counted(ev) /\ ev.from = h
      <4>1. gen[q] \in Links /\ G = offered[q][gen[q]] /\ gen[q] # 0
        BY <3>5, <3>6 DEF Links
      <4>2. QED  BY <1>1, <1>3, <1>5, <3>2, <3>7, <3>8, <4>1 DEF IsNth, Counted
    <3>10. PICK b : Places(e, g, b)' /\ b[Len(events'[e][g])] = n + 1
      BY <1>2, <1>3, <3>1, <3>2, <3>9, PlacesPut
    <3>11. FromOne(e, g, h)'
      BY <1>2, <1>3, <3>2, <3>9, FromOnePut
    <3>12. Given(q)' = G
      BY <1>2 DEF Given, G
    <3>13. Starts(q, s)'
      BY <1>2, <3>2, <3>12, StartsKept DEF G
    <3>14. PICK c : c = n + 1
      OBVIOUS
    <3>15. expected'[e] = s[c + 1] + 0
      <4>1. s[(n + 1) + 1] = s[n + 1] + r
        BY <3>3, <3>4, <3>7
      <4>2. n + 1 \in 1 .. Len(G) + 1 /\ (n + 1) + 1 \in 1 .. Len(G) + 1
        BY <3>3, <3>5
      <4>3. s[(n + 1) + 1] \in Nat
        BY <3>4, <4>2
      <4>4. QED  BY <1>2, <3>3, <3>14, <4>1, <4>3
    <3>16. ~(c < Len(G) /\ 0 = Size(G[c + 1]))
      <4>1. c < Len(G) => c + 1 \in 1 .. Len(G)
        BY <3>3, <3>5, <3>14
      <4>2. \A k \in 1 .. Len(G) : 0 # Size(G[k])
        BY <3>5
      <4>3. QED  BY <4>1, <4>2
    <3>17. Reads(e, s, c)'
      <4>1. c \in 0 .. Len(Given(Peer(e))')
        BY <1>1, <3>3, <3>5, <3>12, <3>14
      <4>2. expected'[e] = s[c + 1] + Len(reassembly'[e])
        BY <1>2, <3>15, NoSeq
      <4>3. Len(reassembly'[e]) = 0 /\ phase'[e] # "report"
        BY <1>2, NoSeq
      <4>4. ~(c < Len(Given(Peer(e))') /\ Len(reassembly'[e]) = Size(Given(Peer(e))'[c + 1]))
        BY <1>1, <3>12, <3>16, <4>3
      <4>5. \A i \in 1 .. Len(reassembly'[e]) : reassembly'[e][i] = line'[Peer(e)][s[c + 1] + i]
        BY <4>3
      <4>6. QED  BY <4>1, <4>2, <4>3, <4>4, <4>5 DEF Reads
    <3>18. Stream(e, g, b, s, h)'
      BY <1>1, <1>2, <3>2, <3>10, <3>11, <3>13, <3>14, <3>17 DEF Stream
    <3>19. QED  BY <2>3, <3>18
  <2>4. QED  BY <2>2, <2>3
<1>6. QED  BY <1>4, <1>5

\* A whole message knows its name.
LEMMA NameOfSplit ==
  ASSUME NEW m \in Nat \ {0}
  PROVE  Name(Split(m)) = m
<1>1. Size(m) \in Nat /\ Size(m) >= 1
  BY SplitType
<1>2. Split(m)[1] = [message |-> m, part |-> 1]
  BY <1>1 DEF Split
<1>3. Split(m)[1].message = m
  BY <1>2
<1>4. QED  BY <1>3 DEF Name, Whole

\* A message that is counted comes out of the link: the next one, and from the
\* same link of the peer as those before.
LEMMA MessageOut ==
  ASSUME TypeOK, HistoryKept, Streams, NEW e \in End, NEW g \in Links, OnMessage(e, g)
  PROVE  LET ev == Head(events[e][g])
             n  == Len(received[e][g]) + 1
         IN /\ ev.kind = "data" /\ (Counted(ev) <=> ev.from # 0) /\ n \in Nat
            /\ Counted(ev) =>
                 /\ ev.from \in Links /\ source[e][g] \in {0, ev.from}
                 /\ n \in DOMAIN offered[Peer(e)][ev.from]
                 /\ offered[Peer(e)][ev.from][n] \in Nat \ {0}
                 /\ received' = [received EXCEPT ![e][g] = Append(@, offered[Peer(e)][ev.from][n])]
                 /\ source' = [source EXCEPT ![e][g] = ev.from]
            /\ ~Counted(ev) => UNCHANGED <<received, source>>
<1> DEFINE ev == Head(events[e][g])
           n  == Len(received[e][g]) + 1
           q  == Peer(e)
<1>1. /\ Takes(e, g, "data") /\ ev.kind = "data"
      /\ received' = IF ev.from = 0 THEN received
                     ELSE [received EXCEPT ![e][g] = Append(@, Name(ev.parts))]
      /\ source' = IF ev.from = 0 THEN source ELSE [source EXCEPT ![e][g] = ev.from]
      /\ UNCHANGED offered
  BY DEF OnMessage, Takes, historyVars
<1>2. Counted(ev) <=> ev.from # 0
  BY <1>1 DEF Counted
<1>3. received[e][g] \in Seq(Nat) /\ Len(received[e][g]) \in Nat
  BY LenProperties DEF HistoryKept
<1>4. PICK a, s, h : Places(e, g, a) /\ FromOne(e, g, h)
  BY DEF Streams, Stream
<1>5. ASSUME Counted(ev)
      PROVE  /\ ev.from \in Links /\ source[e][g] \in {0, ev.from}
             /\ n \in DOMAIN offered[q][ev.from] /\ offered[q][ev.from][n] \in Nat \ {0}
             /\ Name(ev.parts) = offered[q][ev.from][n]
  <2>1. /\ events[e][g] \in Seq(Event) /\ events[e][g] # <<>>
    BY <1>1 DEF TypeOK, EventTypes, Takes
  <2>2. 1 \in 1 .. Len(events[e][g]) /\ ev = events[e][g][1]
    BY <2>1, HeadTailProperties
  <2>3. 0 \in 0 .. Len(events[e][g]) /\ 1 - 1 = 0
    BY <2>2
  <2>4. IsNth(e, ev, n)
    BY <1>4, <1>5, <2>2, <2>3 DEF Places
  <2>5. ev.from = h
    BY <1>4, <1>5, <2>2 DEF FromOne
  <2>6. ev.from \in Links /\ n \in 1 .. Len(offered[q][ev.from])
        /\ ev.parts = Split(offered[q][ev.from][n])
    BY <2>4 DEF IsNth
  <2>7. offered[q][ev.from] \in Seq(Nat \ {0})
    BY <2>6, PeerFacts DEF HistoryKept
  <2>8. PICK o, k : o = offered[q][ev.from] /\ k = n
    OBVIOUS
  <2>9. o \in Seq(Nat \ {0}) /\ k \in 1 .. Len(o) /\ ev.parts = Split(o[k])
    BY <2>6, <2>7, <2>8
  <2>10. o[k] \in Nat \ {0} /\ k \in DOMAIN o
    BY <2>9, ElementOfSeq
  <2>11. Name(ev.parts) = o[k]
    BY <2>9, <2>10, NameOfSplit
  <2>12. source[e][g] \in {0, ev.from}
    BY <1>4, <2>5 DEF FromOne
  <2>13. QED  BY <2>6, <2>8, <2>10, <2>11, <2>12
<1> HIDE DEF ev, q
<1>6. n \in Nat
  BY <1>3
<1> HIDE DEF n
<1>7. Counted(ev) =>
        /\ received' = [received EXCEPT ![e][g] = Append(@, offered[q][ev.from][n])]
        /\ source' = [source EXCEPT ![e][g] = ev.from]
  BY <1>1, <1>2, <1>5
<1>8. ~Counted(ev) => UNCHANGED <<received, source>>
  BY <1>1, <1>2
<1>9. QED  BY <1>1, <1>2, <1>5, <1>6, <1>7, <1>8 DEF ev, n, q

LEMMA StreamsMessage ==
  ASSUME TypeOK, HistoryKept, Streams, NEW e \in End, NEW g \in Links, OnMessage(e, g)
  PROVE  Streams'
<1> DEFINE ev == Head(events[e][g])
<1>1. /\ Takes(e, g, "data")
      /\ UNCHANGED <<gen, line, offered, phase, expected, reassembly, unequal>>
  BY DEF OnMessage, portVars, linkVars
<1>2. /\ Counted(ev) => /\ \E m \in Nat : received' = [received EXCEPT ![e][g] = Append(@, m)]
                        /\ source' = [source EXCEPT ![e][g] = ev.from]
      /\ ~Counted(ev) => UNCHANGED <<received, source>>
  BY MessageOut
<1> HIDE DEF ev
<1>3. received[e][g] \in Seq(Nat) /\ Len(received[e][g]) \in Nat
  BY LenProperties DEF HistoryKept
<1>4. \A x \in End, f \in Links : x # e \/ f # g =>
        received'[x][f] = received[x][f] /\ source'[x][f] = source[x][f]
  BY <1>2 DEF HistoryKept
<1>5. IF Counted(ev)
      THEN /\ Len(received'[e][g]) = Len(received[e][g]) + 1
           /\ Len(received'[e][g]) # 0 /\ source'[e][g] = ev.from
      ELSE received'[e][g] = received[e][g] /\ source'[e][g] = source[e][g]
  <2>1. CASE Counted(ev)
    <3>1. PICK m \in Nat : received' = [received EXCEPT ![e][g] = Append(@, m)]
      BY <1>2, <2>1
    <3>2. received'[e][g] = Append(received[e][g], m)
      BY <3>1 DEF HistoryKept
    <3>3. Len(received'[e][g]) = Len(received[e][g]) + 1
      BY <1>3, <3>2
    <3>4. source'[e][g] = ev.from
      BY <1>2, <2>1 DEF HistoryKept
    <3>5. QED  BY <1>3, <2>1, <3>3, <3>4
  <2>2. CASE ~Counted(ev)
    BY <1>2, <2>2
  <2>3. QED  BY <2>1, <2>2
<1>6. \A x \in End : GoesOn(x)
  BY <1>1 DEF GoesOn, Live
<1>7. QED  BY <1>1, <1>4, <1>5, <1>6, StreamsTake DEF ev

\* What a step does to the history: a message is handed to a link, one comes
\* out, or nothing of it changes.
LEMMA HistoryStep ==
  ASSUME TypeOK, HistoryKept, Streams, [Next]_vars
  PROVE  /\ HistoryKept'
         /\ Messages!Next \/ UNCHANGED Messages!svars
<1> USE DEF historyVars
<1>t. gen \in [End -> 0 .. MaxLinks]
  BY DEF TypeOK, PortTypes
<1>0. ASSUME UNCHANGED <<gen, offered, received, source>>
      PROVE  HistoryKept' /\ UNCHANGED Messages!svars
  BY <1>0 DEF HistoryKept, Messages!svars
<1>1. ASSUME NEW e \in End, Connect(e)  PROVE HistoryKept' /\ UNCHANGED Messages!svars
  <2>1. /\ UNCHANGED <<offered, received, source>>
        /\ \A x \in End : gen[x] \in Nat /\ gen'[x] \in Nat /\ gen[x] <= gen'[x]
    BY <1>1, <1>t DEF Connect
  <2>2. \A x \in End, f \in Links : f > gen'[x] => f > gen[x]
    BY <2>1 DEF Links
  <2>3. QED  BY <2>1, <2>2 DEF HistoryKept, Messages!svars
<1>2. ASSUME NEW e \in End, TakeOutbound(e)  PROVE HistoryKept' /\ Messages!Next
  <2>1. PICK g, m : g = gen[e] /\ m = Head(outbound[e])
    OBVIOUS
  <2>2. /\ offered' = [offered EXCEPT ![e][g] = Append(@, m)]
        /\ UNCHANGED <<gen, received, source>> /\ m \in Nat \ {0} /\ g \in Links
    BY <1>2, <2>1, TailFacts
    DEF TypeOK, LinkTypes, PortTypes, Opened, Links, TakeOutbound, portVars
  <2>3. offered[e][g] \in Seq(Nat \ {0})
    BY <2>2 DEF HistoryKept
  <2>4. Append(offered[e][g], m) \in Seq(Nat \ {0}) /\ m \in Range(Append(offered[e][g], m))
    BY <2>2, <2>3, AppendFacts
  <2>5. offered'[e][g] = Append(offered[e][g], m)
    BY <2>2 DEF HistoryKept
  <2>6. Messages!Offer(e, g, m)
    BY <2>2 DEF Messages!Offer
  <2>7. Messages!Next
    BY <2>2, <2>4, <2>5, <2>6 DEF Messages!Next, Messages!Range, Range
  <2>8. ~(g > gen[e])
    BY <2>1, <1>t
  <2>9. HistoryKept'
    BY <2>2, <2>4, <2>8 DEF HistoryKept
  <2>10. QED  BY <2>7, <2>9
<1>3. ASSUME NEW e \in End, NEW g \in Links, OnMessage(e, g)
      PROVE  HistoryKept' /\ (Messages!Next \/ UNCHANGED Messages!svars)
  <2> DEFINE ev == Head(events[e][g])
             n  == Len(received[e][g]) + 1
  <2>1. UNCHANGED <<gen, offered>> /\ events[e][g] # <<>>
    BY <1>3 DEF OnMessage, portVars, Takes
  <2>2. CASE ~Counted(ev)
    BY <1>3, <2>1, <2>2, <1>0, MessageOut
  <2>3. CASE Counted(ev)
    <3>1. PICK h, m : h = ev.from /\ m = offered[Peer(e)][ev.from][n]
      OBVIOUS
    <3>2. /\ h \in Links /\ source[e][g] \in {0, h} /\ n \in DOMAIN offered[Peer(e)][h]
          /\ m \in Nat \ {0}
          /\ received' = [received EXCEPT ![e][g] = Append(@, offered[Peer(e)][h][n])]
          /\ source' = [source EXCEPT ![e][g] = h]
      BY <1>3, <2>3, <3>1, MessageOut
    <3>3. Messages!Receive(e, g, h)
      BY <2>1, <3>2 DEF Messages!Receive
    <3>4. Messages!Next
      BY <3>2, <3>3 DEF Messages!Next
    <3>5. h \in 0 .. MaxLinks /\ received[e][g] \in Seq(Nat)
      <4>1. h \in 0 .. MaxLinks
        BY <3>2, SizeAssumption DEF Links
      <4>2. QED  BY <4>1 DEF HistoryKept
    <3>6. /\ received' = [received EXCEPT ![e][g] = Append(@, m)]
          /\ Append(received[e][g], m) \in Seq(Nat)
      <4>1. m \in Nat
        BY <3>2
      <4>2. Append(received[e][g], m) \in Seq(Nat)
        BY <3>5, <4>1, AppendFacts
      <4>3. QED  BY <3>1, <3>2, <4>2
    <3>7. ~(g > gen[e])
      BY <2>1 DEF TypeOK, Opened
    <3> HIDE DEF n
    <3>8. HistoryKept'
      <4>0. PICK w \in Seq(Nat) : received' = [received EXCEPT ![e][g] = w]
        BY <3>6
      <4>t. /\ received \in [End -> [Links -> Seq(Nat)]]
            /\ source \in [End -> [Links -> 0 .. MaxLinks]]
        BY DEF HistoryKept
      <4>1. /\ received' \in [End -> [Links -> Seq(Nat)]]
            /\ \A x \in End, f \in Links : x # e \/ f # g => received'[x][f] = received[x][f]
        BY <4>0, <4>t
      <4>2. /\ source' \in [End -> [Links -> 0 .. MaxLinks]]
            /\ \A x \in End, f \in Links : x # e \/ f # g => source'[x][f] = source[x][f]
        BY <3>2, <3>5, <4>t
      <4>3. \A x \in End, f \in Links : f > gen[x] => x # e \/ f # g
        BY <3>7
      <4>4. ASSUME NEW x \in End, NEW f \in Links, f > gen'[x]
            PROVE  offered'[x][f] = <<>> /\ received'[x][f] = <<>> /\ source'[x][f] = 0
        <5>1. f > gen[x] /\ UNCHANGED offered
          BY <2>1, <4>4
        <5>2. received'[x][f] = received[x][f] /\ source'[x][f] = source[x][f]
          BY <4>1, <4>2, <4>3, <5>1
        <5>3. QED  BY <5>1, <5>2 DEF HistoryKept
      <4>5. offered' \in [End -> [Links -> Seq(Nat \ {0})]]
        BY <2>1 DEF HistoryKept
      <4>6. QED  BY <4>1, <4>2, <4>4, <4>5 DEF HistoryKept
    <3>9. QED  BY <3>4, <3>8
  <2>4. QED  BY <2>2, <2>3
<1>4. ASSUME NEW e \in End,
             \/ Teardown(e) \/ Stop(e) \/ GiveUp(e) \/ ReadThreadEnds(e) \/ Unplug(e)
             \/ UserSends(e) \/ AcceptFrame(e) \/ Report(e) \/ ReadAck(e)
      PROVE  HistoryKept' /\ UNCHANGED Messages!svars
  BY <1>4, <1>0 DEF Teardown, Stop, GiveUp, Return, ReadThreadEnds, Unplug, UserSends,
                    AcceptFrame, Report, ReadAck, portVars
<1>5. ASSUME NEW e \in End, NEW g \in Links,
             \/ SendDisconnected(e, g) \/ OnConnected(e, g) \/ OnError(e, g)
             \/ OnDisconnected(e, g) \/ SendAnswer(e, g) \/ AnswerFails(e, g)
      PROVE  HistoryKept' /\ UNCHANGED Messages!svars
  BY <1>5, <1>0 DEF SendDisconnected, OnConnected, OnError, OnDisconnected, SendAnswer,
                    AnswerFails, portVars
<1>6. ASSUME UNCHANGED vars  PROVE HistoryKept' /\ UNCHANGED Messages!svars
  BY <1>6, <1>0 DEF vars, portVars
<1>7. QED
  BY <1>1, <1>2, <1>3, <1>4, <1>5, <1>6, ActionCases

LEMMA StreamsStep ==
  ASSUME TypeOK, HistoryKept, Streams, [Next]_vars
  PROVE  Streams'
<1> USE DEF portVars, linkVars, historyVars
<1>1. ASSUME NEW e \in End,
             \/ Teardown(e) \/ Stop(e) \/ GiveUp(e) \/ ReadThreadEnds(e) \/ UserSends(e)
             \/ ReadAck(e)
      PROVE  Streams'
  <2>1. /\ UNCHANGED <<gen, line, events, offered, received, source, unequal, expected, reassembly>>
        /\ \A x \in End : phase'[x] = phase[x] \/ phase'[x] = "off"
    BY <1>1 DEF Teardown, Stop, GiveUp, Return, ReadThreadEnds, UserSends, ReadAck,
                TypeOK, LinkTypes
  <2>2. \A x \in End : GoesOn(x)
    BY <2>1 DEF GoesOn, Live
  <2>3. QED  BY <2>1, <2>2, StreamsKept
<1>2. ASSUME NEW e \in End, NEW g \in Links, SendAnswer(e, g) \/ AnswerFails(e, g)
      PROVE  Streams'
  <2>1. UNCHANGED <<gen, line, events, offered, received, source, unequal, expected,
                    reassembly, phase>>
    BY <1>2 DEF SendAnswer, AnswerFails
  <2>2. \A x \in End : GoesOn(x)
    BY <2>1 DEF GoesOn, Live
  <2>3. QED  BY <2>1, <2>2, StreamsKept
<1>3. ASSUME UNCHANGED vars  PROVE Streams'
  <2>1. \A x \in End : GoesOn(x)
    BY <1>3 DEF vars, GoesOn, Live
  <2>2. QED  BY <1>3, <2>1, StreamsKept DEF vars
<1>4. ASSUME NEW e \in End, Unplug(e)  PROVE Streams'
  <2>1. /\ gen[e] \in Links /\ Put(e, gen[e], [kind |-> "error"])
        /\ UNCHANGED <<gen, line, offered, received, source, unequal, expected, reassembly, phase>>
    BY <1>4 DEF TypeOK, PortTypes, Opened, Links, Unplug
  <2>2. \A x \in End : GoesOn(x)
    BY <2>1 DEF GoesOn, Live
  <2>3. ~Counted([kind |-> "error"])
    BY DEF Counted
  <2>4. QED  BY <2>1, <2>2, <2>3, EventFacts, StreamsPut
<1>5. ASSUME NEW e \in End, NEW g \in Links, SendDisconnected(e, g)  PROVE Streams'
  <2>1. /\ Put(e, g, [kind |-> "disconnected"])
        /\ UNCHANGED <<gen, line, offered, received, source, unequal, expected, reassembly, phase>>
    BY <1>5 DEF SendDisconnected
  <2>2. \A x \in End : GoesOn(x)
    BY <2>1 DEF GoesOn, Live
  <2>3. ~Counted([kind |-> "disconnected"])
    BY DEF Counted
  <2>4. QED  BY <2>1, <2>2, <2>3, EventFacts, StreamsPut
<1>6. ASSUME NEW e \in End, NEW g \in Links,
             OnConnected(e, g) \/ OnError(e, g) \/ OnDisconnected(e, g)
      PROVE  Streams'
  <2>1. /\ UNCHANGED <<gen, line, offered, received, source, unequal, expected, reassembly, phase>>
        /\ \E kind \in {"connected", "error", "disconnected"} : Takes(e, g, kind)
    BY <1>6 DEF OnConnected, OnError, OnDisconnected
  <2>2. PICK kind \in {"connected", "error", "disconnected"} : Takes(e, g, kind)
    BY <2>1
  <2>3. ~Counted(Head(events[e][g]))
    BY <2>2 DEF Takes, Counted
  <2>4. \A x \in End : GoesOn(x)
    BY <2>1 DEF GoesOn, Live
  <2>5. QED  BY <2>1, <2>2, <2>3, <2>4, StreamsTake
<1>7. QED
  BY <1>1, <1>2, <1>3, <1>4, <1>5, <1>6, StreamsConnect, StreamsTakeOutbound,
     StreamsAcceptFrame, StreamsReport, StreamsMessage, ActionCases

LEMMA StreamsInit == Init => HistoryKept /\ Streams
<1> SUFFICES ASSUME Init  PROVE HistoryKept /\ Streams
  OBVIOUS
<1>1. HistoryKept
  BY EmptySeq, SizeAssumption DEF Init, HistoryKept
<1>2. ASSUME NEW e \in End, NEW g \in Links
      PROVE  \E a, s, h : Stream(e, g, a, s, h)
  <2>1. PICK a, s : a = [i \in 0 .. 0 |-> 0] /\ s = [i \in 1 .. 1 |-> 0]
    OBVIOUS
  <2>2. Given(Peer(e)) = <<>> /\ Peer(e) \in End /\ Len(<<>>) = 0
    BY PeerFacts, NoSeq DEF Init, Given, Links
  <2>3. Starts(Peer(e), s)
    BY <2>1, <2>2 DEF Init, Starts
  <2>4. Places(e, g, a) /\ FromOne(e, g, 0)
    BY <2>1, <2>2 DEF Init, Places, FromOne
  <2>5. ~Live(e)
    BY DEF Init, Live
  <2>6. Stream(e, g, a, s, 0)
    BY <2>3, <2>4, <2>5 DEF Stream
  <2>7. QED  BY <2>6
<1>3. QED  BY <1>1, <1>2 DEF Streams

\* The serial link implements the stream of messages it promises: what comes
\* out of a link are whole messages of one link of the peer, in order, each
\* once, from the first one on (fragment, run_link).
THEOREM StreamCorrect == Spec => ImplementsStream
<1>1. Init => Messages!Init
  BY DEF Init, Messages!Init
<1>2. TypeOK /\ HistoryKept /\ Streams /\ [Next]_vars =>
        HistoryKept' /\ Streams' /\ [Messages!Next]_(Messages!svars)
  BY HistoryStep, StreamsStep
<1>3. QED  BY TypeCorrect, StreamsInit, <1>1, <1>2, PTL DEF Spec, ImplementsStream, Messages!Spec
=============================================================================
