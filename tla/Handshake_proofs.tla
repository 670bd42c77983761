-------------------------- MODULE Handshake_proofs --------------------------
(***************************************************************************)
(* What holds of a handshake whatever timers expire, however many calls    *)
(* the peers make and however these overlap or join, and whichever         *)
(* connections are replaced: the types, a responder's answer is that of    *)
(* its session, and a waiter, a signal and an attempt belong to a call     *)
(* that is under way.  The answer is inductive for each peer by itself.    *)
(* The others need that a session made an initiator's by one call stays    *)
(* one only while some call is still to end the attempt, which a signal to *)
(* yield must not take away from it: while such a signal is due, the       *)
(* session is a responder's.                                               *)
(*                                                                         *)
(* And what holds as long as nothing was hasty: the two sides derive the   *)
(* same key, and at rest both or neither of them have a session.  At such  *)
(* times a peer has one dial task with a handshake of its own (Task), and  *)
(* the two sessions and the two directions of the link are in one of three *)
(* phases: no attempt was answered yet (Open), the answer to the pending   *)
(* attempt of one peer is under way (Answering), or that peer has it and   *)
(* its step 3 is under way (Finishing).  Each action leads from a phase to *)
(* itself or to the next one, whatever is still on the link.               *)
(***************************************************************************)
EXTENDS Handshake, WellFoundedInduction, TLAPS

Label == {"idle", "begun", "registered", "waiting", "finishing", "announcing",
          "superseded", "joined"}

\* The functions of the state; of their values only what the invariant needs.
SessionShape == /\ role \in [Node -> {"none", "initiator", "responder"}]
                /\ crypto = [p \in Node |-> crypto[p]]
                /\ answered = [p \in Node |-> answered[p]]
                /\ step2 = [p \in Node |-> step2[p]]
ReplyShape  == reply = [p \in Node |-> reply[p]]
WaiterShape == waiter \in [Node -> {NoCall} \cup CallId]
SignalShape == /\ signal = [p \in Node |-> signal[p]]
               /\ \A p \in Node : signal[p] = [c \in CallId |-> signal[p][c]]
PcShape     == pc \in [Node -> [CallId -> Label]]
CountShape  == /\ calls \in [Node -> Nat] /\ overlaps \in Nat /\ replaced \in Nat
               /\ replaced # 0 \/ overlaps # 0 => 1 \in CallId

Shape == /\ SessionShape /\ ReplyShape /\ WaiterShape /\ SignalShape /\ PcShape
         /\ CountShape

\* AnswerMatchesSession and WaiterBelongsToCall, of one peer.
Matches(p) ==
  role[p] = "responder"
    => /\ step2[p] # None
       /\ answered[p] = step2[p].attempt
       /\ crypto[p] = Handshaking(Key(answered[p], step2[p]))
Listens(p, c) == pc[p][c] \in {"registered", "waiting"}
Waits(p) ==
  /\ waiter[p] # NoCall => Listens(p, waiter[p]) /\ signal[p][waiter[p]] = None
  /\ \A c \in CallId : signal[p][c] # None => Listens(p, c)

\* An attempt has a call that will end it.
Trying(p, c) == pc[p][c] \in {"begun", "registered", "waiting"} /\ signal[p][c] # Yield
Tries(p)     == role[p] = "initiator" => \E c \in CallId : Trying(p, c)
Yields(p)    == reply[p] # None /\ reply[p].yielded => role[p] = "responder"
Fresh(p)     == \A c \in CallId : c > calls[p] => pc[p][c] = "idle"

Own(p) == Matches(p) /\ Waits(p) /\ Tries(p) /\ Yields(p) /\ Fresh(p)
HandshakeInv == Shape /\ \A p \in Node : Own(p)

-----------------------------------------------------------------------------
(* What the parts of an action do *)

\* A step of one peer changes nothing of the other's but the wire.
Untouched(p) ==
  /\ role'[p] = role[p] /\ crypto'[p] = crypto[p] /\ answered'[p] = answered[p]
  /\ step2'[p] = step2[p] /\ waiter'[p] = waiter[p] /\ signal'[p] = signal[p]
  /\ pc'[p] = pc[p] /\ reply'[p] = reply[p] /\ calls'[p] = calls[p]

LEMMA UntouchedOwn == ASSUME NEW p \in Node, Own(p), Untouched(p)  PROVE Own(p)'
  BY DEF Own, Untouched, Matches, Waits, Listens, Tries, Trying, Yields, Fresh

LEMMA CallFacts == NoCall \notin CallId /\ CallId \in SUBSET Nat
  BY HandshakeAssumption DEF NoCall, CallId

LEMMA FrameFacts ==
  /\ Yield # Closed /\ Yield # None /\ Closed # None
  /\ \A attempt, eph : Step2(attempt, eph) # None
  BY DEF Yield, Closed, None, Step2

LEMMA GotoFacts ==
  ASSUME PcShape, NEW p \in Node, NEW c \in CallId, NEW l \in Label, Goto(p, c, l)
  PROVE  /\ PcShape' /\ pc'[p][c] = l
         /\ \A d \in CallId : d # c => pc'[p][d] = pc[p][d]
         /\ \A r \in Node : r # p => pc'[r] = pc[r]
  BY DEF PcShape, Goto

LEMMA TakeFacts ==
  ASSUME SignalShape, NEW p \in Node, NEW c \in CallId, Take(p, c)
  PROVE  /\ SignalShape' /\ signal'[p][c] = None
         /\ \A d \in CallId : d # c => signal'[p][d] = signal[p][d]
         /\ \A r \in Node : r # p => signal'[r] = signal[r]
  BY DEF SignalShape, Take

\* Only the channel of the waiter closes.
LEMMA ClosingFacts ==
  ASSUME SignalShape, NEW p \in Node, NEW c \in CallId
  PROVE  /\ \A d \in CallId :
              Closing(p, c)[p][d] = IF d = waiter[p] /\ d # c THEN Closed ELSE signal[p][d]
         /\ \A r \in Node : r # p => Closing(p, c)[r] = signal[r]
         /\ Closing(p, c) = [r \in Node |-> Closing(p, c)[r]]
         /\ \A r \in Node : Closing(p, c)[r] = [d \in CallId |-> Closing(p, c)[r][d]]
  BY DEF SignalShape, Closing

LEMMA DropFacts ==
  ASSUME SignalShape, WaiterShape, NEW p \in Node, NEW c \in CallId, DropWaiter(p, c)
  PROVE  /\ SignalShape' /\ WaiterShape' /\ waiter'[p] = NoCall /\ signal'[p][c] = None
         /\ \A d \in CallId :
              d # c => signal'[p][d] = IF d = waiter[p] THEN Closed ELSE signal[p][d]
         /\ \A r \in Node : r # p => waiter'[r] = waiter[r] /\ signal'[r] = signal[r]
<1> DEFINE s == Closing(p, c)
<1>1. /\ \A d \in CallId :
           s[p][d] = IF d = waiter[p] /\ d # c THEN Closed ELSE signal[p][d]
      /\ \A r \in Node : r # p => s[r] = signal[r]
      /\ s = [r \in Node |-> s[r]]
      /\ \A r \in Node : s[r] = [d \in CallId |-> s[r][d]]
  BY ClosingFacts
<1>2. signal' = [s EXCEPT ![p][c] = None] /\ waiter' = [waiter EXCEPT ![p] = NoCall]
  BY DEF DropWaiter
<1> HIDE DEF s
<1>3. /\ SignalShape' /\ signal'[p][c] = None
      /\ \A d \in CallId : d # c => signal'[p][d] = s[p][d]
      /\ \A r \in Node : r # p => signal'[r] = s[r]
  BY <1>1, <1>2 DEF SignalShape
<1>4. WaiterShape' /\ waiter'[p] = NoCall /\ \A r \in Node : r # p => waiter'[r] = waiter[r]
  BY <1>2 DEF WaiterShape
<1>5. QED  BY <1>1, <1>3, <1>4

LEMMA SignalFacts ==
  ASSUME SignalShape, WaiterShape, NEW p \in Node, NEW f, Signal(p, f)
  PROVE  /\ SignalShape' /\ WaiterShape' /\ waiter'[p] = NoCall
         /\ \A d \in CallId : signal'[p][d] = IF d = waiter[p] THEN f ELSE signal[p][d]
         /\ \A r \in Node : r # p => waiter'[r] = waiter[r] /\ signal'[r] = signal[r]
<1>1. CASE waiter[p] # NoCall
  <2>1. /\ waiter[p] \in CallId /\ waiter' = [waiter EXCEPT ![p] = NoCall]
        /\ signal' = [signal EXCEPT ![p][waiter[p]] = f]
    BY <1>1 DEF Signal, WaiterShape
  <2>2. QED  BY <2>1 DEF SignalShape, WaiterShape
<1>2. CASE waiter[p] = NoCall
  BY <1>2, CallFacts DEF Signal, SignalShape, WaiterShape
<1>3. QED  BY <1>1, <1>2

\* A step of p that keeps the shape and p's own part keeps the invariant.
LEMMA OneStep ==
  ASSUME HandshakeInv, NEW p \in Node, Shape', Own(p)',
         \A r \in Node : r # p => Untouched(r)
  PROVE  HandshakeInv'
BY UntouchedOwn DEF HandshakeInv

-----------------------------------------------------------------------------
(* The calls *)

\* What Begin and Join have in common: the call is a new one.
LEMMA CallCounts ==
  ASSUME HandshakeInv, NEW p \in Node, Call(p)
  PROVE  /\ calls'[p] \in CallId /\ pc[p][calls'[p]] = "idle"
         /\ signal[p][calls'[p]] = None /\ waiter[p] # calls'[p]
         /\ CountShape' /\ calls'[p] = calls[p] + 1
         /\ \A r \in Node : r # p => calls'[r] = calls[r]
         /\ UNCHANGED <<waiter, signal, reply>>
<1>1. /\ calls[p] < CallsLeft /\ calls[p] \in Nat /\ calls' = [calls EXCEPT ![p] = @ + 1]
      /\ calls'[p] = calls[p] + 1 /\ replaced' = replaced
      /\ overlaps' = overlaps + IF Running(p) # {} THEN 1 ELSE 0
      /\ UNCHANGED <<waiter, signal, reply>>
  BY DEF Call, HandshakeInv, Shape, CountShape
<1>2. calls'[p] \in CallId
  <2>1. 1 \in CallId => MaxCalls >= 1
    BY HandshakeAssumption DEF CallId
  <2>2. calls[p] < MaxCalls
    BY <1>1, <2>1, HandshakeAssumption DEF CallsLeft, CallsInTrouble, HandshakeInv, Shape,
                                           CountShape
  <2>3. QED  BY <1>1, <2>2, HandshakeAssumption DEF CallId
<1>3. CountShape'
  <2>1. 1 \in CallId
    BY <1>1, <1>2, HandshakeAssumption DEF CallId
  <2>2. QED  BY <1>1, <2>1 DEF HandshakeInv, Shape, CountShape
<1>4. pc[p][calls'[p]] = "idle"
  BY <1>1, <1>2 DEF HandshakeInv, Own, Fresh
<1>5. signal[p][calls'[p]] = None /\ waiter[p] # calls'[p]
  BY <1>2, <1>4, CallFacts DEF HandshakeInv, Own, Waits, Listens
<1>6. QED
  BY <1>1, <1>2, <1>3, <1>4, <1>5 DEF HandshakeInv, Shape, CountShape

LEMMA JoinStep == ASSUME HandshakeInv, NEW p \in Node, Join(p)  PROVE HandshakeInv'
<1> DEFINE c == calls'[p]
<1>1. /\ c \in CallId /\ pc[p][c] = "idle" /\ CountShape' /\ c = calls[p] + 1
      /\ signal[p][c] = None /\ waiter[p] # c
      /\ UNCHANGED <<waiter, signal, reply, role, crypto, kex, answered, step2>>
      /\ \A r \in Node : r # p => calls'[r] = calls[r]
  BY CallCounts DEF Join, session
<1>2. Goto(p, c, "joined") /\ "joined" \in Label
  BY DEF Join, Label
<1> HIDE DEF c
<1>3. /\ PcShape' /\ pc'[p][c] = "joined"
      /\ \A d \in CallId : d # c => pc'[p][d] = pc[p][d]
      /\ \A r \in Node : r # p => pc'[r] = pc[r]
  BY <1>1, <1>2, GotoFacts DEF HandshakeInv, Shape
<1>4. Shape'
  BY <1>1, <1>3 DEF HandshakeInv, Shape, SessionShape, ReplyShape, WaiterShape, SignalShape
<1>5. \A r \in Node : r # p => Untouched(r)
  BY <1>1, <1>3 DEF Untouched
<1>6. Matches(p)' /\ Yields(p)'
  BY <1>1 DEF HandshakeInv, Own, Matches, Yields
<1>7. Waits(p)'
  BY <1>1, <1>3, CallFacts DEF HandshakeInv, Shape, WaiterShape, Own, Waits, Listens
<1>8. Tries(p)'
  BY <1>1, <1>3 DEF HandshakeInv, Own, Tries, Trying
<1>9. Fresh(p)'
  <2>1. calls[p] \in Nat /\ calls'[p] = c
    BY <1>1 DEF HandshakeInv, Shape, CountShape, c
  <2>2. \A d \in CallId : d > calls'[p] => d # c /\ d > calls[p]
    BY <1>1, <2>1, CallFacts
  <2>3. QED  BY <1>3, <2>2 DEF HandshakeInv, Own, Fresh
<1>10. QED  BY <1>4, <1>5, <1>6, <1>7, <1>8, <1>9, OneStep DEF Own

LEMMA BeginStep == ASSUME HandshakeInv, NEW p \in Node, Begin(p)  PROVE HandshakeInv'
<1> DEFINE c == calls'[p]
<1>1. /\ c \in CallId /\ pc[p][c] = "idle" /\ CountShape' /\ c = calls[p] + 1
      /\ signal[p][c] = None /\ waiter[p] # c
      /\ UNCHANGED <<waiter, signal, reply>>
      /\ \A r \in Node : r # p => calls'[r] = calls[r]
  BY CallCounts DEF Begin
<1>2. PICK l \in Label :
        /\ Goto(p, c, l) /\ l \in {"superseded", "begun"}
        /\ \/ role[p] = "responder" /\ l = "superseded" /\ UNCHANGED session
           \/ /\ role[p] # "responder" /\ l = "begun"
              /\ role'     = [role EXCEPT ![p] = "initiator"]
              /\ crypto'   = [crypto EXCEPT ![p] = Handshaking(None)]
              /\ answered' = [answered EXCEPT ![p] = None]
              /\ step2'    = [step2 EXCEPT ![p] = None]
  <2>1. "superseded" \in Label /\ "begun" \in Label
    BY DEF Label
  <2>2. QED  BY <2>1 DEF Begin
<1> HIDE DEF c
<1>3. /\ PcShape' /\ pc'[p][c] = l
      /\ \A d \in CallId : d # c => pc'[p][d] = pc[p][d]
      /\ \A r \in Node : r # p => pc'[r] = pc[r]
  BY <1>1, <1>2, GotoFacts DEF HandshakeInv, Shape
<1>4. /\ SessionShape'
      /\ \A r \in Node : r # p => /\ role'[r] = role[r] /\ crypto'[r] = crypto[r]
                                  /\ answered'[r] = answered[r] /\ step2'[r] = step2[r]
      /\ \/ /\ role[p] = "responder" /\ role'[p] = role[p] /\ crypto'[p] = crypto[p]
            /\ answered'[p] = answered[p] /\ step2'[p] = step2[p]
         \/ role[p] # "responder" /\ l = "begun" /\ role'[p] = "initiator"
  BY <1>2 DEF HandshakeInv, Shape, SessionShape, session
<1>5. Shape'
  BY <1>1, <1>3, <1>4 DEF HandshakeInv, Shape, ReplyShape, WaiterShape, SignalShape
<1>6. \A r \in Node : r # p => Untouched(r)
  BY <1>1, <1>3, <1>4 DEF Untouched
<1>7. Matches(p)' /\ Yields(p)'
  BY <1>1, <1>4 DEF HandshakeInv, Own, Matches, Yields
<1>8. Waits(p)'
  BY <1>1, <1>3, CallFacts DEF HandshakeInv, Shape, WaiterShape, Own, Waits, Listens
<1>9. Tries(p)'
  BY <1>1, <1>3, <1>4, FrameFacts DEF Tries, Trying
<1>10. Fresh(p)'
  <2>1. calls[p] \in Nat /\ calls'[p] = c
    BY <1>1 DEF HandshakeInv, Shape, CountShape, c
  <2>2. \A d \in CallId : d > calls'[p] => d # c /\ d > calls[p]
    BY <1>1, <2>1, CallFacts
  <2>3. QED  BY <1>3, <2>2 DEF HandshakeInv, Own, Fresh
<1>11. QED  BY <1>5, <1>6, <1>7, <1>8, <1>9, <1>10, OneStep DEF Own

-----------------------------------------------------------------------------
(* The dial tasks *)

\* A call that runs is not a new one.
LEMMA FreshStays ==
  ASSUME NEW p \in Node, Fresh(p), NEW c \in CallId, pc[p][c] # "idle",
         calls'[p] = calls[p], \A d \in CallId : d # c => pc'[p][d] = pc[p][d]
  PROVE  Fresh(p)'
BY DEF Fresh

LEMMA RegisterStep ==
  ASSUME HandshakeInv, NEW p \in Node, NEW c \in CallId, Register(p, c)
  PROVE  HandshakeInv'
<1>1. /\ UNCHANGED <<role, crypto, answered, step2, calls, overlaps, replaced, reply>>
      /\ pc[p][c] = "begun" /\ Goto(p, c, "registered") /\ "registered" \in Label
      /\ waiter' = [waiter EXCEPT ![p] = c] /\ signal' = Closing(p, c)
  BY DEF Register, session, count, Label
<1>2. /\ PcShape' /\ pc'[p][c] = "registered"
      /\ \A d \in CallId : d # c => pc'[p][d] = pc[p][d]
      /\ \A r \in Node : r # p => pc'[r] = pc[r]
  BY <1>1, GotoFacts DEF HandshakeInv, Shape
<1>3. /\ \A d \in CallId :
           signal'[p][d] = IF d = waiter[p] /\ d # c THEN Closed ELSE signal[p][d]
      /\ SignalShape' /\ \A r \in Node : r # p => signal'[r] = signal[r]
  BY <1>1, ClosingFacts DEF HandshakeInv, Shape, SignalShape
<1>4. /\ WaiterShape' /\ waiter'[p] = c
      /\ \A r \in Node : r # p => waiter'[r] = waiter[r]
  BY <1>1 DEF HandshakeInv, Shape, WaiterShape
<1>5. Shape'
  BY <1>1, <1>2, <1>3, <1>4 DEF HandshakeInv, Shape, SessionShape, ReplyShape, CountShape
<1>6. \A r \in Node : r # p => Untouched(r)
  BY <1>1, <1>2, <1>3, <1>4 DEF Untouched
<1>7. Matches(p)' /\ Yields(p)'
  BY <1>1 DEF HandshakeInv, Own, Matches, Yields
<1>8. signal[p][c] = None /\ waiter[p] # c
  BY <1>1, CallFacts DEF HandshakeInv, Own, Waits, Listens
<1>9. Waits(p)'
  <2>1. \A d \in CallId : signal'[p][d] # None => Listens(p, d)'
    BY <1>2, <1>3, <1>8, CallFacts
       DEF HandshakeInv, Shape, WaiterShape, Own, Waits, Listens
  <2>2. signal'[p][c] = None /\ Listens(p, c)'
    BY <1>2, <1>3, <1>8 DEF Listens
  <2>3. QED  BY <1>4, <2>1, <2>2 DEF Waits
<1>10. Tries(p)'
  BY <1>1, <1>2, <1>3, FrameFacts DEF HandshakeInv, Own, Tries, Trying
<1>11. Fresh(p)'
  BY <1>1, <1>2, FreshStays DEF HandshakeInv, Own
<1>12. QED  BY <1>5, <1>6, <1>7, <1>9, <1>10, <1>11, OneStep DEF Own

LEMMA SendStep1Step ==
  ASSUME HandshakeInv, NEW p \in Node, NEW c \in CallId, SendStep1(p, c)
  PROVE  HandshakeInv'
<1>1. /\ UNCHANGED <<role, crypto, answered, step2, calls, overlaps, replaced, reply,
                     waiter, signal>>
      /\ pc[p][c] = "registered" /\ Goto(p, c, "waiting") /\ "waiting" \in Label
  BY DEF SendStep1, session, count, Label
<1>2. /\ PcShape' /\ pc'[p][c] = "waiting"
      /\ \A d \in CallId : d # c => pc'[p][d] = pc[p][d]
      /\ \A r \in Node : r # p => pc'[r] = pc[r]
  BY <1>1, GotoFacts DEF HandshakeInv, Shape
<1>3. Shape'
  BY <1>1, <1>2 DEF HandshakeInv, Shape, SessionShape, ReplyShape, CountShape, WaiterShape,
                    SignalShape
<1>4. \A r \in Node : r # p => Untouched(r)
  BY <1>1, <1>2 DEF Untouched
<1>5. Matches(p)' /\ Yields(p)'
  BY <1>1 DEF HandshakeInv, Own, Matches, Yields
<1>6. Waits(p)' /\ Tries(p)'
  BY <1>1, <1>2, CallFacts
     DEF HandshakeInv, Shape, WaiterShape, Own, Waits, Listens, Tries, Trying
<1>7. Fresh(p)'
  BY <1>1, <1>2, FreshStays DEF HandshakeInv, Own
<1>8. QED  BY <1>3, <1>4, <1>5, <1>6, <1>7, OneStep DEF Own

\* Calls that wait for the outcome of another one, or have sent step 3, are not
\* the ones that have a waiter, a signal or an attempt.
LEMMA ReturnStep ==
  ASSUME HandshakeInv, NEW p \in Node, NEW c \in CallId,
         \/ SendStep3(p, c) \/ Announce(p, c) \/ OutcomeArrives(p, c) \/ AwaitTimeout(p, c)
  PROVE  HandshakeInv'
<1>1. /\ UNCHANGED <<role, crypto, answered, step2, calls, overlaps, replaced, reply,
                     waiter, signal>>
      /\ pc[p][c] \in {"finishing", "announcing", "superseded", "joined"}
  BY DEF SendStep3, Announce, OutcomeArrives, AwaitTimeout, AwaitExpires, Awaits, session,
         count
<1>2. \E l \in Label : Goto(p, c, l)
  <2>1. "announcing" \in Label /\ "idle" \in Label
    BY DEF Label
  <2>2. QED  BY <2>1 DEF SendStep3, Announce, OutcomeArrives, AwaitTimeout, Fail
<1>3. /\ PcShape' /\ \A d \in CallId : d # c => pc'[p][d] = pc[p][d]
      /\ \A r \in Node : r # p => pc'[r] = pc[r]
  BY <1>2, GotoFacts DEF HandshakeInv, Shape
<1>4. Shape'
  BY <1>1, <1>3 DEF HandshakeInv, Shape, SessionShape, ReplyShape, CountShape, WaiterShape,
                    SignalShape
<1>5. \A r \in Node : r # p => Untouched(r)
  BY <1>1, <1>3 DEF Untouched
<1>6. Matches(p)' /\ Yields(p)'
  BY <1>1 DEF HandshakeInv, Own, Matches, Yields
<1>7. Waits(p)' /\ Tries(p)'
  BY <1>1, <1>3, CallFacts
     DEF HandshakeInv, Shape, WaiterShape, Own, Waits, Listens, Tries, Trying
<1>8. Fresh(p)'
  BY <1>1, <1>3, FreshStays DEF HandshakeInv, Own
<1>9. QED  BY <1>4, <1>5, <1>6, <1>7, <1>8, OneStep DEF Own

\* A call that takes a signal other than that of a pending attempt's end.
LEMMA TakeStep ==
  ASSUME HandshakeInv, NEW p \in Node, NEW c \in CallId,
         ProcessStep2(p, c) \/ Superseded(p, c)
  PROVE  HandshakeInv'
<1>1. /\ UNCHANGED <<calls, overlaps, replaced, reply, waiter>>
      /\ pc[p][c] = "waiting" /\ signal[p][c] # None /\ Take(p, c)
  BY FrameFacts DEF ProcessStep2, Superseded, count
<1>2. PICK l \in Label : Goto(p, c, l)
  <2>1. "finishing" \in Label /\ "idle" \in Label /\ "superseded" \in Label
    BY DEF Label
  <2>2. QED  BY <2>1 DEF ProcessStep2, Superseded, Fail
<1>3. /\ PcShape' /\ \A d \in CallId : d # c => pc'[p][d] = pc[p][d]
      /\ \A r \in Node : r # p => pc'[r] = pc[r]
  BY <1>2, GotoFacts DEF HandshakeInv, Shape
<1>4. /\ SignalShape' /\ signal'[p][c] = None
      /\ \A d \in CallId : d # c => signal'[p][d] = signal[p][d]
      /\ \A r \in Node : r # p => signal'[r] = signal[r]
  BY <1>1, TakeFacts DEF HandshakeInv, Shape
<1>5. /\ SessionShape'
      /\ \A r \in Node : r # p => /\ role'[r] = role[r] /\ crypto'[r] = crypto[r]
                                  /\ answered'[r] = answered[r] /\ step2'[r] = step2[r]
      /\ \/ /\ role[p] # "initiator" \/ signal[p][c] = Yield
            /\ role'[p] = role[p] /\ crypto'[p] = crypto[p]
            /\ answered'[p] = answered[p] /\ step2'[p] = step2[p]
         \/ role[p] = "initiator" /\ role'[p] = "none"
  BY DEF ProcessStep2, Superseded, HandshakeInv, Shape, SessionShape, session
<1>6. Shape'
  BY <1>1, <1>3, <1>4, <1>5 DEF HandshakeInv, Shape, ReplyShape, CountShape, WaiterShape
<1>7. \A r \in Node : r # p => Untouched(r)
  BY <1>1, <1>3, <1>4, <1>5 DEF Untouched
<1>8. Matches(p)'
  BY <1>5 DEF HandshakeInv, Own, Matches
<1>9. Yields(p)'
  BY <1>1, <1>5 DEF HandshakeInv, Own, Yields
<1>10. Waits(p)'
  BY <1>1, <1>3, <1>4, CallFacts DEF HandshakeInv, Shape, WaiterShape, Own, Waits, Listens
<1>11. Tries(p)'
  BY <1>3, <1>4, <1>5 DEF HandshakeInv, Own, Tries, Trying
<1>12. Fresh(p)'
  BY <1>1, <1>3, FreshStays DEF HandshakeInv, Own
<1>13. QED  BY <1>6, <1>7, <1>8, <1>9, <1>10, <1>11, <1>12, OneStep DEF Own

\* A call that fails ends the attempt, whosever it is.
LEMMA AbortStep ==
  ASSUME HandshakeInv, NEW p \in Node, NEW c \in CallId,
         Timeout(p, c) \/ ChannelCloses(p, c)
  PROVE  HandshakeInv'
<1>1. /\ UNCHANGED <<calls, overlaps, replaced, reply>>
      /\ pc[p][c] = "waiting" /\ DropWaiter(p, c) /\ Goto(p, c, "idle") /\ "idle" \in Label
  BY DEF Timeout, ChannelCloses, Expires, AbortInitiator, Fail, count, Label
<1>2. /\ PcShape' /\ \A d \in CallId : d # c => pc'[p][d] = pc[p][d]
      /\ \A r \in Node : r # p => pc'[r] = pc[r]
  BY <1>1, GotoFacts DEF HandshakeInv, Shape
<1>3. /\ SignalShape' /\ WaiterShape' /\ waiter'[p] = NoCall /\ signal'[p][c] = None
      /\ \A d \in CallId :
           d # c => signal'[p][d] = IF d = waiter[p] THEN Closed ELSE signal[p][d]
      /\ \A r \in Node : r # p => waiter'[r] = waiter[r] /\ signal'[r] = signal[r]
  BY <1>1, DropFacts DEF HandshakeInv, Shape
<1>4. /\ SessionShape'
      /\ \A r \in Node : r # p => /\ role'[r] = role[r] /\ crypto'[r] = crypto[r]
                                  /\ answered'[r] = answered[r] /\ step2'[r] = step2[r]
      /\ \/ /\ role[p] # "initiator" /\ role'[p] = role[p] /\ crypto'[p] = crypto[p]
            /\ answered'[p] = answered[p] /\ step2'[p] = step2[p]
         \/ role[p] = "initiator" /\ role'[p] = "none"
  BY DEF Timeout, ChannelCloses, AbortInitiator, HandshakeInv, Shape, SessionShape, session
<1>5. Shape'
  BY <1>1, <1>2, <1>3, <1>4 DEF HandshakeInv, Shape, ReplyShape, CountShape
<1>6. \A r \in Node : r # p => Untouched(r)
  BY <1>1, <1>2, <1>3, <1>4 DEF Untouched
<1>7. Matches(p)' /\ Tries(p)'
  BY <1>4 DEF HandshakeInv, Own, Matches, Tries
<1>8. Yields(p)'
  BY <1>1, <1>4 DEF HandshakeInv, Own, Yields
<1>9. Waits(p)'
  BY <1>2, <1>3, CallFacts DEF HandshakeInv, Shape, WaiterShape, Own, Waits, Listens
<1>10. Fresh(p)'
  BY <1>1, <1>2, FreshStays DEF HandshakeInv, Own
<1>11. QED  BY <1>5, <1>6, <1>7, <1>8, <1>9, <1>10, OneStep DEF Own

-----------------------------------------------------------------------------
(* The read loop *)

LEMMA ReceiveStep1Step ==
  ASSUME HandshakeInv, NEW p \in Node, ReceiveStep1(p)
  PROVE  HandshakeInv'
<1> DEFINE attempt == Head(wire[Other(p)]).attempt
           answer  == Step2(attempt, <<p, answers[p] + 1>>)
<1>1. /\ UNCHANGED <<waiter, signal, pc, calls, overlaps, replaced>> /\ reply[p] = None
  BY DEF ReceiveStep1, Incoming, dial, count
<1>2. \/ /\ reply' = [reply EXCEPT
              ![p] = IF role[p] = "responder" /\ step2[p] # None
                       THEN [frame |-> step2[p], yielded |-> FALSE] ELSE None]
         /\ UNCHANGED session
      \/ UNCHANGED <<session, reply>>
      \/ /\ reply' = [reply EXCEPT
              ![p] = [frame |-> answer, yielded |-> role[p] = "initiator"]]
         /\ Answer(p, attempt, answer)
  BY DEF ReceiveStep1
<1>3. answer # None /\ answer.attempt = attempt
  BY FrameFacts DEF Step2
<1> HIDE DEF attempt, answer
<1>4. ReplyShape' /\ \A r \in Node : r # p => reply'[r] = reply[r]
  BY <1>2 DEF HandshakeInv, Shape, ReplyShape
<1>5. /\ SessionShape'
      /\ \A r \in Node : r # p => /\ role'[r] = role[r] /\ crypto'[r] = crypto[r]
                                  /\ answered'[r] = answered[r] /\ step2'[r] = step2[r]
  BY <1>2 DEF HandshakeInv, Shape, SessionShape, session, Answer
<1>6. \/ /\ role'[p] = role[p] /\ crypto'[p] = crypto[p]
         /\ answered'[p] = answered[p] /\ step2'[p] = step2[p]
         /\ reply'[p] # None => ~reply'[p].yielded
      \/ /\ role'[p] = "responder" /\ crypto'[p] = Handshaking(Key(attempt, answer))
         /\ answered'[p] = attempt /\ step2'[p] = answer
  <2>1. CASE UNCHANGED session
    <3>1. reply'[p] # None /\ ~(reply' = reply) =>
            reply'[p] = [frame |-> step2[p], yielded |-> FALSE] \/ Answer(p, attempt, answer)
      BY <1>2 DEF HandshakeInv, Shape, ReplyShape
    <3>2. CASE Answer(p, attempt, answer)
      BY <3>2 DEF Answer, HandshakeInv, Shape, SessionShape
    <3>3. CASE reply'[p] # None => reply'[p] = [frame |-> step2[p], yielded |-> FALSE]
      BY <2>1, <3>3 DEF session
    <3>4. QED  BY <1>1, <3>1, <3>2, <3>3
  <2>2. CASE Answer(p, attempt, answer)
    BY <2>2 DEF Answer, HandshakeInv, Shape, SessionShape
  <2>3. QED  BY <1>2, <2>1, <2>2
<1>7. Shape'
  BY <1>1, <1>4, <1>5 DEF HandshakeInv, Shape, PcShape, CountShape, WaiterShape, SignalShape
<1>8. \A r \in Node : r # p => Untouched(r)
  BY <1>1, <1>4, <1>5 DEF Untouched
<1>9. Matches(p)'
  BY <1>3, <1>6 DEF HandshakeInv, Own, Matches
<1>10. Yields(p)'
  BY <1>6 DEF Yields
<1>11. Waits(p)' /\ Fresh(p)'
  BY <1>1 DEF HandshakeInv, Own, Waits, Listens, Fresh
<1>12. Tries(p)'
  BY <1>1, <1>6 DEF HandshakeInv, Own, Tries, Trying
<1>13. QED  BY <1>7, <1>8, <1>9, <1>10, <1>11, <1>12, OneStep DEF Own

\* The waiter gets its signal; a signal to yield only while the session is a
\* responder's.
LEMMA WakeStep ==
  ASSUME HandshakeInv, NEW p \in Node, SendReply(p) \/ ReceiveStep2(p)
  PROVE  HandshakeInv'
<1>1. /\ UNCHANGED <<role, crypto, answered, step2, pc, calls, overlaps, replaced>>
      /\ reply' = [reply EXCEPT ![p] = None] \/ reply' = reply
  BY DEF SendReply, ReceiveStep2, session, dial, count
<1>2. \/ UNCHANGED <<waiter, signal>>
      \/ \E f : Signal(p, f) /\ (f = Yield => role[p] = "responder")
  <2>1. CASE SendReply(p)
    BY <2>1 DEF SendReply, HandshakeInv, Own, Yields
  <2>2. CASE ReceiveStep2(p)
    <3> DEFINE f == Head(wire[Other(p)])
    <3>1. f.step = 2 /\ Signal(p, f)
      BY <2>2 DEF ReceiveStep2, Incoming
    <3>2. f # Yield
      BY <3>1 DEF Yield
    <3>3. QED  BY <3>1, <3>2
  <2>3. QED  BY <2>1, <2>2
<1>3. /\ SignalShape' /\ WaiterShape'
      /\ \A r \in Node : r # p => waiter'[r] = waiter[r] /\ signal'[r] = signal[r]
      /\ \/ waiter'[p] = waiter[p] /\ signal'[p] = signal[p]
         \/ /\ waiter'[p] = NoCall
            /\ \A d \in CallId :
                 \/ signal'[p][d] = signal[p][d]
                 \/ d = waiter[p] /\ (signal'[p][d] = Yield => role[p] = "responder")
  <2>1. CASE UNCHANGED <<waiter, signal>>
    BY <2>1 DEF HandshakeInv, Shape, SignalShape, WaiterShape
  <2>2. CASE \E f : Signal(p, f) /\ (f = Yield => role[p] = "responder")
    <3>1. PICK f : Signal(p, f) /\ (f = Yield => role[p] = "responder")
      BY <2>2
    <3>2. /\ SignalShape' /\ WaiterShape' /\ waiter'[p] = NoCall
          /\ \A d \in CallId : signal'[p][d] = IF d = waiter[p] THEN f ELSE signal[p][d]
          /\ \A r \in Node : r # p => waiter'[r] = waiter[r] /\ signal'[r] = signal[r]
      BY <3>1, SignalFacts DEF HandshakeInv, Shape
    <3>3. QED  BY <3>1, <3>2
  <2>3. QED  BY <1>2, <2>1, <2>2
<1>4. ReplyShape' /\ (reply'[p] = None \/ reply'[p] = reply[p])
      /\ \A r \in Node : r # p => reply'[r] = reply[r]
  BY <1>1 DEF HandshakeInv, Shape, ReplyShape
<1>5. Shape'
  BY <1>1, <1>3, <1>4 DEF HandshakeInv, Shape, SessionShape, PcShape, CountShape
<1>6. \A r \in Node : r # p => Untouched(r)
  BY <1>1, <1>3, <1>4 DEF Untouched
<1>7. Matches(p)' /\ Yields(p)' /\ Fresh(p)'
  BY <1>1, <1>4 DEF HandshakeInv, Own, Matches, Yields, Fresh
<1>8. Waits(p)'
  BY <1>1, <1>3, CallFacts DEF HandshakeInv, Shape, WaiterShape, Own, Waits, Listens
<1>9. Tries(p)'
  BY <1>1, <1>3 DEF HandshakeInv, Own, Tries, Trying
<1>10. QED  BY <1>5, <1>6, <1>7, <1>8, <1>9, OneStep DEF Own

LEMMA ReceiveStep3Step ==
  ASSUME HandshakeInv, NEW p \in Node, ReceiveStep3(p)
  PROVE  HandshakeInv'
<1>1. /\ UNCHANGED <<waiter, signal, pc, calls, overlaps, replaced, reply>>
      /\ reply[p] = None
  BY DEF ReceiveStep3, Incoming, count
<1>2. /\ SessionShape'
      /\ \A r \in Node : r # p => /\ role'[r] = role[r] /\ crypto'[r] = crypto[r]
                                  /\ answered'[r] = answered[r] /\ step2'[r] = step2[r]
      /\ \/ /\ role'[p] = role[p] /\ crypto'[p] = crypto[p]
            /\ answered'[p] = answered[p] /\ step2'[p] = step2[p]
         \/ role'[p] = "none"
  BY DEF ReceiveStep3, HandshakeInv, Shape, SessionShape, session
<1>3. Shape'
  BY <1>1, <1>2 DEF HandshakeInv, Shape, PcShape, CountShape, WaiterShape, SignalShape,
                    ReplyShape
<1>4. \A r \in Node : r # p => Untouched(r)
  BY <1>1, <1>2 DEF Untouched
<1>5. Matches(p)' /\ Yields(p)'
  BY <1>1, <1>2 DEF HandshakeInv, Own, Matches, Yields
<1>6. Waits(p)' /\ Tries(p)' /\ Fresh(p)'
  BY <1>1, <1>2 DEF HandshakeInv, Own, Waits, Listens, Tries, Trying, Fresh
<1>7. QED  BY <1>3, <1>4, <1>5, <1>6, OneStep DEF Own

LEMMA ReplaceStep ==
  ASSUME HandshakeInv, NEW p \in Node, InboundConnection(p)
  PROVE  HandshakeInv'
<1>1. /\ UNCHANGED <<role, crypto, answered, step2, waiter, signal, pc, calls, overlaps,
                     reply>>
      /\ replaced' = replaced + 1 /\ role[p] = "initiator"
  BY DEF InboundConnection, session, dial, count
<1>2. 1 \in CallId
  <2>1. PICK c \in CallId : TRUE
    BY <1>1 DEF HandshakeInv, Own, Tries
  <2>2. QED  BY <2>1, HandshakeAssumption DEF CallId
<1>3. Shape'
  BY <1>1, <1>2 DEF HandshakeInv, Shape, SessionShape, PcShape, CountShape, WaiterShape,
                    SignalShape, ReplyShape
<1>4. Own(p)'
  BY <1>1 DEF HandshakeInv, Own, Matches, Yields, Waits, Listens, Tries, Trying, Fresh
<1>5. QED  BY <1>1, <1>3, <1>4, OneStep DEF Untouched

-----------------------------------------------------------------------------
(* The invariant *)

LEMMA HandshakeInit == Init => HandshakeInv
<1> SUFFICES ASSUME Init  PROVE HandshakeInv
  OBVIOUS
<1>1. Shape
  BY DEF Init, Shape, SessionShape, ReplyShape, WaiterShape, SignalShape, PcShape,
         CountShape, Label
<1>2. \A p \in Node : Own(p)
  BY DEF Init, Own, Matches, Waits, Listens, Tries, Yields, Fresh
<1>3. QED  BY <1>1, <1>2 DEF HandshakeInv

LEMMA StillHandshake == ASSUME HandshakeInv, UNCHANGED vars  PROVE HandshakeInv'
<1>1. UNCHANGED <<role, crypto, answered, step2, waiter, signal, pc, calls, overlaps,
                  replaced, reply>>
  BY DEF vars, session, dial, count
<1>2. Shape'
  BY <1>1 DEF HandshakeInv, Shape, SessionShape, PcShape, CountShape, WaiterShape,
              SignalShape, ReplyShape
<1>3. \A p \in Node : Untouched(p)
  BY <1>1 DEF Untouched
<1>4. QED  BY <1>2, <1>3, UntouchedOwn DEF HandshakeInv

LEMMA HandshakeStep == ASSUME HandshakeInv, [Next]_vars  PROVE HandshakeInv'
<1>1. ASSUME NEW p \in Node, Happens(p)  PROVE HandshakeInv'
  BY <1>1, BeginStep, JoinStep, ReplaceStep DEF Happens
<1>2. ASSUME NEW p \in Node, NEW c \in CallId, DialStep(p, c)  PROVE HandshakeInv'
  BY <1>2, RegisterStep, SendStep1Step, ReturnStep, TakeStep, AbortStep DEF DialStep
<1>3. ASSUME NEW p \in Node, ReadStep(p)  PROVE HandshakeInv'
  BY <1>3, ReceiveStep1Step, WakeStep, ReceiveStep3Step DEF ReadStep
<1>4. QED  BY <1>1, <1>2, <1>3, StillHandshake DEF Next

\* The answer a responder would send again is that of its session
\* (responder_process_step1), whatever timed out, yielded or was replaced.
THEOREM AnswerCorrect == Spec => []AnswerMatchesSession
<1>1. HandshakeInv => AnswerMatchesSession
  BY DEF HandshakeInv, Own, Matches, AnswerMatchesSession
<1>2. QED  BY <1>1, HandshakeInit, HandshakeStep, PTL DEF Spec

\* What handshake_wait holds, a signal in a channel and an initiator's attempt
\* belong to a call that is under way, also where calls over a serial link reset
\* each other.
THEOREM WaiterCorrect == Spec => []WaiterBelongsToCall
<1>1. ASSUME HandshakeInv, NEW p \in Node
      PROVE  /\ waiter[p] # NoCall => /\ pc[p][waiter[p]] \in {"registered", "waiting"}
                                      /\ signal[p][waiter[p]] = None
             /\ \A c \in CallId :
                  signal[p][c] # None => pc[p][c] \in {"registered", "waiting"}
             /\ role[p] = "initiator" => \E c \in Running(p) : ~Awaits(p, c)
  <2>1. Waits(p) /\ Tries(p)
    BY <1>1 DEF HandshakeInv, Own
  <2>2. ASSUME NEW c \in CallId, Trying(p, c)  PROVE c \in Running(p) /\ ~Awaits(p, c)
    BY <2>2 DEF Trying, Running, Awaits
  <2>3. QED  BY <2>1, <2>2 DEF Waits, Listens, Tries
<1>2. HandshakeInv => WaiterBelongsToCall
  BY <1>1 DEF WaiterBelongsToCall
<1>3. QED  BY <1>2, HandshakeInit, HandshakeStep, PTL DEF Spec

-----------------------------------------------------------------------------
(* The frames that are left *)

Frames(s) == {s[i] : i \in 1 .. Len(s)}
\* f keeps of each prefix of s up to n the frames of step 1.
Keeps(s, n, f) ==
  f = [i \in 0 .. n |->
        IF i = 0 THEN <<>>
        ELSE IF s[i].step = 1 THEN Append(f[i - 1], s[i]) ELSE f[i - 1]]

LEMMA LeastExists ==
  ASSUME NEW S \in SUBSET Nat, S # {}
  PROVE  \E n \in S : \A m \in S : n <= m
<1> DEFINE R == OpToRel(<, Nat)
<1>1. \A m, n \in Nat : <<m, n>> \in R <=> m < n
  BY DEF OpToRel
<1>2. IsWellFoundedOn(R, Nat)
  BY NatLessThanWellFounded
<1> HIDE DEF R
<1>3. PICK n \in S : \A m \in S : ~ (<<m, n>> \in R)
  <2>1. S \subseteq Nat
    OBVIOUS
  <2>2. QED  BY <1>2, <2>1, WFMin
<1>4. ASSUME NEW m \in S  PROVE n <= m
  <2>1. m \in Nat /\ n \in Nat /\ ~ (<<m, n>> \in R)
    BY <1>3
  <2>2. ~ (m < n)
    BY <1>1, <2>1
  <2>3. QED  BY <2>1, <2>2
<1>5. QED  BY <1>4

LEMMA KeepsAt ==
  ASSUME NEW s, NEW n, NEW f, Keeps(s, n, f), NEW i \in 0 .. n
  PROVE  f[i] = IF i = 0 THEN <<>>
                ELSE IF s[i].step = 1 THEN Append(f[i - 1], s[i]) ELSE f[i - 1]
<1> DEFINE g == [k \in 0 .. n |->
                  IF k = 0 THEN <<>>
                  ELSE IF s[k].step = 1 THEN Append(f[k - 1], s[k]) ELSE f[k - 1]]
<1>1. f = g
  BY DEF Keeps
<1>2. g[i] = IF i = 0 THEN <<>>
             ELSE IF s[i].step = 1 THEN Append(f[i - 1], s[i]) ELSE f[i - 1]
  OBVIOUS
<1> HIDE DEF g
<1>3. f[i] = g[i]
  BY <1>1
<1>4. QED  BY <1>2, <1>3

LEMMA KeepsExists ==
  ASSUME NEW s, Len(s) \in Nat
  PROVE  \E f : Keeps(s, Len(s), f)
<1> DEFINE Missing == {n \in Nat : ~ \E f : Keeps(s, n, f)}
<1>1. SUFFICES ASSUME Missing # {}  PROVE FALSE
  OBVIOUS
<1>2. PICK n \in Missing : \A m \in Missing : n <= m
  BY <1>1, LeastExists
<1>3. n # 0
  <2> DEFINE f == [i \in 0 .. 0 |-> <<>>]
  <2>1. Keeps(s, 0, f)
    BY DEF Keeps
  <2>2. QED  BY <1>2, <2>1
<1>4. PICK f : Keeps(s, n - 1, f)
  <2>1. n - 1 \in Nat /\ ~ (n <= n - 1)
    BY <1>2, <1>3
  <2>2. QED  BY <1>2, <2>1
<1> DEFINE g == [i \in 0 .. n |->
                  IF i = 0 THEN <<>>
                  ELSE IF s[i].step = 1 THEN Append(f[i - 1], s[i]) ELSE f[i - 1]]
<1>5. \A i \in 0 .. n - 1 : g[i] = f[i]
  <2> TAKE i \in 0 .. n - 1
  <2>1. g[i] = IF i = 0 THEN <<>>
               ELSE IF s[i].step = 1 THEN Append(f[i - 1], s[i]) ELSE f[i - 1]
    BY <1>2
  <2>2. f[i] = IF i = 0 THEN <<>>
               ELSE IF s[i].step = 1 THEN Append(f[i - 1], s[i]) ELSE f[i - 1]
    BY <1>4, KeepsAt
  <2>3. QED  BY <2>1, <2>2
<1>6. Keeps(s, n, g)
  <2>1. \A i \in 0 .. n : g[i] = IF i = 0 THEN <<>>
              ELSE IF s[i].step = 1 THEN Append(f[i - 1], s[i]) ELSE f[i - 1]
    BY <1>2
  <2>2. \A i \in 1 .. n : f[i - 1] = g[i - 1]
    <3> TAKE i \in 1 .. n
    <3>1. i - 1 \in 0 .. n - 1
      BY <1>2
    <3> HIDE DEF g
    <3>2. QED  BY <1>5, <3>1
  <2>4. g = [i \in 0 .. n |-> g[i]]
    OBVIOUS
  <2> HIDE DEF g
  <2>3. \A i \in 0 .. n : g[i] = IF i = 0 THEN <<>>
              ELSE IF s[i].step = 1 THEN Append(g[i - 1], s[i]) ELSE g[i - 1]
    <3> TAKE i \in 0 .. n
    <3>1. CASE i = 0
      BY <3>1, <2>1
    <3>2. CASE i # 0
      <4>1. i \in 1 .. n
        BY <1>2, <3>2
      <4>2. QED  BY <4>1, <2>1, <2>2, <3>2
    <3>3. QED  BY <3>1, <3>2
  <2>5. QED  BY <2>3, <2>4 DEF Keeps
<1>7. QED  BY <1>2, <1>6

LEMMA KeptFacts ==
  ASSUME NEW F, NEW s \in Seq(F), NEW f, Keeps(s, Len(s), f), NEW n \in 0 .. Len(s)
  PROVE  /\ f[n] \in Seq(F)
         /\ Frames(f[n]) = {s[i] : i \in {j \in 1 .. n : s[j].step = 1}}
<1> DEFINE Good(m) == /\ f[m] \in Seq(F)
                      /\ Frames(f[m]) = {s[i] : i \in {j \in 1 .. m : s[j].step = 1}}
           Bad == {m \in 0 .. Len(s) : ~ Good(m)}
<1>1. SUFFICES ASSUME Bad # {}  PROVE FALSE
  OBVIOUS
<1>2. PICK m \in Bad : \A k \in Bad : m <= k
  <2>1. Bad \in SUBSET Nat
    OBVIOUS
  <2>2. QED  BY <1>1, <2>1, LeastExists
<1>3. Len(s) \in Nat /\ m \in 0 .. Len(s) /\ ~ Good(m)
  BY <1>2
<1>4. m # 0
  <2>1. f[0] = <<>>
    BY <1>3 DEF Keeps
  <2>2. Good(0)
    BY <2>1 DEF Frames
  <2>3. QED  BY <1>3, <2>2
<1>5. m \in 1 .. Len(s) /\ m - 1 \in 0 .. Len(s) /\ ~ (m <= m - 1)
  BY <1>3, <1>4
<1>6. Good(m - 1)
  BY <1>2, <1>5
<1>7. f[m] = IF s[m].step = 1 THEN Append(f[m - 1], s[m]) ELSE f[m - 1]
  BY <1>3, <1>4, KeepsAt
<1>8. s[m] \in F
  BY <1>5
<1> DEFINE P == f[m - 1]
<1>9. P \in Seq(F) /\ Frames(P) = {s[i] : i \in {j \in 1 .. m - 1 : s[j].step = 1}}
  BY <1>6
<1> HIDE DEF Good, P
<1>10. CASE s[m].step = 1
  <2>1. f[m] = Append(P, s[m])
    BY <1>7, <1>10 DEF P
  <2>2. f[m] \in Seq(F) /\ Frames(f[m]) = Frames(P) \cup {s[m]}
    BY <1>8, <1>9, <2>1 DEF Frames
  <2>3. {j \in 1 .. m : s[j].step = 1} = {j \in 1 .. m - 1 : s[j].step = 1} \cup {m}
    BY <1>3, <1>5, <1>10
  <2>4. QED  BY <1>3, <1>9, <2>2, <2>3 DEF Good
<1>11. CASE s[m].step # 1
  <2>1. f[m] = P
    BY <1>7, <1>11 DEF P
  <2>2. {j \in 1 .. m : s[j].step = 1} = {j \in 1 .. m - 1 : s[j].step = 1}
    BY <1>3, <1>5, <1>11
  <2>3. QED  BY <1>3, <1>9, <2>1, <2>2 DEF Good
<1>12. QED  BY <1>10, <1>11

\* What is left are the frames of step 1.
LEMMA SurvivorsFacts ==
  ASSUME NEW F, NEW s \in Seq(F)
  PROVE  /\ Survivors(s) \in Seq(F)
         /\ Frames(Survivors(s)) = {f \in Frames(s) : f.step = 1}
<1> DEFINE g == CHOOSE f : Keeps(s, Len(s), f)
<1>1. Keeps(s, Len(s), g)
  BY KeepsExists
<1>2. Survivors(s) = g[Len(s)]
  BY DEF Survivors, Keeps
<1> HIDE DEF g
<1>3. /\ g[Len(s)] \in Seq(F)
      /\ Frames(g[Len(s)]) = {s[i] : i \in {j \in 1 .. Len(s) : s[j].step = 1}}
  <2>1. Len(s) \in 0 .. Len(s)
    OBVIOUS
  <2>2. QED  BY <1>1, <2>1, KeptFacts
<1>4. {s[i] : i \in {j \in 1 .. Len(s) : s[j].step = 1}} = {f \in Frames(s) : f.step = 1}
  BY DEF Frames
<1>5. QED BY <1>2, <1>3, <1>4

-----------------------------------------------------------------------------
(* Types *)

Frame == [step : {1}, attempt : Attempts] \cup Step2Type \cup {Step3}

SessionTypes ==
  /\ \A p \in Node : kex[p] # None <=> role[p] = "initiator"
  /\ role \in [Node -> {"none", "initiator", "responder"}]
  /\ crypto \in [Node -> [trust : {"connected", "handshaking", "sas"}, key : KeyType]]
  /\ kex \in [Node -> {None} \cup Attempts]
  /\ answered \in [Node -> {None} \cup Attempts]
  /\ step2 \in [Node -> {None} \cup Step2Type]
CallTypes ==
  /\ waiter \in [Node -> {NoCall} \cup CallId]
  /\ signal \in [Node -> [CallId -> {None, Yield, Closed} \cup Step2Type]]
  /\ pc \in [Node -> [CallId -> Label]]
  /\ result \in [Node -> [CallId -> {"none", "ok", "err"}]]
LinkTypes ==
  /\ reply \in [Node -> {None} \cup [frame : Step2Type, yielded : BOOLEAN]]
  /\ wire \in [Node -> Seq(Frame)]
  /\ answers \in [Node -> Nat]
CountTypes ==
  /\ calls \in [Node -> 0 .. MaxCalls] /\ overlaps \in 0 .. MaxOverlaps
  /\ serial \in BOOLEAN /\ hasty \in BOOLEAN

LEMMA TypeParts == TypeOK <=> SessionTypes /\ CallTypes /\ LinkTypes /\ CountTypes
  BY DEF TypeOK, SessionTypes, CallTypes, LinkTypes, CountTypes, Frame, Label

LEMMA OtherFacts ==
  ASSUME NEW p \in Node
  PROVE  /\ Other(p) \in Node /\ Other(p) # p /\ Other(Other(p)) = p
         /\ \A q \in Node : q = p \/ q = Other(p)
<1>1. PICK a, b \in Node : a # b /\ Node = {a, b}
  BY NodeAssumption
<1>2. \E q \in Node : q # p
  BY <1>1
<1>3. Other(p) \in Node /\ Other(p) # p
  BY <1>2 DEF Other
<1>4. \E q \in Node : q # Other(p)
  BY <1>3
<1>5. Other(Other(p)) \in Node /\ Other(Other(p)) # Other(p)
  BY <1>4 DEF Other
<1>6. QED  BY <1>1, <1>3, <1>5

LEMMA FrameTypes ==
  /\ \A attempt \in Attempts : Step1(attempt) \in Frame
  /\ \A attempt \in Attempts, eph \in Answers : Step2(attempt, eph) \in Step2Type
  /\ Step2Type \subseteq Frame /\ Step3 \in Frame
  /\ \A f \in Frame : f.step \in {1, 2, 3}
  /\ \A f \in Frame : f.step = 1 => f.attempt \in Attempts /\ f = Step1(f.attempt)
  /\ \A f \in Frame : f.step = 2 => f \in Step2Type
  /\ \A f \in Frame : f.step = 3 => f = Step3
  /\ \A f \in Step2Type : f # None /\ f # Yield /\ f # Closed /\ f # Step3 /\ f.step = 2
                          /\ f.attempt \in Attempts
  /\ None \notin Attempts
BY DEF Frame, Step1, Step2, Step2Type, Step3, None, Yield, Closed, Attempts

LEMMA KeyTypes ==
  /\ None \in KeyType
  /\ \A attempt \in Attempts, f \in Step2Type : Key(attempt, f) \in KeyType
BY DEF Key, KeyType, Step2Type

\* What the read loop takes, and what it leaves.
LEMMA IncomingFacts ==
  ASSUME LinkTypes, NEW p \in Node, NEW n, Incoming(p, n)
  PROVE  /\ Head(wire[Other(p)]) \in Frame /\ Head(wire[Other(p)]).step = n
         /\ wire[Other(p)] \in Seq(Frame) /\ wire[Other(p)] # <<>>
         /\ Tail(wire[Other(p)]) \in Seq(Frame)
<1>1. wire[Other(p)] \in Seq(Frame) /\ wire[Other(p)] # <<>>
  BY OtherFacts DEF Incoming, LinkTypes
<1> DEFINE s == wire[Other(p)]
<1> HIDE DEF s
<1>2. s \in Seq(Frame) /\ s # <<>>
  BY <1>1 DEF s
<1>3. Head(s) \in Frame /\ Tail(s) \in Seq(Frame)
  BY <1>2
<1>4. QED  BY <1>2, <1>3 DEF s, Incoming

\* The session.
BeginsSession(p) ==
  \E a \in Attempts :
    /\ role'     = [role EXCEPT ![p] = "initiator"]
    /\ crypto'   = [crypto EXCEPT ![p] = Handshaking(None)]
    /\ kex'      = [kex EXCEPT ![p] = a]
    /\ answered' = [answered EXCEPT ![p] = None]
    /\ step2'    = [step2 EXCEPT ![p] = None]
AnswersSession(p) ==
  \E a \in Attempts, f \in Step2Type : Answer(p, a, f)
EndsSession(p) ==
  \E v \in [trust : {"connected", "handshaking", "sas"}, key : KeyType] :
    /\ role'   = [role EXCEPT ![p] = "none"]
    /\ crypto' = [crypto EXCEPT ![p] = v]
    /\ kex'    = [kex EXCEPT ![p] = None]
    /\ UNCHANGED answered
    /\ UNCHANGED step2 \/ step2' = [step2 EXCEPT ![p] = None]
SessionStep(p) ==
  UNCHANGED session \/ BeginsSession(p) \/ AnswersSession(p) \/ EndsSession(p)

LEMMA SessionTyped ==
  ASSUME SessionTypes, NEW p \in Node, SessionStep(p)
  PROVE  SessionTypes'
<1>1. CASE UNCHANGED session
  BY <1>1 DEF SessionTypes, session
<1>2. CASE BeginsSession(p)
  <2>1. PICK a \in Attempts :
          /\ role'     = [role EXCEPT ![p] = "initiator"]
          /\ crypto'   = [crypto EXCEPT ![p] = Handshaking(None)]
          /\ kex'      = [kex EXCEPT ![p] = a]
          /\ answered' = [answered EXCEPT ![p] = None]
          /\ step2'    = [step2 EXCEPT ![p] = None]
    BY <1>2 DEF BeginsSession
  <2>2. Handshaking(None) \in [trust : {"connected", "handshaking", "sas"}, key : KeyType]
    BY KeyTypes DEF Handshaking
  <2>3. a # None
    BY FrameTypes
  <2>4. QED  BY <2>1, <2>2, <2>3 DEF SessionTypes
<1>3. CASE AnswersSession(p)
  <2>1. PICK a \in Attempts, f \in Step2Type : Answer(p, a, f)
    BY <1>3 DEF AnswersSession
  <2>2. Handshaking(Key(a, f)) \in [trust : {"connected", "handshaking", "sas"}, key : KeyType]
    BY KeyTypes DEF Handshaking
  <2>3. QED  BY <2>1, <2>2 DEF SessionTypes, Answer
<1>4. CASE EndsSession(p)
  BY <1>4 DEF SessionTypes, EndsSession
<1>5. QED  BY <1>1, <1>2, <1>3, <1>4 DEF SessionStep

LEMMA SessionSteps ==
  ASSUME TypeOK, HandshakeInv, NEW p \in Node,
         \/ Happens(p) \/ (\E c \in CallId : DialStep(p, c)) \/ ReadStep(p)
  PROVE  SessionStep(p)
<1> USE TypeParts
<1>1. CASE UNCHANGED session
  BY <1>1 DEF SessionStep
<1>2. CASE Begin(p)
  <2>1. <<p, calls'[p]>> \in Attempts
    BY <1>2, CallCounts DEF Begin, Attempts
  <2>2. QED  BY <1>2, <2>1 DEF Begin, SessionStep, BeginsSession
<1>3. ASSUME NEW c \in CallId, ProcessStep2(p, c)  PROVE SessionStep(p)
  <2>1. CASE role[p] = "initiator"
    <3>1. kex[p] \in Attempts /\ signal[p][c] \in Step2Type
      BY <1>3, <2>1 DEF ProcessStep2, SessionTypes, CallTypes
    <3>2. SasPending(Key(kex[p], signal[p][c]))
            \in [trust : {"connected", "handshaking", "sas"}, key : KeyType]
      BY <3>1, KeyTypes DEF SasPending
    <3>3. QED  BY <1>3, <2>1, <3>2 DEF ProcessStep2, SessionStep, EndsSession
  <2>2. QED  BY <1>3, <2>1 DEF ProcessStep2, SessionStep
<1>4. ASSUME NEW c \in CallId, AbortInitiator(p, c)  PROVE SessionStep(p)
  <2>1. Connected \in [trust : {"connected", "handshaking", "sas"}, key : KeyType]
    BY KeyTypes DEF Connected
  <2>2. QED  BY <1>4, <2>1 DEF AbortInitiator, SessionStep, EndsSession
<1>5. CASE ReceiveStep1(p)
  <2> DEFINE attempt == Head(wire[Other(p)]).attempt
             answer  == Step2(attempt, <<p, answers[p] + 1>>)
  <2>1. UNCHANGED session \/ Answer(p, attempt, answer)
    BY <1>5 DEF ReceiveStep1
  <2>2. Head(wire[Other(p)]) \in Frame /\ Head(wire[Other(p)]).step = 1
    BY <1>5, IncomingFacts DEF ReceiveStep1
  <2>3. attempt \in Attempts /\ <<p, answers[p] + 1>> \in Answers
    BY <2>2, FrameTypes DEF LinkTypes, Answers
  <2>4. answer \in Step2Type
    BY <2>3, FrameTypes
  <2> HIDE DEF attempt, answer
  <2>5. QED  BY <2>1, <2>3, <2>4 DEF SessionStep, AnswersSession
<1>6. CASE ReceiveStep3(p)
  <2>1. crypto[p] \in [trust : {"connected", "handshaking", "sas"}, key : KeyType]
    BY DEF SessionTypes
  <2>2. SasPending(crypto[p].key)
          \in [trust : {"connected", "handshaking", "sas"}, key : KeyType]
    BY <2>1 DEF SasPending
  <2>3. CASE role[p] = "responder"
    <3>1. crypto' = [crypto EXCEPT ![p] = SasPending(crypto[p].key)]
      BY <1>6, <2>3 DEF ReceiveStep3
    <3>2. QED  BY <1>6, <2>2, <2>3, <3>1 DEF ReceiveStep3, SessionStep, EndsSession
  <2>4. QED  BY <1>6, <2>3 DEF ReceiveStep3, SessionStep
<1>7. ASSUME Happens(p)  PROVE SessionStep(p)
  BY <1>1, <1>2, <1>7 DEF Happens, Join, InboundConnection
<1>8. ASSUME NEW c \in CallId, DialStep(p, c)  PROVE SessionStep(p)
  BY <1>1, <1>3, <1>4, <1>8
     DEF DialStep, Register, SendStep1, SendStep3, Announce, Superseded, OutcomeArrives,
         ChannelCloses, Timeout, AwaitTimeout
<1>9. ASSUME ReadStep(p)  PROVE SessionStep(p)
  BY <1>1, <1>5, <1>6, <1>9 DEF ReadStep, SendReply, ReceiveStep2
<1>10. QED  BY <1>7, <1>8, <1>9

\* The calls: what one of them may do to its own place, its channel and its result.
PcStep(p) == \/ UNCHANGED pc
             \/ \E c \in CallId, l \in Label : Goto(p, c, l)

LEMMA PcTyped ==
  ASSUME PcShape, NEW p \in Node, PcStep(p)  PROVE PcShape'
BY DEF PcShape, PcStep, Goto

ResultStep(p) ==
  \/ UNCHANGED result
  \/ result' = Done(p)
  \/ \E c \in CallId, r \in {"ok", "err"} : result' = [result EXCEPT ![p][c] = r]

LEMMA ResultTyped ==
  ASSUME result \in [Node -> [CallId -> {"none", "ok", "err"}]], NEW p \in Node,
         ResultStep(p)
  PROVE  result' \in [Node -> [CallId -> {"none", "ok", "err"}]]
<1>1. CASE result' = Done(p)
  <2> DEFINE told == [c \in CallId |-> IF c \in Running(p) THEN "ok" ELSE result[p][c]]
  <2>1. told \in [CallId -> {"none", "ok", "err"}]
    OBVIOUS
  <2>2. result' = [result EXCEPT ![p] = told]
    BY <1>1 DEF Done
  <2> HIDE DEF told
  <2>3. QED  BY <2>1, <2>2
<1>2. QED  BY <1>1 DEF ResultStep

Signals == {None, Yield, Closed} \cup Step2Type
SignalStep(p) ==
  \/ UNCHANGED <<waiter, signal>>
  \/ \E c \in CallId : waiter' = [waiter EXCEPT ![p] = c] /\ signal' = Closing(p, c)
  \/ \E c \in CallId : UNCHANGED waiter /\ Take(p, c)
  \/ \E c \in CallId : DropWaiter(p, c)
  \/ \E f \in Signals : Signal(p, f)

LEMMA SignalTyped ==
  ASSUME waiter \in [Node -> {NoCall} \cup CallId], signal \in [Node -> [CallId -> Signals]],
         NEW p \in Node, SignalStep(p)
  PROVE  /\ waiter' \in [Node -> {NoCall} \cup CallId]
         /\ signal' \in [Node -> [CallId -> Signals]]
<1>0. None \in Signals /\ Closed \in Signals
  BY DEF Signals
<1>1. ASSUME NEW c \in CallId  PROVE Closing(p, c) \in [Node -> [CallId -> Signals]]
  <2> DEFINE closed == [d \in CallId |-> IF d = waiter[p] /\ d # c THEN Closed
                                         ELSE signal[p][d]]
  <2>1. closed \in [CallId -> Signals]
    BY <1>0
  <2>2. Closing(p, c) = [signal EXCEPT ![p] = closed]
    BY DEF Closing
  <2> HIDE DEF closed
  <2>3. QED  BY <2>1, <2>2
<1>2. ASSUME NEW c \in CallId, waiter' = [waiter EXCEPT ![p] = c], signal' = Closing(p, c)
      PROVE  /\ waiter' \in [Node -> {NoCall} \cup CallId]
             /\ signal' \in [Node -> [CallId -> Signals]]
  BY <1>1, <1>2
<1>3. ASSUME NEW c \in CallId, UNCHANGED waiter, Take(p, c)
      PROVE  /\ waiter' \in [Node -> {NoCall} \cup CallId]
             /\ signal' \in [Node -> [CallId -> Signals]]
  BY <1>0, <1>3 DEF Take
<1>4. ASSUME NEW c \in CallId, DropWaiter(p, c)
      PROVE  /\ waiter' \in [Node -> {NoCall} \cup CallId]
             /\ signal' \in [Node -> [CallId -> Signals]]
  <2> DEFINE s == Closing(p, c)
  <2>1. waiter' = [waiter EXCEPT ![p] = NoCall] /\ signal' = [s EXCEPT ![p][c] = None]
    BY <1>4 DEF DropWaiter
  <2>2. s \in [Node -> [CallId -> Signals]]
    BY <1>1
  <2> HIDE DEF s
  <2>3. QED  BY <1>0, <2>1, <2>2
<1>5. ASSUME NEW f \in Signals, Signal(p, f)
      PROVE  /\ waiter' \in [Node -> {NoCall} \cup CallId]
             /\ signal' \in [Node -> [CallId -> Signals]]
  <2>1. CASE waiter[p] # NoCall
    <3>1. /\ waiter[p] \in CallId /\ waiter' = [waiter EXCEPT ![p] = NoCall]
          /\ signal' = [signal EXCEPT ![p][waiter[p]] = f]
      BY <1>5, <2>1 DEF Signal
    <3>2. QED  BY <3>1
  <2>2. QED  BY <1>5, <2>1 DEF Signal
<1>6. QED  BY <1>2, <1>3, <1>4, <1>5 DEF SignalStep

LEMMA CallSteps ==
  ASSUME TypeOK, HandshakeInv, NEW p \in Node,
         \/ Happens(p) \/ (\E c \in CallId : DialStep(p, c)) \/ ReadStep(p)
  PROVE  PcStep(p) /\ ResultStep(p) /\ SignalStep(p)
<1> USE TypeParts
<1>1. ASSUME Happens(p)  PROVE PcStep(p) /\ ResultStep(p) /\ SignalStep(p)
  <2>1. CASE Begin(p)
    <3>1. calls'[p] \in CallId
      BY <2>1, CallCounts DEF Begin
    <3>2. QED  BY <2>1, <3>1 DEF Begin, Call, PcStep, ResultStep, SignalStep, Label
  <2>2. CASE Join(p)
    <3>1. calls'[p] \in CallId
      BY <2>2, CallCounts DEF Join
    <3>2. QED  BY <2>2, <3>1 DEF Join, Call, PcStep, ResultStep, SignalStep, Label
  <2>3. CASE InboundConnection(p)
    BY <2>3 DEF InboundConnection, dial, PcStep, ResultStep, SignalStep
  <2>4. QED  BY <1>1, <2>1, <2>2, <2>3 DEF Happens
<1>2. ASSUME NEW c \in CallId, DialStep(p, c)
      PROVE  PcStep(p) /\ ResultStep(p) /\ SignalStep(p)
  <2>1. PcStep(p)
    BY <1>2 DEF DialStep, Register, SendStep1, ProcessStep2, SendStep3, Announce, Superseded,
            OutcomeArrives, ChannelCloses, Timeout, AwaitTimeout, Fail, PcStep, Label
  <2>2. ResultStep(p)
    <3>1. ASSUME Fail(p, c)  PROVE ResultStep(p)
      <4> DEFINE r == IF ~serial /\ result[p][c] = "ok" THEN "ok" ELSE "err"
      <4>1. r \in {"ok", "err"} /\ result' = [result EXCEPT ![p][c] = r]
        BY <3>1 DEF Fail
      <4> HIDE DEF r
      <4>2. QED  BY <4>1 DEF ResultStep
    <3>2. UNCHANGED result \/ result' = Done(p) \/ Fail(p, c)
      BY <1>2 DEF DialStep, Register, SendStep1, ProcessStep2, SendStep3, Announce,
                  Superseded, OutcomeArrives, ChannelCloses, Timeout, AwaitTimeout
    <3>3. QED  BY <3>1, <3>2 DEF ResultStep
  <2>3. SignalStep(p)
    BY <1>2 DEF DialStep, Register, SendStep1, ProcessStep2, SendStep3, Announce, Superseded,
                OutcomeArrives, ChannelCloses, Timeout, AwaitTimeout, AbortInitiator,
                SignalStep
  <2>4. QED  BY <2>1, <2>2, <2>3
<1>3. ASSUME ReadStep(p)  PROVE PcStep(p) /\ ResultStep(p) /\ SignalStep(p)
  <2>1. PcStep(p)
    BY <1>3 DEF ReadStep, ReceiveStep1, SendReply, ReceiveStep2, ReceiveStep3, dial, PcStep
  <2>2. ResultStep(p)
    BY <1>3 DEF ReadStep, ReceiveStep1, SendReply, ReceiveStep2, ReceiveStep3, dial,
                ResultStep
  <2>3. SignalStep(p)
    <3>1. CASE ReceiveStep2(p)
      <4>1. Head(wire[Other(p)]) \in Signals
        BY <3>1, IncomingFacts, FrameTypes DEF ReceiveStep2, Signals
      <4>2. QED  BY <3>1, <4>1 DEF ReceiveStep2, SignalStep
    <3>2. QED
      BY <1>3, <3>1 DEF ReadStep, ReceiveStep1, SendReply, ReceiveStep3, SignalStep, Signals
  <2>4. QED  BY <2>1, <2>2, <2>3
<1>4. QED  BY <1>1, <1>2, <1>3

\* The link.
WireStep(p) ==
  \/ UNCHANGED wire
  \/ \E f \in Frame : Send(p, f)
  \/ wire[Other(p)] # <<>> /\ Consume(p)
  \/ \E f \in Frame, s \in Seq(Frame), t \in Seq(Frame) :
       wire' = [wire EXCEPT ![p] = Append(s, f), ![Other(p)] = t]
ReplyStep(p) ==
  \/ UNCHANGED reply
  \/ reply' = [reply EXCEPT ![p] = None]
  \/ \E f \in Step2Type, y \in BOOLEAN :
       reply' = [reply EXCEPT ![p] = [frame |-> f, yielded |-> y]]
LinkStep(p) == /\ WireStep(p) /\ ReplyStep(p)
               /\ UNCHANGED answers \/ answers' = [answers EXCEPT ![p] = @ + 1]

LEMMA LinkTyped ==
  ASSUME LinkTypes, NEW p \in Node, LinkStep(p)
  PROVE  LinkTypes'
<1>1. wire' \in [Node -> Seq(Frame)]
  <2>1. CASE wire[Other(p)] # <<>> /\ Consume(p)
    <3> DEFINE s == wire[Other(p)]
    <3>1. s \in Seq(Frame) /\ s # <<>> /\ wire' = [wire EXCEPT ![Other(p)] = Tail(s)]
      BY <2>1, OtherFacts DEF LinkTypes, Consume
    <3> HIDE DEF s
    <3>2. Tail(s) \in Seq(Frame)
      BY <3>1
    <3>3. QED  BY <3>1, <3>2 DEF LinkTypes
  <2>2. ASSUME NEW f \in Frame, Send(p, f)  PROVE wire' \in [Node -> Seq(Frame)]
    <3>1. wire[p] \in Seq(Frame) /\ wire' = [wire EXCEPT ![p] = Append(wire[p], f)]
      BY <2>2 DEF LinkTypes, Send
    <3>2. Append(wire[p], f) \in Seq(Frame)
      BY <3>1
    <3>3. QED  BY <3>1, <3>2 DEF LinkTypes
  <2>3. ASSUME NEW f \in Frame, NEW s \in Seq(Frame), NEW t \in Seq(Frame),
               wire' = [wire EXCEPT ![p] = Append(s, f), ![Other(p)] = t]
        PROVE  wire' \in [Node -> Seq(Frame)]
    <3>1. Append(s, f) \in Seq(Frame)
      OBVIOUS
    <3>2. QED  BY <2>3, <3>1 DEF LinkTypes
  <2>4. QED  BY <2>1, <2>2, <2>3 DEF LinkTypes, LinkStep, WireStep
<1>2. reply' \in [Node -> {None} \cup [frame : Step2Type, yielded : BOOLEAN]]
  <2>1. ASSUME NEW f \in Step2Type, NEW y \in BOOLEAN,
               reply' = [reply EXCEPT ![p] = [frame |-> f, yielded |-> y]]
        PROVE  reply' \in [Node -> {None} \cup [frame : Step2Type, yielded : BOOLEAN]]
    <3>1. [frame |-> f, yielded |-> y] \in [frame : Step2Type, yielded : BOOLEAN]
      OBVIOUS
    <3>2. QED  BY <2>1, <3>1 DEF LinkTypes
  <2>2. QED  BY <2>1 DEF LinkTypes, LinkStep, ReplyStep
<1>3. answers' \in [Node -> Nat]
  <2>1. answers \in [Node -> Nat]
    BY DEF LinkTypes
  <2>2. UNCHANGED answers \/ answers' = [answers EXCEPT ![p] = answers[p] + 1]
    BY DEF LinkStep
  <2>3. QED  BY ONLY <2>1, <2>2, p \in Node
<1>4. QED  BY <1>1, <1>2, <1>3 DEF LinkTypes

LEMMA InboundWire ==
  ASSUME TypeOK, NEW p \in Node, InboundConnection(p)
  PROVE  \E lost \in BOOLEAN :
           wire' = [wire EXCEPT ![p] = Append(IF lost THEN <<>> ELSE wire[p], Step1(kex[p])),
                                ![Other(p)] = IF lost THEN Survivors(@) ELSE @]
<1> DEFINE rest == [wire EXCEPT ![p] = <<>>, ![Other(p)] = Survivors(@)]
<1>0. wire \in [Node -> Seq(Frame)]
  BY TypeParts DEF LinkTypes
<1>1. PICK kept \in {wire, rest} :
        wire' = [kept EXCEPT ![p] = Append(@, Step1(kex[p]))]
  BY DEF InboundConnection
<1>2. CASE kept = wire
  <2>1. wire' = [wire EXCEPT ![p] = Append(wire[p], Step1(kex[p])),
                             ![Other(p)] = wire[Other(p)]]
    BY <1>0, <1>1, <1>2, OtherFacts
  <2>2. QED  BY <2>1
<1>3. CASE kept = rest
  <2>1. wire' = [wire EXCEPT ![p] = Append(<<>>, Step1(kex[p])),
                             ![Other(p)] = Survivors(wire[Other(p)])]
    BY <1>0, <1>1, <1>3, OtherFacts
  <2>2. QED  BY <2>1
<1>4. QED  BY <1>1, <1>2, <1>3

LEMMA LinkSteps ==
  ASSUME TypeOK, HandshakeInv, NEW p \in Node,
         \/ Happens(p) \/ (\E c \in CallId : DialStep(p, c)) \/ ReadStep(p)
  PROVE  LinkStep(p)
<1> USE TypeParts
<1>1. ASSUME Happens(p)  PROVE LinkStep(p)
  <2>1. CASE InboundConnection(p)
    <3>1. Step1(kex[p]) \in Frame
      BY <2>1, FrameTypes DEF InboundConnection, SessionTypes
    <3>2. PICK lost \in BOOLEAN :
            wire' = [wire EXCEPT ![p] = Append(IF lost THEN <<>> ELSE wire[p], Step1(kex[p])),
                                 ![Other(p)] = IF lost THEN Survivors(@) ELSE @]
      BY <2>1, InboundWire
    <3> DEFINE s == IF lost THEN <<>> ELSE wire[p]
               t == IF lost THEN Survivors(wire[Other(p)]) ELSE wire[Other(p)]
    <3>3. s \in Seq(Frame) /\ t \in Seq(Frame)
      <4>1. wire[p] \in Seq(Frame) /\ wire[Other(p)] \in Seq(Frame)
        BY OtherFacts DEF LinkTypes
      <4>2. QED  BY <4>1, SurvivorsFacts
    <3>4. wire' = [wire EXCEPT ![p] = Append(s, Step1(kex[p])), ![Other(p)] = t]
      BY <3>2
    <3> HIDE DEF s, t
    <3>5. QED  BY <2>1, <3>1, <3>3, <3>4 DEF InboundConnection, LinkStep, WireStep, ReplyStep
  <2>2. QED
    BY <1>1, <2>1 DEF Happens, Begin, Join, Call, LinkStep, WireStep, ReplyStep
<1>2. ASSUME NEW c \in CallId, DialStep(p, c)  PROVE LinkStep(p)
  <2>1. CASE SendStep1(p, c)
    <3>1. <<p, c>> \in Attempts
      BY DEF Attempts
    <3>2. Step1(<<p, c>>) \in Frame
      BY <3>1, FrameTypes
    <3>3. QED  BY <2>1, <3>2 DEF SendStep1, LinkStep, WireStep, ReplyStep
  <2>2. CASE SendStep3(p, c)
    BY <2>2, FrameTypes DEF SendStep3, LinkStep, WireStep, ReplyStep
  <2>3. CASE ~ SendStep1(p, c) /\ ~ SendStep3(p, c)
    BY <1>2, <2>3 DEF DialStep, Register, ProcessStep2, Announce, Superseded, OutcomeArrives,
                ChannelCloses, Timeout, AwaitTimeout, LinkStep, WireStep, ReplyStep
  <2>4. QED  BY <2>1, <2>2, <2>3
<1>3. ASSUME ReadStep(p)  PROVE LinkStep(p)
  <2>1. CASE ReceiveStep1(p)
    <3> DEFINE attempt == Head(wire[Other(p)]).attempt
               answer  == Step2(attempt, <<p, answers[p] + 1>>)
    <3>1. /\ wire[Other(p)] # <<>> /\ Consume(p)
          /\ \/ /\ reply' = [reply EXCEPT
                     ![p] = IF role[p] = "responder" /\ step2[p] # None
                              THEN [frame |-> step2[p], yielded |-> FALSE] ELSE None]
                /\ UNCHANGED answers
             \/ UNCHANGED <<reply, answers>>
             \/ /\ reply' = [reply EXCEPT
                     ![p] = [frame |-> answer, yielded |-> role[p] = "initiator"]]
                /\ answers' = [answers EXCEPT ![p] = @ + 1]
      BY <2>1, IncomingFacts DEF ReceiveStep1
    <3>2. Head(wire[Other(p)]) \in Frame /\ Head(wire[Other(p)]).step = 1
      BY <2>1, IncomingFacts DEF ReceiveStep1
    <3>3. attempt \in Attempts /\ <<p, answers[p] + 1>> \in Answers
      BY <3>2, FrameTypes DEF LinkTypes, Answers
    <3>4. answer \in Step2Type
      BY <3>3, FrameTypes
    <3>5. step2[p] # None => step2[p] \in Step2Type
      BY DEF SessionTypes
    <3> HIDE DEF attempt, answer
    <3>6. ReplyStep(p)
      <4>1. CASE reply' = [reply EXCEPT
                     ![p] = IF role[p] = "responder" /\ step2[p] # None
                              THEN [frame |-> step2[p], yielded |-> FALSE] ELSE None]
        BY <3>5, <4>1 DEF ReplyStep
      <4>2. CASE reply' = [reply EXCEPT
                     ![p] = [frame |-> answer, yielded |-> role[p] = "initiator"]]
        BY <3>4, <4>2 DEF ReplyStep
      <4>3. QED  BY <3>1, <4>1, <4>2 DEF ReplyStep
    <3>7. QED  BY <3>1, <3>6 DEF LinkStep, WireStep
  <2>2. CASE SendReply(p)
    <3>1. reply[p].frame \in Frame
      <4>1. reply[p] \in [frame : Step2Type, yielded : BOOLEAN]
        BY <2>2 DEF SendReply, LinkTypes
      <4>2. QED  BY <4>1, FrameTypes
    <3>2. QED  BY <2>2, <3>1 DEF SendReply, LinkStep, WireStep, ReplyStep
  <2>3. CASE ReceiveStep2(p)
    BY <2>3, IncomingFacts DEF ReceiveStep2, LinkStep, WireStep, ReplyStep
  <2>4. CASE ReceiveStep3(p)
    BY <2>4, IncomingFacts DEF ReceiveStep3, LinkStep, WireStep, ReplyStep
  <2>5. QED  BY <1>3, <2>1, <2>2, <2>3, <2>4 DEF ReadStep
<1>4. QED  BY <1>1, <1>2, <1>3

\* The counters.
LEMMA CountSteps ==
  ASSUME TypeOK, HandshakeInv, NEW p \in Node,
         \/ Happens(p) \/ (\E c \in CallId : DialStep(p, c)) \/ ReadStep(p)
  PROVE  CountTypes'
<1> USE TypeParts
<1>1. serial' = serial /\ hasty' \in BOOLEAN
  <2>1. \/ hasty' = hasty \/ \E y \in BOOLEAN : hasty' = (hasty \/ y)
    BY DEF Happens, DialStep, ReadStep
  <2>2. serial' = serial
    BY DEF Happens, DialStep, ReadStep
  <2>3. QED  BY <2>1, <2>2 DEF CountTypes
<1>2. CASE UNCHANGED <<calls, overlaps>>
  BY <1>1, <1>2 DEF CountTypes
<1>3. CASE Call(p)
  <2>1. /\ calls'[p] \in CallId /\ calls' = [calls EXCEPT ![p] = @ + 1]
        /\ \A r \in Node : r # p => calls'[r] = calls[r]
    BY <1>3, CallCounts DEF Call
  <2>2. calls' \in [Node -> 0 .. MaxCalls]
    <3>1. \A r \in Node : calls'[r] \in 0 .. MaxCalls
      BY <2>1, HandshakeAssumption DEF CallId, CountTypes
    <3>2. DOMAIN calls' = Node /\ calls' = [r \in Node |-> calls'[r]]
      BY <2>1 DEF CountTypes
    <3>3. QED  BY <3>1, <3>2
  <2>3. overlaps' \in 0 .. MaxOverlaps
    BY <1>3, HandshakeAssumption DEF Call, CountTypes
  <2>4. QED  BY <1>1, <2>2, <2>3 DEF CountTypes
<1>4. Call(p) \/ UNCHANGED <<calls, overlaps>>
  <2>1. ASSUME Happens(p)  PROVE Call(p) \/ UNCHANGED <<calls, overlaps>>
    BY <2>1 DEF Happens, Begin, Join, InboundConnection, dial, count
  <2>2. ASSUME NEW c \in CallId, DialStep(p, c)  PROVE UNCHANGED <<calls, overlaps>>
    BY <2>2 DEF DialStep, Register, SendStep1, ProcessStep2, SendStep3, Announce, Superseded,
                OutcomeArrives, ChannelCloses, Timeout, AwaitTimeout, count
  <2>3. ASSUME ReadStep(p)  PROVE UNCHANGED <<calls, overlaps>>
    BY <2>3 DEF ReadStep, ReceiveStep1, SendReply, ReceiveStep2, ReceiveStep3, dial, count
  <2>4. QED  BY <2>1, <2>2, <2>3
<1>5. QED  BY <1>2, <1>3, <1>4

LEMMA TypeInit == Init => TypeOK
<1> SUFFICES ASSUME Init  PROVE TypeOK
  OBVIOUS
<1>1. SessionTypes
  BY KeyTypes DEF Init, SessionTypes, Connected
<1>2. CallTypes
  BY DEF Init, CallTypes, Label
<1>3. LinkTypes
  BY DEF Init, LinkTypes
<1>4. CountTypes
  <2>1. calls = [p \in Node |-> 0] /\ overlaps = 0 /\ serial \in BOOLEAN /\ hasty = FALSE
    BY DEF Init
  <2>2. calls \in [Node -> 0 .. MaxCalls] /\ overlaps \in 0 .. MaxOverlaps
    BY <2>1, HandshakeAssumption
  <2>3. QED  BY <2>1, <2>2 DEF CountTypes
<1>5. QED  BY <1>1, <1>2, <1>3, <1>4, TypeParts

LEMMA TypeStep == ASSUME TypeOK, HandshakeInv, [Next]_vars  PROVE TypeOK'
<1>1. CASE UNCHANGED vars
  BY <1>1 DEF vars, session, dial, count, TypeOK
<1>2. CASE Next
  <2>1. PICK p \in Node : \/ Happens(p) \/ (\E c \in CallId : DialStep(p, c)) \/ ReadStep(p)
    BY <1>2 DEF Next
  <2>2. SessionTypes'
    BY <2>1, TypeParts, SessionSteps, SessionTyped
  <2>3. CallTypes'
    <3>1. PcStep(p) /\ ResultStep(p) /\ SignalStep(p)
      BY <2>1, CallSteps
    <3>2. PcShape' /\ result' \in [Node -> [CallId -> {"none", "ok", "err"}]]
      BY <3>1, TypeParts, PcTyped, ResultTyped DEF PcShape, CallTypes
    <3>3. /\ waiter' \in [Node -> {NoCall} \cup CallId]
          /\ signal' \in [Node -> [CallId -> Signals]]
      BY <3>1, TypeParts, SignalTyped DEF CallTypes, Signals
    <3>4. QED  BY <3>2, <3>3 DEF CallTypes, PcShape, Signals
  <2>4. LinkTypes'
    BY <2>1, TypeParts, LinkSteps, LinkTyped
  <2>5. CountTypes'
    BY <2>1, CountSteps
  <2>6. TypeOK' <=> (SessionTypes' /\ CallTypes' /\ LinkTypes' /\ CountTypes')
    BY DEF TypeOK, SessionTypes, CallTypes, LinkTypes, CountTypes, Frame, Label
  <2>7. QED  BY <2>2, <2>3, <2>4, <2>5, <2>6
<1>3. QED  BY <1>1, <1>2

\* Types, and a pending attempt exactly while the session is an initiator's.
THEOREM TypeCorrect == Spec => []TypeOK
BY TypeInit, TypeStep, HandshakeInit, HandshakeStep, PTL DEF Spec

-----------------------------------------------------------------------------
(* What holds as long as nothing was hasty *)

Started(p, c)  == pc[p][c] \notin {"idle", "joined"}
Owns(p, c)     == role[p] = "initiator" /\ kex[p] = <<p, c>>
Yielding(p, c) == /\ role[p] = "responder" /\ reply[p] # None /\ reply[p].yielded
                  /\ waiter[p] = c

\* One call of a peer at a time has a dial task of its own; until that task has
\* its answer the session is its attempt, or yields to the peer's.
OneTask(p) == \A c, d \in CallId : Started(p, c) /\ Started(p, d) => c = d
Opens(p) ==
  \A c \in CallId :
    /\ pc[p][c] \in {"begun", "registered"} => Owns(p, c) /\ signal[p][c] = None
    /\ pc[p][c] = "registered" => waiter[p] = c
Pends(p) ==
  \A c \in CallId : pc[p][c] = "waiting" =>
    \/ Owns(p, c) /\ signal[p][c] # Yield /\ (signal[p][c] = None => waiter[p] = c)
    \/ Yielding(p, c) /\ signal[p][c] = None
    \/ role[p] # "initiator" /\ signal[p][c] = Yield
Concludes(p) ==
  \A c \in CallId : /\ pc[p][c] = "finishing" => role[p] = "none"
                    /\ signal[p][c] # Closed
Attempting(p) ==
  role[p] = "initiator" =>
    /\ crypto[p] = Handshaking(None)
    /\ \E c \in CallId : kex[p] = <<p, c>> /\ pc[p][c] \in {"begun", "registered", "waiting"}
Replies(p) == reply[p] # None => role[p] = "responder" /\ reply[p].frame = step2[p]
Knows(p) ==
  answered[p] # None => answered[p][1] = Other(p) /\ answered[p][2] <= calls[Other(p)]

Task(p) == /\ OneTask(p) /\ Opens(p) /\ Pends(p) /\ Concludes(p)
           /\ Attempting(p) /\ Replies(p) /\ Knows(p)

\* After a connection was replaced no peer calls twice.
FewCalls == replaced > 0 => \A p \in Node : calls[p] <= 1

\* The frames on the way.
Only(s, f)  == \A i \in 1 .. Len(s) : s[i] = f
Has(s, n)   == \E i \in 1 .. Len(s) : s[i].step = n
Before(s, m) == \A i, j \in 1 .. Len(s) : i < j /\ s[j].step = m => s[i].step = m

Sent(p)          == \A c \in CallId : kex[p] = <<p, c>> => pc[p][c] = "waiting"
NotFinishing(p)  == \A c \in CallId : pc[p][c] # "finishing"
NoAnswers(p)     == \A c \in CallId : signal[p][c] \in {None, Yield}
\* A late answer to p meets nobody who waits for one.
Over(p) == replaced > 0 /\ calls[p] > 0 /\ role[p] # "initiator" /\ waiter[p] = NoCall

\* No attempt is answered: step 1 of each initiator is under way, or the one
\* that stays initiator ignored it.
OpenWire(p) ==
  LET q == Other(p)
      s == wire[p]
  IN /\ \A i \in 1 .. Len(s) : \/ s[i] = Step1(kex[p]) /\ role[p] = "initiator" /\ Sent(p)
                               \/ s[i].step = 2 /\ Over(q)
     /\ Before(s, 2)
     /\ replaced = 0 => Len(s) <= 1
     /\ role[p] = "initiator" =>
          /\ answered[q] # kex[p]
          /\ Sent(p) /\ ~ Has(s, 1) => role[q] = "initiator" /\ q = First
Unanswered(p) ==
  /\ role[p] # "responder" /\ NoAnswers(p) /\ NotFinishing(p) /\ OpenWire(p)
  /\ role[p] = "none" => crypto[p].trust \in {"connected", "sas"}
Agree == (\A p \in Node : role[p] = "none") => \A p, q \in Node : crypto[p] = crypto[q]
Open  == (\A p \in Node : Unanswered(p)) /\ Agree

Responds(q) ==
  /\ role[q] = "responder" /\ step2[q] # None
  /\ answered[q] = step2[q].attempt
  /\ crypto[q] = Handshaking(Key(answered[q], step2[q]))
  /\ NoAnswers(q) /\ NotFinishing(q)

\* The peer of p answered p's attempt, and the answer is under way.
AnswerDue(p, q, c) ==
  /\ signal[p][c] \in {None, step2[q]}
  /\ signal[p][c] # None => ~ Has(wire[q], 1)
  /\ signal[p][c] # None \/ Has(wire[q], 2) \/ reply[q] # None \/ wire[p] # <<>>
  /\ replaced = 0 =>
       /\ wire[p] = <<>>
       /\ reply[q] # None => signal[p][c] = None /\ ~ Has(wire[q], 2)
       /\ \A i \in 1 .. Len(wire[q]) :
            wire[q][i].step = 2 => i = Len(wire[q]) /\ signal[p][c] = None
Answering(p) ==
  LET q == Other(p)
  IN /\ role[p] = "initiator" /\ Responds(q) /\ answered[q] = kex[p] /\ Sent(p)
     /\ Only(wire[p], Step1(kex[p]))
     /\ \A i \in 1 .. Len(wire[q]) :
          (wire[q][i].step = 1 /\ p = First) \/ wire[q][i] = step2[q]
     /\ Before(wire[q], 1)
     /\ \A c \in CallId : kex[p] = <<p, c>> => AnswerDue(p, q, c)

\* p has the answer and its session the key; step 3 comes before the step 1 of
\* p's next attempt.
Unsent(p, a) == /\ \E c \in CallId : pc[p][c] = "finishing"
                /\ Only(wire[p], Step1(a))
                /\ replaced = 0 => wire[p] = <<>>
FinishAt(p, a, k) ==
  LET s == wire[p]
  IN /\ s[k] = Step3
     /\ \A i \in 1 .. k - 1 : s[i] = Step1(a)
     /\ \A i \in k + 1 .. Len(s) : s[i] = Step1(kex[p]) /\ role[p] = "initiator" /\ Sent(p)
     /\ replaced = 0 => k = 1 /\ Len(s) <= 2
     /\ role[p] = "initiator" /\ Sent(p) => Len(s) > k
FinishSent(p, a) == NotFinishing(p) /\ \E k \in 1 .. Len(wire[p]) : FinishAt(p, a, k)
Finishing(p) ==
  LET q == Other(p)
  IN /\ role[p] # "responder" /\ NoAnswers(p) /\ Responds(q)
     /\ answered[q] # None /\ answered[q] # kex[p]
     /\ role[p] = "none" => crypto[p] = SasPending(crypto[q].key) /\ waiter[p] = NoCall
     /\ Unsent(p, answered[q]) \/ FinishSent(p, answered[q])
     /\ Only(wire[q], step2[q])
     /\ replaced = 0 => wire[q] = <<>> /\ reply[q] = None
     /\ role[p] = "initiator" => replaced = 0

Phase  == Open \/ \E p \in Node : Answering(p) \/ Finishing(p)
Timely == (\A p \in Node : Task(p)) /\ FewCalls /\ Phase
TimelyInv == ~ hasty => Timely

-----------------------------------------------------------------------------
(* Sequences of frames *)

LEMMA TailFacts ==
  ASSUME NEW F, NEW s \in Seq(F), s # <<>>
  PROVE  /\ Len(s) \in Nat /\ Len(s) >= 1 /\ Head(s) = s[1] /\ Len(Tail(s)) = Len(s) - 1
         /\ \A i \in 1 .. Len(Tail(s)) : Tail(s)[i] = s[i + 1] /\ i + 1 \in 2 .. Len(s)
OBVIOUS

LEMMA AppendFacts ==
  ASSUME NEW F, NEW s \in Seq(F), NEW f
  PROVE  /\ Len(s) \in Nat /\ Len(Append(s, f)) = Len(s) + 1
         /\ \A i \in 1 .. Len(s) : Append(s, f)[i] = s[i]
         /\ Append(s, f)[Len(s) + 1] = f
         /\ \A i \in 1 .. Len(Append(s, f)) : i \in 1 .. Len(s) \/ i = Len(s) + 1
OBVIOUS

LEMMA OnlyTail ==
  ASSUME NEW F, NEW s \in Seq(F), s # <<>>, NEW f, Only(s, f)
  PROVE  Head(s) = f /\ Only(Tail(s), f)
BY TailFacts DEF Only

LEMMA OnlyAppend ==
  ASSUME NEW F, NEW s \in Seq(F), NEW f, Only(s, f)
  PROVE  Only(Append(s, f), f) /\ Append(s, f) # <<>>
BY AppendFacts DEF Only

LEMMA HasFacts ==
  ASSUME NEW F, NEW s \in Seq(F), NEW n
  PROVE  Has(s, n) <=> \E f \in Frames(s) : f.step = n
BY DEF Has, Frames

LEMMA HasAppend ==
  ASSUME NEW F, NEW s \in Seq(F), NEW f, NEW n
  PROVE  Has(Append(s, f), n) <=> Has(s, n) \/ f.step = n
BY AppendFacts DEF Has

LEMMA HasTail ==
  ASSUME NEW F, NEW s \in Seq(F), s # <<>>, NEW n
  PROVE  /\ Has(Tail(s), n) => Has(s, n)
         /\ Has(s, n) => Has(Tail(s), n) \/ Head(s).step = n
<1>1. Has(Tail(s), n) => Has(s, n)
  BY TailFacts DEF Has
<1>2. ASSUME Has(s, n), Head(s).step # n  PROVE Has(Tail(s), n)
  <2>1. PICK i \in 1 .. Len(s) : s[i].step = n
    BY <1>2 DEF Has
  <2>2. i # 1
    BY <1>2, <2>1, TailFacts
  <2>3. i - 1 \in 1 .. Len(Tail(s)) /\ Tail(s)[i - 1] = s[i]
    BY <2>2, TailFacts
  <2>4. QED  BY <2>1, <2>3 DEF Has
<1>3. QED  BY <1>1, <1>2

LEMMA BeforeTail ==
  ASSUME NEW F, NEW s \in Seq(F), s # <<>>, NEW m, Before(s, m)
  PROVE  /\ Before(Tail(s), m)
         /\ Head(s).step # m => ~ Has(Tail(s), m)
<1>1. Before(Tail(s), m)
  <2> SUFFICES ASSUME NEW i \in 1 .. Len(Tail(s)), NEW j \in 1 .. Len(Tail(s)), i < j,
                      Tail(s)[j].step = m
               PROVE  Tail(s)[i].step = m
    BY DEF Before
  <2>1. /\ i + 1 \in 1 .. Len(s) /\ j + 1 \in 1 .. Len(s) /\ i + 1 < j + 1
        /\ Tail(s)[i] = s[i + 1] /\ Tail(s)[j] = s[j + 1]
    BY TailFacts
  <2>2. QED  BY <2>1 DEF Before
<1>2. ASSUME Head(s).step # m, NEW j \in 1 .. Len(Tail(s)), Tail(s)[j].step = m
      PROVE  FALSE
  <2>1. /\ 1 \in 1 .. Len(s) /\ j + 1 \in 1 .. Len(s) /\ 1 < j + 1
        /\ Tail(s)[j] = s[j + 1] /\ Head(s) = s[1]
    BY TailFacts
  <2>2. QED  BY <1>2, <2>1 DEF Before
<1>3. QED  BY <1>1, <1>2 DEF Has

LEMMA BeforeAppend ==
  ASSUME NEW F, NEW s \in Seq(F), NEW f, NEW m, Before(s, m),
         f.step # m \/ \A i \in 1 .. Len(s) : s[i].step = m
  PROVE  Before(Append(s, f), m)
<1> SUFFICES ASSUME NEW i \in 1 .. Len(Append(s, f)), NEW j \in 1 .. Len(Append(s, f)),
                    i < j, Append(s, f)[j].step = m
             PROVE  Append(s, f)[i].step = m
  BY DEF Before
<1>1. i \in 1 .. Len(s) /\ Append(s, f)[i] = s[i]
  BY AppendFacts
<1>2. CASE j \in 1 .. Len(s)
  BY <1>1, <1>2, AppendFacts DEF Before
<1>3. CASE j = Len(s) + 1
  BY <1>1, <1>3, AppendFacts
<1>4. QED  BY <1>2, <1>3, AppendFacts

\* A sequence with one kind of frame only is in order.
LEMMA BeforeOnly ==
  ASSUME NEW F, NEW s \in Seq(F), NEW m
  PROVE  /\ ~ Has(s, m) => Before(s, m)
         /\ (\A f \in Frames(s) : f.step = m) => Before(s, m)
BY DEF Has, Before, Frames

-----------------------------------------------------------------------------
(* What an action changes *)

SameSession(p) == /\ role'[p] = role[p] /\ crypto'[p] = crypto[p] /\ kex'[p] = kex[p]
                  /\ answered'[p] = answered[p] /\ step2'[p] = step2[p]
SameChannel(p) == waiter'[p] = waiter[p] /\ signal'[p] = signal[p]
Stays(p) == Untouched(p) /\ kex'[p] = kex[p]
Moves(p, c, l) == pc'[p][c] = l /\ \A d \in CallId : d # c => pc'[p][d] = pc[p][d]

LEMMA TypeFunctions ==
  ASSUME TypeOK
  PROVE  /\ SessionShape /\ ReplyShape /\ WaiterShape /\ SignalShape /\ PcShape
         /\ kex = [p \in Node |-> kex[p]]
         /\ wire \in [Node -> Seq(Frame)]
         /\ calls = [p \in Node |-> calls[p]]
         /\ \A p \in Node : calls[p] \in Nat
<1>1. SessionShape /\ kex = [p \in Node |-> kex[p]]
  BY TypeParts DEF SessionTypes, SessionShape
<1>2. ReplyShape /\ wire \in [Node -> Seq(Frame)]
  BY TypeParts DEF LinkTypes, ReplyShape
<1>3. WaiterShape /\ PcShape
  BY TypeParts DEF CallTypes, WaiterShape, PcShape
<1>4. SignalShape
  BY TypeParts DEF CallTypes, SignalShape
<1>5. calls = [p \in Node |-> calls[p]] /\ \A p \in Node : calls[p] \in Nat
  BY TypeParts, HandshakeAssumption DEF CountTypes
<1>6. QED  BY <1>1, <1>2, <1>3, <1>4, <1>5

\* A dial step that sends nothing and leaves the session to others.
LEMMA PlainEffect ==
  ASSUME TypeOK, NEW p \in Node, NEW c \in CallId,
         \/ Announce(p, c) \/ OutcomeArrives(p, c) \/ AwaitTimeout(p, c) \/ Superseded(p, c)
  PROVE  /\ \/ pc[p][c] \in {"announcing", "superseded", "joined"} /\ Moves(p, c, "idle")
               /\ signal'[p] = signal[p]
            \/ pc[p][c] = "waiting" /\ Moves(p, c, "superseded")
               /\ signal[p][c] = Yield /\ signal'[p][c] = None
               /\ \A d \in CallId : d # c => signal'[p][d] = signal[p][d]
         /\ SameSession(p) /\ waiter'[p] = waiter[p] /\ reply'[p] = reply[p]
         /\ calls'[p] = calls[p] /\ wire' = wire /\ replaced' = replaced
         /\ \A r \in Node : r # p => Stays(r)
<1> USE TypeFunctions
<1>1. UNCHANGED <<session, waiter, count, reply, wire, replaced>>
  BY DEF Announce, OutcomeArrives, AwaitTimeout, Superseded
<1>2. CASE Superseded(p, c)
  <2>1. Moves(p, c, "superseded") /\ \A r \in Node : r # p => pc'[r] = pc[r]
    BY <1>2, GotoFacts DEF Superseded, Moves, Label
  <2>2. /\ signal'[p][c] = None /\ \A d \in CallId : d # c => signal'[p][d] = signal[p][d]
        /\ \A r \in Node : r # p => signal'[r] = signal[r]
    BY <1>2, TakeFacts DEF Superseded
  <2>3. pc[p][c] = "waiting" /\ signal[p][c] = Yield
    BY <1>2 DEF Superseded
  <2>4. QED
    BY <1>1, <2>1, <2>2, <2>3 DEF SameSession, Stays, Untouched, session, count
<1>3. CASE ~ Superseded(p, c)
  <2>1. /\ pc[p][c] \in {"announcing", "superseded", "joined"} /\ Goto(p, c, "idle")
        /\ signal' = signal
    BY <1>3 DEF Announce, OutcomeArrives, AwaitTimeout, AwaitExpires, Awaits, Fail
  <2>2. Moves(p, c, "idle") /\ \A r \in Node : r # p => pc'[r] = pc[r]
    BY <2>1, GotoFacts DEF Moves, Label
  <2>3. QED
    BY <1>1, <2>1, <2>2 DEF SameSession, Stays, Untouched, session, count
<1>4. QED  BY <1>2, <1>3

LEMMA RegisterEffect ==
  ASSUME TypeOK, NEW p \in Node, NEW c \in CallId, Register(p, c)
  PROVE  /\ pc[p][c] = "begun" /\ Moves(p, c, "registered")
         /\ SameSession(p) /\ waiter'[p] = c /\ reply'[p] = reply[p]
         /\ \A d \in CallId :
              signal'[p][d] = IF d = waiter[p] /\ d # c THEN Closed ELSE signal[p][d]
         /\ calls'[p] = calls[p] /\ wire' = wire /\ replaced' = replaced
         /\ \A r \in Node : r # p => Stays(r)
<1> USE TypeFunctions
<1>1. /\ UNCHANGED <<session, count, reply, wire, replaced>> /\ pc[p][c] = "begun"
      /\ waiter' = [waiter EXCEPT ![p] = c] /\ signal' = Closing(p, c)
  BY DEF Register
<1>2. Moves(p, c, "registered") /\ \A r \in Node : r # p => pc'[r] = pc[r]
  BY GotoFacts DEF Register, Moves, Label
<1>3. /\ \A d \in CallId :
           signal'[p][d] = IF d = waiter[p] /\ d # c THEN Closed ELSE signal[p][d]
      /\ \A r \in Node : r # p => signal'[r] = signal[r]
  BY <1>1, ClosingFacts
<1>4. waiter'[p] = c /\ \A r \in Node : r # p => waiter'[r] = waiter[r]
  BY <1>1 DEF WaiterShape
<1>5. QED
  BY <1>1, <1>2, <1>3, <1>4 DEF SameSession, Stays, Untouched, session, count

LEMMA SendEffect ==
  ASSUME TypeOK, NEW p \in Node, NEW c \in CallId, SendStep1(p, c) \/ SendStep3(p, c)
  PROVE  /\ \/ /\ pc[p][c] = "registered" /\ Moves(p, c, "waiting")
               /\ wire'[p] = Append(wire[p], Step1(<<p, c>>))
            \/ /\ pc[p][c] = "finishing" /\ Moves(p, c, "announcing")
               /\ wire'[p] = Append(wire[p], Step3)
         /\ \A r \in Node : r # p => wire'[r] = wire[r]
         /\ SameSession(p) /\ SameChannel(p) /\ reply'[p] = reply[p]
         /\ calls'[p] = calls[p] /\ replaced' = replaced
         /\ \A r \in Node : r # p => Stays(r)
<1> USE TypeFunctions
<1>1. UNCHANGED <<session, waiter, signal, count, reply, replaced>>
  BY DEF SendStep1, SendStep3
<1>2. /\ \/ pc[p][c] = "registered" /\ Moves(p, c, "waiting") /\ Send(p, Step1(<<p, c>>))
         \/ pc[p][c] = "finishing" /\ Moves(p, c, "announcing") /\ Send(p, Step3)
      /\ \A r \in Node : r # p => pc'[r] = pc[r]
  BY GotoFacts DEF SendStep1, SendStep3, Moves, Label
<1>3. \A f : Send(p, f) => /\ wire'[p] = Append(wire[p], f)
                           /\ \A r \in Node : r # p => wire'[r] = wire[r]
  BY DEF Send
<1>4. QED
  BY <1>1, <1>2, <1>3 DEF SameSession, SameChannel, Stays, Untouched, session, count

LEMMA ProcessEffect ==
  ASSUME TypeOK, NEW p \in Node, NEW c \in CallId, ProcessStep2(p, c), role[p] = "initiator"
  PROVE  /\ pc[p][c] = "waiting" /\ signal[p][c] \in Step2Type /\ Moves(p, c, "finishing")
         /\ role'[p] = "none" /\ kex'[p] = None
         /\ crypto'[p] = SasPending(Key(kex[p], signal[p][c]))
         /\ answered'[p] = answered[p] /\ step2'[p] = step2[p]
         /\ waiter'[p] = waiter[p] /\ reply'[p] = reply[p] /\ signal'[p][c] = None
         /\ \A d \in CallId : d # c => signal'[p][d] = signal[p][d]
         /\ calls'[p] = calls[p] /\ wire' = wire /\ replaced' = replaced
         /\ \A r \in Node : r # p => Stays(r)
<1> USE TypeFunctions
<1>1. /\ UNCHANGED <<waiter, count, reply, wire, replaced, answered, step2>>
      /\ pc[p][c] = "waiting" /\ signal[p][c] \notin {None, Yield, Closed}
      /\ role' = [role EXCEPT ![p] = "none"] /\ kex' = [kex EXCEPT ![p] = None]
      /\ crypto' = [crypto EXCEPT ![p] = SasPending(Key(kex[p], signal[p][c]))]
  BY DEF ProcessStep2
<1>2. signal[p][c] \in Step2Type
  BY <1>1, TypeParts DEF CallTypes
<1>3. Moves(p, c, "finishing") /\ \A r \in Node : r # p => pc'[r] = pc[r]
  BY GotoFacts DEF ProcessStep2, Moves, Label
<1>4. /\ signal'[p][c] = None /\ \A d \in CallId : d # c => signal'[p][d] = signal[p][d]
      /\ \A r \in Node : r # p => signal'[r] = signal[r]
  BY TakeFacts DEF ProcessStep2
<1>5. /\ role'[p] = "none" /\ kex'[p] = None
      /\ crypto'[p] = SasPending(Key(kex[p], signal[p][c]))
      /\ \A r \in Node : r # p => role'[r] = role[r] /\ kex'[r] = kex[r] /\ crypto'[r] = crypto[r]
  BY <1>1 DEF SessionShape
<1>6. QED
  BY <1>1, <1>2, <1>3, <1>4, <1>5 DEF Stays, Untouched, count

LEMMA JoinEffect ==
  ASSUME TypeOK, HandshakeInv, NEW p \in Node,
         Join(p) \/ (Begin(p) /\ role[p] = "responder")
  PROVE  \E c \in CallId, l \in {"joined", "superseded"} :
           /\ pc[p][c] = "idle" /\ Moves(p, c, l)
           /\ Join(p) => l = "joined"
           /\ SameSession(p) /\ SameChannel(p) /\ reply'[p] = reply[p]
           /\ calls'[p] = calls[p] + 1 /\ wire' = wire /\ replaced' = replaced
           /\ \A r \in Node : r # p => Stays(r)
<1> USE TypeFunctions
<1> DEFINE c == calls'[p]
           l == IF Join(p) THEN "joined" ELSE "superseded"
<1>1. /\ c \in CallId /\ pc[p][c] = "idle" /\ c = calls[p] + 1
      /\ UNCHANGED <<waiter, signal, reply>>
      /\ \A r \in Node : r # p => calls'[r] = calls[r]
  BY CallCounts DEF Join, Begin
<1>2. UNCHANGED <<session, wire, replaced>> /\ Goto(p, c, l)
  BY DEF Join, Begin, Call
<1>3. l \in {"joined", "superseded"} /\ l \in Label /\ (Join(p) => l = "joined")
  BY DEF Label
<1> HIDE DEF c, l
<1>4. Moves(p, c, l) /\ \A r \in Node : r # p => pc'[r] = pc[r]
  BY <1>1, <1>2, <1>3, GotoFacts DEF Moves
<1>5. calls'[p] = calls[p] + 1
  BY <1>1 DEF c
<1>6. QED
  BY <1>1, <1>2, <1>3, <1>4, <1>5 DEF SameSession, SameChannel, Stays, Untouched, session

LEMMA BeginEffect ==
  ASSUME TypeOK, HandshakeInv, NEW p \in Node, Begin(p), role[p] # "responder"
  PROVE  \E c \in CallId :
           /\ pc[p][c] = "idle" /\ signal[p][c] = None /\ Moves(p, c, "begun")
           /\ role'[p] = "initiator" /\ crypto'[p] = Handshaking(None)
           /\ kex'[p] = <<p, c>> /\ answered'[p] = None /\ step2'[p] = None
           /\ SameChannel(p) /\ reply'[p] = reply[p] /\ c = calls[p] + 1
           /\ calls[p] < CallsLeft
           /\ calls'[p] = calls[p] + 1 /\ wire' = wire /\ replaced' = replaced
           /\ \A r \in Node : r # p => Stays(r)
<1> USE TypeFunctions
<1> DEFINE c == calls'[p]
<1>1. /\ c \in CallId /\ pc[p][c] = "idle" /\ c = calls[p] + 1 /\ signal[p][c] = None
      /\ UNCHANGED <<waiter, signal, reply>>
      /\ \A r \in Node : r # p => calls'[r] = calls[r]
  BY CallCounts DEF Begin
<1>2. /\ UNCHANGED <<wire, replaced>> /\ Goto(p, c, "begun") /\ calls[p] < CallsLeft
      /\ role'     = [role EXCEPT ![p] = "initiator"]
      /\ crypto'   = [crypto EXCEPT ![p] = Handshaking(None)]
      /\ kex'      = [kex EXCEPT ![p] = <<p, c>>]
      /\ answered' = [answered EXCEPT ![p] = None]
      /\ step2'    = [step2 EXCEPT ![p] = None]
  BY DEF Begin, Call
<1>3. calls'[p] = calls[p] + 1
  BY <1>1
<1> HIDE DEF c
<1>4. Moves(p, c, "begun") /\ \A r \in Node : r # p => pc'[r] = pc[r]
  BY <1>1, <1>2, GotoFacts DEF Moves, Label
<1>5. /\ role'[p] = "initiator" /\ crypto'[p] = Handshaking(None)
      /\ kex'[p] = <<p, c>> /\ answered'[p] = None /\ step2'[p] = None
      /\ \A r \in Node : r # p => /\ role'[r] = role[r] /\ kex'[r] = kex[r]
                                  /\ crypto'[r] = crypto[r] /\ answered'[r] = answered[r]
                                  /\ step2'[r] = step2[r]
  BY <1>2 DEF SessionShape
<1>6. QED
  BY <1>1, <1>2, <1>3, <1>4, <1>5 DEF SameChannel, Stays, Untouched

\* What the read loop takes off the link.
Takes(p, n) ==
  LET s == wire[Other(p)]
  IN /\ s \in Seq(Frame) /\ s # <<>> /\ Head(s) \in Frame /\ Head(s).step = n
     /\ wire'[Other(p)] = Tail(s) /\ wire'[p] = wire[p] /\ reply[p] = None

LEMMA TakesFacts ==
  ASSUME TypeOK, NEW p \in Node, NEW n, Incoming(p, n), Consume(p)
  PROVE  Takes(p, n)
<1>1. /\ Head(wire[Other(p)]) \in Frame /\ Head(wire[Other(p)]).step = n
      /\ wire[Other(p)] \in Seq(Frame) /\ wire[Other(p)] # <<>>
  BY TypeParts, IncomingFacts
<1>2. wire' = [wire EXCEPT ![Other(p)] = Tail(wire[Other(p)])] /\ wire \in [Node -> Seq(Frame)]
  BY TypeFunctions DEF Consume
<1>3. wire'[Other(p)] = Tail(wire[Other(p)]) /\ wire'[p] = wire[p]
  BY <1>2, OtherFacts
<1>4. QED  BY <1>1, <1>3 DEF Takes, Incoming

LEMMA ReceiveStep1Effect ==
  ASSUME TypeOK, NEW p \in Node, ReceiveStep1(p)
  PROVE  LET attempt == Head(wire[Other(p)]).attempt
         IN /\ Takes(p, 1) /\ attempt \in Attempts
            /\ SameChannel(p) /\ pc'[p] = pc[p] /\ calls'[p] = calls[p]
            /\ replaced' = replaced /\ \A r \in Node : r # p => Stays(r)
            /\ \/ /\ answered[p] = attempt /\ SameSession(p)
                  /\ reply'[p] = IF role[p] = "responder" /\ step2[p] # None
                                   THEN [frame |-> step2[p], yielded |-> FALSE] ELSE None
               \/ /\ answered[p] # attempt /\ StaysInitiator(p)
                  /\ SameSession(p) /\ reply'[p] = None
               \/ /\ answered[p] # attempt /\ ~ StaysInitiator(p)
                  /\ \E answer \in Step2Type :
                       /\ answer.attempt = attempt
                       /\ role'[p] = "responder" /\ kex'[p] = None
                       /\ crypto'[p] = Handshaking(Key(attempt, answer))
                       /\ answered'[p] = attempt /\ step2'[p] = answer
                       /\ reply'[p] = [frame |-> answer, yielded |-> role[p] = "initiator"]
<1> USE TypeFunctions
<1> DEFINE attempt == Head(wire[Other(p)]).attempt
           answer  == Step2(attempt, <<p, answers[p] + 1>>)
<1>1. Takes(p, 1)
  BY TakesFacts DEF ReceiveStep1
<1>2. attempt \in Attempts
  BY <1>1, FrameTypes DEF Takes
<1>3. /\ answer \in Step2Type /\ answer.attempt = attempt
  <2>1. <<p, answers[p] + 1>> \in Answers
    BY TypeParts DEF LinkTypes, Answers
  <2>2. QED  BY <1>2, <2>1, FrameTypes DEF Step2
<1>4. /\ UNCHANGED <<waiter, signal, pc, calls, replaced>>
      /\ \/ /\ answered[p] = attempt /\ UNCHANGED session
            /\ reply' = [reply EXCEPT
                 ![p] = IF role[p] = "responder" /\ step2[p] # None
                          THEN [frame |-> step2[p], yielded |-> FALSE] ELSE None]
         \/ answered[p] # attempt /\ StaysInitiator(p) /\ UNCHANGED <<session, reply>>
         \/ /\ answered[p] # attempt /\ ~ StaysInitiator(p) /\ Answer(p, attempt, answer)
            /\ reply' = [reply EXCEPT
                 ![p] = [frame |-> answer, yielded |-> role[p] = "initiator"]]
  BY DEF ReceiveStep1, Duplicate, dial, count
<1> HIDE DEF attempt, answer
<1>5. CASE /\ answered[p] = attempt /\ UNCHANGED session
           /\ reply' = [reply EXCEPT
                 ![p] = IF role[p] = "responder" /\ step2[p] # None
                          THEN [frame |-> step2[p], yielded |-> FALSE] ELSE None]
  <2>1. /\ reply'[p] = IF role[p] = "responder" /\ step2[p] # None
                          THEN [frame |-> step2[p], yielded |-> FALSE] ELSE None
        /\ \A r \in Node : r # p => reply'[r] = reply[r]
    BY <1>5 DEF ReplyShape
  <2>2. SameSession(p) /\ SameChannel(p) /\ \A r \in Node : r # p => Stays(r)
    BY <1>4, <1>5, <2>1 DEF SameSession, SameChannel, Stays, Untouched, session
  <2>3. QED  BY <1>1, <1>2, <1>4, <1>5, <2>1, <2>2 DEF attempt
<1>6. CASE answered[p] # attempt /\ StaysInitiator(p) /\ UNCHANGED <<session, reply>>
  <2>1. SameSession(p) /\ SameChannel(p) /\ \A r \in Node : r # p => Stays(r)
    BY <1>4, <1>6 DEF SameSession, SameChannel, Stays, Untouched, session
  <2>2. reply'[p] = None
    BY <1>1, <1>6 DEF Takes
  <2>3. QED  BY <1>1, <1>2, <1>4, <1>6, <2>1, <2>2 DEF attempt
<1>7. CASE /\ answered[p] # attempt /\ ~ StaysInitiator(p) /\ Answer(p, attempt, answer)
           /\ reply' = [reply EXCEPT
                 ![p] = [frame |-> answer, yielded |-> role[p] = "initiator"]]
  <2>1. /\ reply'[p] = [frame |-> answer, yielded |-> role[p] = "initiator"]
        /\ \A r \in Node : r # p => reply'[r] = reply[r]
    BY <1>7 DEF ReplyShape
  <2>2. /\ role'[p] = "responder" /\ kex'[p] = None
        /\ crypto'[p] = Handshaking(Key(attempt, answer))
        /\ answered'[p] = attempt /\ step2'[p] = answer
        /\ \A r \in Node : r # p => /\ role'[r] = role[r] /\ kex'[r] = kex[r]
                                    /\ crypto'[r] = crypto[r] /\ answered'[r] = answered[r]
                                    /\ step2'[r] = step2[r]
    BY <1>7 DEF Answer, SessionShape
  <2>3. SameChannel(p) /\ \A r \in Node : r # p => Stays(r)
    BY <1>4, <2>1, <2>2 DEF SameChannel, Stays, Untouched
  <2>4. QED  BY <1>1, <1>2, <1>3, <1>4, <1>7, <2>1, <2>2, <2>3 DEF attempt
<1>8. QED  BY <1>4, <1>5, <1>6, <1>7

LEMMA SendReplyEffect ==
  ASSUME TypeOK, NEW p \in Node, SendReply(p)
  PROVE  /\ reply[p] # None /\ reply'[p] = None
         /\ wire'[p] = Append(wire[p], reply[p].frame)
         /\ \A r \in Node : r # p => wire'[r] = wire[r]
         /\ SameSession(p) /\ pc'[p] = pc[p] /\ calls'[p] = calls[p]
         /\ replaced' = replaced /\ \A r \in Node : r # p => Stays(r)
         /\ \/ ~ reply[p].yielded /\ SameChannel(p)
            \/ /\ reply[p].yielded /\ waiter'[p] = NoCall
               /\ \A d \in CallId :
                    signal'[p][d] = IF d = waiter[p] THEN Yield ELSE signal[p][d]
<1> USE TypeFunctions
<1>1. /\ UNCHANGED <<session, pc, calls, replaced>> /\ reply[p] # None
      /\ reply' = [reply EXCEPT ![p] = None]
      /\ wire' = [wire EXCEPT ![p] = Append(@, reply[p].frame)]
      /\ \/ ~ reply[p].yielded /\ UNCHANGED <<waiter, signal>>
         \/ reply[p].yielded /\ Signal(p, Yield)
  BY DEF SendReply, Send, dial, count
<1>2. /\ reply'[p] = None /\ \A r \in Node : r # p => reply'[r] = reply[r]
      /\ wire'[p] = Append(wire[p], reply[p].frame)
      /\ \A r \in Node : r # p => wire'[r] = wire[r]
  BY <1>1 DEF ReplyShape
<1>3. CASE ~ reply[p].yielded /\ UNCHANGED <<waiter, signal>>
  BY <1>1, <1>2, <1>3 DEF SameSession, SameChannel, Stays, Untouched, session
<1>4. CASE reply[p].yielded /\ Signal(p, Yield)
  <2>1. /\ waiter'[p] = NoCall
        /\ \A d \in CallId : signal'[p][d] = IF d = waiter[p] THEN Yield ELSE signal[p][d]
        /\ \A r \in Node : r # p => waiter'[r] = waiter[r] /\ signal'[r] = signal[r]
    BY <1>4, SignalFacts
  <2>2. QED  BY <1>1, <1>2, <1>4, <2>1 DEF SameSession, Stays, Untouched, session
<1>5. QED  BY <1>1, <1>3, <1>4

LEMMA ReceiveStep2Effect ==
  ASSUME TypeOK, NEW p \in Node, ReceiveStep2(p)
  PROVE  /\ Takes(p, 2) /\ SameSession(p) /\ pc'[p] = pc[p] /\ calls'[p] = calls[p]
         /\ reply'[p] = reply[p] /\ replaced' = replaced
         /\ \A r \in Node : r # p => Stays(r)
         /\ waiter'[p] = NoCall
         /\ \A d \in CallId : signal'[p][d] = IF d = waiter[p] THEN Head(wire[Other(p)])
                                              ELSE signal[p][d]
<1> USE TypeFunctions
<1>1. Takes(p, 2)
  BY TakesFacts DEF ReceiveStep2
<1>2. UNCHANGED <<session, pc, calls, reply, replaced>> /\ Signal(p, Head(wire[Other(p)]))
  BY DEF ReceiveStep2, dial, count
<1>3. /\ waiter'[p] = NoCall
      /\ \A d \in CallId : signal'[p][d] = IF d = waiter[p] THEN Head(wire[Other(p)])
                                           ELSE signal[p][d]
      /\ \A r \in Node : r # p => waiter'[r] = waiter[r] /\ signal'[r] = signal[r]
  BY <1>2, SignalFacts
<1>4. QED  BY <1>1, <1>2, <1>3 DEF SameSession, Stays, Untouched, session

LEMMA ReceiveStep3Effect ==
  ASSUME TypeOK, NEW p \in Node, ReceiveStep3(p)
  PROVE  /\ Takes(p, 3) /\ SameChannel(p) /\ pc'[p] = pc[p] /\ calls'[p] = calls[p]
         /\ reply'[p] = reply[p] /\ replaced' = replaced
         /\ \A r \in Node : r # p => Stays(r)
         /\ \/ /\ role[p] = "responder" /\ role'[p] = "none"
               /\ crypto'[p] = SasPending(crypto[p].key) /\ kex'[p] = None
               /\ step2'[p] = None /\ answered'[p] = answered[p]
            \/ role[p] # "responder" /\ SameSession(p)
<1> USE TypeFunctions
<1>1. Takes(p, 3)
  BY TakesFacts DEF ReceiveStep3
<1>2. UNCHANGED <<waiter, signal, pc, calls, reply, replaced>>
  BY DEF ReceiveStep3, count
<1>3. CASE role[p] = "responder"
  <2>1. /\ role'   = [role EXCEPT ![p] = "none"]
        /\ crypto' = [crypto EXCEPT ![p] = SasPending(crypto[p].key)]
        /\ kex'    = [kex EXCEPT ![p] = None]
        /\ step2'  = [step2 EXCEPT ![p] = None]
        /\ answered' = answered
    BY <1>3 DEF ReceiveStep3
  <2>2. /\ role'[p] = "none" /\ crypto'[p] = SasPending(crypto[p].key) /\ kex'[p] = None
        /\ step2'[p] = None /\ answered'[p] = answered[p]
        /\ \A r \in Node : r # p => /\ role'[r] = role[r] /\ kex'[r] = kex[r]
                                    /\ crypto'[r] = crypto[r] /\ answered'[r] = answered[r]
                                    /\ step2'[r] = step2[r]
    BY <2>1 DEF SessionShape
  <2>3. QED  BY <1>1, <1>2, <1>3, <2>2 DEF SameChannel, Stays, Untouched
<1>4. CASE role[p] # "responder"
  BY <1>1, <1>2, <1>4 DEF ReceiveStep3, SameSession, SameChannel, Stays, Untouched, session
<1>5. QED  BY <1>3, <1>4

LEMMA InboundEffect ==
  ASSUME TypeOK, HandshakeInv, NEW p \in Node, InboundConnection(p)
  PROVE  /\ SameSession(p) /\ SameChannel(p) /\ pc'[p] = pc[p] /\ calls'[p] = calls[p]
         /\ reply'[p] = reply[p] /\ replaced' = replaced + 1 /\ replaced \in Nat
         /\ role[p] = "initiator" /\ \A q \in Node : calls[q] <= 1
         /\ \A r \in Node : r # p => Stays(r)
         /\ \E s \in {<<>>, wire[p]} : wire'[p] = Append(s, Step1(kex[p]))
         /\ \/ wire'[Other(p)] = wire[Other(p)]
            \/ wire'[Other(p)] = Survivors(wire[Other(p)])
<1> USE TypeFunctions
<1>1. /\ UNCHANGED <<session, waiter, signal, pc, calls, reply>> /\ replaced' = replaced + 1
      /\ role[p] = "initiator" /\ \A q \in Node : calls[q] <= 1
  BY DEF InboundConnection, dial, count, CallsInTrouble
<1>2. PICK lost \in BOOLEAN :
        wire' = [wire EXCEPT ![p] = Append(IF lost THEN <<>> ELSE wire[p], Step1(kex[p])),
                             ![Other(p)] = IF lost THEN Survivors(@) ELSE @]
  BY InboundWire
<1>3. /\ wire'[p] = Append(IF lost THEN <<>> ELSE wire[p], Step1(kex[p]))
      /\ wire'[Other(p)] = IF lost THEN Survivors(wire[Other(p)]) ELSE wire[Other(p)]
  BY <1>2, OtherFacts
<1>4. \E s \in {<<>>, wire[p]} : wire'[p] = Append(s, Step1(kex[p]))
  BY <1>3
<1>5. replaced \in Nat
  BY DEF HandshakeInv, Shape, CountShape
<1>6. QED
  BY <1>1, <1>3, <1>4, <1>5 DEF SameSession, SameChannel, Stays, Untouched, session

-----------------------------------------------------------------------------
(* One task at a time *)

LEMMA AnsweredFacts ==
  ASSUME TypeOK, NEW p \in Node, answered[p] # None
  PROVE  answered[p][2] \in Nat /\ answered[p][2] >= 1 /\ answered[p] \in Attempts
<1>1. answered[p] \in Attempts
  BY TypeParts DEF SessionTypes
<1>2. QED  BY <1>1, HandshakeAssumption DEF Attempts, CallId

LEMMA KnowsLater ==
  ASSUME TypeOK, NEW p \in Node, Knows(p), answered'[p] = answered[p],
         calls'[Other(p)] = calls[Other(p)] \/ calls'[Other(p)] = calls[Other(p)] + 1
  PROVE  Knows(p)'
<1>1. calls[Other(p)] \in Nat
  BY TypeFunctions, OtherFacts
<1>2. QED  BY <1>1, AnsweredFacts DEF Knows

LEMMA TaskStays ==
  ASSUME TypeOK, NEW p \in Node, Task(p), Stays(p),
         calls'[Other(p)] = calls[Other(p)] \/ calls'[Other(p)] = calls[Other(p)] + 1
  PROVE  Task(p)'
<1>1. Knows(p)'
  BY KnowsLater DEF Task, Stays, Untouched
<1>2. OneTask(p)' /\ Concludes(p)' /\ Replies(p)'
  BY DEF Task, Stays, Untouched, OneTask, Started, Concludes, Replies
<1>3. Opens(p)' /\ Attempting(p)'
  BY DEF Task, Stays, Untouched, Opens, Owns, Attempting
<1>4. Pends(p)'
  BY DEF Task, Stays, Untouched, Pends, Owns, Yielding
<1>5. QED  BY <1>1, <1>2, <1>3, <1>4 DEF Task

\* The call that pends is that of the task.
LEMMA WaiterTask ==
  ASSUME HandshakeInv, NEW p \in Node, waiter[p] # NoCall
  PROVE  waiter[p] \in CallId /\ Listens(p, waiter[p]) /\ signal[p][waiter[p]] = None
BY DEF HandshakeInv, Shape, WaiterShape, Own, Waits

LEMMA SignalTask ==
  ASSUME HandshakeInv, NEW p \in Node, Task(p), NEW c \in CallId, signal[p][c] # None
  PROVE  pc[p][c] = "waiting"
BY DEF HandshakeInv, Own, Waits, Listens, Task, Opens

LEMMA PlainTask ==
  ASSUME TypeOK, HandshakeInv, NEW p \in Node, Task(p), NEW c \in CallId,
         \/ Announce(p, c) \/ OutcomeArrives(p, c) \/ AwaitTimeout(p, c) \/ Superseded(p, c)
  PROVE  Task(p)'
<1>0. /\ \/ /\ pc[p][c] \in {"announcing", "superseded", "joined"} /\ Moves(p, c, "idle")
            /\ signal'[p] = signal[p]
         \/ /\ pc[p][c] = "waiting" /\ Moves(p, c, "superseded")
            /\ signal[p][c] = Yield /\ signal'[p][c] = None
            /\ \A d \in CallId : d # c => signal'[p][d] = signal[p][d]
      /\ SameSession(p) /\ waiter'[p] = waiter[p] /\ reply'[p] = reply[p]
      /\ calls'[p] = calls[p]
      /\ \A r \in Node : r # p => Stays(r)
  BY PlainEffect
<1>1. calls'[Other(p)] = calls[Other(p)]
  BY <1>0, OtherFacts DEF Stays, Untouched
<1>2. Knows(p)'
  BY <1>0, <1>1, KnowsLater DEF Task, SameSession
<1>3. OneTask(p)'
  BY <1>0 DEF Task, OneTask, Started, Moves
<1>4. Replies(p)'
  BY <1>0 DEF Task, Replies, SameSession
<1>5. Concludes(p)'
  BY <1>0, FrameFacts DEF Task, Concludes, Moves, SameSession
<1>6. Opens(p)'
  BY <1>0 DEF Task, Opens, Owns, Moves, SameSession
<1>7. Pends(p)'
  BY <1>0 DEF Task, Pends, Owns, Yielding, Moves, SameSession
<1>8. Attempting(p)'
  <2>1. SUFFICES ASSUME role[p] = "initiator"
                 PROVE  Attempting(p)'
    BY <1>0 DEF Attempting, SameSession
  <2>2. PICK d \in CallId : kex[p] = <<p, d>> /\ pc[p][d] \in {"begun", "registered", "waiting"}
    BY <2>1 DEF Task, Attempting
  <2>3. d # c
    <3>1. CASE pc[p][c] = "waiting" /\ signal[p][c] = Yield
      BY <3>1, <2>1, FrameFacts DEF Task, Pends, Owns, Yielding
    <3>2. QED  BY <1>0, <2>2, <3>1
  <2>4. QED  BY <1>0, <2>1, <2>2, <2>3 DEF Task, Attempting, Moves, SameSession
<1>9. QED  BY <1>2, <1>3, <1>4, <1>5, <1>6, <1>7, <1>8 DEF Task

LEMMA JoinTask ==
  ASSUME TypeOK, HandshakeInv, NEW p \in Node, Task(p),
         Join(p) \/ (Begin(p) /\ role[p] = "responder" /\ \A d \in CallId : ~ Started(p, d))
  PROVE  Task(p)'
<1>0. PICK c \in CallId, l \in {"joined", "superseded"} :
        /\ pc[p][c] = "idle" /\ Moves(p, c, l)
        /\ Join(p) => l = "joined"
        /\ SameSession(p) /\ SameChannel(p) /\ reply'[p] = reply[p]
        /\ \A r \in Node : r # p => Stays(r)
  BY JoinEffect
<1>1. calls'[Other(p)] = calls[Other(p)]
  BY <1>0, OtherFacts DEF Stays, Untouched
<1>2. Knows(p)'
  BY <1>0, <1>1, KnowsLater DEF Task, SameSession
<1>3. OneTask(p)'
  BY <1>0 DEF Task, OneTask, Started, Moves
<1>4. Replies(p)'
  BY <1>0 DEF Task, Replies, SameSession
<1>5. Concludes(p)'
  BY <1>0, FrameFacts DEF Task, Concludes, Moves, SameSession, SameChannel
<1>6. Opens(p)'
  BY <1>0 DEF Task, Opens, Owns, Moves, SameSession, SameChannel
<1>7. Pends(p)'
  BY <1>0 DEF Task, Pends, Owns, Yielding, Moves, SameSession, SameChannel
<1>8. Attempting(p)'
  BY <1>0 DEF Task, Attempting, Moves, SameSession
<1>9. QED  BY <1>2, <1>3, <1>4, <1>5, <1>6, <1>7, <1>8 DEF Task

LEMMA BeginTask ==
  ASSUME TypeOK, HandshakeInv, NEW p \in Node, Task(p), Begin(p), role[p] # "responder",
         \A d \in CallId : ~ Started(p, d)
  PROVE  Task(p)'
<1>0. PICK c \in CallId :
        /\ pc[p][c] = "idle" /\ signal[p][c] = None /\ Moves(p, c, "begun")
        /\ role'[p] = "initiator" /\ crypto'[p] = Handshaking(None)
        /\ kex'[p] = <<p, c>> /\ answered'[p] = None
        /\ SameChannel(p) /\ reply'[p] = reply[p]
  BY BeginEffect
<1>2. Knows(p)'
  BY <1>0 DEF Knows
<1>3. OneTask(p)'
  BY <1>0 DEF OneTask, Started, Moves
<1>4. Replies(p)'
  BY <1>0 DEF Task, Replies
<1>5. Concludes(p)'
  BY <1>0, FrameFacts DEF Task, Concludes, Started, Moves, SameChannel
<1>6. Opens(p)'
  BY <1>0 DEF Opens, Owns, Started, Moves, SameChannel
<1>7. Pends(p)'
  BY <1>0 DEF Pends, Started, Moves
<1>8. Attempting(p)'
  BY <1>0 DEF Attempting, Moves
<1>9. QED  BY <1>2, <1>3, <1>4, <1>5, <1>6, <1>7, <1>8 DEF Task

\* No other call listened: none is told that its channel closed.
LEMMA NobodyListens ==
  ASSUME HandshakeInv, NEW p \in Node, Task(p), NEW c \in CallId,
         Started(p, c), ~ Listens(p, c) \/ signal[p][c] # None
  PROVE  waiter[p] = NoCall
<1>1. SUFFICES ASSUME waiter[p] # NoCall  PROVE FALSE
  OBVIOUS
<1>2. /\ waiter[p] \in CallId /\ Listens(p, waiter[p]) /\ signal[p][waiter[p]] = None
  BY <1>1, WaiterTask
<1>3. Started(p, waiter[p])
  BY <1>2 DEF Listens, Started
<1>4. waiter[p] = c
  BY <1>2, <1>3 DEF Task, OneTask
<1>5. QED  BY <1>2, <1>4

LEMMA RegisterSame ==
  ASSUME TypeOK, HandshakeInv, NEW p \in Node, Task(p), NEW c \in CallId, Register(p, c)
  PROVE  \A d \in CallId : signal'[p][d] = signal[p][d]
<1>0. /\ pc[p][c] = "begun"
      /\ \A d \in CallId :
           signal'[p][d] = IF d = waiter[p] /\ d # c THEN Closed ELSE signal[p][d]
  BY RegisterEffect
<1>1. waiter[p] = NoCall
  BY <1>0, NobodyListens DEF Started, Listens
<1>2. QED  BY <1>0, <1>1, CallFacts

LEMMA RegisterTask ==
  ASSUME TypeOK, HandshakeInv, NEW p \in Node, Task(p), NEW c \in CallId, Register(p, c)
  PROVE  Task(p)'
<1>0. /\ pc[p][c] = "begun" /\ Moves(p, c, "registered")
      /\ SameSession(p) /\ waiter'[p] = c /\ reply'[p] = reply[p]
      /\ calls'[p] = calls[p]
      /\ \A r \in Node : r # p => Stays(r)
  BY RegisterEffect
<1>1. \A d \in CallId : signal'[p][d] = signal[p][d]
  BY RegisterSame
<1>a. calls'[Other(p)] = calls[Other(p)]
  BY <1>0, OtherFacts DEF Stays, Untouched
<1>2. Knows(p)'
  BY <1>0, <1>a, KnowsLater DEF Task, SameSession
<1>3. OneTask(p)' /\ \A d \in CallId : d # c => ~ Started(p, d)
  BY <1>0 DEF Task, OneTask, Started, Moves
<1>4. Replies(p)'
  BY <1>0 DEF Task, Replies, SameSession
<1>5. Concludes(p)'
  BY <1>0, <1>1 DEF Task, Concludes, Moves, SameSession
<1>6. Opens(p)'
  BY <1>0, <1>1, <1>3 DEF Task, Opens, Owns, Started, Moves, SameSession
<1>7. Pends(p)'
  BY <1>0, <1>3 DEF Pends, Started, Moves
<1>8. Attempting(p)'
  BY <1>0 DEF Task, Attempting, Moves, SameSession
<1>9. QED  BY <1>2, <1>3, <1>4, <1>5, <1>6, <1>7, <1>8 DEF Task

LEMMA SendTask ==
  ASSUME TypeOK, HandshakeInv, NEW p \in Node, Task(p), NEW c \in CallId,
         SendStep1(p, c) \/ SendStep3(p, c)
  PROVE  Task(p)'
<1>0. /\ \/ pc[p][c] = "registered" /\ Moves(p, c, "waiting")
         \/ pc[p][c] = "finishing" /\ Moves(p, c, "announcing")
      /\ SameSession(p) /\ SameChannel(p) /\ reply'[p] = reply[p]
      /\ calls'[p] = calls[p]
      /\ \A r \in Node : r # p => Stays(r)
  BY SendEffect
<1>1. calls'[Other(p)] = calls[Other(p)]
  BY <1>0, OtherFacts DEF Stays, Untouched
<1>2. Knows(p)'
  BY <1>0, <1>1, KnowsLater DEF Task, SameSession
<1>3. OneTask(p)'
  BY <1>0 DEF Task, OneTask, Started, Moves
<1>4. Replies(p)'
  BY <1>0 DEF Task, Replies, SameSession
<1>5. Concludes(p)'
  BY <1>0 DEF Task, Concludes, Moves, SameSession, SameChannel
<1>6. Opens(p)'
  BY <1>0 DEF Task, Opens, Owns, Moves, SameSession, SameChannel
<1>7. Pends(p)'
  BY <1>0, FrameFacts DEF Task, Opens, Pends, Owns, Yielding, Moves, SameSession, SameChannel
<1>8. Attempting(p)'
  BY <1>0 DEF Task, Attempting, Concludes, Moves, SameSession
<1>9. QED  BY <1>2, <1>3, <1>4, <1>5, <1>6, <1>7, <1>8 DEF Task

\* The call that has its answer is the one whose attempt pends.
LEMMA ProcessOwns ==
  ASSUME TypeOK, HandshakeInv, NEW p \in Node, Task(p), NEW c \in CallId, ProcessStep2(p, c)
  PROVE  Owns(p, c) /\ waiter[p] = NoCall
<1>1. pc[p][c] = "waiting" /\ signal[p][c] \notin {None, Yield, Closed}
  BY DEF ProcessStep2
<1>2. Owns(p, c)
  BY <1>1 DEF Task, Pends
<1>3. waiter[p] = NoCall
  BY <1>1, NobodyListens DEF Started
<1>4. QED  BY <1>2, <1>3

LEMMA ProcessTask ==
  ASSUME TypeOK, HandshakeInv, NEW p \in Node, Task(p), NEW c \in CallId, ProcessStep2(p, c)
  PROVE  Task(p)'
<1>a. Owns(p, c)
  BY ProcessOwns
<1>0. /\ pc[p][c] = "waiting" /\ Moves(p, c, "finishing")
      /\ role'[p] = "none" /\ answered'[p] = answered[p] /\ reply'[p] = reply[p]
      /\ signal'[p][c] = None
      /\ \A d \in CallId : d # c => signal'[p][d] = signal[p][d]
      /\ \A r \in Node : r # p => Stays(r)
  BY <1>a, ProcessEffect DEF Owns
<1>1. calls'[Other(p)] = calls[Other(p)]
  BY <1>0, OtherFacts DEF Stays, Untouched
<1>2. Knows(p)'
  BY <1>0, <1>1, KnowsLater DEF Task
<1>3. OneTask(p)' /\ \A d \in CallId : d # c => ~ Started(p, d)
  BY <1>0 DEF Task, OneTask, Started, Moves
<1>4. Replies(p)'
  BY <1>0, <1>a DEF Task, Replies, Owns
<1>5. Concludes(p)'
  BY <1>0, FrameFacts DEF Task, Concludes, Moves
<1>6. Opens(p)'
  BY <1>0, <1>3 DEF Opens, Started, Moves
<1>7. Pends(p)'
  BY <1>0, <1>3 DEF Pends, Started, Moves
<1>8. Attempting(p)'
  BY <1>0 DEF Attempting
<1>9. QED  BY <1>2, <1>3, <1>4, <1>5, <1>6, <1>7, <1>8 DEF Task

LEMMA ReceiveStep1Task ==
  ASSUME TypeOK, HandshakeInv, NEW p \in Node, Task(p), ReceiveStep1(p), ~ Starting(p),
         LET a == Head(wire[Other(p)]).attempt
         IN \/ answered[p] = a \/ StaysInitiator(p)
            \/ /\ NoAnswers(p) /\ NotFinishing(p)
               /\ a[1] = Other(p) /\ a[2] <= calls[Other(p)]
  PROVE  Task(p)'
<1> DEFINE attempt == Head(wire[Other(p)]).attempt
<1>0. /\ SameChannel(p) /\ pc'[p] = pc[p] /\ reply[p] = None
      /\ \A r \in Node : r # p => Stays(r)
      /\ \/ /\ answered[p] = attempt /\ SameSession(p)
            /\ reply'[p] = IF role[p] = "responder" /\ step2[p] # None
                             THEN [frame |-> step2[p], yielded |-> FALSE] ELSE None
         \/ SameSession(p) /\ reply'[p] = None
         \/ /\ answered[p] # attempt /\ ~ StaysInitiator(p)
            /\ \E answer \in Step2Type :
                 /\ answer.attempt = attempt
                 /\ role'[p] = "responder" /\ kex'[p] = None
                 /\ crypto'[p] = Handshaking(Key(attempt, answer))
                 /\ answered'[p] = attempt /\ step2'[p] = answer
                 /\ reply'[p] = [frame |-> answer, yielded |-> role[p] = "initiator"]
  BY ReceiveStep1Effect DEF Takes
<1>a. \/ answered[p] = attempt \/ StaysInitiator(p)
      \/ /\ NoAnswers(p) /\ NotFinishing(p)
         /\ attempt[1] = Other(p) /\ attempt[2] <= calls[Other(p)]
  OBVIOUS
<1> HIDE DEF attempt
<1>1. calls'[Other(p)] = calls[Other(p)]
  BY <1>0, OtherFacts DEF Stays, Untouched
<1>b. \A c \in CallId : pc[p][c] \notin {"begun", "registered"}
  BY DEF Starting
<1>3. OneTask(p)'
  BY <1>0 DEF Task, OneTask, Started
<1>6. Opens(p)'
  BY <1>0, <1>b DEF Opens
<1>10. CASE SameSession(p) /\ reply'[p] = None
  <2>1. Pends(p)'
    BY <1>0, <1>10 DEF Task, Pends, Owns, Yielding, SameSession, SameChannel
  <2>2. Attempting(p)' /\ Replies(p)' /\ Concludes(p)'
    BY <1>0, <1>10 DEF Task, Attempting, Replies, Concludes, SameSession, SameChannel
  <2>3. Knows(p)'
    BY <1>1, <1>10, KnowsLater DEF Task, SameSession
  <2>4. QED  BY <1>3, <1>6, <2>1, <2>2, <2>3 DEF Task
<1>11. CASE /\ SameSession(p) /\ role[p] = "responder"
            /\ reply'[p] = [frame |-> step2[p], yielded |-> FALSE]
  <2>1. Pends(p)'
    BY <1>0, <1>11 DEF Task, Pends, Owns, Yielding, SameSession, SameChannel
  <2>2. Attempting(p)' /\ Replies(p)' /\ Concludes(p)'
    BY <1>0, <1>11 DEF Task, Attempting, Replies, Concludes, SameSession, SameChannel
  <2>3. Knows(p)'
    BY <1>1, <1>11, KnowsLater DEF Task, SameSession
  <2>4. QED  BY <1>3, <1>6, <2>1, <2>2, <2>3 DEF Task
<1>12. ASSUME answered[p] # attempt, ~ StaysInitiator(p), NEW answer \in Step2Type,
              role'[p] = "responder", answered'[p] = attempt, step2'[p] = answer,
              reply'[p] = [frame |-> answer, yielded |-> role[p] = "initiator"]
       PROVE  Task(p)'
  <2>b. NoAnswers(p) /\ NotFinishing(p)
    BY <1>12, <1>a
  <2>a. /\ reply'[p] # None /\ reply'[p].frame = answer
        /\ role[p] = "initiator" => reply'[p].yielded
    <3>1. \A y \in BOOLEAN : [frame |-> answer, yielded |-> y] # None
      BY DEF None
    <3>2. reply'[p] # None
      BY <1>12, <3>1
    <3>3. reply'[p].frame = answer
      BY <1>12
    <3>4. ASSUME role[p] = "initiator"  PROVE reply'[p].yielded
      <4>1. (role[p] = "initiator") = TRUE
        BY <3>4
      <4>2. reply'[p] = [frame |-> answer, yielded |-> TRUE]
        BY <1>12, <4>1
      <4>3. QED  BY <4>2
    <3>5. QED  BY <3>2, <3>3, <3>4
  <2>1. Pends(p)'
    <3> SUFFICES ASSUME NEW c \in CallId, pc[p][c] = "waiting"
                 PROVE  \/ Yielding(p, c)' /\ signal[p][c] = None
                        \/ role'[p] # "initiator" /\ signal[p][c] = Yield
      BY <1>0 DEF Pends, SameChannel
    <3>1. CASE Owns(p, c)
      <4>1. role[p] = "initiator" /\ NoAnswers(p)
        BY <2>b, <3>1 DEF Owns
      <4>2. signal[p][c] = None /\ waiter[p] = c
        BY <3>1, <4>1 DEF NoAnswers, Task, Pends, Owns, Yielding
      <4>3. QED  BY <1>0, <1>12, <2>a, <4>1, <4>2 DEF Yielding, SameChannel
    <3>2. CASE ~ Owns(p, c)
      <4>1. signal[p][c] = Yield
        BY <1>0, <3>2 DEF Task, Pends, Yielding
      <4>2. QED  BY <1>12, <4>1
    <3>3. QED  BY <3>1, <3>2
  <2>2. Attempting(p)' /\ Replies(p)'
    BY <1>12, <2>a DEF Attempting, Replies
  <2>3. Knows(p)'
    BY <1>1, <1>12, <1>a DEF Knows
  <2>4. Concludes(p)'
    BY <1>0, <2>b, FrameFacts DEF Concludes, NoAnswers, NotFinishing, SameChannel
  <2>5. QED  BY <1>3, <1>6, <2>1, <2>2, <2>3, <2>4 DEF Task
<1>13. QED  BY <1>0, <1>10, <1>11, <1>12

LEMMA SendReplyTask ==
  ASSUME TypeOK, HandshakeInv, NEW p \in Node, Task(p), SendReply(p)
  PROVE  Task(p)'
<1>0. /\ reply[p] # None /\ reply'[p] = None
      /\ SameSession(p) /\ pc'[p] = pc[p] /\ \A r \in Node : r # p => Stays(r)
      /\ \/ ~ reply[p].yielded /\ SameChannel(p)
         \/ /\ reply[p].yielded /\ waiter'[p] = NoCall
            /\ \A d \in CallId : signal'[p][d] = IF d = waiter[p] THEN Yield ELSE signal[p][d]
  BY SendReplyEffect
<1>a. role[p] = "responder"
  BY <1>0 DEF Task, Replies
<1>1. calls'[Other(p)] = calls[Other(p)]
  BY <1>0, OtherFacts DEF Stays, Untouched
<1>b. \A c \in CallId : pc[p][c] \notin {"begun", "registered"}
  BY <1>a DEF Task, Opens, Owns
<1>2. Knows(p)'
  BY <1>0, <1>1, KnowsLater DEF Task, SameSession
<1>3. OneTask(p)'
  BY <1>0 DEF Task, OneTask, Started
<1>4. Replies(p)' /\ Attempting(p)'
  BY <1>0, <1>a DEF Replies, Attempting, SameSession
<1>5. Concludes(p)'
  BY <1>0, FrameFacts DEF Task, Concludes, SameSession, SameChannel
<1>6. Opens(p)'
  BY <1>0, <1>b DEF Opens
<1>7. Pends(p)'
  BY <1>0, <1>a, CallFacts DEF Task, Pends, Owns, Yielding, SameSession, SameChannel
<1>8. QED  BY <1>2, <1>3, <1>4, <1>5, <1>6, <1>7 DEF Task

LEMMA ReceiveStep2Task ==
  ASSUME TypeOK, HandshakeInv, NEW p \in Node, Task(p), ReceiveStep2(p), ~ Starting(p),
         waiter[p] # NoCall => role[p] = "initiator"
  PROVE  Task(p)'
<1> DEFINE f == Head(wire[Other(p)])
<1>0. /\ Takes(p, 2) /\ SameSession(p) /\ pc'[p] = pc[p] /\ reply'[p] = reply[p]
      /\ \A r \in Node : r # p => Stays(r)
      /\ waiter'[p] = NoCall
      /\ \A d \in CallId : signal'[p][d] = IF d = waiter[p] THEN f ELSE signal[p][d]
  BY ReceiveStep2Effect
<1>c. f # None /\ f # Yield /\ f # Closed
  BY <1>0, FrameTypes DEF Takes
<1> HIDE DEF f
<1>1. calls'[Other(p)] = calls[Other(p)]
  BY <1>0, OtherFacts DEF Stays, Untouched
<1>b. \A c \in CallId : pc[p][c] \notin {"begun", "registered"}
  BY DEF Starting
<1>2. Knows(p)'
  BY <1>0, <1>1, KnowsLater DEF Task, SameSession
<1>3. OneTask(p)'
  BY <1>0 DEF Task, OneTask, Started
<1>4. Replies(p)' /\ Attempting(p)'
  BY <1>0 DEF Task, Replies, Attempting, SameSession
<1>5. Concludes(p)'
  BY <1>0, <1>c DEF Task, Concludes, SameSession
<1>6. Opens(p)'
  BY <1>0, <1>b DEF Opens
<1>7. Pends(p)'
  <2> SUFFICES ASSUME NEW c \in CallId, pc[p][c] = "waiting"
               PROVE  \/ Owns(p, c) /\ signal'[p][c] # Yield /\ signal'[p][c] # None
                      \/ role[p] # "initiator" /\ signal'[p][c] = Yield
    BY <1>0 DEF Pends, Owns, SameSession
  <2>1. CASE c = waiter[p]
    <3>1. c # NoCall /\ signal[p][c] = None /\ role[p] = "initiator"
      BY <2>1, CallFacts, WaiterTask
    <3>2. Owns(p, c)
      BY <3>1, FrameFacts DEF Task, Pends, Yielding
    <3>3. QED  BY <1>0, <1>c, <2>1, <3>2
  <2>2. CASE c # waiter[p]
    <3>1. signal'[p][c] = signal[p][c]
      BY <1>0, <2>2
    <3>2. ~ Yielding(p, c)
      BY <2>2 DEF Yielding
    <3>3. QED  BY <2>2, <3>1, <3>2 DEF Task, Pends
  <2>3. QED  BY <2>1, <2>2
<1>8. QED  BY <1>2, <1>3, <1>4, <1>5, <1>6, <1>7 DEF Task

LEMMA ReceiveStep3Task ==
  ASSUME TypeOK, HandshakeInv, NEW p \in Node, Task(p), ReceiveStep3(p)
  PROVE  Task(p)'
<1>0. /\ SameChannel(p) /\ pc'[p] = pc[p] /\ reply'[p] = reply[p] /\ reply[p] = None
      /\ \A r \in Node : r # p => Stays(r)
      /\ answered'[p] = answered[p]
      /\ (role[p] = "responder" /\ role'[p] = "none") \/ SameSession(p)
  BY ReceiveStep3Effect DEF Takes, SameSession
<1>1. calls'[Other(p)] = calls[Other(p)]
  BY <1>0, OtherFacts DEF Stays, Untouched
<1>2. Knows(p)'
  BY <1>0, <1>1, KnowsLater DEF Task
<1>3. OneTask(p)'
  BY <1>0 DEF Task, OneTask, Started
<1>4. Replies(p)' /\ Attempting(p)'
  BY <1>0 DEF Task, Replies, Attempting, SameSession
<1>5. Concludes(p)'
  BY <1>0 DEF Task, Concludes, SameSession, SameChannel
<1>6. Opens(p)'
  BY <1>0 DEF Task, Opens, Owns, SameSession, SameChannel
<1>7. Pends(p)'
  BY <1>0 DEF Task, Pends, Owns, Yielding, SameSession, SameChannel
<1>8. QED  BY <1>2, <1>3, <1>4, <1>5, <1>6, <1>7 DEF Task

LEMMA InboundTask ==
  ASSUME TypeOK, HandshakeInv, NEW p \in Node, Task(p), InboundConnection(p)
  PROVE  Task(p)'
<1>0. /\ SameChannel(p) /\ pc'[p] = pc[p] /\ reply'[p] = reply[p] /\ SameSession(p)
      /\ \A r \in Node : r # p => Stays(r)
  BY InboundEffect
<1>1. calls'[Other(p)] = calls[Other(p)]
  BY <1>0, OtherFacts DEF Stays, Untouched
<1>2. Knows(p)'
  BY <1>0, <1>1, KnowsLater DEF Task, SameSession
<1>3. OneTask(p)'
  BY <1>0 DEF Task, OneTask, Started
<1>4. Replies(p)' /\ Attempting(p)'
  BY <1>0 DEF Task, Replies, Attempting, SameSession
<1>5. Concludes(p)'
  BY <1>0 DEF Task, Concludes, SameSession, SameChannel
<1>6. Opens(p)'
  BY <1>0 DEF Task, Opens, Owns, SameSession, SameChannel
<1>7. Pends(p)'
  BY <1>0 DEF Task, Pends, Owns, Yielding, SameSession, SameChannel
<1>8. QED  BY <1>2, <1>3, <1>4, <1>5, <1>6, <1>7 DEF Task

-----------------------------------------------------------------------------
(* Steps on which no phase depends *)

Looks(r) ==
  /\ SameSession(r) /\ reply'[r] = reply[r]
  /\ role[r] = "initiator" \/ waiter'[r] = waiter[r]
  /\ \A c \in CallId : \/ signal'[r][c] = signal[r][c]
                       \/ signal[r][c] = Yield /\ signal'[r][c] = None
  /\ \A c \in CallId : pc'[r][c] = "finishing" <=> pc[r][c] = "finishing"
  /\ role[r] = "initiator" =>
       \A c \in CallId : kex[r] = <<r, c>> => (pc'[r][c] = "waiting" <=> pc[r][c] = "waiting")
  /\ calls'[r] = calls[r] \/ calls'[r] = calls[r] + 1

LEMMA StaysLooks == ASSUME NEW r \in Node, Stays(r)  PROVE Looks(r)
BY DEF Stays, Untouched, Looks, SameSession

LEMMA LooksParts ==
  ASSUME TypeOK, NEW r \in Node, Looks(r), replaced' = replaced
  PROVE  /\ NoAnswers(r) => NoAnswers(r)'
         /\ NotFinishing(r) => NotFinishing(r)'
         /\ role[r] = "initiator" => (Sent(r)' <=> Sent(r))
         /\ Over(r) => Over(r)'
         /\ Responds(r) => Responds(r)'
<1>1. NoAnswers(r) => NoAnswers(r)'
  BY DEF Looks, NoAnswers
<1>2. NotFinishing(r) => NotFinishing(r)'
  BY DEF Looks, NotFinishing
<1>3. role[r] = "initiator" => (Sent(r)' <=> Sent(r))
  BY DEF Looks, Sent, SameSession
<1>4. Over(r) => Over(r)'
  <2>1. calls[r] \in Nat
    BY TypeFunctions
  <2>2. QED  BY <2>1 DEF Looks, Over, SameSession
<1>5. Responds(r) => Responds(r)'
  BY <1>1, <1>2 DEF Looks, Responds, SameSession
<1>6. QED  BY <1>1, <1>2, <1>3, <1>4, <1>5

LEMMA LooksOpen ==
  ASSUME TypeOK, \A r \in Node : Looks(r), wire' = wire, replaced' = replaced, Open
  PROVE  Open'
<1>1. ASSUME NEW r \in Node  PROVE Unanswered(r)'
  <2> DEFINE q == Other(r)
  <2>1. q \in Node
    BY OtherFacts
  <2>2. Unanswered(r) /\ Looks(r) /\ Looks(q)
    BY <2>1 DEF Open
  <2>3. /\ role'[r] = role[r] /\ kex'[r] = kex[r] /\ crypto'[r] = crypto[r]
        /\ role'[q] = role[q] /\ answered'[q] = answered[q]
    BY <2>2 DEF Looks, SameSession
  <2>4. /\ NoAnswers(r)' /\ NotFinishing(r)' /\ (Over(q) => Over(q)')
        /\ role[r] = "initiator" => (Sent(r)' <=> Sent(r))
    BY <2>1, <2>2, LooksParts DEF Unanswered
  <2> HIDE DEF q
  <2>5. OpenWire(r)'
    <3>1. /\ \A i \in 1 .. Len(wire[r]) :
                \/ wire[r][i] = Step1(kex[r]) /\ role[r] = "initiator" /\ Sent(r)
                \/ wire[r][i].step = 2 /\ Over(q)
          /\ Before(wire[r], 2)
          /\ replaced = 0 => Len(wire[r]) <= 1
          /\ role[r] = "initiator" =>
               /\ answered[q] # kex[r]
               /\ Sent(r) /\ ~ Has(wire[r], 1) => role[q] = "initiator" /\ q = First
      BY <2>2 DEF Unanswered, OpenWire, q
    <3>2. \A i \in 1 .. Len(wire'[r]) :
                \/ wire'[r][i] = Step1(kex'[r]) /\ role'[r] = "initiator" /\ Sent(r)'
                \/ wire'[r][i].step = 2 /\ Over(q)'
      BY <2>3, <2>4, <3>1
    <3>3. Before(wire[r], 2)' /\ (replaced' = 0 => Len(wire'[r]) <= 1)
      BY <3>1 DEF Before
    <3>4. role'[r] = "initiator" =>
               /\ answered'[q] # kex'[r]
               /\ Sent(r)' /\ ~ Has(wire[r], 1)' => role'[q] = "initiator" /\ q = First
      BY <2>3, <2>4, <3>1 DEF Has
    <3>5. QED  BY <3>2, <3>3, <3>4 DEF OpenWire, q
  <2>6. QED  BY <2>2, <2>3, <2>4, <2>5 DEF Unanswered
<1>2. Agree'
  BY DEF Open, Agree, Looks, SameSession
<1>3. QED  BY <1>1, <1>2 DEF Open

LEMMA LooksAnswering ==
  ASSUME TypeOK, \A r \in Node : Looks(r), wire' = wire, replaced' = replaced,
         NEW p \in Node, Answering(p)
  PROVE  Answering(p)'
<1> DEFINE q == Other(p)
<1>1. q \in Node /\ Looks(p) /\ Looks(q)
  BY OtherFacts
<1>2. /\ role'[p] = role[p] /\ kex'[p] = kex[p] /\ answered'[q] = answered[q]
      /\ step2'[q] = step2[q] /\ reply'[q] = reply[q] /\ role[p] = "initiator"
  BY <1>1 DEF Looks, SameSession, Answering
<1>3. Responds(q)' /\ Sent(p)'
  BY <1>1, <1>2, LooksParts DEF Answering
<1> HIDE DEF q
<1>4. /\ answered[q] = kex[p] /\ Only(wire[p], Step1(kex[p]))
      /\ \A i \in 1 .. Len(wire[q]) :
           (wire[q][i].step = 1 /\ p = First) \/ wire[q][i] = step2[q]
      /\ Before(wire[q], 1)
      /\ \A c \in CallId : kex[p] = <<p, c>> => AnswerDue(p, q, c)
  BY DEF Answering, q
<1>5. step2[q] # Yield
  <2>1. Responds(q)
    BY DEF Answering, q
  <2>2. step2[q] \in Step2Type
    BY <1>1, <2>1, TypeParts DEF Responds, SessionTypes
  <2>3. QED  BY <2>2, FrameTypes
<1>6. ASSUME NEW c \in CallId, kex'[p] = <<p, c>>  PROVE AnswerDue(p, q, c)'
  <2>1. AnswerDue(p, q, c)
    BY <1>2, <1>4, <1>6
  <2>2. signal'[p][c] = signal[p][c]
    BY <1>1, <1>5, <2>1, FrameFacts DEF AnswerDue, Looks
  <2>3. QED  BY <1>2, <2>1, <2>2 DEF AnswerDue, Has
<1>7. Only(wire[p], Step1(kex[p]))' /\ Before(wire[q], 1)'
  BY <1>2, <1>4 DEF Only, Before
<1>8. \A i \in 1 .. Len(wire'[q]) :
           (wire'[q][i].step = 1 /\ p = First) \/ wire'[q][i] = step2'[q]
  BY <1>2, <1>4
<1>9. QED  BY <1>2, <1>3, <1>4, <1>6, <1>7, <1>8 DEF Answering, q

LEMMA LooksFinishing ==
  ASSUME TypeOK, \A r \in Node : Looks(r), wire' = wire, replaced' = replaced,
         NEW p \in Node, Finishing(p)
  PROVE  Finishing(p)'
<1> DEFINE q == Other(p)
<1>1. q \in Node /\ Looks(p) /\ Looks(q)
  BY OtherFacts
<1>2. /\ role'[p] = role[p] /\ kex'[p] = kex[p] /\ answered'[q] = answered[q]
      /\ crypto'[p] = crypto[p] /\ crypto'[q] = crypto[q]
      /\ step2'[q] = step2[q] /\ reply'[q] = reply[q]
  BY <1>1 DEF Looks, SameSession
<1>3. /\ Responds(q)' /\ NoAnswers(p)' /\ (NotFinishing(p) => NotFinishing(p)')
      /\ role[p] = "initiator" => (Sent(p)' <=> Sent(p))
  BY <1>1, LooksParts DEF Finishing
<1> HIDE DEF q
<1>4. /\ role[p] # "responder" /\ answered[q] # None /\ answered[q] # kex[p]
      /\ role[p] = "none" => crypto[p] = SasPending(crypto[q].key) /\ waiter[p] = NoCall
      /\ Unsent(p, answered[q]) \/ FinishSent(p, answered[q])
      /\ Only(wire[q], step2[q])
      /\ replaced = 0 => wire[q] = <<>> /\ reply[q] = None
      /\ role[p] = "initiator" => replaced = 0
  BY DEF Finishing, q
<1>5. role'[p] = "none" => waiter'[p] = NoCall
  BY <1>1, <1>2, <1>4 DEF Looks
<1>6. Unsent(p, answered[q]) => Unsent(p, answered[q])'
  BY <1>1, <1>2 DEF Unsent, Looks, Only
<1>7. FinishSent(p, answered[q]) => FinishSent(p, answered[q])'
  <2>1. ASSUME NEW k \in 1 .. Len(wire[p]), FinishAt(p, answered[q], k)
        PROVE  FinishAt(p, answered[q], k)'
    <3>1. /\ wire[p][k] = Step3
          /\ \A i \in 1 .. k - 1 : wire[p][i] = Step1(answered[q])
          /\ \A i \in k + 1 .. Len(wire[p]) :
               wire[p][i] = Step1(kex[p]) /\ role[p] = "initiator" /\ Sent(p)
          /\ replaced = 0 => k = 1 /\ Len(wire[p]) <= 2
          /\ role[p] = "initiator" /\ Sent(p) => Len(wire[p]) > k
      BY <2>1 DEF FinishAt
    <3>2. \A i \in k + 1 .. Len(wire'[p]) :
               wire'[p][i] = Step1(kex'[p]) /\ role'[p] = "initiator" /\ Sent(p)'
      BY <1>2, <1>3, <3>1
    <3>3. role'[p] = "initiator" /\ Sent(p)' => Len(wire'[p]) > k
      BY <1>2, <1>3, <3>1
    <3>4. QED  BY <1>2, <3>1, <3>2, <3>3 DEF FinishAt
  <2>2. QED  BY <1>3, <2>1 DEF FinishSent
<1>8. Only(wire[q], step2[q])'
  BY <1>2, <1>4 DEF Only
<1>9. QED  BY <1>2, <1>3, <1>4, <1>5, <1>6, <1>7, <1>8 DEF Finishing, q

LEMMA LooksPhase ==
  ASSUME TypeOK, \A r \in Node : Looks(r), wire' = wire, replaced' = replaced, Phase
  PROVE  Phase'
BY LooksOpen, LooksAnswering, LooksFinishing DEF Phase

\* A step of p that moves no handshake on.
LEMMA PlainLooks ==
  ASSUME TypeOK, HandshakeInv, NEW p \in Node, Task(p), NEW c \in CallId,
         \/ Announce(p, c) \/ OutcomeArrives(p, c) \/ AwaitTimeout(p, c) \/ Superseded(p, c)
  PROVE  (\A r \in Node : Looks(r)) /\ wire' = wire /\ replaced' = replaced
<1>0. /\ \/ /\ pc[p][c] \in {"announcing", "superseded", "joined"} /\ Moves(p, c, "idle")
            /\ signal'[p] = signal[p]
         \/ /\ pc[p][c] = "waiting" /\ Moves(p, c, "superseded")
            /\ signal[p][c] = Yield /\ signal'[p][c] = None
            /\ \A d \in CallId : d # c => signal'[p][d] = signal[p][d]
      /\ SameSession(p) /\ waiter'[p] = waiter[p] /\ reply'[p] = reply[p]
      /\ calls'[p] = calls[p] /\ wire' = wire /\ replaced' = replaced
      /\ \A r \in Node : r # p => Stays(r)
  BY PlainEffect
<1>1. pc[p][c] = "waiting" /\ signal[p][c] = Yield => ~ Owns(p, c)
  BY FrameFacts DEF Task, Pends, Owns, Yielding
<1>2. Looks(p)
  BY <1>0, <1>1 DEF Looks, Moves, Owns
<1>3. QED  BY <1>0, <1>2, StaysLooks

LEMMA RegisterLooks ==
  ASSUME TypeOK, HandshakeInv, NEW p \in Node, Task(p), NEW c \in CallId, Register(p, c)
  PROVE  (\A r \in Node : Looks(r)) /\ wire' = wire /\ replaced' = replaced
<1>0. /\ pc[p][c] = "begun" /\ Moves(p, c, "registered")
      /\ SameSession(p) /\ reply'[p] = reply[p]
      /\ calls'[p] = calls[p] /\ wire' = wire /\ replaced' = replaced
      /\ \A r \in Node : r # p => Stays(r)
  BY RegisterEffect
<1>1. role[p] = "initiator"
  BY <1>0 DEF Task, Opens, Owns
<1>2. Looks(p)
  BY <1>0, <1>1, RegisterSame DEF Looks, Moves
<1>3. QED  BY <1>0, <1>2, StaysLooks

LEMMA JoinLooks ==
  ASSUME TypeOK, HandshakeInv, NEW p \in Node, Task(p),
         Join(p) \/ (Begin(p) /\ role[p] = "responder")
  PROVE  (\A r \in Node : Looks(r)) /\ wire' = wire /\ replaced' = replaced
<1>0. PICK c \in CallId, l \in {"joined", "superseded"} :
        /\ pc[p][c] = "idle" /\ Moves(p, c, l)
        /\ SameSession(p) /\ SameChannel(p) /\ reply'[p] = reply[p]
        /\ calls'[p] = calls[p] + 1 /\ wire' = wire /\ replaced' = replaced
        /\ \A r \in Node : r # p => Stays(r)
  BY JoinEffect
<1>1. Looks(p)
  BY <1>0 DEF Looks, Moves, SameChannel
<1>2. QED  BY <1>0, <1>1, StaysLooks

-----------------------------------------------------------------------------
(* An attempt begins *)

\* What both peers know of each other in a timely state.
Calm == TypeOK /\ HandshakeInv /\ (\A p \in Node : Task(p)) /\ FewCalls

LEMMA NobodyStarted ==
  ASSUME NEW p \in Node, Task(p), \A d \in CallId : ~ Started(p, d)
  PROVE  role[p] # "initiator" /\ NotFinishing(p)
BY DEF Task, Attempting, Started, NotFinishing

LEMMA StaysParts ==
  ASSUME NEW r \in Node, Stays(r), replaced' = replaced
  PROVE  /\ NoAnswers(r)' <=> NoAnswers(r)
         /\ NotFinishing(r)' <=> NotFinishing(r)
         /\ Sent(r)' <=> Sent(r)
         /\ Over(r)' <=> Over(r)
         /\ Responds(r)' <=> Responds(r)
         /\ role'[r] = role[r] /\ kex'[r] = kex[r] /\ crypto'[r] = crypto[r]
         /\ answered'[r] = answered[r] /\ step2'[r] = step2[r] /\ reply'[r] = reply[r]
         /\ waiter'[r] = waiter[r] /\ signal'[r] = signal[r] /\ pc'[r] = pc[r]
BY DEF Stays, Untouched, NoAnswers, NotFinishing, Sent, Over, Responds

\* The attempt of a new call is one that nobody answered.
LEMMA NewAttempt ==
  ASSUME TypeOK, NEW p \in Node, Knows(Other(p)), NEW c \in CallId, c = calls[p] + 1
  PROVE  answered[Other(p)] # <<p, c>>
<1>1. Other(p) \in Node /\ Other(Other(p)) = p
  BY OtherFacts
<1>2. SUFFICES ASSUME answered[Other(p)] = <<p, c>>  PROVE FALSE
  OBVIOUS
<1>3. <<p, c>> # None
  BY DEF None
<1>4. answered[Other(p)][2] <= calls[Other(Other(p))]
  BY <1>2, <1>3 DEF Knows
<1>5. c <= calls[p] /\ calls[p] \in Nat
  BY <1>1, <1>2, <1>4, TypeFunctions
<1>6. QED  BY <1>5

LEMMA BeginOpen ==
  ASSUME Calm, Open, NEW p \in Node, Begin(p), role[p] # "responder",
         \A d \in CallId : ~ Started(p, d)
  PROVE  Open'
<1> DEFINE q == Other(p)
<1>0. PICK c \in CallId :
        /\ pc[p][c] = "idle" /\ Moves(p, c, "begun")
        /\ role'[p] = "initiator" /\ kex'[p] = <<p, c>> /\ answered'[p] = None
        /\ SameChannel(p) /\ c = calls[p] + 1 /\ calls[p] < CallsLeft
        /\ wire' = wire /\ replaced' = replaced
        /\ \A r \in Node : r # p => Stays(r)
  BY BeginEffect DEF Calm
<1>1. q \in Node /\ q # p /\ Other(q) = p /\ Stays(q) /\ \A r \in Node : r = p \/ r = q
  BY <1>0, OtherFacts
<1>2. role[p] # "initiator" /\ NotFinishing(p)
  BY NobodyStarted DEF Calm
<1>3. /\ NoAnswers(q)' <=> NoAnswers(q)
      /\ NotFinishing(q)' <=> NotFinishing(q)
      /\ Sent(q)' <=> Sent(q)
      /\ Over(q)' <=> Over(q)
      /\ role'[q] = role[q] /\ kex'[q] = kex[q] /\ crypto'[q] = crypto[q]
      /\ answered'[q] = answered[q]
  BY <1>0, <1>1, StaysParts
<1>4. Unanswered(p) /\ Unanswered(q)
  BY <1>1 DEF Open
<1>5. answered[q] # <<p, c>>
  BY <1>0, <1>1, NewAttempt DEF Calm, Task
<1>6. ~ Over(p)
  <2>1. ASSUME Over(p)  PROVE FALSE
    <3>1. replaced \in Nat /\ replaced > 0 /\ calls[p] > 0 /\ calls[p] \in Nat
      BY <2>1, TypeFunctions DEF Over, Calm, HandshakeInv, Shape, CountShape
    <3>2. CallsLeft = 1
      BY <3>1 DEF CallsLeft, CallsInTrouble
    <3>3. QED  BY <1>0, <3>1, <3>2
  <2>2. QED  BY <2>1
<1>7. kex[q] # None \/ role[q] # "initiator"
  BY <1>1, TypeParts DEF Calm, SessionTypes
<1> HIDE DEF q
<1>8. OpenWire(p)'
  <2>1. /\ \A i \in 1 .. Len(wire[p]) : wire[p][i].step = 2 /\ Over(q)
        /\ Before(wire[p], 2) /\ (replaced = 0 => Len(wire[p]) <= 1)
    BY <1>2, <1>4 DEF Unanswered, OpenWire, q
  <2>2. ~ Sent(p)'
    BY <1>0 DEF Sent, Moves
  <2>3. \A i \in 1 .. Len(wire'[p]) :
          \/ wire'[p][i] = Step1(kex'[p]) /\ role'[p] = "initiator" /\ Sent(p)'
          \/ wire'[p][i].step = 2 /\ Over(q)'
    BY <1>0, <1>3, <2>1
  <2>4. Before(wire[p], 2)' /\ (replaced' = 0 => Len(wire'[p]) <= 1)
    BY <1>0, <2>1 DEF Before
  <2>5. role'[p] = "initiator" =>
               /\ answered'[q] # kex'[p]
               /\ Sent(p)' /\ ~ Has(wire[p], 1)' => role'[q] = "initiator" /\ q = First
    BY <1>0, <1>3, <1>5, <2>2
  <2>6. QED  BY <2>3, <2>4, <2>5 DEF OpenWire, q
<1>9. OpenWire(q)'
  <2>1. /\ \A i \in 1 .. Len(wire[q]) :
             \/ wire[q][i] = Step1(kex[q]) /\ role[q] = "initiator" /\ Sent(q)
             \/ wire[q][i].step = 2 /\ Over(p)
        /\ Before(wire[q], 2) /\ (replaced = 0 => Len(wire[q]) <= 1)
        /\ role[q] = "initiator" =>
               /\ answered[p] # kex[q]
               /\ Sent(q) /\ ~ Has(wire[q], 1) => role[p] = "initiator" /\ p = First
    BY <1>1, <1>4 DEF Unanswered, OpenWire
  <2>3. \A i \in 1 .. Len(wire'[q]) :
             \/ wire'[q][i] = Step1(kex'[q]) /\ role'[q] = "initiator" /\ Sent(q)'
             \/ wire'[q][i].step = 2 /\ Over(p)'
    BY <1>0, <1>3, <1>6, <2>1
  <2>4. Before(wire[q], 2)' /\ (replaced' = 0 => Len(wire'[q]) <= 1)
    BY <1>0, <2>1 DEF Before
  <2>5. role'[q] = "initiator" =>
               /\ answered'[p] # kex'[q]
               /\ Sent(q)' /\ ~ Has(wire[q], 1)' => role'[p] = "initiator" /\ p = First
    BY <1>0, <1>2, <1>3, <1>7, <2>1 DEF Has
  <2>6. QED  BY <1>1, <2>3, <2>4, <2>5 DEF OpenWire
<1>10. Unanswered(p)'
  <2>1. NoAnswers(p)' /\ NotFinishing(p)'
    BY <1>0, <1>2, <1>4 DEF Unanswered, NoAnswers, NotFinishing, Moves, SameChannel
  <2>2. QED  BY <1>0, <1>8, <2>1 DEF Unanswered
<1>11. Unanswered(q)'
  BY <1>3, <1>4, <1>9 DEF Unanswered
<1>12. Agree'
  BY <1>0 DEF Agree
<1>13. QED  BY <1>1, <1>10, <1>11, <1>12 DEF Open

LEMMA BeginFinishing ==
  ASSUME Calm, NEW p \in Node, Finishing(p), Begin(p), role[p] # "responder",
         \A d \in CallId : ~ Started(p, d)
  PROVE  Finishing(p)'
<1> DEFINE q == Other(p)
<1>0. PICK c \in CallId :
        /\ pc[p][c] = "idle" /\ Moves(p, c, "begun")
        /\ role'[p] = "initiator" /\ kex'[p] = <<p, c>> /\ answered'[p] = None
        /\ SameChannel(p) /\ c = calls[p] + 1 /\ calls[p] < CallsLeft
        /\ wire' = wire /\ replaced' = replaced
        /\ \A r \in Node : r # p => Stays(r)
  BY BeginEffect DEF Calm
<1>1. q \in Node /\ q # p /\ Other(q) = p /\ Stays(q)
  BY <1>0, OtherFacts
<1>2. role[p] # "initiator" /\ NotFinishing(p)
  BY NobodyStarted DEF Calm
<1>3. /\ Responds(q)' <=> Responds(q)
      /\ answered'[q] = answered[q] /\ step2'[q] = step2[q] /\ reply'[q] = reply[q]
  BY <1>0, <1>1, StaysParts
<1>5. answered[q] # <<p, c>>
  BY <1>0, <1>1, NewAttempt DEF Calm, Task
<1>6. /\ Responds(q) /\ answered[q] # None /\ NoAnswers(p)
      /\ Unsent(p, answered[q]) \/ FinishSent(p, answered[q])
      /\ Only(wire[q], step2[q])
      /\ replaced = 0 => wire[q] = <<>> /\ reply[q] = None
  BY DEF Finishing
<1>7. replaced = 0
  <2>1. answered[q][2] >= 1 /\ answered[q][2] \in Nat /\ answered[q][2] <= calls[p]
    BY <1>1, <1>6, AnsweredFacts DEF Calm, Task, Knows
  <2>2. calls[p] \in Nat /\ calls[p] >= 1
    BY <2>1, TypeFunctions DEF Calm
  <2>3. CallsLeft # 1
    BY <1>0, <2>2
  <2>4. QED  BY <2>3 DEF CallsLeft, CallsInTrouble
<1> HIDE DEF q
<1>8. ~ Sent(p)'
  BY <1>0 DEF Sent, Moves
<1>9. FinishSent(p, answered[q])'
  <2>1. PICK k \in 1 .. Len(wire[p]) : FinishAt(p, answered[q], k)
    BY <1>2, <1>6 DEF Unsent, NotFinishing, FinishSent
  <2>2. /\ wire[p][k] = Step3
        /\ \A i \in 1 .. k - 1 : wire[p][i] = Step1(answered[q])
        /\ \A i \in k + 1 .. Len(wire[p]) : role[p] = "initiator"
        /\ replaced = 0 => k = 1 /\ Len(wire[p]) <= 2
    BY <2>1 DEF FinishAt
  <2>3. \A i \in k + 1 .. Len(wire'[p]) :
          wire'[p][i] = Step1(kex'[p]) /\ role'[p] = "initiator" /\ Sent(p)'
    BY <1>0, <1>2, <2>2
  <2>4. FinishAt(p, answered[q], k)'
    BY <1>0, <1>3, <1>8, <2>2, <2>3 DEF FinishAt
  <2>5. NotFinishing(p)'
    BY <1>0, <1>2 DEF NotFinishing, Moves
  <2>6. QED  BY <1>0, <2>4, <2>5 DEF FinishSent
<1>10. NoAnswers(p)'
  BY <1>0, <1>6 DEF NoAnswers, SameChannel
<1>11. Only(wire[q], step2[q])'
  BY <1>0, <1>3, <1>6 DEF Only
<1>12. QED
  BY <1>0, <1>3, <1>5, <1>6, <1>7, <1>9, <1>10, <1>11 DEF Finishing, q

LEMMA BeginPhase ==
  ASSUME Calm, Phase, NEW p \in Node, Begin(p), role[p] # "responder",
         \A d \in CallId : ~ Started(p, d)
  PROVE  Phase'
<1>1. role[p] # "initiator"
  BY NobodyStarted DEF Calm
<1>2. ASSUME NEW r \in Node, Answering(r)  PROVE FALSE
  BY <1>1, <1>2, OtherFacts DEF Answering, Responds
<1>3. ASSUME NEW r \in Node, Finishing(r)  PROVE r = p
  BY <1>3, OtherFacts DEF Finishing, Responds
<1>4. QED  BY <1>2, <1>3, BeginOpen, BeginFinishing DEF Phase

-----------------------------------------------------------------------------
(* The dial task sends and takes the answer *)

LEMMA SendStep1Open ==
  ASSUME Calm, Open, NEW p \in Node, NEW c \in CallId, SendStep1(p, c)
  PROVE  Open'
<1> DEFINE q == Other(p)
<1>0. /\ pc[p][c] = "registered" /\ Moves(p, c, "waiting")
      /\ wire'[p] = Append(wire[p], Step1(<<p, c>>))
      /\ \A r \in Node : r # p => wire'[r] = wire[r]
      /\ SameSession(p) /\ SameChannel(p) /\ replaced' = replaced
      /\ \A r \in Node : r # p => Stays(r)
  <2>1. pc[p][c] = "registered"
    BY DEF SendStep1
  <2>2. QED  BY <2>1, SendEffect DEF Calm
<1>1. q \in Node /\ q # p /\ Other(q) = p /\ Stays(q) /\ \A r \in Node : r = p \/ r = q
  BY <1>0, OtherFacts
<1>2. role[p] = "initiator" /\ kex[p] = <<p, c>>
  BY <1>0 DEF Calm, Task, Opens, Owns
<1>3. /\ NoAnswers(q)' <=> NoAnswers(q)
      /\ NotFinishing(q)' <=> NotFinishing(q)
      /\ Sent(q)' <=> Sent(q)
      /\ Over(q)' <=> Over(q)
      /\ role'[q] = role[q] /\ kex'[q] = kex[q] /\ crypto'[q] = crypto[q]
      /\ answered'[q] = answered[q]
  BY <1>0, <1>1, StaysParts
<1>4. Unanswered(p) /\ Unanswered(q)
  BY <1>1 DEF Open
<1>5. wire[p] \in Seq(Frame) /\ wire'[q] = wire[q]
  BY <1>0, <1>1, TypeFunctions DEF Calm
<1>6. ~ Sent(p) /\ ~ Over(p) /\ ~ Over(p)'
  BY <1>0, <1>2 DEF Sent, Over, SameSession
<1> HIDE DEF q
<1>8. OpenWire(p)'
  <2> DEFINE s == wire[p]
             f == Step1(kex[p])
  <2>1. /\ \A i \in 1 .. Len(s) : s[i].step = 2 /\ Over(q)
        /\ Before(s, 2) /\ answered[q] # kex[p]
    BY <1>2, <1>4, <1>6 DEF Unanswered, OpenWire, q
  <2>2. Sent(p)'
    BY <1>0, <1>2 DEF Sent, Moves, SameSession
  <2>3. s \in Seq(Frame) /\ wire'[p] = Append(s, f)
    BY <1>0, <1>2, <1>5
  <2>4. f.step = 1 /\ f = Step1(kex'[p]) /\ role'[p] = "initiator"
    BY <1>0, <1>2 DEF Step1, SameSession
  <2> HIDE DEF s, f
  <2>5. \A i \in 1 .. Len(Append(s, f)) :
          \/ Append(s, f)[i] = Step1(kex'[p]) /\ role'[p] = "initiator" /\ Sent(p)'
          \/ Append(s, f)[i].step = 2 /\ Over(q)'
    BY <1>3, <2>1, <2>2, <2>3, <2>4, AppendFacts
  <2>6. Before(Append(s, f), 2)
    BY <2>1, <2>3, <2>4, BeforeAppend
  <2>7. replaced = 0 => Len(s) = 0
    <3>1. replaced = 0 => ~ Over(q)
      BY DEF Over
    <3>2. Len(s) \in Nat
      BY <2>3
    <3>3. ~ Over(q) => 1 \notin 1 .. Len(s)
      BY <2>1
    <3>4. QED  BY <3>1, <3>2, <3>3
  <2>8. replaced = 0 => Len(Append(s, f)) <= 1
    BY <2>3, <2>7, AppendFacts
  <2>9. Has(Append(s, f), 1)
    BY <2>3, <2>4, HasAppend
  <2>10. Before(wire[p], 2)' /\ Has(wire[p], 1)'
    BY <2>3, <2>6, <2>9 DEF Before, Has
  <2>11. answered'[q] # kex'[p]
    BY <1>0, <1>3, <2>1 DEF SameSession
  <2>12. /\ \A i \in 1 .. Len(wire'[p]) :
              \/ wire'[p][i] = Step1(kex'[p]) /\ role'[p] = "initiator" /\ Sent(p)'
              \/ wire'[p][i].step = 2 /\ Over(q)'
         /\ replaced' = 0 => Len(wire'[p]) <= 1
    BY <1>0, <2>3, <2>5, <2>8
  <2>13. QED  BY <2>10, <2>11, <2>12 DEF OpenWire, q
<1>9. OpenWire(q)'
  <2>1. /\ \A i \in 1 .. Len(wire[q]) :
             \/ wire[q][i] = Step1(kex[q]) /\ role[q] = "initiator" /\ Sent(q)
             \/ wire[q][i].step = 2 /\ Over(p)
        /\ Before(wire[q], 2) /\ (replaced = 0 => Len(wire[q]) <= 1)
        /\ role[q] = "initiator" =>
               /\ answered[p] # kex[q]
               /\ Sent(q) /\ ~ Has(wire[q], 1) => role[p] = "initiator" /\ p = First
    BY <1>1, <1>4 DEF Unanswered, OpenWire
  <2>3. \A i \in 1 .. Len(wire'[q]) :
             \/ wire'[q][i] = Step1(kex'[q]) /\ role'[q] = "initiator" /\ Sent(q)'
             \/ wire'[q][i].step = 2 /\ Over(p)'
    BY <1>3, <1>5, <1>6, <2>1
  <2>4. Before(wire[q], 2)' /\ (replaced' = 0 => Len(wire'[q]) <= 1)
    BY <1>0, <1>5, <2>1 DEF Before
  <2>5. role'[q] = "initiator" =>
               /\ answered'[p] # kex'[q]
               /\ Sent(q)' /\ ~ Has(wire[q], 1)' => role'[p] = "initiator" /\ p = First
    BY <1>0, <1>3, <1>5, <2>1 DEF Has, SameSession
  <2>6. QED  BY <1>1, <2>3, <2>4, <2>5 DEF OpenWire
<1>10. Unanswered(p)'
  <2>1. NoAnswers(p)' /\ NotFinishing(p)'
    BY <1>0, <1>4 DEF Unanswered, NoAnswers, NotFinishing, Moves, SameChannel
  <2>2. QED  BY <1>0, <1>2, <1>8, <2>1 DEF Unanswered, SameSession
<1>11. Unanswered(q)'
  BY <1>3, <1>4, <1>9 DEF Unanswered
<1>12. Agree'
  BY <1>0, <1>2 DEF Agree, SameSession
<1>13. QED  BY <1>1, <1>10, <1>11, <1>12 DEF Open

LEMMA SendStep1Finishing ==
  ASSUME Calm, NEW p \in Node, Finishing(p), NEW c \in CallId, SendStep1(p, c)
  PROVE  Finishing(p)'
<1> DEFINE q == Other(p)
<1>0. /\ pc[p][c] = "registered" /\ Moves(p, c, "waiting")
      /\ wire'[p] = Append(wire[p], Step1(<<p, c>>))
      /\ \A r \in Node : r # p => wire'[r] = wire[r]
      /\ SameSession(p) /\ SameChannel(p) /\ replaced' = replaced
      /\ \A r \in Node : r # p => Stays(r)
  <2>1. pc[p][c] = "registered"
    BY DEF SendStep1
  <2>2. QED  BY <2>1, SendEffect DEF Calm
<1>1. q \in Node /\ q # p /\ Other(q) = p /\ Stays(q)
  BY <1>0, OtherFacts
<1>2. role[p] = "initiator" /\ kex[p] = <<p, c>>
  BY <1>0 DEF Calm, Task, Opens, Owns
<1>3. /\ Responds(q)' <=> Responds(q)
      /\ answered'[q] = answered[q] /\ step2'[q] = step2[q] /\ reply'[q] = reply[q]
      /\ crypto'[q] = crypto[q] /\ wire'[q] = wire[q]
  BY <1>0, <1>1, StaysParts
<1>6. /\ Responds(q) /\ answered[q] # None /\ answered[q] # kex[p] /\ NoAnswers(p)
      /\ Unsent(p, answered[q]) \/ FinishSent(p, answered[q])
      /\ Only(wire[q], step2[q])
      /\ replaced = 0 => wire[q] = <<>> /\ reply[q] = None
      /\ replaced = 0
  BY <1>2 DEF Finishing
<1> HIDE DEF q
<1>7. ~ Sent(p) /\ Sent(p)'
  BY <1>0, <1>2 DEF Sent, Moves, SameSession
<1>9. FinishSent(p, answered[q])'
  <2> DEFINE s == wire[p]
             f == Step1(kex[p])
  <2>1. NotFinishing(p)
    BY <1>2 DEF Calm, Task, Concludes, NotFinishing
  <2>2. PICK k \in 1 .. Len(s) : FinishAt(p, answered[q], k)
    BY <1>6, <2>1 DEF Unsent, NotFinishing, FinishSent
  <2>3. /\ s[k] = Step3
        /\ \A i \in 1 .. k - 1 : s[i] = Step1(answered[q])
        /\ \A i \in k + 1 .. Len(s) : Sent(p)
        /\ k = 1
    BY <1>6, <2>2 DEF FinishAt
  <2>4. s \in Seq(Frame) /\ wire'[p] = Append(s, f) /\ f = Step1(kex'[p])
    BY <1>0, <1>2, TypeFunctions DEF Calm, SameSession
  <2>5. role'[p] = "initiator"
    BY <1>0, <1>2 DEF SameSession
  <2> HIDE DEF s, f
  <2>6. Len(s) = k
    <3>1. Len(s) \in Nat /\ k \in 1 .. Len(s)
      BY <2>4
    <3>2. Len(s) \notin k + 1 .. Len(s)
      BY <1>7, <2>3
    <3>3. QED  BY <3>1, <3>2
  <2>7. /\ Append(s, f)[k] = Step3 /\ Len(Append(s, f)) = k + 1
        /\ Append(s, f)[k + 1] = f
        /\ k \in 1 .. Len(Append(s, f))
    <3>1. /\ Len(s) \in Nat /\ Len(Append(s, f)) = Len(s) + 1
          /\ \A i \in 1 .. Len(s) : Append(s, f)[i] = s[i]
          /\ Append(s, f)[Len(s) + 1] = f
      BY <2>4, AppendFacts
    <3>2. k \in 1 .. Len(s)
      BY <2>6, <3>1, <2>3
    <3>3. QED  BY <2>3, <2>6, <3>1, <3>2
  <2>8. FinishAt(p, answered[q], k)'
    <3>1. wire'[p][k] = Step3 /\ Len(wire'[p]) = 2 /\ \A i \in 1 .. k - 1 : FALSE
      BY <2>3, <2>4, <2>7
    <3>2. \A i \in k + 1 .. Len(wire'[p]) :
            wire'[p][i] = Step1(kex'[p]) /\ role'[p] = "initiator" /\ Sent(p)'
      <4> TAKE i \in k + 1 .. Len(wire'[p])
      <4>1. i = k + 1
        BY <2>4, <2>7
      <4>2. QED  BY <1>7, <2>4, <2>5, <2>7, <4>1
    <3>3. QED  BY <2>3, <3>1, <3>2 DEF FinishAt
  <2>9. NotFinishing(p)'
    BY <1>0, <2>1 DEF NotFinishing, Moves
  <2>10. QED  BY <2>4, <2>7, <2>8, <2>9 DEF FinishSent
<1>10. NoAnswers(p)'
  BY <1>0, <1>6 DEF NoAnswers, SameChannel
<1>11. Only(wire[q], step2[q])'
  BY <1>3, <1>6 DEF Only
<1>12. role'[p] = "initiator" /\ kex'[p] = kex[p]
  BY <1>0, <1>2 DEF SameSession
<1>13. QED
  BY <1>0, <1>3, <1>6, <1>9, <1>10, <1>11, <1>12 DEF Finishing, q

LEMMA SendStep1Phase ==
  ASSUME Calm, Phase, NEW p \in Node, NEW c \in CallId, SendStep1(p, c)
  PROVE  Phase'
<1>1. role[p] = "initiator" /\ kex[p] = <<p, c>> /\ pc[p][c] = "registered"
  BY DEF SendStep1, Calm, Task, Opens, Owns
<1>2. ASSUME NEW r \in Node, Answering(r)  PROVE FALSE
  <2>1. r = p
    BY <1>1, <1>2, OtherFacts DEF Answering, Responds
  <2>2. QED  BY <1>1, <1>2, <2>1 DEF Answering, Sent
<1>3. ASSUME NEW r \in Node, Finishing(r)  PROVE r = p
  BY <1>1, <1>3, OtherFacts DEF Finishing, Responds
<1>4. QED  BY <1>2, <1>3, SendStep1Open, SendStep1Finishing DEF Phase

LEMMA SendStep3Phase ==
  ASSUME Calm, Phase, NEW p \in Node, NEW c \in CallId, SendStep3(p, c)
  PROVE  Phase'
<1> DEFINE q == Other(p)
<1>0. /\ pc[p][c] = "finishing" /\ Moves(p, c, "announcing")
      /\ wire'[p] = Append(wire[p], Step3)
      /\ \A r \in Node : r # p => wire'[r] = wire[r]
      /\ SameSession(p) /\ SameChannel(p) /\ replaced' = replaced
      /\ \A r \in Node : r # p => Stays(r)
  <2>1. pc[p][c] = "finishing"
    BY DEF SendStep3
  <2>2. QED  BY <2>1, SendEffect DEF Calm
<1>1. q \in Node /\ q # p /\ Other(q) = p /\ Stays(q) /\ \A r \in Node : r = p \/ r = q
  BY <1>0, OtherFacts
<1>2. role[p] = "none"
  BY <1>0 DEF Calm, Task, Concludes
<1>3. /\ Responds(q)' <=> Responds(q)
      /\ answered'[q] = answered[q] /\ step2'[q] = step2[q] /\ reply'[q] = reply[q]
      /\ crypto'[q] = crypto[q] /\ wire'[q] = wire[q]
  BY <1>0, <1>1, StaysParts
<1>4. ~ NotFinishing(p)
  BY <1>0 DEF NotFinishing
<1>5. Finishing(p)
  <2>1. ~ Open
    BY <1>4 DEF Open, Unanswered
  <2>2. ASSUME NEW r \in Node, Answering(r)  PROVE FALSE
    BY <1>1, <1>2, <1>4, <2>2, OtherFacts DEF Answering, Responds
  <2>3. ASSUME NEW r \in Node, Finishing(r)  PROVE r = p
    BY <1>2, <2>3, OtherFacts DEF Finishing, Responds
  <2>4. QED  BY <2>1, <2>2, <2>3 DEF Phase
<1>6. /\ Responds(q) /\ answered[q] # None /\ answered[q] # kex[p] /\ NoAnswers(p)
      /\ Only(wire[p], Step1(answered[q])) /\ (replaced = 0 => wire[p] = <<>>)
      /\ Only(wire[q], step2[q])
      /\ replaced = 0 => wire[q] = <<>> /\ reply[q] = None
      /\ crypto[p] = SasPending(crypto[q].key) /\ waiter[p] = NoCall
  BY <1>2, <1>4, <1>5 DEF Finishing, Unsent, FinishSent
<1> HIDE DEF q
<1>7. FinishSent(p, answered[q])'
  <2> DEFINE s == wire[p]
             k == Len(s) + 1
  <2>1. s \in Seq(Frame) /\ wire'[p] = Append(s, Step3)
    BY <1>0, TypeFunctions DEF Calm
  <2>2. Only(s, Step1(answered[q])) /\ (replaced = 0 => s = <<>>)
    BY <1>6
  <2> HIDE DEF s
  <2>3. /\ Append(s, Step3)[k] = Step3 /\ Len(Append(s, Step3)) = k
        /\ k \in 1 .. Len(Append(s, Step3)) /\ (replaced = 0 => k = 1)
        /\ \A i \in 1 .. k - 1 : Append(s, Step3)[i] = Step1(answered[q])
        /\ \A i \in k + 1 .. Len(Append(s, Step3)) : FALSE
    BY <2>1, <2>2, AppendFacts DEF Only
  <2>4. role'[p] # "initiator"
    BY <1>0, <1>2 DEF SameSession
  <2> HIDE DEF k
  <2>a. PICK n : n = k
    OBVIOUS
  <2>5. n \in 1 .. Len(wire'[p])
    BY <2>a, <2>1, <2>3
  <2>6. FinishAt(p, answered[q], n)'
    BY <1>0, <1>3, <2>a, <2>1, <2>3, <2>4 DEF FinishAt
  <2>7. NotFinishing(p)'
    <3>1. \A d \in CallId : d # c => ~ Started(p, d)
      BY <1>0 DEF Calm, Task, OneTask, Started
    <3>2. QED  BY <1>0, <3>1 DEF NotFinishing, Moves, Started
  <2>8. QED  BY <2>5, <2>6, <2>7 DEF FinishSent
<1>10. NoAnswers(p)'
  BY <1>0, <1>6 DEF NoAnswers, SameChannel
<1>11. Only(wire[q], step2[q])'
  BY <1>3, <1>6 DEF Only
<1>12. /\ role'[p] = "none" /\ kex'[p] = kex[p] /\ crypto'[p] = crypto[p]
       /\ waiter'[p] = waiter[p]
  BY <1>0, <1>2 DEF SameSession, SameChannel
<1>13. Finishing(p)'
  BY <1>0, <1>3, <1>6, <1>7, <1>10, <1>11, <1>12 DEF Finishing, q
<1>14. QED  BY <1>13 DEF Phase

LEMMA ProcessPhase ==
  ASSUME Calm, Phase, NEW p \in Node, NEW c \in CallId, ProcessStep2(p, c)
  PROVE  Phase'
<1> DEFINE q == Other(p)
<1>1. role[p] = "initiator" /\ kex[p] = <<p, c>> /\ waiter[p] = NoCall
  BY ProcessOwns DEF Owns, Calm
<1>0. /\ pc[p][c] = "waiting" /\ signal[p][c] \in Step2Type /\ Moves(p, c, "finishing")
      /\ role'[p] = "none" /\ kex'[p] = None
      /\ crypto'[p] = SasPending(Key(kex[p], signal[p][c]))
      /\ waiter'[p] = waiter[p] /\ signal'[p][c] = None
      /\ \A d \in CallId : d # c => signal'[p][d] = signal[p][d]
      /\ wire' = wire /\ replaced' = replaced
      /\ \A r \in Node : r # p => Stays(r)
  BY <1>1, ProcessEffect DEF Calm
<1>2. q \in Node /\ q # p /\ Other(q) = p /\ Stays(q)
  BY <1>0, OtherFacts
<1>3. /\ Responds(q)' <=> Responds(q)
      /\ answered'[q] = answered[q] /\ step2'[q] = step2[q] /\ reply'[q] = reply[q]
      /\ crypto'[q] = crypto[q]
  BY <1>0, <1>2, StaysParts
<1>4. ~ NoAnswers(p)
  BY <1>0, FrameTypes DEF NoAnswers
<1>5. Answering(p)
  <2>1. ~ Open
    BY <1>4 DEF Open, Unanswered
  <2>2. ASSUME NEW r \in Node, Finishing(r)  PROVE FALSE
    BY <1>1, <1>4, <2>2, OtherFacts DEF Finishing, Responds
  <2>3. ASSUME NEW r \in Node, Answering(r)  PROVE r = p
    BY <1>1, <2>3, OtherFacts DEF Answering, Responds
  <2>4. QED  BY <2>1, <2>2, <2>3 DEF Phase
<1>6. /\ Responds(q) /\ answered[q] = kex[p] /\ Only(wire[p], Step1(kex[p]))
      /\ \A i \in 1 .. Len(wire[q]) :
           (wire[q][i].step = 1 /\ p = First) \/ wire[q][i] = step2[q]
      /\ AnswerDue(p, q, c)
  BY <1>1, <1>5 DEF Answering
<1> HIDE DEF q
<1>7. signal[p][c] = step2[q] /\ signal[p][c] # None
  BY <1>0, <1>6, FrameTypes DEF AnswerDue
<1>8. /\ ~ Has(wire[q], 1) /\ Only(wire[q], step2[q])
      /\ replaced = 0 => wire[p] = <<>> /\ wire[q] = <<>> /\ reply[q] = None
  <2>1. ~ Has(wire[q], 1)
    BY <1>6, <1>7 DEF AnswerDue
  <2>2. Only(wire[q], step2[q])
    BY <1>6, <2>1 DEF Only, Has
  <2>3. ASSUME replaced = 0  PROVE wire[p] = <<>> /\ wire[q] = <<>> /\ reply[q] = None
    <3>1. /\ wire[p] = <<>> /\ (reply[q] # None => signal[p][c] = None)
          /\ \A i \in 1 .. Len(wire[q]) : wire[q][i].step = 2 => signal[p][c] = None
      BY <1>6, <2>3 DEF AnswerDue
    <3>2. \A i \in 1 .. Len(wire[q]) : wire[q][i].step = 2
      BY <1>0, <1>7, <2>2, FrameTypes DEF Only
    <3>3. wire[q] \in Seq(Frame) /\ \A i \in 1 .. Len(wire[q]) : FALSE
      BY <1>2, <1>7, <3>1, <3>2, TypeFunctions DEF Calm
    <3>4. QED  BY <1>7, <3>1, <3>3
  <2>4. QED  BY <2>1, <2>2, <2>3
<1>9. crypto'[p] = SasPending(crypto'[q].key)
  BY <1>0, <1>3, <1>6, <1>7 DEF Responds, Handshaking
<1>10. NoAnswers(p)'
  <2>1. \A d \in CallId : signal[p][d] # None => pc[p][d] = "waiting"
    BY SignalTask DEF Calm
  <2>2. \A d \in CallId : d # c => signal[p][d] = None
    BY <1>0, <2>1 DEF Calm, Task, OneTask, Started
  <2>3. QED  BY <1>0, <2>2 DEF NoAnswers
<1>11. Unsent(p, answered[q])'
  <2>1. pc'[p][c] = "finishing"
    BY <1>0 DEF Moves
  <2>2. Only(wire[p], Step1(answered[q]))'
    BY <1>0, <1>3, <1>6 DEF Only
  <2>3. QED  BY <1>0, <1>8, <2>1, <2>2 DEF Unsent
<1>12. Only(wire[q], step2[q])'
  BY <1>0, <1>3, <1>8 DEF Only
<1>13. answered[q] # None
  BY <1>1, <1>6 DEF None
<1>14. Finishing(p)'
  BY <1>0, <1>1, <1>3, <1>6, <1>8, <1>9, <1>10, <1>11, <1>12, <1>13 DEF Finishing, q
<1>15. QED  BY <1>14 DEF Phase

\* A timer runs out only while something is under way, that is hastily.
LEMMA NoTimeout ==
  ASSUME Calm, Phase, Quiet, NEW p \in Node, NEW c \in CallId,
         pc[p][c] = "waiting", signal[p][c] = None
  PROVE  FALSE
<1> DEFINE q == Other(p)
<1>1. q \in Node /\ q # p /\ Other(q) = p /\ \A r \in Node : r = p \/ r = q
  BY OtherFacts
<1>2. \A r \in Node : /\ wire[r] = <<>> /\ reply[r] = None
                      /\ \A d \in CallId : signal[r][d] = None
                      /\ \A d \in CallId : pc[r][d] \notin {"begun", "registered", "finishing"}
  BY DEF Quiet, Awaits
<1>3. Owns(p, c)
  BY <1>2, FrameFacts DEF Calm, Task, Pends, Yielding
<1>4. \A r \in Node : ~ Has(wire[r], 1) /\ ~ Has(wire[r], 2) /\ Len(wire[r]) = 0
  BY <1>2 DEF Has
<1>5. \A r \in Node : role[r] = "initiator" => Sent(r)
  <2> SUFFICES ASSUME NEW r \in Node, role[r] = "initiator"  PROVE Sent(r)
    OBVIOUS
  <2>1. PICK d \in CallId : kex[r] = <<r, d>> /\ pc[r][d] \in {"begun", "registered", "waiting"}
    BY DEF Calm, Task, Attempting
  <2>2. QED  BY <1>2, <2>1 DEF Sent
<1> HIDE DEF q
<1>6. CASE Open
  <2>1. role[q] = "initiator" /\ q = First
    BY <1>1, <1>3, <1>4, <1>5, <1>6 DEF Open, Unanswered, OpenWire, Owns, q
  <2>2. p = First
    BY <1>1, <1>4, <1>5, <1>6, <2>1 DEF Open, Unanswered, OpenWire
  <2>3. QED  BY <1>1, <2>1, <2>2
<1>7. ASSUME NEW r \in Node, Answering(r)  PROVE FALSE
  <2>1. PICK d \in CallId : kex[r] = <<r, d>>
    BY <1>7 DEF Answering, Calm, Task, Attempting
  <2>2. AnswerDue(r, Other(r), d)
    BY <1>7, <2>1 DEF Answering
  <2>3. QED  BY <1>2, <1>4, <2>2, OtherFacts DEF AnswerDue
<1>8. ASSUME NEW r \in Node, Finishing(r)  PROVE FALSE
  BY <1>2, <1>4, <1>8 DEF Finishing, Unsent, FinishSent
<1>9. QED  BY <1>6, <1>7, <1>8 DEF Phase

-----------------------------------------------------------------------------
(* The read loop: step 1 *)

\* Of an attempt that is under way.
LEMMA AttemptKnown ==
  ASSUME Calm, NEW q \in Node, role[q] = "initiator"
  PROVE  /\ kex[q][1] = q /\ kex[q][2] <= calls[q]
         /\ kex[q] # None
<1>1. PICK c \in CallId : kex[q] = <<q, c>> /\ pc[q][c] \in {"begun", "registered", "waiting"}
  BY DEF Calm, Task, Attempting
<1>2. ~ (c > calls[q])
  BY <1>1 DEF Calm, HandshakeInv, Own, Fresh
<1>3. c \in Nat /\ calls[q] \in Nat
  BY CallFacts, TypeFunctions DEF Calm
<1>4. QED  BY <1>1, <1>2, <1>3 DEF None

\* The first frame of a sequence.
LEMMA FirstFrame ==
  ASSUME NEW p \in Node, NEW n, Takes(p, n)
  PROVE  /\ 1 \in 1 .. Len(wire[Other(p)])
         /\ Head(wire[Other(p)]) = wire[Other(p)][1] /\ wire[Other(p)][1].step = n
<1> DEFINE s == wire[Other(p)]
<1>1. s \in Seq(Frame) /\ s # <<>> /\ Head(s).step = n
  BY DEF Takes
<1> HIDE DEF s
<1>2. Len(s) \in Nat /\ Len(s) >= 1 /\ Head(s) = s[1]
  BY <1>1, TailFacts
<1>3. QED  BY <1>1, <1>2 DEF s

LEMMA Step1Facts ==
  ASSUME NEW a, NEW b
  PROVE  /\ Step1(a).step = 1 /\ Step1(a).attempt = a /\ Step1(a) # Step3
         /\ Step1(a) = Step1(b) => a = b
BY DEF Step1, Step3

LEMMA Step1Cases ==
  ASSUME Calm, Phase, NEW p \in Node, ReceiveStep1(p)
  PROVE  LET q == Other(p)
             a == Head(wire[q]).attempt
         IN \/ /\ Open /\ a = kex[q] /\ role[q] = "initiator" /\ Sent(q)
               /\ answered[p] # a /\ NoAnswers(p) /\ NotFinishing(p)
            \/ Answering(p) /\ p = First /\ StaysInitiator(p)
            \/ Answering(q) /\ answered[p] = a
            \/ Finishing(q) /\ answered[p] = a
<1> DEFINE q == Other(p)
           s == wire[q]
           a == Head(s).attempt
<1>1. Takes(p, 1) /\ q \in Node /\ Other(q) = p /\ \A r \in Node : r = p \/ r = q
  BY ReceiveStep1Effect, OtherFacts DEF Calm
<1>2. 1 \in 1 .. Len(s) /\ Head(s) = s[1] /\ s[1].step = 1 /\ s \in Seq(Frame)
  BY <1>1, FirstFrame DEF Takes
<1>3. CASE Open
  <2>1. Unanswered(p) /\ Unanswered(q)
    BY <1>1, <1>3 DEF Open
  <2>2. s[1] = Step1(kex[q]) /\ role[q] = "initiator" /\ Sent(q) /\ answered[p] # kex[q]
    BY <1>1, <1>2, <2>1 DEF Unanswered, OpenWire
  <2>3. a = kex[q]
    BY <1>2, <2>2, Step1Facts
  <2>4. QED  BY <1>3, <2>1, <2>2, <2>3 DEF Unanswered
<1>4. CASE Answering(p)
  <2>1. Responds(q) /\ role[p] = "initiator" /\
        ((s[1].step = 1 /\ p = First) \/ s[1] = step2[q])
    BY <1>2, <1>4 DEF Answering
  <2>2. step2[q].step = 2
    BY <1>1, <2>1, FrameTypes, TypeParts DEF Calm, Responds, SessionTypes
  <2>3. QED  BY <1>2, <1>4, <2>1, <2>2 DEF StaysInitiator
<1>5. CASE Answering(q)
  <2>1. answered[p] = kex[q] /\ s[1] = Step1(kex[q])
    BY <1>1, <1>2, <1>5 DEF Answering, Only
  <2>2. QED  BY <1>2, <1>5, <2>1, Step1Facts
<1>6. CASE Finishing(p)
  <2>1. Responds(q) /\ s[1] = step2[q]
    BY <1>2, <1>6 DEF Finishing, Only
  <2>2. step2[q].step = 2
    BY <1>1, <2>1, FrameTypes, TypeParts DEF Calm, Responds, SessionTypes
  <2>3. QED  BY <1>2, <2>1, <2>2
<1>7. CASE Finishing(q)
  <2>1. s[1] = Step1(answered[p])
    <3>1. CASE Unsent(q, answered[p])
      BY <1>2, <3>1 DEF Unsent, Only
    <3>2. CASE FinishSent(q, answered[p])
      <4>1. PICK k \in 1 .. Len(s) : FinishAt(q, answered[p], k)
        BY <3>2 DEF FinishSent
      <4>2. s[k] = Step3 /\ \A i \in 1 .. k - 1 : s[i] = Step1(answered[p])
        BY <4>1 DEF FinishAt
      <4>3. k # 1
        BY <1>2, <4>2 DEF Step3
      <4>4. 1 \in 1 .. k - 1
        BY <1>2, <4>3
      <4>5. QED  BY <4>2, <4>4
    <3>3. QED  BY <1>1, <1>7, <3>1, <3>2 DEF Finishing
  <2>2. QED  BY <1>2, <1>7, <2>1, Step1Facts
<1>8. QED  BY <1>1, <1>3, <1>4, <1>5, <1>6, <1>7 DEF Phase

LEMMA ReceiveStep1Keeps ==
  ASSUME Calm, Phase, NEW p \in Node, ReceiveStep1(p), ~ Starting(p)
  PROVE  Task(p)'
<1> DEFINE a == Head(wire[Other(p)]).attempt
<1>1. \/ answered[p] = a \/ StaysInitiator(p)
      \/ NoAnswers(p) /\ NotFinishing(p) /\ a = kex[Other(p)] /\ role[Other(p)] = "initiator"
  BY Step1Cases
<1>2. \/ answered[p] = a \/ StaysInitiator(p)
      \/ NoAnswers(p) /\ NotFinishing(p) /\ a[1] = Other(p) /\ a[2] <= calls[Other(p)]
  BY <1>1, AttemptKnown, OtherFacts
<1>3. QED  BY <1>2, ReceiveStep1Task DEF Calm

\* The one that stays initiator ignores the attempt of its peer.
LEMMA IgnoredOpen ==
  ASSUME Calm, Open, NEW p \in Node, ReceiveStep1(p), StaysInitiator(p),
         answered[p] # Head(wire[Other(p)]).attempt
  PROVE  Open'
<1> DEFINE q == Other(p)
           s == wire[q]
<1>0. /\ Takes(p, 1) /\ SameChannel(p) /\ pc'[p] = pc[p] /\ replaced' = replaced
      /\ SameSession(p) /\ \A r \in Node : r # p => Stays(r)
  BY ReceiveStep1Effect DEF Calm
<1>1. q \in Node /\ q # p /\ Other(q) = p /\ Stays(q) /\ \A r \in Node : r = p \/ r = q
  BY <1>0, OtherFacts
<1>2. role[p] = "initiator" /\ p = First
  BY DEF StaysInitiator
<1>3. /\ NoAnswers(q)' <=> NoAnswers(q)
      /\ NotFinishing(q)' <=> NotFinishing(q)
      /\ Sent(q)' <=> Sent(q)
      /\ Over(q)' <=> Over(q)
      /\ role'[q] = role[q] /\ kex'[q] = kex[q] /\ crypto'[q] = crypto[q]
      /\ answered'[q] = answered[q]
  BY <1>0, <1>1, StaysParts
<1>4. Unanswered(p) /\ Unanswered(q)
  BY <1>1 DEF Open
<1>5. /\ role'[p] = role[p] /\ kex'[p] = kex[p] /\ answered'[p] = answered[p]
      /\ NoAnswers(p)' /\ NotFinishing(p)' /\ (Sent(p)' <=> Sent(p))
      /\ ~ Over(p)
  BY <1>0, <1>2, <1>4 DEF SameSession, SameChannel, Unanswered, NoAnswers, NotFinishing, Sent,
                         Over
<1>6. s \in Seq(Frame) /\ s # <<>> /\ wire'[q] = Tail(s) /\ wire'[p] = wire[p]
  BY <1>0 DEF Takes
<1> HIDE DEF q
<1>8. OpenWire(p)'
  <2>1. /\ \A i \in 1 .. Len(wire[p]) :
             \/ wire[p][i] = Step1(kex[p]) /\ role[p] = "initiator" /\ Sent(p)
             \/ wire[p][i].step = 2 /\ Over(q)
        /\ Before(wire[p], 2) /\ (replaced = 0 => Len(wire[p]) <= 1)
        /\ answered[q] # kex[p]
        /\ Sent(p) /\ ~ Has(wire[p], 1) => role[q] = "initiator" /\ q = First
    BY <1>2, <1>4 DEF Unanswered, OpenWire, q
  <2>2. \A i \in 1 .. Len(wire'[p]) :
             \/ wire'[p][i] = Step1(kex'[p]) /\ role'[p] = "initiator" /\ Sent(p)'
             \/ wire'[p][i].step = 2 /\ Over(q)'
    BY <1>3, <1>5, <1>6, <2>1
  <2>3. Before(wire[p], 2)' /\ (replaced' = 0 => Len(wire'[p]) <= 1)
    BY <1>0, <1>6, <2>1 DEF Before
  <2>4. role'[p] = "initiator" =>
               /\ answered'[q] # kex'[p]
               /\ Sent(p)' /\ ~ Has(wire[p], 1)' => role'[q] = "initiator" /\ q = First
    BY <1>3, <1>5, <1>6, <2>1 DEF Has
  <2>5. QED  BY <2>2, <2>3, <2>4 DEF OpenWire, q
<1>9. OpenWire(q)'
  <2>1. /\ \A i \in 1 .. Len(s) : s[i] = Step1(kex[q]) /\ role[q] = "initiator" /\ Sent(q)
        /\ Before(s, 2) /\ (replaced = 0 => Len(s) <= 1)
        /\ role[q] = "initiator" => answered[p] # kex[q]
    BY <1>1, <1>4, <1>5 DEF Unanswered, OpenWire
  <2> DEFINE t == Tail(s)
  <2>2. /\ \A i \in 1 .. Len(t) : t[i] = Step1(kex[q]) /\ role[q] = "initiator" /\ Sent(q)
        /\ Before(t, 2) /\ (replaced = 0 => Len(t) <= 1)
    <3> HIDE DEF s
    <3>1. /\ Len(s) \in Nat /\ Len(t) = Len(s) - 1
          /\ \A i \in 1 .. Len(t) : t[i] = s[i + 1] /\ i + 1 \in 2 .. Len(s)
      BY <1>6, TailFacts
    <3>2. Before(t, 2)
      BY <1>6, <2>1, BeforeTail
    <3>3. \A i \in 1 .. Len(t) : i + 1 \in 1 .. Len(s)
      BY <3>1
    <3>4. replaced = 0 => Len(t) <= 1
      BY <2>1, <3>1
    <3> HIDE DEF t
    <3>5. QED  BY <2>1, <3>1, <3>2, <3>3, <3>4
  <2>3. t = wire'[q]
    BY <1>6
  <2> HIDE DEF t, s
  <2>4. \A i \in 1 .. Len(wire'[q]) :
             \/ wire'[q][i] = Step1(kex'[q]) /\ role'[q] = "initiator" /\ Sent(q)'
             \/ wire'[q][i].step = 2 /\ Over(p)'
    BY <1>3, <2>2, <2>3
  <2>5. Before(wire[q], 2)' /\ (replaced' = 0 => Len(wire'[q]) <= 1)
    BY <1>0, <2>2, <2>3 DEF Before
  <2>6. role'[q] = "initiator" =>
               /\ answered'[p] # kex'[q]
               /\ Sent(q)' /\ ~ Has(wire[q], 1)' => role'[p] = "initiator" /\ p = First
    BY <1>2, <1>3, <1>5, <2>1
  <2>7. QED  BY <1>1, <2>4, <2>5, <2>6 DEF OpenWire
<1>10. Unanswered(p)'
  BY <1>2, <1>5, <1>8 DEF Unanswered
<1>11. Unanswered(q)'
  BY <1>3, <1>4, <1>9 DEF Unanswered
<1>12. Agree'
  BY <1>2, <1>5 DEF Agree
<1>13. QED  BY <1>1, <1>10, <1>11, <1>12 DEF Open

\* The answer to the attempt of the peer.
LEMMA Answered ==
  ASSUME Calm, Open, NEW p \in Node, ReceiveStep1(p), ~ StaysInitiator(p),
         answered[p] # Head(wire[Other(p)]).attempt
  PROVE  Answering(Other(p))'
<1> DEFINE q == Other(p)
           s == wire[q]
           a == Head(s).attempt
<1>0. PICK answer \in Step2Type :
         /\ Takes(p, 1) /\ SameChannel(p) /\ pc'[p] = pc[p] /\ replaced' = replaced
         /\ \A r \in Node : r # p => Stays(r)
         /\ answer.attempt = a
         /\ role'[p] = "responder" /\ crypto'[p] = Handshaking(Key(a, answer))
         /\ answered'[p] = a /\ step2'[p] = answer
         /\ reply'[p] = [frame |-> answer, yielded |-> role[p] = "initiator"]
  BY ReceiveStep1Effect DEF Calm
<1>1. q \in Node /\ q # p /\ Other(q) = p /\ Stays(q) /\ \A r \in Node : r = p \/ r = q
  BY <1>0, OtherFacts
<1>2. a = kex[q] /\ role[q] = "initiator" /\ Sent(q) /\ NoAnswers(p) /\ NotFinishing(p)
  <2>1. ~ Answering(p) /\ ~ Answering(q) /\ ~ Finishing(q)
    BY <1>1 DEF Open, Unanswered, Answering, Finishing, Responds
  <2>2. \/ /\ a = kex[q] /\ role[q] = "initiator" /\ Sent(q)
           /\ NoAnswers(p) /\ NotFinishing(p)
        \/ Answering(p) \/ Answering(q) \/ Finishing(q)
    <3>1. Phase
      BY DEF Phase
    <3>2. QED  BY <3>1, Step1Cases
  <2> HIDE DEF q, a
  <2>3. QED  BY <2>1, <2>2
<1>3. /\ Sent(q)' /\ role'[q] = "initiator" /\ kex'[q] = kex[q]
      /\ signal'[q] = signal[q] /\ waiter'[q] = waiter[q] /\ pc'[q] = pc[q]
  BY <1>0, <1>1, <1>2, StaysParts
<1>4. Unanswered(p) /\ Unanswered(q)
  BY <1>1 DEF Open
<1>5. s \in Seq(Frame) /\ s # <<>> /\ Head(s).step = 1 /\ wire'[q] = Tail(s) /\ wire'[p] = wire[p]
  BY <1>0 DEF Takes
<1>6. Responds(p)'
  <2>1. NoAnswers(p)' /\ NotFinishing(p)'
    BY <1>0, <1>2 DEF NoAnswers, NotFinishing, SameChannel
  <2>2. answer # None
    BY FrameTypes
  <2>3. QED  BY <1>0, <2>1, <2>2 DEF Responds
<1>7. answered'[p] = kex'[q]
  BY <1>0, <1>2, <1>3
<1>8. reply'[p] # None
  <2>1. \A y : [frame |-> answer, yielded |-> y] # None
    BY DEF None
  <2>2. QED  BY <1>0, <2>1
<1> HIDE DEF q, a
<1>9. /\ \A i \in 1 .. Len(wire[p]) : wire[p][i].step = 1
      /\ role[p] = "initiator" \/ wire[p] = <<>>
  <2>1. \A i \in 1 .. Len(wire[p]) : wire[p][i] = Step1(kex[p]) /\ role[p] = "initiator"
    BY <1>2, <1>4 DEF Unanswered, OpenWire, Over, q
  <2>2. wire[p] \in Seq(Frame)
    BY TypeFunctions DEF Calm
  <2>3. role[p] # "initiator" => wire[p] = <<>>
    BY <2>1, <2>2
  <2>4. QED  BY <2>1, <2>3, Step1Facts
<1>10. role[p] = "initiator" => q = First
  <2>1. role[p] = "initiator" => p # First
    BY DEF StaysInitiator
  <2>2. QED  BY <1>1, <2>1, HandshakeAssumption
<1>11. Only(wire[q], Step1(kex[q]))'
  <2>1. Before(s, 2) /\ \A i \in 1 .. Len(s) : s[i] = Step1(kex[q]) \/ s[i].step = 2
    BY <1>1, <1>4 DEF Unanswered, OpenWire
  <2> DEFINE t == Tail(s)
  <2> HIDE DEF s
  <2>2. /\ Len(t) \in Nat
        /\ \A i \in 1 .. Len(t) : t[i] = s[i + 1] /\ i + 1 \in 2 .. Len(s)
    BY <1>5, TailFacts
  <2>3. ~ Has(t, 2)
    BY <1>5, <2>1, BeforeTail
  <2>4. Len(s) \in Nat /\ \A i \in 2 .. Len(s) : i \in 1 .. Len(s)
    BY <1>5
  <2>5. wire'[q] = t
    BY <1>5
  <2> HIDE DEF t
  <2>6. Only(t, Step1(kex[q]))
    BY <2>1, <2>2, <2>3, <2>4 DEF Only, Has
  <2>7. QED  BY <1>3, <2>5, <2>6 DEF Only
<1>12. \A i \in 1 .. Len(wire'[p]) :
         (wire'[p][i].step = 1 /\ q = First) \/ wire'[p][i] = step2'[p]
  <2>1. wire[p] = <<>> => 1 .. Len(wire[p]) = {}
    OBVIOUS
  <2>2. QED  BY <1>5, <1>9, <1>10, <2>1
<1>13. Before(wire[p], 1)' /\ ~ Has(wire[p], 2)'
  BY <1>5, <1>9 DEF Before, Has
<1>14. ASSUME NEW c \in CallId, kex'[q] = <<q, c>>  PROVE AnswerDue(q, p, c)'
  <2>1. pc[q][c] = "waiting" /\ Owns(q, c)
    BY <1>2, <1>3, <1>14 DEF Sent, Owns
  <2>2. signal[q][c] = None
    BY <1>1, <1>2, <1>4, <2>1 DEF Unanswered, NoAnswers, Calm, Task, Pends, Yielding
  <2>3. signal'[q][c] = None
    BY <1>3, <2>2
  <2>4. ASSUME replaced' = 0  PROVE wire'[q] = <<>>
    <3>1. Len(s) <= 1
      BY <1>0, <1>1, <1>4, <2>4 DEF Unanswered, OpenWire
    <3> HIDE DEF s
    <3>2. Tail(s) = <<>>
      BY <1>5, <3>1
    <3>3. QED  BY <1>5, <3>2
  <2>5. \A i \in 1 .. Len(wire'[p]) : wire'[p][i].step # 2
    BY <1>13 DEF Has
  <2>6. QED  BY <1>8, <1>13, <2>3, <2>4, <2>5 DEF AnswerDue
<1>15. QED
  BY <1>1, <1>3, <1>6, <1>7, <1>11, <1>12, <1>13, <1>14 DEF Answering, q

\* The attempt of its peer that the one that stays initiator finds before the answer.
LEMMA IgnoredAnswering ==
  ASSUME Calm, NEW p \in Node, Answering(p), ReceiveStep1(p), StaysInitiator(p)
  PROVE  Answering(p)'
<1> DEFINE q == Other(p)
           s == wire[q]
           a == Head(s).attempt
<1>0. /\ Takes(p, 1) /\ SameChannel(p) /\ pc'[p] = pc[p] /\ replaced' = replaced
      /\ SameSession(p) /\ \A r \in Node : r # p => Stays(r)
  <2>1. role[p] # "responder"
    BY DEF StaysInitiator
  <2>2. QED  BY <2>1, ReceiveStep1Effect DEF Calm
<1>1. q \in Node /\ q # p /\ Other(q) = p /\ Stays(q)
  BY <1>0, OtherFacts
<1>2. /\ Responds(q)' <=> Responds(q)
      /\ answered'[q] = answered[q] /\ step2'[q] = step2[q] /\ reply'[q] = reply[q]
  BY <1>0, <1>1, StaysParts
<1>3. /\ role'[p] = role[p] /\ kex'[p] = kex[p] /\ signal'[p] = signal[p]
      /\ Sent(p)' <=> Sent(p)
  BY <1>0 DEF SameSession, SameChannel, Sent
<1>4. s \in Seq(Frame) /\ s # <<>> /\ Head(s).step = 1 /\ wire'[q] = Tail(s) /\ wire'[p] = wire[p]
  BY <1>0 DEF Takes
<1>5. /\ role[p] = "initiator" /\ Responds(q) /\ answered[q] = kex[p] /\ Sent(p)
      /\ Only(wire[p], Step1(kex[p]))
      /\ \A i \in 1 .. Len(s) : (s[i].step = 1 /\ p = First) \/ s[i] = step2[q]
      /\ Before(s, 1)
      /\ \A c \in CallId : kex[p] = <<p, c>> => AnswerDue(p, q, c)
  BY DEF Answering
<1> HIDE DEF q, a
<1> DEFINE t == Tail(s)
<1>6. /\ \A i \in 1 .. Len(t) : (t[i].step = 1 /\ p = First) \/ t[i] = step2[q]
      /\ Before(t, 1) /\ (Has(s, 2) <=> Has(t, 2)) /\ (Has(t, 1) => Has(s, 1))
      /\ Len(t) = Len(s) - 1 /\ Len(t) \in Nat
      /\ \A i \in 1 .. Len(t) : t[i] = s[i + 1] /\ i + 1 \in 1 .. Len(s)
  <2> HIDE DEF s
  <2>1. /\ Len(t) = Len(s) - 1 /\ Len(t) \in Nat
        /\ \A i \in 1 .. Len(t) : t[i] = s[i + 1] /\ i + 1 \in 2 .. Len(s)
    BY <1>4, TailFacts
  <2>2. Before(t, 1)
    BY <1>4, <1>5, BeforeTail
  <2>3. (Has(s, 2) <=> Has(t, 2)) /\ (Has(t, 1) => Has(s, 1))
    BY <1>4, HasTail
  <2>4. \A i \in 1 .. Len(t) : i + 1 \in 1 .. Len(s)
    BY <2>1
  <2> HIDE DEF t
  <2>5. QED  BY <1>5, <2>1, <2>2, <2>3, <2>4
<1>7. t = wire'[q]
  BY <1>4
<1> HIDE DEF t
<1>8. ASSUME NEW c \in CallId, kex'[p] = <<p, c>>  PROVE AnswerDue(p, q, c)'
  <2>1. AnswerDue(p, q, c)
    BY <1>3, <1>5, <1>8
  <2>2. /\ signal[p][c] \in {None, step2[q]}
        /\ signal[p][c] # None => ~ Has(t, 1)
        /\ signal[p][c] # None \/ Has(t, 2) \/ reply[q] # None \/ wire[p] # <<>>
    BY <1>6, <2>1 DEF AnswerDue
  <2>3. replaced = 0 =>
          /\ wire[p] = <<>>
          /\ reply[q] # None => signal[p][c] = None /\ ~ Has(t, 2)
          /\ \A i \in 1 .. Len(t) : t[i].step = 2 => i = Len(t) /\ signal[p][c] = None
    <3>1. ASSUME replaced = 0, NEW i \in 1 .. Len(t), t[i].step = 2
          PROVE  i = Len(t) /\ signal[p][c] = None
      <4>1. i + 1 = Len(s) /\ signal[p][c] = None
        BY <1>6, <2>1, <3>1 DEF AnswerDue
      <4>2. QED  BY <1>6, <4>1
    <3>2. QED  BY <1>6, <2>1, <3>1 DEF AnswerDue
  <2>4. QED
    BY <1>0, <1>2, <1>3, <1>4, <1>7, <2>2, <2>3 DEF AnswerDue, Has
<1>9. Only(wire[p], Step1(kex[p]))'
  BY <1>3, <1>4, <1>5 DEF Only
<1>10. Before(wire[q], 1)'
  BY <1>6, <1>7 DEF Before
<1>11. QED
  BY <1>2, <1>3, <1>5, <1>6, <1>7, <1>8, <1>9, <1>10 DEF Answering, q

\* A responder that gets its peer's attempt again sends the same answer again.
LEMMA AgainFacts ==
  ASSUME Calm, NEW p \in Node, ReceiveStep1(p), Responds(p),
         answered[p] = Head(wire[Other(p)]).attempt
  PROVE  /\ Takes(p, 1) /\ SameChannel(p) /\ pc'[p] = pc[p] /\ replaced' = replaced
         /\ SameSession(p) /\ reply'[p] # None /\ Responds(p)'
         /\ \A r \in Node : r # p => Stays(r)
<1>1. /\ Takes(p, 1) /\ SameChannel(p) /\ pc'[p] = pc[p] /\ replaced' = replaced
      /\ SameSession(p) /\ reply'[p] = [frame |-> step2[p], yielded |-> FALSE]
      /\ \A r \in Node : r # p => Stays(r)
  BY ReceiveStep1Effect DEF Calm, Responds
<1>2. reply'[p] # None
  BY <1>1 DEF None
<1>3. Responds(p)'
  BY <1>1 DEF Responds, SameSession, SameChannel, NoAnswers, NotFinishing
<1>4. QED  BY <1>1, <1>2, <1>3

LEMMA AgainAnswering ==
  ASSUME Calm, NEW p \in Node, Answering(Other(p)), ReceiveStep1(p),
         answered[p] = Head(wire[Other(p)]).attempt
  PROVE  Answering(Other(p))'
<1> DEFINE q == Other(p)
           s == wire[q]
<1>1. q \in Node /\ q # p /\ Other(q) = p
  BY OtherFacts
<1>2. /\ role[q] = "initiator" /\ Responds(p) /\ answered[p] = kex[q] /\ Sent(q)
      /\ Only(s, Step1(kex[q]))
      /\ \A i \in 1 .. Len(wire[p]) : (wire[p][i].step = 1 /\ q = First) \/ wire[p][i] = step2[p]
      /\ Before(wire[p], 1)
      /\ \A c \in CallId : kex[q] = <<q, c>> => AnswerDue(q, p, c)
  BY <1>1 DEF Answering
<1>3. /\ Takes(p, 1) /\ replaced' = replaced /\ SameSession(p) /\ reply'[p] # None
      /\ Responds(p)' /\ Stays(q)
  BY <1>1, <1>2, AgainFacts
<1>4. /\ Sent(q)' <=> Sent(q)
      /\ role'[q] = role[q] /\ kex'[q] = kex[q] /\ signal'[q] = signal[q]
  BY <1>1, <1>3, StaysParts
<1>5. s \in Seq(Frame) /\ s # <<>> /\ wire'[q] = Tail(s) /\ wire'[p] = wire[p]
  BY <1>3 DEF Takes
<1>6. /\ answered'[p] = answered[p] /\ step2'[p] = step2[p]
  BY <1>3 DEF SameSession
<1> HIDE DEF q
<1>7. replaced # 0
  <2>1. PICK c \in CallId : kex[q] = <<q, c>>
    BY <1>1, <1>2 DEF Calm, Task, Attempting
  <2>2. AnswerDue(q, p, c)
    BY <1>2, <2>1
  <2>3. QED  BY <1>5, <2>2 DEF AnswerDue
<1>8. ASSUME NEW c \in CallId, kex'[q] = <<q, c>>  PROVE AnswerDue(q, p, c)'
  <2>1. AnswerDue(q, p, c)
    BY <1>2, <1>4, <1>8
  <2>2. QED  BY <1>3, <1>4, <1>5, <1>6, <1>7, <2>1 DEF AnswerDue, Has
<1>9. Only(wire[q], Step1(kex[q]))'
  <2>1. Only(Tail(s), Step1(kex[q]))
    BY <1>2, <1>5, OnlyTail
  <2>2. QED  BY <1>4, <1>5, <2>1 DEF Only
<1>10. Before(wire[p], 1)'
  BY <1>2, <1>5 DEF Before
<1>11. Answering(q)'
  BY <1>1, <1>2, <1>3, <1>4, <1>5, <1>6, <1>8, <1>9, <1>10 DEF Answering
<1>12. QED  BY <1>11 DEF q

LEMMA AgainFinishing ==
  ASSUME Calm, NEW p \in Node, Finishing(Other(p)), ReceiveStep1(p),
         answered[p] = Head(wire[Other(p)]).attempt
  PROVE  Finishing(Other(p))'
<1> DEFINE q == Other(p)
           s == wire[q]
<1>1. q \in Node /\ q # p /\ Other(q) = p
  BY OtherFacts
<1>2. /\ role[q] # "responder" /\ NoAnswers(q) /\ Responds(p)
      /\ answered[p] # None /\ answered[p] # kex[q]
      /\ role[q] = "none" => crypto[q] = SasPending(crypto[p].key) /\ waiter[q] = NoCall
      /\ Unsent(q, answered[p]) \/ FinishSent(q, answered[p])
      /\ Only(wire[p], step2[p])
      /\ role[q] = "initiator" => replaced = 0
  BY <1>1 DEF Finishing
<1>3. /\ Takes(p, 1) /\ replaced' = replaced /\ SameSession(p)
      /\ Responds(p)' /\ Stays(q)
  BY <1>1, <1>2, AgainFacts
<1>4. /\ Sent(q)' <=> Sent(q)
      /\ NoAnswers(q)' <=> NoAnswers(q)
      /\ NotFinishing(q)' <=> NotFinishing(q)
      /\ role'[q] = role[q] /\ kex'[q] = kex[q] /\ crypto'[q] = crypto[q]
      /\ waiter'[q] = waiter[q] /\ pc'[q] = pc[q]
  BY <1>1, <1>3, StaysParts
<1>5. s \in Seq(Frame) /\ s # <<>> /\ Head(s).step = 1 /\ wire'[q] = Tail(s) /\ wire'[p] = wire[p]
  BY <1>3 DEF Takes
<1>6. answered'[p] = answered[p] /\ step2'[p] = step2[p] /\ crypto'[p] = crypto[p]
  BY <1>3 DEF SameSession
<1> HIDE DEF q
<1> DEFINE t == Tail(s)
<1>7. /\ Len(s) \in Nat /\ Len(t) = Len(s) - 1 /\ Head(s) = s[1]
      /\ \A i \in 1 .. Len(t) : t[i] = s[i + 1]
  <2> HIDE DEF s
  <2>1. QED  BY <1>5, TailFacts
<1>8. ASSUME Unsent(q, answered[p])  PROVE replaced' # 0 /\ Unsent(q, answered[p])'
  <2>1. replaced # 0 /\ Only(s, Step1(answered[p])) /\ \E c \in CallId : pc[q][c] = "finishing"
    BY <1>5, <1>8 DEF Unsent
  <2>2. Only(t, Step1(answered[p]))
    BY <1>5, <2>1, OnlyTail
  <2>3. Unsent(q, answered[p])'
    BY <1>3, <1>4, <1>5, <1>6, <2>1, <2>2 DEF Unsent, Only
  <2>4. QED  BY <1>3, <2>1, <2>3
<1>9. ASSUME FinishSent(q, answered[p])
      PROVE  replaced' # 0 /\ FinishSent(q, answered[p])'
  <2>1. PICK k \in 1 .. Len(s) : FinishAt(q, answered[p], k)
    BY <1>9 DEF FinishSent
  <2>2. /\ s[k] = Step3
        /\ \A i \in 1 .. k - 1 : s[i] = Step1(answered[p])
        /\ \A i \in k + 1 .. Len(s) : s[i] = Step1(kex[q]) /\ role[q] = "initiator" /\ Sent(q)
        /\ replaced = 0 => k = 1
        /\ role[q] = "initiator" /\ Sent(q) => Len(s) > k
    BY <2>1 DEF FinishAt
  <2>3. k # 1
    BY <1>5, <1>7, <2>2 DEF Step3
  <2>4. PICK m : m = k - 1
    OBVIOUS
  <2>5. m \in 1 .. Len(t) /\ m + 1 = k /\ Len(s) = Len(t) + 1 /\ Len(t) \in Nat
    BY <1>7, <2>3, <2>4
  <2>6. /\ t[m] = Step3
        /\ \A i \in 1 .. m - 1 : t[i] = Step1(answered[p])
        /\ \A i \in m + 1 .. Len(t) : t[i] = Step1(kex[q]) /\ role[q] = "initiator" /\ Sent(q)
        /\ role[q] = "initiator" /\ Sent(q) => Len(t) > m
    <3>1. t[m] = Step3
      BY <1>7, <2>2, <2>5
    <3>2. ASSUME NEW i \in 1 .. m - 1  PROVE t[i] = Step1(answered[p])
      <4>1. i \in 1 .. Len(t) /\ i + 1 \in 1 .. k - 1
        BY <2>5
      <4>2. QED  BY <1>7, <2>2, <4>1
    <3>3. ASSUME NEW i \in m + 1 .. Len(t)
          PROVE  t[i] = Step1(kex[q]) /\ role[q] = "initiator" /\ Sent(q)
      <4>1. i \in 1 .. Len(t) /\ i + 1 \in k + 1 .. Len(s)
        BY <2>5
      <4>2. QED  BY <1>7, <2>2, <4>1
    <3>4. role[q] = "initiator" /\ Sent(q) => Len(t) > m
      BY <2>2, <2>5
    <3>5. QED  BY <3>1, <3>2, <3>3, <3>4
  <2>7. t = wire'[q] /\ replaced' # 0
    BY <1>3, <1>5, <2>2, <2>3
  <2> HIDE DEF t, s
  <2>8. FinishAt(q, answered[p], m)'
    BY <1>4, <1>6, <2>6, <2>7 DEF FinishAt
  <2>9. QED  BY <1>4, <1>9, <2>5, <2>7, <2>8 DEF FinishSent
<1>10. Only(wire[p], step2[p])'
  BY <1>2, <1>5, <1>6 DEF Only
<1>11. replaced' # 0 /\ (Unsent(q, answered[p])' \/ FinishSent(q, answered[p])')
  BY <1>2, <1>8, <1>9
<1>12. Finishing(q)'
  BY <1>1, <1>2, <1>3, <1>4, <1>6, <1>10, <1>11 DEF Finishing
<1>13. QED  BY <1>12 DEF q

LEMMA ReceiveStep1Phase ==
  ASSUME Calm, Phase, NEW p \in Node, ReceiveStep1(p)
  PROVE  Phase'
<1> DEFINE q == Other(p)
           a == Head(wire[q]).attempt
<1>1. \/ Open /\ answered[p] # a
      \/ Answering(p) /\ StaysInitiator(p)
      \/ Answering(q) /\ answered[p] = a
      \/ Finishing(q) /\ answered[p] = a
  BY Step1Cases
<1>2. q \in Node
  BY OtherFacts
<1>3. CASE Open /\ answered[p] # a /\ StaysInitiator(p)
  BY <1>3, IgnoredOpen DEF Phase
<1>4. CASE Open /\ answered[p] # a /\ ~ StaysInitiator(p)
  <2>1. Answering(q)'
    BY <1>4, Answered
  <2> HIDE DEF q
  <2>2. QED  BY <1>2, <2>1 DEF Phase
<1>5. CASE Answering(p) /\ StaysInitiator(p)
  BY <1>5, IgnoredAnswering DEF Phase
<1>6. CASE Answering(q) /\ answered[p] = a
  <2>1. Answering(q)'
    BY <1>6, AgainAnswering
  <2> HIDE DEF q
  <2>2. QED  BY <1>2, <2>1 DEF Phase
<1>7. CASE Finishing(q) /\ answered[p] = a
  <2>1. Finishing(q)'
    BY <1>7, AgainFinishing
  <2> HIDE DEF q
  <2>2. QED  BY <1>2, <2>1 DEF Phase
<1>8. QED  BY <1>1, <1>3, <1>4, <1>5, <1>6, <1>7

-----------------------------------------------------------------------------
(* The read loop: the answer goes out *)

LEMMA SendReplyFacts ==
  ASSUME Calm, NEW p \in Node, SendReply(p)
  PROVE  /\ role[p] = "responder" /\ reply[p] # None /\ reply'[p] = None
         /\ wire'[p] = Append(wire[p], step2[p]) /\ wire[p] \in Seq(Frame)
         /\ \A r \in Node : r # p => wire'[r] = wire[r] /\ Stays(r)
         /\ SameSession(p) /\ pc'[p] = pc[p] /\ replaced' = replaced
         /\ NoAnswers(p) => NoAnswers(p)'
<1>1. /\ reply[p] # None /\ reply'[p] = None
      /\ wire'[p] = Append(wire[p], reply[p].frame)
      /\ \A r \in Node : r # p => wire'[r] = wire[r] /\ Stays(r)
      /\ SameSession(p) /\ pc'[p] = pc[p] /\ replaced' = replaced
      /\ \/ SameChannel(p)
         \/ \A d \in CallId : signal'[p][d] = IF d = waiter[p] THEN Yield ELSE signal[p][d]
  BY SendReplyEffect DEF Calm
<1>2. role[p] = "responder" /\ reply[p].frame = step2[p]
  BY <1>1 DEF Calm, Task, Replies
<1>3. wire[p] \in Seq(Frame)
  BY TypeFunctions DEF Calm
<1>4. NoAnswers(p) => NoAnswers(p)'
  BY <1>1 DEF NoAnswers, SameChannel
<1>5. QED  BY <1>1, <1>2, <1>3, <1>4

LEMMA SendReplyAnswering ==
  ASSUME Calm, NEW p \in Node, Answering(Other(p)), SendReply(p)
  PROVE  Answering(Other(p))'
<1> DEFINE q == Other(p)
           s == wire[p]
           f == step2[p]
<1>0. /\ reply[p] # None /\ reply'[p] = None
      /\ wire'[p] = Append(s, f) /\ s \in Seq(Frame)
      /\ \A r \in Node : r # p => wire'[r] = wire[r] /\ Stays(r)
      /\ SameSession(p) /\ pc'[p] = pc[p] /\ replaced' = replaced
      /\ NoAnswers(p) => NoAnswers(p)'
  BY SendReplyFacts
<1>1. q \in Node /\ q # p /\ Other(q) = p /\ Stays(q) /\ wire'[q] = wire[q]
  BY <1>0, OtherFacts
<1>2. /\ role[q] = "initiator" /\ Responds(p) /\ answered[p] = kex[q] /\ Sent(q)
      /\ Only(wire[q], Step1(kex[q]))
      /\ \A i \in 1 .. Len(s) : (s[i].step = 1 /\ q = First) \/ s[i] = f
      /\ Before(s, 1)
      /\ \A c \in CallId : kex[q] = <<q, c>> => AnswerDue(q, p, c)
  BY <1>1 DEF Answering
<1>3. Sent(q)' /\ role'[q] = role[q] /\ kex'[q] = kex[q] /\ signal'[q] = signal[q]
  BY <1>0, <1>1, <1>2, StaysParts
<1>4. Responds(p)' /\ answered'[p] = answered[p] /\ step2'[p] = f
  BY <1>0, <1>2 DEF Responds, SameSession, NotFinishing
<1>5. f.step = 2
  BY <1>2, FrameTypes, TypeParts DEF Calm, Responds, SessionTypes
<1> HIDE DEF q, s, f
<1> DEFINE t == Append(s, f)
<1>6. /\ Len(s) \in Nat /\ Len(t) = Len(s) + 1
      /\ \A i \in 1 .. Len(s) : t[i] = s[i]
      /\ t[Len(s) + 1] = f
      /\ \A i \in 1 .. Len(t) : i \in 1 .. Len(s) \/ i = Len(s) + 1
  BY <1>0, AppendFacts
<1>7. (Has(t, 1) <=> Has(s, 1)) /\ Has(t, 2)
  BY <1>0, <1>5, HasAppend
<1>8. Before(t, 1)
  BY <1>0, <1>2, <1>5, BeforeAppend
<1>9. t = wire'[p]
  BY <1>0 DEF s, f
<1> HIDE DEF t
<1>10. \A i \in 1 .. Len(t) : (t[i].step = 1 /\ q = First) \/ t[i] = f
  BY <1>2, <1>6
<1>11. ASSUME NEW c \in CallId, kex'[q] = <<q, c>>  PROVE AnswerDue(q, p, c)'
  <2>1. AnswerDue(q, p, c)
    BY <1>2, <1>3, <1>11
  <2>2. /\ signal[q][c] \in {None, f}
        /\ signal[q][c] # None => ~ Has(t, 1)
    BY <1>7, <2>1 DEF AnswerDue, s, f
  <2>3. ASSUME replaced = 0
        PROVE  /\ wire[q] = <<>>
               /\ \A i \in 1 .. Len(t) : t[i].step = 2 => i = Len(t) /\ signal[q][c] = None
    <3>1. wire[q] = <<>> /\ signal[q][c] = None /\ ~ Has(s, 2)
      BY <1>0, <2>1, <2>3 DEF AnswerDue, s
    <3>2. \A i \in 1 .. Len(t) : t[i].step = 2 => i = Len(t)
      BY <1>6, <3>1 DEF Has
    <3>3. QED  BY <3>1, <3>2
  <2>4. QED
    BY <1>0, <1>1, <1>3, <1>4, <1>7, <1>9, <2>2, <2>3 DEF AnswerDue, Has
<1>12. Only(wire[q], Step1(kex[q]))'
  BY <1>1, <1>2, <1>3 DEF Only
<1>13. Before(wire[p], 1)'
  BY <1>8, <1>9 DEF Before
<1>14. Answering(q)'
  BY <1>1, <1>2, <1>3, <1>4, <1>9, <1>10, <1>11, <1>12, <1>13 DEF Answering
<1>15. QED  BY <1>14 DEF q

LEMMA SendReplyFinishing ==
  ASSUME Calm, NEW p \in Node, Finishing(Other(p)), SendReply(p)
  PROVE  Finishing(Other(p))'
<1> DEFINE q == Other(p)
           s == wire[p]
           f == step2[p]
<1>0. /\ reply[p] # None
      /\ wire'[p] = Append(s, f) /\ s \in Seq(Frame)
      /\ \A r \in Node : r # p => wire'[r] = wire[r] /\ Stays(r)
      /\ SameSession(p) /\ pc'[p] = pc[p] /\ replaced' = replaced
      /\ NoAnswers(p) => NoAnswers(p)'
  BY SendReplyFacts
<1>1. q \in Node /\ q # p /\ Other(q) = p /\ Stays(q) /\ wire'[q] = wire[q]
  BY <1>0, OtherFacts
<1>2. /\ role[q] # "responder" /\ NoAnswers(q) /\ Responds(p)
      /\ answered[p] # None /\ answered[p] # kex[q]
      /\ role[q] = "none" => crypto[q] = SasPending(crypto[p].key) /\ waiter[q] = NoCall
      /\ Unsent(q, answered[p]) \/ FinishSent(q, answered[p])
      /\ Only(s, f) /\ replaced # 0
      /\ role[q] = "initiator" => replaced = 0
  BY <1>0, <1>1 DEF Finishing
<1>4. /\ Sent(q)' <=> Sent(q)
      /\ NoAnswers(q)' <=> NoAnswers(q)
      /\ NotFinishing(q)' <=> NotFinishing(q)
      /\ role'[q] = role[q] /\ kex'[q] = kex[q] /\ crypto'[q] = crypto[q]
      /\ waiter'[q] = waiter[q] /\ pc'[q] = pc[q]
  BY <1>0, <1>1, StaysParts
<1>5. /\ Responds(p)' /\ answered'[p] = answered[p] /\ step2'[p] = f /\ crypto'[p] = crypto[p]
  BY <1>0, <1>2 DEF Responds, SameSession, NotFinishing
<1>6. Only(wire[p], step2[p])'
  <2> HIDE DEF s, f
  <2>1. Only(Append(s, f), f)
    BY <1>0, <1>2, OnlyAppend
  <2>2. wire'[p] = Append(s, f)
    BY <1>0 DEF s, f
  <2>3. QED  BY <1>5, <2>1, <2>2 DEF Only
<1> HIDE DEF q, s, f
<1>7. Unsent(q, answered[p])' \/ FinishSent(q, answered[p])'
  <2>1. Unsent(q, answered[p]) => Unsent(q, answered[p])'
    BY <1>0, <1>1, <1>4, <1>5 DEF Unsent, Only
  <2>2. ASSUME NEW k, FinishAt(q, answered[p], k)  PROVE FinishAt(q, answered[p], k)'
    BY <1>0, <1>1, <1>4, <1>5, <2>2 DEF FinishAt
  <2>3. FinishSent(q, answered[p]) => FinishSent(q, answered[p])'
    BY <1>1, <1>4, <2>2 DEF FinishSent
  <2>4. QED  BY <1>2, <2>1, <2>3
<1>8. Finishing(q)'
  BY <1>0, <1>1, <1>2, <1>4, <1>5, <1>6, <1>7 DEF Finishing
<1>9. QED  BY <1>8 DEF q

LEMMA SendReplyPhase ==
  ASSUME Calm, Phase, NEW p \in Node, SendReply(p)
  PROVE  Phase'
<1> DEFINE q == Other(p)
<1>1. role[p] = "responder" /\ q \in Node /\ \A r \in Node : r = p \/ r = q
  BY SendReplyFacts, OtherFacts
<1>2. ~ Open /\ ~ Answering(p) /\ ~ Finishing(p)
  BY <1>1 DEF Open, Unanswered, Answering, Finishing
<1>3. Answering(q) \/ Finishing(q)
  BY <1>1, <1>2 DEF Phase
<1>4. Answering(q)' \/ Finishing(q)'
  BY <1>3, SendReplyAnswering, SendReplyFinishing
<1> HIDE DEF q
<1>5. QED  BY <1>1, <1>4 DEF Phase

-----------------------------------------------------------------------------
(* The read loop: step 2 *)

LEMMA FirstFinishing ==
  ASSUME NEW p \in Node, Finishing(Other(p)), 1 \in 1 .. Len(wire[Other(p)]),
         wire[Other(p)] \in Seq(Frame)
  PROVE  LET q == Other(p)
         IN \/ wire[q][1] = Step1(answered[p])
            \/ NotFinishing(q) /\ wire[q][1] = Step3 /\ FinishAt(q, answered[p], 1)
<1> DEFINE q == Other(p)
           s == wire[q]
<1>1. q \in Node /\ Other(q) = p
  BY OtherFacts
<1>2. Unsent(q, answered[p]) \/ FinishSent(q, answered[p])
  BY <1>1 DEF Finishing
<1>3. Unsent(q, answered[p]) => s[1] = Step1(answered[p])
  BY DEF Unsent, Only
<1>4. ASSUME FinishSent(q, answered[p])
      PROVE  s[1] = Step1(answered[p]) \/ (s[1] = Step3 /\ FinishAt(q, answered[p], 1))
  <2>1. PICK k \in 1 .. Len(s) : FinishAt(q, answered[p], k)
    BY <1>4 DEF FinishSent
  <2>2. s[k] = Step3 /\ \A i \in 1 .. k - 1 : s[i] = Step1(answered[p])
    BY <2>1 DEF FinishAt
  <2>3. k = 1 \/ 1 \in 1 .. k - 1
    <3>1. Len(s) \in Nat /\ k \in 1 .. Len(s)
      OBVIOUS
    <3> HIDE DEF s
    <3>2. QED  BY <3>1
  <2>4. QED  BY <2>1, <2>2, <2>3
<1>5. FinishSent(q, answered[p]) => NotFinishing(q)
  BY DEF FinishSent
<1>6. QED  BY <1>2, <1>3, <1>4, <1>5

LEMMA Step2Cases ==
  ASSUME Calm, Phase, NEW p \in Node, ReceiveStep2(p)
  PROVE  \/ Open /\ Over(p)
         \/ Answering(p) /\ Head(wire[Other(p)]) = step2[Other(p)]
         \/ Finishing(p) /\ replaced # 0 /\ role[p] = "none" /\ waiter[p] = NoCall
<1> DEFINE q == Other(p)
           s == wire[q]
<1>1. Takes(p, 2) /\ q \in Node /\ Other(q) = p /\ \A r \in Node : r = p \/ r = q
  BY ReceiveStep2Effect, OtherFacts DEF Calm
<1>2. 1 \in 1 .. Len(s) /\ Head(s) = s[1] /\ s[1].step = 2 /\ s # <<>>
      /\ s \in Seq(Frame)
  BY <1>1, FirstFrame DEF Takes
<1>3. \A a : s[1] # Step1(a)
  BY <1>2, Step1Facts
<1>4. s[1] # Step3
  BY <1>2 DEF Step3
<1>5. CASE Open
  <2>1. s[1] = Step1(kex[q]) \/ Over(p)
    BY <1>1, <1>2, <1>5 DEF Open, Unanswered, OpenWire
  <2>2. QED  BY <1>3, <1>5, <2>1
<1>6. CASE Answering(p)
  BY <1>2, <1>6 DEF Answering
<1>7. ~ Answering(q)
  BY <1>2, <1>3 DEF Answering, Only
<1>8. CASE Finishing(p)
  <2>1. replaced # 0
    BY <1>2, <1>8 DEF Finishing
  <2>2. role[p] = "none" /\ waiter[p] = NoCall
    BY <1>8, <2>1, TypeParts DEF Finishing, Calm, SessionTypes
  <2>3. QED  BY <1>8, <2>1, <2>2
<1>9. ~ Finishing(q)
  BY <1>2, <1>3, <1>4, FirstFinishing
<1> HIDE DEF q, s
<1>10. Open \/ Answering(p) \/ Finishing(p)
  BY <1>1, <1>7, <1>9 DEF Phase
<1>11. QED  BY <1>5, <1>6, <1>8, <1>10 DEF q, s

LEMMA ReceiveStep2Keeps ==
  ASSUME Calm, Phase, NEW p \in Node, ReceiveStep2(p), ~ Starting(p)
  PROVE  Task(p)'
<1>1. waiter[p] # NoCall => role[p] = "initiator"
  BY Step2Cases DEF Over, Answering
<1>2. QED  BY <1>1, ReceiveStep2Task DEF Calm

\* A late answer meets nobody.
LEMMA LateOpen ==
  ASSUME Calm, Open, NEW p \in Node, Over(p), ReceiveStep2(p)
  PROVE  Open'
<1> DEFINE q == Other(p)
           s == wire[q]
<1>0. /\ Takes(p, 2) /\ SameSession(p) /\ pc'[p] = pc[p] /\ calls'[p] = calls[p]
      /\ replaced' = replaced /\ \A r \in Node : r # p => Stays(r)
      /\ waiter'[p] = NoCall
      /\ \A d \in CallId : signal'[p][d] = IF d = waiter[p] THEN Head(s) ELSE signal[p][d]
  BY ReceiveStep2Effect DEF Calm
<1>1. q \in Node /\ q # p /\ Other(q) = p /\ Stays(q) /\ \A r \in Node : r = p \/ r = q
  BY <1>0, OtherFacts
<1>2. \A d \in CallId : signal'[p][d] = signal[p][d]
  BY <1>0, CallFacts DEF Over
<1>3. /\ NoAnswers(q)' <=> NoAnswers(q)
      /\ NotFinishing(q)' <=> NotFinishing(q)
      /\ Sent(q)' <=> Sent(q)
      /\ Over(q)' <=> Over(q)
      /\ role'[q] = role[q] /\ kex'[q] = kex[q] /\ crypto'[q] = crypto[q]
      /\ answered'[q] = answered[q]
  BY <1>0, <1>1, StaysParts
<1>4. Unanswered(p) /\ Unanswered(q)
  BY <1>1 DEF Open
<1>5. /\ role'[p] = role[p] /\ kex'[p] = kex[p] /\ answered'[p] = answered[p]
      /\ crypto'[p] = crypto[p]
      /\ NoAnswers(p)' /\ NotFinishing(p)' /\ (Sent(p)' <=> Sent(p)) /\ Over(p)'
  BY <1>0, <1>2, <1>4 DEF SameSession, Unanswered, NoAnswers, NotFinishing, Sent, Over
<1>6. s \in Seq(Frame) /\ s # <<>> /\ Head(s).step = 2 /\ wire'[q] = Tail(s) /\ wire'[p] = wire[p]
  BY <1>0 DEF Takes
<1> HIDE DEF q
<1>8. OpenWire(p)'
  <2>1. /\ \A i \in 1 .. Len(wire[p]) :
             \/ wire[p][i] = Step1(kex[p]) /\ role[p] = "initiator" /\ Sent(p)
             \/ wire[p][i].step = 2 /\ Over(q)
        /\ Before(wire[p], 2) /\ (replaced = 0 => Len(wire[p]) <= 1)
        /\ role[p] # "initiator"
    BY <1>4 DEF Unanswered, OpenWire, q, Over
  <2>2. \A i \in 1 .. Len(wire'[p]) :
             \/ wire'[p][i] = Step1(kex'[p]) /\ role'[p] = "initiator" /\ Sent(p)'
             \/ wire'[p][i].step = 2 /\ Over(q)'
    BY <1>3, <1>5, <1>6, <2>1
  <2>3. Before(wire[p], 2)' /\ (replaced' = 0 => Len(wire'[p]) <= 1)
    BY <1>0, <1>6, <2>1 DEF Before
  <2>4. role'[p] # "initiator"
    BY <1>5, <2>1
  <2>5. QED  BY <2>2, <2>3, <2>4 DEF OpenWire, q
<1>9. OpenWire(q)'
  <2>1. /\ \A i \in 1 .. Len(s) : \/ s[i] = Step1(kex[q]) /\ role[q] = "initiator" /\ Sent(q)
                                  \/ s[i].step = 2
        /\ Before(s, 2) /\ (replaced = 0 => Len(s) <= 1)
        /\ role[q] = "initiator" =>
             /\ answered[p] # kex[q]
             /\ Sent(q) /\ ~ Has(s, 1) => role[p] = "initiator" /\ p = First
    BY <1>1, <1>4 DEF Unanswered, OpenWire
  <2> DEFINE t == Tail(s)
  <2>2. /\ \A i \in 1 .. Len(t) : \/ t[i] = Step1(kex[q]) /\ role[q] = "initiator" /\ Sent(q)
                                  \/ t[i].step = 2
        /\ Before(t, 2) /\ (replaced = 0 => Len(t) <= 1) /\ (~ Has(t, 1) => ~ Has(s, 1))
    <3> HIDE DEF s
    <3>1. /\ Len(s) \in Nat /\ Len(t) = Len(s) - 1
          /\ \A i \in 1 .. Len(t) : t[i] = s[i + 1] /\ i + 1 \in 2 .. Len(s)
      BY <1>6, TailFacts
    <3>2. Before(t, 2) /\ (~ Has(t, 1) => ~ Has(s, 1))
      BY <1>6, <2>1, BeforeTail, HasTail
    <3>3. \A i \in 1 .. Len(t) : i + 1 \in 1 .. Len(s)
      BY <3>1
    <3>4. replaced = 0 => Len(t) <= 1
      BY <2>1, <3>1
    <3> HIDE DEF t
    <3>5. QED  BY <2>1, <3>1, <3>2, <3>3, <3>4
  <2>3. t = wire'[q]
    BY <1>6
  <2> HIDE DEF t, s
  <2>4. \A i \in 1 .. Len(wire'[q]) :
             \/ wire'[q][i] = Step1(kex'[q]) /\ role'[q] = "initiator" /\ Sent(q)'
             \/ wire'[q][i].step = 2 /\ Over(p)'
    BY <1>3, <1>5, <2>2, <2>3
  <2>5. Before(wire[q], 2)' /\ (replaced' = 0 => Len(wire'[q]) <= 1)
    BY <1>0, <2>2, <2>3 DEF Before
  <2>6. role'[q] = "initiator" =>
               /\ answered'[p] # kex'[q]
               /\ Sent(q)' /\ ~ Has(wire[q], 1)' => role'[p] = "initiator" /\ p = First
    BY <1>3, <1>5, <2>1, <2>2, <2>3 DEF Has
  <2>7. QED  BY <1>1, <2>4, <2>5, <2>6 DEF OpenWire
<1>10. Unanswered(p)'
  BY <1>4, <1>5, <1>8 DEF Unanswered
<1>11. Unanswered(q)'
  BY <1>3, <1>4, <1>9 DEF Unanswered
<1>12. Agree'
  BY <1>1, <1>3, <1>5 DEF Agree, Open
<1>13. QED  BY <1>1, <1>10, <1>11, <1>12 DEF Open

\* The answer reaches the call that waits for it, or reached it before.
LEMMA ReceivesAnswer ==
  ASSUME Calm, NEW p \in Node, Answering(p), ReceiveStep2(p),
         Head(wire[Other(p)]) = step2[Other(p)],
         NEW c \in CallId, kex[p] = <<p, c>>
  PROVE  signal'[p][c] = step2[Other(p)] /\ step2[Other(p)] # None
<1>1. /\ signal'[p][c] = IF c = waiter[p] THEN Head(wire[Other(p)]) ELSE signal[p][c]
  BY ReceiveStep2Effect DEF Calm
<1>2. pc[p][c] = "waiting" /\ role[p] = "initiator" /\ AnswerDue(p, Other(p), c)
      /\ step2[Other(p)] # None
  BY DEF Answering, Sent, Responds
<1>3. signal[p][c] = None => waiter[p] = c
  BY <1>2 DEF Calm, Task, Pends, Yielding
<1>4. QED  BY <1>1, <1>2, <1>3 DEF AnswerDue

LEMMA ReceivesAnswering ==
  ASSUME Calm, NEW p \in Node, Answering(p), ReceiveStep2(p),
         Head(wire[Other(p)]) = step2[Other(p)]
  PROVE  Answering(p)'
<1> DEFINE q == Other(p)
           s == wire[q]
<1>0. /\ Takes(p, 2) /\ SameSession(p) /\ pc'[p] = pc[p]
      /\ replaced' = replaced /\ \A r \in Node : r # p => Stays(r)
  BY ReceiveStep2Effect DEF Calm
<1>1. q \in Node /\ q # p /\ Other(q) = p /\ Stays(q)
  BY <1>0, OtherFacts
<1>2. /\ Responds(q)' <=> Responds(q)
      /\ answered'[q] = answered[q] /\ step2'[q] = step2[q] /\ reply'[q] = reply[q]
  BY <1>0, <1>1, StaysParts
<1>3. role'[p] = role[p] /\ kex'[p] = kex[p] /\ (Sent(p)' <=> Sent(p))
  BY <1>0 DEF SameSession, Sent
<1>4. s \in Seq(Frame) /\ s # <<>> /\ Head(s).step = 2 /\ wire'[q] = Tail(s) /\ wire'[p] = wire[p]
  BY <1>0 DEF Takes
<1>5. /\ role[p] = "initiator" /\ Responds(q) /\ answered[q] = kex[p] /\ Sent(p)
      /\ Only(wire[p], Step1(kex[p]))
      /\ \A i \in 1 .. Len(s) : (s[i].step = 1 /\ p = First) \/ s[i] = step2[q]
      /\ Before(s, 1)
      /\ \A c \in CallId : kex[p] = <<p, c>> => AnswerDue(p, q, c)
  BY DEF Answering
<1>6. ASSUME NEW c \in CallId, kex[p] = <<p, c>>
      PROVE  signal'[p][c] = step2[q] /\ step2[q] # None
  BY <1>6, ReceivesAnswer
<1> HIDE DEF q
<1> DEFINE t == Tail(s)
<1>7. /\ \A i \in 1 .. Len(t) : (t[i].step = 1 /\ p = First) \/ t[i] = step2[q]
      /\ Before(t, 1) /\ ~ Has(t, 1)
      /\ Len(s) \in Nat /\ Len(t) = Len(s) - 1 /\ Len(s) >= 1 /\ s[1].step = 2
  <2> HIDE DEF s
  <2>1. /\ Len(t) = Len(s) - 1 /\ Len(s) \in Nat /\ Len(s) >= 1 /\ Head(s) = s[1]
        /\ \A i \in 1 .. Len(t) : t[i] = s[i + 1] /\ i + 1 \in 2 .. Len(s)
    BY <1>4, TailFacts
  <2>2. Before(t, 1) /\ ~ Has(t, 1)
    BY <1>4, <1>5, BeforeTail
  <2>4. \A i \in 1 .. Len(t) : i + 1 \in 1 .. Len(s)
    BY <2>1
  <2> HIDE DEF t
  <2>5. QED  BY <1>4, <1>5, <2>1, <2>2, <2>4
<1>8. t = wire'[q]
  BY <1>4
<1> HIDE DEF t
<1>9. ASSUME NEW c \in CallId, kex'[p] = <<p, c>>  PROVE AnswerDue(p, q, c)'
  <2>1. AnswerDue(p, q, c) /\ signal'[p][c] = step2[q] /\ step2[q] # None
    BY <1>3, <1>5, <1>6, <1>9
  <2>2. ASSUME replaced = 0
        PROVE  /\ wire[p] = <<>> /\ reply[q] = None
               /\ \A i \in 1 .. Len(t) : FALSE
    <3>1. wire[p] = <<>> /\ (reply[q] # None => ~ Has(s, 2))
          /\ \A i \in 1 .. Len(s) : s[i].step = 2 => i = Len(s)
      BY <2>1, <2>2 DEF AnswerDue
    <3>2. 1 \in 1 .. Len(s)
      BY <1>7
    <3>3. Has(s, 2) /\ Len(s) = 1
      BY <1>7, <3>1, <3>2 DEF Has
    <3>4. QED  BY <1>7, <3>1, <3>3
  <2>3. QED
    BY <1>0, <1>2, <1>4, <1>7, <1>8, <2>1, <2>2 DEF AnswerDue, Has
<1>10. Only(wire[p], Step1(kex[p]))'
  BY <1>3, <1>4, <1>5 DEF Only
<1>11. Before(wire[q], 1)'
  BY <1>7, <1>8 DEF Before
<1>12. QED
  BY <1>2, <1>3, <1>5, <1>7, <1>8, <1>9, <1>10, <1>11 DEF Answering, q

\* The answer once more, after its call took it.
LEMMA LateFinishing ==
  ASSUME Calm, NEW p \in Node, Finishing(p), ReceiveStep2(p), replaced # 0,
         role[p] = "none", waiter[p] = NoCall
  PROVE  Finishing(p)'
<1> DEFINE q == Other(p)
           s == wire[q]
<1>0. /\ Takes(p, 2) /\ SameSession(p) /\ pc'[p] = pc[p]
      /\ replaced' = replaced /\ \A r \in Node : r # p => Stays(r)
      /\ waiter'[p] = NoCall
      /\ \A d \in CallId : signal'[p][d] = IF d = waiter[p] THEN Head(s) ELSE signal[p][d]
  BY ReceiveStep2Effect DEF Calm
<1>1. q \in Node /\ q # p /\ Other(q) = p /\ Stays(q)
  BY <1>0, OtherFacts
<1>2. /\ Responds(q)' <=> Responds(q)
      /\ answered'[q] = answered[q] /\ step2'[q] = step2[q] /\ crypto'[q] = crypto[q]
  BY <1>0, <1>1, StaysParts
<1>3. /\ Responds(q) /\ answered[q] # None /\ answered[q] # kex[p] /\ NoAnswers(p)
      /\ Unsent(p, answered[q]) \/ FinishSent(p, answered[q])
      /\ Only(s, step2[q])
      /\ crypto[p] = SasPending(crypto[q].key)
  BY DEF Finishing
<1>4. \A d \in CallId : signal'[p][d] = signal[p][d]
  BY <1>0, CallFacts
<1>5. /\ role'[p] = "none" /\ kex'[p] = kex[p] /\ crypto'[p] = crypto[p]
      /\ NoAnswers(p)' /\ (NotFinishing(p)' <=> NotFinishing(p))
  BY <1>0, <1>3, <1>4 DEF SameSession, NoAnswers, NotFinishing
<1>6. s \in Seq(Frame) /\ s # <<>> /\ wire'[q] = Tail(s) /\ wire'[p] = wire[p]
  BY <1>0 DEF Takes
<1> HIDE DEF q
<1>7. Only(wire[q], step2[q])'
  <2>1. Only(Tail(s), step2[q])
    BY <1>3, <1>6, OnlyTail
  <2>2. QED  BY <1>2, <1>6, <2>1 DEF Only
<1>8. Unsent(p, answered[q])' \/ FinishSent(p, answered[q])'
  <2>1. Unsent(p, answered[q]) => Unsent(p, answered[q])'
    BY <1>0, <1>2, <1>6 DEF Unsent, Only
  <2>2. ASSUME NEW k, FinishAt(p, answered[q], k)  PROVE FinishAt(p, answered[q], k)'
    BY <1>0, <1>2, <1>5, <1>6, <2>2 DEF FinishAt
  <2>3. FinishSent(p, answered[q]) => FinishSent(p, answered[q])'
    BY <1>5, <1>6, <2>2 DEF FinishSent
  <2>4. QED  BY <1>3, <2>1, <2>3
<1>9. QED
  BY <1>0, <1>2, <1>3, <1>5, <1>7, <1>8 DEF Finishing, q

LEMMA ReceiveStep2Phase ==
  ASSUME Calm, Phase, NEW p \in Node, ReceiveStep2(p)
  PROVE  Phase'
<1>1. CASE Open /\ Over(p)
  BY <1>1, LateOpen DEF Phase
<1>2. CASE Answering(p) /\ Head(wire[Other(p)]) = step2[Other(p)]
  BY <1>2, ReceivesAnswering DEF Phase
<1>3. CASE Finishing(p) /\ replaced # 0 /\ role[p] = "none" /\ waiter[p] = NoCall
  BY <1>3, LateFinishing DEF Phase
<1>4. QED  BY <1>1, <1>2, <1>3, Step2Cases

-----------------------------------------------------------------------------
(* The read loop: step 3 *)

LEMMA Step3Case ==
  ASSUME Calm, Phase, NEW p \in Node, ReceiveStep3(p)
  PROVE  LET q == Other(p)
         IN Finishing(q) /\ NotFinishing(q) /\ FinishAt(q, answered[p], 1)
<1> DEFINE q == Other(p)
           s == wire[q]
<1>1. Takes(p, 3) /\ q \in Node /\ Other(q) = p /\ \A r \in Node : r = p \/ r = q
  BY ReceiveStep3Effect, OtherFacts DEF Calm
<1>2. 1 \in 1 .. Len(s) /\ s[1].step = 3 /\ s \in Seq(Frame)
  BY <1>1, FirstFrame DEF Takes
<1>3. \A a : s[1] # Step1(a)
  BY <1>2, Step1Facts
<1>4. ~ Open
  BY <1>1, <1>2, <1>3 DEF Open, Unanswered, OpenWire
<1>5. Responds(q) => s[1] # step2[q]
  BY <1>1, <1>2, FrameTypes, TypeParts DEF Calm, Responds, SessionTypes
<1>6. ~ Answering(p)
  BY <1>2, <1>5 DEF Answering
<1>7. ~ Answering(q)
  BY <1>2, <1>3 DEF Answering, Only
<1>8. ~ Finishing(p)
  BY <1>2, <1>5 DEF Finishing, Only
<1>9. Finishing(q) => NotFinishing(q) /\ FinishAt(q, answered[p], 1)
  BY <1>2, <1>3, FirstFinishing
<1> HIDE DEF q, s
<1>10. Finishing(q)
  BY <1>1, <1>4, <1>6, <1>7, <1>8 DEF Phase
<1>11. QED  BY <1>9, <1>10 DEF q

LEMMA ReceiveStep3Phase ==
  ASSUME Calm, Phase, NEW p \in Node, ReceiveStep3(p)
  PROVE  Phase'
<1> DEFINE q == Other(p)
           s == wire[q]
<1>1. Finishing(q) /\ NotFinishing(q) /\ FinishAt(q, answered[p], 1)
  BY Step3Case
<1>2. q \in Node /\ q # p /\ Other(q) = p /\ \A r \in Node : r = p \/ r = q
  BY OtherFacts
<1>3. /\ role[q] # "responder" /\ NoAnswers(q) /\ Responds(p)
      /\ answered[p] # None /\ answered[p] # kex[q]
      /\ role[q] = "none" => crypto[q] = SasPending(crypto[p].key) /\ waiter[q] = NoCall
      /\ Only(wire[p], step2[p])
      /\ replaced = 0 => wire[p] = <<>>
      /\ role[q] = "initiator" => replaced = 0
  BY <1>1, <1>2 DEF Finishing
<1>4. role[p] = "responder"
  BY <1>3 DEF Responds
<1>5. /\ Takes(p, 3) /\ SameChannel(p) /\ pc'[p] = pc[p] /\ replaced' = replaced
      /\ \A r \in Node : r # p => Stays(r)
      /\ role'[p] = "none" /\ crypto'[p] = SasPending(crypto[p].key)
      /\ answered'[p] = answered[p]
  BY <1>4, ReceiveStep3Effect DEF Calm
<1>6. /\ NoAnswers(q)' <=> NoAnswers(q)
      /\ NotFinishing(q)' <=> NotFinishing(q)
      /\ Sent(q)' <=> Sent(q)
      /\ Over(q)' <=> Over(q)
      /\ role'[q] = role[q] /\ kex'[q] = kex[q] /\ crypto'[q] = crypto[q]
      /\ answered'[q] = answered[q]
  BY <1>2, <1>5, StaysParts
<1>7. s \in Seq(Frame) /\ s # <<>> /\ wire'[q] = Tail(s) /\ wire'[p] = wire[p]
  BY <1>5 DEF Takes
<1>8. wire[p] = <<>> \/ Over(q)
  <2>1. ASSUME replaced # 0  PROVE Over(q)
    <3>1. role[q] # "initiator" /\ waiter[q] = NoCall
      BY <1>2, <1>3, <2>1, TypeParts DEF Calm, SessionTypes
    <3>2. calls[q] > 0
      <4>1. answered[p][2] \in Nat /\ answered[p][2] >= 1
        BY <1>3, AnsweredFacts DEF Calm
      <4>2. answered[p][2] <= calls[q]
        BY <1>3 DEF Calm, Task, Knows
      <4>3. calls[q] \in Nat
        BY <1>2, TypeFunctions DEF Calm
      <4>4. QED  BY <4>1, <4>2, <4>3
    <3>3. replaced > 0
      BY <2>1 DEF Calm, HandshakeInv, Shape, CountShape
    <3>4. QED  BY <3>1, <3>2, <3>3 DEF Over
  <2>2. QED  BY <1>3, <2>1
<1> HIDE DEF q
<1>9. OpenWire(p)'
  <2>1. wire[p] \in Seq(Frame) /\ \A i \in 1 .. Len(wire[p]) : wire[p][i].step = 2
    BY <1>3, FrameTypes, TypeFunctions, TypeParts DEF Calm, Responds, SessionTypes, Only
  <2>2. \A i \in 1 .. Len(wire'[p]) : wire'[p][i].step = 2 /\ Over(q)'
    <3>1. wire[p] = <<>> => \A i \in 1 .. Len(wire[p]) : FALSE
      OBVIOUS
    <3>2. QED  BY <1>6, <1>7, <1>8, <2>1, <3>1
  <2>3. Before(wire[p], 2)'
    BY <1>7, <2>1 DEF Before
  <2>4. replaced' = 0 => Len(wire'[p]) <= 1
    <3>1. wire[p] = <<>> => Len(wire[p]) <= 1
      OBVIOUS
    <3>2. QED  BY <1>3, <1>5, <1>7, <3>1
  <2>5. QED  BY <1>5, <2>2, <2>3, <2>4 DEF OpenWire, q
<1>10. OpenWire(q)'
  <2>1. /\ \A i \in 2 .. Len(s) : s[i] = Step1(kex[q]) /\ role[q] = "initiator" /\ Sent(q)
        /\ replaced = 0 => Len(s) <= 2
        /\ role[q] = "initiator" /\ Sent(q) => Len(s) > 1
    BY <1>1 DEF FinishAt
  <2> DEFINE t == Tail(s)
  <2>2. /\ \A i \in 1 .. Len(t) : t[i] = Step1(kex[q]) /\ role[q] = "initiator" /\ Sent(q)
        /\ (replaced = 0 => Len(t) <= 1) /\ t \in Seq(Frame)
        /\ role[q] = "initiator" /\ Sent(q) => 1 \in 1 .. Len(t)
    <3> HIDE DEF s
    <3>1. /\ Len(s) \in Nat /\ Len(t) = Len(s) - 1 /\ t \in Seq(Frame)
          /\ \A i \in 1 .. Len(t) : t[i] = s[i + 1] /\ i + 1 \in 2 .. Len(s)
      BY <1>7, TailFacts
    <3> HIDE DEF t
    <3>2. replaced = 0 => Len(t) <= 1
      BY <2>1, <3>1
    <3>3. role[q] = "initiator" /\ Sent(q) => 1 \in 1 .. Len(t)
      BY <2>1, <3>1
    <3>5. QED  BY <2>1, <3>1, <3>2, <3>3
  <2>3. t = wire'[q]
    BY <1>7
  <2> HIDE DEF t, s
  <2>4. \A i \in 1 .. Len(t) : t[i].step = 1
    BY <2>2, Step1Facts
  <2>5. Before(t, 2)
    BY <2>4 DEF Before
  <2>6. role[q] = "initiator" /\ Sent(q) => Has(t, 1)
    BY <2>2, <2>4 DEF Has
  <2>7. Before(wire[q], 2)' /\ (role[q] = "initiator" /\ Sent(q) => Has(wire[q], 1)')
    BY <2>3, <2>5, <2>6 DEF Before, Has
  <2>8. \A i \in 1 .. Len(wire'[q]) :
             wire'[q][i] = Step1(kex'[q]) /\ role'[q] = "initiator" /\ Sent(q)'
    BY <1>6, <2>2, <2>3
  <2>9. QED  BY <1>2, <1>3, <1>5, <1>6, <2>2, <2>3, <2>7, <2>8 DEF OpenWire
<1>11. Unanswered(p)'
  <2>1. NoAnswers(p)' /\ NotFinishing(p)'
    BY <1>3, <1>5 DEF Responds, NoAnswers, NotFinishing, SameChannel
  <2>2. QED  BY <1>5, <1>9, <2>1 DEF Unanswered, SasPending
<1>12. Unanswered(q)'
  <2>1. role[q] = "none" => crypto[q].trust = "sas"
    BY <1>3 DEF SasPending
  <2>2. QED  BY <1>1, <1>3, <1>6, <1>10, <2>1 DEF Unanswered
<1>13. Agree'
  <2>1. role'[q] = "none" => crypto'[q] = crypto'[p]
    BY <1>3, <1>5, <1>6
  <2>2. QED  BY <1>2, <2>1 DEF Agree
<1>14. Open'
  BY <1>2, <1>11, <1>12, <1>13 DEF Open
<1>15. QED  BY <1>14 DEF Phase

-----------------------------------------------------------------------------
(* The connection is replaced *)

\* t is what the link held, or what is left of it.
Rest(t, s) == t = s \/ t = Survivors(s)
Part(t, s) == \A i \in 1 .. Len(t) : \E j \in 1 .. Len(s) : t[i] = s[j]

LEMMA RestFacts ==
  ASSUME NEW s \in Seq(Frame), NEW t, Rest(t, s)
  PROVE  /\ t \in Seq(Frame)
         /\ Part(t, s)
         /\ Has(t, 1) <=> Has(s, 1)
         /\ Before(s, 1) => Before(t, 1)
         /\ Before(s, 2) => Before(t, 2)
<1>1. CASE t = s
  BY <1>1 DEF Part
<1>2. CASE t = Survivors(s)
  <2>1. t \in Seq(Frame) /\ Frames(t) = {f \in Frames(s) : f.step = 1}
    BY <1>2, SurvivorsFacts
  <2>2. Part(t, s)
    BY <2>1 DEF Frames, Part
  <2>3. Has(t, 1) <=> Has(s, 1)
    BY <2>1, HasFacts
  <2>4. ~ Has(t, 2)
    BY <2>1, HasFacts
  <2>5. Before(t, 1) /\ Before(t, 2)
    BY <2>1, <2>4, BeforeOnly
  <2>6. QED  BY <2>1, <2>2, <2>3, <2>5
<1>3. QED  BY <1>1, <1>2 DEF Rest

\* Step 1 goes out once more, over the new connection.
LEMMA InboundFacts ==
  ASSUME Calm, NEW p \in Node, InboundConnection(p), ~ Starting(p)
  PROVE  LET q == Other(p)
         IN /\ q \in Node /\ q # p /\ Other(q) = p /\ \A r \in Node : r = p \/ r = q
            /\ SameSession(p) /\ SameChannel(p) /\ pc'[p] = pc[p]
            /\ role[p] = "initiator" /\ calls[p] <= 1
            /\ Stays(q) /\ Sent(p) /\ Sent(p)' /\ replaced' > 0 /\ (Over(q) => Over(q)')
            /\ \E s \in {<<>>, wire[p]} : wire'[p] = Append(s, Step1(kex[p]))
            /\ wire[p] \in Seq(Frame) /\ wire[q] \in Seq(Frame)
            /\ Rest(wire'[q], wire[q])
<1> DEFINE q == Other(p)
<1>1. q \in Node /\ q # p /\ Other(q) = p /\ \A r \in Node : r = p \/ r = q
  BY OtherFacts
<1>2. /\ SameSession(p) /\ SameChannel(p) /\ pc'[p] = pc[p]
      /\ role[p] = "initiator" /\ calls[p] <= 1
      /\ replaced' = replaced + 1 /\ replaced \in Nat
      /\ \A r \in Node : r # p => Stays(r)
      /\ \E s \in {<<>>, wire[p]} : wire'[p] = Append(s, Step1(kex[p]))
      /\ Rest(wire'[q], wire[q])
  BY InboundEffect DEF Calm, Rest
<1>3. Sent(p)
  <2>1. PICK d \in CallId : kex[p] = <<p, d>> /\ pc[p][d] \in {"begun", "registered", "waiting"}
    BY <1>2 DEF Calm, Task, Attempting
  <2>2. QED  BY <2>1 DEF Starting, Sent
<1>4. Sent(p)'
  BY <1>2, <1>3 DEF Sent, SameSession
<1>5. replaced' > 0
  BY <1>2
<1>6. Stays(q)
  BY <1>1, <1>2
<1>7. Over(q) => Over(q)'
  BY <1>5, <1>6 DEF Over, Stays, Untouched
<1>8. wire[p] \in Seq(Frame) /\ wire[q] \in Seq(Frame)
  BY <1>1, TypeFunctions DEF Calm
<1>9. QED  BY <1>1, <1>2, <1>3, <1>4, <1>5, <1>6, <1>7, <1>8

Again(t, f, s) ==
  \A i \in 1 .. Len(t) : t[i] = f \/ \E j \in 1 .. Len(s) : t[i] = s[j]

LEMMA AppendAgain ==
  ASSUME Calm, NEW p \in Node, wire[p] \in Seq(Frame), NEW f,
         NEW s \in {<<>>, wire[p]}
  PROVE  /\ s \in Seq(Frame)
         /\ Again(Append(s, f), f, wire[p])
         /\ Append(s, f) # <<>>
<1> DEFINE w == wire[p]
<1> HIDE DEF w
<1>1. w \in Seq(Frame) /\ s \in {<<>>, w}
  BY DEF w
<1>2. s \in Seq(Frame) /\ \A i \in 1 .. Len(s) : i \in 1 .. Len(w) /\ s[i] = w[i]
  <2>1. CASE s = w
    BY <1>1, <2>1
  <2>2. CASE s = <<>>
    BY <2>2
  <2>3. QED  BY <1>1, <2>1, <2>2
<1> DEFINE t == Append(s, f)
<1>3. /\ \A i \in 1 .. Len(s) : t[i] = s[i]
      /\ t[Len(s) + 1] = f /\ Len(t) = Len(s) + 1 /\ Len(s) \in Nat
      /\ \A i \in 1 .. Len(t) : i \in 1 .. Len(s) \/ i = Len(s) + 1
  BY <1>2, AppendFacts
<1>4. t # <<>>
  BY <1>3
<1> HIDE DEF t
<1>5. \A i \in 1 .. Len(t) : t[i] = f \/ \E j \in 1 .. Len(w) : t[i] = w[j]
  BY <1>2, <1>3
<1>6. Again(t, f, w)
  BY <1>5 DEF Again
<1>7. QED  BY <1>2, <1>4, <1>6 DEF t, w

LEMMA InboundOpen ==
  ASSUME Calm, Open, NEW p \in Node, InboundConnection(p), ~ Starting(p)
  PROVE  Open'
<1> DEFINE q == Other(p)
           f == Step1(kex[p])
<1>0. /\ q \in Node /\ q # p /\ Other(q) = p /\ \A r \in Node : r = p \/ r = q
      /\ SameSession(p) /\ SameChannel(p) /\ pc'[p] = pc[p]
      /\ role[p] = "initiator"
      /\ Stays(q) /\ Sent(p) /\ Sent(p)' /\ replaced' > 0 /\ (Over(q) => Over(q)')
      /\ \E s \in {<<>>, wire[p]} : wire'[p] = Append(s, Step1(kex[p]))
      /\ wire[p] \in Seq(Frame) /\ wire[q] \in Seq(Frame)
      /\ Rest(wire'[q], wire[q])
  BY InboundFacts
<1>1. PICK s \in {<<>>, wire[p]} : wire'[p] = Append(s, f)
  BY <1>0
<1>2. Unanswered(p) /\ Unanswered(q)
  BY <1>0 DEF Open
<1>3. /\ role'[q] = role[q] /\ kex'[q] = kex[q] /\ crypto'[q] = crypto[q]
      /\ answered'[q] = answered[q] /\ (Sent(q)' <=> Sent(q))
      /\ (NoAnswers(q)' <=> NoAnswers(q)) /\ (NotFinishing(q)' <=> NotFinishing(q))
  BY <1>0 DEF Stays, Untouched, Sent, NoAnswers, NotFinishing
<1>4. role'[p] = "initiator" /\ kex'[p] = kex[p] /\ answered'[p] = answered[p]
  BY <1>0 DEF SameSession
<1>5. replaced' # 0
  BY <1>0
<1> HIDE DEF q, f
<1>6. OpenWire(p)'
  <2> DEFINE w == wire[p]
             t == Append(s, f)
  <2>1. /\ \A i \in 1 .. Len(w) : w[i] = f \/ (w[i].step = 2 /\ Over(q))
        /\ Before(w, 2) /\ answered[q] # kex[p]
    BY <1>0, <1>2 DEF Unanswered, OpenWire, q, f
  <2>2. /\ s \in Seq(Frame)
        /\ Again(t, f, w)
    <3>1. wire[p] \in Seq(Frame) /\ s \in {<<>>, wire[p]}
      BY <1>0, <1>1
    <3>2. QED  BY <3>1, AppendAgain
  <2>3. f.step = 1 /\ f = Step1(kex'[p])
    BY <1>4, Step1Facts DEF f
  <2>4. Before(s, 2)
    <3>1. Before(<<>>, 2)
      BY DEF Before
    <3>2. QED  BY <1>1, <2>1, <3>1
  <2>5. t = wire'[p]
    BY <1>1
  <2>6. Before(t, 2) /\ Has(t, 1)
    BY <2>2, <2>3, <2>4, BeforeAppend, HasAppend
  <2> HIDE DEF w, t
  <2>7. \A i \in 1 .. Len(wire'[p]) :
          \/ wire'[p][i] = Step1(kex'[p]) /\ role'[p] = "initiator" /\ Sent(p)'
          \/ wire'[p][i].step = 2 /\ Over(q)'
    BY <1>0, <1>4, <2>1, <2>2, <2>3, <2>5 DEF Again
  <2>8. Before(wire[p], 2)' /\ Has(wire[p], 1)'
    BY <2>5, <2>6 DEF Before, Has
  <2>9. QED  BY <1>3, <1>4, <1>5, <2>1, <2>7, <2>8 DEF OpenWire, q
<1>7. OpenWire(q)'
  <2> DEFINE w == wire[q]
  <2>1. /\ \A i \in 1 .. Len(w) : w[i] = Step1(kex[q]) /\ role[q] = "initiator" /\ Sent(q)
        /\ Before(w, 2)
        /\ role[q] = "initiator" =>
             /\ answered[p] # kex[q]
             /\ Sent(q) /\ ~ Has(w, 1) => role[p] = "initiator" /\ p = First
    BY <1>0, <1>2 DEF Unanswered, OpenWire, Over
  <2>2. PICK t : t = wire'[q]
    OBVIOUS
  <2>3. Rest(t, w)
    BY <1>0, <2>2
  <2>4. Part(t, w) /\ (Has(t, 1) <=> Has(w, 1)) /\ Before(t, 2)
    <3>1. w \in Seq(Frame) /\ Before(w, 2)
      BY <1>0, <2>1
    <3> HIDE DEF w
    <3>2. QED  BY <2>3, <3>1, RestFacts
  <2> HIDE DEF w
  <2>5. \A i \in 1 .. Len(wire'[q]) :
             wire'[q][i] = Step1(kex'[q]) /\ role'[q] = "initiator" /\ Sent(q)'
    BY <1>3, <2>1, <2>2, <2>4 DEF Part
  <2>6. Before(wire[q], 2)' /\ (Has(wire[q], 1)' <=> Has(w, 1))
    BY <2>2, <2>4 DEF Before, Has
  <2>7. QED  BY <1>0, <1>3, <1>4, <1>5, <2>1, <2>5, <2>6 DEF OpenWire
<1>8. Unanswered(p)'
  <2>1. NoAnswers(p)' /\ NotFinishing(p)'
    BY <1>0, <1>2 DEF Unanswered, NoAnswers, NotFinishing, SameChannel
  <2>2. QED  BY <1>4, <1>6, <2>1 DEF Unanswered
<1>9. Unanswered(q)'
  BY <1>2, <1>3, <1>7 DEF Unanswered
<1>10. Agree'
  BY <1>4 DEF Agree
<1>11. QED  BY <1>0, <1>8, <1>9, <1>10 DEF Open

LEMMA InboundAnswering ==
  ASSUME Calm, NEW p \in Node, Answering(p), InboundConnection(p), ~ Starting(p)
  PROVE  Answering(p)'
<1> DEFINE q == Other(p)
           f == Step1(kex[p])
<1>0. /\ q \in Node /\ q # p /\ Other(q) = p
      /\ SameSession(p) /\ SameChannel(p)
      /\ Stays(q) /\ Sent(p)' /\ replaced' > 0
      /\ \E s \in {<<>>, wire[p]} : wire'[p] = Append(s, Step1(kex[p]))
      /\ wire[p] \in Seq(Frame) /\ wire[q] \in Seq(Frame)
      /\ Rest(wire'[q], wire[q])
  BY InboundFacts
<1>1. PICK s \in {<<>>, wire[p]} : wire'[p] = Append(s, f)
  BY <1>0
<1>2. /\ role[p] = "initiator" /\ Responds(q) /\ answered[q] = kex[p]
      /\ Only(wire[p], f)
      /\ \A i \in 1 .. Len(wire[q]) : (wire[q][i].step = 1 /\ p = First) \/ wire[q][i] = step2[q]
      /\ Before(wire[q], 1)
      /\ \A c \in CallId : kex[p] = <<p, c>> => AnswerDue(p, q, c)
  BY DEF Answering
<1>3. Responds(q)' /\ answered'[q] = answered[q] /\ step2'[q] = step2[q]
  BY <1>0, <1>2 DEF Stays, Untouched, Responds, NoAnswers, NotFinishing
<1>4. role'[p] = "initiator" /\ kex'[p] = kex[p] /\ signal'[p] = signal[p]
  BY <1>0, <1>2 DEF SameSession, SameChannel
<1>5. replaced' # 0
  BY <1>0
<1> HIDE DEF q, f
<1>6. Only(wire[p], Step1(kex[p]))' /\ wire'[p] # <<>>
  <2> DEFINE w == wire[p]
             t == Append(s, f)
  <2>1. Again(t, f, w) /\ t # <<>>
    <3>1. wire[p] \in Seq(Frame) /\ s \in {<<>>, wire[p]}
      BY <1>0, <1>1
    <3>2. QED  BY <3>1, AppendAgain
  <2>2. t = wire'[p] /\ f = Step1(kex'[p]) /\ Only(w, f)
    BY <1>1, <1>2, <1>4 DEF f
  <2> HIDE DEF w, t
  <2>3. \A i \in 1 .. Len(t) : t[i] = f
    BY <2>1, <2>2 DEF Only, Again
  <2>4. QED  BY <2>1, <2>2, <2>3 DEF Only
<1>7. PICK t : t = wire'[q]
  OBVIOUS
<1>8. Rest(t, wire[q])
  BY <1>0, <1>7
<1>9. Part(t, wire[q]) /\ (Has(t, 1) <=> Has(wire[q], 1)) /\ Before(t, 1)
  <2>1. wire[q] \in Seq(Frame) /\ Before(wire[q], 1)
    BY <1>0, <1>2
  <2>2. QED  BY <1>8, <2>1, RestFacts
<1>10. \A i \in 1 .. Len(t) : (t[i].step = 1 /\ p = First) \/ t[i] = step2[q]
  BY <1>2, <1>9 DEF Part
<1>11. ASSUME NEW c \in CallId, kex'[p] = <<p, c>>  PROVE AnswerDue(p, q, c)'
  <2>1. AnswerDue(p, q, c)
    BY <1>2, <1>4, <1>11
  <2>2. QED
    BY <1>3, <1>4, <1>5, <1>6, <1>7, <1>9, <2>1 DEF AnswerDue, Has
<1>12. Before(wire[q], 1)'
  BY <1>7, <1>9 DEF Before
<1>13. QED
  BY <1>0, <1>2, <1>3, <1>4, <1>6, <1>7, <1>10, <1>11, <1>12 DEF Answering, q

LEMMA InboundPhase ==
  ASSUME Calm, Phase, NEW p \in Node, InboundConnection(p), ~ Starting(p)
  PROVE  Phase'
<1> DEFINE q == Other(p)
<1>1. /\ q \in Node /\ Other(q) = p /\ \A r \in Node : r = p \/ r = q
      /\ role[p] = "initiator" /\ calls[p] <= 1
  BY InboundFacts
<1>2. ~ Answering(q) /\ ~ Finishing(q)
  BY <1>1 DEF Answering, Finishing, Responds
<1>3. ~ Finishing(p)
  <2>1. SUFFICES ASSUME Finishing(p)  PROVE FALSE
    OBVIOUS
  <2>2. answered[q] # None /\ answered[q] # kex[p]
    BY <2>1 DEF Finishing
  <2>3. PICK c \in CallId : kex[p] = <<p, c>>
    BY <1>1 DEF Calm, Task, Attempting
  <2>4. kex[p][2] <= calls[p]
    BY <1>1, AttemptKnown
  <2>5. answered[q][1] = p /\ answered[q][2] <= calls[p]
    BY <1>1, <2>2 DEF Calm, Task, Knows
  <2>6. answered[q][2] \in Nat /\ answered[q][2] >= 1 /\ answered[q] \in Attempts
    BY <1>1, <2>2, AnsweredFacts DEF Calm
  <2>7. c \in Nat /\ c >= 1 /\ calls[p] \in Nat
    BY TypeFunctions, HandshakeAssumption DEF Calm, CallId
  <2>8. c = answered[q][2]
    BY <1>1, <2>3, <2>4, <2>5, <2>6, <2>7
  <2>9. answered[q] = <<p, c>>
    BY <2>5, <2>6, <2>8 DEF Attempts
  <2>10. QED  BY <2>2, <2>3, <2>9
<1> HIDE DEF q
<1>4. Open \/ Answering(p)
  BY <1>1, <1>2, <1>3 DEF Phase
<1>5. QED  BY <1>4, InboundOpen, InboundAnswering DEF Phase

-----------------------------------------------------------------------------
(* What is timely stays so *)

LEMMA FewLater ==
  ASSUME Calm, NEW p \in Node, calls'[p] = calls[p], replaced' = replaced,
         \A r \in Node : r # p => Stays(r)
  PROVE  FewCalls'
BY DEF Calm, FewCalls, Stays, Untouched

LEMMA TimelyLater ==
  ASSUME Calm, NEW p \in Node, Task(p)', FewCalls', Phase',
         \A r \in Node : r # p => Stays(r),
         calls'[p] = calls[p] \/ calls'[p] = calls[p] + 1
  PROVE  Timely'
<1>1. ASSUME NEW r \in Node, r # p  PROVE Task(r)'
  <2>1. Other(r) = p
    BY <1>1, OtherFacts
  <2>2. QED  BY <1>1, <2>1, TaskStays DEF Calm
<1>2. QED  BY <1>1 DEF Timely

LEMMA CallTimely ==
  ASSUME Calm, Phase, NEW p \in Node, Join(p) \/ Begin(p),
         Begin(p) => \A d \in CallId : ~ Started(p, d)
  PROVE  Timely'
<1>1. /\ calls'[p] = calls[p] + 1 /\ replaced' = replaced
      /\ \A r \in Node : r # p => Stays(r)
  <2>1. CASE Join(p) \/ (Begin(p) /\ role[p] = "responder")
    BY <2>1, JoinEffect DEF Calm
  <2>2. CASE Begin(p) /\ role[p] # "responder"
    BY <2>2, BeginEffect DEF Calm
  <2>3. QED  BY <2>1, <2>2
<1>2. FewCalls'
  <2>1. SUFFICES ASSUME replaced > 0  PROVE \A r \in Node : calls'[r] <= 1
    BY <1>1 DEF FewCalls
  <2>2. calls[p] < CallsLeft /\ calls[p] \in Nat
    BY TypeFunctions DEF Join, Begin, Call, Calm
  <2>3. CallsLeft = 1
    BY <2>1 DEF CallsLeft, CallsInTrouble, Calm, HandshakeInv, Shape, CountShape
  <2>4. \A r \in Node : r # p => calls'[r] <= 1
    BY <1>1, <2>1 DEF Calm, FewCalls, Stays, Untouched
  <2>5. QED  BY <1>1, <2>2, <2>3, <2>4
<1>3. Task(p)' /\ Phase'
  <2>1. CASE Join(p) \/ (Begin(p) /\ role[p] = "responder")
    BY <2>1, JoinTask, JoinLooks, LooksPhase DEF Calm
  <2>2. CASE Begin(p) /\ role[p] # "responder"
    BY <2>2, BeginTask, BeginPhase DEF Calm
  <2>3. QED  BY <2>1, <2>2
<1>4. QED  BY <1>1, <1>2, <1>3, TimelyLater

LEMMA InboundTimely ==
  ASSUME Calm, Phase, NEW p \in Node, InboundConnection(p), ~ Starting(p)
  PROVE  Timely'
<1>1. /\ calls'[p] = calls[p] /\ \A q \in Node : calls[q] <= 1
      /\ \A r \in Node : r # p => Stays(r)
  BY InboundEffect DEF Calm
<1>2. FewCalls'
  BY <1>1 DEF FewCalls, Stays, Untouched
<1>3. Task(p)' /\ Phase'
  BY InboundTask, InboundPhase DEF Calm
<1>4. QED  BY <1>1, <1>2, <1>3, TimelyLater

LEMMA DialTimely ==
  ASSUME Calm, Phase, NEW p \in Node, NEW c \in CallId, DialStep(p, c), ~ hasty'
  PROVE  Timely'
<1>1. CASE Register(p, c)
  <2>1. /\ calls'[p] = calls[p] /\ replaced' = replaced
        /\ \A r \in Node : r # p => Stays(r)
    BY <1>1, RegisterEffect DEF Calm
  <2>2. Task(p)' /\ Phase'
    BY <1>1, RegisterTask, RegisterLooks, LooksPhase DEF Calm
  <2>3. QED  BY <2>1, <2>2, FewLater, TimelyLater
<1>2. CASE SendStep1(p, c) \/ SendStep3(p, c)
  <2>1. /\ calls'[p] = calls[p] /\ replaced' = replaced
        /\ \A r \in Node : r # p => Stays(r)
    BY <1>2, SendEffect DEF Calm
  <2>2. Task(p)'
    BY <1>2, SendTask DEF Calm
  <2>3. Phase'
    BY <1>2, SendStep1Phase, SendStep3Phase
  <2>4. QED  BY <2>1, <2>2, <2>3, FewLater, TimelyLater
<1>3. CASE ProcessStep2(p, c)
  <2>1. /\ calls'[p] = calls[p] /\ replaced' = replaced
        /\ \A r \in Node : r # p => Stays(r)
    BY <1>3, ProcessOwns, ProcessEffect DEF Calm, Owns
  <2>2. Task(p)' /\ Phase'
    BY <1>3, ProcessTask, ProcessPhase DEF Calm
  <2>3. QED  BY <2>1, <2>2, FewLater, TimelyLater
<1>4. CASE Announce(p, c) \/ OutcomeArrives(p, c) \/ AwaitTimeout(p, c) \/ Superseded(p, c)
  <2>1. /\ calls'[p] = calls[p] /\ replaced' = replaced
        /\ \A r \in Node : r # p => Stays(r)
    BY <1>4, PlainEffect DEF Calm
  <2>2. Task(p)' /\ Phase'
    BY <1>4, PlainTask, PlainLooks, LooksPhase DEF Calm
  <2>3. QED  BY <2>1, <2>2, FewLater, TimelyLater
<1>5. ~ ChannelCloses(p, c)
  BY DEF ChannelCloses, Calm, Task, Concludes
<1>6. ASSUME Timeout(p, c), Quiet  PROVE FALSE
  BY <1>6, NoTimeout DEF Timeout, Expires
<1>7. Timeout(p, c) => Quiet \/ AwaitTimeout(p, c)
  <2>1. ASSUME Timeout(p, c), ~ AwaitTimeout(p, c)  PROVE Quiet
    <3>1. pc[p][c] = "waiting" /\ signal[p][c] = None
      BY <2>1 DEF Timeout, Expires
    <3>2. pc'[p][c] = "idle"
      BY <2>1, TypeFunctions, GotoFacts DEF Timeout, Fail, Label, Calm
    <3>3. /\ ~ Register(p, c) /\ ~ SendStep1(p, c) /\ ~ ProcessStep2(p, c)
          /\ ~ SendStep3(p, c) /\ ~ Announce(p, c) /\ ~ Superseded(p, c)
          /\ ~ OutcomeArrives(p, c)
      BY <3>1, FrameFacts
         DEF Register, SendStep1, ProcessStep2, SendStep3, Announce, Superseded,
             OutcomeArrives, Awaits
    <3>4. QED  BY <1>5, <3>3 DEF DialStep
  <2>2. QED  BY <2>1
<1>8. QED  BY <1>1, <1>2, <1>3, <1>4, <1>5, <1>6, <1>7 DEF DialStep

LEMMA ReadTimely ==
  ASSUME Calm, Phase, NEW p \in Node, ReadStep(p), ~ Starting(p)
  PROVE  Timely'
<1>1. /\ calls'[p] = calls[p] /\ replaced' = replaced
      /\ \A r \in Node : r # p => Stays(r)
  BY ReceiveStep1Effect, SendReplyEffect, ReceiveStep2Effect, ReceiveStep3Effect
     DEF ReadStep, Calm
<1>2. Task(p)'
  BY ReceiveStep1Keeps, SendReplyTask, ReceiveStep2Keeps, ReceiveStep3Task DEF ReadStep, Calm
<1>3. Phase'
  BY ReceiveStep1Phase, SendReplyPhase, ReceiveStep2Phase, ReceiveStep3Phase DEF ReadStep
<1>4. QED  BY <1>1, <1>2, <1>3, FewLater, TimelyLater

LEMMA TimelyInit == Init => TimelyInv
<1> SUFFICES ASSUME Init  PROVE Timely
  BY DEF TimelyInv
<1>1. \A p \in Node : Task(p)
  BY DEF Init, Task, OneTask, Started, Opens, Pends, Concludes, Attempting, Replies, Knows,
         None, Closed
<1>2. FewCalls
  BY DEF Init, FewCalls
<1>3. ASSUME NEW p \in Node  PROVE Unanswered(p)
  <2>1. /\ wire[p] = <<>> /\ role[p] = "none" /\ crypto[p].trust = "connected"
    BY DEF Init, Connected
  <2>2. NoAnswers(p) /\ NotFinishing(p)
    BY DEF Init, NoAnswers, NotFinishing
  <2>3. OpenWire(p)
    BY <2>1 DEF OpenWire, Before
  <2>4. QED  BY <2>1, <2>2, <2>3 DEF Unanswered
<1>4. Agree
  BY DEF Init, Agree
<1>5. QED  BY <1>1, <1>2, <1>3, <1>4 DEF Timely, Phase, Open

LEMMA TimelyStep == ASSUME TypeOK, HandshakeInv, TimelyInv, [Next]_vars  PROVE TimelyInv'
<1>1. SUFFICES ASSUME ~ hasty'  PROVE Timely'
  BY DEF TimelyInv
<1>2. ~ hasty
  BY <1>1 DEF Next, Happens, DialStep, ReadStep, vars
<1>3. Calm /\ Phase
  BY <1>2 DEF TimelyInv, Timely, Calm
<1>4. CASE UNCHANGED vars
  <2>1. (\A p \in Node : Stays(p)) /\ wire' = wire /\ replaced' = replaced /\ calls' = calls
    BY <1>4 DEF vars, session, dial, count, Stays, Untouched
  <2>2. \A p \in Node : Task(p)'
    BY <1>3, <2>1, TaskStays DEF Calm
  <2>3. FewCalls'
    BY <1>3, <2>1 DEF Calm, FewCalls
  <2>4. Phase'
    BY <1>3, <2>1, StaysLooks, LooksPhase
  <2>5. QED  BY <2>2, <2>3, <2>4 DEF Timely
<1>5. ASSUME NEW p \in Node, Happens(p)  PROVE Timely'
  <2>1. ASSUME Begin(p), NEW d \in CallId, Started(p, d),
               hasty' = (hasty \/ (serial /\ Running(p) # {}))  PROVE FALSE
    BY <1>1, <2>1 DEF Begin, Dialing, Running, Started
  <2>2. CASE Begin(p) /\ hasty' = (hasty \/ (serial /\ Running(p) # {}))
    BY <1>3, <2>1, <2>2, CallTimely
  <2>3. CASE Join(p) /\ UNCHANGED hasty
    <3>1. CASE Begin(p)
      <4>1. Dialing(p) # {} /\ ~ serial
        BY <2>3 DEF Join
      <4>2. QED  BY <3>1, <4>1 DEF Begin
    <3>2. QED  BY <1>3, <2>3, <3>1, CallTimely
  <2>4. CASE InboundConnection(p) /\ hasty' = (hasty \/ Starting(p))
    BY <1>1, <1>3, <2>4, InboundTimely
  <2>5. QED  BY <1>5, <2>2, <2>3, <2>4 DEF Happens
<1>6. ASSUME NEW p \in Node, NEW c \in CallId, DialStep(p, c)  PROVE Timely'
  BY <1>1, <1>3, <1>6, DialTimely
<1>7. ASSUME NEW p \in Node, ReadStep(p)  PROVE Timely'
  <2>1. ~ Starting(p)
    BY <1>1, <1>7 DEF ReadStep
  <2>2. QED  BY <1>3, <1>7, <2>1, ReadTimely
<1>8. QED  BY <1>4, <1>5, <1>6, <1>7 DEF Next

-----------------------------------------------------------------------------
(* What the peers hold in the end *)

\* Two completed sessions are those of no attempt under way.
LEMMA TimelySas == ASSUME TypeOK, HandshakeInv, TimelyInv  PROVE SameSasIfTimely
<1>1. SUFFICES ASSUME ~ hasty, NEW p \in Node, NEW q \in Node, Completed(p), Completed(q)
               PROVE  crypto[p].key = crypto[q].key
  BY DEF SameSasIfTimely, SameSas
<1>2. Timely
  BY <1>1 DEF TimelyInv
<1>3. \A r \in Node : role[r] # "none" => ~ Completed(r)
  <2>1. ASSUME NEW r \in Node, role[r] = "initiator"  PROVE ~ Completed(r)
    BY <1>2, <2>1 DEF Timely, Task, Attempting, Handshaking, Completed
  <2>2. ASSUME NEW r \in Node, role[r] = "responder"  PROVE ~ Completed(r)
    <3>1. Matches(r)
      BY DEF HandshakeInv, Own
    <3>2. QED  BY <2>2, <3>1 DEF Matches, Handshaking, Completed
  <2>3. QED  BY <2>1, <2>2, TypeParts DEF SessionTypes
<1>4. CASE p = q
  BY <1>4
<1>5. CASE p # q
  <2>1. \A r \in Node : role[r] = "none"
    BY <1>1, <1>3, <1>5, OtherFacts
  <2>2. Open
    BY <1>2, <2>1, OtherFacts DEF Timely, Phase, Answering, Finishing, Responds
  <2>3. QED  BY <2>1, <2>2 DEF Open, Agree
<1>6. QED  BY <1>4, <1>5

LEMMA TimelyRest == ASSUME TypeOK, HandshakeInv, TimelyInv  PROVE ConvergesAtRest
<1>1. SUFFICES ASSUME ~ hasty, Quiet, \A p \in Node : Running(p) = {}
               PROVE  \A p, q \in Node : crypto[p].trust = crypto[q].trust /\ role[p] = "none"
  BY DEF ConvergesAtRest
<1>2. Timely
  BY <1>1 DEF TimelyInv
<1>3. \A p \in Node : \A c \in CallId : pc[p][c] = "idle"
  BY <1>1 DEF Running
<1>4. \A p \in Node : role[p] # "initiator"
  BY <1>2, <1>3 DEF Timely, Task, Attempting
<1>5. ~ \E p \in Node : Answering(p)
  BY <1>4 DEF Answering
<1>6. ASSUME NEW p \in Node, Finishing(p)  PROVE FALSE
  <2>1. wire[p] = <<>>
    BY <1>1 DEF Quiet
  <2>2. ~ Unsent(p, answered[Other(p)])
    BY <1>3 DEF Unsent
  <2>3. ~ FinishSent(p, answered[Other(p)])
    BY <2>1 DEF FinishSent
  <2>4. QED  BY <1>6, <2>2, <2>3 DEF Finishing
<1>7. Open
  BY <1>2, <1>5, <1>6 DEF Timely, Phase
<1>8. \A p \in Node : role[p] = "none"
  BY <1>4, <1>7, TypeParts DEF Open, Unanswered, SessionTypes
<1>9. QED  BY <1>7, <1>8 DEF Open, Agree

\* As long as no timer runs out with an answer under way, no read loop gets in
\* between handshake_with_qr_bytes and its step 1, and no two calls of a peer
\* run at once over a serial link, two completed sessions hold the same key,
\* however the calls of the two cross and whichever connection
\* on_inbound_connection replaces.
THEOREM SasAgrees == Spec => []SameSasIfTimely
<1>1. Init => TypeOK /\ HandshakeInv /\ TimelyInv
  BY TypeInit, HandshakeInit, TimelyInit
<1>2. TypeOK /\ HandshakeInv /\ TimelyInv /\ [Next]_vars
        => (TypeOK /\ HandshakeInv /\ TimelyInv)'
  BY TypeStep, HandshakeStep, TimelyStep
<1>3. TypeOK /\ HandshakeInv /\ TimelyInv => SameSasIfTimely
  BY TimelySas
<1>4. QED  BY <1>1, <1>2, <1>3, PTL DEF Spec

\* Then also, when nothing is under way and every call returned, both peers or
\* neither of them have a session: handle_handshake_finish completed what
\* handshake_with_qr_bytes completed, and nothing else.
THEOREM AgreesAtRest == Spec => []ConvergesAtRest
<1>1. Init => TypeOK /\ HandshakeInv /\ TimelyInv
  BY TypeInit, HandshakeInit, TimelyInit
<1>2. TypeOK /\ HandshakeInv /\ TimelyInv /\ [Next]_vars
        => (TypeOK /\ HandshakeInv /\ TimelyInv)'
  BY TypeStep, HandshakeStep, TimelyStep
<1>3. TypeOK /\ HandshakeInv /\ TimelyInv => ConvergesAtRest
  BY TimelyRest
<1>4. QED  BY <1>1, <1>2, <1>3, PTL DEF Spec
=============================================================================
