------------------------------ MODULE Handshake ------------------------------
(***************************************************************************)
(* The three-step handshake of two peers over one link that delivers what  *)
(* each sends in order: the dial tasks that run handshake_with_qr_bytes    *)
(* and the read loop that runs handle_inbound_bytes, tasks of each engine  *)
(* of core/src/p2p/engine.rs that share the PeerSession and handshake_wait.*)
(*                                                                         *)
(* A call is one of connect_serial_and_verify, or one of connect_and_verify*)
(* that finds its connection still up.  The link is of one of the two      *)
(* kinds.  Over iroh a call made while another one runs joins it           *)
(* (dials_in_progress); over a serial line it runs a handshake of its own. *)
(* The link stays up: sessions are never torn down here.  Both peers are   *)
(* honest and hold each other's QR code, so signatures and identities      *)
(* always check out; step 3 is the same signed byte in every handshake, so *)
(* nothing ties it to one.                                                 *)
(***************************************************************************)
EXTENDS Integers, Sequences, FiniteSets

CONSTANTS
  Node,          \* the two peers
  First,         \* the one with the smaller public key
  Preempted,     \* TRUE: the read loop may run between the dial task's
                 \* locking of the session and its sending of step 1
  EarlyTimeout,  \* TRUE: a timeout may expire while an answer is under way
  MaxCalls,      \* bound: calls of connect_and_verify per peer
  MaxOverlaps,   \* bound: calls made while another one of that peer runs
  MaxReplaced    \* bound: connections replaced during a handshake

ASSUME NodeAssumption == \E a, b \in Node : a # b /\ Node = {a, b}
ASSUME HandshakeAssumption ==
  /\ First \in Node
  /\ Preempted \in BOOLEAN /\ EarlyTimeout \in BOOLEAN
  /\ MaxCalls \in Nat /\ MaxOverlaps \in Nat /\ MaxReplaced \in Nat

Other(p) == CHOOSE q \in Node : q # p
CallId == 1 .. MaxCalls

VARIABLES
  role,      \* PeerSession.role
  crypto,    \* PeerSession.crypto: how far it is, and the key it derives
  kex,       \* PeerSession.pending_kex of an initiator: its attempt
  answered,  \* PeerSession.answered_step1: the attempt last answered
  step2,     \* PeerSession.step2: the answer, to be sent again
  waiter,    \* the call whose channel handshake_wait holds, or NoCall
  signal,    \* signal[p][c]: what the channel of call c holds
  pc,        \* pc[p][c]: where the dial task of call c stands
  result,    \* result[p][c]: what handshake_done told it
  reply,     \* the answer the read loop is about to send
  wire,      \* wire[p]: frames p sent that its peer has not read
  calls,     \* calls made so far
  overlaps,  \* ... while another one ran
  answers,   \* step-2 answers generated so far
  replaced,  \* connections replaced so far
  serial,    \* the link is a serial one
  hasty      \* history: a timeout expired with an answer under way, the read
             \* loop ran before step 1 was sent, or two calls ran at once over
             \* a serial link

session == <<role, crypto, kex, answered, step2>>
count   == <<calls, overlaps>>
dial    == <<pc, result, count>>
vars    == <<session, waiter, signal, dial, reply, wire, answers, replaced,
             serial, hasty>>

-----------------------------------------------------------------------------
(* Frames and keys *)

None == <<>>

Step1(attempt)      == [step |-> 1, attempt |-> attempt]
Step2(attempt, eph) == [step |-> 2, attempt |-> attempt, eph |-> eph]
Step3               == [step |-> 3]
Yield               == [step |-> 0]     \* HandshakeSignal::Superseded
Closed              == [step |-> 4]     \* the other half was dropped
NoCall              == 0

\* The key depends on the initiator's ephemeral, the attempt it belongs to,
\* and on the responder's answer.  An answer to another attempt yields a key
\* too: it decapsulates to a secret nobody else has.
Key(attempt, answer) == <<attempt, answer.attempt, answer.eph>>

Connected   == [trust |-> "connected", key |-> None]
Handshaking(key) == [trust |-> "handshaking", key |-> key]
SasPending(key)  == [trust |-> "sas", key |-> key]

Send(p, f) == wire' = [wire EXCEPT ![p] = Append(@, f)]

-----------------------------------------------------------------------------
Init ==
  /\ role     = [p \in Node |-> "none"]
  /\ crypto   = [p \in Node |-> Connected]
  /\ kex      = [p \in Node |-> None]
  /\ answered = [p \in Node |-> None]
  /\ step2    = [p \in Node |-> None]
  /\ waiter   = [p \in Node |-> NoCall]
  /\ signal   = [p \in Node |-> [c \in CallId |-> None]]
  /\ pc       = [p \in Node |-> [c \in CallId |-> "idle"]]
  /\ result   = [p \in Node |-> [c \in CallId |-> "none"]]
  /\ reply    = [p \in Node |-> None]
  /\ wire     = [p \in Node |-> <<>>]
  /\ calls    = [p \in Node |-> 0]
  /\ overlaps = 0
  /\ answers  = [p \in Node |-> 0]
  /\ replaced = 0
  /\ serial \in BOOLEAN
  /\ hasty = FALSE

-----------------------------------------------------------------------------
(* The dial tasks *)

Goto(p, c, label) == pc' = [pc EXCEPT ![p][c] = label]

Running(p) == {c \in CallId : pc[p][c] # "idle"}
\* The call that is in dials_in_progress.
Dialing(p) == {c \in Running(p) : pc[p][c] # "joined"}

\* Bound: calls per peer in a behaviour where a connection is replaced (one
\* more and a duplicate's answer meets the next call, as in
\* HandshakeLateAnswer), and of the other peer where calls overlap.
CallsInTrouble == 1
CallsLeft == IF replaced = 0 /\ overlaps = 0 THEN MaxCalls ELSE CallsInTrouble

\* The call registers in handshake_done.
Call(p) ==
  /\ calls[p] < CallsLeft
  /\ calls' = [calls EXCEPT ![p] = @ + 1]
  /\ Running(p) # {} => /\ overlaps < MaxOverlaps
                        /\ calls[Other(p)] <= CallsInTrouble
  /\ overlaps' = overlaps + IF Running(p) # {} THEN 1 ELSE 0
  /\ UNCHANGED <<waiter, signal, result, reply, wire, answers, replaced>>

\* Another call is dialing the peer: this one waits for its outcome.
Join(p) ==
  /\ ~serial /\ Dialing(p) # {}
  /\ Call(p)
  /\ Goto(p, calls'[p], "joined")
  /\ UNCHANGED session

\* The call takes the session.  If the peer's handshake came first it waits for
\* that one to finish; an attempt of an earlier call is forgotten.
Begin(p) ==
  /\ serial \/ Dialing(p) = {}
  /\ Call(p)
  /\ LET c == calls'[p]
     IN \/ /\ role[p] = "responder"
           /\ Goto(p, c, "superseded")
           /\ UNCHANGED session
        \/ /\ role[p] # "responder"
           /\ Goto(p, c, "begun")
           /\ role'     = [role EXCEPT ![p] = "initiator"]
           /\ crypto'   = [crypto EXCEPT ![p] = Handshaking(None)]
           /\ kex'      = [kex EXCEPT ![p] = <<p, c>>]
           /\ answered' = [answered EXCEPT ![p] = None]
           /\ step2'    = [step2 EXCEPT ![p] = None]

\* handshake_wait gets another sender, or none: the channel of the call whose
\* sender was there closes.
Closing(p, c) == [signal EXCEPT ![p] = [d \in CallId |->
                    IF d = waiter[p] /\ d # c THEN Closed ELSE @[d]]]

\* The session is unlocked; the waiter goes into handshake_wait ...
Register(p, c) ==
  /\ pc[p][c] = "begun"
  /\ Goto(p, c, "registered")
  /\ waiter' = [waiter EXCEPT ![p] = c]
  /\ signal' = Closing(p, c)
  /\ UNCHANGED <<session, result, count, reply, wire, answers, replaced>>

\* ... and step 1 goes out, whatever has become of the session.
SendStep1(p, c) ==
  /\ pc[p][c] = "registered"
  /\ Goto(p, c, "waiting")
  /\ Send(p, Step1(<<p, c>>))
  /\ UNCHANGED <<session, waiter, signal, result, count, reply, answers, replaced>>

\* connect_and_verify reports a call that fails as a success if handshake_done
\* was told so.
Fail(p, c) ==
  /\ Goto(p, c, "idle")
  /\ result' = [result EXCEPT
       ![p][c] = IF ~serial /\ @ = "ok" THEN "ok" ELSE "err"]

Take(p, c) == signal' = [signal EXCEPT ![p][c] = None]

\* The key exchange that is pending may be that of a later call.
ProcessStep2(p, c) ==
  /\ pc[p][c] = "waiting" /\ signal[p][c] \notin {None, Yield, Closed}
  /\ Take(p, c)
  /\ \/ /\ role[p] # "initiator"          \* "handshake state lost"
        /\ Fail(p, c)
        /\ UNCHANGED session
     \/ /\ role[p] = "initiator"
        /\ Goto(p, c, "finishing")
        /\ role'   = [role EXCEPT ![p] = "none"]
        /\ crypto' = [crypto EXCEPT ![p] = SasPending(Key(kex[p], signal[p][c]))]
        /\ kex'    = [kex EXCEPT ![p] = None]
        /\ UNCHANGED <<answered, step2, result>>
  /\ UNCHANGED <<waiter, count, reply, wire, answers, replaced>>

SendStep3(p, c) ==
  /\ pc[p][c] = "finishing"
  /\ Goto(p, c, "announcing")
  /\ Send(p, Step3)
  /\ UNCHANGED <<session, waiter, signal, result, count, reply, answers, replaced>>

\* notify_handshake_done tells every call that runs.
Done(p) == [result EXCEPT ![p] = [c \in CallId |->
              IF c \in Running(p) THEN "ok" ELSE @[c]]]

\* The call returns.
Announce(p, c) ==
  /\ pc[p][c] = "announcing"
  /\ Goto(p, c, "idle")
  /\ result' = Done(p)
  /\ UNCHANGED <<session, waiter, signal, count, reply, wire, answers, replaced>>

\* The read loop yielded to the peer's handshake.
Superseded(p, c) ==
  /\ pc[p][c] = "waiting" /\ signal[p][c] = Yield
  /\ Take(p, c)
  /\ Goto(p, c, "superseded")
  /\ UNCHANGED <<session, waiter, result, count, reply, wire, answers, replaced>>

\* await_handshake
Awaits(p, c) == pc[p][c] \in {"superseded", "joined"}

OutcomeArrives(p, c) ==
  /\ Awaits(p, c) /\ result[p][c] = "ok"
  /\ Goto(p, c, "idle")
  /\ UNCHANGED <<session, waiter, signal, result, count, reply, wire, answers, replaced>>

\* Nothing is on its way and no task has anything left to do but to wait.
Quiet ==
  \A p \in Node :
    /\ wire[p] = <<>> /\ reply[p] = None
    /\ \A c \in CallId : /\ signal[p][c] = None
                         /\ pc[p][c] \in {"idle", "waiting"} \/ Awaits(p, c)
                         /\ Awaits(p, c) => result[p][c] # "ok"

\* abort_initiator: the waiter is removed, whichever call it belongs to.
KeepWaiter(p, c) == UNCHANGED waiter /\ Take(p, c)          \* mutant
DropWaiter(p, c) == /\ waiter' = [waiter EXCEPT ![p] = NoCall]
                    /\ signal' = [Closing(p, c) EXCEPT ![p][c] = None]

AbortInitiator(p, c) ==
  /\ DropWaiter(p, c)
  /\ \/ /\ role[p] = "initiator"
        /\ role'   = [role EXCEPT ![p] = "none"]
        /\ crypto' = [crypto EXCEPT ![p] = Connected]
        /\ kex'    = [kex EXCEPT ![p] = None]
        /\ UNCHANGED <<answered, step2>>
     \/ role[p] # "initiator" /\ UNCHANGED session

\* HANDSHAKE_TIMEOUT
Expires(p, c) ==
  pc[p][c] = "waiting" /\ signal[p][c] = None /\ (EarlyTimeout \/ Quiet)

Timeout(p, c) ==
  /\ Expires(p, c)
  /\ AbortInitiator(p, c)
  /\ Fail(p, c)
  /\ UNCHANGED <<count, reply, wire, answers, replaced>>

\* Another call took its place in handshake_wait, or removed it there:
\* "handshake aborted", and with it the session of that other call.
ChannelCloses(p, c) ==
  /\ pc[p][c] = "waiting" /\ signal[p][c] = Closed
  /\ AbortInitiator(p, c)
  /\ Fail(p, c)
  /\ UNCHANGED <<count, reply, wire, answers, replaced>>

\* The longer timeout of await_handshake.
Never(p, c) == FALSE                                        \* mutant
AwaitExpires(p, c) ==
  Awaits(p, c) /\ result[p][c] # "ok" /\ (EarlyTimeout \/ Quiet)

AwaitTimeout(p, c) ==
  /\ AwaitExpires(p, c)
  /\ Fail(p, c)
  /\ UNCHANGED <<session, waiter, signal, count, reply, wire, answers, replaced>>

-----------------------------------------------------------------------------
(* The read loop *)

\* Between locking the session and sending step 1.
Starting(p) == \E c \in CallId : pc[p][c] \in {"begun", "registered"}

Incoming(p, step) ==
  /\ wire[Other(p)] # <<>> /\ Head(wire[Other(p)]).step = step
  /\ reply[p] = None
  /\ Preempted \/ ~Starting(p)

Consume(p) == wire' = [wire EXCEPT ![Other(p)] = Tail(@)]

ForgetsAnswered(p, attempt) == FALSE                        \* mutant
Duplicate(p, attempt) == answered[p] = attempt

\* Both started at once: the smaller key stays initiator.
NeverYields(p) == role[p] = "initiator"                     \* mutant
AlwaysYields(p) == FALSE                                    \* mutant
StaysInitiator(p) == role[p] = "initiator" /\ p = First

\* responder_process_step1: a fresh session with its answer.
AnswerKeepingKex(p, attempt, answer) ==                     \* mutant
  /\ role'     = [role EXCEPT ![p] = "responder"]
  /\ crypto'   = [crypto EXCEPT ![p] = Handshaking(Key(attempt, answer))]
  /\ answered' = [answered EXCEPT ![p] = attempt]
  /\ step2'    = [step2 EXCEPT ![p] = answer]
  /\ UNCHANGED kex

AnswerKeepingStep2(p, attempt, answer) ==                   \* mutant
  /\ role'     = [role EXCEPT ![p] = "responder"]
  /\ crypto'   = [crypto EXCEPT ![p] = Handshaking(Key(attempt, answer))]
  /\ kex'      = [kex EXCEPT ![p] = None]
  /\ answered' = [answered EXCEPT ![p] = attempt]
  /\ step2'    = [step2 EXCEPT ![p] = IF @ = None THEN answer ELSE @]

Answer(p, attempt, answer) ==
  /\ role'     = [role EXCEPT ![p] = "responder"]
  /\ crypto'   = [crypto EXCEPT ![p] = Handshaking(Key(attempt, answer))]
  /\ kex'      = [kex EXCEPT ![p] = None]
  /\ answered' = [answered EXCEPT ![p] = attempt]
  /\ step2'    = [step2 EXCEPT ![p] = answer]

\* handle_handshake_init, up to the unlocking of the session.
ReceiveStep1(p) ==
  /\ Incoming(p, 1)
  /\ Consume(p)
  /\ LET attempt == Head(wire[Other(p)]).attempt
         answer  == Step2(attempt, <<p, answers[p] + 1>>)
     IN \/ /\ Duplicate(p, attempt)
           /\ reply' = [reply EXCEPT
                ![p] = IF role[p] = "responder" /\ step2[p] # None
                         THEN [frame |-> step2[p], yielded |-> FALSE] ELSE None]
           /\ UNCHANGED <<session, answers>>
        \/ /\ ~Duplicate(p, attempt) /\ StaysInitiator(p)
           /\ UNCHANGED <<session, reply, answers>>
        \/ /\ ~Duplicate(p, attempt) /\ ~StaysInitiator(p)
           /\ reply' = [reply EXCEPT
                ![p] = [frame |-> answer, yielded |-> role[p] = "initiator"]]
           /\ Answer(p, attempt, answer)
           /\ answers' = [answers EXCEPT ![p] = @ + 1]
  /\ UNCHANGED <<waiter, signal, dial, replaced>>

\* handshake_wait.remove, and send what was there f.
Signal(p, f) ==
  \/ /\ waiter[p] # NoCall
     /\ waiter' = [waiter EXCEPT ![p] = NoCall]
     /\ signal' = [signal EXCEPT ![p][waiter[p]] = f]
  \/ waiter[p] = NoCall /\ UNCHANGED <<waiter, signal>>

\* The rest of it: wake the dial task that yielded, and send step 2.
SendReply(p) ==
  /\ reply[p] # None
  /\ reply' = [reply EXCEPT ![p] = None]
  /\ Send(p, reply[p].frame)
  /\ IF reply[p].yielded THEN Signal(p, Yield) ELSE UNCHANGED <<waiter, signal>>
  /\ UNCHANGED <<session, dial, answers, replaced>>

\* Step 2 goes to the dial task that waits, if any.
ReceiveStep2(p) ==
  /\ Incoming(p, 2)
  /\ Consume(p)
  /\ Signal(p, Head(wire[Other(p)]))
  /\ UNCHANGED <<session, dial, reply, answers, replaced>>

\* handle_handshake_finish
ReceiveStep3(p) ==
  /\ Incoming(p, 3)
  /\ Consume(p)
  /\ \/ /\ role[p] = "responder"
        /\ role'   = [role EXCEPT ![p] = "none"]
        /\ crypto' = [crypto EXCEPT ![p] = SasPending(@.key)]
        /\ kex'    = [kex EXCEPT ![p] = None]
        /\ step2'  = [step2 EXCEPT ![p] = None]
        /\ result' = Done(p)
        /\ UNCHANGED answered
     \/ role[p] # "responder" /\ UNCHANGED <<session, result>>
  /\ UNCHANGED <<waiter, signal, pc, count, reply, answers, replaced>>

\* Of what p's peer sent, its step 1 went over the connection it dialed.
Survivors(s) ==
  LET kept[i \in 0 .. Len(s)] ==
        IF i = 0 THEN <<>>
        ELSE IF s[i].step = 1 THEN Append(kept[i - 1], s[i]) ELSE kept[i - 1]
  IN kept[Len(s)]

\* on_inbound_connection: dial glare, and the connection the peer dialed wins.
\* What is under way on p's own may be lost with it, except a step 1 of the
\* peer, which goes over the one it dialed.  An initiator sends step 1 again.
InboundConnection(p) ==
  /\ ~serial /\ replaced < MaxReplaced /\ \A q \in Node : calls[q] <= CallsInTrouble
  /\ replaced' = replaced + 1
  /\ role[p] = "initiator"
  /\ Preempted \/ ~Starting(p)
  /\ LET rest == [wire EXCEPT ![p] = <<>>, ![Other(p)] = Survivors(@)]
     IN \E kept \in {wire, rest} :
          wire' = [kept EXCEPT ![p] = Append(@, Step1(kex[p]))]
  /\ UNCHANGED <<session, waiter, signal, dial, reply, answers>>

-----------------------------------------------------------------------------
DialStep(p, c) ==
  /\ \/ /\ \/ Register(p, c) \/ SendStep1(p, c) \/ ProcessStep2(p, c)
           \/ SendStep3(p, c) \/ Announce(p, c) \/ Superseded(p, c)
           \/ OutcomeArrives(p, c) \/ ChannelCloses(p, c)
        /\ UNCHANGED hasty
     \/ /\ Timeout(p, c) \/ AwaitTimeout(p, c)
        /\ hasty' = (hasty \/ ~Quiet)
  /\ UNCHANGED serial

ReadStep(p) ==
  /\ ReceiveStep1(p) \/ SendReply(p) \/ ReceiveStep2(p) \/ ReceiveStep3(p)
  /\ hasty' = (hasty \/ Starting(p))
  /\ UNCHANGED serial

\* A user calls, or the peer's connection replaces the one in use.
Happens(p) ==
  /\ \/ Begin(p) /\ hasty' = (hasty \/ (serial /\ Running(p) # {}))
     \/ Join(p) /\ UNCHANGED hasty
     \/ InboundConnection(p) /\ hasty' = (hasty \/ Starting(p))
  /\ UNCHANGED serial

Next == \E p \in Node : \/ Happens(p)
                        \/ \E c \in CallId : DialStep(p, c)
                        \/ ReadStep(p)

Spec == Init /\ [][Next]_vars

\* All tasks keep being scheduled and the timers expire; nobody has to call.
Fairness == \A p \in Node : /\ WF_vars(ReadStep(p))
                           /\ \A c \in CallId : WF_vars(DialStep(p, c))

FairSpec == Spec /\ Fairness

-----------------------------------------------------------------------------
(* Properties *)

Attempts == Node \X CallId
Answers  == Node \X Nat
KeyType  == {None} \cup (Attempts \X Attempts \X Answers)
Step2Type == [step : {2}, attempt : Attempts, eph : Answers]

\* The types of the session, the dial task and the link; and an attempt is
\* pending exactly while the session is an initiator's.
TypeOK ==
  /\ \A p \in Node : kex[p] # None <=> role[p] = "initiator"
  /\ role \in [Node -> {"none", "initiator", "responder"}]
  /\ crypto \in [Node -> [trust : {"connected", "handshaking", "sas"}, key : KeyType]]
  /\ kex \in [Node -> {None} \cup Attempts]
  /\ answered \in [Node -> {None} \cup Attempts]
  /\ step2 \in [Node -> {None} \cup Step2Type]
  /\ waiter \in [Node -> {NoCall} \cup CallId]
  /\ signal \in [Node -> [CallId -> {None, Yield, Closed} \cup Step2Type]]
  /\ pc \in [Node -> [CallId -> {"idle", "begun", "registered", "waiting",
                      "finishing", "announcing", "superseded", "joined"}]]
  /\ result \in [Node -> [CallId -> {"none", "ok", "err"}]]
  /\ reply \in [Node -> {None} \cup [frame : Step2Type, yielded : BOOLEAN]]
  /\ wire \in [Node -> Seq([step : {1}, attempt : Attempts] \cup Step2Type
                             \cup {Step3})]
  /\ calls \in [Node -> 0 .. MaxCalls]
  /\ answers \in [Node -> Nat]
  /\ overlaps \in 0 .. MaxOverlaps
  /\ serial \in BOOLEAN /\ hasty \in BOOLEAN

Completed(p) == crypto[p].trust = "sas"

\* Two completed sessions hold the same key, hence show the same SAS.
SameSas ==
  \A p, q \in Node : Completed(p) /\ Completed(q) => crypto[p].key = crypto[q].key

\* As long as no timer runs out with an answer under way, no read loop gets in
\* between a session and its step 1, and no two calls of a peer run at once over
\* a serial link, however the calls cross and whichever
\* connection is replaced: an initiator never finishes with an answer to one of
\* its earlier attempts, and no step 3 completes a handshake it was not meant
\* for.
SameSasIfTimely == ~hasty => SameSas

\* Then also, when nothing is left to do, the peers agree on whether there is a
\* session: neither waits as a responder for a step 3 that will never come, and
\* neither threw away the session that the other one completed.
ConvergesAtRest ==
  (~hasty /\ Quiet /\ \A p \in Node : Running(p) = {})
    => \A p, q \in Node : crypto[p].trust = crypto[q].trust /\ role[p] = "none"

\* The answer a responder would send again is the one its session derived its
\* key from, whatever timeouts and yields came before, so that sending it again
\* over another connection cannot split the keys.
AnswerMatchesSession ==
  \A p \in Node : role[p] = "responder"
    => /\ step2[p] # None
       /\ answered[p] = step2[p].attempt
       /\ crypto[p] = Handshaking(Key(answered[p], step2[p]))

\* handshake_wait holds no sender of a call that is over, and no signal waits
\* for one, so that a later call never gets the outcome of an earlier one; and
\* an attempt that a session still makes is that of a call which will end it,
\* also when two calls at once reset each other's session and waiter.
WaiterBelongsToCall ==
  \A p \in Node :
    /\ waiter[p] # NoCall => /\ pc[p][waiter[p]] \in {"registered", "waiting"}
                             /\ signal[p][waiter[p]] = None
    /\ \A c \in CallId :
         signal[p][c] # None => pc[p][c] \in {"registered", "waiting"}
    /\ role[p] = "initiator" => \E c \in Running(p) : ~Awaits(p, c)

\* Every call returns, whenever timers run out.
EveryCallReturns ==
  \A p \in Node : \A c \in CallId : (pc[p][c] # "idle") ~> (pc[p][c] = "idle")

\* Once somebody called both peers end up with a completed session, however
\* the calls of the two crossed or joined, unless something was hasty.
DialConverges ==
  \A p \in Node : (calls[p] > 0) ~> (hasty \/ \A q \in Node : Completed(q))
=============================================================================
