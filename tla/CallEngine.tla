----------------------------- MODULE CallEngine -----------------------------
(***************************************************************************)
(* What the engine (core/src/p2p/engine.rs) does for calls: it relays the  *)
(* signals of the applications over the encrypted link and remembers, per  *)
(* peer, one call (active_peer_calls), so that a second offer is refused.  *)
(*                                                                         *)
(* An application's request is a task of its own on the runtime, so that   *)
(* requests that wait together (cmds) run in any order.  Events reach the  *)
(* application through one queue, in order.  A link is an encrypted and    *)
(* trusted session over a connection; module PeerLink has how it comes and *)
(* goes, here it breaks, both engines notice, and it comes back.           *)
(*                                                                         *)
(* Every call has a number; an engine is told only the number, the peer    *)
(* follows from it.                                                        *)
(***************************************************************************)
EXTENDS Integers, Sequences, FiniteSets

CONSTANTS
  Node,       \* the users' devices
  MaxCalls,   \* bound: calls made
  MaxBreaks   \* bound: links lost and disconnects

ASSUME CallAssumption == MaxCalls \in Nat \ {0} /\ MaxBreaks \in Nat

CallId == 1 .. MaxCalls
None   == 0

VARIABLES
  party,    \* party[c]: who makes call c and who is called, <<>> before
  active,   \* active_peer_calls: active[n][m], n's call with m
  reading,  \* an offer of reading[n][m] that n's read loop has found not busy
  link,     \* link[n][m]: n's end; "broken": gone, but n has not noticed
  wire,     \* wire[n][m]: signals n sent that m has not read
  cmds,     \* requests of n's application that have not run
  replies,  \* results that n's application awaits
  events,   \* events that n's application has not handled
  breaks    \* links lost so far

engineVars == <<active, reading, link, wire, cmds, replies, events, breaks>>

Caller(c) == party[c][1]
Callee(c) == party[c][2]
PeerOf(n, c) == IF Caller(c) = n THEN Callee(c) ELSE Caller(c)
Made == {c \in CallId : party[c] # <<>>}
With(n, m) == {c \in Made : {Caller(c), Callee(c)} = {n, m}}

Signals == {"offer", "answer", "ice", "end"}
Signal  == [signal : Signals, call : CallId]
Request == [signal : Signals, call : CallId, awaited : BOOLEAN]
           \cup [signal : {"disconnect"}, peer : Node]
Reply   == [signal : Signals, call : CallId, ok : BOOLEAN]
Event   == [type : {"offer", "answer", "ice", "ended"}, call : CallId]
           \cup [type : {"peer_disconnected"}, peer : Node]

EngineTypeOK ==
  /\ party \in [CallId -> {<<>>} \cup (Node \X Node)]
  /\ active \in [Node -> [Node -> CallId \cup {None}]]
  /\ reading \in [Node -> [Node -> CallId \cup {None}]]
  /\ link \in [Node -> [Node -> {"up", "broken", "down"}]]
  /\ \A n, m \in Node : wire[n][m] \in Seq(Signal)
  /\ \A n \in Node : /\ cmds[n] \subseteq Request
                     /\ replies[n] \subseteq Reply
                     /\ events[n] \in Seq(Event)
  /\ breaks \in 0 .. MaxBreaks

EngineInit ==
  /\ party = [c \in CallId |-> <<>>]
  /\ active = [n \in Node |-> [m \in Node |-> None]]
  /\ reading = active
  /\ link = [n \in Node |-> [m \in Node |-> "up"]]
  /\ wire = [n \in Node |-> [m \in Node |-> <<>>]]
  /\ cmds = [n \in Node |-> {}]
  /\ replies = cmds
  /\ events = [n \in Node |-> <<>>]
  /\ breaks = 0

-----------------------------------------------------------------------------
(* Pieces of the handlers *)

Sig(s, c) == [signal |-> s, call |-> c]

\* resolve_peer_id: a lost link takes the session with it.
Resolves(n, m) == link[n][m] # "down"

\* What send_wire_message may return: before the loss is noticed a signal may
\* still be taken, and lost, or be refused because the connection is closed.
Outcomes(n, m) == IF link[n][m] = "up" THEN {TRUE} ELSE BOOLEAN
Sent(n, m, s) == IF link[n][m] = "up" THEN [wire EXCEPT ![n][m] = Append(@, s)]
                                      ELSE wire

Emitted(n, e) == [events EXCEPT ![n] = Append(@, e)]
Ended(c) == [type |-> "ended", call |-> c]
Lost(m)  == [type |-> "peer_disconnected", peer |-> m]

\* The peer is in, or is offered, another call than c as far as n knows.
InAnotherCall(n, m, c) == active[n][m] \notin {None, c}

\* clear_call_for_peer; the event is sent whichever call was remembered.
NeverForgets(n, m, c) == active[n][m]                       \* mutant
Remaining(n, m, c) == IF active[n][m] = c THEN None ELSE active[n][m]

ClearCall(n, m, c) == /\ active' = [active EXCEPT ![n][m] = Remaining(n, m, c)]
                      /\ events' = Emitted(n, Ended(c))

Taken(n, x) == cmds' = [cmds EXCEPT ![n] = @ \ {x}]

\* The result goes to whoever awaits it.
Answered(n, x, ok) ==
  replies' = [replies EXCEPT ![n] =
    IF x.awaited THEN @ \cup {[signal |-> x.signal, call |-> x.call, ok |-> ok]}
                 ELSE @]

-----------------------------------------------------------------------------
(* Requests of the application: send_call_signal, end_call, disconnect_peer *)

Requested(n, x, S) == x \in cmds[n] /\ x.signal \in S /\ Taken(n, x)

\* Without a session nothing is done at all, an end included.
FailUnresolved(n, x) ==
  /\ Requested(n, x, Signals)
  /\ ~Resolves(n, PeerOf(n, x.call))
  /\ Answered(n, x, FALSE)
  /\ UNCHANGED <<party, active, reading, link, wire, events, breaks>>

\* An offer while another call with this peer is remembered is an error.
RefuseOffer(n, x) ==
  LET m == PeerOf(n, x.call)
  IN /\ Requested(n, x, {"offer"})
     /\ Resolves(n, m) /\ InAnotherCall(n, m, x.call)
     /\ Answered(n, x, FALSE)
     /\ UNCHANGED <<party, active, reading, link, wire, events, breaks>>

\* The call is remembered, and forgotten again when the offer cannot be sent.
SendOffer(n, x) ==
  LET m == PeerOf(n, x.call)
  IN /\ Requested(n, x, {"offer"})
     /\ Resolves(n, m) /\ ~InAnotherCall(n, m, x.call)
     /\ wire' = Sent(n, m, Sig("offer", x.call))
     /\ \E ok \in Outcomes(n, m) :
          /\ Answered(n, x, ok)
          /\ active' = [active EXCEPT ![n][m] = IF ok THEN x.call ELSE None]
          /\ events' = IF ok THEN events ELSE Emitted(n, Ended(x.call))
     /\ UNCHANGED <<party, reading, link, breaks>>

SendMedia(n, x) ==
  LET m == PeerOf(n, x.call)
  IN /\ Requested(n, x, {"answer", "ice"})
     /\ Resolves(n, m)
     /\ wire' = Sent(n, m, Sig(x.signal, x.call))
     /\ \E ok \in Outcomes(n, m) : Answered(n, x, ok)
     /\ UNCHANGED <<party, active, reading, link, events, breaks>>

\* The call is forgotten, and the application told, also when the end could
\* not be sent.
SendEnd(n, x) ==
  LET m == PeerOf(n, x.call)
  IN /\ Requested(n, x, {"end"})
     /\ Resolves(n, m)
     /\ wire' = Sent(n, m, Sig("end", x.call))
     /\ ClearCall(n, m, x.call)
     /\ \E ok \in Outcomes(n, m) : Answered(n, x, ok)
     /\ UNCHANGED <<party, reading, link, breaks>>

\* Both ends of a link that breaks lose what is on the wire.
Severed(n, m) == [wire EXCEPT ![n][m] = <<>>, ![m][n] = <<>>]

\* teardown_peer_session: the peer's end breaks, this one is down at once.
Disconnect(n, m) ==
  LET x == [signal |-> "disconnect", peer |-> m]
  IN /\ x \in cmds[n]
     /\ Taken(n, x)
     /\ link' = [link EXCEPT ![n][m] = "down",
                             ![m][n] = IF @ = "up" THEN "broken" ELSE @]
     /\ wire' = Severed(n, m)
     /\ events' = Emitted(n, Lost(m))
     /\ UNCHANGED <<party, active, reading, replies, breaks>>

-----------------------------------------------------------------------------
(* The read loop: on_call_signal *)

Incoming(n, m, s) ==
  /\ link[n][m] = "up" /\ reading[n][m] = None /\ wire[m][n] # <<>>
  /\ Head(wire[m][n]).signal = s

Read(n, m) == [wire EXCEPT ![m][n] = Tail(@)]

ReceiveEnd(n, m) ==
  /\ Incoming(n, m, "end")
  /\ wire' = Read(n, m)
  /\ ClearCall(n, m, Head(wire[m][n]).call)
  /\ UNCHANGED <<party, reading, link, cmds, replies, breaks>>

ReceiveMedia(n, m, s) ==
  /\ Incoming(n, m, s)
  /\ wire' = Read(n, m)
  /\ events' = Emitted(n, [type |-> s, call |-> Head(wire[m][n]).call])
  /\ UNCHANGED <<party, active, reading, link, cmds, replies, breaks>>

IgnoresOffer(n, m, c) == Read(n, m)                         \* mutant
Refusal(n, m, c) == [Read(n, m) EXCEPT ![n][m] = Append(@, Sig("end", c))]

\* Busy: the engine ends the offered call itself.
RejectOffer(n, m) ==
  /\ Incoming(n, m, "offer")
  /\ LET c == Head(wire[m][n]).call
     IN /\ InAnotherCall(n, m, c)
        /\ wire' = Refusal(n, m, c)
  /\ UNCHANGED <<party, active, reading, link, cmds, replies, events, breaks>>

\* The test of active_peer_calls and the write are under separate locks.
TestOffer(n, m) ==
  /\ Incoming(n, m, "offer")
  /\ ~InAnotherCall(n, m, Head(wire[m][n]).call)
  /\ reading' = [reading EXCEPT ![n][m] = Head(wire[m][n]).call]
  /\ wire' = Read(n, m)
  /\ UNCHANGED <<party, active, link, cmds, replies, events, breaks>>

AcceptOffer(n, m) ==
  /\ reading[n][m] # None
  /\ active' = [active EXCEPT ![n][m] = reading[n][m]]
  /\ events' = Emitted(n, [type |-> "offer", call |-> reading[n][m]])
  /\ reading' = [reading EXCEPT ![n][m] = None]
  /\ UNCHANGED <<party, link, wire, cmds, replies, breaks>>

-----------------------------------------------------------------------------
(* The link *)

BreakLink(n, m) ==
  /\ breaks < MaxBreaks /\ link[n][m] = "up" /\ link[m][n] = "up"
  /\ link' = [link EXCEPT ![n][m] = "broken", ![m][n] = "broken"]
  /\ wire' = Severed(n, m)
  /\ breaks' = breaks + 1
  /\ UNCHANGED <<party, active, reading, cmds, replies, events>>

\* on_connection_lost, in the task of the read loop: active_peer_calls stays.
NoticeLoss(n, m) ==
  /\ link[n][m] = "broken" /\ reading[n][m] = None
  /\ link' = [link EXCEPT ![n][m] = "down"]
  /\ events' = Emitted(n, Lost(m))
  /\ UNCHANGED <<party, active, reading, wire, cmds, replies, breaks>>

Reconnect(n, m) ==
  /\ link[n][m] = "down" /\ link[m][n] = "down"
  /\ link' = [link EXCEPT ![n][m] = "up", ![m][n] = "up"]
  /\ UNCHANGED <<party, active, reading, wire, cmds, replies, events, breaks>>

-----------------------------------------------------------------------------
EngineWorks(n) ==
  \/ \E x \in cmds[n] :
       FailUnresolved(n, x) \/ RefuseOffer(n, x) \/ SendOffer(n, x)
         \/ SendMedia(n, x) \/ SendEnd(n, x)
  \/ \E m \in Node : Disconnect(n, m) \/ AcceptOffer(n, m)

Receives(n) ==
  \E m \in Node \ {n} :
    \/ ReceiveEnd(n, m)
    \/ \E s \in {"answer", "ice"} : ReceiveMedia(n, m, s)
    \/ RejectOffer(n, m) \/ TestOffer(n, m) \/ NoticeLoss(n, m)

LinkChanges ==
  \E n \in Node : \E m \in Node \ {n} : BreakLink(n, m) \/ Reconnect(n, m)
=============================================================================
