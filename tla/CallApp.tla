------------------------------- MODULE CallApp -------------------------------
(***************************************************************************)
(* What the call managers of the two applications share: the state of a    *)
(* call in the user interface and in WebRTC, and how an application talks  *)
(* to its engine.  Modules CallDesktop and CallAndroid have the handlers.  *)
(*                                                                         *)
(* A device has at most one peer connection at a time that its code can    *)
(* reach.  A description or a candidate is named after the call it was     *)
(* made for, and each side of a call gathers one candidate.                *)
(***************************************************************************)
EXTENDS CallEngine

VARIABLES
  ui   \* ui[n]: the state of n's application

\*  pending     the incoming call that is shown (pendingIncoming)
\*  activeCall  the call that is shown as going on (activeCall, callState)
\*  pc, remote  the call of the peer connection and of the description it
\*              got from the peer; ice: the candidates it was given
\*  early       the candidates that wait for a description
\*  mic         the calls whose media streams are open; stream: the one the
\*              code still knows (localStream)
\*  hungUp      intentionalHangup (desktop)
\*  watching    a lost peer connection ends the call (Android)
\*  steps       how far the code that starts or answers a call has come
Steps == {"none", "media", "describe", "sending", "notify"}

State == [pending : CallId \cup {None}, activeCall : CallId \cup {None},
          pc : CallId \cup {None}, remote : CallId \cup {None},
          ice : SUBSET CallId, early : SUBSET CallId,
          mic : SUBSET CallId, stream : CallId \cup {None},
          hungUp : BOOLEAN, watching : BOOLEAN,
          steps : [CallId -> Steps]]

Idle == [pending |-> None, activeCall |-> None, pc |-> None, remote |-> None,
         ice |-> {}, early |-> {}, mic |-> {}, stream |-> None,
         hungUp |-> FALSE, watching |-> FALSE,
         steps |-> [c \in CallId |-> "none"]]

AppInit == ui = [n \in Node |-> Idle]

-----------------------------------------------------------------------------
NextCall == Cardinality(Made) + 1
Fresh(n, m) == /\ NextCall \in CallId
               /\ party' = [party EXCEPT ![NextCall] = <<n, m>>]

Ask(s, c)   == [signal |-> s, call |-> c, awaited |-> FALSE]
Await(s, c) == [signal |-> s, call |-> c, awaited |-> TRUE]
Leave(m)    == [signal |-> "disconnect", peer |-> m]

\* n's application gets into state u and makes the requests in new.
Becomes(n, u, new) ==
  /\ ui' = [ui EXCEPT ![n] = u]
  /\ cmds' = [cmds EXCEPT ![n] = @ \cup new]
  /\ UNCHANGED <<active, reading, link, wire>>

\* What the user does and what WebRTC reports.
Acts(n, u, new) == Becomes(n, u, new) /\ UNCHANGED <<replies, events>>

\* An event of the engine.
Handles(n, type) == events[n] # <<>> /\ Head(events[n]).type = type
Handled(n, u, new) ==
  /\ Becomes(n, u, new)
  /\ events' = [events EXCEPT ![n] = Tail(@)]
  /\ UNCHANGED <<party, replies, breaks>>

\* The engine's answer to a request.
Returned(n, r, u) ==
  /\ Becomes(n, u, {})
  /\ replies' = [replies EXCEPT ![n] = @ \ {r}]
  /\ UNCHANGED <<party, events, breaks>>

InCallWith(n, m) == ui[n].activeCall # None /\ PeerOf(n, ui[n].activeCall) = m
=============================================================================
