---------------------------- MODULE CallSignaling ----------------------------
(***************************************************************************)
(* Voice and video calls: engines (CallEngine), applications (CallDesktop, *)
(* CallAndroid), their users, and the media connection that WebRTC makes   *)
(* between two devices once both have the other's description.             *)
(*                                                                         *)
(* The number of interleavings is cut by counting (overlaps) how often     *)
(* something happens to a device that is still busy with what happened     *)
(* before, and by one budget (MaxTroubles) for overlaps, lost links, media *)
(* faults and second calls.                                                *)
(*                                                                         *)
(* The applications do lose calls: some orders of events leave a call open *)
(* that nobody ends.  History variable astray collects the calls to which  *)
(* one of the seven ways to do so (Forgets, Interrupts, Collides,          *)
(* Overtakes, Misdirects, Swallows, Ignores) has happened; the properties  *)
(* are about all others.                                                   *)
(***************************************************************************)
EXTENDS CallDesktop, CallAndroid

CONSTANTS
  Apps,       \* the applications a device may run
  MaxFaults,  \* bound: media connections that fail though both ends want them
  MaxOverlaps, \* bound: what happens to a device while it still has work to
              \* do: its user acts, a signal arrives, or its media fails
  MaxTroubles \* bound: lost links, media faults and overlaps together; a
              \* second call counts for two of them, or for one if a link
              \* was lost before

ASSUME SignalingAssumption ==
  /\ Apps \subseteq {"desktop", "android"}
  /\ MaxFaults \in Nat /\ MaxOverlaps \in Nat /\ MaxTroubles \in Nat

VARIABLES
  app,      \* app[n]: the application n runs
  faults,   \* media faults so far
  overlaps, \* things that happened to a busy device so far
  astray    \* history: calls that an application lost track of

vars == <<party, engineVars, ui, app, faults, overlaps, astray>>

TypeOK ==
  /\ EngineTypeOK
  /\ ui \in [Node -> State]
  /\ app \in [Node -> Apps]
  /\ faults \in 0 .. MaxFaults
  /\ overlaps \in 0 .. MaxOverlaps
  /\ astray \subseteq CallId

Init == /\ EngineInit /\ AppInit
        /\ app \in [Node -> Apps]
        /\ faults = 0
        /\ overlaps = 0
        /\ astray = {}

-----------------------------------------------------------------------------
Desktop(n) == app[n] = "desktop"

Busy(n) == \/ cmds[n] # {} \/ replies[n] # {} \/ events[n] # <<>>
           \/ \E m \in Node : reading[n][m] # None
           \/ \E c \in CallId : ui[n].steps[c] # "none"
Happens(busy) == /\ busy => overlaps < MaxOverlaps
                 /\ overlaps' = overlaps + IF busy THEN 1 ELSE 0

OnTheWire(n, m) == wire[n][m] # <<>> \/ wire[m][n] # <<>>

\* The two peer connections of a call have each other's descriptions.
Joined(n) ==
  LET c == ui[n].pc
      p == ui[PeerOf(n, c)]
  IN c # None /\ ui[n].remote = c /\ p.pc = c /\ p.remote = c

\* WebRTC looks for a path once it has a description, and gives up when the
\* peer does not answer there.
MediaFails(n) ==
  LET c == ui[n].pc
  IN /\ c # None /\ ui[n].remote # None
     /\ Joined(n) => faults < MaxFaults

Reports(n) == /\ MediaFails(n)
              /\ IF Desktop(n) THEN DesktopReports(n) ELSE AndroidReports(n)

\* It takes long to give up: signals under way are overtaken, too.
LosesMedia(n) ==
  /\ MediaFails(n)
  /\ Happens((\E m \in Node : Busy(m)) \/ OnTheWire(n, PeerOf(n, ui[n].pc)))
  /\ faults' = faults + IF Joined(n) THEN 1 ELSE 0
  /\ \/ Desktop(n) /\ OnConnectionStateChange(n)
     \/ ~Desktop(n) /\ OnIceConnectionChange(n)
  /\ UNCHANGED <<app, breaks>>

Works(n) ==
  /\ \/ EngineWorks(n) /\ UNCHANGED ui
     \/ Desktop(n) /\ DesktopWorks(n)
     \/ ~Desktop(n) /\ AndroidWorks(n)
  /\ UNCHANGED <<app, faults, overlaps>>

User(n) ==
  /\ Happens(Busy(n))
  /\ \/ Desktop(n) /\ DesktopUser(n)
     \/ ~Desktop(n) /\ AndroidUser(n)
  /\ UNCHANGED <<app, faults>>

Arrives(n) ==
  Happens(Busy(n)) /\ Receives(n) /\ UNCHANGED <<ui, app, faults>>

Network == LinkChanges /\ UNCHANGED <<ui, app, faults, overlaps>>

Shows(n, c)    == c \in {ui[n].pending, ui[n].activeCall}
Prepares(n, c) == ui[n].steps[c] # "none"
Waits(n, s, c) == \E x \in cmds[n] : x.signal = s /\ x.call = c

\* n learns that c is over: an event, or its engine's answer.
IsOver(n, c, e) == \/ e.type = "ended" /\ e.call = c
                   \/ e.type = "peer_disconnected" /\ e.peer = PeerOf(n, c)
Learns(n, c) ==
  \/ /\ events[n] # <<>> /\ events'[n] = Tail(events[n])
     /\ IsOver(n, c, Head(events[n]))
  \/ \E r \in replies[n] \ replies'[n] : r.signal = "end" /\ r.call = c

\* n leaves c for no such reason and does not tell its engine.
Forgets(n, c) == /\ Shows(n, c) /\ ~(Shows(n, c) \/ Prepares(n, c))'
                 /\ ~Learns(n, c) /\ ~Waits(n, "end", c)'

\* c is over, or n closes it, while n goes on to start or answer it.
Interrupts(n, c) == /\ Prepares(n, c) /\ Prepares(n, c)'
                    /\ Learns(n, c) \/ (ui[n].pc = c /\ ui'[n].pc # c)

\* n starts or answers two calls at a time, or replaces what it has open of c.
Collides(n, c) ==
  \/ Prepares(n, c)' /\ \E d \in CallId \ {c} : Prepares(n, d)'
  \/ ui[n].pc = c /\ ui'[n].pc \notin {c, None}

\* n's engine ends c while the request to offer c still waits.
Overtakes(n, c) == /\ Waits(n, "offer", c) /\ Waits(n, "offer", c)'
                   /\ Waits(n, "end", c) /\ ~Waits(n, "end", c)'

\* A manager that asks for no call takes the answer to c, which its user has
\* left meanwhile, and the user interface shows c again.
Misdirects(n, c) == /\ ~Desktop(n) /\ ui[n].pc # c
                    /\ Handles(n, "answer") /\ Head(events[n]).call = c
                    /\ events'[n] = Tail(events[n])

\* The engine cannot send the offer or the answer of c, and does not say so.
Swallows(n, c) == /\ ~Desktop(n)
                  /\ \E s \in {"offer", "answer"} :
                       Waits(n, s, c) /\ ~Waits(n, s, c)'
                  /\ wire'[n][PeerOf(n, c)] = wire[n][PeerOf(n, c)]

\* n hears that c is over while it shows a call with another device, and goes
\* on offering c to its user.
Ignores(n, c) == /\ ui[n].pending = c /\ ui'[n].pending = c
                 /\ Handles(n, "ended") /\ Head(events[n]).call = c
                 /\ events'[n] = Tail(events[n])

LosesTrack(c) == \E n \in Node :
  \/ Forgets(n, c) \/ Interrupts(n, c) \/ Collides(n, c) \/ Overtakes(n, c)
  \/ Misdirects(n, c) \/ Swallows(n, c) \/ Ignores(n, c)

Again == IF Made = {} THEN 0 ELSE Cardinality(Made) - 1
Troubles == breaks + faults + overlaps + Again * IF breaks > 0 THEN 1 ELSE 2

Next == /\ \/ \E n \in Node : Works(n) \/ User(n) \/ Arrives(n) \/ LosesMedia(n)
           \/ Network
        /\ Troubles' <= MaxTroubles
        /\ Again > 0 => breaks' = breaks
        /\ astray' = astray \cup {c \in Made : LosesTrack(c)}

Spec == Init /\ [][Next]_vars

-----------------------------------------------------------------------------
(* Properties *)

\* Nothing is under way: only users, new faults and reconnects can go on.
Quiet == \A n \in Node :
  /\ ~Busy(n) /\ ~(Reports(n) /\ ~Joined(n))
  /\ \A m \in Node : wire[n][m] = <<>> /\ link[n][m] # "broken"

\* The peer of n in call c rings for it or is in it.
Shares(n, c) == c \in {ui[PeerOf(n, c)].pending, ui[PeerOf(n, c)].activeCall}

\* The Android code that answers a call passes no onConnectionLost.
Unwatched(n) == ~Desktop(n) /\ ~ui[n].watching

\* "Call ends both sides when one peer hangs up or the transport drops"
\* (CHANGELOG.md:97), for both applications: whatever the users, the engines,
\* the link and the media do, when everything has been delivered nobody sits
\* in a call that the peer is not in, unless one of the two lost track of it,
\* or an Android user answered it and the link was lost: with nobody watching
\* the media, that call shows until its user hangs up.
NobodyCallsAlone ==
  Quiet => \A n \in Node : \/ ui[n].activeCall \in astray \cup {None}
                           \/ Shares(n, ui[n].activeCall)
                           \/ Unwatched(n) /\ breaks > 0

\* active_peer_calls is what makes an engine answer "already in a call", so it
\* must not outlive the call: the end of a call clears it at both ends, and an
\* offer that is refused or cannot be sent leaves nothing behind.  At rest it
\* names a call that its user is in or is offered, if no link was lost
\* (on_connection_lost clears nothing) and no application lost track of it.
EngineFollowsUser ==
  Quiet /\ breaks = 0 => \A n, m \in Node :
    active[n][m] \in astray \cup {None, ui[n].pending, ui[n].activeCall}

\* No microphone or camera is ever open but for the peer connection that the
\* application can still close (cleanupCall, end), unless the application
\* replaced the peer connection of the call by that of another one: no path
\* of a start, an answer, a refusal, a failure or a lost link loses a stream.
MicrophoneClosed ==
  \A n \in Node : ui[n].mic \subseteq astray \cup ({ui[n].pc} \ {None})

\* At rest a desktop in a call whose two ends are connected has the peer's
\* candidates, also those that came before the peer's description or while it
\* was still waiting for the microphone (flushPendingIce).  For the first call
\* of two devices: the late end of an earlier one drops the candidates that
\* wait for the next (cleanupCall).
CandidatesArrive ==
  Quiet /\ breaks = 0 /\ astray = {} /\ Cardinality(Made) = 1 => \A n \in Node :
    Desktop(n) /\ ui[n].activeCall # None /\ Joined(n)
      => ui[n].pc \in ui[n].ice
=============================================================================
