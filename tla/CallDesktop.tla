----------------------------- MODULE CallDesktop -----------------------------
(***************************************************************************)
(* Calls in the desktop application (desktop/src/webrtc.js and app.js).    *)
(* JavaScript runs one handler at a time and stops only where it awaits:   *)
(* for the microphone (step "media"), for the description WebRTC makes     *)
(* ("describe") and for the engine ("sending").  What else happens in      *)
(* between meets the same variables.                                       *)
(***************************************************************************)
EXTENDS CallApp

\* cleanupCall stops the stream it knows of.
LeavesTracks(u) == u.mic                                    \* mutant
StopsNone(u) == u.mic \cup {u.stream}                       \* mutant
Stopped(u) == u.mic \ {u.stream}

CleanupCall(u) ==
  [u EXCEPT !.pending = None, !.pc = None, !.remote = None, !.ice = {},
            !.early = {}, !.mic = Stopped(u), !.stream = None,
            !.hungUp = TRUE]

OnCallEndedLocal(u) == [CleanupCall(u) EXCEPT !.activeCall = None]

\* flushPendingIce: once the description is there, this call's candidates.
KeepsEarly(u) == u                                          \* mutant
FlushPendingIce(u) ==
  IF u.remote = None THEN u
  ELSE [u EXCEPT !.ice = @ \cup (u.early \cap {u.pc}), !.early = @ \ {u.pc}]

-----------------------------------------------------------------------------
(* The user *)

StartOutgoingCall(n, m) ==
  /\ Resolves(n, m) /\ ui[n].activeCall = None /\ ui[n].pending = None
  /\ Fresh(n, m)
  /\ Acts(n, [CleanupCall(ui[n]) EXCEPT !.hungUp = FALSE,
                                        !.steps[NextCall] = "media"], {})
  /\ UNCHANGED breaks

AnswerIncomingCall(n) ==
  LET c == ui[n].pending
  IN /\ c # None
     /\ Acts(n, [ui[n] EXCEPT !.pending = None, !.hungUp = FALSE,
                              !.steps[c] = "media"], {})
     /\ UNCHANGED <<party, breaks>>

DeclineIncomingCall(n) ==
  LET c == ui[n].pending
  IN /\ c # None
     /\ Acts(n, [ui[n] EXCEPT !.pending = None, !.early = @ \ {c}],
             {Ask("end", c)})
     /\ UNCHANGED <<party, breaks>>

\* The button of the call, pressed once.
EndActiveCall(n) ==
  LET c == ui[n].activeCall
  IN /\ c # None
     /\ Await("end", c) \notin cmds[n]
     /\ \A r \in replies[n] : r.signal # "end"
     /\ Acts(n, ui[n], {Await("end", c)})
     /\ UNCHANGED <<party, breaks>>

\* The button of the overlay while no call is shown as active.
CloseOverlay(n) ==
  /\ ui[n].activeCall = None /\ ui[n].pc # None
  /\ Acts(n, OnCallEndedLocal(ui[n]), {})
  /\ UNCHANGED <<party, breaks>>

DesktopDisconnects(n, m) ==
  /\ Resolves(n, m) /\ breaks < MaxBreaks
  /\ IF InCallWith(n, m)
       THEN Acts(n, OnCallEndedLocal(ui[n]),
                 {Ask("end", ui[n].activeCall), Leave(m)})
       ELSE Acts(n, ui[n], {Leave(m)})
  /\ breaks' = breaks + 1
  /\ UNCHANGED party

-----------------------------------------------------------------------------
(* startOutgoingCall and answerIncomingCall after their awaits *)

\* getMedia, then createPeerConnection; the callee gives it the offer.
MediaReady(n, c) ==
  /\ ui[n].steps[c] = "media"
  /\ Acts(n, [ui[n] EXCEPT !.stream = c, !.mic = @ \cup {c}, !.pc = c,
                           !.remote = IF Callee(c) = n THEN c ELSE None,
                           !.ice = {}, !.early = @ \cap {c},
                           !.steps[c] = "describe"], {})
  /\ UNCHANGED <<party, breaks>>

\* createOffer or createAnswer; setLocalDescription starts the gathering.
Describe(n, c) ==
  /\ ui[n].steps[c] = "describe" /\ ui[n].pc = c
  /\ Acts(n, [FlushPendingIce(ui[n]) EXCEPT !.steps[c] = "sending"],
          {Await(IF Callee(c) = n THEN "answer" ELSE "offer", c),
           Ask("ice", c)})
  /\ UNCHANGED <<party, breaks>>

\* The peer connection has been closed or replaced: an exception.
DescribeFails(n, c) ==
  /\ ui[n].steps[c] = "describe" /\ ui[n].pc # c
  /\ Acts(n, [ui[n] EXCEPT !.steps[c] = "none"], {})
  /\ UNCHANGED <<party, breaks>>

\* The call becomes the active one when the engine has taken its signal.
SignalReturns(n, r) ==
  /\ r.signal \in {"offer", "answer"}
  /\ Returned(n, r, [ui[n] EXCEPT
       !.steps[r.call] = "none",
       !.activeCall = IF r.ok THEN r.call ELSE @])

EndReturns(n, r) ==
  /\ r.signal = "end"
  /\ Returned(n, r, IF r.ok THEN OnCallEndedLocal(ui[n]) ELSE ui[n])

-----------------------------------------------------------------------------
(* Events: handleIncomingCallSignal and handleEvent *)

OnCallOffer(n) ==
  LET c == Head(events[n]).call
      u == ui[n]
  IN /\ Handles(n, "offer")
     /\ IF u.activeCall # None \/ u.pending # None
          THEN Handled(n, u, {Ask("end", c)})
          ELSE Handled(n, [u EXCEPT !.pending = c], {})

OnCallAnswer(n) ==
  LET c == Head(events[n]).call
  IN /\ Handles(n, "answer")
     /\ Handled(n, IF ui[n].pc = c
                     THEN FlushPendingIce([ui[n] EXCEPT !.remote = c])
                     ELSE ui[n], {})

\* addIceCandidateRaw
OnCallIce(n) ==
  LET c == Head(events[n]).call
      u == ui[n]
  IN /\ Handles(n, "ice")
     /\ Handled(n, IF u.pc = c /\ u.remote # None
                     THEN [u EXCEPT !.ice = @ \cup {c}]
                     ELSE [u EXCEPT !.early = @ \cup {c}], {})

\* Also the end of a call that is not shown yet, or no longer.
Concerns(n, c) == \/ ui[n].activeCall \in {None, c}
                  \/ PeerOf(n, ui[n].activeCall) = PeerOf(n, c)
OnCallEnded(n) ==
  LET c == Head(events[n]).call
  IN /\ Handles(n, "ended")
     /\ Handled(n, IF Concerns(n, c) THEN OnCallEndedLocal(ui[n]) ELSE ui[n],
                {})

OnPeerDisconnected(n) ==
  /\ Handles(n, "peer_disconnected")
  /\ Handled(n, IF InCallWith(n, Head(events[n]).peer)
                  THEN OnCallEndedLocal(ui[n]) ELSE ui[n], {})

\* onconnectionstatechange with "failed", "disconnected" or "closed".  While
\* there is a peer connection callEndedNotified is false.
DesktopReports(n) == ~ui[n].hungUp
OnConnectionStateChange(n) ==
  /\ DesktopReports(n)
  /\ Acts(n, OnCallEndedLocal(ui[n]), {Ask("end", ui[n].pc)})
  /\ UNCHANGED party

-----------------------------------------------------------------------------
DesktopUser(n) ==
  \/ \E m \in Node \ {n} : StartOutgoingCall(n, m) \/ DesktopDisconnects(n, m)
  \/ AnswerIncomingCall(n) \/ DeclineIncomingCall(n)
  \/ EndActiveCall(n) \/ CloseOverlay(n)

DesktopWorks(n) ==
  \/ \E c \in Made : MediaReady(n, c) \/ Describe(n, c) \/ DescribeFails(n, c)
  \/ \E r \in replies[n] : SignalReturns(n, r) \/ EndReturns(n, r)
  \/ OnCallOffer(n) \/ OnCallAnswer(n) \/ OnCallIce(n) \/ OnCallEnded(n)
  \/ OnPeerDisconnected(n)
=============================================================================
