----------------------------- MODULE CallAndroid -----------------------------
(***************************************************************************)
(* Calls in the Android application (MainActivity.kt,                      *)
(* WebRtcCallManagerHolder.kt and WebRtcCallManager.kt).  The user         *)
(* interface knows the incoming call and callState; the manager behind the *)
(* holder has the peer connection and knows no call at all.  Starting and  *)
(* answering wait for the permissions (step "media"), for the description  *)
(* ("describe") and for the main thread ("notify").                        *)
(***************************************************************************)
EXTENDS CallApp

\* WebRtcCallManager.end
ManagerEnd(u) ==
  [u EXCEPT !.pc = None, !.remote = None, !.ice = {}, !.early = {},
            !.mic = {}, !.stream = None]

\* WebRtcCallManagerHolder.end forgets the manager and its callback with it.
HolderEnd(u) == [ManagerEnd(u) EXCEPT !.watching = FALSE]

\* Whatever waits goes to the peer connection, of whichever call it is.
FlushAll(u) == [u EXCEPT !.ice = @ \cup u.early, !.early = {}]

-----------------------------------------------------------------------------
(* The user *)

StartOutgoing(n, m) ==
  /\ Resolves(n, m) /\ ui[n].activeCall = None /\ ui[n].pending = None
  /\ Fresh(n, m)
  /\ Acts(n, [ui[n] EXCEPT !.steps[NextCall] = "media"], {})
  /\ UNCHANGED breaks

AcceptCall(n) ==
  LET c == ui[n].pending
  IN /\ c # None
     /\ Acts(n, [ui[n] EXCEPT !.pending = None, !.steps[c] = "media"], {})
     /\ UNCHANGED <<party, breaks>>

DeclineCall(n) ==
  LET c == ui[n].pending
  IN /\ c # None
     /\ Acts(n, [ui[n] EXCEPT !.pending = None], {Ask("end", c)})
     /\ UNCHANGED <<party, breaks>>

\* endActiveCall
Hangup(u) == [HolderEnd(u) EXCEPT !.activeCall = None, !.pending = None]
NotifyRemote(u) == {Ask("end", u.activeCall)}

HangUp(n) ==
  /\ ui[n].activeCall # None
  /\ Acts(n, Hangup(ui[n]), NotifyRemote(ui[n]))
  /\ UNCHANGED <<party, breaks>>

SoftDisconnect(n, m) ==
  /\ Resolves(n, m) /\ breaks < MaxBreaks
  /\ IF InCallWith(n, m)
       THEN Acts(n, Hangup(ui[n]), NotifyRemote(ui[n]) \cup {Leave(m)})
       ELSE Acts(n, ui[n], {Leave(m)})
  /\ breaks' = breaks + 1
  /\ UNCHANGED party

-----------------------------------------------------------------------------
(* The coroutines that start or answer a call *)

\* createPeer after end(), which drops the candidates that came early.  The
\* code that answers passes no onConnectionLost.
CreatePeer(n, c) ==
  /\ ui[n].steps[c] = "media"
  /\ Acts(n, [ManagerEnd(ui[n]) EXCEPT
       !.pc = c, !.mic = {c}, !.stream = c,
       !.watching = Caller(c) = n,
       !.steps[c] = "describe"], {})
  /\ UNCHANGED <<party, breaks>>

\* onCreateSuccess; the callee has set the remote description before.
CreateDescription(n, c) ==
  /\ ui[n].steps[c] = "describe" /\ ui[n].pc = c
  /\ Acts(n, [(IF Callee(c) = n THEN FlushAll([ui[n] EXCEPT !.remote = c])
                                ELSE ui[n]) EXCEPT !.steps[c] = "notify"],
          {Ask(IF Callee(c) = n THEN "answer" ELSE "offer", c),
           Ask("ice", c)})
  /\ UNCHANGED <<party, breaks>>

\* The manager has been told to end meanwhile.
CreateFails(n, c) ==
  /\ ui[n].steps[c] = "describe" /\ ui[n].pc # c
  /\ Acts(n, [ui[n] EXCEPT !.steps[c] = "none"], {})
  /\ UNCHANGED <<party, breaks>>

\* onState on the main thread, whatever became of the signal.
OnState(n, c) ==
  /\ ui[n].steps[c] = "notify"
  /\ Acts(n, [ui[n] EXCEPT !.steps[c] = "none", !.activeCall = c], {})
  /\ UNCHANGED <<party, breaks>>

-----------------------------------------------------------------------------
(* Events *)

RingOrReject(n) ==
  LET c == Head(events[n]).call
      u == ui[n]
  IN /\ Handles(n, "offer")
     /\ IF u.activeCall # None \/ u.pending # None
          THEN Handled(n, u, {Ask("end", c)})
          ELSE Handled(n, [u EXCEPT !.pending = c], {})

\* handleAnswer does not ask for which call the answer is, and the state of
\* the call is set from the answer.
HandleAnswer(n) ==
  LET c == Head(events[n]).call
      u == [ui[n] EXCEPT !.watching = TRUE, !.activeCall = c]
  IN /\ Handles(n, "answer")
     /\ Handled(n, IF u.pc = None THEN u
                   ELSE FlushAll([u EXCEPT !.remote = c]), {})

HandleIce(n) ==
  LET c == Head(events[n]).call
      u == [ui[n] EXCEPT !.watching = TRUE]
  IN /\ Handles(n, "ice")
     /\ Handled(n, IF u.pc # None /\ u.remote # None
                     THEN [u EXCEPT !.ice = @ \cup {c}]
                     ELSE [u EXCEPT !.early = @ \cup {c}], {})

ShouldEnd(n, c) == \/ ui[n].activeCall \in {None, c}
                   \/ PeerOf(n, ui[n].activeCall) = PeerOf(n, c)
CallEnded(n) ==
  LET c == Head(events[n]).call
  IN /\ Handles(n, "ended")
     /\ Handled(n, IF ShouldEnd(n, c) THEN Hangup(ui[n]) ELSE ui[n], {})

EndCallIfPeer(n) ==
  /\ Handles(n, "peer_disconnected")
  /\ Handled(n, IF InCallWith(n, Head(events[n]).peer) THEN Hangup(ui[n])
                ELSE ui[n], {})

\* onIceConnectionChange, then endActiveCall.
AndroidReports(n) == ui[n].watching /\ ui[n].activeCall # None
OnIceConnectionChange(n) ==
  /\ AndroidReports(n)
  /\ Acts(n, Hangup(ui[n]), NotifyRemote(ui[n]))
  /\ UNCHANGED party

-----------------------------------------------------------------------------
AndroidUser(n) ==
  \/ \E m \in Node \ {n} : StartOutgoing(n, m) \/ SoftDisconnect(n, m)
  \/ AcceptCall(n) \/ DeclineCall(n) \/ HangUp(n)

AndroidWorks(n) ==
  \/ \E c \in Made : \/ CreatePeer(n, c) \/ CreateDescription(n, c)
                     \/ CreateFails(n, c) \/ OnState(n, c)
  \/ RingOrReject(n) \/ HandleAnswer(n) \/ HandleIce(n) \/ CallEnded(n)
  \/ EndCallIfPeer(n)
=============================================================================
