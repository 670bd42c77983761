------------------------------ MODULE PeerLink ------------------------------
(***************************************************************************)
(* The connections of two peers that know and trust each other: dialing,   *)
(* accepting, the tie-break when both dial, the move of connection and     *)
(* session from the transport's id to the peer's id, the end of a          *)
(* connection, the automatic reconnect and the user's disconnect           *)
(* (core/src/p2p/engine.rs and core/src/network/iroh_transport.rs).        *)
(*                                                                         *)
(* Each engine keeps its connections and its sessions in two maps under    *)
(* the same two keys: "iroh", the transport's id of a peer, which every    *)
(* connection starts with, and "peer", its identity, once a handshake has  *)
(* proved it.  The handshake is the one of module Handshake; here only its *)
(* roles and the connection that carries each step matter, and a step's    *)
(* handler runs without interruption.                                      *)
(*                                                                         *)
(* Both engines know each other's QR code and have verified it before, so  *)
(* that a completed handshake is trusted at once.  A call of               *)
(* connect_and_verify that finds another one under way only waits for its  *)
(* outcome and is left out; so are transfers and queues, which modules     *)
(* FileTransfer and Messaging have.                                        *)
(***************************************************************************)
EXTENDS Integers, Sequences, FiniteSets

CONSTANTS
  Node,             \* the two peers
  SmallerKey,       \* the one with the smaller identity key
  SmallerEndpoint,  \* the one with the smaller iroh endpoint id
  MaxConns,         \* bound: connections that exist at the same time
  MaxAttempts,      \* rounds of auto_reconnect
  MaxFaults,        \* bound: dials that fail and connections that break
  MaxDials,         \* bound: calls of connect_and_verify by the users
  MaxLeaves,        \* bound: disconnects by the users
  Prompt            \* TRUE: a task that can run does so before anything more
                    \* arrives, and connecting is faster than a handshake

ASSUME NodeAssumption == \E a, b \in Node : a # b /\ Node = {a, b}
ASSUME PeerLinkAssumption ==
  /\ SmallerKey \in Node /\ SmallerEndpoint \in Node
  /\ MaxConns \in Nat \ {0} /\ MaxAttempts \in Nat \ {0}
  /\ MaxFaults \in Nat /\ MaxDials \in Nat /\ MaxLeaves \in Nat
  /\ Prompt \in BOOLEAN

Other(p) == CHOOSE q \in Node : q # p
Conn == 1 .. MaxConns
Key  == {"iroh", "peer"}
Names == 1 .. 9    \* bound: handshakes of a peer still remembered anywhere
NoConn == 0
Nil == "nil"
None == <<>>

VARIABLES
  dialer,   \* who dialed a connection
  status,   \* status[c][p]: p's end of c, and why it is closed
  lost,     \* connections whose network is gone
  wire,     \* wire[c][p]: frames p sent over c that its peer has not read
  loop,     \* loop[c][p]: the task that reads c at p, and the id it resolved
  reg,      \* IrohTransport.connections
  sess,     \* peers: the sessions
  alias,    \* peer_aliases maps the transport's id to the peer's
  waiter,   \* the key under which handshake_wait holds the dial's sender
  signal,   \* what the dial's channel holds
  dial,     \* the dial: where it stands, its connection, who called, and
            \* whether handshake_done told it of a session
  paused,   \* user_paused
  recon,    \* rounds left to auto_reconnect; 0: it does not run
  left,     \* the user has disconnected and not asked for a connection since
  count     \* faults, user dials and leaves so far

conns    == <<dialer, status, lost, wire>>
sessions == <<sess, alias>>
wake     == <<waiter, signal>>
user     == <<left, count>>
vars == <<conns, loop, reg, sessions, wake, dial, paused, recon, user>>

-----------------------------------------------------------------------------
(* Connections *)

\* A live end is "open"; the dialed end is "unseen" until it is accepted.
Closers == {"glare", "replaced", "disconnect"}
Heard(why) == CASE why = "glare"      -> "by peer: glare"
                [] why = "replaced"   -> "by peer: replaced"
                [] why = "disconnect" -> "by peer: disconnect"

Close(st, c, p, why) ==
  IF c # NoConn /\ st[c][p] = "open" THEN [st EXCEPT ![c][p] = why] ELSE st

Live(p, c) == c # NoConn /\ status[c][p] = "open"

HasConnection(p, k) == Live(p, reg[p][k])

\* Nothing refers to the connection any more, so that its number is free.
Free(c) ==
  /\ \A p \in Node : /\ status[c][p] \notin {"open", "unseen"}
                     /\ loop[c][p].at \in {"none", "done"}
                     /\ \A k \in Key : reg[p][k] # c
                     /\ dial[p].conn # c

\* IrohTransport::register for the transport's id.
LosesGlare(p, c, old) == dialer[old] = SmallerEndpoint

Rejected(p, c) ==
  LET old == reg[p]["iroh"]
  IN Live(p, old) /\ old # c /\ dialer[old] # dialer[c] /\ LosesGlare(p, c, old)

LeavesReplaced(p, c, st) == st                              \* mutant
ClosesReplaced(p, c, st) ==
  IF reg[p]["iroh"] = c THEN st ELSE Close(st, reg[p]["iroh"], p, "replaced")

Register(p, c, st) ==
  IF Rejected(p, c)
    THEN /\ status' = Close(st, c, p, "glare")
         /\ UNCHANGED reg
    ELSE /\ status' = ClosesReplaced(p, c, st)
         /\ reg' = [reg EXCEPT ![p]["iroh"] = c]

-----------------------------------------------------------------------------
(* Sessions *)

\* hs names the handshake whose key the session holds or negotiates; proved
\* says that the peer's identity is known from it.
Absent == [role |-> "absent", hs |-> None, proved |-> FALSE, trusted |-> FALSE]
Fresh  == [Absent EXCEPT !.role = "idle"]
Initiating(h)  == [Fresh EXCEPT !.role = "initiator", !.hs = h]
Responding(h)  == [Fresh EXCEPT !.role = "responder", !.hs = h, !.proved = TRUE]
Completed(s)   == [s EXCEPT !.role = "idle", !.proved = TRUE]

Has(p, k) == sess[p][k].role # "absent"

\* resolve_peer_id; Nil where it fails.
Resolve(p, k) ==
  IF k = "iroh"
    THEN CASE alias[p] /\ Has(p, "peer") -> "peer"
           [] Has(p, "iroh") /\ ~(alias[p] /\ Has(p, "peer")) -> "iroh"
           [] OTHER -> Nil
    ELSE CASE Has(p, "peer") -> "peer"
           [] ~Has(p, "peer") /\ sess[p]["iroh"].proved -> "iroh"
           [] OTHER -> Nil

ResolveOr(p, k) == IF Resolve(p, k) = Nil THEN k ELSE Resolve(p, k)

\* is_peer_connected and is_peer_trusted, asked of the peer's id.
Up(p) ==
  LET k == Resolve(p, "peer")
  IN k # Nil /\ HasConnection(p, k) /\ sess[p][k].trusted

Entry(s) == IF s.role = "absent" THEN Fresh ELSE s

\* The frame goes over the connection registered under the session's key.
\* Where it was broken meanwhile nobody notices.
Send(w, c, p, f) ==
  IF c \in lost THEN w ELSE [w EXCEPT ![c][p] = Append(@, f)]

Step1(h) == [step |-> 1, hs |-> h]
Step2(h) == [step |-> 2, hs |-> h]
Step3(h) == [step |-> 3, hs |-> h]
Yield    == [step |-> 0, hs |-> None]
Dropped  == [step |-> -1, hs |-> None]

Named(h) ==
  \/ \E p \in Node, k \in Key : sess[p][k].hs = h
  \/ \E p \in Node : signal[p] # None /\ signal[p].hs = h
  \/ \E c \in Conn, p \in Node : \E i \in DOMAIN wire[c][p] : wire[c][p][i].hs = h

\* Handshakes nobody remembers lend their name to the next one.
FreeNames(p) == {n \in Names : ~Named(<<p, n>>)}
NextHandshake(p) == <<p, CHOOSE n \in FreeNames(p) : \A m \in FreeNames(p) : n <= m>>

\* canonicalize_peer, for a session under the transport's id: what becomes of
\* the sessions, the connections, the waiter and the alias.
ClosesPrevious(p, st) ==
  IF reg[p]["iroh"] # NoConn /\ reg[p]["peer"] # reg[p]["iroh"]
    THEN Close(st, reg[p]["peer"], p, "replaced") ELSE st

Canonicalize(p, s) ==
  IF s.proved
    THEN /\ sess'   = [sess EXCEPT ![p] = [iroh |-> Absent, peer |-> s]]
         /\ alias'  = [alias EXCEPT ![p] = TRUE]
         /\ status' = ClosesPrevious(p, status)
         /\ reg'    = IF reg[p]["iroh"] = NoConn THEN reg
                        ELSE [reg EXCEPT ![p] = [iroh |-> NoConn, peer |-> @["iroh"]]]
         /\ waiter' = [waiter EXCEPT ![p] = IF @ = "iroh" THEN "peer" ELSE @]
    ELSE UNCHANGED <<sess, alias, status, reg, waiter>>

\* A task of p is about to run.
Ended(p, c) == loop[c][p].at = "reading" /\ status[c][p] # "open"
Busy(p) ==
  \/ dial[p].at \in {"woken", "begun", "dialed", "ready", "finishing"}
  \/ dial[p].at = "waiting" /\ signal[p] # None
  \/ dial[p].at = "superseded" /\ dial[p].told
  \/ \E c \in Conn : loop[c][p].at = "lost" \/ Ended(p, c)
Arrives(p) == Prompt => ~Busy(p)

\* Another connection of the two is under way.
Connecting(p) ==
  \/ dial[p].at \in {"dialing", "dialed"}
  \/ \E c \in Conn : status[c][p] = "unseen"
Completes == Prompt => \A p \in Node : ~Connecting(p)

-----------------------------------------------------------------------------
Init ==
  /\ dialer = [c \in Conn |-> Nil]
  /\ status = [c \in Conn |-> [p \in Node |-> "unused"]]
  /\ lost   = {}
  /\ wire   = [c \in Conn |-> [p \in Node |-> <<>>]]
  /\ loop   = [c \in Conn |-> [p \in Node |-> [at |-> "none", key |-> Nil]]]
  /\ reg    = [p \in Node |-> [k \in Key |-> NoConn]]
  /\ sess   = [p \in Node |-> [k \in Key |-> Absent]]
  /\ alias  = [p \in Node |-> FALSE]
  /\ waiter = [p \in Node |-> Nil]
  /\ signal = [p \in Node |-> None]
  /\ dial   = [p \in Node |-> [at |-> "idle", conn |-> NoConn,
                               caller |-> Nil, told |-> FALSE]]
  /\ paused = [p \in Node |-> {}]
  /\ recon  = [p \in Node |-> 0]
  /\ left   = [p \in Node |-> FALSE]
  /\ count  = [faults |-> 0, dials |-> 0, leaves |-> 0]

-----------------------------------------------------------------------------
(* connect_and_verify *)

Goto(p, label) == dial' = [dial EXCEPT ![p].at = label]

\* The rounds left when a call of auto_reconnect is over.
NeverGivesUp(p, ok) == IF ok THEN 0 ELSE recon[p]           \* mutant
RoundsLeft(p, ok) == IF ok THEN 0 ELSE recon[p] - 1

Returns(p, ok) ==
  /\ dial'  = [dial EXCEPT ![p] = [at |-> "idle", conn |-> NoConn,
                                   caller |-> Nil, told |-> FALSE]]
  /\ recon' = IF dial[p].caller # "auto" THEN recon
                ELSE [recon EXCEPT ![p] = RoundsLeft(p, ok)]

\* A call that fails reports success if handshake_done was told of a session.
Fails(p) == Returns(p, dial[p].told)

\* The pause ends, and a session that is up is all that is asked for.
Begin(p, who) ==
  /\ paused' = [paused EXCEPT ![p] = @ \ {"peer"}]
  /\ \/ /\ Up(p)
        /\ dial'  = [dial EXCEPT ![p].at = "idle"]
        /\ recon' = IF who = "auto" THEN [recon EXCEPT ![p] = 0] ELSE recon
     \/ /\ ~Up(p)
        /\ dial' = [dial EXCEPT ![p] = [at |-> "begun", conn |-> NoConn,
                                        caller |-> who, told |-> FALSE]]
        /\ UNCHANGED recon
  /\ UNCHANGED <<conns, loop, reg, sessions, wake>>

UserDials(p) ==
  /\ dial[p].at = "idle" /\ count.dials < MaxDials
  /\ left'  = [left EXCEPT ![p] = FALSE]
  /\ count' = [count EXCEPT !.dials = @ + 1]
  /\ Begin(p, "user")

\* auto_reconnect, each time it wakes up: the checks ...
AutoWakes(p) ==
  /\ recon[p] > 0 /\ dial[p].at = "idle"
  /\ \/ /\ "peer" \in paused[p] \/ Up(p)
        /\ recon' = [recon EXCEPT ![p] = 0]
        /\ UNCHANGED dial
     \/ /\ "peer" \notin paused[p] /\ ~Up(p)
        /\ Goto(p, "woken")
        /\ UNCHANGED recon
  /\ UNCHANGED <<conns, loop, reg, sessions, wake, paused, user>>

\* ... and the call.
AutoDials(p) ==
  /\ dial[p].at = "woken"
  /\ Begin(p, "auto")
  /\ UNCHANGED user

\* ensure_connected drops the sessions of this identity that are not in a
\* handshake, with their connections ...
Stale(p) ==
  { k \in Key : /\ sess[p][k].role = "idle"
                /\ k = "peer" \/ sess[p][k].proved }
Torn(p) == UNION { {k, ResolveOr(p, k)} : k \in Stale(p) }

LeavesOpen(p, ks) == {}                                     \* mutant
TornConns(p, ks) == { reg[p][k] : k \in ks } \ {NoConn}

CloseAll(st, p, cs, why) ==
  [c \in Conn |-> [q \in Node |->
     IF q = p /\ c \in cs THEN Close(st, c, p, why)[c][p] ELSE st[c][q]]]

Teardown(p, ks) ==
  /\ status' = CloseAll(status, p, TornConns(p, ks), "disconnect")
  /\ reg'  = [reg EXCEPT ![p] = [k \in Key |-> IF k \in ks THEN NoConn ELSE @[k]]]
  /\ waiter' = [waiter EXCEPT ![p] = IF @ \in ks THEN Nil ELSE @]
  /\ signal' = [signal EXCEPT ![p] = IF waiter[p] \in ks THEN Dropped ELSE @]

\* ... and a connection that the peer dialed meanwhile is used as it is.
Prepare(p) ==
  /\ dial[p].at = "begun"
  /\ Teardown(p, Torn(p))
  /\ LET rest == [k \in Key |-> IF k \in Torn(p) THEN Absent ELSE sess[p][k]]
         reuse == "iroh" \notin Torn(p) /\ HasConnection(p, "iroh")
     IN \/ /\ reuse
           /\ sess' = [sess EXCEPT ![p] = [rest EXCEPT !["iroh"] = Entry(@)]]
           /\ Goto(p, "ready")
        \/ /\ ~reuse
           /\ sess' = [sess EXCEPT ![p] = rest]
           /\ Goto(p, "dialing")
  /\ UNCHANGED <<dialer, lost, wire, loop, alias, paused, recon, user>>

DialFails(p) ==
  /\ dial[p].at = "dialing" /\ count.faults < MaxFaults
  /\ count' = [count EXCEPT !.faults = @ + 1]
  /\ Fails(p)
  /\ UNCHANGED <<conns, loop, reg, sessions, wake, paused, left>>

\* The endpoint is connected; the peer has yet to accept.
DialSucceeds(p) ==
  /\ dial[p].at = "dialing" /\ \A q \in Node : Arrives(q)
  /\ \E c \in Conn :
       /\ Free(c) /\ \A d \in 1 .. (c - 1) : ~Free(d)
       /\ dialer' = [dialer EXCEPT ![c] = p]
       /\ status' = [status EXCEPT ![c] = [q \in Node |->
                       IF q = p THEN "open" ELSE "unseen"]]
       /\ lost'   = lost \ {c}
       /\ wire'   = [wire EXCEPT ![c] = [q \in Node |-> <<>>]]
       /\ loop'   = [loop EXCEPT ![c] = [q \in Node |-> [at |-> "none", key |-> Nil]]]
       /\ dial'   = [dial EXCEPT ![p].at = "dialed", ![p].conn = c]
  /\ UNCHANGED <<reg, sessions, wake, paused, recon, user>>

\* The dialed connection is registered, unless the peer's won already; the
\* handshake goes on over the one that is registered.
Registers(p) ==
  /\ dial[p].at = "dialed"
  /\ LET c == dial[p].conn
     IN /\ Register(p, c, status)
        /\ loop' = IF Rejected(p, c) THEN loop
                     ELSE [loop EXCEPT ![c][p].at = "reading"]
  /\ sess' = [sess EXCEPT ![p]["iroh"] = Entry(@)]
  /\ dial' = [dial EXCEPT ![p].at = "ready", ![p].conn = NoConn]
  /\ UNCHANGED <<dialer, lost, wire, alias, wake, paused, recon, user>>

\* handshake_with_qr_bytes, up to the sending of step 1.
SendStep1(p) ==
  /\ dial[p].at = "ready"
  /\ \/ /\ ~Has(p, "iroh")
        /\ Fails(p)
        /\ UNCHANGED <<sess, wake, wire>>
     \/ /\ sess[p]["iroh"].role = "responder"
        /\ Goto(p, "superseded")
        /\ UNCHANGED <<sess, wake, wire, recon>>
     \/ /\ sess[p]["iroh"].role \in {"idle", "initiator"}
        /\ HasConnection(p, "iroh") /\ FreeNames(p) # {}
        /\ LET h == NextHandshake(p)
           IN /\ sess' = [sess EXCEPT ![p]["iroh"] = Initiating(h)]
              /\ wire' = Send(wire, reg[p]["iroh"], p, Step1(h))
        /\ waiter' = [waiter EXCEPT ![p] = "iroh"]
        /\ signal' = [signal EXCEPT ![p] = None]
        /\ Goto(p, "waiting")
        /\ UNCHANGED recon
     \/ /\ sess[p]["iroh"].role \in {"idle", "initiator"}
        /\ ~HasConnection(p, "iroh")                        \* abort_initiator
        /\ sess' = [sess EXCEPT ![p]["iroh"] = Fresh]
        /\ waiter' = [waiter EXCEPT ![p] = Nil]
        /\ Fails(p)
        /\ UNCHANGED <<signal, wire>>
  /\ UNCHANGED <<dialer, status, lost, loop, reg, alias, paused, user>>

AbortInitiator(p) ==
  /\ waiter' = [waiter EXCEPT ![p] = IF @ = "iroh" THEN Nil ELSE @]
  /\ sess' = IF sess[p]["iroh"].role = "initiator"
               THEN [sess EXCEPT ![p]["iroh"] = Fresh] ELSE sess

\* The dial wakes up: step 2, a yield of the read loop, or its waiter is gone.
Wakes(p) ==
  /\ dial[p].at = "waiting" /\ signal[p] # None
  /\ signal' = [signal EXCEPT ![p] = None]
  /\ \/ /\ signal[p].step = 2 /\ sess[p]["iroh"].role # "initiator"
        /\ Fails(p)
        /\ UNCHANGED <<sess, waiter>>
     \/ /\ signal[p].step = 2 /\ sess[p]["iroh"].role = "initiator"
        /\ sess' = [sess EXCEPT ![p]["iroh"] = Completed(@)]
        /\ Goto(p, "finishing")
        /\ UNCHANGED <<waiter, recon>>
     \/ /\ signal[p] = Yield
        /\ Goto(p, "superseded")
        /\ UNCHANGED <<sess, waiter, recon>>
     \/ /\ signal[p] = Dropped
        /\ AbortInitiator(p)
        /\ Fails(p)
  /\ UNCHANGED <<conns, loop, reg, alias, paused, user>>

\* Step 3 goes out, the session moves to the peer's id and is trusted.
SendStep3(p) ==
  /\ dial[p].at = "finishing"
  /\ LET k == IF Has(p, "iroh") THEN "iroh" ELSE Resolve(p, "iroh")
         sent == k # Nil /\ HasConnection(p, k)
     IN /\ wire' = IF sent THEN Send(wire, reg[p][k], p, Step3(sess[p][k].hs)) ELSE wire
        /\ \/ /\ sent /\ Has(p, "iroh")
              /\ LET s == sess[p]["iroh"]
                 IN Canonicalize(p, [s EXCEPT !.trusted = s.role = "idle" /\ s.proved])
              /\ paused' = [paused EXCEPT ![p] =
                   @ \ {IF sess[p]["iroh"].proved THEN "peer" ELSE "iroh"}]
              /\ Returns(p, TRUE)
           \/ /\ ~(sent /\ Has(p, "iroh"))
              /\ Fails(p)
              /\ UNCHANGED <<sess, alias, status, reg, waiter, paused>>
  /\ UNCHANGED <<dialer, lost, loop, signal, user>>

\* await_handshake
OutcomeArrives(p) ==
  /\ dial[p].at = "superseded" /\ dial[p].told
  /\ Returns(p, TRUE)
  /\ UNCHANGED <<conns, loop, reg, sessions, wake, paused, user>>

-----------------------------------------------------------------------------
(* The accept loop and the read loop of a connection *)

\* on_inbound_connection.  A handshake that waits for its answer may have lost
\* its step 1 with the connection that is now replaced: it is sent again.
Accept(p, c) ==
  /\ status[c][p] = "unseen" /\ c \notin lost /\ Arrives(p)
  /\ Register(p, c, [status EXCEPT ![c][p] = "open"])
  /\ \/ /\ Rejected(p, c)
        /\ UNCHANGED <<loop, sess, wire>>
     \/ /\ ~Rejected(p, c)
        /\ loop' = [loop EXCEPT ![c][p].at = "reading"]
        /\ sess' = [sess EXCEPT ![p]["iroh"] = Entry(@)]
        /\ wire' = IF sess[p]["iroh"].role = "initiator"
                     THEN Send(wire, c, p, Step1(sess[p]["iroh"].hs)) ELSE wire
  /\ UNCHANGED <<dialer, lost, alias, wake, dial, paused, recon, user>>

\* The dialer closed the connection, or the network did, before it was accepted.
Refuse(p, c) ==
  /\ status[c][p] = "unseen" /\ Arrives(p)
  /\ c \in lost \/ status[c][Other(p)] # "open"
  /\ status' = [status EXCEPT ![c][p] = "by peer: disconnect"]
  /\ UNCHANGED <<dialer, lost, wire, loop, reg, sessions, wake, dial, paused,
                 recon, user>>

Arrived(p, c) == wire[c][Other(p)]
Readable(p, c) ==
  /\ loop[c][p].at = "reading" /\ status[c][p] = "open" /\ Arrived(p, c) # <<>>

Answered(p, s, h) == s.hs = h

StaysInitiator(p, s) == s.role = "initiator" /\ p = SmallerKey

Reply(w, p, k, f) == IF HasConnection(p, k) THEN Send(w, reg[p][k], p, f) ELSE w

\* handle_handshake_init
ReadStep1(p, c) ==
  /\ Readable(p, c) /\ Arrives(p) /\ Head(Arrived(p, c)).step = 1
  /\ LET h    == Head(Arrived(p, c)).hs
         k    == ResolveOr(p, "iroh")
         s    == Entry(sess[p][k])
         rest == [wire EXCEPT ![c][Other(p)] = Tail(@)]
     IN \/ /\ Answered(p, s, h)
           /\ wire' = IF s.role = "responder" THEN Reply(rest, p, k, Step2(h)) ELSE rest
           /\ UNCHANGED <<sess, wake>>
        \/ /\ ~Answered(p, s, h) /\ StaysInitiator(p, s)
           /\ wire' = rest
           /\ UNCHANGED <<sess, wake>>
        \/ /\ ~Answered(p, s, h) /\ ~StaysInitiator(p, s)
           /\ sess' = [sess EXCEPT ![p][k] = Responding(h)]
           /\ wire' = Reply(rest, p, k, Step2(h))
           /\ \/ /\ s.role = "initiator" /\ waiter[p] = k
                 /\ waiter' = [waiter EXCEPT ![p] = Nil]
                 /\ signal' = [signal EXCEPT ![p] = Yield]
              \/ /\ ~(s.role = "initiator" /\ waiter[p] = k)
                 /\ UNCHANGED wake
  /\ UNCHANGED <<dialer, status, lost, loop, reg, alias, dial, paused, recon, user>>

ReadStep2(p, c) ==
  /\ Readable(p, c) /\ Arrives(p) /\ Head(Arrived(p, c)).step = 2
  /\ Completes
  /\ wire' = [wire EXCEPT ![c][Other(p)] = Tail(@)]
  /\ \/ /\ waiter[p] = ResolveOr(p, "iroh")
        /\ waiter' = [waiter EXCEPT ![p] = Nil]
        /\ signal' = [signal EXCEPT ![p] = Head(Arrived(p, c))]
     \/ waiter[p] # ResolveOr(p, "iroh") /\ UNCHANGED wake
  /\ UNCHANGED <<dialer, status, lost, loop, reg, sessions, dial, paused, recon,
                 user>>

\* handle_handshake_finish
ReadStep3(p, c) ==
  /\ Readable(p, c) /\ Arrives(p) /\ Head(Arrived(p, c)).step = 3
  /\ Completes
  /\ wire' = [wire EXCEPT ![c][Other(p)] = Tail(@)]
  /\ LET k == ResolveOr(p, "iroh")
         s == [Completed(sess[p][k]) EXCEPT !.trusted = TRUE]
     IN \/ /\ sess[p][k].role = "responder"
           /\ \/ k = "iroh" /\ Canonicalize(p, s)
              \/ /\ k = "peer"
                 /\ sess' = [sess EXCEPT ![p]["peer"] = s]
                 /\ UNCHANGED <<alias, status, reg, waiter>>
           /\ paused' = [paused EXCEPT ![p] = @ \ {"peer"}]
           /\ dial' = [dial EXCEPT ![p].told = @ \/ dial[p].at \notin {"idle", "woken"}]
        \/ /\ sess[p][k].role # "responder"
           /\ UNCHANGED <<sess, alias, status, reg, waiter, paused, dial>>
  /\ UNCHANGED <<dialer, lost, loop, signal, recon, user>>

\* The read loop comes to its end: a replaced connection is of no interest, and
\* one the peer gave up for another is given time to be followed by that one.
Superseded(p, c) == status[c][p] \in {"by peer: glare", "by peer: replaced"}

AnyEnd(p, c, key) == {key, "iroh"}                          \* mutant
Current(p, c, key) == { k \in {key, "iroh"} : reg[p][k] = c }

LoopEnds(p, c) ==
  /\ Ended(p, c)
  /\ LET key == ResolveOr(p, "iroh")
         current == Current(p, c, key)
     IN \/ /\ current = {}
           /\ loop' = [loop EXCEPT ![c][p].at = "done"]
           /\ UNCHANGED reg
        \/ /\ current # {} /\ Superseded(p, c)
           /\ loop' = [loop EXCEPT ![c][p] = [at |-> "superseded", key |-> key]]
           /\ reg' = [reg EXCEPT ![p] = [k \in Key |-> IF k \in current THEN NoConn ELSE @[k]]]
        \/ /\ current # {} /\ ~Superseded(p, c)
           /\ loop' = [loop EXCEPT ![c][p] = [at |-> "lost", key |-> key]]
           /\ UNCHANGED reg
  /\ UNCHANGED <<conns, sessions, wake, dial, paused, recon, user>>

\* Five seconds later, by when a connection that is up has been registered.
SupersededWait(p, c) ==
  /\ loop[c][p].at = "superseded"
  /\ dial[p].at # "dialed" /\ \A d \in Conn : status[d][p] # "unseen"
  /\ loop' = [loop EXCEPT ![c][p].at =
       IF HasConnection(p, loop[c][p].key) \/ HasConnection(p, "iroh")
         THEN "done" ELSE "lost"]
  /\ UNCHANGED <<conns, reg, sessions, wake, dial, paused, recon, user>>

\* schedule_auto_reconnect: one loop at a time, and only for a known identity.
OneRoundMore(p, k) ==                                       \* mutant
  recon' = IF sess[p][k].trusted /\ k = "peer" /\ recon[p] = 0
             THEN [recon EXCEPT ![p] = MaxAttempts + 1] ELSE recon
ScheduleReconnect(p, k) ==
  recon' = IF sess[p][k].trusted /\ k = "peer" /\ recon[p] = 0
             THEN [recon EXCEPT ![p] = MaxAttempts] ELSE recon

\* on_connection_lost
ConnectionLost(p, c) ==
  /\ loop[c][p].at = "lost"
  /\ loop' = [loop EXCEPT ![c][p] = [at |-> "done", key |-> Nil]]
  /\ LET k == loop[c][p].key
         both == {k, "iroh"}
     IN /\ reg' = [reg EXCEPT ![p] = [i \in Key |->
                     IF i \in both /\ @[i] = c THEN NoConn ELSE @[i]]]
        /\ \/ /\ k \in paused[p]
              /\ UNCHANGED <<sess, wake, recon>>
           \/ /\ k \notin paused[p]
              /\ sess' = [sess EXCEPT ![p] = [i \in Key |->
                            IF i \in both THEN Absent ELSE @[i]]]
              /\ waiter' = [waiter EXCEPT ![p] = IF @ \in both THEN Nil ELSE @]
              /\ signal' = [signal EXCEPT ![p] = IF waiter[p] \in both THEN Dropped ELSE @]
              /\ ScheduleReconnect(p, k)
  /\ UNCHANGED <<conns, alias, dial, paused, user>>

-----------------------------------------------------------------------------
(* The user, the network and the timers *)

\* disconnect_peer
Disconnect(p) ==
  /\ Up(p) /\ count.leaves < MaxLeaves
  /\ LET k == ResolveOr(p, "peer")
     IN /\ Teardown(p, {k, "peer"})
        /\ sess' = [sess EXCEPT ![p] = [i \in Key |->
                      IF i \in {k, "peer"} THEN Absent ELSE @[i]]]
        /\ paused' = [paused EXCEPT ![p] = @ \cup {k}]
  /\ left'  = [left EXCEPT ![p] = TRUE]
  /\ count' = [count EXCEPT !.leaves = @ + 1]
  /\ UNCHANGED <<dialer, lost, wire, loop, alias, dial, recon>>

Breaks(c) ==
  /\ c \notin lost /\ count.faults < MaxFaults
  /\ \E p \in Node : status[c][p] = "open"
  /\ lost'  = lost \cup {c}
  /\ wire'  = [wire EXCEPT ![c] = [p \in Node |-> <<>>]]
  /\ count' = [count EXCEPT !.faults = @ + 1]
  /\ UNCHANGED <<dialer, status, loop, reg, sessions, wake, dial, paused, recon, left>>

\* An end learns that the other one has closed, or that nobody answers.
HearClose(p, c) ==
  /\ status[c][p] = "open" /\ Arrives(p)
  /\ \/ /\ c \in lost
        /\ status' = [status EXCEPT ![c][p] = "timed out"]
     \/ /\ c \notin lost /\ status[c][Other(p)] \in Closers
        /\ status' = [status EXCEPT ![c][p] = Heard(status[c][Other(p)])]
  /\ UNCHANGED <<dialer, lost, wire, loop, reg, sessions, wake, dial, paused,
                 recon, user>>

\* Nothing is under way but timers.
Pending(p, c) ==
  \/ status[c][p] = "unseen"
  \/ Readable(p, c)
  \/ status[c][p] = "open" /\ (c \in lost \/ status[c][Other(p)] \in Closers)
  \/ Ended(p, c)
  \/ loop[c][p].at \in {"superseded", "lost"}

Quiet ==
  \A p \in Node :
    /\ \A c \in Conn : ~Pending(p, c)
    /\ dial[p].at \in {"idle", "waiting", "superseded"}
    /\ dial[p].at = "waiting" => signal[p] = None
    /\ dial[p].at = "superseded" => ~dial[p].told

\* HANDSHAKE_TIMEOUT, and the longer one of await_handshake.
Timeout(p) ==
  /\ Quiet
  /\ \/ dial[p].at = "waiting" /\ AbortInitiator(p)
     \/ dial[p].at = "superseded" /\ UNCHANGED <<sess, waiter>>
  /\ Fails(p)
  /\ UNCHANGED <<conns, loop, reg, alias, signal, paused, user>>

-----------------------------------------------------------------------------
DialStep(p) ==
  \/ AutoWakes(p) \/ AutoDials(p) \/ Prepare(p) \/ DialSucceeds(p)
  \/ Registers(p) \/ SendStep1(p) \/ Wakes(p) \/ SendStep3(p)
  \/ OutcomeArrives(p) \/ Timeout(p)

ConnStep(p, c) ==
  \/ Accept(p, c) \/ Refuse(p, c)
  \/ ReadStep1(p, c) \/ ReadStep2(p, c) \/ ReadStep3(p, c)
  \/ LoopEnds(p, c) \/ SupersededWait(p, c) \/ ConnectionLost(p, c)
  \/ HearClose(p, c)

Next ==
  \/ \E p \in Node : \/ UserDials(p) \/ DialFails(p) \/ Disconnect(p)
                     \/ DialStep(p)
  \/ \E p \in Node, c \in Conn : ConnStep(p, c)
  \/ \E c \in Conn : Breaks(c)

Spec == Init /\ [][Next]_vars

\* Every task keeps being scheduled; users and faults come as they please.
Fairness ==
  \A p \in Node : /\ WF_vars(DialStep(p))
                  /\ \A c \in Conn : WF_vars(ConnStep(p, c))

FairSpec == Spec /\ Fairness

-----------------------------------------------------------------------------
(* Properties *)

Handshakes == {None} \cup (Node \X Names)
Session == [role : {"absent", "idle", "initiator", "responder"}, hs : Handshakes,
            proved : BOOLEAN, trusted : BOOLEAN]
Frame == [step : 1 .. 3, hs : Handshakes]
Ends  == {"unused", "unseen", "open", "timed out"} \cup Closers
           \cup { Heard(why) : why \in Closers }

\* The types, and: an alias exists wherever a session has moved to the peer's
\* id, and only a proved session is there.
TypeOK ==
  /\ \A p \in Node : Has(p, "peer") => alias[p] /\ sess[p]["peer"].proved
  /\ dialer \in [Conn -> Node \cup {Nil}]
  /\ status \in [Conn -> [Node -> Ends]]
  /\ lost \subseteq Conn
  /\ wire \in [Conn -> [Node -> Seq(Frame)]]
  /\ loop \in [Conn -> [Node -> [at : {"none", "reading", "superseded", "lost", "done"},
                                 key : Key \cup {Nil}]]]
  /\ reg \in [Node -> [Key -> Conn \cup {NoConn}]]
  /\ sess \in [Node -> [Key -> Session]]
  /\ alias \in [Node -> BOOLEAN]
  /\ waiter \in [Node -> Key \cup {Nil}]
  /\ signal \in [Node -> {None, Yield, Dropped} \cup Frame]
  /\ dial \in [Node -> [at : {"idle", "woken", "begun", "dialing", "dialed", "ready",
                              "waiting", "finishing", "superseded"},
                        conn : Conn \cup {NoConn}, caller : {Nil, "user", "auto"},
                        told : BOOLEAN]]
  /\ paused \in [Node -> SUBSET Key]
  /\ recon \in [Node -> 0 .. MaxAttempts]
  /\ left \in [Node -> BOOLEAN]
  /\ count \in [faults : 0 .. MaxFaults, dials : 0 .. MaxDials, leaves : 0 .. MaxLeaves]

AtRest == Quiet /\ \A p \in Node : dial[p].at = "idle" /\ recon[p] = 0

\* When nothing is under way, either both engines have a trusted session of
\* the same handshake over the same connection, or neither has one, however
\* the two dialed and whatever broke.
ConvergesAtRest ==
  AtRest => \A p, q \in Node :
    Up(p) => /\ Up(q)
             /\ reg[p]["peer"] = reg[q]["peer"]
             /\ sess[p]["peer"].hs = sess[q]["peer"].hs

\* A connection that stays open at rest is the one registered for the peer at
\* both ends: a duplicate is closed and not forgotten.
NoStrayConnection ==
  AtRest => \A c \in Conn, p \in Node :
    status[c][p] = "open" => \E k \in Key : reg[p][k] = c

\* A user who disconnects is not connected again before asking for it, also
\* where the other engine takes the disconnect for a lost connection.
StaysDisconnected == \A p \in Node : left[p] => ~Up(p)

\* Once they have met, a break or dials that cross never leave them apart for
\* good: the automatic reconnect brings them together again, unless a user's
\* own call, which nobody repeats, came in its way.
HealsAtRest ==
  /\ AtRest /\ count.leaves = 0 /\ (count.dials = 1 \/ count.faults = 0)
  /\ \A p \in Node : alias[p]
  => \A p \in Node : Up(p)

\* When nothing is under way the two are not both waiting as responders for
\* the other one's step 3: such sessions are kept by every later dial, which
\* then waits for a handshake that nobody is running.
Answers(p) == \E k \in Key : sess[p][k].role = "responder"
NoMutualResponders == AtRest => \E p \in Node : ~Answers(p)

\* Dials, reconnects and the ends of connections come to rest: the two engines
\* do not replace and dial each other's connections for ever.
Settles == <>[]AtRest
=============================================================================
