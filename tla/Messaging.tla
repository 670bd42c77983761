----------------------------- MODULE Messaging -----------------------------
(***************************************************************************)
(* Text messages between two peers, from send_message to MessageReceived:  *)
(* the trust gate, the outbound queue of a trusted contact and the holding *)
(* queue of an unverified one, in core/src/p2p/engine.rs.  Each engine     *)
(* runs three tasks that share the session and the queues: the user's      *)
(* send, the read loop, and a caller (confirm_peer_trusted, from the user  *)
(* or after a dial, or connect_and_verify).                                *)
(*                                                                         *)
(* A handshake is one step here, except that the responder completes it    *)
(* when it reads step 3 (module Handshake has the rest).  The ratchet is   *)
(* what it lets its peer do: a responder can encrypt once it has decrypted.*)
(* The n-th text of a peer is n.                                           *)
(***************************************************************************)
EXTENDS Integers, Sequences, FiniteSets, Functions

CONSTANTS
  Node,          \* the two peers
  MaxPending,    \* MAX_PENDING_PER_PEER
  MaxHeld,       \* MAX_HELD_INBOUND
  MaxSend,       \* bound: texts a user sends, a function on Node
  MaxSessions    \* bound: handshakes

ASSUME NodeAssumption == \E a, b \in Node : a # b /\ Node = {a, b}
ASSUME MessagingAssumption ==
  /\ MaxPending \in Nat /\ MaxHeld \in Nat
  /\ MaxSend \in [Node -> Nat] /\ MaxSessions \in Nat

Other(p) == CHOOSE q \in Node : q # p

VARIABLES
  link,          \* "up" or "down"
  trust,         \* the session: "none", "handshaking", "sas" or "trusted"
  initiator,     \* its ratchet is the initiator's
  can_send,      \* SessionRatchet.send_ready
  trusted_key,   \* the peer's key is in trusted_pubkeys
  pending,       \* pending_outbound
  held,          \* held_inbound
  wire,          \* wire[p]: frames p sent that its peer has not read
  sending,       \* the text send_message is about to enqueue, or 0
  hand,          \* the text the read loop is about to hold, or 0
  calling,       \* where the caller stands
  flush,         \* flush[p][t]: what flush_pending_for_peer of task t does
  sessions,
  sent,          \* texts the user has sent (history)
  told,          \* texts the user was told were not sent (history)
  lost,          \* texts lost with a session, or over MaxHeld (history)
  delivered,     \* delivered[p]: texts p's user has seen (history)
  confirmed,     \* p's user confirmed a SAS (history)
  stale          \* p acted on a state that had changed (history)

session == <<trust, initiator, can_send>>
tasks   == <<sending, hand, calling, flush>>
outcome == <<told, lost, delivered>>
vars    == <<link, session, trusted_key, pending, held, wire, tasks, sessions,
             sent, outcome, confirmed, stale>>

-----------------------------------------------------------------------------
Task == {"reader", "caller"}

Finish  == [kind |-> "finish"]      \* handshake step 3
Open    == [kind |-> "open"]        \* ratchet_open
Text(n) == [kind |-> "text", n |-> n]

\* A flush: not running, about to take the queue, or sending what it took.
NoFlush == [stage |-> "none", items |-> <<>>, retry |-> <<>>]
Taking  == [NoFlush EXCEPT !.stage = "taking"]

Init ==
  /\ link = "down"
  /\ trust = [p \in Node |-> "none"]
  /\ initiator = [p \in Node |-> FALSE]
  /\ can_send = [p \in Node |-> FALSE]
  /\ trusted_key = [p \in Node |-> FALSE]
  /\ pending = [p \in Node |-> <<>>]
  /\ held = [p \in Node |-> <<>>]
  /\ wire = [p \in Node |-> <<>>]
  /\ sending = [p \in Node |-> 0]
  /\ hand = [p \in Node |-> 0]
  /\ calling = [p \in Node |-> "idle"]
  /\ flush = [p \in Node |-> [t \in Task |-> NoFlush]]
  /\ sessions = 0
  /\ sent = [p \in Node |-> 0]
  /\ told = [p \in Node |-> {}]
  /\ lost = [p \in Node |-> {}]
  /\ delivered = [p \in Node |-> <<>>]
  /\ confirmed = [p \in Node |-> FALSE]
  /\ stale = [p \in Node |-> FALSE]

-----------------------------------------------------------------------------
(* send_wire_message *)

\* It succeeds; it fails with an error that is_link_error knows and
\* flush_pending keeps an item for; or it fails otherwise: the session is not
\* trusted, or the link broke while the frame was written.
Ready(p)     == link = "up" /\ trust[p] = "trusted" /\ can_send[p]
LinkError(p) == \/ link = "down" \/ trust[p] = "none"
                \/ trust[p] = "trusted" /\ ~can_send[p]
Untrusted(p) == link = "up" /\ trust[p] \in {"handshaking", "sas"}
Breaks(p)    == link = "down" /\ trust[p] = "trusted" /\ can_send[p]

Put(p, frame) == wire' = [wire EXCEPT ![p] = Append(@, frame)]
Tell(p, n)    == told' = [told EXCEPT ![p] = @ \cup {n}]

\* What a task decided to keep for later belongs to a state that is over.
MarkIf(p, changed) == stale' = [stale EXCEPT ![p] = @ \/ changed]

-----------------------------------------------------------------------------
(* The user's send *)

\* send_message, up to the result of try_send_message_now.
SendMessage(p) ==
  /\ sending[p] = 0 /\ sent[p] < MaxSend[p]
  /\ sent' = [sent EXCEPT ![p] = @ + 1]
  /\ \/ /\ Ready(p)
        /\ Put(p, Text(sent'[p]))
        /\ UNCHANGED <<sending, told>>
     \/ /\ LinkError(p) /\ trusted_key[p]
        /\ sending' = [sending EXCEPT ![p] = sent'[p]]
        /\ UNCHANGED <<wire, told>>
     \/ /\ \/ LinkError(p) /\ ~trusted_key[p]
           \/ Untrusted(p) \/ Breaks(p)
        /\ Tell(p, sent'[p])
        /\ UNCHANGED <<wire, sending>>
  /\ UNCHANGED <<link, session, trusted_key, pending, held, hand, calling, flush,
                 sessions, lost, delivered, confirmed, stale>>

\* enqueue_pending
Enqueue(p) ==
  /\ sending[p] # 0
  /\ sending' = [sending EXCEPT ![p] = 0]
  /\ \/ /\ Len(pending[p]) < MaxPending
        /\ pending' = [pending EXCEPT ![p] = Append(@, sending[p])]
        /\ MarkIf(p, Ready(p))
        /\ UNCHANGED told
     \/ /\ Len(pending[p]) >= MaxPending
        /\ Tell(p, sending[p])
        /\ UNCHANGED <<pending, stale>>
  /\ UNCHANGED <<link, session, trusted_key, held, wire, hand, calling, flush,
                 sessions, sent, lost, delivered, confirmed>>

-----------------------------------------------------------------------------
(* flush_pending_for_peer, in the read loop or in a caller *)

SetFlush(p, t, f) == flush' = [flush EXCEPT ![p][t] = f]

TakePending(p, t) ==
  /\ flush[p][t].stage = "taking"
  /\ SetFlush(p, t, [NoFlush EXCEPT !.stage = "sending", !.items = pending[p]])
  /\ pending' = [pending EXCEPT ![p] = <<>>]
  /\ UNCHANGED <<link, session, trusted_key, held, wire, sending, hand, calling,
                 sessions, sent, outcome, confirmed, stale>>

\* What becomes of an item that could not be sent.
ForgetsRetry(f) == f.retry                                  \* mutant
Kept(f) == Append(f.retry, Head(f.items))

FlushOne(p, t) ==
  LET f    == flush[p][t]
      rest == [f EXCEPT !.items = Tail(@)]
  IN /\ f.stage = "sending" /\ f.items # <<>>
     /\ \/ /\ Ready(p)
           /\ Put(p, Text(Head(f.items)))
           /\ SetFlush(p, t, rest)
           /\ UNCHANGED told
        \/ /\ LinkError(p) \/ Untrusted(p)
           /\ SetFlush(p, t, [rest EXCEPT !.retry = Kept(f)])
           /\ UNCHANGED <<wire, told>>
        \/ /\ Breaks(p)
           /\ Tell(p, Head(f.items))
           /\ SetFlush(p, t, rest)
           /\ UNCHANGED wire
     /\ UNCHANGED <<link, session, trusted_key, pending, held, sending, hand,
                    calling, sessions, sent, lost, delivered, confirmed, stale>>

\* What is to be sent again goes back to the front of the queue.
FlushEnd(p, t) ==
  LET f == flush[p][t]
  IN /\ f.stage = "sending" /\ f.items = <<>>
     /\ SetFlush(p, t, NoFlush)
     /\ pending' = [pending EXCEPT ![p] = f.retry \o @]
     /\ MarkIf(p, f.retry # <<>> /\ Ready(p))
     /\ calling' = [calling EXCEPT ![p] = IF t = "caller" THEN "idle" ELSE @]
     /\ UNCHANGED <<link, session, trusted_key, held, wire, sending, hand,
                    sessions, sent, outcome, confirmed>>

-----------------------------------------------------------------------------
(* The caller *)

\* The rest of confirm_peer_trusted: key, ratchet_open, release, flush.
Trust(p) ==
  /\ calling[p] = "idle"
  /\ trust' = [trust EXCEPT ![p] = "trusted"]
  /\ calling' = [calling EXCEPT ![p] = "trusted"]
  /\ UNCHANGED <<link, initiator, can_send, trusted_key, pending, held, wire,
                 sending, hand, flush, sessions, sent, outcome, stale>>

\* The user confirms the SAS.
ConfirmPeerTrusted(p) ==
  /\ trust[p] = "sas"
  /\ Trust(p)
  /\ confirmed' = [confirmed EXCEPT ![p] = TRUE]

\* maybe_auto_trust, after a dial
MaybeAutoTrust(p) ==
  /\ trust[p] = "sas" /\ initiator[p] /\ trusted_key[p]
  /\ Trust(p)
  /\ UNCHANGED confirmed

AddTrustedKey(p) ==
  /\ calling[p] = "trusted"
  /\ calling' = [calling EXCEPT ![p] = "open"]
  /\ trusted_key' = [trusted_key EXCEPT ![p] = TRUE]
  /\ UNCHANGED <<link, session, pending, held, wire, sending, hand, flush,
                 sessions, sent, outcome, confirmed, stale>>

\* send_ratchet_bootstrap; its error is ignored.
SendRatchetBootstrap(p) ==
  /\ calling[p] = "open"
  /\ calling' = [calling EXCEPT ![p] = "release"]
  /\ IF initiator[p] /\ Ready(p) THEN Put(p, Open) ELSE UNCHANGED wire
  /\ UNCHANGED <<link, session, trusted_key, pending, held, sending, hand, flush,
                 sessions, sent, outcome, confirmed, stale>>

\* release_held_inbound
ReleaseHeldInbound(p) ==
  /\ calling[p] = "release"
  /\ calling' = [calling EXCEPT ![p] = "flush"]
  /\ delivered' = [delivered EXCEPT ![p] = @ \o held[p]]
  /\ held' = [held EXCEPT ![p] = <<>>]
  /\ SetFlush(p, "caller", Taking)
  /\ UNCHANGED <<link, session, trusted_key, pending, wire, sending, hand,
                 sessions, sent, told, lost, confirmed, stale>>

\* connect_and_verify of a peer that is connected and trusted
ConnectAgain(p) ==
  /\ calling[p] = "idle" /\ link = "up" /\ trust[p] = "trusted"
  /\ calling' = [calling EXCEPT ![p] = "flush"]
  /\ SetFlush(p, "caller", Taking)
  /\ UNCHANGED <<link, session, trusted_key, pending, held, wire, sending, hand,
                 sessions, sent, outcome, confirmed, stale>>

-----------------------------------------------------------------------------
(* The read loop *)

ReaderIdle(p) == hand[p] = 0 /\ flush[p]["reader"].stage = "none"

Reads(p, kind) ==
  /\ ReaderIdle(p)
  /\ wire[Other(p)] # <<>> /\ Head(wire[Other(p)]).kind = kind

Consume(p) == wire' = [wire EXCEPT ![Other(p)] = Tail(@)]

\* handle_handshake_finish: a known key is trusted at once.
ReceiveFinish(p) ==
  /\ Reads(p, "finish")
  /\ Consume(p)
  /\ trust' = [trust EXCEPT ![p] = IF trusted_key[p] THEN "trusted" ELSE "sas"]
  /\ UNCHANGED <<link, initiator, can_send, trusted_key, pending, held, tasks,
                 sessions, sent, outcome, confirmed, stale>>

\* A frame decrypts once the handshake is over, and a responder can then send.
Decrypts(p) == can_send' = [can_send EXCEPT ![p] = TRUE]

\* ratchet_open: what waited for it can go out.
OpenIgnored(p) == FALSE                                     \* mutant
OpenFlushes(p) == trust[p] = "trusted"

ReceiveOpen(p) ==
  /\ Reads(p, "open")
  /\ Consume(p)
  /\ Decrypts(p)
  /\ IF OpenFlushes(p) THEN SetFlush(p, "reader", Taking) ELSE UNCHANGED flush
  /\ UNCHANGED <<link, trust, initiator, trusted_key, pending, held, sending,
                 hand, calling, sessions, sent, outcome, confirmed, stale>>

\* handle_encrypted_frame: the trust of the session is read with the message ...
TrustsAnyone(p) == trust[p] # "none"                        \* mutant
Trusted(p)      == trust[p] = "trusted"

ReceiveText(p) ==
  /\ Reads(p, "text")
  /\ Consume(p)
  /\ Decrypts(p)
  /\ LET n == Head(wire[Other(p)]).n
     IN IF Trusted(p)
          THEN /\ delivered' = [delivered EXCEPT ![p] = Append(@, n)]
               /\ UNCHANGED hand
          ELSE /\ hand' = [hand EXCEPT ![p] = n]
               /\ UNCHANGED delivered
  /\ UNCHANGED <<link, trust, initiator, trusted_key, pending, held, sending,
                 calling, flush, sessions, sent, told, lost, confirmed, stale>>

\* ... and used to hold it after the session was unlocked.
HoldsAndDelivers(p) == delivered[p] \o <<hand[p]>>          \* mutant
Unseen(p)           == delivered[p]

FitsOneMore(p) == Len(held[p]) <= MaxHeld                   \* mutant
Fits(p)        == Len(held[p]) < MaxHeld

HoldInbound(p) ==
  /\ hand[p] # 0
  /\ hand' = [hand EXCEPT ![p] = 0]
  /\ delivered' = [delivered EXCEPT ![p] = Unseen(p)]
  /\ \/ /\ Fits(p)
        /\ held' = [held EXCEPT ![p] = Append(@, hand[p])]
        /\ MarkIf(p, trust[p] = "trusted")
        /\ UNCHANGED lost
     \/ /\ ~Fits(p)
        /\ lost' = [lost EXCEPT ![Other(p)] = @ \cup {hand[p]}]
        /\ UNCHANGED <<held, stale>>
  /\ UNCHANGED <<link, session, trusted_key, pending, wire, sending, calling,
                 flush, sessions, sent, told, confirmed>>

\* on_connection_lost, when the read loop has ended.
OnConnectionLost(p) ==
  /\ link = "down" /\ trust[p] # "none" /\ ReaderIdle(p)
  /\ trust' = [trust EXCEPT ![p] = "none"]
  /\ initiator' = [initiator EXCEPT ![p] = FALSE]
  /\ can_send' = [can_send EXCEPT ![p] = FALSE]
  /\ held' = [held EXCEPT ![p] = <<>>]
  /\ lost' = [lost EXCEPT ![Other(p)] = @ \cup Range(held[p])]
  /\ UNCHANGED <<link, trusted_key, pending, wire, tasks, sessions, sent, told,
                 delivered, confirmed, stale>>

-----------------------------------------------------------------------------
(* The connection *)

\* A dial (by the user or auto_reconnect) and steps 1 and 2 of its handshake;
\* the initiator sends step 3.
Connect(p) ==
  LET q == Other(p)
  IN /\ link = "down" /\ trust[p] = "none" /\ trust[q] = "none"
     /\ sessions < MaxSessions /\ sessions' = sessions + 1
     /\ link' = "up"
     /\ trust' = [trust EXCEPT ![p] = "sas", ![q] = "handshaking"]
     /\ initiator' = [initiator EXCEPT ![p] = TRUE]
     /\ can_send' = [can_send EXCEPT ![p] = TRUE]
     /\ Put(p, Finish)
     /\ UNCHANGED <<trusted_key, pending, held, tasks, sent, outcome, confirmed,
                    stale>>

TextsOn(p) == {wire[p][i].n : i \in {j \in DOMAIN wire[p] : wire[p][j].kind = "text"}}

LinkLost ==
  /\ link = "up" /\ link' = "down"
  /\ wire' = [p \in Node |-> <<>>]
  /\ lost' = [p \in Node |-> lost[p] \cup TextsOn(p)]
  /\ UNCHANGED <<session, trusted_key, pending, held, tasks, sessions, sent, told,
                 delivered, confirmed, stale>>

-----------------------------------------------------------------------------
Flush(p) == \E t \in Task : TakePending(p, t) \/ FlushOne(p, t) \/ FlushEnd(p, t)

Next ==
  \/ LinkLost
  \/ \E p \in Node :
       \/ SendMessage(p) \/ Enqueue(p) \/ Flush(p)
       \/ ConfirmPeerTrusted(p) \/ MaybeAutoTrust(p) \/ AddTrustedKey(p)
       \/ SendRatchetBootstrap(p) \/ ReleaseHeldInbound(p) \/ ConnectAgain(p)
       \/ ReceiveFinish(p) \/ ReceiveOpen(p) \/ ReceiveText(p) \/ HoldInbound(p)
       \/ OnConnectionLost(p) \/ Connect(p)

Spec == Init /\ [][Next]_vars

-----------------------------------------------------------------------------
(* Properties *)

Texts(p) == 1 .. MaxSend[p]

\* The types of the sessions, the queues and the tasks; the holding queue of an
\* unverified peer is bounded.
TypeOK ==
  /\ link \in {"up", "down"}
  /\ trust \in [Node -> {"none", "handshaking", "sas", "trusted"}]
  /\ initiator \in [Node -> BOOLEAN] /\ can_send \in [Node -> BOOLEAN]
  /\ trusted_key \in [Node -> BOOLEAN]
  /\ sessions \in Nat
  /\ calling \in [Node -> {"idle", "trusted", "open", "release", "flush"}]
  /\ confirmed \in [Node -> BOOLEAN] /\ stale \in [Node -> BOOLEAN]
  /\ \A p \in Node :
       /\ pending[p] \in Seq(Texts(p)) /\ held[p] \in Seq(Texts(Other(p)))
       /\ Len(held[p]) <= MaxHeld
       /\ wire[p] \in Seq({Finish, Open} \cup {Text(n) : n \in Texts(p)})
       /\ sending[p] \in 0 .. MaxSend[p] /\ hand[p] \in 0 .. MaxSend[Other(p)]
       /\ flush[p] \in [Task -> [stage : {"none", "taking", "sending"},
                                 items : Seq(Texts(p)), retry : Seq(Texts(p))]]
       /\ sent[p] \in 0 .. MaxSend[p]
       /\ told[p] \subseteq Texts(p) /\ lost[p] \subseteq Texts(p)
       /\ delivered[p] \in Seq(Texts(Other(p)))

Copies(s, n) == Cardinality({i \in DOMAIN s : s[i] = n})
Once(b)      == IF b THEN 1 ELSE 0

\* Where a text of p may be.
Places(p, n) ==
  LET q == Other(p)
      f == flush[p]
  IN Once(sending[p] = n) + Once(n \in told[p]) + Once(n \in lost[p])
       + Copies(pending[p], n) + Copies(wire[p], Text(n))
       + Copies(f["reader"].items \o f["reader"].retry, n)
       + Copies(f["caller"].items \o f["caller"].retry, n)
       + Once(hand[q] = n) + Copies(held[q], n) + Copies(delivered[q], n)

\* Every text a user sent is in exactly one place: none disappears and none is
\* seen twice, although three tasks move texts between the queues and a
\* connection may break under any of them.
OnePlace == \A p \in Node : \A n \in 1 .. sent[p] : Places(p, n) = 1

\* No user sees a message of a peer before confirming a SAS with it, in this
\* session or an earlier one.
TrustGate == \A p \in Node : delivered[p] # <<>> => confirmed[p]

\* Nothing is left to do, and both users trust each other.
AtRest ==
  /\ link = "up"
  /\ \A p \in Node : /\ trust[p] = "trusted" /\ wire[p] = <<>>
                     /\ sending[p] = 0 /\ calling[p] = "idle" /\ ReaderIdle(p)

\* A queue is emptied by whatever made it possible to send or to deliver,
\* unless a task filled it because of a state that had changed meanwhile.
StrandedOnlyIfStale ==
  AtRest => \A p \in Node : ~stale[p] => pending[p] = <<>> /\ held[p] = <<>>
=============================================================================
