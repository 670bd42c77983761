--------------------------- MODULE PeerLink_proofs ---------------------------
(***************************************************************************)
(* Proofs about PeerLink for any number of connections, reconnect rounds,  *)
(* faults, dials and disconnects, and whatever the tasks' timing.          *)
(***************************************************************************)
EXTENDS PeerLink, WellFoundedInduction, SequenceTheorems, TLAPS

-----------------------------------------------------------------------------
(* Types *)

Statuses == [Conn -> [Node -> Ends]]
Wires    == [Conn -> [Node -> Seq(Frame)]]
Loops    == [Conn -> [Node -> [at : {"none", "reading", "superseded", "lost", "done"},
                               key : Key \cup {Nil}]]]
Regs     == [Node -> [Key -> Conn \cup {NoConn}]]
Sessions == [Node -> [Key -> Session]]
Waiters  == [Node -> Key \cup {Nil}]
SignalsT == [Node -> {None, Yield, Dropped} \cup Frame]
Labels   == {"idle", "woken", "begun", "dialing", "dialed", "ready", "waiting",
             "finishing", "superseded"}
Dials    == [Node -> [at : Labels, conn : Conn \cup {NoConn},
                      caller : {Nil, "user", "auto"}, told : BOOLEAN]]
Counts   == [faults : 0 .. MaxFaults, dials : 0 .. MaxDials, leaves : 0 .. MaxLeaves]

\* A session under the peer's id is proved, and an alias leads to it.
PeerProved == \A p \in Node : Has(p, "peer") => alias[p] /\ sess[p]["peer"].proved

ConnTypes == /\ dialer \in [Conn -> Node \cup {Nil}] /\ status \in Statuses
             /\ lost \subseteq Conn /\ wire \in Wires
             /\ loop \in Loops /\ reg \in Regs
SessTypes == /\ sess \in Sessions /\ alias \in [Node -> BOOLEAN]
             /\ waiter \in Waiters /\ signal \in SignalsT
             /\ PeerProved
DialTypes == dial \in Dials /\ recon \in [Node -> 0 .. MaxAttempts]
UserTypes == /\ paused \in [Node -> SUBSET Key] /\ left \in [Node -> BOOLEAN]
             /\ count \in Counts

LEMMA TypeParts == ConnTypes /\ SessTypes /\ DialTypes /\ UserTypes => TypeOK
BY DEF TypeOK, ConnTypes, SessTypes, DialTypes, UserTypes, Statuses, Wires, Loops,
   Regs, Sessions, Waiters, SignalsT, Labels, Dials, Counts, PeerProved

\* While auto_reconnect waits for a call it has a round left for it.
Rounds ==
  \A p \in Node :
    /\ dial[p].at \in {"idle", "woken"} => dial[p].caller = Nil
    /\ dial[p].at = "woken" \/ dial[p].caller = "auto" => recon[p] > 0

-----------------------------------------------------------------------------
(* Connections *)

LEMMA NoConnFact == NoConn \notin Conn
BY DEF NoConn, Conn

LEMMA CloseFacts ==
  ASSUME NEW st \in Statuses, NEW c \in Conn \cup {NoConn}, NEW p \in Node,
         NEW why \in Closers
  PROVE  /\ Close(st, c, p, why) \in Statuses
         /\ \A d \in Conn, q \in Node :
              Close(st, c, p, why)[d][q] =
                IF d = c /\ q = p /\ st[d][q] = "open" THEN why ELSE st[d][q]
BY NoConnFact DEF Close, Statuses, Ends

LEMMA CloseAllFacts ==
  ASSUME NEW st \in Statuses, NEW p \in Node, NEW cs \in SUBSET Conn
  PROVE  /\ CloseAll(st, p, cs, "disconnect") \in Statuses
         /\ \A d \in Conn, q \in Node :
              CloseAll(st, p, cs, "disconnect")[d][q] =
                IF d \in cs /\ q = p /\ st[d][q] = "open" THEN "disconnect" ELSE st[d][q]
<1>1. "disconnect" \in Closers  BY DEF Closers
<1>2. \A d \in Conn, q \in Node :
        CloseAll(st, p, cs, "disconnect")[d][q] =
          IF q = p /\ d \in cs THEN Close(st, d, p, "disconnect")[d][q] ELSE st[d][q]
  BY DEF CloseAll
<1>3. \A d \in Conn, q \in Node :
        CloseAll(st, p, cs, "disconnect")[d][q] =
          IF d \in cs /\ q = p /\ st[d][q] = "open" THEN "disconnect" ELSE st[d][q]
  BY <1>1, <1>2, CloseFacts
<1>4. CloseAll(st, p, cs, "disconnect") =
        [d \in Conn |-> [q \in Node |-> CloseAll(st, p, cs, "disconnect")[d][q]]]
  BY DEF CloseAll
<1>5. \A d \in Conn, q \in Node : CloseAll(st, p, cs, "disconnect")[d][q] \in Ends
  BY <1>1, <1>3 DEF Statuses, Ends
<1>6. QED  BY <1>3, <1>4, <1>5 DEF Statuses

\* p has connection c under one of its keys; p's dial has yet to register it.
Registered(p, c) == \E k \in Key : reg[p][k] = c
Dialed(p, c)     == dial[p].at = "dialed" /\ dial[p].conn = c

LEMMA RegisterFacts ==
  ASSUME ConnTypes, NEW p \in Node, NEW c \in Conn, NEW st \in Statuses,
         Register(p, c, st)
  PROVE  /\ status' \in Statuses /\ reg' \in Regs
         /\ \A d \in Conn, q \in Node :
              \/ status'[d][q] = st[d][q]
              \/ status'[d][q] \in Closers
         /\ \A q \in Node \ {p} : reg'[q] = reg[q]
         /\ \A d \in Conn : status'[d][p] = "open" /\ (Registered(p, d) \/ d = c)
                              => Registered(p, d)'
<1> DEFINE old == reg[p]["iroh"]
<1>1. /\ reg \in Regs /\ old \in Conn \cup {NoConn}
      /\ "iroh" \in Key /\ "peer" \in Key /\ Key = {"iroh", "peer"}
  BY DEF ConnTypes, Regs, Key
<1>2. "glare" \in Closers /\ "replaced" \in Closers /\ "open" \notin Closers
  BY DEF Closers
<1>3. CASE Rejected(p, c)
  <2>1. status' = Close(st, c, p, "glare") /\ reg' = reg
    BY <1>3 DEF Register
  <2>2. /\ status' \in Statuses
        /\ \A d \in Conn, q \in Node :
             status'[d][q] = IF d = c /\ q = p /\ st[d][q] = "open" THEN "glare" ELSE st[d][q]
    BY <1>2, <2>1, CloseFacts
  <2>3. \A d \in Conn : Registered(p, d)' = Registered(p, d)
    BY <2>1 DEF Registered
  <2>4. status'[c][p] # "open"  BY <1>2, <2>2
  <2>5. QED  BY <1>1, <1>2, <2>1, <2>2, <2>3, <2>4
<1>4. CASE ~Rejected(p, c)
  <2>1. /\ status' = ClosesReplaced(p, c, st)
        /\ reg' = [reg EXCEPT ![p]["iroh"] = c]
    BY <1>4 DEF Register
  <2>2. /\ status' \in Statuses
        /\ \A d \in Conn, q \in Node :
             status'[d][q] = IF d = old /\ old # c /\ q = p /\ st[d][q] = "open"
                               THEN "replaced" ELSE st[d][q]
    <3>1. CASE old = c
      BY <2>1, <3>1 DEF ClosesReplaced
    <3>2. CASE old # c
      <4>1. status' = Close(st, old, p, "replaced")
        BY <2>1, <3>2 DEF ClosesReplaced
      <4> HIDE DEF old
      <4>2. /\ Close(st, old, p, "replaced") \in Statuses
            /\ \A d \in Conn, q \in Node :
                 Close(st, old, p, "replaced")[d][q] =
                   IF d = old /\ q = p /\ st[d][q] = "open" THEN "replaced" ELSE st[d][q]
        <5>1. old \in Conn \cup {NoConn}  BY <1>1
        <5>2. "replaced" \in Closers  BY <1>2
        <5>3. QED  BY ONLY <5>1, <5>2, st \in Statuses, p \in Node, CloseFacts
      <4>3. QED  BY <3>2, <4>1, <4>2
    <3>3. QED  BY <3>1, <3>2
  <2>3. /\ reg' \in Regs /\ reg'[p]["iroh"] = c /\ reg'[p]["peer"] = reg[p]["peer"]
        /\ \A q \in Node \ {p} : reg'[q] = reg[q]
    BY <1>1, <2>1 DEF Regs
  <2>4. ASSUME NEW d \in Conn, status'[d][p] = "open", Registered(p, d) \/ d = c
        PROVE  Registered(p, d)'
    <3>1. d # old \/ d = c  BY <1>2, <2>2, <2>4
    <3>2. d = c \/ d = reg[p]["peer"]  BY <1>1, <2>4, <3>1 DEF Registered
    <3>3. QED  BY <1>1, <2>3, <3>2 DEF Registered
  <2>5. QED  BY <1>2, <2>2, <2>3, <2>4
<1>5. QED  BY <1>3, <1>4

-----------------------------------------------------------------------------
(* Sessions *)

LEMMA SessionFacts ==
  /\ Absent \in Session /\ Fresh \in Session /\ Absent.role = "absent"
  /\ \A s \in Session : Completed(s) \in Session /\ Entry(s) \in Session
                        /\ Completed(s).proved /\ Completed(s).hs = s.hs
                        /\ [Completed(s) EXCEPT !.trusted = TRUE] \in Session
                        /\ [Completed(s) EXCEPT !.trusted = TRUE].proved
  /\ \A h \in Handshakes : Initiating(h) \in Session /\ Responding(h) \in Session
                           /\ Responding(h).proved
<1>0. None \in Handshakes  BY DEF Handshakes
<1>1. Absent \in Session /\ Fresh \in Session /\ Absent.role = "absent"
  BY <1>0 DEF Absent, Fresh, Session
<1>2. ASSUME NEW s \in Session
      PROVE  /\ Completed(s) \in Session /\ Completed(s).proved
             /\ Completed(s).hs = s.hs
             /\ [Completed(s) EXCEPT !.trusted = TRUE] \in Session
             /\ [Completed(s) EXCEPT !.trusted = TRUE].proved
  BY DEF Completed, Session
<1>3. ASSUME NEW s \in Session PROVE Entry(s) \in Session
  BY <1>1 DEF Entry
<1>4. ASSUME NEW h \in Handshakes
      PROVE  Initiating(h) \in Session /\ Responding(h) \in Session /\ Responding(h).proved
  BY <1>0 DEF Initiating, Responding, Fresh, Absent, Session
<1>5. QED  BY <1>1, <1>2, <1>3, <1>4

LEMMA FrameFacts ==
  \A h \in Handshakes : Step1(h) \in Frame /\ Step2(h) \in Frame /\ Step3(h) \in Frame
BY DEF Step1, Step2, Step3, Frame

\* The id a task works with is one of the two.
LEMMA ResolveFacts ==
  ASSUME NEW p \in Node, NEW k \in Key
  PROVE  /\ Resolve(p, k) \in Key \cup {Nil}
         /\ ResolveOr(p, k) \in Key
         /\ ResolveOr(p, "iroh") = "peer" => alias[p] /\ Has(p, "peer")
<1>1. CASE k = "iroh"
  BY <1>1 DEF Resolve, Key, Nil, ResolveOr
<1>2. CASE k # "iroh"
  BY <1>2 DEF Resolve, Key, Nil, ResolveOr
<1>3. QED  BY <1>1, <1>2

LEMMA LiveFacts ==
  ASSUME ConnTypes, NEW p \in Node, NEW k \in Key, HasConnection(p, k)
  PROVE  reg[p][k] \in Conn
BY DEF ConnTypes, Regs, HasConnection, Live

LEMMA SendFacts ==
  ASSUME NEW w \in Wires, NEW c \in Conn, NEW p \in Node, NEW f \in Frame
  PROVE  Send(w, c, p, f) \in Wires
<1>1. Append(w[c][p], f) \in Seq(Frame)  BY DEF Wires
<1>2. QED  BY <1>1 DEF Send, Wires

\* The session of a proved peer moves to its id, and the connection with it.
LEMMA CanonicalizeFacts ==
  ASSUME ConnTypes, SessTypes, NEW p \in Node, NEW s \in Session, Canonicalize(p, s)
  PROVE  /\ status' \in Statuses /\ reg' \in Regs
         /\ sess' \in Sessions /\ alias' \in [Node -> BOOLEAN] /\ waiter' \in Waiters
         /\ PeerProved'
         /\ \A d \in Conn, q \in Node :
              \/ status'[d][q] = status[d][q]
              \/ status'[d][q] \in Closers
         /\ \A d \in Conn, q \in Node :
              status'[d][q] = "open" /\ Registered(q, d) => Registered(q, d)'
<1>0. /\ reg \in Regs /\ status \in Statuses /\ Key = {"iroh", "peer"}
      /\ "replaced" \in Closers /\ "open" \notin Closers
  BY DEF ConnTypes, Key, Closers
<1>1. CASE ~s.proved
  <2>1. UNCHANGED <<sess, alias, status, reg, waiter>>
    BY <1>1 DEF Canonicalize
  <2>2. QED
    BY <1>0, <2>1 DEF SessTypes, PeerProved, Has, Registered
<1>2. CASE s.proved
  <2>1. /\ sess'   = [sess EXCEPT ![p] = [iroh |-> Absent, peer |-> s]]
        /\ alias'  = [alias EXCEPT ![p] = TRUE]
        /\ status' = ClosesPrevious(p, status)
        /\ reg'    = IF reg[p]["iroh"] = NoConn THEN reg
                       ELSE [reg EXCEPT ![p] = [iroh |-> NoConn, peer |-> @["iroh"]]]
        /\ waiter' = [waiter EXCEPT ![p] = IF @ = "iroh" THEN "peer" ELSE @]
    BY <1>2 DEF Canonicalize
  <2>2. [iroh |-> Absent, peer |-> s] \in [Key -> Session]
    BY <1>0, SessionFacts
  <2>3. /\ sess' \in Sessions /\ sess'[p]["peer"] = s
        /\ \A q \in Node \ {p} : sess'[q] = sess[q]
    BY <2>1, <2>2 DEF SessTypes, Sessions
  <2>4. /\ alias' \in [Node -> BOOLEAN] /\ alias'[p]
        /\ \A q \in Node \ {p} : alias'[q] = alias[q]
    BY <2>1 DEF SessTypes
  <2>5. waiter' \in Waiters
    BY <1>0, <2>1 DEF SessTypes, Waiters
  <2>6. PeerProved'
    BY <1>2, <2>3, <2>4 DEF SessTypes, PeerProved, Has
  <2>7. CASE reg[p]["iroh"] = NoConn
    <3>1. reg' = reg /\ status' = status
      BY <2>1, <2>7 DEF ClosesPrevious
    <3>2. QED  BY <1>0, <2>3, <2>4, <2>5, <2>6, <3>1 DEF Registered
  <2>8. CASE reg[p]["iroh"] # NoConn
    <3> DEFINE new  == reg[p]["iroh"]
               prev == reg[p]["peer"]
    <3>1. new \in Conn /\ prev \in Conn \cup {NoConn}
      BY <1>0, <2>8 DEF Regs
    <3>2. [iroh |-> NoConn, peer |-> new] \in [Key -> Conn \cup {NoConn}]
      BY <1>0, <3>1
    <3>3. reg' = [reg EXCEPT ![p] = [iroh |-> NoConn, peer |-> new]]
      BY <2>1, <2>8
    <3>4. /\ reg' \in Regs /\ reg'[p]["peer"] = new
          /\ \A q \in Node \ {p} : reg'[q] = reg[q]
      BY <1>0, <3>2, <3>3 DEF Regs
    <3>5. /\ status' \in Statuses
          /\ \A d \in Conn, q \in Node :
               status'[d][q] = IF d = prev /\ prev # new /\ q = p /\ status[d][q] = "open"
                                 THEN "replaced" ELSE status[d][q]
      <4>1. CASE prev = new
        BY <1>0, <2>1, <4>1 DEF ClosesPrevious
      <4>2. CASE prev # new
        <5>1. status' = Close(status, prev, p, "replaced")
          BY <2>1, <2>8, <4>2 DEF ClosesPrevious
        <5>2. /\ Close(status, prev, p, "replaced") \in Statuses
              /\ \A d \in Conn, q \in Node :
                   Close(status, prev, p, "replaced")[d][q] =
                     IF d = prev /\ q = p /\ status[d][q] = "open"
                       THEN "replaced" ELSE status[d][q]
          <6> HIDE DEF prev
          <6>1. QED  BY <1>0, <3>1, CloseFacts
        <5>3. QED  BY <4>2, <5>1, <5>2
      <4>3. QED  BY <4>1, <4>2
    <3>6. ASSUME NEW d \in Conn, NEW q \in Node, status'[d][q] = "open", Registered(q, d)
          PROVE  Registered(q, d)'
      <4>1. CASE q # p  BY <3>4, <3>6, <4>1 DEF Registered
      <4>2. CASE q = p
        <5>1. d # prev \/ d = new  BY <1>0, <3>5, <3>6, <4>2
        <5>2. d = new  BY <1>0, <3>6, <4>2, <5>1 DEF Registered
        <5>3. QED  BY <1>0, <3>4, <4>2, <5>2 DEF Registered
      <4>3. QED  BY <4>1, <4>2
    <3>7. QED  BY <1>0, <2>3, <2>4, <2>5, <2>6, <3>4, <3>5, <3>6
  <2>9. QED  BY <2>7, <2>8
<1>3. QED  BY <1>1, <1>2

\* The connections under some of the keys are closed and forgotten.
LEMMA TeardownFacts ==
  ASSUME ConnTypes, SessTypes, NEW p \in Node, NEW ks \in SUBSET Key, Teardown(p, ks)
  PROVE  /\ status' \in Statuses /\ reg' \in Regs
         /\ waiter' \in Waiters /\ signal' \in SignalsT
         /\ \A d \in Conn, q \in Node :
              \/ status'[d][q] = status[d][q]
              \/ status'[d][q] \in Closers
         /\ \A d \in Conn, q \in Node :
              status'[d][q] = "open" /\ Registered(q, d) => Registered(q, d)'
<1>0. /\ reg \in Regs /\ status \in Statuses
      /\ "disconnect" \in Closers /\ "open" \notin Closers
  BY DEF ConnTypes, Closers
<1>1. /\ status' = CloseAll(status, p, TornConns(p, ks), "disconnect")
      /\ reg'  = [reg EXCEPT ![p] = [k \in Key |-> IF k \in ks THEN NoConn ELSE @[k]]]
      /\ waiter' = [waiter EXCEPT ![p] = IF @ \in ks THEN Nil ELSE @]
      /\ signal' = [signal EXCEPT ![p] = IF waiter[p] \in ks THEN Dropped ELSE @]
  BY DEF Teardown
<1>2. TornConns(p, ks) \in SUBSET Conn
  BY <1>0, NoConnFact DEF TornConns, Regs
<1>3. /\ status' \in Statuses
      /\ \A d \in Conn, q \in Node :
           status'[d][q] =
             IF d \in TornConns(p, ks) /\ q = p /\ status[d][q] = "open"
               THEN "disconnect" ELSE status[d][q]
  BY <1>0, <1>1, <1>2, CloseAllFacts
<1>4. [k \in Key |-> IF k \in ks THEN NoConn ELSE reg[p][k]] \in [Key -> Conn \cup {NoConn}]
  BY <1>0 DEF Regs
<1>5. /\ reg' \in Regs /\ \A q \in Node \ {p} : reg'[q] = reg[q]
      /\ \A k \in Key : reg'[p][k] = IF k \in ks THEN NoConn ELSE reg[p][k]
  BY <1>0, <1>1, <1>4 DEF Regs
<1>6. waiter' \in Waiters /\ signal' \in SignalsT
  BY <1>1 DEF SessTypes, Waiters, SignalsT
<1>7. ASSUME NEW d \in Conn, NEW q \in Node, status'[d][q] = "open", Registered(q, d)
      PROVE  Registered(q, d)'
  <2>1. CASE q # p  BY <1>5, <1>7, <2>1 DEF Registered
  <2>2. CASE q = p
    <3>1. PICK k \in Key : reg[p][k] = d  BY <1>7, <2>2 DEF Registered
    <3>2. d \notin TornConns(p, ks)  BY <1>0, <1>3, <1>7, <2>2
    <3>3. k \notin ks  BY <3>1, <3>2, NoConnFact DEF TornConns
    <3>4. reg'[p][k] = d  BY <1>5, <3>1, <3>3
    <3>5. QED  BY <2>2, <3>4 DEF Registered
  <2>3. QED  BY <2>1, <2>2
<1>8. QED  BY <1>0, <1>3, <1>5, <1>6, <1>7

-----------------------------------------------------------------------------
(* The dial *)

\* The dial of p is at another place, all else as it was.
LEMMA GotoFacts ==
  ASSUME dial \in Dials, NEW p \in Node, NEW label \in Labels, Goto(p, label)
  PROVE  /\ dial' \in Dials /\ dial'[p].at = label
         /\ dial'[p].conn = dial[p].conn /\ dial'[p].caller = dial[p].caller
         /\ \A q \in Node \ {p} : dial'[q] = dial[q]
<1>1. dial' = [dial EXCEPT ![p].at = label]  BY DEF Goto
<1>2. dial[p] \in [at : Labels, conn : Conn \cup {NoConn},
                   caller : {Nil, "user", "auto"}, told : BOOLEAN]
  BY DEF Dials
<1>3. [dial[p] EXCEPT !.at = label] \in [at : Labels, conn : Conn \cup {NoConn},
                                         caller : {Nil, "user", "auto"}, told : BOOLEAN]
  BY <1>2
<1>4. dial' = [dial EXCEPT ![p] = [dial[p] EXCEPT !.at = label]]
  BY <1>1, <1>2
<1>5. QED  BY <1>2, <1>3, <1>4 DEF Dials

\* A call returns, and a round of auto_reconnect is over if it was its call.
LEMMA ReturnsFacts ==
  ASSUME DialTypes, Rounds, NEW p \in Node, NEW ok, Returns(p, ok)
  PROVE  /\ DialTypes' /\ Rounds' /\ dial'[p].at = "idle"
         /\ \A q \in Node \ {p} : dial'[q] = dial[q]
<1> DEFINE rest == [at |-> "idle", conn |-> NoConn, caller |-> Nil, told |-> FALSE]
<1>1. rest \in [at : Labels, conn : Conn \cup {NoConn}, caller : {Nil, "user", "auto"},
                told : BOOLEAN]
  BY DEF Labels
<1>2. dial' = [dial EXCEPT ![p] = rest]  BY DEF Returns
<1>3. /\ dial' \in Dials /\ dial'[p] = rest
      /\ \A q \in Node \ {p} : dial'[q] = dial[q]
  BY <1>1, <1>2 DEF DialTypes, Dials
<1>4. /\ recon' \in [Node -> 0 .. MaxAttempts]
      /\ \A q \in Node \ {p} : recon'[q] = recon[q]
  <2>1. CASE dial[p].caller # "auto"
    <3>1. recon' = recon  BY <2>1 DEF Returns
    <3>2. QED  BY <3>1 DEF DialTypes
  <2>2. CASE dial[p].caller = "auto"
    <3>1. recon' = [recon EXCEPT ![p] = RoundsLeft(p, ok)]
      BY <2>2 DEF Returns
    <3>2. recon[p] > 0 /\ recon[p] \in 0 .. MaxAttempts /\ MaxAttempts \in Nat
      BY <2>2, PeerLinkAssumption DEF Rounds, DialTypes
    <3>3. RoundsLeft(p, ok) \in 0 .. MaxAttempts
      BY <3>2 DEF RoundsLeft
    <3>4. QED  BY <3>1, <3>3 DEF DialTypes
  <2>3. QED  BY <2>1, <2>2
<1>5. ASSUME NEW q \in Node
      PROVE  /\ dial'[q].at \in {"idle", "woken"} => dial'[q].caller = Nil
             /\ dial'[q].at = "woken" \/ dial'[q].caller = "auto" => recon'[q] > 0
  <2>1. CASE q = p  BY <1>3, <2>1 DEF Nil
  <2>2. CASE q # p  BY <1>3, <1>4, <2>2 DEF Rounds
  <2>3. QED  BY <2>1, <2>2
<1>6. QED  BY <1>3, <1>4, <1>5 DEF DialTypes, Rounds

\* A call begins, or finds all it asks for.
LEMMA BeginFacts ==
  ASSUME DialTypes, Rounds, NEW p \in Node, NEW who \in {"user", "auto"}, Begin(p, who),
         who = "user" => dial[p].at = "idle", who = "auto" => dial[p].at = "woken"
  PROVE  /\ DialTypes' /\ Rounds' /\ dial'[p].at \in {"idle", "begun"}
         /\ \A q \in Node \ {p} : dial'[q] = dial[q]
<1>0. dial[p].caller = Nil  BY DEF Rounds
<1>1. CASE /\ dial'  = [dial EXCEPT ![p].at = "idle"]
           /\ recon' = IF who = "auto" THEN [recon EXCEPT ![p] = 0] ELSE recon
  <2>1. /\ dial' \in Dials /\ dial'[p].at = "idle" /\ dial'[p].caller = Nil
        /\ \A q \in Node \ {p} : dial'[q] = dial[q]
    BY <1>0, <1>1, GotoFacts DEF Goto, DialTypes, Labels
  <2>2. /\ recon' \in [Node -> 0 .. MaxAttempts]
        /\ \A q \in Node \ {p} : recon'[q] = recon[q]
    <3>1. MaxAttempts \in Nat  BY PeerLinkAssumption
    <3>2. 0 \in 0 .. MaxAttempts  BY <3>1
    <3>3. CASE who = "auto"
      <4>1. recon' = [recon EXCEPT ![p] = 0]  BY <1>1, <3>3
      <4>2. QED  BY <3>2, <4>1 DEF DialTypes
    <3>4. CASE who # "auto"
      <4>1. recon' = recon  BY <1>1, <3>4
      <4>2. QED  BY <4>1 DEF DialTypes
    <3>5. QED  BY <3>3, <3>4
  <2>3. ASSUME NEW q \in Node
        PROVE  /\ dial'[q].at \in {"idle", "woken"} => dial'[q].caller = Nil
               /\ dial'[q].at = "woken" \/ dial'[q].caller = "auto" => recon'[q] > 0
    <3>1. CASE q = p  BY <2>1, <3>1 DEF Nil
    <3>2. CASE q # p  BY <2>1, <2>2, <3>2 DEF Rounds
    <3>3. QED  BY <3>1, <3>2
  <2>4. QED  BY <2>1, <2>2, <2>3 DEF DialTypes, Rounds
<1>2. CASE /\ dial' = [dial EXCEPT ![p] = [at |-> "begun", conn |-> NoConn,
                                          caller |-> who, told |-> FALSE]]
           /\ UNCHANGED recon
  <2>0. [at |-> "begun", conn |-> NoConn, caller |-> who, told |-> FALSE]
          \in [at : Labels, conn : Conn \cup {NoConn}, caller : {Nil, "user", "auto"},
               told : BOOLEAN]
    BY DEF Labels
  <2>1. /\ dial' \in Dials /\ dial'[p].at = "begun" /\ dial'[p].caller = who
        /\ \A q \in Node \ {p} : dial'[q] = dial[q]
    BY <1>2, <2>0 DEF DialTypes, Dials
  <2>2. who = "auto" => recon'[p] > 0
    BY <1>2 DEF Rounds
  <2>3. ASSUME NEW q \in Node
        PROVE  /\ dial'[q].at \in {"idle", "woken"} => dial'[q].caller = Nil
               /\ dial'[q].at = "woken" \/ dial'[q].caller = "auto" => recon'[q] > 0
    <3>1. CASE q = p  BY <2>1, <2>2, <3>1
    <3>2. CASE q # p  BY <1>2, <2>1, <3>2 DEF Rounds
    <3>3. QED  BY <3>1, <3>2
  <2>4. QED  BY <1>2, <2>1, <2>3 DEF DialTypes, Rounds
<1>3. QED  BY <1>1, <1>2 DEF Begin

-----------------------------------------------------------------------------
(* No connection is forgotten *)

\* An end that is open is registered, or its dial will do so; a task that will
\* take a connection out of the map reads one that is closed.
Kept ==
  /\ \A c \in Conn, p \in Node :
       /\ status[c][p] = "open" => Registered(p, c) \/ Dialed(p, c)
       /\ loop[c][p].at \in {"superseded", "lost"} => status[c][p] # "open"
       /\ status[c][p] = "unseen" => loop[c][p].at = "none"
       /\ Dialed(p, c) => status[c][p] # "unseen"
  /\ \A p \in Node : dial[p].at = "dialed" => dial[p].conn \in Conn

LinkInv == ConnTypes /\ SessTypes /\ DialTypes /\ UserTypes /\ Rounds /\ Kept

USE DEF LinkInv

\* Nobody's dialed connection changes.
SameDialed ==
  \A q \in Node :
    \/ dial'[q].at = dial[q].at /\ dial'[q].conn = dial[q].conn
    \/ dial[q].at # "dialed" /\ dial'[q].at # "dialed"

\* Ends close, and those that stay open stay registered.
OnlyCloses ==
  /\ \A d \in Conn, q \in Node :
       status'[d][q] = status[d][q] \/ status'[d][q] \notin {"open", "unseen"}
  /\ \A d \in Conn, q \in Node :
       status'[d][q] = "open" /\ Registered(q, d) => Registered(q, d)'

LEMMA KeptIf ==
  ASSUME Kept, loop' = loop, SameDialed, OnlyCloses
  PROVE  Kept'
<1>1. ASSUME NEW c \in Conn, NEW p \in Node
      PROVE  Dialed(p, c)' <=> Dialed(p, c)
  BY DEF SameDialed, Dialed
<1>2. ASSUME NEW c \in Conn, NEW p \in Node
      PROVE  /\ status'[c][p] = "open" => Registered(p, c)' \/ Dialed(p, c)'
             /\ loop'[c][p].at \in {"superseded", "lost"} => status'[c][p] # "open"
             /\ status'[c][p] = "unseen" => loop'[c][p].at = "none"
             /\ Dialed(p, c)' => status'[c][p] # "unseen"
  <2>1. /\ status[c][p] = "open" => Registered(p, c) \/ Dialed(p, c)
        /\ loop[c][p].at \in {"superseded", "lost"} => status[c][p] # "open"
        /\ status[c][p] = "unseen" => loop[c][p].at = "none"
        /\ Dialed(p, c) => status[c][p] # "unseen"
    BY DEF Kept
  <2>2. /\ status'[c][p] = status[c][p] \/ status'[c][p] \notin {"open", "unseen"}
        /\ status'[c][p] = "open" /\ Registered(p, c) => Registered(p, c)'
    BY DEF OnlyCloses
  <2>3. QED  BY <1>1, <2>1, <2>2
<1>3. \A p \in Node : dial'[p].at = "dialed" => dial'[p].conn \in Conn
  BY DEF Kept, SameDialed
<1>4. QED  BY <1>2, <1>3 DEF Kept

LEMMA ClosersOnly == \A why \in Closers : why \notin {"open", "unseen"}
BY DEF Closers

LEMMA SameConns ==
  ASSUME UNCHANGED <<status, reg>>
  PROVE  OnlyCloses
BY DEF OnlyCloses, Registered

LEMMA ConnSame ==
  ASSUME ConnTypes, UNCHANGED <<conns, loop, reg>>
  PROVE  ConnTypes' /\ OnlyCloses
BY SameConns DEF ConnTypes, conns

LEMMA SessSame ==
  ASSUME SessTypes, UNCHANGED <<sessions, wake>>
  PROVE  SessTypes'
BY DEF SessTypes, sessions, wake, PeerProved, Has

LEMMA UserSame ==
  ASSUME UserTypes, UNCHANGED <<paused, user>>
  PROVE  UserTypes'
BY DEF UserTypes, user

LEMMA DialSame ==
  ASSUME DialTypes, Rounds, UNCHANGED <<dial, recon>>
  PROVE  DialTypes' /\ Rounds' /\ SameDialed
BY DEF DialTypes, Rounds, SameDialed

\* A call moves on.
LEMMA GotoStep ==
  ASSUME DialTypes, Rounds, NEW p \in Node, NEW label \in Labels, Goto(p, label),
         UNCHANGED recon, dial[p].at \notin {"idle", "woken", "dialed"},
         label \notin {"idle", "woken", "dialed"}
  PROVE  DialTypes' /\ Rounds' /\ SameDialed
<1>1. /\ dial' \in Dials /\ dial'[p].at = label
      /\ dial'[p].conn = dial[p].conn /\ dial'[p].caller = dial[p].caller
      /\ \A q \in Node \ {p} : dial'[q] = dial[q]
  BY GotoFacts DEF DialTypes
<1>2. ASSUME NEW q \in Node
      PROVE  /\ dial'[q].at \in {"idle", "woken"} => dial'[q].caller = Nil
             /\ dial'[q].at = "woken" \/ dial'[q].caller = "auto" => recon'[q] > 0
  BY <1>1 DEF Rounds
<1>3. SameDialed  BY <1>1 DEF SameDialed
<1>4. QED  BY <1>1, <1>2, <1>3 DEF DialTypes, Rounds

LEMMA ReturnsStep ==
  ASSUME DialTypes, Rounds, NEW p \in Node, NEW ok, Returns(p, ok), dial[p].at # "dialed"
  PROVE  DialTypes' /\ Rounds' /\ SameDialed
<1>1. /\ DialTypes' /\ Rounds' /\ dial'[p].at = "idle"
      /\ \A q \in Node \ {p} : dial'[q] = dial[q]
  BY ReturnsFacts
<1>2. SameDialed  BY <1>1 DEF SameDialed
<1>3. QED  BY <1>1, <1>2

\* One session is replaced.
LEMMA SessPutTypes ==
  ASSUME SessTypes, NEW p \in Node, NEW k \in Key, NEW s \in Session,
         sess' = [sess EXCEPT ![p][k] = s], alias' = alias,
         k = "peer" => alias[p] /\ s.proved
  PROVE  sess' \in Sessions /\ PeerProved'
<1>0. sess \in Sessions  BY DEF SessTypes
<1>1. /\ sess' \in Sessions /\ sess'[p][k] = s
      /\ \A q \in Node, i \in Key : q # p \/ i # k => sess'[q][i] = sess[q][i]
  BY <1>0 DEF Sessions
<1>2. "peer" \in Key  BY DEF Key
<1>3. QED  BY <1>1, <1>2 DEF SessTypes, PeerProved, Has

LEMMA UserDialsStep ==
  ASSUME LinkInv, NEW p \in Node, UserDials(p)
  PROVE  LinkInv'
<1>1. Begin(p, "user") /\ dial[p].at = "idle"  BY DEF UserDials
<1>2. ConnTypes' /\ SessTypes' /\ OnlyCloses /\ loop' = loop
  BY <1>1, ConnSame, SessSame DEF Begin
<1>3. /\ DialTypes' /\ Rounds' /\ dial'[p].at \in {"idle", "begun"}
      /\ \A q \in Node \ {p} : dial'[q] = dial[q]
  BY <1>1, BeginFacts
<1>4. SameDialed  BY <1>1, <1>3 DEF SameDialed
<1>5. UserTypes'
  <2>1. paused' \in [Node -> SUBSET Key] /\ left' \in [Node -> BOOLEAN]
    BY <1>1 DEF UserDials, Begin, UserTypes
  <2>2. count.dials + 1 \in 0 .. MaxDials
    BY PeerLinkAssumption DEF UserDials, UserTypes, Counts
  <2>3. count' \in Counts
    BY <2>2 DEF UserDials, UserTypes, Counts
  <2>4. QED  BY <2>1, <2>3 DEF UserTypes
<1>6. QED  BY <1>2, <1>3, <1>4, <1>5, KeptIf

LEMMA AutoWakesStep ==
  ASSUME LinkInv, NEW p \in Node, AutoWakes(p)
  PROVE  LinkInv'
<1>1. /\ ConnTypes' /\ SessTypes' /\ UserTypes' /\ OnlyCloses /\ loop' = loop
  BY ConnSame, SessSame, UserSame DEF AutoWakes
<1>2. DialTypes /\ Rounds /\ recon[p] > 0 /\ dial[p].at = "idle" /\ dial[p].caller = Nil
  BY DEF AutoWakes, Rounds
<1>3. CASE recon' = [recon EXCEPT ![p] = 0] /\ UNCHANGED dial
  <2>1. MaxAttempts \in Nat  BY PeerLinkAssumption
  <2>2. 0 \in 0 .. MaxAttempts  BY <2>1
  <2>3. DialTypes'  BY <1>2, <1>3, <2>2 DEF DialTypes
  <2>4. Rounds'
    BY <1>2, <1>3 DEF DialTypes, Rounds, Nil
  <2>5. SameDialed  BY <1>3 DEF SameDialed
  <2>6. QED  BY <1>1, <2>3, <2>4, <2>5, KeptIf
<1>4. CASE Goto(p, "woken") /\ UNCHANGED recon
  <2>1. /\ dial' \in Dials /\ dial'[p].at = "woken" /\ dial'[p].caller = Nil
        /\ \A q \in Node \ {p} : dial'[q] = dial[q]
    BY <1>2, <1>4, GotoFacts DEF DialTypes, Labels
  <2>2. DialTypes'  BY <1>2, <1>4, <2>1 DEF DialTypes
  <2>3. Rounds'  BY <1>2, <1>4, <2>1 DEF Rounds
  <2>4. SameDialed  BY <1>2, <2>1 DEF SameDialed
  <2>5. QED  BY <1>1, <2>2, <2>3, <2>4, KeptIf
<1>5. QED  BY <1>3, <1>4 DEF AutoWakes

LEMMA AutoDialsStep ==
  ASSUME LinkInv, NEW p \in Node, AutoDials(p)
  PROVE  LinkInv'
<1>1. Begin(p, "auto") /\ dial[p].at = "woken"  BY DEF AutoDials
<1>2. ConnTypes' /\ SessTypes' /\ OnlyCloses /\ loop' = loop
  BY <1>1, ConnSame, SessSame DEF Begin
<1>3. /\ DialTypes' /\ Rounds' /\ dial'[p].at \in {"idle", "begun"}
      /\ \A q \in Node \ {p} : dial'[q] = dial[q]
  BY <1>1, BeginFacts
<1>4. SameDialed  BY <1>1, <1>3 DEF SameDialed
<1>5. UserTypes'
  <2>1. paused' \in [Node -> SUBSET Key]
    BY <1>1 DEF Begin, UserTypes
  <2>2. UNCHANGED <<left, count>>  BY DEF AutoDials, user
  <2>3. QED  BY <2>1, <2>2 DEF UserTypes
<1>6. QED  BY <1>2, <1>3, <1>4, <1>5, KeptIf

LEMMA PrepareStep ==
  ASSUME LinkInv, NEW p \in Node, Prepare(p)
  PROVE  LinkInv'
<1>0. ConnTypes /\ SessTypes /\ DialTypes /\ UserTypes /\ Rounds /\ Kept
  OBVIOUS
<1>1. Torn(p) \in SUBSET Key
  BY ResolveFacts DEF Torn, Stale
<1>2. /\ status' \in Statuses /\ reg' \in Regs
      /\ waiter' \in Waiters /\ signal' \in SignalsT
      /\ \A d \in Conn, q \in Node :
           status'[d][q] = status[d][q] \/ status'[d][q] \in Closers
      /\ \A d \in Conn, q \in Node :
           status'[d][q] = "open" /\ Registered(q, d) => Registered(q, d)'
  BY <1>0, <1>1, TeardownFacts DEF Prepare
<1>3. OnlyCloses  BY <1>2, ClosersOnly DEF OnlyCloses
<1>4. ConnTypes'  BY <1>0, <1>2 DEF ConnTypes, Prepare
<1>5. DialTypes' /\ Rounds' /\ SameDialed
  <2>1. /\ dial[p].at = "begun" /\ UNCHANGED recon
        /\ Goto(p, "ready") \/ Goto(p, "dialing")
    BY DEF Prepare
  <2>2. "ready" \in Labels /\ "dialing" \in Labels  BY DEF Labels
  <2>3. QED  BY <1>0, <2>1, <2>2, GotoStep
<1>6. SessTypes'
  <2> DEFINE rest == [k \in Key |-> IF k \in Torn(p) THEN Absent ELSE sess[p][k]]
  <2>1. rest \in [Key -> Session]
    BY <1>0, SessionFacts DEF SessTypes, Sessions
  <2>2. /\ "iroh" \in Key /\ "peer" \in Key /\ rest["peer"] \in {Absent, sess[p]["peer"]}
    BY DEF Key
  <2>3. \/ sess' = [sess EXCEPT ![p] = [rest EXCEPT !["iroh"] = Entry(rest["iroh"])]]
        \/ sess' = [sess EXCEPT ![p] = rest]
    BY <2>2 DEF Prepare
  <2> HIDE DEF rest
  <2>4. [rest EXCEPT !["iroh"] = Entry(rest["iroh"])] \in [Key -> Session]
    BY <2>1, <2>2, SessionFacts
  <2>5. [rest EXCEPT !["iroh"] = Entry(rest["iroh"])]["peer"] = rest["peer"]
    BY <2>1, <2>2
  <2>6. PICK new \in [Key -> Session] :
          sess' = [sess EXCEPT ![p] = new] /\ new["peer"] = rest["peer"]
    BY <2>1, <2>3, <2>4, <2>5
  <2>7. /\ sess' \in Sessions /\ sess'[p]["peer"] = rest["peer"]
        /\ \A q \in Node \ {p} : sess'[q] = sess[q]
    BY <1>0, <2>6 DEF SessTypes, Sessions
  <2>8. alias' = alias  BY DEF Prepare
  <2>9. PeerProved'
    BY <1>0, <2>2, <2>7, <2>8, SessionFacts DEF SessTypes, PeerProved, Has
  <2>10. QED  BY <1>0, <1>2, <2>7, <2>8, <2>9 DEF SessTypes
<1>7. UserTypes'  BY <1>0, UserSame DEF Prepare
<1>8. loop' = loop  BY DEF Prepare
<1>9. QED  BY <1>0, <1>3, <1>4, <1>5, <1>6, <1>7, <1>8, KeptIf

LEMMA DialFailsStep ==
  ASSUME LinkInv, NEW p \in Node, DialFails(p)
  PROVE  LinkInv'
<1>0. ConnTypes /\ SessTypes /\ DialTypes /\ UserTypes /\ Rounds /\ Kept
  OBVIOUS
<1>1. ConnTypes' /\ SessTypes' /\ OnlyCloses /\ loop' = loop
  BY <1>0, ConnSame, SessSame DEF DialFails
<1>2. DialTypes' /\ Rounds' /\ SameDialed
  BY <1>0, ReturnsStep DEF DialFails, Fails
<1>3. UserTypes'
  <2>1. count.faults + 1 \in 0 .. MaxFaults
    BY <1>0, PeerLinkAssumption DEF DialFails, UserTypes, Counts
  <2>2. count' \in Counts
    BY <1>0, <2>1 DEF DialFails, UserTypes, Counts
  <2>3. QED  BY <1>0, <2>2 DEF DialFails, UserTypes
<1>4. QED  BY <1>0, <1>1, <1>2, <1>3, KeptIf

\* The first name that is free.
LEMMA NextFacts ==
  ASSUME NEW p \in Node, FreeNames(p) # {}
  PROVE  NextHandshake(p) \in Handshakes
<1>1. FreeNames(p) \subseteq Nat /\ FreeNames(p) \subseteq Names
  BY DEF FreeNames, Names
<1> DEFINE R == OpToRel(<, Nat)
<1>2. \A m, n \in Nat : <<m, n>> \in R <=> m < n
  BY DEF OpToRel
<1>3. IsWellFoundedOn(R, Nat)
  BY NatLessThanWellFounded
<1> HIDE DEF R
<1>4. \E n \in FreeNames(p) : \A m \in FreeNames(p) : n <= m
  <2>1. PICK n \in FreeNames(p) : \A m \in FreeNames(p) : ~ (<<m, n>> \in R)
    BY <1>1, <1>3, WFMin
  <2>2. \A m \in FreeNames(p) : ~ (m < n)
    BY <1>1, <1>2, <2>1
  <2>3. QED  BY <1>1, <2>2
<1> DEFINE name == CHOOSE n \in FreeNames(p) : \A m \in FreeNames(p) : n <= m
<1>5. name \in Names  BY <1>1, <1>4
<1>6. NextHandshake(p) = <<p, name>>  BY DEF NextHandshake
<1> HIDE DEF name
<1>7. QED  BY <1>5, <1>6 DEF Handshakes

\* A read loop moves on.
LEMMA LoopAt ==
  ASSUME ConnTypes, NEW c \in Conn, NEW p \in Node,
         NEW at \in {"none", "reading", "superseded", "lost", "done"},
         loop' = [loop EXCEPT ![c][p].at = at]
  PROVE  /\ loop' \in Loops /\ loop'[c][p].at = at
         /\ \A d \in Conn, q \in Node : (d = c /\ q = p) \/ loop'[d][q] = loop[d][q]
<1>1. /\ loop[c][p] \in [at : {"none", "reading", "superseded", "lost", "done"},
                         key : Key \cup {Nil}]
      /\ loop \in Loops
  BY DEF ConnTypes, Loops
<1>2. PICK r \in [at : {"none", "reading", "superseded", "lost", "done"},
                  key : Key \cup {Nil}] :
        r.at = at /\ r = [loop[c][p] EXCEPT !.at = at]
  BY <1>1
<1>3. loop' = [loop EXCEPT ![c][p] = r]
  BY <1>2
<1>4. QED  BY <1>1, <1>2, <1>3 DEF Loops

LEMMA DialSucceedsStep ==
  ASSUME LinkInv, NEW p \in Node, DialSucceeds(p)
  PROVE  LinkInv'
<1>1. PICK c \in Conn :
        /\ Free(c)
        /\ dialer' = [dialer EXCEPT ![c] = p]
        /\ status' = [status EXCEPT ![c] = [q \in Node |->
                        IF q = p THEN "open" ELSE "unseen"]]
        /\ lost'   = lost \ {c}
        /\ wire'   = [wire EXCEPT ![c] = [q \in Node |-> <<>>]]
        /\ loop'   = [loop EXCEPT ![c] = [q \in Node |-> [at |-> "none", key |-> Nil]]]
        /\ dial'   = [dial EXCEPT ![p].at = "dialed", ![p].conn = c]
  BY DEF DialSucceeds
<1>2. dial[p].at = "dialing" /\ UNCHANGED <<reg, sessions, wake, paused, recon, user>>
  BY DEF DialSucceeds
<1>3. SessTypes' /\ UserTypes'
  BY <1>2, SessSame, UserSame
<1>4. ConnTypes'
  <2>1. [q \in Node |-> IF q = p THEN "open" ELSE "unseen"] \in [Node -> Ends]
    BY DEF Ends
  <2>2. [q \in Node |-> <<>>] \in [Node -> Seq(Frame)]
    OBVIOUS
  <2>3. [q \in Node |-> [at |-> "none", key |-> Nil]]
          \in [Node -> [at : {"none", "reading", "superseded", "lost", "done"},
                        key : Key \cup {Nil}]]
    OBVIOUS
  <2>4. status' \in Statuses  BY <1>1, <2>1 DEF ConnTypes, Statuses
  <2>5. wire' \in Wires  BY <1>1, <2>2 DEF ConnTypes, Wires
  <2>6. loop' \in Loops  BY <1>1, <2>3 DEF ConnTypes, Loops
  <2>7. dialer' \in [Conn -> Node \cup {Nil}]  BY <1>1 DEF ConnTypes
  <2>8. QED  BY <1>1, <1>2, <2>4, <2>5, <2>6, <2>7 DEF ConnTypes
<1>5. /\ dial' \in Dials /\ dial'[p].at = "dialed" /\ dial'[p].conn = c
      /\ dial'[p].caller = dial[p].caller
      /\ \A q \in Node \ {p} : dial'[q] = dial[q]
  <2>1. dial[p] \in [at : Labels, conn : Conn \cup {NoConn},
                     caller : {Nil, "user", "auto"}, told : BOOLEAN]
    BY DEF DialTypes, Dials
  <2>2. dial' = [dial EXCEPT ![p] = [dial[p] EXCEPT !.at = "dialed", !.conn = c]]
    BY <1>1, <2>1 DEF DialTypes, Dials
  <2>3. [dial[p] EXCEPT !.at = "dialed", !.conn = c]
          \in [at : Labels, conn : Conn \cup {NoConn},
               caller : {Nil, "user", "auto"}, told : BOOLEAN]
    BY <2>1 DEF Labels
  <2>4. QED  BY <2>1, <2>2, <2>3 DEF DialTypes, Dials
<1>6. DialTypes' /\ Rounds'
  BY <1>2, <1>5 DEF DialTypes, Rounds
<1>7. /\ \A d \in Conn \ {c}, q \in Node : /\ status'[d][q] = status[d][q]
                                          /\ loop'[d][q] = loop[d][q]
      /\ \A q \in Node : /\ status'[c][q] = IF q = p THEN "open" ELSE "unseen"
                         /\ loop'[c][q].at = "none"
  BY <1>1 DEF ConnTypes, Statuses, Loops
<1>8. \A q \in Node : dial[q].conn # c  BY <1>1 DEF Free
<1>9. ASSUME NEW d \in Conn, NEW q \in Node
      PROVE  /\ status'[d][q] = "open" => Registered(q, d)' \/ Dialed(q, d)'
             /\ loop'[d][q].at \in {"superseded", "lost"} => status'[d][q] # "open"
             /\ status'[d][q] = "unseen" => loop'[d][q].at = "none"
             /\ Dialed(q, d)' => status'[d][q] # "unseen"
  <2>1. CASE d = c
    BY <1>5, <1>7, <1>8, <2>1 DEF Dialed
  <2>2. CASE d # c
    <3>1. Registered(q, d)' = Registered(q, d)  BY <1>2 DEF Registered
    <3>2. Dialed(q, d)' <=> Dialed(q, d)  BY <1>2, <1>5, <2>2 DEF Dialed
    <3>3. QED  BY <1>7, <2>2, <3>1, <3>2 DEF Kept
  <2>3. QED  BY <2>1, <2>2
<1>10. \A q \in Node : dial'[q].at = "dialed" => dial'[q].conn \in Conn
  BY <1>5 DEF Kept
<1>11. Kept'  BY <1>9, <1>10 DEF Kept
<1>12. QED  BY <1>3, <1>4, <1>6, <1>11

LEMMA RegistersStep ==
  ASSUME LinkInv, NEW p \in Node, Registers(p)
  PROVE  LinkInv'
<1> DEFINE c == dial[p].conn
<1>1. /\ dial[p].at = "dialed" /\ Register(p, c, status)
      /\ loop' = IF Rejected(p, c) THEN loop ELSE [loop EXCEPT ![c][p].at = "reading"]
      /\ sess' = [sess EXCEPT ![p]["iroh"] = Entry(sess[p]["iroh"])]
      /\ dial' = [dial EXCEPT ![p].at = "ready", ![p].conn = NoConn]
      /\ UNCHANGED <<dialer, lost, wire, alias, wake, paused, recon, user>>
  BY DEF Registers
<1>2. c \in Conn  BY <1>1 DEF Kept
<1>3. /\ status' \in Statuses /\ reg' \in Regs
      /\ \A d \in Conn, q \in Node :
           status'[d][q] = status[d][q] \/ status'[d][q] \in Closers
      /\ \A q \in Node \ {p} : reg'[q] = reg[q]
      /\ \A d \in Conn : status'[d][p] = "open" /\ (Registered(p, d) \/ d = c)
                           => Registered(p, d)'
  <2> HIDE DEF c
  <2>1. status \in Statuses  BY DEF ConnTypes
  <2>2. QED  BY <1>1, <1>2, <2>1, RegisterFacts
<1>4. loop' \in Loops /\ \A d \in Conn, q \in Node :
        \/ loop'[d][q] = loop[d][q]
        \/ d = c /\ q = p /\ loop'[d][q].at = "reading"
  <2>1. CASE loop' = loop  BY <2>1 DEF ConnTypes
  <2>2. CASE loop' = [loop EXCEPT ![c][p].at = "reading"]
    <3> HIDE DEF c
    <3>1. "reading" \in {"none", "reading", "superseded", "lost", "done"}  OBVIOUS
    <3>2. loop' \in Loops /\ loop'[c][p].at = "reading"
          /\ \A d \in Conn, q \in Node : (d = c /\ q = p) \/ loop'[d][q] = loop[d][q]
      BY <1>2, <2>2, <3>1, LoopAt
    <3>3. QED  BY <3>2
  <2>3. QED  BY <1>1, <2>1, <2>2
<1>5. /\ dial' \in Dials /\ dial'[p].at = "ready"
      /\ dial'[p].caller = dial[p].caller
      /\ \A q \in Node \ {p} : dial'[q] = dial[q]
  <2>1. dial[p] \in [at : Labels, conn : Conn \cup {NoConn},
                     caller : {Nil, "user", "auto"}, told : BOOLEAN]
    BY DEF DialTypes, Dials
  <2>2. dial' = [dial EXCEPT ![p] = [dial[p] EXCEPT !.at = "ready", !.conn = NoConn]]
    BY <1>1, <2>1 DEF DialTypes, Dials
  <2>3. [dial[p] EXCEPT !.at = "ready", !.conn = NoConn]
          \in [at : Labels, conn : Conn \cup {NoConn},
               caller : {Nil, "user", "auto"}, told : BOOLEAN]
    BY <2>1 DEF Labels
  <2>4. QED  BY <2>1, <2>2, <2>3 DEF DialTypes, Dials
<1> HIDE DEF c
<1>6. DialTypes' /\ Rounds'
  BY <1>1, <1>5 DEF DialTypes, Rounds
<1>7. ConnTypes'
  BY <1>1, <1>3, <1>4 DEF ConnTypes
<1>8. SessTypes'
  <2>1. "iroh" \in Key /\ "iroh" # "peer" /\ sess[p]["iroh"] \in Session
    BY DEF Key, SessTypes, Sessions
  <2>2. Entry(sess[p]["iroh"]) \in Session  BY <2>1, SessionFacts
  <2>3. sess' \in Sessions /\ PeerProved'
    BY <1>1, <2>1, <2>2, SessPutTypes
  <2>4. QED  BY <1>1, <2>3 DEF SessTypes, wake
<1>9. UserTypes'  BY <1>1, UserSame
<1>10. ASSUME NEW d \in Conn, NEW q \in Node
      PROVE  /\ status'[d][q] = "open" => Registered(q, d)' \/ Dialed(q, d)'
             /\ loop'[d][q].at \in {"superseded", "lost"} => status'[d][q] # "open"
             /\ status'[d][q] = "unseen" => loop'[d][q].at = "none"
             /\ Dialed(q, d)' => status'[d][q] # "unseen"
  <2>0. status'[d][q] \in {"open", "unseen"} => status'[d][q] = status[d][q]
    BY <1>3, ClosersOnly
  <2>1. CASE q = p
    <3>1. ~Dialed(q, d)'  BY <1>5, <2>1 DEF Dialed
    <3>2. Dialed(p, d) <=> d = c  BY <1>1 DEF Dialed, c
    <3>3. status'[d][q] = "open" => Registered(q, d)'
      BY <1>3, <2>0, <2>1, <3>2 DEF Kept
    <3>4. QED  BY <1>4, <2>0, <2>1, <3>1, <3>2, <3>3 DEF Kept
  <2>2. CASE q # p
    <3>1. Registered(q, d)' = Registered(q, d)  BY <1>3, <2>2 DEF Registered
    <3>2. Dialed(q, d)' <=> Dialed(q, d)  BY <1>5, <2>2 DEF Dialed
    <3>3. QED  BY <1>4, <2>0, <2>2, <3>1, <3>2 DEF Kept
  <2>3. QED  BY <2>1, <2>2
<1>11. \A q \in Node : dial'[q].at = "dialed" => dial'[q].conn \in Conn
  BY <1>5 DEF Kept
<1>12. Kept'  BY <1>10, <1>11 DEF Kept
<1>13. QED  BY <1>6, <1>7, <1>8, <1>9, <1>12

LEMMA SendStep1Step ==
  ASSUME LinkInv, NEW p \in Node, SendStep1(p)
  PROVE  LinkInv'
<1>1. /\ dial[p].at = "ready"
      /\ UNCHANGED <<dialer, status, lost, loop, reg, alias, paused, user>>
  BY DEF SendStep1
<1>2. OnlyCloses /\ UserTypes'  BY <1>1, SameConns, UserSame
<1>3. "iroh" \in Key /\ "superseded" \in Labels /\ "waiting" \in Labels
  BY DEF Key, Labels
<1>4. DialTypes' /\ Rounds' /\ SameDialed
  <2>1. \/ Fails(p)
        \/ (Goto(p, "superseded") \/ Goto(p, "waiting")) /\ UNCHANGED recon
    BY DEF SendStep1
  <2>2. QED  BY <1>1, <1>3, <2>1, GotoStep, ReturnsStep DEF Fails
<1>5. CASE UNCHANGED <<sess, wake, wire>>
  <2>1. ConnTypes' /\ SessTypes'
    BY <1>1, <1>5, ConnSame, SessSame DEF conns, sessions
  <2>2. QED  BY <1>1, <1>2, <1>4, <2>1, KeptIf
<1>6. CASE /\ HasConnection(p, "iroh") /\ FreeNames(p) # {}
           /\ sess' = [sess EXCEPT ![p]["iroh"] = Initiating(NextHandshake(p))]
           /\ wire' = Send(wire, reg[p]["iroh"], p, Step1(NextHandshake(p)))
           /\ waiter' = [waiter EXCEPT ![p] = "iroh"]
           /\ signal' = [signal EXCEPT ![p] = None]
  <2>1. NextHandshake(p) \in Handshakes  BY <1>6, NextFacts
  <2>2. /\ Initiating(NextHandshake(p)) \in Session
        /\ Step1(NextHandshake(p)) \in Frame
    BY <2>1, SessionFacts, FrameFacts
  <2>3. wire' \in Wires
    <3>1. wire \in Wires /\ reg[p]["iroh"] \in Conn
      BY <1>3, <1>6, LiveFacts DEF ConnTypes
    <3>2. QED  BY <1>6, <2>2, <3>1, SendFacts
  <2>4. ConnTypes'  BY <1>1, <2>3 DEF ConnTypes
  <2>5. sess' \in Sessions /\ PeerProved'
    BY <1>1, <1>3, <1>6, <2>2, SessPutTypes
  <2>6. waiter' \in Waiters /\ signal' \in SignalsT
    BY <1>3, <1>6 DEF SessTypes, Waiters, SignalsT
  <2>7. SessTypes'  BY <1>1, <2>5, <2>6 DEF SessTypes
  <2>8. QED  BY <1>1, <1>2, <1>4, <2>4, <2>7, KeptIf
<1>7. CASE /\ sess' = [sess EXCEPT ![p]["iroh"] = Fresh]
           /\ waiter' = [waiter EXCEPT ![p] = Nil]
           /\ UNCHANGED <<signal, wire>>
  <2>1. ConnTypes'  BY <1>1, <1>7 DEF ConnTypes
  <2>2. sess' \in Sessions /\ PeerProved'
    BY <1>1, <1>3, <1>7, SessionFacts, SessPutTypes
  <2>3. waiter' \in Waiters /\ signal' \in SignalsT
    BY <1>3, <1>7 DEF SessTypes, Waiters, SignalsT
  <2>4. SessTypes'  BY <1>1, <2>2, <2>3 DEF SessTypes
  <2>5. QED  BY <1>1, <1>2, <1>4, <2>1, <2>4, KeptIf
<1>8. QED  BY <1>5, <1>6, <1>7 DEF SendStep1

LEMMA AbortFacts ==
  ASSUME SessTypes, NEW p \in Node, AbortInitiator(p), alias' = alias
  PROVE  sess' \in Sessions /\ waiter' \in Waiters /\ PeerProved'
<1>1. waiter' \in Waiters
  BY DEF AbortInitiator, SessTypes, Waiters
<1>2. CASE sess' = sess
  BY <1>1, <1>2 DEF SessTypes, PeerProved, Has
<1>3. CASE sess' = [sess EXCEPT ![p]["iroh"] = Fresh]
  <2>1. "iroh" \in Key  BY DEF Key
  <2>2. QED  BY <1>1, <1>3, <2>1, SessionFacts, SessPutTypes
<1>4. QED  BY <1>2, <1>3 DEF AbortInitiator

LEMMA WakesStep ==
  ASSUME LinkInv, NEW p \in Node, Wakes(p)
  PROVE  LinkInv'
<1>1. /\ dial[p].at = "waiting" /\ signal' = [signal EXCEPT ![p] = None]
      /\ UNCHANGED <<conns, loop, reg, alias, paused, user>>
  BY DEF Wakes
<1>2. ConnTypes' /\ OnlyCloses /\ UserTypes'  BY <1>1, ConnSame, UserSame
<1>3. "iroh" \in Key /\ "superseded" \in Labels /\ "finishing" \in Labels
  BY DEF Key, Labels
<1>4. DialTypes' /\ Rounds' /\ SameDialed
  <2>1. \/ Fails(p)
        \/ (Goto(p, "superseded") \/ Goto(p, "finishing")) /\ UNCHANGED recon
    BY DEF Wakes
  <2>2. QED  BY <1>1, <1>3, <2>1, GotoStep, ReturnsStep DEF Fails
<1>5. sess' \in Sessions /\ waiter' \in Waiters /\ PeerProved'
  <2>1. CASE UNCHANGED <<sess, waiter>>
    BY <1>1, <2>1 DEF SessTypes, PeerProved, Has
  <2>2. CASE sess' = [sess EXCEPT ![p]["iroh"] = Completed(sess[p]["iroh"])]
             /\ UNCHANGED waiter
    <3>0. sess[p]["iroh"] \in Session  BY <1>3 DEF SessTypes, Sessions
    <3>1. Completed(sess[p]["iroh"]) \in Session  BY <3>0, SessionFacts
    <3>2. sess' \in Sessions /\ PeerProved'
      <4>1. PICK s \in Session : sess' = [sess EXCEPT ![p]["iroh"] = s]
        BY <2>2, <3>1
      <4>2. QED  BY <1>1, <1>3, <4>1, SessPutTypes
    <3>3. QED  BY <2>2, <3>2 DEF SessTypes
  <2>3. CASE AbortInitiator(p)  BY <1>1, <2>3, AbortFacts
  <2>4. QED  BY <2>1, <2>2, <2>3 DEF Wakes
<1>6. signal' \in SignalsT  BY <1>1 DEF SessTypes, SignalsT
<1>7. SessTypes'  BY <1>1, <1>5, <1>6 DEF SessTypes
<1>8. QED  BY <1>1, <1>2, <1>4, <1>7, KeptIf

LEMMA SendStep3Step ==
  ASSUME LinkInv, NEW p \in Node, SendStep3(p)
  PROVE  LinkInv'
<1> DEFINE k    == IF Has(p, "iroh") THEN "iroh" ELSE Resolve(p, "iroh")
           sent == k # Nil /\ HasConnection(p, k)
           s    == sess[p]["iroh"]
           mine == [s EXCEPT !.trusted = s.role = "idle" /\ s.proved]
<1>1. /\ dial[p].at = "finishing"
      /\ wire' = IF sent THEN Send(wire, reg[p][k], p, Step3(sess[p][k].hs)) ELSE wire
      /\ \/ /\ Canonicalize(p, mine)
            /\ paused' = [paused EXCEPT ![p] = @ \ {IF s.proved THEN "peer" ELSE "iroh"}]
            /\ Returns(p, TRUE)
         \/ /\ Fails(p)
            /\ UNCHANGED <<sess, alias, status, reg, waiter, paused>>
      /\ UNCHANGED <<dialer, lost, loop, signal, user>>
  BY DEF SendStep3
<1>2. k \in Key \cup {Nil} /\ "iroh" \in Key
  BY ResolveFacts DEF Key
<1>3. mine \in Session
  <2>1. s \in Session  BY <1>2 DEF SessTypes, Sessions
  <2>2. (s.role = "idle" /\ s.proved) \in BOOLEAN  OBVIOUS
  <2> DEFINE b == s.role = "idle" /\ s.proved
  <2>3. b \in BOOLEAN  BY <2>2
  <2> HIDE DEF b, s
  <2>4. [s EXCEPT !.trusted = b] \in Session  BY <2>1, <2>3 DEF Session
  <2>5. QED  BY <2>4 DEF b
<1> HIDE DEF mine, k
<1>4. wire' \in Wires
  <2>1. CASE sent
    <3>1. k \in Key  BY <1>2, <2>1
    <3>2. reg[p][k] \in Conn  BY <2>1, <3>1, LiveFacts
    <3>3. sess[p][k].hs \in Handshakes
      BY <3>1 DEF SessTypes, Sessions, Session
    <3>4. Step3(sess[p][k].hs) \in Frame  BY <3>3, FrameFacts
    <3>5. wire \in Wires  BY DEF ConnTypes
    <3>6. QED  BY <1>1, <2>1, <3>2, <3>4, <3>5, SendFacts
  <2>2. CASE ~sent  BY <1>1, <2>2 DEF ConnTypes
  <2>3. QED  BY <2>1, <2>2
<1>5. DialTypes' /\ Rounds' /\ SameDialed
  BY <1>1, ReturnsStep DEF Fails
<1>6. CASE Canonicalize(p, mine)
           /\ paused' = [paused EXCEPT ![p] = @ \ {IF s.proved THEN "peer" ELSE "iroh"}]
  <2>1. /\ status' \in Statuses /\ reg' \in Regs
        /\ sess' \in Sessions /\ alias' \in [Node -> BOOLEAN] /\ waiter' \in Waiters
        /\ PeerProved'
        /\ \A d \in Conn, q \in Node :
             status'[d][q] = status[d][q] \/ status'[d][q] \in Closers
        /\ \A d \in Conn, q \in Node :
             status'[d][q] = "open" /\ Registered(q, d) => Registered(q, d)'
    BY <1>3, <1>6, CanonicalizeFacts
  <2>2. OnlyCloses  BY <2>1, ClosersOnly DEF OnlyCloses
  <2>3. ConnTypes'  BY <1>1, <1>4, <2>1 DEF ConnTypes
  <2>4. SessTypes'  BY <1>1, <2>1 DEF SessTypes
  <2>5. UserTypes'  BY <1>1, <1>6 DEF UserTypes, user
  <2>6. QED  BY <1>1, <1>5, <2>2, <2>3, <2>4, <2>5, KeptIf
<1>7. CASE UNCHANGED <<sess, alias, status, reg, waiter, paused>>
  <2>1. ConnTypes' /\ OnlyCloses  BY <1>1, <1>4, <1>7, SameConns DEF ConnTypes
  <2>2. SessTypes'  BY <1>1, <1>7, SessSame DEF sessions, wake
  <2>3. UserTypes'  BY <1>1, <1>7, UserSame
  <2>4. QED  BY <1>1, <1>5, <2>1, <2>2, <2>3, KeptIf
<1>8. QED  BY <1>1, <1>6, <1>7

LEMMA OutcomeArrivesStep ==
  ASSUME LinkInv, NEW p \in Node, OutcomeArrives(p)
  PROVE  LinkInv'
<1>1. /\ dial[p].at = "superseded" /\ Returns(p, TRUE)
      /\ UNCHANGED <<conns, loop, reg, sessions, wake, paused, user>>
  BY DEF OutcomeArrives
<1>2. ConnTypes' /\ OnlyCloses /\ SessTypes' /\ UserTypes'
  BY <1>1, ConnSame, SessSame, UserSame
<1>3. DialTypes' /\ Rounds' /\ SameDialed  BY <1>1, ReturnsStep
<1>4. QED  BY <1>1, <1>2, <1>3, KeptIf

LEMMA TimeoutStep ==
  ASSUME LinkInv, NEW p \in Node, Timeout(p)
  PROVE  LinkInv'
<1>1. /\ dial[p].at # "dialed" /\ Fails(p)
      /\ AbortInitiator(p) \/ UNCHANGED <<sess, waiter>>
      /\ UNCHANGED <<conns, loop, reg, alias, signal, paused, user>>
  BY DEF Timeout
<1>2. ConnTypes' /\ OnlyCloses /\ UserTypes'
  BY <1>1, ConnSame, UserSame
<1>3. DialTypes' /\ Rounds' /\ SameDialed  BY <1>1, ReturnsStep DEF Fails
<1>4. sess' \in Sessions /\ waiter' \in Waiters /\ PeerProved'
  BY <1>1, AbortFacts DEF SessTypes, PeerProved, Has
<1>5. SessTypes'  BY <1>1, <1>4 DEF SessTypes
<1>6. QED  BY <1>1, <1>2, <1>3, <1>5, KeptIf

-----------------------------------------------------------------------------
(* The accept loop and the read loops *)

LEMMA AcceptStep ==
  ASSUME LinkInv, NEW p \in Node, NEW c \in Conn, Accept(p, c)
  PROVE  LinkInv'
<1> DEFINE st == [status EXCEPT ![c][p] = "open"]
<1>1. /\ status[c][p] = "unseen" /\ Register(p, c, st)
      /\ \/ Rejected(p, c) /\ UNCHANGED <<loop, sess, wire>>
         \/ /\ ~Rejected(p, c)
            /\ loop' = [loop EXCEPT ![c][p].at = "reading"]
            /\ sess' = [sess EXCEPT ![p]["iroh"] = Entry(sess[p]["iroh"])]
            /\ wire' = IF sess[p]["iroh"].role = "initiator"
                         THEN Send(wire, c, p, Step1(sess[p]["iroh"].hs)) ELSE wire
      /\ UNCHANGED <<dialer, lost, alias, wake, dial, paused, recon, user>>
  BY DEF Accept
<1>2. st \in Statuses /\ \A d \in Conn, q \in Node :
        st[d][q] = IF d = c /\ q = p THEN "open" ELSE status[d][q]
  BY DEF ConnTypes, Statuses, Ends
<1> HIDE DEF st
<1>3. /\ status' \in Statuses /\ reg' \in Regs
      /\ \A d \in Conn, q \in Node :
           status'[d][q] = st[d][q] \/ status'[d][q] \in Closers
      /\ \A q \in Node \ {p} : reg'[q] = reg[q]
      /\ \A d \in Conn : status'[d][p] = "open" /\ (Registered(p, d) \/ d = c)
                           => Registered(p, d)'
  BY <1>1, <1>2, RegisterFacts
<1>4. loop' \in Loops /\ \A d \in Conn, q \in Node :
        \/ loop'[d][q] = loop[d][q]
        \/ d = c /\ q = p /\ loop'[d][q].at = "reading"
  <2>1. CASE loop' = loop  BY <2>1 DEF ConnTypes
  <2>2. CASE loop' = [loop EXCEPT ![c][p].at = "reading"]
    <3>1. "reading" \in {"none", "reading", "superseded", "lost", "done"}  OBVIOUS
    <3>2. loop' \in Loops /\ loop'[c][p].at = "reading"
          /\ \A d \in Conn, q \in Node : (d = c /\ q = p) \/ loop'[d][q] = loop[d][q]
      BY <2>2, <3>1, LoopAt
    <3>3. QED  BY <3>2
  <2>3. QED  BY <1>1, <2>1, <2>2
<1>5. /\ "iroh" \in Key /\ "iroh" # "peer" /\ sess[p]["iroh"] \in Session
      /\ sess[p]["iroh"].hs \in Handshakes
  BY DEF Key, SessTypes, Sessions, Session
<1>6. ConnTypes'
  <2>1. wire \in Wires /\ Step1(sess[p]["iroh"].hs) \in Frame
    BY <1>5, FrameFacts DEF ConnTypes
  <2>2. Send(wire, c, p, Step1(sess[p]["iroh"].hs)) \in Wires
    BY <2>1, SendFacts
  <2>3. wire' \in Wires  BY <1>1, <2>1, <2>2
  <2>4. QED  BY <1>1, <1>3, <1>4, <2>3 DEF ConnTypes
<1>7. SessTypes'
  <2>1. sess' \in Sessions /\ PeerProved'
    <3>1. CASE sess' = sess
      BY <1>1, <3>1 DEF SessTypes, PeerProved, Has
    <3>2. CASE sess' = [sess EXCEPT ![p]["iroh"] = Entry(sess[p]["iroh"])]
      <4>1. Entry(sess[p]["iroh"]) \in Session  BY <1>5, SessionFacts
      <4>2. PICK e \in Session : sess' = [sess EXCEPT ![p]["iroh"] = e]
        BY <3>2, <4>1
      <4>3. QED  BY <1>1, <1>5, <4>2, SessPutTypes
    <3>3. QED  BY <1>1, <3>1, <3>2
  <2>2. QED  BY <1>1, <2>1 DEF SessTypes, wake
<1>8. DialTypes' /\ Rounds' /\ SameDialed  BY <1>1, DialSame
<1>9. UserTypes'  BY <1>1, UserSame
<1>10. ASSUME NEW d \in Conn, NEW q \in Node
       PROVE  /\ status'[d][q] = "open" => Registered(q, d)' \/ Dialed(q, d)'
              /\ loop'[d][q].at \in {"superseded", "lost"} => status'[d][q] # "open"
              /\ status'[d][q] = "unseen" => loop'[d][q].at = "none"
              /\ Dialed(q, d)' => status'[d][q] # "unseen"
  <2>0. /\ status'[d][q] \in {"open", "unseen"} => status'[d][q] = st[d][q]
        /\ Dialed(q, d)' <=> Dialed(q, d)
    BY <1>1, <1>3, ClosersOnly DEF Dialed
  <2>1. CASE q = p /\ d = c
    <3>1. status'[d][q] = "open" => Registered(q, d)'
      BY <1>3, <2>1
    <3>2. loop[c][p].at = "none"  BY <1>1 DEF Kept
    <3>3. loop'[d][q].at \in {"none", "reading"}  BY <1>4, <2>1, <3>2
    <3>4. status'[d][q] # "unseen"  BY <1>2, <2>0, <2>1
    <3>5. QED  BY <3>1, <3>3, <3>4
  <2>2. CASE q = p /\ d # c
    <3>1. status'[d][q] = "open" /\ Registered(q, d) => Registered(q, d)'
      BY <1>3, <2>2
    <3>2. loop'[d][q] = loop[d][q] /\ st[d][q] = status[d][q]
      BY <1>2, <1>4, <2>2
    <3>3. QED  BY <2>0, <2>2, <3>1, <3>2 DEF Kept
  <2>3. CASE q # p
    <3>1. Registered(q, d)' = Registered(q, d)  BY <1>3, <2>3 DEF Registered
    <3>2. loop'[d][q] = loop[d][q] /\ st[d][q] = status[d][q]
      BY <1>2, <1>4, <2>3
    <3>3. QED  BY <2>0, <2>3, <3>1, <3>2 DEF Kept
  <2>4. QED  BY <2>1, <2>2, <2>3
<1>11. \A q \in Node : dial'[q].at = "dialed" => dial'[q].conn \in Conn
  BY <1>1 DEF Kept
<1>12. Kept'  BY <1>10, <1>11 DEF Kept
<1>13. QED  BY <1>6, <1>7, <1>8, <1>9, <1>12

\* An end is found closed.
LEMMA EndCloses ==
  ASSUME LinkInv, NEW p \in Node, NEW c \in Conn, NEW why \in Ends \ {"open", "unseen"},
         status' = [status EXCEPT ![c][p] = why],
         UNCHANGED <<dialer, lost, wire, loop, reg, sessions, wake, dial, paused,
                     recon, user>>
  PROVE  LinkInv'
<1>1. status' \in Statuses /\ \A d \in Conn, q \in Node :
        status'[d][q] = IF d = c /\ q = p THEN why ELSE status[d][q]
  BY DEF ConnTypes, Statuses
<1>2. OnlyCloses  BY <1>1 DEF OnlyCloses, Registered
<1>3. ConnTypes'  BY <1>1 DEF ConnTypes
<1>4. SessTypes' /\ UserTypes'  BY SessSame, UserSame
<1>5. DialTypes' /\ Rounds' /\ SameDialed  BY DialSame
<1>6. loop' = loop  OBVIOUS
<1>7. QED  BY <1>2, <1>3, <1>4, <1>5, <1>6, KeptIf

LEMMA EndFacts ==
  /\ "by peer: disconnect" \in Ends \ {"open", "unseen"}
  /\ "timed out" \in Ends \ {"open", "unseen"}
  /\ \A why \in Closers : Heard(why) \in Ends \ {"open", "unseen"}
<1>1. \A why \in Closers :
        Heard(why) \in {"by peer: glare", "by peer: replaced", "by peer: disconnect"}
  BY DEF Closers, Heard
<1>2. Heard("disconnect") = "by peer: disconnect" /\ "disconnect" \in Closers
  BY DEF Closers, Heard
<1>3. \A why \in Closers : Heard(why) \in Ends  BY DEF Ends
<1>4. "timed out" \in Ends  BY DEF Ends
<1>5. "by peer: disconnect" \in Ends  BY <1>2, <1>3
<1>6. QED  BY <1>1, <1>3, <1>4, <1>5

LEMMA RefuseStep ==
  ASSUME LinkInv, NEW p \in Node, NEW c \in Conn, Refuse(p, c)
  PROVE  LinkInv'
BY EndFacts, EndCloses DEF Refuse

LEMMA HearCloseStep ==
  ASSUME LinkInv, NEW p \in Node, NEW c \in Conn, HearClose(p, c)
  PROVE  LinkInv'
<1>1. PICK why \in Ends \ {"open", "unseen"} : status' = [status EXCEPT ![c][p] = why]
  BY EndFacts DEF HearClose
<1>2. QED  BY <1>1, EndCloses DEF HearClose

LEMMA OtherFacts ==
  ASSUME NEW p \in Node
  PROVE  Other(p) \in Node
<1>1. \E q \in Node : q # p  BY NodeAssumption
<1>2. QED  BY <1>1 DEF Other

\* The wire without the frame that is read.
Rest(p, c) == [wire EXCEPT ![c][Other(p)] = Tail(@)]

LEMMA FrameRead ==
  ASSUME ConnTypes, NEW p \in Node, NEW c \in Conn, Readable(p, c)
  PROVE  /\ Rest(p, c) \in Wires
         /\ Head(Arrived(p, c)) \in Frame /\ Head(Arrived(p, c)).hs \in Handshakes
<1>1. /\ Other(p) \in Node /\ wire \in Wires
      /\ wire[c][Other(p)] \in Seq(Frame) /\ wire[c][Other(p)] # <<>>
  BY OtherFacts DEF ConnTypes, Wires, Readable, Arrived
<1>2. /\ Tail(wire[c][Other(p)]) \in Seq(Frame)
      /\ Head(wire[c][Other(p)]) \in Frame
  BY <1>1
<1>3. Rest(p, c) \in Wires  BY <1>1, <1>2 DEF Rest, Wires
<1>4. QED  BY <1>2, <1>3 DEF Arrived, Frame

LEMMA ReplyFacts ==
  ASSUME ConnTypes, NEW w \in Wires, NEW p \in Node, NEW k \in Key, NEW f \in Frame
  PROVE  Reply(w, p, k, f) \in Wires
BY LiveFacts, SendFacts DEF Reply

LEMMA ReadStep1Step ==
  ASSUME LinkInv, NEW p \in Node, NEW c \in Conn, ReadStep1(p, c)
  PROVE  LinkInv'
<1> DEFINE h == Head(Arrived(p, c)).hs
           k == ResolveOr(p, "iroh")
           s == Entry(sess[p][k])
<1>1. /\ Readable(p, c)
      /\ wire' \in {Rest(p, c), Reply(Rest(p, c), p, k, Step2(h))}
      /\ \/ UNCHANGED <<sess, wake>>
         \/ /\ sess' = [sess EXCEPT ![p][k] = Responding(h)]
            /\ \/ /\ waiter' = [waiter EXCEPT ![p] = Nil]
                  /\ signal' = [signal EXCEPT ![p] = Yield]
               \/ UNCHANGED wake
      /\ UNCHANGED <<dialer, status, lost, loop, reg, alias, dial, paused, recon, user>>
  BY DEF ReadStep1, Rest
<1>2. k \in Key /\ (k = "peer" => alias[p])
  BY ResolveFacts DEF Key
<1>3. Rest(p, c) \in Wires /\ h \in Handshakes  BY <1>1, FrameRead
<1> HIDE DEF h, k
<1>4. wire' \in Wires
  <2>1. Step2(h) \in Frame  BY <1>3, FrameFacts
  <2>2. Reply(Rest(p, c), p, k, Step2(h)) \in Wires
    BY <1>2, <1>3, <2>1, ReplyFacts
  <2>3. QED  BY <1>1, <1>3, <2>2
<1>5. ConnTypes' /\ OnlyCloses
  BY <1>1, <1>4, SameConns DEF ConnTypes
<1>6. DialTypes' /\ Rounds' /\ SameDialed /\ UserTypes'
  BY <1>1, DialSame, UserSame
<1>7. sess' \in Sessions /\ PeerProved'
  <2>1. CASE sess' = sess
    BY <1>1, <2>1 DEF SessTypes, PeerProved, Has
  <2>2. CASE sess' = [sess EXCEPT ![p][k] = Responding(h)]
    <3>1. Responding(h) \in Session /\ Responding(h).proved
      BY <1>3, SessionFacts
    <3>2. PICK r \in Session : r.proved /\ sess' = [sess EXCEPT ![p][k] = r]
      BY <2>2, <3>1
    <3>3. QED  BY <1>1, <1>2, <3>2, SessPutTypes
  <2>3. QED  BY <1>1, <2>1, <2>2
<1>8. waiter' \in Waiters /\ signal' \in SignalsT
  BY <1>1 DEF SessTypes, Waiters, SignalsT, wake
<1>9. SessTypes'  BY <1>1, <1>7, <1>8 DEF SessTypes
<1>10. QED  BY <1>1, <1>5, <1>6, <1>9, KeptIf

LEMMA ReadStep2Step ==
  ASSUME LinkInv, NEW p \in Node, NEW c \in Conn, ReadStep2(p, c)
  PROVE  LinkInv'
<1>1. /\ Readable(p, c) /\ wire' = Rest(p, c)
      /\ \/ /\ waiter' = [waiter EXCEPT ![p] = Nil]
            /\ signal' = [signal EXCEPT ![p] = Head(Arrived(p, c))]
         \/ UNCHANGED wake
      /\ UNCHANGED <<dialer, status, lost, loop, reg, sessions, dial, paused, recon, user>>
  BY DEF ReadStep2, Rest
<1>2. Rest(p, c) \in Wires /\ Head(Arrived(p, c)) \in Frame  BY <1>1, FrameRead
<1>3. ConnTypes' /\ OnlyCloses
  BY <1>1, <1>2, SameConns DEF ConnTypes
<1>4. DialTypes' /\ Rounds' /\ SameDialed /\ UserTypes'
  BY <1>1, DialSame, UserSame
<1>5. waiter' \in Waiters /\ signal' \in SignalsT
  BY <1>1, <1>2 DEF SessTypes, Waiters, SignalsT, wake
<1>6. SessTypes'  BY <1>1, <1>5 DEF SessTypes, sessions, PeerProved, Has
<1>7. QED  BY <1>1, <1>3, <1>4, <1>6, KeptIf

LEMMA ReadStep3Step ==
  ASSUME LinkInv, NEW p \in Node, NEW c \in Conn, ReadStep3(p, c)
  PROVE  LinkInv'
<1> DEFINE k == ResolveOr(p, "iroh")
           s == [Completed(sess[p][k]) EXCEPT !.trusted = TRUE]
           told == dial[p].told \/ dial[p].at \notin {"idle", "woken"}
<1>1. /\ Readable(p, c) /\ wire' = Rest(p, c)
      /\ \/ /\ \/ Canonicalize(p, s)
               \/ /\ sess' = [sess EXCEPT ![p][k] = s]
                  /\ UNCHANGED <<alias, status, reg, waiter>>
            /\ paused' = [paused EXCEPT ![p] = @ \ {"peer"}]
            /\ dial' = [dial EXCEPT ![p].told = told]
         \/ UNCHANGED <<sess, alias, status, reg, waiter, paused, dial>>
      /\ UNCHANGED <<dialer, lost, loop, signal, recon, user>>
  BY DEF ReadStep3, Rest
<1>2. k \in Key /\ (k = "peer" => alias[p])
  BY ResolveFacts DEF Key
<1>3. s \in Session /\ s.proved
  <2>1. sess[p][k] \in Session  BY <1>2 DEF SessTypes, Sessions
  <2> HIDE DEF k
  <2>2. QED  BY <2>1, SessionFacts
<1>4. Rest(p, c) \in Wires  BY <1>1, FrameRead
<1>5. told \in BOOLEAN  OBVIOUS
<1> HIDE DEF s, k, told
<1>6. DialTypes' /\ Rounds' /\ SameDialed
  <2>1. CASE dial' = dial
    BY <1>1, <2>1, DialSame
  <2>2. CASE dial' = [dial EXCEPT ![p].told = told]
    <3>1. dial[p] \in [at : Labels, conn : Conn \cup {NoConn},
                       caller : {Nil, "user", "auto"}, told : BOOLEAN]
      BY DEF DialTypes, Dials
    <3>a. [dial[p] EXCEPT !.told = told]
            \in [at : Labels, conn : Conn \cup {NoConn},
                 caller : {Nil, "user", "auto"}, told : BOOLEAN]
      BY <1>5, <3>1
    <3>b. dial' = [dial EXCEPT ![p] = [dial[p] EXCEPT !.told = told]]
      BY <2>2, <3>1
    <3>c. /\ [dial[p] EXCEPT !.told = told].at = dial[p].at
          /\ [dial[p] EXCEPT !.told = told].conn = dial[p].conn
          /\ [dial[p] EXCEPT !.told = told].caller = dial[p].caller
      BY <3>1
    <3>2. PICK new \in [at : Labels, conn : Conn \cup {NoConn},
                        caller : {Nil, "user", "auto"}, told : BOOLEAN] :
            /\ dial' = [dial EXCEPT ![p] = new]
            /\ new.at = dial[p].at /\ new.conn = dial[p].conn
            /\ new.caller = dial[p].caller
      BY <3>a, <3>b, <3>c
    <3>3. /\ dial' \in Dials /\ dial'[p] = new
          /\ \A q \in Node \ {p} : dial'[q] = dial[q]
      BY <3>2 DEF DialTypes, Dials
    <3>4. QED
      BY <1>1, <3>2, <3>3 DEF DialTypes, Rounds, SameDialed
  <2>3. QED  BY <1>1, <2>1, <2>2
<1>7. UserTypes'
  BY <1>1 DEF UserTypes, user
<1>8. CASE Canonicalize(p, s)
  <2>1. /\ status' \in Statuses /\ reg' \in Regs
        /\ sess' \in Sessions /\ alias' \in [Node -> BOOLEAN] /\ waiter' \in Waiters
        /\ PeerProved'
        /\ \A d \in Conn, q \in Node :
             status'[d][q] = status[d][q] \/ status'[d][q] \in Closers
        /\ \A d \in Conn, q \in Node :
             status'[d][q] = "open" /\ Registered(q, d) => Registered(q, d)'
    BY <1>3, <1>8, CanonicalizeFacts
  <2>2. OnlyCloses  BY <2>1, ClosersOnly DEF OnlyCloses
  <2>3. ConnTypes'  BY <1>1, <1>4, <2>1 DEF ConnTypes
  <2>4. SessTypes'  BY <1>1, <2>1 DEF SessTypes
  <2>5. QED  BY <1>1, <1>6, <1>7, <2>2, <2>3, <2>4, KeptIf
<1>9. CASE UNCHANGED <<alias, status, reg, waiter>>
           /\ (sess' = sess \/ sess' = [sess EXCEPT ![p][k] = s])
  <2>1. sess' \in Sessions /\ PeerProved'
    <3>1. CASE sess' = sess
      BY <1>9, <3>1 DEF SessTypes, PeerProved, Has
    <3>2. CASE sess' = [sess EXCEPT ![p][k] = s]
      BY <1>2, <1>3, <1>9, <3>2, SessPutTypes
    <3>3. QED  BY <1>9, <3>1, <3>2
  <2>2. ConnTypes' /\ OnlyCloses  BY <1>1, <1>4, <1>9, SameConns DEF ConnTypes
  <2>3. SessTypes'  BY <1>1, <1>9, <2>1 DEF SessTypes
  <2>4. QED  BY <1>1, <1>6, <1>7, <2>2, <2>3, KeptIf
<1>10. QED  BY <1>1, <1>8, <1>9

\* A connection that is closed at p leaves the map, or its task moves on.
LEMMA LeavesMap ==
  ASSUME LinkInv, NEW p \in Node, NEW c \in Conn, status[c][p] \notin {"open", "unseen"},
         UNCHANGED <<conns, dial>>,
         reg' \in Regs, \A q \in Node \ {p} : reg'[q] = reg[q],
         \A k \in Key : reg'[p][k] = reg[p][k] \/ reg[p][k] = c,
         loop' \in Loops,
         \A d \in Conn, q \in Node : (d = c /\ q = p) \/ loop'[d][q] = loop[d][q]
  PROVE  ConnTypes' /\ Kept'
<1>1. ConnTypes'  BY DEF ConnTypes, conns
<1>2. ASSUME NEW d \in Conn, NEW q \in Node
      PROVE  /\ status'[d][q] = "open" => Registered(q, d)' \/ Dialed(q, d)'
             /\ loop'[d][q].at \in {"superseded", "lost"} => status'[d][q] # "open"
             /\ status'[d][q] = "unseen" => loop'[d][q].at = "none"
             /\ Dialed(q, d)' => status'[d][q] # "unseen"
  <2>0. status'[d][q] = status[d][q] /\ (Dialed(q, d)' <=> Dialed(q, d))
    BY DEF conns, Dialed
  <2>1. CASE q = p /\ d = c  BY <2>0, <2>1
  <2>2. CASE ~(q = p /\ d = c)
    <3>1. Registered(q, d) => Registered(q, d)'
      BY <2>2 DEF Registered
    <3>2. loop'[d][q] = loop[d][q]  BY <2>2
    <3>3. QED  BY <2>0, <3>1, <3>2 DEF Kept
  <2>3. QED  BY <2>1, <2>2
<1>3. \A q \in Node : dial'[q].at = "dialed" => dial'[q].conn \in Conn
  BY DEF Kept
<1>4. Kept'  BY <1>2, <1>3 DEF Kept
<1>5. QED  BY <1>1, <1>4

LEMMA LoopEndsStep ==
  ASSUME LinkInv, NEW p \in Node, NEW c \in Conn, LoopEnds(p, c)
  PROVE  LinkInv'
<1> DEFINE key == ResolveOr(p, "iroh")
           current == Current(p, c, key)
<1>1. /\ loop[c][p].at = "reading" /\ status[c][p] # "open"
      /\ UNCHANGED <<conns, sessions, wake, dial, paused, recon, user>>
  BY DEF LoopEnds, Ended
<1>2. status[c][p] \notin {"open", "unseen"}  BY <1>1 DEF Kept
<1>3. "iroh" \in Key /\ key \in Key  BY ResolveFacts DEF Key
<1>4. \/ loop' = [loop EXCEPT ![c][p].at = "done"]
      \/ loop' = [loop EXCEPT ![c][p] = [at |-> "superseded", key |-> key]]
      \/ loop' = [loop EXCEPT ![c][p] = [at |-> "lost", key |-> key]]
  BY DEF LoopEnds
<1>5. \/ reg' = reg
      \/ reg' = [reg EXCEPT ![p] = [k \in Key |-> IF k \in current THEN NoConn ELSE reg[p][k]]]
  BY DEF LoopEnds
<1>6. \A k \in current : reg[p][k] = c  BY DEF Current
<1> HIDE DEF key, current
<1>7. /\ loop' \in Loops
      /\ \A d \in Conn, q \in Node : (d = c /\ q = p) \/ loop'[d][q] = loop[d][q]
  <2>1. CASE loop' = [loop EXCEPT ![c][p].at = "done"]
    <3>1. "done" \in {"none", "reading", "superseded", "lost", "done"}  OBVIOUS
    <3>2. QED  BY <2>1, <3>1, LoopAt
  <2>2. CASE \/ loop' = [loop EXCEPT ![c][p] = [at |-> "superseded", key |-> key]]
             \/ loop' = [loop EXCEPT ![c][p] = [at |-> "lost", key |-> key]]
    <3>1. /\ [at |-> "superseded", key |-> key]
               \in [at : {"none", "reading", "superseded", "lost", "done"}, key : Key \cup {Nil}]
          /\ [at |-> "lost", key |-> key]
               \in [at : {"none", "reading", "superseded", "lost", "done"}, key : Key \cup {Nil}]
      BY <1>3
    <3>2. PICK r \in [at : {"none", "reading", "superseded", "lost", "done"},
                      key : Key \cup {Nil}] :
            loop' = [loop EXCEPT ![c][p] = r]
      BY <2>2, <3>1
    <3>3. QED  BY <3>2 DEF ConnTypes, Loops
  <2>3. QED  BY <1>4, <2>1, <2>2
<1>8. /\ reg' \in Regs /\ \A q \in Node \ {p} : reg'[q] = reg[q]
      /\ \A k \in Key : reg'[p][k] = reg[p][k] \/ reg[p][k] = c
  BY <1>5, <1>6 DEF ConnTypes, Regs
<1>9. ConnTypes' /\ Kept'  BY <1>1, <1>2, <1>7, <1>8, LeavesMap
<1>10. QED  BY <1>1, <1>9, SessSame, UserSame, DialSame

LEMMA SupersededWaitStep ==
  ASSUME LinkInv, NEW p \in Node, NEW c \in Conn, SupersededWait(p, c)
  PROVE  LinkInv'
<1>1. /\ loop[c][p].at = "superseded"
      /\ UNCHANGED <<conns, reg, sessions, wake, dial, paused, recon, user>>
      /\ \E at \in {"done", "lost"} : loop' = [loop EXCEPT ![c][p].at = at]
  BY DEF SupersededWait
<1>2. status[c][p] \notin {"open", "unseen"}  BY <1>1 DEF Kept
<1>3. /\ loop' \in Loops
      /\ \A d \in Conn, q \in Node : (d = c /\ q = p) \/ loop'[d][q] = loop[d][q]
  <2>1. PICK at \in {"none", "reading", "superseded", "lost", "done"} :
          loop' = [loop EXCEPT ![c][p].at = at]
    BY <1>1
  <2>2. QED  BY <2>1, LoopAt
<1>4. reg' \in Regs  BY <1>1 DEF ConnTypes
<1>5. ConnTypes' /\ Kept'  BY <1>1, <1>2, <1>3, <1>4, LeavesMap
<1>6. QED  BY <1>1, <1>5, SessSame, UserSame, DialSame

LEMMA ConnectionLostStep ==
  ASSUME LinkInv, NEW p \in Node, NEW c \in Conn, ConnectionLost(p, c)
  PROVE  LinkInv'
<1> DEFINE k == loop[c][p].key
           both == {k, "iroh"}
<1>1. /\ loop[c][p].at = "lost"
      /\ loop' = [loop EXCEPT ![c][p] = [at |-> "done", key |-> Nil]]
      /\ reg' = [reg EXCEPT ![p] = [i \in Key |->
                   IF i \in both /\ reg[p][i] = c THEN NoConn ELSE reg[p][i]]]
      /\ \/ UNCHANGED <<sess, wake, recon>>
         \/ /\ sess' = [sess EXCEPT ![p] = [i \in Key |->
                          IF i \in both THEN Absent ELSE sess[p][i]]]
            /\ waiter' = [waiter EXCEPT ![p] = IF @ \in both THEN Nil ELSE @]
            /\ signal' = [signal EXCEPT ![p] = IF waiter[p] \in both THEN Dropped ELSE @]
            /\ ScheduleReconnect(p, k)
      /\ UNCHANGED <<conns, alias, dial, paused, user>>
  BY DEF ConnectionLost
<1> HIDE DEF both
<1>2. status[c][p] \notin {"open", "unseen"}  BY <1>1 DEF Kept
<1>3. /\ loop' \in Loops
      /\ \A d \in Conn, q \in Node : (d = c /\ q = p) \/ loop'[d][q] = loop[d][q]
  BY <1>1 DEF ConnTypes, Loops
<1>4. [i \in Key |-> IF i \in both /\ reg[p][i] = c THEN NoConn ELSE reg[p][i]]
        \in [Key -> Conn \cup {NoConn}]
  BY DEF ConnTypes, Regs
<1>5. /\ reg' \in Regs /\ \A q \in Node \ {p} : reg'[q] = reg[q]
      /\ \A i \in Key : reg'[p][i] = reg[p][i] \/ reg[p][i] = c
  BY <1>1, <1>4 DEF ConnTypes, Regs
<1>6. ConnTypes' /\ Kept'  BY <1>1, <1>2, <1>3, <1>5, LeavesMap
<1>7. sess' \in Sessions /\ PeerProved'
  <2>1. CASE sess' = sess
    BY <1>1, <2>1 DEF SessTypes, PeerProved, Has
  <2>2. CASE sess' = [sess EXCEPT ![p] = [i \in Key |->
                        IF i \in both THEN Absent ELSE sess[p][i]]]
    <3>1. [i \in Key |-> IF i \in both THEN Absent ELSE sess[p][i]] \in [Key -> Session]
      BY SessionFacts DEF SessTypes, Sessions
    <3>2. /\ sess' \in Sessions /\ \A q \in Node \ {p} : sess'[q] = sess[q]
          /\ \A i \in Key : sess'[p][i] \in {Absent, sess[p][i]}
      BY <2>2, <3>1 DEF SessTypes, Sessions
    <3>3. "peer" \in Key  BY DEF Key
    <3>4. PeerProved'
      BY <1>1, <3>2, <3>3, SessionFacts DEF SessTypes, PeerProved, Has
    <3>5. QED  BY <3>2, <3>4
  <2>3. QED  BY <1>1, <2>1, <2>2
<1>8. waiter' \in Waiters /\ signal' \in SignalsT
  BY <1>1 DEF SessTypes, Waiters, SignalsT, wake
<1>9. SessTypes'  BY <1>1, <1>7, <1>8 DEF SessTypes
<1>10. DialTypes' /\ Rounds'
  <2>1. CASE recon' = recon  BY <1>1, <2>1, DialSame
  <2>2. CASE recon' = [recon EXCEPT ![p] = MaxAttempts]
    <3>1. MaxAttempts \in 0 .. MaxAttempts /\ MaxAttempts > 0
      BY PeerLinkAssumption
    <3>2. /\ recon' \in [Node -> 0 .. MaxAttempts]
          /\ \A q \in Node : recon'[q] = recon[q] \/ recon'[q] = MaxAttempts
      BY <2>2, <3>1 DEF DialTypes
    <3>3. QED  BY <1>1, <3>1, <3>2 DEF DialTypes, Rounds
  <2>3. QED  BY <1>1, <2>1, <2>2 DEF ScheduleReconnect
<1>11. UserTypes'  BY <1>1, UserSame
<1>12. QED  BY <1>6, <1>9, <1>10, <1>11

-----------------------------------------------------------------------------
(* The user and the network *)

LEMMA DisconnectStep ==
  ASSUME LinkInv, NEW p \in Node, Disconnect(p)
  PROVE  LinkInv'
<1> DEFINE k == ResolveOr(p, "peer")
           both == {k, "peer"}
<1>1. /\ Teardown(p, both)
      /\ sess' = [sess EXCEPT ![p] = [i \in Key |->
                    IF i \in both THEN Absent ELSE sess[p][i]]]
      /\ paused' = [paused EXCEPT ![p] = @ \cup {k}]
      /\ left'  = [left EXCEPT ![p] = TRUE]
      /\ count.leaves < MaxLeaves /\ count' = [count EXCEPT !.leaves = @ + 1]
      /\ UNCHANGED <<dialer, lost, wire, loop, alias, dial, recon>>
  BY DEF Disconnect
<1>2. k \in Key /\ both \in SUBSET Key /\ "peer" \in Key
  BY ResolveFacts DEF Key
<1> HIDE DEF both, k
<1>3. /\ status' \in Statuses /\ reg' \in Regs
      /\ waiter' \in Waiters /\ signal' \in SignalsT
      /\ \A d \in Conn, q \in Node :
           status'[d][q] = status[d][q] \/ status'[d][q] \in Closers
      /\ \A d \in Conn, q \in Node :
           status'[d][q] = "open" /\ Registered(q, d) => Registered(q, d)'
  BY <1>1, <1>2, TeardownFacts
<1>4. OnlyCloses  BY <1>3, ClosersOnly DEF OnlyCloses
<1>5. ConnTypes'  BY <1>1, <1>3 DEF ConnTypes
<1>6. SessTypes'
  <2>1. [i \in Key |-> IF i \in both THEN Absent ELSE sess[p][i]] \in [Key -> Session]
    BY SessionFacts DEF SessTypes, Sessions
  <2>2. /\ sess' \in Sessions /\ \A q \in Node \ {p} : sess'[q] = sess[q]
        /\ \A i \in Key : sess'[p][i] \in {Absent, sess[p][i]}
    BY <1>1, <2>1 DEF SessTypes, Sessions
  <2>3. PeerProved'
    BY <1>1, <1>2, <2>2, SessionFacts DEF SessTypes, PeerProved, Has
  <2>4. QED  BY <1>1, <1>3, <2>2, <2>3 DEF SessTypes
<1>7. DialTypes' /\ Rounds' /\ SameDialed  BY <1>1, DialSame
<1>8. UserTypes'
  <2>1. paused' \in [Node -> SUBSET Key] /\ left' \in [Node -> BOOLEAN]
    BY <1>1, <1>2 DEF UserTypes
  <2>2. count.leaves + 1 \in 0 .. MaxLeaves
    BY <1>1, PeerLinkAssumption DEF UserTypes, Counts
  <2>3. count' \in Counts  BY <1>1, <2>2 DEF UserTypes, Counts
  <2>4. QED  BY <2>1, <2>3 DEF UserTypes
<1>9. QED  BY <1>1, <1>4, <1>5, <1>6, <1>7, <1>8, KeptIf

LEMMA BreaksStep ==
  ASSUME LinkInv, NEW c \in Conn, Breaks(c)
  PROVE  LinkInv'
<1>1. /\ lost' = lost \cup {c} /\ wire' = [wire EXCEPT ![c] = [p \in Node |-> <<>>]]
      /\ count.faults < MaxFaults /\ count' = [count EXCEPT !.faults = @ + 1]
      /\ UNCHANGED <<dialer, status, loop, reg, sessions, wake, dial, paused, recon, left>>
  BY DEF Breaks
<1>2. ConnTypes' /\ OnlyCloses
  <2>1. [p \in Node |-> <<>>] \in [Node -> Seq(Frame)]  OBVIOUS
  <2>2. wire' \in Wires  BY <1>1, <2>1 DEF ConnTypes, Wires
  <2>3. QED  BY <1>1, <2>2, SameConns DEF ConnTypes
<1>3. SessTypes'  BY <1>1, SessSame
<1>4. DialTypes' /\ Rounds' /\ SameDialed  BY <1>1, DialSame
<1>5. UserTypes'
  <2>1. count.faults + 1 \in 0 .. MaxFaults
    BY <1>1, PeerLinkAssumption DEF UserTypes, Counts
  <2>2. count' \in Counts  BY <1>1, <2>1 DEF UserTypes, Counts
  <2>3. QED  BY <1>1, <2>2 DEF UserTypes
<1>6. QED  BY <1>1, <1>2, <1>3, <1>4, <1>5, KeptIf

-----------------------------------------------------------------------------
(* The theorems *)

LEMMA LinkInit == Init => LinkInv
<1> SUFFICES ASSUME Init PROVE LinkInv
  OBVIOUS
<1>1. ConnTypes
  <2>1. "unused" \in Ends  BY DEF Ends
  <2>2. status \in Statuses /\ wire \in Wires
    BY <2>1 DEF Init, Statuses, Wires
  <2>3. loop \in Loops /\ reg \in Regs  BY DEF Init, Loops, Regs
  <2>4. QED  BY <2>2, <2>3 DEF Init, ConnTypes
<1>2. SessTypes
  <2>1. Absent \in Session /\ Absent.role = "absent"  BY SessionFacts
  <2>2. sess \in Sessions  BY <2>1 DEF Init, Sessions
  <2>3. PeerProved
    <3>1. "peer" \in Key  BY DEF Key
    <3>2. QED  BY <2>1, <3>1 DEF Init, PeerProved, Has
  <2>4. QED  BY <2>2, <2>3 DEF Init, SessTypes, Waiters, SignalsT
<1>3. DialTypes
  <2>1. 0 \in 0 .. MaxAttempts  BY PeerLinkAssumption
  <2>2. [at |-> "idle", conn |-> NoConn, caller |-> Nil, told |-> FALSE]
          \in [at : Labels, conn : Conn \cup {NoConn},
               caller : {Nil, "user", "auto"}, told : BOOLEAN]
    BY DEF Labels
  <2>3. dial \in Dials  BY <2>2 DEF Init, Dials
  <2>4. QED  BY <2>1, <2>3 DEF Init, DialTypes
<1>4. UserTypes
  <2>1. 0 \in 0 .. MaxFaults /\ 0 \in 0 .. MaxDials /\ 0 \in 0 .. MaxLeaves
    BY PeerLinkAssumption
  <2>2. QED  BY <2>1 DEF Init, UserTypes, Counts
<1>5. Rounds  BY DEF Init, Rounds, Nil
<1>6. Kept  BY DEF Init, Kept, Dialed
<1>7. QED  BY <1>1, <1>2, <1>3, <1>4, <1>5, <1>6

LEMMA LinkStep ==
  ASSUME LinkInv, [Next]_vars
  PROVE  LinkInv'
<1>1. CASE UNCHANGED vars
  <2>1. /\ UNCHANGED <<conns, loop, reg>> /\ UNCHANGED <<sessions, wake>>
        /\ UNCHANGED <<dial, recon>> /\ UNCHANGED <<paused, user>> /\ loop' = loop
    BY <1>1 DEF vars
  <2>2. ConnTypes' /\ OnlyCloses /\ SessTypes' /\ UserTypes'
    BY <2>1, ConnSame, SessSame, UserSame
  <2>3. DialTypes' /\ Rounds' /\ SameDialed  BY <2>1, DialSame
  <2>4. QED  BY <2>1, <2>2, <2>3, KeptIf
<1>2. ASSUME NEW p \in Node, DialStep(p)
      PROVE  LinkInv'
  BY <1>2, AutoWakesStep, AutoDialsStep, PrepareStep, DialSucceedsStep, RegistersStep,
     SendStep1Step, WakesStep, SendStep3Step, OutcomeArrivesStep, TimeoutStep
     DEF DialStep
<1>3. ASSUME NEW p \in Node, NEW c \in Conn, ConnStep(p, c)
      PROVE  LinkInv'
  BY <1>3, AcceptStep, RefuseStep, ReadStep1Step, ReadStep2Step, ReadStep3Step,
     LoopEndsStep, SupersededWaitStep, ConnectionLostStep, HearCloseStep
     DEF ConnStep
<1>4. QED
  BY <1>1, <1>2, <1>3, UserDialsStep, DialFailsStep, DisconnectStep, BreaksStep
     DEF Next

LEMMA LinkInvariant == Spec => []LinkInv
BY LinkInit, LinkStep, PTL DEF Spec

\* The types; and that a session under the peer's id is proved, and can be
\* found by the transport's id.
THEOREM TypeCorrect == Spec => []TypeOK
<1>1. LinkInv => TypeOK  BY TypeParts
<1>2. QED  BY <1>1, LinkInvariant, PTL

\* A connection that stays open at rest is registered at both its ends, however
\* the dials cross and whatever is replaced, moved to the other id, torn down
\* or given up for another: none is left open that nobody can find.
THEOREM NoStray == Spec => []NoStrayConnection
<1>1. LinkInv => NoStrayConnection
  BY DEF Kept, NoStrayConnection, AtRest, Dialed, Registered
<1>2. QED  BY <1>1, LinkInvariant, PTL
=============================================================================
