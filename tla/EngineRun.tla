----------------------------- MODULE EngineRun -----------------------------
(***************************************************************************)
(* Starting and stopping an engine: start, wait_until_ready,               *)
(* ensure_started and shutdown of core/src/p2p/engine.rs over the endpoint *)
(* of core/src/network/iroh_transport.rs.  Several callers may start an    *)
(* engine at once, each may be dropped at its deadline, and a shutdown may *)
(* come at any moment.  An application has one engine after another.       *)
(***************************************************************************)
EXTENDS Integers

CONSTANTS MaxEngines   \* bound: engines made, of all processes
ASSUME MaxEnginesAssumption == MaxEngines \in Nat

Engine == 1 .. MaxEngines

\* Who starts an engine: wait_until_ready, for the application as it comes up or
\* a screen that wants the QR code; start itself, in the set-up of the desktop
\* and in ensure_started of a connection.  One call each at a time.
Caller == {"ready", "start"}

VARIABLES
  running,   \* running
  endpoint,  \* IrohTransport.endpoint is set
  marked,    \* IrohTransport.online
  call,      \* call[i][c]: "idle", "queued" (a coroutine not yet begun),
             \* "wanted" (on its way to start), "waiting" (in wait_online)
  closing,   \* shutdown is between its two steps
  \* history
  story      \* "good"; "gaveUp": the last start ended before it marked the
             \* endpoint online; "stopped": shutdown was called, and no start
             \* since; "overlap": a start was on its way when it was called,
             \* or began before it was over

engineVars == <<running, endpoint, marked, call, closing, story>>

Never == [i \in Engine |-> FALSE]

EngineInit ==
  /\ running = Never /\ endpoint = Never /\ marked = Never
  /\ call = [i \in Engine |-> [c \in Caller |-> "idle"]]
  /\ closing = Never
  /\ story = [i \in Engine |-> "good"]

Story(i, how) == story' = [story EXCEPT ![i] = how]

\* A start begins, or ends as given.
AfterStart(i, how) ==
  Story(i, IF story[i] \in {"good", "gaveUp"} THEN how ELSE story[i])
Starts(i) ==
  Story(i, IF story[i] # "stopped" THEN story[i]
           ELSE IF closing[i] THEN "overlap" ELSE "good")

CallIs(i, c, from, to) ==
  /\ call[i][c] = from
  /\ call' = [call EXCEPT ![i][c] = to]

\* wait_until_ready and ensure_started: running is read, then start is called.
Wants(i, c) ==
  /\ ~running[i]
  /\ CallIs(i, c, "idle", "wanted")
  /\ Starts(i)
  /\ UNCHANGED <<running, endpoint, marked, closing>>

\* The coroutine that calls waitUntilReady begins.
Begins(i, c) ==
  /\ CallIs(i, c, "queued", IF running[i] THEN "idle" ELSE "wanted")
  /\ Starts(i)
  /\ UNCHANGED <<running, endpoint, marked, closing>>

\* auto_reconnect has read running before it calls ensure_started.
Redials(i) ==
  /\ running[i]
  /\ CallIs(i, "start", "idle", "wanted")
  /\ UNCHANGED <<running, endpoint, marked, closing, story>>

\* start, under the lock of running: nothing to do, bound, or bind failed.
AlreadyRuns(i, c) ==
  /\ running[i]
  /\ CallIs(i, c, "wanted", "idle")
  /\ UNCHANGED <<running, endpoint, marked, closing, story>>

Bind(i, c) ==
  /\ ~running[i]
  /\ CallIs(i, c, "wanted", "waiting")
  /\ endpoint' = [endpoint EXCEPT ![i] = TRUE]
  /\ running' = [running EXCEPT ![i] = TRUE]
  /\ UNCHANGED <<marked, closing, story>>

BindFails(i, c) ==
  /\ ~running[i]
  /\ CallIs(i, c, "wanted", "idle")
  /\ AfterStart(i, "gaveUp")
  /\ UNCHANGED <<running, endpoint, marked, closing>>

\* wait_online is over, after 45 s at the latest; mark_online.
MarkOnline(i, c) ==
  /\ CallIs(i, c, "waiting", "idle")
  /\ marked' = [marked EXCEPT ![i] = TRUE]
  /\ AfterStart(i, "good")
  /\ UNCHANGED <<running, endpoint, closing>>

\* wait_until_ready drops the start it waits for at its own deadline.
Deadline(i, c) ==
  /\ c = "ready"
  /\ CallIs(i, c, "waiting", "idle")
  /\ AfterStart(i, "gaveUp")
  /\ UNCHANGED <<running, endpoint, marked, closing>>

\* shutdown: nothing to do for an engine that does not run, else two steps.
OnItsWay(i) == \E c \in Caller : call[i][c] = "wanted"

Shutdown(i) ==
  /\ running' = [running EXCEPT ![i] = FALSE]
  /\ closing' = [closing EXCEPT ![i] = @ \/ running[i]]
  /\ Story(i, IF OnItsWay(i) \/ story[i] = "overlap" THEN "overlap" ELSE "stopped")

Kept(i)       == endpoint[i]                    \* mutant
AfterClose(i) == FALSE

CloseEndpoint(i) ==
  /\ closing[i]
  /\ closing' = [closing EXCEPT ![i] = FALSE]
  /\ endpoint' = [endpoint EXCEPT ![i] = AfterClose(i)]
  /\ marked' = [marked EXCEPT ![i] = FALSE]
  /\ UNCHANGED <<running, call, story>>

\* What start and shutdown do by themselves once called.
EngineStep(i) ==
  \/ CloseEndpoint(i)
  \/ \E c \in Caller : \/ Begins(i, c) \/ AlreadyRuns(i, c) \/ Bind(i, c)
                       \/ BindFails(i, c) \/ MarkOnline(i, c) \/ Deadline(i, c)

-----------------------------------------------------------------------------
EngineTypes ==
  /\ running \in [Engine -> BOOLEAN] /\ endpoint \in [Engine -> BOOLEAN]
  /\ marked \in [Engine -> BOOLEAN] /\ closing \in [Engine -> BOOLEAN]
  /\ call \in [Engine -> [Caller -> {"idle", "queued", "wanted", "waiting"}]]
  /\ story \in [Engine -> {"good", "gaveUp", "stopped", "overlap"}]

IsOnline(i) == endpoint[i] /\ marked[i]
AtRest(i)   == ~closing[i] /\ \A c \in Caller : call[i][c] = "idle"

\* An engine at rest has an endpoint just when it runs, and is ready then; one
\* that was shut down does not run (start, wait_until_ready, shutdown).  The
\* exceptions: a start already on its way meets the shutdown, and a start was
\* dropped at its caller's deadline, after which no other marks it online.
EngineAtRest ==
  \A i \in Engine :
    AtRest(i) /\ story[i] # "overlap" =>
      /\ running[i] = endpoint[i]
      /\ running[i] => story[i] = "gaveUp" \/ (story[i] = "good" /\ IsOnline(i))
      /\ ~running[i] => ~IsOnline(i)
=============================================================================
