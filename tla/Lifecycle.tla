----------------------------- MODULE Lifecycle -----------------------------
(***************************************************************************)
(* An application around its engine, from process to process: the desktop  *)
(* program (desktop/src-tauri/src/main.rs), whose identity is in a seed    *)
(* file, or the Android process (SrltcpEngineHolder.kt and                 *)
(* SrltcpForegroundService.kt), which makes its engine in a coroutine,     *)
(* polls its events in another, may stop and make the next, and keeps the  *)
(* seed in preferences that reach the disk later.  A process may be killed *)
(* at any moment.                                                          *)
(*                                                                         *)
(* The i-th engine would draw i as a fresh identity.                       *)
(***************************************************************************)
EXTENDS EngineRun

CONSTANTS MaxKills     \* bound: processes killed
ASSUME MaxKillsAssumption == MaxKills \in Nat

None   == 0
Broken == -1

VARIABLES
  platform,  \* "desktop" or "android"
  process,   \* "down", "up", or "writing": the seed file is created but empty
  disk,      \* the seed on the disk: None, Broken or an identity
  prefs,     \* Android: the seed as the process sees its preferences
  made,      \* how many engines were made
  identity,  \* identity[i] of engine i
  engine,    \* the engine the application has, 0: none
  starting,  \* SrltcpEngineHolder.starting
  scope,     \* its coroutine scope is not cancelled
  launched,  \* a coroutine is to call createEngineLocked
  entered,   \* "yes": one is in it, before the monitor; "overtaken": it still
             \* is after the service was stopped; "no"
  stopping,  \* shutdown holds the monitor, or the desktop shuts down
  polled,    \* polled[i]: a coroutine drains the events of engine i
  kills,
  \* history
  late,      \* late[i]: made on a cancelled scope, by an overtaken coroutine
  unsaved    \* engines whose seed was not on the disk when a kill came

holderVars == <<engine, starting, scope, launched, entered, stopping, polled>>
storeVars  == <<disk, prefs>>
vars == <<engineVars, platform, process, storeVars, made, identity, holderVars,
          kills, late, unsaved>>

Init ==
  /\ EngineInit
  /\ platform \in {"desktop", "android"}
  /\ process = "down"
  /\ disk = None /\ prefs = None
  /\ made = 0
  /\ identity = [i \in Engine |-> None]
  /\ engine = 0
  /\ starting = FALSE /\ scope = TRUE
  /\ launched = FALSE /\ entered = "no"
  /\ stopping = FALSE
  /\ polled = Never
  /\ kills = 0
  /\ late = Never
  /\ unsaved = {}

\* The application has a new engine of identity k; its events are drained if
\* polls, and its first start is c's, as far as given.
Made(k, polls, c, start) ==
  LET i == made + 1
  IN /\ i \in Engine
     /\ made' = i
     /\ identity' = [identity EXCEPT ![i] = k]
     /\ engine' = i
     /\ polled' = [polled EXCEPT ![i] = polls]
     /\ call' = [call EXCEPT ![i][c] = start]
     /\ UNCHANGED <<running, endpoint, marked, closing, story>>

-----------------------------------------------------------------------------
(* The desktop program *)

\* main: load_or_create_seed_file, whose creation and writing are two steps;
\* a seed that cannot be read gives an identity for this process only.  The
\* set-up task starts the engine at once.
Fresh  == made + 1                              \* mutant
Loaded == IF disk = Broken THEN made + 1 ELSE disk

CreateSeedFile ==
  /\ platform = "desktop" /\ process = "down" /\ disk = None
  /\ process' = "writing"
  /\ disk' = Broken
  /\ UNCHANGED <<engineVars, platform, prefs, made, identity, holderVars,
                 kills, late, unsaved>>

WriteSeed ==
  /\ process = "writing"
  /\ process' = "up"
  /\ disk' = made + 1
  /\ Made(made + 1, TRUE, "start", "wanted")
  /\ UNCHANGED <<platform, prefs, starting, scope, launched, entered, stopping,
                 kills, late, unsaved>>

LoadSeed ==
  /\ platform = "desktop" /\ process = "down" /\ disk # None
  /\ process' = "up"
  /\ Made(Loaded, TRUE, "start", "wanted")
  /\ UNCHANGED <<platform, storeVars, starting, scope, launched, entered,
                 stopping, kills, late, unsaved>>

\* CloseRequested or a signal: graceful_shutdown, and exit when it is done or
\* after 5 s.
Close ==
  /\ platform = "desktop" /\ process = "up" /\ ~stopping
  /\ stopping' = TRUE
  /\ Shutdown(engine)
  /\ UNCHANGED <<endpoint, marked, call, platform, process, storeVars,
                 made, identity, engine, starting, scope, launched, entered,
                 polled, kills, late, unsaved>>

-----------------------------------------------------------------------------
(* The Android process *)

\* SrltcpApplication.onCreate comes first; the preferences are read from disk.
ProcessStarts ==
  /\ platform = "android" /\ process = "down"
  /\ process' = "up"
  /\ prefs' = disk
  /\ UNCHANGED <<engineVars, platform, disk, made, identity, holderVars, kills,
                 late, unsaved>>

KeptScope == scope                              \* mutant
Renewed   == TRUE

\* startInBackground, of the application, the service or awaitEngine.
StartInBackground ==
  /\ platform = "android" /\ process = "up" /\ ~stopping
  /\ engine = 0 /\ ~starting
  /\ starting' = TRUE /\ launched' = TRUE
  /\ scope' = Renewed
  /\ UNCHANGED <<engineVars, platform, process, storeVars, made, identity,
                 engine, entered, stopping, polled, kills, late, unsaved>>

\* The coroutine runs: cancelling the scope no longer reaches it.
EnterCreate ==
  /\ launched /\ entered = "no"
  /\ launched' = FALSE /\ entered' = "yes"
  /\ UNCHANGED <<engineVars, platform, process, storeVars, made, identity,
                 engine, starting, scope, stopping, polled, kills, late, unsaved>>

\* createEngineLocked, in the monitor.  On a cancelled scope neither the
\* polling nor waitUntilReady is ever run.
Restored == IF prefs = None THEN made + 1 ELSE prefs

CreateEngine ==
  /\ entered # "no" /\ ~stopping
  /\ entered' = "no"
  /\ IF engine # 0
     THEN UNCHANGED <<engineVars, made, identity, engine, polled, starting, prefs, late>>
     ELSE /\ Made(Restored, scope, "ready", IF scope THEN "queued" ELSE "idle")
          /\ prefs' = Restored
          /\ starting' = FALSE
          /\ late' = [late EXCEPT ![made + 1] = entered = "overtaken" /\ ~scope]
  /\ UNCHANGED <<platform, process, disk, scope, launched, stopping, kills, unsaved>>

\* apply() reaches the disk.
Flush ==
  /\ platform = "android" /\ process = "up" /\ disk # prefs
  /\ disk' = prefs
  /\ UNCHANGED <<engineVars, platform, process, prefs, made, identity,
                 holderVars, kills, late, unsaved>>

\* stopServiceGracefully: holder.shutdown takes the monitor, shuts the engine
\* down, and forgets it; coroutines that have not begun are cancelled.
StopService ==
  /\ platform = "android" /\ process = "up" /\ ~stopping
  /\ stopping' = TRUE
  /\ IF engine = 0 THEN UNCHANGED <<running, closing, story>>
                   ELSE Shutdown(engine)
  /\ UNCHANGED <<endpoint, marked, call, platform, process, storeVars,
                 made, identity, engine, starting, scope, launched, entered,
                 polled, kills, late, unsaved>>

StopServiceEnds ==
  /\ platform = "android" /\ stopping
  /\ \A i \in Engine : ~closing[i]
  /\ stopping' = FALSE
  /\ engine' = 0 /\ starting' = FALSE
  /\ scope' = FALSE /\ launched' = FALSE
  /\ entered' = IF entered = "no" THEN "no" ELSE "overtaken"
  /\ polled' = Never
  /\ call' = [i \in Engine |-> [c \in Caller |->
                IF call[i][c] = "queued" THEN "idle" ELSE call[i][c]]]
  /\ UNCHANGED <<running, endpoint, marked, closing, story,
                 platform, process, storeVars, made, identity, kills, late,
                 unsaved>>

-----------------------------------------------------------------------------
(* The end of a process: nothing of it is left but what is on the disk. *)

ProcessEnds ==
  /\ process' = "down"
  /\ running' = Never /\ endpoint' = Never /\ marked' = Never /\ closing' = Never
  /\ call' = [i \in Engine |-> [c \in Caller |-> "idle"]]
  /\ engine' = 0 /\ starting' = FALSE /\ scope' = TRUE
  /\ launched' = FALSE /\ entered' = "no" /\ stopping' = FALSE
  /\ polled' = Never
  /\ prefs' = None
  /\ story' = [i \in Engine |-> "good"] /\ late' = Never
  /\ unsaved' = unsaved \cup {i \in 1 .. made : identity[i] # disk}
  /\ UNCHANGED <<platform, disk, made, identity>>

Exit ==
  /\ platform = "desktop" /\ stopping
  /\ ProcessEnds
  /\ UNCHANGED kills

Kill ==
  /\ process # "down"
  /\ kills < MaxKills
  /\ kills' = kills + 1
  /\ ProcessEnds

\* The calls of an engine the application holds, and of those it has let go.
Calls(i) ==
  /\ i <= made /\ process = "up"
  /\ \/ EngineStep(i)
     \/ i = engine /\ (Redials(i) \/ \E c \in Caller : Wants(i, c))
  /\ UNCHANGED <<platform, process, storeVars, made, identity, holderVars,
                 kills, late, unsaved>>

Next ==
  \/ CreateSeedFile \/ WriteSeed \/ LoadSeed \/ Close \/ Exit
  \/ ProcessStarts \/ StartInBackground \/ EnterCreate \/ CreateEngine
  \/ Flush \/ StopService \/ StopServiceEnds \/ Kill
  \/ \E i \in Engine : Calls(i)

Spec == Init /\ [][Next]_vars

-----------------------------------------------------------------------------
(* Properties *)

StoreTypes ==
  /\ platform \in {"desktop", "android"}
  /\ process \in {"down", "up", "writing"}
  /\ disk \in {Broken} \cup 0 .. MaxEngines /\ prefs \in 0 .. MaxEngines
  /\ made \in 0 .. MaxEngines
  /\ identity \in [Engine -> 0 .. MaxEngines]
  /\ kills \in 0 .. MaxKills /\ unsaved \subseteq Engine
HolderTypes ==
  /\ engine \in 0 .. made
  /\ starting \in BOOLEAN /\ scope \in BOOLEAN
  /\ launched \in BOOLEAN /\ stopping \in BOOLEAN
  /\ entered \in {"no", "yes", "overtaken"}
  /\ polled \in [Engine -> BOOLEAN] /\ late \in [Engine -> BOOLEAN]

\* The variables keep their types.
TypeOK == EngineTypes /\ StoreTypes /\ HolderTypes

\* The user keeps one identity (load_or_create_seed_file, createEngineLocked):
\* only that of an engine whose process ended before the seed was on the disk
\* is replaced, and that takes a kill.
IdentityKept ==
  \A i, j \in 1 .. made :
    i < j => identity[i] = identity[j] \/ (i \in unsaved /\ kills > 0)

\* When nothing is on its way, the application's engine is ready and somebody
\* drains its events (SrltcpEngineHolder), and one that has no engine can make
\* one.  The exceptions: a start that gave up, and an engine made on a cancelled
\* scope, by a coroutine that waited for the monitor while the service stopped.
Serves ==
  process = "up" /\ ~stopping /\ ~launched /\ entered = "no" =>
    /\ engine = 0 => ~starting
    /\ engine # 0 /\ AtRest(engine) /\ ~late[engine] =>
         /\ polled[engine]
         /\ IsOnline(engine) \/ story[engine] = "gaveUp"
=============================================================================
