-------------------------- MODULE Lifecycle_proofs --------------------------
(***************************************************************************)
(* Proofs about Lifecycle for any number of engines and of killed          *)
(* processes.                                                              *)
(***************************************************************************)
EXTENDS Lifecycle, TLAPS

-----------------------------------------------------------------------------
(* An engine *)

\* An engine no shutdown overlapped: it has an endpoint just when it runs, but
\* for the moment a shutdown takes; after a shutdown it does not run, and no
\* start is on its way; while it runs and is not marked online, a start is
\* about to do so or gave up.
Resting(i) ==
  story[i] # "overlap" =>
    /\ ~closing[i] => running[i] = endpoint[i]
    /\ closing[i] => story[i] = "stopped"
    /\ story[i] = "stopped" => ~running[i] /\ ~OnItsWay(i)
    /\ running[i] /\ story[i] = "good" =>
         marked[i] \/ \E c \in Caller : call[i][c] = "waiting"

EngineInv ==
  /\ EngineTypes
  /\ made \in 0 .. MaxEngines /\ engine \in 0 .. made
  /\ \A i \in Engine : Resting(i) /\ (i > made => story[i] = "good" /\ ~running[i])

LEMMA RestingKept ==
  ASSUME NEW i, UNCHANGED <<running[i], endpoint[i], marked[i], call[i], closing[i], story[i]>>
  PROVE  Resting(i)' <=> Resting(i)
BY DEF Resting, OnItsWay

\* The steps of one engine.
LEMMA OneEngine ==
  ASSUME EngineInv, NEW i \in Engine, i <= made,
         EngineStep(i) \/ Redials(i) \/ \E c \in Caller : Wants(i, c)
  PROVE  /\ EngineTypes' /\ Resting(i)'
         /\ \A j \in Engine : j # i =>
              UNCHANGED <<running[j], endpoint[j], marked[j], call[j], closing[j], story[j]>>
<1> USE DEF EngineInv, EngineTypes
<1>1. CASE CloseEndpoint(i)
  <2>1. EngineTypes' /\ \A j \in Engine : j # i =>
          UNCHANGED <<running[j], endpoint[j], marked[j], call[j], closing[j], story[j]>>
    BY <1>1 DEF CloseEndpoint, AfterClose
  <2>2. Resting(i)'
    BY <1>1 DEF CloseEndpoint, AfterClose, Resting, OnItsWay
  <2>3. QED  BY <2>1, <2>2
<1>2. ASSUME NEW c \in Caller,
             \/ Begins(i, c) \/ AlreadyRuns(i, c) \/ Bind(i, c) \/ BindFails(i, c)
             \/ MarkOnline(i, c) \/ Deadline(i, c) \/ Wants(i, c) \/ Redials(i)
      PROVE  /\ EngineTypes'
             /\ \A j \in Engine : j # i =>
                  UNCHANGED <<running[j], endpoint[j], marked[j], call[j], closing[j], story[j]>>
  <2>1. \E d \in Caller, to \in {"idle", "wanted", "waiting"} :
          call' = [call EXCEPT ![i] = [call[i] EXCEPT ![d] = to]]
    BY <1>2 DEF Begins, AlreadyRuns, Bind, BindFails, MarkOnline, Deadline, Wants,
                Redials, CallIs, Caller
  <2>2. \/ story' = story
        \/ \E s \in {"good", "gaveUp", "overlap"} : story' = [story EXCEPT ![i] = s]
        \/ story' = [story EXCEPT ![i] = story[i]]
    BY <1>2 DEF Begins, AlreadyRuns, Bind, BindFails, MarkOnline, Deadline, Wants,
                Redials, Starts, AfterStart, Story
  <2>3. /\ running' = running \/ running' = [running EXCEPT ![i] = TRUE]
        /\ endpoint' = endpoint \/ endpoint' = [endpoint EXCEPT ![i] = TRUE]
        /\ marked' = marked \/ marked' = [marked EXCEPT ![i] = TRUE]
        /\ closing' = closing
    BY <1>2 DEF Begins, AlreadyRuns, Bind, BindFails, MarkOnline, Deadline, Wants, Redials
  <2>4. /\ call' \in [Engine -> [Caller -> {"idle", "queued", "wanted", "waiting"}]]
        /\ \A j \in Engine : j # i => call'[j] = call[j]
    BY <2>1
  <2>5. /\ story' \in [Engine -> {"good", "gaveUp", "stopped", "overlap"}]
        /\ \A j \in Engine : j # i => story'[j] = story[j]
    BY <2>2
  <2>6. QED  BY <2>3, <2>4, <2>5
<1>3. ASSUME NEW c \in Caller, Begins(i, c) \/ Wants(i, c)  PROVE Resting(i)'
  <2>1. /\ UNCHANGED <<running, endpoint, marked, closing>>
        /\ running[i] \/ call'[i][c] = "wanted"
        /\ \A d \in Caller : call[i][d] = "waiting" => call'[i][d] = "waiting"
        /\ \A d \in Caller : d # c => call'[i][d] = call[i][d]
        /\ running[i] => call'[i][c] # "wanted"
        /\ story[i] = "stopped" /\ closing[i] => story'[i] = "overlap"
        /\ story[i] = "stopped" /\ ~closing[i] => story'[i] = "good"
        /\ story[i] # "stopped" => story'[i] = story[i]
    BY <1>3 DEF Begins, Wants, CallIs, Starts, Story
  <2>2. QED  BY <2>1 DEF Resting, OnItsWay
<1>4. ASSUME NEW c \in Caller, AlreadyRuns(i, c) \/ Redials(i)  PROVE Resting(i)'
  <2>1. /\ UNCHANGED <<running, endpoint, marked, closing, story>> /\ running[i]
        /\ \A d \in Caller : call[i][d] = "waiting" => call'[i][d] = "waiting"
    BY <1>4 DEF AlreadyRuns, Redials, CallIs, Caller
  <2>2. QED  BY <2>1 DEF Resting, OnItsWay
<1>5. ASSUME NEW c \in Caller, Bind(i, c)  PROVE Resting(i)'
  <2>1. /\ UNCHANGED <<marked, closing, story>> /\ call[i][c] = "wanted"
        /\ running'[i] = TRUE /\ endpoint'[i] = TRUE /\ call'[i][c] = "waiting"
    BY <1>5 DEF Bind, CallIs
  <2>2. story[i] # "stopped"
    BY <2>1 DEF Resting, OnItsWay
  <2>3. QED  BY <2>1, <2>2 DEF Resting
<1>6. ASSUME NEW c \in Caller, BindFails(i, c) \/ MarkOnline(i, c) \/ Deadline(i, c)
      PROVE  Resting(i)'
  <2>1. /\ UNCHANGED <<running, endpoint, closing>>
        /\ \A d \in Caller : call'[i][d] = "wanted" => call[i][d] = "wanted"
        /\ story[i] \in {"stopped", "overlap"} => story'[i] = story[i]
        /\ \/ story'[i] # "good"
           \/ marked'[i]
        /\ story'[i] = "stopped" => story[i] = "stopped"
        /\ story'[i] # "overlap" => story[i] # "overlap"
    BY <1>6 DEF BindFails, MarkOnline, Deadline, CallIs, AfterStart, Story
  <2>2. QED  BY <2>1 DEF Resting, OnItsWay
<1>7. QED
  BY <1>1, <1>2, <1>3, <1>4, <1>5, <1>6 DEF EngineStep, Caller

LEMMA Shut ==
  ASSUME EngineInv, NEW i \in Engine, Shutdown(i), UNCHANGED <<endpoint, marked, call>>
  PROVE  /\ EngineTypes' /\ Resting(i)'
         /\ \A j \in Engine : j # i =>
              UNCHANGED <<running[j], endpoint[j], marked[j], call[j], closing[j], story[j]>>
<1>1. EngineTypes' /\ \A j \in Engine : j # i =>
        UNCHANGED <<running[j], endpoint[j], marked[j], call[j], closing[j], story[j]>>
  BY DEF EngineInv, EngineTypes, Shutdown, Story
<1>2. Resting(i)'
  <2>1. /\ ~running'[i] /\ (closing'[i] <=> closing[i] \/ running[i])
        /\ story'[i] = IF OnItsWay(i) \/ story[i] = "overlap" THEN "overlap" ELSE "stopped"
        /\ endpoint' = endpoint /\ call' = call
    BY DEF EngineInv, EngineTypes, Shutdown, Story
  <2>2. ASSUME story'[i] # "overlap"
        PROVE  /\ story[i] # "overlap" /\ ~OnItsWay(i)' /\ story'[i] = "stopped"
    BY <2>1, <2>2 DEF OnItsWay
  <2>3. running[i] \in BOOLEAN /\ running'[i] \in BOOLEAN /\ endpoint[i] \in BOOLEAN
    BY <1>1 DEF EngineInv, EngineTypes
  <2>4. ASSUME story'[i] # "overlap", ~closing'[i]  PROVE running'[i] = endpoint'[i]
    <3>1. ~closing[i] /\ ~running[i]  BY <2>1, <2>4
    <3>2. running[i] = endpoint[i]  BY <2>2, <2>4, <3>1 DEF EngineInv, Resting
    <3>3. QED  BY <2>1, <2>3, <3>1, <3>2
  <2>5. QED  BY <2>1, <2>2, <2>4 DEF Resting
<1>3. QED  BY <1>1, <1>2

\* A new engine.
LEMMA New ==
  ASSUME EngineInv, NEW k, NEW polls, NEW c \in Caller,
         NEW start \in {"idle", "queued", "wanted"},
         Made(k, polls, c, start)
  PROVE  EngineInv'
<1>1. /\ made + 1 \in Engine /\ made' = made + 1 /\ engine' = made + 1
      /\ call' = [call EXCEPT ![made + 1][c] = start]
      /\ UNCHANGED <<running, endpoint, marked, closing, story>>
  BY DEF Made
<1>2. EngineTypes' /\ \A j \in Engine : j # made + 1 => call'[j] = call[j]
  BY <1>1 DEF EngineInv, EngineTypes, Caller
<1>3. made' \in 0 .. MaxEngines /\ engine' \in 0 .. made'
  BY <1>1, MaxEnginesAssumption DEF EngineInv, Engine
<1>4. ASSUME NEW i \in Engine
      PROVE  Resting(i)' /\ (i > made' => story'[i] = "good" /\ ~running'[i])
  <2>1. i > made' => i > made
    BY <1>1 DEF EngineInv, Engine
  <2>2. CASE i = made + 1
    <3>1. story[i] = "good" /\ ~running[i]
      BY <2>2 DEF EngineInv, Engine
    <3>2. QED  BY <1>1, <2>1, <2>2, <3>1 DEF EngineInv, Resting, OnItsWay
  <2>3. CASE i # made + 1
    <3>1. Resting(i)' <=> Resting(i)
      BY <1>1, <1>2, <2>3, RestingKept
    <3>2. QED  BY <1>1, <2>1, <3>1 DEF EngineInv
  <2>4. QED  BY <2>2, <2>3
<1>5. QED  BY <1>2, <1>3, <1>4 DEF EngineInv

\* The end of a process, and of the service.
LEMMA AllGone == ASSUME EngineInv, ProcessEnds  PROVE EngineInv'
<1>1. EngineTypes'
  BY DEF ProcessEnds, EngineTypes, Never
<1>2. \A i \in Engine : Resting(i)' /\ story'[i] = "good" /\ ~running'[i]
  BY DEF ProcessEnds, Resting, Never
<1>3. made' = made /\ engine' = 0
  BY DEF ProcessEnds
<1>4. QED  BY <1>1, <1>2, <1>3 DEF EngineInv

LEMMA EngineStepInv ==
  ASSUME EngineInv, [Next]_vars
  PROVE  EngineInv'
<1> USE DEF engineVars, holderVars, storeVars
<1>c. "start" \in Caller /\ "ready" \in Caller  BY DEF Caller
<1>1. ASSUME UNCHANGED engineVars, UNCHANGED made, engine' = engine
      PROVE  EngineInv'
  <2>1. \A i \in Engine : Resting(i)' <=> Resting(i)
    BY <1>1, RestingKept
  <2>2. QED  BY <1>1, <2>1 DEF EngineInv, EngineTypes
<1>2. CASE CreateSeedFile \/ ProcessStarts \/ StartInBackground \/ EnterCreate \/ Flush
  BY <1>1, <1>2 DEF CreateSeedFile, ProcessStarts, StartInBackground, EnterCreate, Flush
<1>3. CASE WriteSeed  BY <1>3, <1>c, New DEF WriteSeed
<1>4. CASE LoadSeed  BY <1>4, <1>c, New DEF LoadSeed
<1>5. CASE CreateEngine
  <2>1. CASE engine # 0  BY <1>1, <1>5, <2>1 DEF CreateEngine
  <2>2. CASE engine = 0
    <3>1. Made(Restored, scope, "ready", IF scope THEN "queued" ELSE "idle")
      BY <1>5, <2>2 DEF CreateEngine
    <3>2. (IF scope THEN "queued" ELSE "idle") \in {"idle", "queued", "wanted"}
      OBVIOUS
    <3>3. QED  BY <1>c, <3>1, <3>2, New
  <2>3. QED  BY <2>1, <2>2
<1>6. ASSUME engine # 0, Shutdown(engine), UNCHANGED <<endpoint, marked, call, made, engine>>
      PROVE  EngineInv'
  <2>1. engine \in Engine
    BY <1>6, MaxEnginesAssumption DEF EngineInv, Engine
  <2>2. PICK e \in Engine : e = engine
    BY <2>1
  <2>3. /\ EngineTypes' /\ Resting(e)'
        /\ \A j \in Engine : j # e =>
             UNCHANGED <<running[j], endpoint[j], marked[j], call[j], closing[j], story[j]>>
    BY <1>6, <2>2, Shut
  <2>4. \A j \in Engine : j > made => j # e
    BY <2>2 DEF EngineInv, Engine
  <2>5. \A j \in Engine : Resting(j)'
    BY <2>3, RestingKept DEF EngineInv
  <2>6. QED  BY <1>6, <2>3, <2>4, <2>5 DEF EngineInv
<1>7. CASE Close
  <2>1. CASE engine # 0  BY <1>6, <1>7, <2>1 DEF Close
  <2>2. CASE engine = 0
    <3>1. engine \notin Engine  BY <2>2 DEF Engine
    <3>2. UNCHANGED engineVars
      BY <1>7, <3>1 DEF Close, Shutdown, Story, EngineInv, EngineTypes
    <3>3. QED  BY <1>1, <1>7, <3>2 DEF Close
  <2>3. QED  BY <2>1, <2>2
<1>8. CASE StopService
  <2>1. CASE engine # 0  BY <1>6, <1>8, <2>1 DEF StopService
  <2>2. CASE engine = 0  BY <1>1, <1>8, <2>2 DEF StopService
  <2>3. QED  BY <2>1, <2>2
<1>9. CASE StopServiceEnds
  <2>1. /\ call' = [i \in Engine |-> [c \in Caller |->
                      IF call[i][c] = "queued" THEN "idle" ELSE call[i][c]]]
        /\ UNCHANGED <<running, endpoint, marked, closing, story, made>> /\ engine' = 0
    BY <1>9 DEF StopServiceEnds
  <2>2. EngineTypes'
    BY <2>1 DEF EngineInv, EngineTypes
  <2>3. ASSUME NEW i \in Engine  PROVE Resting(i)'
    <3>1. \A c \in Caller : /\ call'[i][c] = "wanted" <=> call[i][c] = "wanted"
                            /\ call'[i][c] = "waiting" <=> call[i][c] = "waiting"
      BY <2>1
    <3>2. QED  BY <2>1, <3>1 DEF EngineInv, Resting, OnItsWay
  <2>4. QED  BY <2>1, <2>2, <2>3 DEF EngineInv
<1>10. CASE Exit \/ Kill  BY <1>10, AllGone DEF Exit, Kill
<1>11. ASSUME NEW i \in Engine, Calls(i)  PROVE EngineInv'
  <2>1. i <= made /\ (EngineStep(i) \/ Redials(i) \/ \E c \in Caller : Wants(i, c)) /\ UNCHANGED <<made, engine>>
    BY <1>11 DEF Calls
  <2>2. /\ EngineTypes' /\ Resting(i)'
        /\ \A j \in Engine : j # i =>
             UNCHANGED <<running[j], endpoint[j], marked[j], call[j], closing[j], story[j]>>
    BY <2>1, OneEngine
  <2>3. \A j \in Engine : j > made => j # i
    BY <2>1 DEF EngineInv, Engine
  <2>4. \A j \in Engine : Resting(j)'
    BY <2>2, RestingKept DEF EngineInv
  <2>5. QED  BY <2>1, <2>2, <2>3, <2>4 DEF EngineInv
<1>12. CASE UNCHANGED vars  BY <1>1, <1>12 DEF vars
<1>13. QED
  BY <1>2, <1>3, <1>4, <1>5, <1>7, <1>8, <1>9, <1>10, <1>11, <1>12 DEF Next

LEMMA EngineInvInit == Init => EngineInv
BY MaxEnginesAssumption
DEF Init, EngineInit, EngineInv, EngineTypes, Resting, OnItsWay, Never

\* An engine at rest has an endpoint just when it runs, is ready then, and
\* does not run after a shutdown (start, wait_until_ready, shutdown).
THEOREM EngineCorrect == Spec => []EngineAtRest
<1>1. EngineInv => EngineAtRest
  <2> SUFFICES ASSUME EngineInv, NEW i \in Engine, AtRest(i), story[i] # "overlap"
               PROVE  /\ running[i] = endpoint[i]
                      /\ running[i] => story[i] = "gaveUp" \/ (story[i] = "good" /\ IsOnline(i))
                      /\ ~running[i] => ~IsOnline(i)
    BY DEF EngineAtRest
  <2>1. ~closing[i] /\ \A c \in Caller : call[i][c] # "waiting"
    BY DEF AtRest
  <2>2. Resting(i) /\ story[i] \in {"good", "gaveUp", "stopped", "overlap"}
    BY DEF EngineInv, EngineTypes
  <2>3. /\ running[i] = endpoint[i]
        /\ story[i] # "stopped" \/ ~running[i]
        /\ (running[i] /\ story[i] = "good" => marked[i])
    BY <2>1, <2>2 DEF Resting
  <2>4. running[i] \in BOOLEAN /\ endpoint[i] \in BOOLEAN
    BY DEF EngineInv, EngineTypes
  <2>5. endpoint[i] <=> running[i]
    BY <2>3, <2>4
  <2>6. running[i] => story[i] = "gaveUp" \/ (story[i] = "good" /\ IsOnline(i))
    BY <2>2, <2>3, <2>5 DEF IsOnline
  <2>7. ~running[i] => ~IsOnline(i)
    BY <2>5 DEF IsOnline
  <2>8. QED  BY <2>3, <2>6, <2>7, Zenon
<1>2. EngineInv /\ [Next]_vars => EngineInv'  BY EngineStepInv
<1>3. QED  BY EngineInvInit, <1>1, <1>2, PTL DEF Spec

-----------------------------------------------------------------------------
(* The application: its store, its engine and its coroutines *)

\* What the next process, or the next engine of this one, takes its seed from.
Store == IF platform = "android" /\ process = "up" THEN prefs ELSE disk

\* An engine whose seed a kill kept from the disk.
Excused(i) == i \in unsaved /\ kills > 0

\* The seeds of all engines but those are the store's, except that a desktop
\* program whose seed file is broken runs with an identity of its own.
SeedKept ==
  /\ unsaved \subseteq 1 .. made
  /\ platform = "desktop" => prefs = None
  /\ process = "writing" => platform = "desktop" /\ disk = Broken
  /\ disk = Broken => platform = "desktop" /\ (process = "writing" \/ kills > 0)
  /\ \A i \in 1 .. made :
       /\ identity[i] # None
       /\ \/ identity[i] = Store
          \/ Excused(i)
          \/ i = made /\ process = "up" /\ disk = Broken

\* Its coroutines: while an engine is to be made a coroutine is to make it; a
\* coroutine the stop of the service did not overtake has a scope that is not
\* cancelled; the engine is polled unless it is late.
Holding ==
  /\ process # "up" => /\ engine = 0 /\ ~starting /\ ~launched /\ ~stopping
                       /\ entered = "no"
  /\ launched \/ entered # "no" => platform = "android"
  /\ starting /\ engine = 0 => launched \/ entered # "no"
  /\ launched \/ entered = "yes" => scope
  /\ engine # 0 => polled[engine] \/ late[engine]

\* The engine of an application that is not being stopped: a start that waits
\* has set running, and if it does not run a start is on its way or gave up.
Started ==
  /\ \A i \in Engine, c \in Caller : i > made => call[i][c] = "idle"
  /\ engine # 0 /\ ~stopping =>
       /\ story[engine] \in {"good", "gaveUp"}
       /\ \A c \in Caller : call[engine][c] = "waiting" => running[engine]
       /\ story[engine] = "good" /\ ~running[engine] /\ ~late[engine] =>
            \E c \in Caller : call[engine][c] \in {"queued", "wanted"}

AppInv ==
  EngineInv /\ StoreTypes /\ HolderTypes /\ SeedKept /\ Holding /\ Started

LEMMA MadeFacts ==
  ASSUME AppInv, NEW k \in 0 .. MaxEngines, NEW polls \in BOOLEAN, NEW c, NEW start,
         Made(k, polls, c, start)
  PROVE  /\ made + 1 \in Engine /\ made' = made + 1 /\ engine' = made + 1
         /\ made' \in 0 .. MaxEngines /\ engine' \in 0 .. made' /\ engine' # 0
         /\ identity' \in [Engine -> 0 .. MaxEngines]
         /\ \A i \in 1 .. made : i \in Engine /\ identity'[i] = identity[i]
         /\ identity'[made + 1] = k
         /\ polled' \in [Engine -> BOOLEAN] /\ polled'[made + 1] = polls
BY MaxEnginesAssumption DEF AppInv, StoreTypes, HolderTypes, Made, Engine

LEMMA MadeSeed ==
  ASSUME AppInv, NEW k, NEW polls, NEW c, NEW start, Made(k, polls, c, start)
  PROVE  made + 1 \in 1 .. MaxEngines
BY DEF Made, Engine

LEMMA EndsTypes ==
  ASSUME AppInv, ProcessEnds, kills' \in 0 .. MaxKills
  PROVE  StoreTypes' /\ HolderTypes'
<1>1. 1 .. made \subseteq Engine
  BY MaxEnginesAssumption DEF AppInv, StoreTypes, Engine
<1>2. unsaved' \subseteq Engine
  BY <1>1 DEF AppInv, StoreTypes, ProcessEnds
<1>3. engine' \in 0 .. made'
  BY DEF AppInv, StoreTypes, ProcessEnds
<1>4. StoreTypes'
  BY <1>2, MaxEnginesAssumption DEF AppInv, StoreTypes, ProcessEnds, None
<1>5. polled' \in [Engine -> BOOLEAN] /\ late' \in [Engine -> BOOLEAN]
  BY DEF ProcessEnds, Never
<1>6. HolderTypes'
  BY <1>3, <1>5 DEF HolderTypes, ProcessEnds
<1>7. QED  BY <1>4, <1>6

LEMMA TypesStep ==
  ASSUME AppInv, [Next]_vars
  PROVE  StoreTypes' /\ HolderTypes'
<1> USE MaxEnginesAssumption, MaxKillsAssumption
    DEF AppInv, StoreTypes, HolderTypes, engineVars, holderVars, storeVars, Broken, None
<1>1. CASE CreateSeedFile  BY <1>1 DEF CreateSeedFile
<1>2. CASE WriteSeed
  <2>1. made + 1 \in 1 .. MaxEngines  BY <1>2, MadeSeed DEF WriteSeed
  <2>2. /\ made' \in 0 .. MaxEngines /\ engine' \in 0 .. made'
        /\ identity' \in [Engine -> 0 .. MaxEngines] /\ polled' \in [Engine -> BOOLEAN]
    <3>1. Made(made + 1, TRUE, "start", "wanted")  BY <1>2 DEF WriteSeed
    <3>2. made + 1 \in 0 .. MaxEngines  BY <2>1
    <3>3. QED  BY <3>1, <3>2, MadeFacts
  <2>3. QED  BY <1>2, <2>1, <2>2 DEF WriteSeed
<1>3. CASE LoadSeed
  <2>1. made + 1 \in 1 .. MaxEngines  BY <1>3, MadeSeed DEF LoadSeed
  <2>2. Loaded \in 0 .. MaxEngines  BY <2>1 DEF Loaded
  <2>3. QED  BY <1>3, <2>2, MadeFacts DEF LoadSeed
<1>4. CASE Close  BY <1>4 DEF Close
<1>5. CASE Exit  BY <1>5, EndsTypes DEF Exit
<1>6. CASE ProcessStarts
  <2>1. disk \in 0 .. MaxEngines  BY <1>6 DEF ProcessStarts, SeedKept
  <2>2. QED  BY <1>6, <2>1 DEF ProcessStarts
<1>7. CASE StartInBackground  BY <1>7 DEF StartInBackground, Renewed
<1>8. CASE EnterCreate  BY <1>8 DEF EnterCreate
<1>9. CASE CreateEngine
  <2>1. CASE engine # 0  BY <1>9, <2>1 DEF CreateEngine
  <2>2. CASE engine = 0
    <3>1. Made(Restored, scope, "ready", IF scope THEN "queued" ELSE "idle")
      BY <1>9, <2>2 DEF CreateEngine
    <3>2. Restored \in 0 .. MaxEngines  BY <3>1, MadeSeed DEF Restored
    <3>3. late' \in [Engine -> BOOLEAN]  BY <1>9, <2>2 DEF CreateEngine
    <3>4. QED  BY <1>9, <2>2, <3>1, <3>2, <3>3, MadeFacts DEF CreateEngine
  <2>3. QED  BY <2>1, <2>2
<1>10. CASE Flush  BY <1>10 DEF Flush
<1>11. CASE StopService
  <2>1. /\ stopping' = TRUE
        /\ UNCHANGED <<platform, process, storeVars, made, identity, engine, starting,
                       scope, launched, entered, polled, kills, late, unsaved>>
    BY <1>11 DEF StopService
  <2>2. StoreTypes'  BY <2>1
  <2>3. HolderTypes'  BY <2>1
  <2>4. QED  BY <2>2, <2>3
<1>12. CASE StopServiceEnds
  <2>1. /\ engine' = 0 /\ starting' = FALSE /\ scope' = FALSE /\ launched' = FALSE
        /\ stopping' = FALSE /\ polled' = Never
        /\ entered' \in {"no", "overtaken"}
        /\ UNCHANGED <<platform, process, storeVars, made, identity, kills, late, unsaved>>
    BY <1>12 DEF StopServiceEnds
  <2>2. polled' \in [Engine -> BOOLEAN]
    BY <2>1 DEF Never
  <2>3. StoreTypes'  BY <2>1
  <2>4. engine' \in 0 .. made'  BY <2>1
  <2>5. HolderTypes'  BY <2>1, <2>2, <2>4
  <2>6. QED  BY <2>3, <2>5
<1>13. CASE Kill  BY <1>13, EndsTypes DEF Kill
<1>14. ASSUME NEW i \in Engine, Calls(i)  PROVE StoreTypes' /\ HolderTypes'
  BY <1>14 DEF Calls
<1>15. CASE UNCHANGED vars  BY <1>15 DEF vars
<1>16. QED
  BY <1>1, <1>2, <1>3, <1>4, <1>5, <1>6, <1>7, <1>8, <1>9, <1>10, <1>11, <1>12,
     <1>13, <1>14, <1>15 DEF Next

LEMMA SeedStep ==
  ASSUME AppInv, [Next]_vars
  PROVE  SeedKept'
<1> USE DEF engineVars, holderVars, storeVars
<1>t. /\ made \in Nat /\ kills \in Nat /\ MaxEngines \in Nat
      /\ \A i \in 1 .. made : i \in Engine /\ identity[i] \in 0 .. MaxEngines
      /\ prefs \in 0 .. MaxEngines
  BY MaxEnginesAssumption, MaxKillsAssumption DEF AppInv, StoreTypes, Engine
<1>0. ASSUME UNCHANGED <<platform, disk, prefs, process, made, identity, kills, unsaved>>
      PROVE  SeedKept'
  BY <1>0 DEF AppInv, SeedKept, Store, Excused
<1>1. CASE CreateSeedFile
  <2>1. \A i \in 1 .. made : Excused(i)
    BY <1>1 DEF CreateSeedFile, AppInv, SeedKept, Store, Broken, None
  <2>2. QED  BY <1>1, <2>1 DEF CreateSeedFile, AppInv, SeedKept, Store, Excused, Broken, None
<1>2. CASE WriteSeed \/ LoadSeed
  <2> DEFINE k == IF WriteSeed THEN made + 1 ELSE Loaded
  <2>1. PICK seed \in 1 .. MaxEngines :
          /\ Made(seed, TRUE, "start", "wanted") /\ platform = "desktop" /\ process # "up"
          /\ process' = "up" /\ UNCHANGED <<platform, prefs, kills, unsaved>>
          /\ \/ process = "writing" /\ disk' = seed
             \/ process = "down" /\ disk' = disk /\ (disk = Broken \/ disk = seed)
    <3>1. CASE WriteSeed
      <4>1. made + 1 \in 1 .. MaxEngines  BY <3>1, MadeSeed DEF WriteSeed
      <4>2. QED  BY <3>1, <4>1 DEF WriteSeed, AppInv, SeedKept
    <3>2. CASE LoadSeed
      <4>1. made + 1 \in 1 .. MaxEngines  BY <3>2, MadeSeed DEF LoadSeed
      <4>2. Loaded \in 1 .. MaxEngines /\ (disk = Broken \/ disk = Loaded)
        BY <3>2, <4>1 DEF LoadSeed, Loaded, AppInv, StoreTypes, Broken, None
      <4>3. QED  BY <3>2, <4>2 DEF LoadSeed
    <3>3. QED  BY <1>2, <3>1, <3>2
  <2>2. /\ made' = made + 1 /\ \A i \in 1 .. made : identity'[i] = identity[i]
        /\ identity'[made + 1] = seed
    <3>1. seed \in 0 .. MaxEngines  BY <2>1
    <3>2. QED  BY <2>1, <3>1, MadeFacts
  <2>3. ASSUME NEW i \in 1 .. made  PROVE identity[i] # None /\ (identity[i] = disk' \/ Excused(i))
    <3>1. identity[i] # None /\ (identity[i] = disk \/ Excused(i))
      BY <2>1 DEF AppInv, SeedKept, Store
    <3>2. disk = Broken => Excused(i)
      BY <3>1, <1>t DEF Broken
    <3>3. QED  BY <2>1, <3>1, <3>2 DEF AppInv, SeedKept
  <2>4. disk' = Broken => kills > 0
    BY <2>1 DEF AppInv, SeedKept, Broken
  <2>5. disk' = Broken \/ disk' = seed
    BY <2>1
  <2>6. \A i \in 1 .. made' : i \in 1 .. made \/ i = made'
    BY <2>2, <1>t
  <2>7. seed # None
    BY <2>1 DEF None
  <2>8. unsaved' \subseteq 1 .. made'
    BY <2>1, <2>2, <1>t DEF AppInv, SeedKept
  <2>9. \A i \in 1 .. made' : identity'[i] # None /\ (identity'[i] = Store' \/ Excused(i)'
                               \/ (i = made' /\ process' = "up" /\ disk' = Broken))
    BY <2>1, <2>2, <2>3, <2>5, <2>6, <2>7 DEF Store, Excused
  <2>10. QED
    BY <2>1, <2>4, <2>8, <2>9 DEF AppInv, SeedKept
<1>3. CASE ProcessStarts
  BY <1>3 DEF ProcessStarts, AppInv, SeedKept, Store, Excused
<1>4. CASE CreateEngine
  <2>1. CASE engine # 0  BY <1>0, <1>4, <2>1 DEF CreateEngine
  <2>2. CASE engine = 0
    <3>1. /\ Made(Restored, scope, "ready", IF scope THEN "queued" ELSE "idle") /\ prefs' = Restored
          /\ platform = "android" /\ process = "up"
          /\ UNCHANGED <<platform, process, disk, kills, unsaved>>
      BY <1>4, <2>2 DEF CreateEngine, AppInv, Holding
    <3>2. Restored \in 1 .. MaxEngines /\ (prefs # None => Restored = prefs)
      BY <3>1, <1>t, MadeSeed DEF Restored, None
    <3>3. /\ made' = made + 1 /\ \A i \in 1 .. made : identity'[i] = identity[i]
          /\ identity'[made + 1] = Restored
      BY <3>1, <3>2, <1>t, MadeFacts DEF AppInv, HolderTypes
    <3>4. ASSUME NEW i \in 1 .. made
          PROVE  identity[i] # None /\ (identity[i] = Restored \/ Excused(i))
      BY <3>1, <3>2 DEF AppInv, SeedKept, Store
    <3>5. \A i \in 1 .. made' : i \in 1 .. made \/ i = made'
      BY <3>3, <1>t
    <3>6. unsaved' \subseteq 1 .. made'
      BY <3>1, <3>3, <1>t DEF AppInv, SeedKept
    <3>7. \A i \in 1 .. made' : identity'[i] # None /\ (identity'[i] = Store' \/ Excused(i)')
      BY <3>1, <3>2, <3>3, <3>4, <3>5 DEF Store, Excused, None
    <3>8. QED
      BY <3>1, <3>6, <3>7 DEF AppInv, SeedKept
  <2>3. QED  BY <2>1, <2>2
<1>5. CASE Flush
  BY <1>5, <1>t DEF Flush, AppInv, SeedKept, Store, Excused, Broken
<1>6. ASSUME ProcessEnds, kills' \in Nat, kills' >= kills,
             kills' > 0 \/ (process = "up" /\ platform = "desktop")
      PROVE  SeedKept'
  <2>0. disk = Broken => platform = "desktop" /\ kills' > 0
    <3>1. disk = Broken /\ ~(kills' > 0) => kills > 0
      BY <1>6 DEF AppInv, SeedKept
    <3>2. QED  BY <1>6, <1>t, <3>1 DEF AppInv, SeedKept
  <2>1. /\ disk = Broken => platform = "desktop" /\ kills' > 0
        /\ process' = "down" /\ prefs' = None /\ Store' = disk
        /\ UNCHANGED <<platform, disk, made, identity>>
        /\ unsaved' = unsaved \cup {i \in 1 .. made : identity[i] # disk}
    BY <1>6, <2>0 DEF ProcessEnds, Store
  <2>2. ASSUME NEW i \in 1 .. made
        PROVE  identity[i] # None /\ (identity[i] = disk \/ Excused(i)')
    <3>1. CASE kills' > 0
      BY <2>1, <3>1 DEF Excused, AppInv, SeedKept
    <3>2. CASE process = "up" /\ platform = "desktop"
      <4>1. disk = Broken => kills' > 0
        BY <2>1
      <4>2. QED  BY <1>6, <1>t, <2>1, <3>2, <4>1 DEF Excused, AppInv, SeedKept, Store
    <3>3. QED  BY <1>6, <3>1, <3>2
  <2>3. unsaved' \subseteq 1 .. made'
    BY <2>1 DEF AppInv, SeedKept
  <2>4. QED  BY <2>1, <2>2, <2>3 DEF SeedKept
<1>7. CASE Exit
  BY <1>6, <1>7, <1>t DEF Exit, AppInv, Holding
<1>8. CASE Kill
  BY <1>6, <1>8, <1>t DEF Kill
<1>9. CASE Close \/ StartInBackground \/ EnterCreate \/ StopService \/ StopServiceEnds
  BY <1>0, <1>9 DEF Close, StartInBackground, EnterCreate, StopService, StopServiceEnds
<1>10. ASSUME NEW i \in Engine, Calls(i)  PROVE SeedKept'
  BY <1>0, <1>10 DEF Calls
<1>11. CASE UNCHANGED vars  BY <1>0, <1>11 DEF vars
<1>12. QED
  BY <1>1, <1>2, <1>3, <1>4, <1>5, <1>7, <1>8, <1>9, <1>10, <1>11 DEF Next

LEMMA HoldingStep ==
  ASSUME AppInv, [Next]_vars
  PROVE  Holding'
<1> USE DEF engineVars, holderVars, storeVars
<1>0. ASSUME UNCHANGED <<platform, process, engine, starting, scope, launched, entered,
                         stopping, polled, late>>
      PROVE  Holding'
  BY <1>0 DEF AppInv, Holding
<1>1. CASE CreateSeedFile \/ ProcessStarts
  BY <1>1 DEF CreateSeedFile, ProcessStarts, AppInv, Holding, SeedKept
<1>2. CASE WriteSeed \/ LoadSeed
  <2>1. PICK seed \in 0 .. MaxEngines :
          /\ Made(seed, TRUE, "start", "wanted") /\ process # "up" /\ process' = "up"
          /\ UNCHANGED <<platform, starting, scope, launched, entered, stopping, late>>
    <3>1. CASE WriteSeed
      <4>1. made + 1 \in 1 .. MaxEngines  BY <3>1, MadeSeed DEF WriteSeed
      <4>2. made + 1 \in 0 .. MaxEngines  BY <4>1
      <4>3. process # "up" /\ process' = "up" /\ Made(made + 1, TRUE, "start", "wanted")
        BY <3>1 DEF WriteSeed
      <4>4. UNCHANGED <<platform, starting, scope, launched, entered, stopping, late>>
        BY <3>1 DEF WriteSeed
      <4>5. QED  BY <4>2, <4>3, <4>4
    <3>2. CASE LoadSeed
      <4>1. made + 1 \in 1 .. MaxEngines  BY <3>2, MadeSeed DEF LoadSeed
      <4>2. Loaded \in 0 .. MaxEngines
        BY <4>1 DEF Loaded, AppInv, StoreTypes, Broken
      <4>3. QED  BY <3>2, <4>2 DEF LoadSeed
    <3>3. QED  BY <1>2, <3>1, <3>2
  <2>2. engine' = made + 1 /\ polled'[made + 1] = TRUE
    BY <2>1, MadeFacts
  <2>3. QED  BY <2>1, <2>2 DEF AppInv, Holding
<1>3. CASE StartInBackground \/ EnterCreate
  BY <1>3 DEF StartInBackground, Renewed, EnterCreate, AppInv, Holding
<1>4. CASE CreateEngine
  <2>1. CASE engine # 0  BY <1>4, <2>1 DEF CreateEngine, AppInv, Holding
  <2>2. CASE engine = 0
    <3>1. /\ Made(Restored, scope, "ready", IF scope THEN "queued" ELSE "idle")
          /\ entered # "no" /\ entered' = "no" /\ starting' = FALSE
          /\ late' = [late EXCEPT ![made + 1] = entered = "overtaken" /\ ~scope]
          /\ UNCHANGED <<platform, process, scope, launched, stopping>>
      BY <1>4, <2>2 DEF CreateEngine
    <3>2. Restored \in 0 .. MaxEngines
      BY <3>1, MadeSeed DEF Restored, AppInv, StoreTypes
    <3>3. /\ made + 1 \in Engine /\ engine' = made + 1
          /\ polled'[made + 1] = scope
      BY <3>1, <3>2, MadeFacts DEF AppInv, HolderTypes
    <3>4. process = "up" /\ (scope \/ entered = "overtaken")
      BY <3>1 DEF AppInv, Holding, HolderTypes
    <3>5. polled'[engine'] \/ late'[engine']
      BY <3>1, <3>3, <3>4 DEF AppInv, HolderTypes
    <3>6. QED  BY <3>1, <3>3, <3>4, <3>5 DEF AppInv, Holding
  <2>3. QED  BY <2>1, <2>2
<1>5. CASE Close \/ StopService
  BY <1>5 DEF Close, StopService, AppInv, Holding
<1>6. CASE StopServiceEnds
  BY <1>6 DEF StopServiceEnds, AppInv, Holding
<1>7. CASE Exit \/ Kill
  BY <1>7 DEF Exit, Kill, ProcessEnds, Holding
<1>8. CASE Flush  BY <1>0, <1>8 DEF Flush
<1>9. ASSUME NEW i \in Engine, Calls(i)  PROVE Holding'
  BY <1>0, <1>9 DEF Calls
<1>10. CASE UNCHANGED vars  BY <1>0, <1>10 DEF vars
<1>11. QED
  BY <1>1, <1>2, <1>3, <1>4, <1>5, <1>6, <1>7, <1>8, <1>9, <1>10 DEF Next

\* A step of one of the engines.
LEMMA CallsStarted ==
  ASSUME AppInv, NEW i \in Engine, Calls(i)
  PROVE  Started'
<1> USE DEF engineVars, holderVars, storeVars
<1>1. /\ i <= made /\ UNCHANGED <<made, engine, stopping, late>>
      /\ EngineStep(i) \/ Redials(i) \/ \E c \in Caller : Wants(i, c)
  BY DEF Calls
<1>2. /\ EngineTypes'
      /\ \A j \in Engine : j # i => UNCHANGED <<running[j], call[j], story[j]>>
  BY <1>1, OneEngine DEF AppInv
<1>3. ASSUME NEW j \in Engine, j > made  PROVE j # i
  BY <1>1, <1>3 DEF AppInv, StoreTypes, Engine
<1>4. \A j \in Engine, c \in Caller : j > made' => call'[j][c] = "idle"
  BY <1>1, <1>2, <1>3 DEF AppInv, Started
<1>5. CASE engine # i
  <2>1. engine # 0 => engine \in Engine
    BY MaxEnginesAssumption DEF AppInv, StoreTypes, HolderTypes, Engine
  <2>2. QED  BY <1>1, <1>2, <1>4, <1>5, <2>1 DEF AppInv, Started
<1>6. CASE engine = i /\ ~stopping
  <2>0. /\ story[i] \in {"good", "gaveUp"} /\ engine # 0
        /\ \A c \in Caller : call[i][c] = "waiting" => running[i]
        /\ story[i] = "good" /\ ~running[i] /\ ~late[i] =>
             \E c \in Caller : call[i][c] \in {"queued", "wanted"}
    BY <1>6 DEF AppInv, Started, Engine
  <2> DEFINE Good == /\ story'[i] \in {"good", "gaveUp"}
                     /\ \A c \in Caller : call'[i][c] = "waiting" => running'[i]
                     /\ story'[i] = "good" /\ ~running'[i] /\ ~late'[i] =>
                          \E c \in Caller : call'[i][c] \in {"queued", "wanted"}
  <2>1. ASSUME CloseEndpoint(i)  PROVE Good
    BY <1>1, <2>0, <2>1 DEF CloseEndpoint
  <2>2. ASSUME NEW c \in Caller, Begins(i, c) \/ Wants(i, c)  PROVE Good
    <3>1. /\ UNCHANGED running /\ story'[i] = story[i]
          /\ \A d \in Caller : d # c => call'[i][d] = call[i][d]
          /\ call'[i][c] = "wanted" \/ (call'[i][c] = "idle" /\ running[i])
      BY <2>0, <2>2 DEF Begins, Wants, CallIs, Starts, Story, AppInv, EngineInv, EngineTypes
    <3>2. QED  BY <1>1, <2>0, <3>1
  <2>3. ASSUME NEW c \in Caller, AlreadyRuns(i, c) \/ Redials(i) \/ Bind(i, c)  PROVE Good
    <3>1. story' = story /\ running'[i] = TRUE
      BY <2>3 DEF AlreadyRuns, Redials, Bind, AppInv, EngineInv, EngineTypes
    <3>2. QED  BY <2>0, <3>1
  <2>4. ASSUME NEW c \in Caller, BindFails(i, c)  PROVE Good
    <3>1. /\ UNCHANGED running /\ story'[i] = "gaveUp"
          /\ \A d \in Caller : call'[i][d] = "waiting" => call[i][d] = "waiting"
      BY <2>0, <2>4 DEF BindFails, CallIs, AfterStart, Story, AppInv, EngineInv, EngineTypes
    <3>2. QED  BY <2>0, <3>1
  <2>5. ASSUME NEW c \in Caller, MarkOnline(i, c) \/ Deadline(i, c)  PROVE Good
    <3>1. /\ UNCHANGED running /\ story'[i] \in {"good", "gaveUp"} /\ call[i][c] = "waiting"
      BY <2>0, <2>5 DEF MarkOnline, Deadline, CallIs, AfterStart, Story, AppInv,
                        EngineInv, EngineTypes
    <3>2. QED  BY <2>0, <3>1
  <2>6. Good
    BY <1>1, <2>1, <2>2, <2>3, <2>4, <2>5 DEF EngineStep, Caller
  <2>7. QED  BY <1>1, <1>4, <1>6, <2>6 DEF Started
<1>7. CASE stopping
  BY <1>1, <1>4, <1>7 DEF Started
<1>8. QED  BY <1>5, <1>6, <1>7

\* A new engine: it has not begun, and a start is on its way unless it is late.
LEMMA MadeStarted ==
  ASSUME AppInv, NEW k \in 0 .. MaxEngines, NEW polls \in BOOLEAN,
         NEW c \in Caller, NEW start \in {"idle", "queued", "wanted"}, Made(k, polls, c, start),
         start # "idle" \/ late'[made + 1]
  PROVE  Started'
<1>1. /\ made + 1 \in Engine /\ made' = made + 1 /\ engine' = made + 1
  BY MadeFacts
<1>2. /\ call' = [call EXCEPT ![made + 1][c] = start] /\ UNCHANGED <<running, story>>
  BY DEF Made
<1>3. made + 1 > made /\ \A j \in Engine : j > made' => j > made /\ j # made + 1
  BY <1>1 DEF AppInv, StoreTypes, Engine
<1>4. story[made + 1] = "good" /\ \A d \in Caller : call[made + 1][d] = "idle"
  BY <1>1, <1>3 DEF AppInv, EngineInv, Started
<1>5. /\ \A j \in Engine : j # made + 1 => call'[j] = call[j]
      /\ call'[made + 1][c] = start
      /\ \A d \in Caller : d # c => call'[made + 1][d] = call[made + 1][d]
  BY <1>1, <1>2 DEF AppInv, EngineInv, EngineTypes, Caller
<1>6. \A d \in Caller : call'[made + 1][d] # "waiting"
  BY <1>4, <1>5
<1>7. \A j \in Engine, d \in Caller : j > made' => call'[j][d] = "idle"
  BY <1>3, <1>5 DEF AppInv, Started
<1>9. QED  BY <1>1, <1>2, <1>4, <1>5, <1>6, <1>7 DEF Started

LEMMA StartedStep ==
  ASSUME AppInv, [Next]_vars
  PROVE  Started'
<1> USE DEF engineVars, holderVars, storeVars
<1>c. "start" \in Caller /\ "ready" \in Caller  BY DEF Caller
<1>0. ASSUME UNCHANGED engineVars, UNCHANGED <<made, engine, stopping, late>>
      PROVE  Started'
  BY <1>0 DEF AppInv, Started
<1>1. CASE CreateSeedFile \/ ProcessStarts \/ StartInBackground \/ EnterCreate \/ Flush
  BY <1>0, <1>1 DEF CreateSeedFile, ProcessStarts, StartInBackground, EnterCreate, Flush
<1>2. CASE WriteSeed
  <2>1. made + 1 \in 1 .. MaxEngines /\ Made(made + 1, TRUE, "start", "wanted")
    BY <1>2, MadeSeed DEF WriteSeed
  <2>2. made + 1 \in 0 .. MaxEngines  BY <2>1
  <2>3. QED  BY <1>c, <2>1, <2>2, MadeStarted
<1>3. CASE LoadSeed
  <2>1. made + 1 \in 1 .. MaxEngines /\ Made(Loaded, TRUE, "start", "wanted")
    BY <1>3, MadeSeed DEF LoadSeed
  <2>2. Loaded \in 0 .. MaxEngines
    BY <2>1 DEF Loaded, AppInv, StoreTypes, Broken
  <2>3. QED  BY <1>c, <2>1, <2>2, MadeStarted
<1>4. CASE CreateEngine
  <2>1. CASE engine # 0  BY <1>0, <1>4, <2>1 DEF CreateEngine
  <2>2. CASE engine = 0
    <3>1. /\ Made(Restored, scope, "ready", IF scope THEN "queued" ELSE "idle") /\ entered # "no"
          /\ late' = [late EXCEPT ![made + 1] = entered = "overtaken" /\ ~scope]
      BY <1>4, <2>2 DEF CreateEngine
    <3>2. Restored \in 0 .. MaxEngines /\ scope \in BOOLEAN
      BY <3>1, MadeSeed DEF Restored, AppInv, StoreTypes, HolderTypes
    <3>3. made + 1 \in Engine
      BY <3>1 DEF Made
    <3>4. scope \/ late'[made + 1]
      BY <3>1, <3>3 DEF AppInv, Holding, HolderTypes
    <3>5. /\ (IF scope THEN "queued" ELSE "idle") \in {"idle", "queued", "wanted"}
          /\ (IF scope THEN "queued" ELSE "idle") # "idle" \/ late'[made + 1]
      BY <3>4
    <3>6. QED  BY <1>c, <3>1, <3>2, <3>5, MadeStarted
  <2>3. QED  BY <2>1, <2>2
<1>5. CASE Close \/ StopService
  BY <1>5 DEF Close, StopService, AppInv, Started
<1>6. CASE StopServiceEnds
  BY <1>6 DEF StopServiceEnds, AppInv, Started
<1>7. CASE Exit \/ Kill
  BY <1>7 DEF Exit, Kill, ProcessEnds, Started
<1>8. ASSUME NEW i \in Engine, Calls(i)  PROVE Started'
  BY <1>8, CallsStarted
<1>9. CASE UNCHANGED vars  BY <1>0, <1>9 DEF vars
<1>10. QED
  BY <1>1, <1>2, <1>3, <1>4, <1>5, <1>6, <1>7, <1>8, <1>9 DEF Next

LEMMA AppInvInit == Init => AppInv
<1> SUFFICES ASSUME Init  PROVE AppInv
  OBVIOUS
<1>1. EngineInv  BY EngineInvInit
<1>2. StoreTypes
  BY MaxEnginesAssumption, MaxKillsAssumption DEF Init, StoreTypes, None
<1>2a. HolderTypes
  <2>1. polled \in [Engine -> BOOLEAN] /\ late \in [Engine -> BOOLEAN]
    BY DEF Init, Never
  <2>2. engine = 0 /\ made = 0  BY DEF Init
  <2>3. engine \in 0 .. made  BY <2>2
  <2>4. QED  BY <2>1, <2>3 DEF Init, HolderTypes
<1>3. SeedKept
  BY DEF Init, SeedKept, None, Broken
<1>4. Holding
  BY DEF Init, Holding
<1>5. Started
  BY DEF Init, EngineInit, Started
<1>6. QED  BY <1>1, <1>2, <1>2a, <1>3, <1>4, <1>5 DEF AppInv

LEMMA AppInvStep == AppInv /\ [Next]_vars => AppInv'
BY EngineStepInv, TypesStep, SeedStep, HoldingStep, StartedStep DEF AppInv

-----------------------------------------------------------------------------
\* The variables keep their types.
THEOREM TypeCorrect == Spec => []TypeOK
<1>1. AppInv => TypeOK
  BY DEF AppInv, EngineInv, TypeOK
<1>2. AppInv /\ [Next]_vars => AppInv'  BY AppInvStep
<1>3. QED  BY AppInvInit, <1>1, <1>2, PTL DEF Spec

\* The identity of an engine is replaced only if its process was killed before
\* the seed was on the disk (load_or_create_seed_file, createEngineLocked).
THEOREM IdentityCorrect == Spec => []IdentityKept
<1>1. Init => AppInv /\ IdentityKept
  BY AppInvInit DEF Init, IdentityKept
<1>2. ASSUME AppInv, IdentityKept, [Next]_vars
      PROVE  AppInv' /\ IdentityKept'
  <2>1. AppInv'  BY <1>2, AppInvStep
  <2>2. /\ made \in Nat /\ kills \in Nat
        /\ unsaved \subseteq unsaved' /\ kills' >= kills /\ kills' \in Nat
        /\ \A j \in 1 .. made : identity'[j] = identity[j]
        /\ made' = made \/ (made' = made + 1 /\ unsaved' = unsaved)
    <3>1. /\ made \in Nat /\ kills \in Nat /\ kills' \in Nat
      BY <1>2, <2>1, MaxEnginesAssumption, MaxKillsAssumption DEF AppInv, StoreTypes
    <3>2. CASE UNCHANGED <<made, identity, unsaved, kills>>
      BY <3>1, <3>2
    <3>3. ASSUME NEW k, NEW polls, NEW c, NEW start, Made(k, polls, c, start), UNCHANGED <<unsaved, kills>>
          PROVE  /\ made' = made + 1 /\ \A j \in 1 .. made : identity'[j] = identity[j]
                 /\ UNCHANGED <<unsaved, kills>>
      BY <3>1, <3>3 DEF Made, AppInv, StoreTypes
    <3>4. ASSUME ProcessEnds, kills' >= kills
          PROVE  UNCHANGED <<made, identity>> /\ unsaved \subseteq unsaved' /\ kills' >= kills
      BY <3>4 DEF ProcessEnds
    <3>5. CASE WriteSeed
      <4>1. Made(made + 1, TRUE, "start", "wanted") /\ UNCHANGED <<unsaved, kills>>
        BY <3>5 DEF WriteSeed
      <4>2. /\ made' = made + 1 /\ unsaved' = unsaved /\ kills' = kills
            /\ \A j \in 1 .. made : identity'[j] = identity[j]
        BY <3>3, <4>1, Zenon
      <4>3. QED  BY <3>1, <4>2
    <3>6. CASE LoadSeed
      <4>1. Made(Loaded, TRUE, "start", "wanted") /\ UNCHANGED <<unsaved, kills>>
        BY <3>6 DEF LoadSeed
      <4>2. /\ made' = made + 1 /\ unsaved' = unsaved /\ kills' = kills
            /\ \A j \in 1 .. made : identity'[j] = identity[j]
        BY <3>3, <4>1, Zenon
      <4>3. QED  BY <3>1, <4>2
    <3>7. CASE CreateEngine /\ engine = 0
      BY <3>1, <3>3, <3>7 DEF CreateEngine
    <3>8. CASE Exit \/ Kill  BY <3>1, <3>4, <3>8 DEF Exit, Kill
    <3>9. CASE \/ CreateSeedFile \/ Close \/ ProcessStarts \/ StartInBackground
               \/ EnterCreate \/ (CreateEngine /\ engine # 0) \/ Flush \/ StopService
               \/ StopServiceEnds \/ (\E i \in Engine : Calls(i)) \/ UNCHANGED vars
      <4>1. UNCHANGED <<made, identity, unsaved, kills>>
        BY <3>9 DEF CreateSeedFile, Close, ProcessStarts, StartInBackground, EnterCreate,
             CreateEngine, Flush, StopService, StopServiceEnds, Calls, vars
      <4>2. QED  BY <3>2, <4>1
    <3>10. QED
      BY <1>2, <3>5, <3>6, <3>7, <3>8, <3>9 DEF Next
  <2>3. ASSUME NEW i \in 1 .. made', NEW j \in 1 .. made', i < j
        PROVE  identity'[i] = identity'[j] \/ Excused(i)'
    <3>1. CASE j \in 1 .. made
      BY <1>2, <2>2, <2>3, <3>1 DEF IdentityKept, Excused
    <3>2. CASE j \notin 1 .. made
      <4>1. j = made' /\ i # made' /\ i \in 1 .. made /\ unsaved' = unsaved
        BY <2>2, <2>3, <3>2
      <4>2. j \notin unsaved'
        BY <1>2, <3>2, <4>1 DEF AppInv, SeedKept
      <4>3. identity'[i] = Store' \/ Excused(i)'
        BY <2>1, <2>3, <4>1 DEF AppInv, SeedKept
      <4>4. identity'[j] = Store' \/ (process' = "up" /\ disk' = Broken)
        BY <2>1, <2>3, <4>2 DEF AppInv, SeedKept, Excused
      <4>5. ASSUME process' = "up", disk' = Broken, identity'[i] = Store'  PROVE FALSE
        <5>1. Store' = Broken
          BY <2>1, <4>5 DEF AppInv, SeedKept, Store
        <5>2. identity'[i] \in 0 .. MaxEngines
          BY <2>1, <2>3, MaxEnginesAssumption DEF AppInv, StoreTypes, Engine
        <5>3. QED  BY <4>5, <5>1, <5>2 DEF Broken
      <4>6. QED  BY <4>3, <4>4, <4>5
    <3>3. QED  BY <3>1, <3>2
  <2>4. QED  BY <2>1, <2>3 DEF IdentityKept, Excused
<1>3. AppInv /\ IdentityKept /\ [Next]_vars => AppInv' /\ IdentityKept'
  BY <1>2
<1>4. QED  BY <1>1, <1>3, PTL DEF Spec

\* When nothing is on its way, the application's engine is ready and polled, or
\* the application can make one (SrltcpEngineHolder), with Serves' exceptions.
THEOREM ServesCorrect == Spec => []Serves
<1>1. AppInv => Serves
  <2> SUFFICES ASSUME AppInv, process = "up", ~stopping, ~launched, entered = "no"
               PROVE  /\ engine = 0 => ~starting
                      /\ engine # 0 /\ AtRest(engine) /\ ~late[engine] =>
                           /\ polled[engine]
                           /\ IsOnline(engine) \/ story[engine] = "gaveUp"
    BY DEF Serves
  <2>1. engine = 0 => ~starting
    BY DEF AppInv, Holding
  <2>2. ASSUME engine # 0, AtRest(engine), ~late[engine]
        PROVE  polled[engine] /\ (IsOnline(engine) \/ story[engine] = "gaveUp")
    <3>1. polled[engine]
      BY <2>2 DEF AppInv, Holding
    <3>2. engine \in Engine
      BY <2>2, MaxEnginesAssumption DEF AppInv, StoreTypes, HolderTypes, Engine
    <3>3. /\ story[engine] \in {"good", "gaveUp"}
          /\ \A c \in Caller : call[engine][c] = "idle"
          /\ story[engine] = "good" => running[engine]
      BY <2>2 DEF AppInv, Started, AtRest
    <3>4. story[engine] = "good" => marked[engine] /\ running[engine] = endpoint[engine]
      BY <2>2, <3>2, <3>3 DEF AppInv, EngineInv, Resting, AtRest
    <3>5. running[engine] \in BOOLEAN /\ endpoint[engine] \in BOOLEAN
      BY <3>2 DEF AppInv, EngineInv, EngineTypes
    <3>6. QED  BY <3>1, <3>3, <3>4, <3>5 DEF IsOnline
  <2>3. QED  BY <2>1, <2>2
<1>2. AppInv /\ [Next]_vars => AppInv'  BY AppInvStep
<1>3. QED  BY AppInvInit, <1>1, <1>2, PTL DEF Spec
=============================================================================
