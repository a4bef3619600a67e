---------------------------- MODULE GuardRuntime ----------------------------
(***************************************************************************)
(* The guard runtime around the engine: generations of the engine, one     *)
(* background worker per generation that persists it and probes, the       *)
(* configuration calls that flush, reload and switch, shutdown, and the    *)
(* death of the process.  An engine is the set of changes it holds; what a *)
(* change means is the subject of GuardEngine.                             *)
(***************************************************************************)
EXTENDS Naturals, FiniteSets

CONSTANTS
    Changes,         \* changes that events may make
    MaxGenerations,  \* bound on the generations of one process
    MaxFailures,     \* bound on writes that fail
    MaxProbes,       \* bound on background probes
    MaxCrashes       \* bound on deaths of the process

ASSUME BoundAssumption ==
    /\ MaxGenerations \in Nat
    /\ MaxFailures \in Nat
    /\ MaxProbes \in Nat
    /\ MaxCrashes \in Nat

VARIABLES
    engine,      \* what the engine of each generation holds
    dirty,       \* generations with changes not known to be saved
    generation,  \* the active generation; 0 before registration
    worker,      \* where the worker of each generation is
    final,       \* workers making their last save
    cancelled,   \* generations whose context is cancelled
    call,        \* the call that holds configUpdateMu
    prepared,    \* the engine a call has loaded, not yet installed
    snapshot,    \* what the holder of persistMu writes
    saved,       \* what the state file holds
    shutdown,    \* Shutdown was called
    stopMark,    \* history: the state when Shutdown was called
    stopped,     \* Shutdown has returned
    used,        \* changes that have happened
    failures, probes, crashes

engineVars == <<engine, dirty, used>>
workerVars == <<worker, final, cancelled>>
callVars   == <<call, prepared, generation>>
diskVars   == <<saved, failures, snapshot>>
stopVars   == <<shutdown, stopMark, stopped>>
countVars  == <<probes, crashes>>
vars == <<engineVars, workerVars, callVars, diskVars, stopVars, countVars>>

Generations == 0 .. MaxGenerations

NoCall == [kind |-> "none", step |-> "none"]
Calls ==
    {NoCall} \cup
    [kind : {"register", "reconfigure", "dynamic"},
     step : {"flush", "waiting", "writing", "load", "install"}] \cup
    [kind : {"shutdown"}, step : {"stopping"}]

\* The configuration calls hold access exclusively; events hold it shared.
AccessLocked == call.kind \in {"register", "reconfigure", "dynamic"}

\* persistMu is held by whoever writes.
PersistLocked == call.step = "writing" \/ \E g \in Generations : worker[g] = "writing"

Init ==
    /\ engine = [g \in Generations |-> {}]
    /\ dirty = {}
    /\ generation = 0
    /\ worker = [g \in Generations |-> "none"]
    /\ final = {}
    /\ cancelled = {}
    /\ call = NoCall
    /\ prepared = {}
    /\ snapshot = {}
    /\ shutdown = FALSE
    /\ stopMark = [held |-> {}, failures |-> 0]
    /\ stopped = FALSE
    /\ saved = {}
    /\ used = {}
    /\ failures = 0
    /\ probes = 0
    /\ crashes = 0

-----------------------------------------------------------------------------
(***************************************************************************)
(* Events: picks, usage records, operator releases, roster updates and     *)
(* probe results change the active engine under access.RLock.              *)
(***************************************************************************)
Change(c) ==
    /\ c \in Changes \ used
    /\ used' = used \cup {c}
    /\ engine' = [engine EXCEPT ![generation] = @ \cup {c}]
    /\ dirty' = dirty \cup {generation}

Event(c) ==
    /\ generation > 0
    /\ ~AccessLocked
    /\ Change(c)
    /\ UNCHANGED <<workerVars, callVars, diskVars, stopVars, countVars>>

-----------------------------------------------------------------------------
(***************************************************************************)
(* Saving: persistEngine and Engine.Save, by a worker or by a call.  A     *)
(* write may fail before the rename or, unconfirmed, after it.             *)
(***************************************************************************)
Outcomes == {"ok", "failed", "unconfirmed"}

\* A slip: the change counter is not compared after the write.
Unchanged_Ignored(g) == TRUE
Unchanged(g) == engine[g] = snapshot

Write(g, outcome) ==
    /\ outcome # "ok" => failures < MaxFailures
    /\ failures' = IF outcome = "ok" THEN failures ELSE failures + 1
    /\ saved' = IF outcome = "failed" THEN saved ELSE snapshot
    /\ dirty' = IF outcome = "ok" /\ Unchanged(g) THEN dirty \ {g} ELSE dirty

-----------------------------------------------------------------------------
(***************************************************************************)
(* The worker of generation g.                                             *)
(***************************************************************************)
Moves(g, place) == worker' = [worker EXCEPT ![g] = place]

AfterSave(g) == Moves(g, IF g \in final THEN "exited" ELSE "idle")

\* The save signal or the ticker.
WorkerWakes(g) ==
    /\ worker[g] = "idle"
    /\ g \in dirty
    /\ Moves(g, "waiting")
    /\ UNCHANGED <<final, cancelled, engineVars, callVars, diskVars, stopVars,
                   countVars>>

\* A slip: a cancelled worker leaves without its last save.
WorkerRetires_Unsaved(g) ==
    /\ worker[g] = "idle"
    /\ g \in cancelled
    /\ Moves(g, "exited")
    /\ UNCHANGED <<final, cancelled, engineVars, callVars, diskVars, stopVars,
                   countVars>>

WorkerRetires(g) ==
    /\ worker[g] = "idle"
    /\ g \in cancelled
    /\ Moves(g, IF g \in dirty THEN "waiting" ELSE "exited")
    /\ final' = IF g \in dirty THEN final \cup {g} ELSE final
    /\ UNCHANGED <<cancelled, engineVars, callVars, diskVars, stopVars,
                   countVars>>

\* A slip: a retired generation still saves.
Current_Unchecked(g) == TRUE
Current(g) == g = generation

WorkerLocks(g) ==
    /\ worker[g] = "waiting"
    /\ ~PersistLocked
    /\ IF Current(g)
         THEN Moves(g, "writing") /\ snapshot' = engine[g]
         ELSE AfterSave(g) /\ UNCHANGED snapshot
    /\ UNCHANGED <<final, cancelled, saved, failures, engineVars, callVars,
                   stopVars, countVars>>

WorkerWrites(g, outcome) ==
    /\ worker[g] = "writing"
    /\ Write(g, outcome)
    /\ AfterSave(g)
    /\ UNCHANGED <<engine, used, final, cancelled, snapshot, callVars,
                   stopVars, countVars>>

\* runProbe: one probe at a time, and the worker does nothing else meanwhile.
Probing == \E g \in Generations : worker[g] \in {"probing", "applying"}

ProbeStarts(g) ==
    /\ worker[g] = "idle"
    /\ Current(g)
    /\ g \notin cancelled
    /\ ~Probing
    /\ probes < MaxProbes
    /\ probes' = probes + 1
    /\ Moves(g, "probing")
    /\ UNCHANGED <<final, cancelled, crashes, engineVars, callVars, diskVars,
                   stopVars>>

ProbeAnswered(g) ==
    /\ worker[g] = "probing"
    /\ \E place \in {"applying", "idle"} : Moves(g, place)
    /\ UNCHANGED <<final, cancelled, engineVars, callVars, diskVars, stopVars,
                   countVars>>

\* The results go to the engine that is active now, whichever worker probed.
ProbeApplies(g) ==
    /\ worker[g] = "applying"
    /\ ~AccessLocked
    /\ \/ \E c \in Changes : Change(c)
       \/ UNCHANGED engineVars
    /\ Moves(g, "idle")
    /\ UNCHANGED <<final, cancelled, callVars, diskVars, stopVars, countVars>>

-----------------------------------------------------------------------------
(***************************************************************************)
(* Register, Reconfigure and SetDynamicConfig.  The host registers the     *)
(* plugin once per process.                                                *)
(***************************************************************************)
CallBegins(kind) ==
    /\ call = NoCall
    /\ kind = "register" => generation = 0
    /\ kind = "dynamic" => ~shutdown
    /\ generation < MaxGenerations
    /\ call' = [kind |-> kind, step |-> IF kind = "register" THEN "load" ELSE "flush"]
    /\ UNCHANGED <<prepared, generation, engineVars, workerVars, diskVars,
                   stopVars, countVars>>

CallGoesTo(step) == call' = [call EXCEPT !.step = step]

CallFlushes ==
    /\ call.step = "flush"
    /\ CallGoesTo(IF generation \in dirty THEN "waiting" ELSE "load")
    /\ UNCHANGED <<prepared, generation, engineVars, workerVars, diskVars,
                   stopVars, countVars>>

CallLocks ==
    /\ call.step = "waiting"
    /\ ~PersistLocked
    /\ CallGoesTo("writing")
    /\ snapshot' = engine[generation]
    /\ UNCHANGED <<prepared, generation, saved, failures, engineVars,
                   workerVars, stopVars, countVars>>

CallWrites(outcome) ==
    /\ call.step = "writing"
    /\ Write(generation, outcome)
    /\ IF outcome = "ok" THEN CallGoesTo("load") ELSE call' = NoCall
    /\ UNCHANGED <<engine, used, prepared, generation, snapshot, workerVars,
                   stopVars, countVars>>

\* prepareGuard loads the state file; in enforce mode it reconciles the roster,
\* which may change the new engine.
CallLoads ==
    /\ call.step = "load"
    /\ ~shutdown
    /\ \/ prepared' = saved /\ UNCHANGED used
       \/ \E c \in Changes \ used :
            prepared' = saved \cup {c} /\ used' = used \cup {c}
    /\ CallGoesTo("install")
    /\ UNCHANGED <<engine, dirty, generation, workerVars, diskVars, stopVars,
                   countVars>>

\* The file cannot be loaded, a requirement of the mode is not met, the new
\* configuration cannot be stored, or the runtime is shut down.
CallFails ==
    /\ call.step = "load"
    /\ call' = NoCall
    /\ UNCHANGED <<prepared, generation, engineVars, workerVars, diskVars,
                   stopVars, countVars>>

\* A slip: the switch waits for the probe that runs.
MayInstall_AfterProbe == ~PersistLocked /\ ~Probing
MayInstall == ~PersistLocked

\* A slip: the cancel function is read after it has been overwritten.
Retired_Overwritten == {generation + 1}
Retired == {generation}

\* A slip: no worker serves the new generation.
StartsWorker_Forgotten == UNCHANGED worker
StartsWorker == Moves(generation + 1, "idle")

CallInstalls ==
    /\ call.step = "install"
    /\ MayInstall
    /\ generation' = generation + 1
    /\ engine' = [engine EXCEPT ![generation + 1] = prepared]
    /\ dirty' = IF prepared = saved THEN dirty ELSE dirty \cup {generation + 1}
    /\ StartsWorker
    /\ cancelled' = cancelled \cup Retired
    /\ call' = NoCall
    /\ UNCHANGED <<used, final, prepared, diskVars, stopVars, countVars>>

-----------------------------------------------------------------------------
(***************************************************************************)
(* Shutdown, which waits for the workers of all generations, and a crash.  *)
(***************************************************************************)
ShutdownBegins ==
    /\ call = NoCall
    /\ ~shutdown
    /\ shutdown' = TRUE
    /\ stopMark' = [held |-> engine[generation], failures |-> failures]
    /\ cancelled' = Generations
    /\ call' = [kind |-> "shutdown", step |-> "stopping"]
    /\ UNCHANGED <<worker, final, prepared, generation, stopped, engineVars,
                   diskVars, countVars>>

ShutdownEnds ==
    /\ call.kind = "shutdown"
    /\ \A g \in Generations : worker[g] \in {"none", "exited"}
    /\ stopped' = TRUE
    /\ call' = NoCall
    /\ UNCHANGED <<prepared, generation, shutdown, stopMark, engineVars,
                   workerVars, diskVars, countVars>>

Crash ==
    /\ crashes < MaxCrashes
    /\ crashes' = crashes + 1
    /\ engine' = [g \in Generations |-> {}]
    /\ dirty' = {}
    /\ generation' = 0
    /\ worker' = [g \in Generations |-> "none"]
    /\ final' = {}
    /\ cancelled' = {}
    /\ call' = NoCall
    /\ prepared' = {}
    /\ snapshot' = {}
    /\ shutdown' = FALSE
    /\ stopMark' = [held |-> {}, failures |-> 0]
    /\ stopped' = FALSE
    /\ UNCHANGED <<used, saved, failures, probes>>

WorkerStep(g) ==
    \/ WorkerWakes(g)
    \/ WorkerRetires(g)
    \/ WorkerLocks(g)
    \/ \E outcome \in Outcomes : WorkerWrites(g, outcome)
    \/ ProbeAnswered(g)
    \/ ProbeApplies(g)

CallStep ==
    \/ CallFlushes
    \/ CallLocks
    \/ \E outcome \in Outcomes : CallWrites(outcome)
    \/ CallLoads
    \/ CallFails
    \/ CallInstalls
    \/ ShutdownEnds

Next ==
    \/ \E c \in Changes : Event(c)
    \/ \E g \in Generations : WorkerStep(g) \/ ProbeStarts(g)
    \/ \E kind \in {"register", "reconfigure", "dynamic"} : CallBegins(kind)
    \/ ShutdownBegins
    \/ CallStep
    \/ Crash

Spec == Init /\ [][Next]_vars

\* The Go scheduler runs every goroutine, a probe ends (its HTTP calls time
\* out), and the ticker fires again and again.
FairSpec ==
    /\ Spec
    /\ WF_vars(CallStep)
    /\ \A g \in Generations : WF_vars(WorkerStep(g))

-----------------------------------------------------------------------------
(***************************************************************************)
(* Properties.                                                             *)
(***************************************************************************)
Places == {"none", "idle", "waiting", "writing", "probing", "applying", "exited"}

\* Every variable has its type, every generation got its worker, and persistMu
\* has at most one holder.
TypeOK ==
    /\ engine \in [Generations -> SUBSET Changes]
    /\ dirty \in SUBSET Generations
    /\ generation \in Generations
    /\ worker \in [Generations -> Places]
    /\ \A g \in Generations : worker[g] = "none" <=> g \notin 1 .. generation
    /\ \A g, h \in Generations : worker[g] = "writing" /\ worker[h] = "writing" => g = h
    /\ \A g \in Generations : worker[g] = "writing" => call.step # "writing"
    /\ final \in SUBSET Generations
    /\ cancelled \in SUBSET Generations
    /\ call \in Calls
    /\ prepared \in SUBSET Changes
    /\ snapshot \in SUBSET Changes
    /\ saved \in SUBSET Changes
    /\ shutdown \in BOOLEAN
    /\ stopMark \in [held : SUBSET Changes, failures : Nat]
    /\ stopped \in BOOLEAN
    /\ used \in SUBSET Changes
    /\ failures \in Nat
    /\ probes \in Nat
    /\ crashes \in Nat

\* The changes in force: those of the active engine, or, before registration,
\* those the state file holds.
Live == IF generation = 0 THEN saved ELSE engine[generation]

\* Across saves, failed saves, late saves of retired generations, and switches
\* of the configuration, no accepted change is lost while the process lives,
\* and the state file never goes back.
Durable == INSTANCE DurableState WITH live <- Live, stored <- saved
DurableSpec == Durable!Spec

\* An engine that takes itself for saved is what the state file holds, so that
\* a configuration call may reload it without losing anything.
CleanMeansStored ==
    generation > 0 /\ generation \notin dirty => engine[generation] = saved

\* When Shutdown returns, all that had been accepted when it was called is in
\* the state file, unless a write failed in between.
ShutdownFlushes ==
    stopped /\ failures = stopMark.failures => stopMark.held \subseteq saved

\* Every accepted change reaches the state file, unless the runtime is shut
\* down or dies before; DurableSpec says that nothing else takes a change away.
EventuallyStored ==
    \A c \in Changes : c \in Live ~> c \in saved \/ shutdown \/ c \notin Live

\* Every configuration call and Shutdown return, even while a probe waits for
\* the access lock that the call holds.
CallsEnd == call # NoCall ~> call = NoCall

=============================================================================
