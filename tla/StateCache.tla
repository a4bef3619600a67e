----------------------------- MODULE StateCache -----------------------------
(***************************************************************************)
(* The state cache file and the configuration it keeps.  A probe and a     *)
(* configuration call both read the whole document, change their part of   *)
(* the copy and write all of it back, and nothing keeps the two apart:     *)
(* probes hold runMu, while configuration calls hold configUpdateMu and    *)
(* access.  Of the document the dynamic configuration and the samples of   *)
(* each probe round are modelled.                                          *)
(***************************************************************************)
EXTENDS Config, FiniteSets

CONSTANTS
    Documents,    \* what the file may hold before the first start
    Updates,      \* bodies of the operator's PUT requests
    Yamls,        \* configurations of the host
    NoConfig,     \* the document stores no configuration
    MaxSets,      \* bound on configuration calls
    MaxProbes,    \* bound on probes
    MaxStarts,    \* bound on starts of the process
    MaxHostCalls, \* bound on Register and Reconfigure
    MaxFailures   \* bound on failed writes

ASSUME BoundAssumption ==
    /\ MaxSets \in Nat /\ MaxProbes \in Nat /\ MaxStarts \in Nat
    /\ MaxHostCalls \in Nat /\ MaxFailures \in Nat

VARIABLES
    file,      \* the state cache file
    cfg,       \* the configuration of the runtime, r.cfg
    guard,     \* the configuration of the active engine
    registered, \* an engine with its worker has been installed
    supported, \* the host announced the features that enforcing needs
    running,   \* the process lives
    task,      \* the probe that holds runMu
    setter,    \* the PUT request under way
    chosen,    \* history: what the last successful call was given
    stored,    \* history: configurations that were put into the file
    sampled,   \* history: rounds whose samples were saved
    raced,     \* history: a call wrote while a probe held an older copy, or
               \* failed after its rename
    overtaken, \* history: a probe wrote between the read and the write of a call
    shared,    \* history: a call that names the cache as the guard's file found
               \* no cache file
    sets, probes, starts, hostCalls, failures

active  == <<cfg, guard, registered, supported>>
history == <<chosen, stored, sampled, raced, overtaken, shared>>
counts  == <<sets, probes, starts, hostCalls, failures>>
vars    == <<file, active, running, task, setter, history, counts>>

NoTask == [step |-> "idle", round |-> 0, copy |-> NoConfig, background |-> FALSE,
           cancelled |-> FALSE]
NoCall == [step |-> "idle", copy |-> NoConfig]

-----------------------------------------------------------------------------
(***************************************************************************)
(* The file: none, a document, or text that is none, such as the guard's   *)
(* own breakers.                                                           *)
(***************************************************************************)
Missing  == [kind |-> "missing", dynamic |-> NoConfig, rounds |-> {}]
Garbage  == [kind |-> "garbage", dynamic |-> NoConfig, rounds |-> {}]
Breakers == [kind |-> "breakers", dynamic |-> NoConfig, rounds |-> {}]

Loadable == file.kind \in {"missing", "document"}
Loaded ==
    [kind |-> "document", rounds |-> file.rounds,
     dynamic |-> IF file.dynamic = NoConfig THEN NoConfig ELSE Decoded(file.dynamic)]

\* Documents decode to configurations; the host's YAML sets the guard's keys and
\* those only the host may set, and leaves the cache where it is.
ASSUME InputAssumption ==
    /\ NoConfig \notin DynamicConfigs
    /\ \A d \in Documents : d.kind # "document" => d \in {Missing, Garbage, Breakers}
    /\ \A d \in Documents : d.kind = "document" =>
         /\ d.rounds = {}
         /\ d.dynamic = NoConfig \/ Decoded(d.dynamic) \in DynamicConfigs
    /\ Updates \subseteq GuardConfigs
    /\ \A yaml \in Yamls :
         /\ {"autoApply", "guard"} \subseteq DOMAIN yaml
         /\ DOMAIN yaml \subseteq {"autoApply", "guard", "enabled", "requiredSchedulerFor"}
         /\ yaml.autoApply \in BOOLEAN
         /\ Overlay(DefaultGuard, yaml.guard) \in GuardConfigs

\* SaveAtomic fails before its rename or, unconfirmed, after it.
Outcomes == {"ok", "failed", "unconfirmed"}

Write(copy, outcome) ==
    /\ outcome # "ok" => failures < MaxFailures
    /\ failures' = IF outcome = "ok" THEN failures ELSE failures + 1
    /\ file' = IF outcome = "failed" THEN file ELSE copy

\* The stored configuration, where it is one that the runtime accepts.
\* A slip: the error of ApplyTo is not looked at.
Merged_Unvalidated(base) ==
    IF Loadable /\ Loaded.dynamic # NoConfig THEN ApplyTo(Loaded.dynamic, base) ELSE base

Merged(base) ==
    LET dyn == Loaded.dynamic IN
    IF Loadable /\ dyn # NoConfig /\ DynamicValid(dyn) THEN ApplyTo(dyn, base) ELSE base

\* GetDynamicConfig: the stored configuration in its canonical form where it is
\* one that the runtime accepts, with the schedule in force.
Shown == [Dynamic(Merged(cfg)) EXCEPT !.schedule = cfg.schedule]

\* The process has not been started yet.
Init ==
    /\ file \in Documents
    /\ cfg = Default
    /\ guard = DefaultGuard
    /\ registered = FALSE
    /\ supported = FALSE
    /\ running = FALSE
    /\ task = NoTask
    /\ setter = NoCall
    /\ chosen = Loaded.dynamic
    /\ stored = {Dynamic(Merged(Default))}
    /\ sampled = {}
    /\ raced = FALSE
    /\ overtaken = FALSE
    /\ shared = FALSE
    /\ sets = 0
    /\ probes = 0
    /\ starts = 0
    /\ hostCalls = 0
    /\ failures = 0

-----------------------------------------------------------------------------
(***************************************************************************)
(* runProductionTask, started by the worker (background) or by the         *)
(* management API.  It loads the document before the network round and     *)
(* saves the same copy, with the round's samples, twice after it.          *)
(***************************************************************************)
\* A slip: the copy of the previous round is used again.
Fetched_Cached == IF task.copy = NoConfig THEN Loaded ELSE task.copy
Fetched == Loaded

TaskLoads(background) ==
    /\ running
    /\ registered
    /\ task.step = "idle"
    /\ Loadable
    /\ probes < MaxProbes
    /\ probes' = probes + 1
    /\ task' = [step |-> "collecting", round |-> probes + 1,
                copy |-> [Fetched EXCEPT !.rounds = @ \cup {probes + 1}],
                background |-> background, cancelled |-> FALSE]
    /\ UNCHANGED <<file, active, running, setter, history, sets, starts, hostCalls,
                   failures>>

TaskGoesTo(step) == task' = [task EXCEPT !.step = step]

\* Configuration calls hold access from their check to the end.
AccessLocked == setter.step \in {"loaded", "written"}

\* The evidence of the round goes to the guard under access.RLock.
TaskApplies ==
    /\ task.step = "collecting"
    /\ ~AccessLocked
    /\ TaskGoesTo("applied")
    /\ UNCHANGED <<file, active, running, setter, history, counts>>

\* The round fails, or the projection of what it saved.
TaskStops ==
    /\ task.step \in {"collecting", "saved"}
    /\ TaskGoesTo("idle")
    /\ UNCHANGED <<file, active, running, setter, history, counts>>

\* SaveAtomic looks at its context once, before it encodes and writes.
TaskChecks ==
    /\ task.step \in {"applied", "saved"}
    /\ TaskGoesTo(IF task.cancelled THEN "idle"
                  ELSE IF task.step = "applied" THEN "saving" ELSE "recording")
    /\ UNCHANGED <<file, active, running, setter, history, counts>>

TaskWrites(outcome) ==
    /\ task.step \in {"saving", "recording"}
    /\ Write(task.copy, outcome)
    /\ TaskGoesTo(IF task.step = "saving" /\ outcome = "ok" THEN "saved" ELSE "idle")
    /\ sampled' = IF outcome = "ok" THEN sampled \cup {task.round} ELSE sampled
    /\ overtaken' = (overtaken \/ setter.step = "loaded")
    /\ UNCHANGED <<active, running, setter, chosen, stored, raced, shared, sets, probes,
                   starts, hostCalls>>

-----------------------------------------------------------------------------
(***************************************************************************)
(* What the engine takes of a guard configuration; what is zero or empty   *)
(* there stands for the engine's own default.                              *)
(***************************************************************************)
EngineFields == {"threshold", "window", "initialCooldown", "maxCooldown", "halfOpenLease",
                 "evidenceMaxAge", "unknownAuthPolicy", "unknownModelPolicy"}

EngineConfig(g) ==
    [f \in EngineFields |-> IF g[f] = ZeroGuard[f] THEN DefaultGuard[f] ELSE g[f]]

EngineAccepts(e) ==
    /\ e.threshold >= 1 /\ e.window > 0
    /\ 0 < e.initialCooldown /\ e.initialCooldown <= e.maxCooldown
    /\ e.halfOpenLease > 0 /\ e.evidenceMaxAge > 0
    /\ {e.unknownAuthPolicy, e.unknownModelPolicy} \subseteq {"fail_closed", "fail_open"}

(***************************************************************************)
(* prepareGuard: what a configuration must meet to be installed.  The      *)
(* guard reads its state file strictly.                                    *)
(***************************************************************************)
SharesFile(g) == Cleaned(g.statePath) = Cleaned(cfg.stateCachePath)

\* A slip: enforcing does not ask what the host requires of the scheduler.
Prepares_Unrequired(new, features) ==
    /\ EngineAccepts(EngineConfig(new.guard))
    /\ SharesFile(new.guard) => file.kind \in {"missing", "breakers"}
    /\ new.guard.mode = "enforce" => features
Prepares(new, features) ==
    /\ EngineAccepts(EngineConfig(new.guard))
    /\ SharesFile(new.guard) => file.kind \in {"missing", "breakers"}
    /\ new.guard.mode = "enforce" =>
         "antigravity" \in new.requiredSchedulerFor /\ features

\* A new engine: the worker of the retiring one is cancelled, and its probe.
Installs(new) ==
    /\ guard' = new.guard
    /\ cfg' = new
    /\ registered' = TRUE
    /\ task' = [task EXCEPT !.cancelled = @ \/ task.background]

(***************************************************************************)
(* PUT /config: the guard's part of the configuration in force is replaced *)
(* (handleGuardManagement), and SetDynamicConfig loads the document, puts  *)
(* the configuration into the copy, saves, and only then makes it active.  *)
(***************************************************************************)
SetReads(body) ==
    /\ running
    /\ setter.step = "idle"
    /\ sets < MaxSets
    /\ sets' = sets + 1
    /\ setter' = [step |-> "read",
                  copy |-> [Missing EXCEPT !.dynamic = [Dynamic(cfg) EXCEPT !.guard = body]]]
    /\ UNCHANGED <<file, active, running, task, history, probes, starts, hostCalls,
                   failures>>

\* A slip: the call starts from an empty document.
CopyFor_Empty(dyn) == [kind |-> "document", rounds |-> {}, dynamic |-> dyn]
CopyFor(dyn) == [Loaded EXCEPT !.dynamic = dyn]

SetLoads ==
    /\ setter.step = "read"
    /\ DynamicValid(setter.copy.dynamic)
    /\ LET new == ApplyTo(setter.copy.dynamic, cfg) IN
         /\ Prepares(new, supported)
         /\ Loadable
         /\ setter' = [step |-> "loaded", copy |-> CopyFor(Dynamic(new))]
         /\ shared' = (shared \/ (SharesFile(new.guard) /\ file.kind = "missing"))
    /\ UNCHANGED <<file, active, running, task, chosen, stored, sampled, raced, overtaken,
                   counts>>

\* The body is refused, the mode's requirements are not met, or a file cannot
\* be read or written.
SetRefused ==
    /\ setter.step = "read"
    /\ setter' = NoCall
    /\ UNCHANGED <<file, active, running, task, history, counts>>

\* A slip: an error of the save is not looked at.
Commits_Always(outcome) == TRUE
Commits(outcome) == outcome = "ok"

SetSaves(outcome) ==
    /\ setter.step = "loaded"
    /\ Write(setter.copy, outcome)
    /\ setter' = IF Commits(outcome) THEN [setter EXCEPT !.step = "written"] ELSE NoCall
    /\ stored' = IF outcome = "failed" THEN stored
                 ELSE stored \cup {setter.copy.dynamic}
    /\ raced' = (raced \/ task.step # "idle" \/ outcome = "unconfirmed")
    /\ UNCHANGED <<active, running, task, chosen, sampled, overtaken, shared, sets, probes,
                   starts, hostCalls>>

SetCommits ==
    /\ setter.step = "written"
    /\ Installs(ApplyTo(setter.copy.dynamic, cfg))
    /\ chosen' = setter.copy.dynamic
    /\ setter' = NoCall
    /\ UNCHANGED <<file, supported, running, stored, sampled, raced, overtaken, shared,
                   counts>>

-----------------------------------------------------------------------------
(***************************************************************************)
(* New, Register and Reconfigure by the host, the end of the process, and  *)
(* the guard that saves its breakers where its configuration says.         *)
(***************************************************************************)
Start(outcome) ==
    /\ ~running
    /\ starts < MaxStarts
    /\ starts' = starts + 1
    /\ running' = TRUE
    /\ cfg' = Merged(Default)
    /\ guard' = DefaultGuard
    /\ registered' = FALSE
    /\ supported' = FALSE
    /\ IF Loadable THEN Write(Loaded, outcome)
                   ELSE outcome = "ok" /\ UNCHANGED <<file, failures>>
    /\ UNCHANGED <<task, setter, history, sets, probes, hostCalls>>

\* The YAML that LoadBytes accepts; any other call changes nothing.
HostConfigs == {LoadBytes(yaml) : yaml \in {y \in Yamls : LoadAccepts(y)}}

HostConfigures(base, features) ==
    /\ running
    /\ setter.step \in {"idle", "read"}
    /\ hostCalls < MaxHostCalls
    /\ LET new == Merged(base) IN
         /\ Prepares(new, features)
         /\ Installs(new)
    /\ supported' = features
    /\ hostCalls' = hostCalls + 1
    /\ UNCHANGED <<file, running, setter, history, sets, probes, starts, failures>>

Crash ==
    /\ running
    /\ running' = FALSE
    /\ task' = NoTask
    /\ setter' = NoCall
    /\ chosen' = IF setter.step = "written" THEN setter.copy.dynamic ELSE chosen
    /\ UNCHANGED <<file, active, stored, sampled, raced, overtaken, shared, counts>>

GuardSaves ==
    /\ running
    /\ registered
    /\ SharesFile(guard)
    /\ file' = Breakers
    /\ UNCHANGED <<active, running, task, setter, history, counts>>

Next ==
    \/ \E background \in BOOLEAN : TaskLoads(background)
    \/ TaskApplies
    \/ TaskStops
    \/ TaskChecks
    \/ \E outcome \in Outcomes : TaskWrites(outcome) \/ SetSaves(outcome) \/ Start(outcome)
    \/ \E body \in Updates : SetReads(body)
    \/ SetLoads
    \/ SetRefused
    \/ SetCommits
    \/ \E base \in HostConfigs, features \in BOOLEAN : HostConfigures(base, features)
    \/ Crash
    \/ GuardSaves

Spec == Init /\ [][Next]_vars

-----------------------------------------------------------------------------
(***************************************************************************)
(* Properties.                                                             *)
(***************************************************************************)

\* Every variable has its type: what is read was decoded, what a call writes is
\* a configuration that will be accepted when it is read again, in the form it
\* was written in.
TypeOK ==
    /\ file.kind \in {"missing", "garbage", "breakers", "document"}
    /\ file.kind # "document" => file.dynamic = NoConfig /\ file.rounds = {}
    /\ \A dyn \in stored :
         DynamicValid(dyn) /\ Decoded(dyn) = dyn /\ Dynamic(ApplyTo(dyn, cfg)) = dyn
    /\ DOMAIN cfg = DOMAIN Default /\ DOMAIN guard = DOMAIN DefaultGuard
    /\ registered \in BOOLEAN /\ supported \in BOOLEAN /\ running \in BOOLEAN
    /\ task.step \in {"idle", "collecting", "applied", "saving", "saved", "recording"}
    /\ setter.step \in {"idle", "read", "loaded", "written"}
    /\ sampled \in SUBSET (1 .. probes)
    /\ raced \in BOOLEAN /\ overtaken \in BOOLEAN /\ shared \in BOOLEAN
    /\ sets \in Nat /\ probes \in Nat /\ starts \in Nat /\ hostCalls \in Nat
    /\ failures \in Nat

HostGiven == {Dynamic(base) : base \in {Default} \cup HostConfigs}

\* A configuration is in force only after it was put into the file, or when the
\* host gave it, even when calls fail, files are unreadable and probes write
\* older copies back.
OnlyStoredInForce ==
    Dynamic(cfg) \in stored \/ Dynamic(cfg) \in HostGiven

\* Unless a call overlaps with a probe, fails after its rename or puts the
\* guard's file where the cache is, the file holds what the last successful
\* call was given, whatever probes and restarts come between.
KeptWithoutOverlap ==
    Loadable /\ setter.step # "written" /\ ~raced /\ ~shared => Loaded.dynamic = chosen

\* Unless a probe writes while a configuration call holds an older copy, or the
\* guard's file is put where the cache is, the samples of every saved round stay
\* in the file, whatever calls and restarts come after it.
SamplesKept ==
    ~overtaken /\ ~shared => sampled \subseteq file.rounds

\* What the engine takes for granted of its configuration: no zero in it stands
\* for something else than it says.
Sound(g) ==
    /\ EngineAccepts(EngineConfig(g))
    /\ \A f \in EngineFields : EngineConfig(g)[f] = g[f]
    /\ g.evidenceMaxAge >= g.probeInterval /\ g.probeInterval >= Minute
    /\ Cardinality({ParseGroup(g.enforcedGroups[k]) : k \in DOMAIN g.enforcedGroups})
         = Len(g.enforcedGroups)
    /\ g.mode = "enforce" => g.requireUniformPriority

\* Whatever the host's YAML, an older document and the operator say, the engine
\* runs with a sound configuration, and with the one the runtime reports; it
\* enforces only for a host that requires the plugin's scheduler and can talk to
\* it; and its file is not the cache, unless a call named the cache while there
\* was none.  What the operator is shown is one that a PUT would accept again.
InForceIsSound ==
    /\ Sound(guard)
    /\ registered /\ running => guard = cfg.guard
    /\ guard.mode = "enforce" => supported /\ "antigravity" \in cfg.requiredSchedulerFor
    /\ SharesFile(guard) => shared
    /\ DynamicValid(Shown)

(***************************************************************************)
(* What a comment and a test say and the code does not keep.               *)
(***************************************************************************)

\* A configuration set by the operator survives Reconfigure and restarts.
ChosenSurvives == [][cfg' # cfg => Dynamic(cfg') = chosen']_vars

=============================================================================
