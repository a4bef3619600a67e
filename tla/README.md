# Verification of CPA Antigravity Quota Guard

TLA+ models, TLC instances and TLAPS proofs for the quota guard, a plugin that keeps a
circuit breaker per (credential, model group) and decides which Antigravity credential
the CPA host may use for a request.  Everything is translated from the Go source under
`src/`; `PROJECT.json` maps each definition to its lines.

## 1. The system

| Component | State | Operations | Interacts with |
|---|---|---|---|
| Guard engine (`internal/guard`) | one breaker per (auth index, group), index by name, round-robin cursors, dirty counter | `ReplaceRoster`, `RegisterIdentity`, `Pick`, `ObserveUsage`, `ApplyQuotaEvidence`, `ManualHalfOpen`, `Load` | called by every handler under one mutex |
| Guard state file (`guard/store.go`) | JSON document on disk | `Load`, `Save` (temp file, rename, directory sync, read back) | written by workers and calls under `persistMu` |
| Guard runtime (`runtime/official_guard.go`, `runtime.go`) | active generation, a worker per generation, cancel functions, readiness flags | `Register`, `Reconfigure`, `SetDynamicConfig`, `Shutdown`, the worker loop | `access` lock against handlers, `persistMu` against saves, `configUpdateMu` between calls |
| Admission (`runtime/official_handlers.go`) | mode, readiness flags | scheduler pick, request interceptor, usage handler, management routes | host callbacks, engine |
| Probe round (`production_runner.go`, `probe_evidence.go`) | a task under `runMu`, a pool of workers, the store it loaded | list accounts, probe the provider, list again, apply evidence, save the cache, project, record | engine, state cache, host, provider |
| State cache (`internal/state`) | one document: entries with samples, cooldowns, run history, dynamic configuration | `Load`, `SaveAtomic`, `MarkProbeSuccess`, `MarkProbeFailure`, setters | probes and configuration calls |
| Provider parser, estimator, evidence (`provider/antigravity`, `state/estimator.go`, `internal/evidence`) | none; pure functions | parse an answer, learn a burn rate, classify a round's results | feed the probe round |
| Priority planner and projection (`internal/priority`, `runtime/projection.go`) | none; the snapshot on display | score, cluster, plan changes for both model groups | probe round, host synchronisation, page |
| Configuration (`internal/config`) | none; validated settings | `LoadBytes`, decoding, `Validate`, `ApplyTo` | configuration calls, state cache, engine |
| Legacy apply (`internal/apply`) | none; the host's credential documents | a round of transitions, its report | host; the official runtime answers `ErrLegacyMutationDisabled` |
| Host client, management page, C ABI, developer server | none | conversions and I/O | none |

### What is hard

* **Order.** Usage records are asynchronous: they arrive late, out of order, and after the
  credential behind a slot was replaced.  Probe results describe the moment the round
  began.  Results of a round that skips or drops some must not slip to the wrong credential.
* **Interleaving.** Handlers, workers of several generations, probes, configuration calls
  and shutdown share the engine, two files and four locks.  A probe and a configuration call each
  read, change and write back one whole document; so does a transition with a host credential.
* **Crash and failure.** A save can fail before its rename, or after it with the new file in
  place; the process can die at any step; what is not written is lost.  A host call may reach the
  host and report an error.
* **Boundaries.** Priorities run out, windows are missing, samples of older versions are duplicated or
  out of order, older documents omit what newer code needs.
* **Liveness.** A switch of configuration must not wait for a probe that waits for the
  switch; every change must reach the file; a round with cancelled workers must end; plans must
  not alternate.

Each of these is listed at its line under `hazards` in `PROJECT.json`, with the properties
that would catch it.

### What makes each component correct

* Engine: a credential known to be exhausted stays excluded until the announced reset; a 429
  never shortens that; every exclusion ends; only the request that holds a recovery lease
  settles it; knowledge never goes back in time nor crosses accounts; observe mode changes
  nothing; the saved roster can be loaded.
* Runtime: no accepted change is lost while the process lives, the file never goes back,
  a clean engine equals the file, shutdown saves, every call returns.
* Admission: the interceptor agrees with the pick it follows, readiness once reached is lost
  only to an incomplete inventory or to accounts of different priorities, a cold start erases nothing.
* State cache and configuration: what is in force is sound and was stored or given by the host, and calls
  and probes that do not overlap keep each other's part of the document.
* Probe round: it ends; what it saves is complete; its history can be learned from; nothing known is
  forgotten while no configuration call overlaps its save; exhaustion is passed on to the guard.
* Planner: the more urgent comes first, boosted before regular; only what was read in the round
  changes the host; a plan carried out is settled.
* Transitions: a denied change did not happen, an accepted one did, fields nobody asked to change
  survive, the report tells each credential its own result.

## 2. Modules

| Module | Models | Kind |
|---|---|---|
| `Breaker` | one breaker and its pure transitions | operators |
| `GuardEngine` | the engine, with the host and the probe round as environment | state machine |
| `Admission` | pick, interceptor and readiness around `GuardEngine` | state machine, extends `GuardEngine` |
| `DurableState` | what persistence promises | abstract specification |
| `GuardRuntime` | generations, workers, saves, calls, shutdown, crash; implements `DurableState` | state machine |
| `Config` | defaults, decoding, validation and merging of configurations | operators |
| `StateCache` | the state cache document and the configuration in force | state machine, extends `Config` |
| `QuotaReport` | an answer of the provider, and what the guard makes of it | operators |
| `Estimator` | samples and burn rate | operators, extends `QuotaReport` |
| `Evidence` | cache entries and the classification of results | operators, extends `Estimator` |
| `Planner` | scores, tiers, clusters, changes | operators, extends `Evidence` |
| `ProbeRound` | a round with its workers, saves, projection and record | state machine, extends `Planner` |
| `HostTransition` | a round of transitions on the host's documents | state machine |
| `MCGuardEngine`, `MCAdmission`, `MCGuardRuntime`, `MCStateCache`, `MCProbeRound`, `MCHostTransition` | instances for TLC | configuration |
| `GuardEngineProofs` | theorems about the engine's states, its steps and its index | proofs |
| `AdmissionProofs` | theorems about the engine with its handlers | proofs |
| `GuardRuntimeProofs` | theorems about the runtime | proofs |
| `StateCacheProofs` | theorems about the state cache and the configuration in force | proofs |
| `EvidenceProofs` | lemmas about histories, entries and answers | proofs |
| `PlannerProofs` | lemmas about scores, tiers, plans and plans that agree | proofs |
| `ProbeRoundProofs` | theorems about probe rounds | proofs |
| `HostTransitionProofs` | theorems about transitions | proofs |

The engine, its runtime and its admission form one family; the probe round with the pure modules below
it another; `StateCache` stands between them, as its document is what the two exchange over restarts.
`GuardEngine.StartProbe` to `EndProbe` is `ProbeRound` seen from the engine, and the task of
`StateCache` is `ProbeRound` seen from the file.

### State and actions

**Breaker and GuardEngine.**  `entries[<<index, group>>]` is the Go map of `*Entry`; times are
naturals, the zero time is 0.  Every engine method takes one mutex for its whole body, so each
is one action.  The fields that only the status page reads are left out.  `Pick` covers the
availability loop, the unknown-credential policy, the cursor and the lease.  `usage` holds
records the host has produced and not delivered; `ObserveUsage` takes any of them, so every
delay and order occurs.  `StartProbe` records who was in each slot, `ApplyQuotaEvidence` uses that
memory, and rosters may change in between.  `Reload` is a save followed by a load, which every
reconfiguration performs; it drops the unexported lease owner.  `MarksDirty` says that a roster may also
change the provider or priority of a breaker that stays.  `zeroUntil` is a history variable.

**Admission.**  Adds to the engine what the handlers look at: the mode, `inventoryReady`, `baselineReady`.
`SchedulerPick` is `handleSchedulerPick` with its gate: an enforcing guard that is not ready diverts to another
provider and does not ask the engine.  `Intercept` is `handleRequestAfter`, a separate step, so anything may
happen between the two.  `Reconfigure` stands for the three configuration calls; here the saved state is the
state in force (`GuardRuntime` models the file), and a call that is refused changes nothing.  `probing` is the
window between the inventory check that lets a probe in and the end of its round; a configuration call may
fall into it.  `priorities` is `Entry.Priority`: it comes from the host's list (`Prioritised`), at a roster update
of a probe round and at a configuration call that reconciles.  `BaselineFresh` is `Ready` and asks for uniform
priorities; `Carried` asks for them in the engine being prepared.  All groups are enforced.

**GuardRuntime.**  An engine is the set of changes it holds; events add one.  `worker[g]` is where the
goroutine of generation `g` stands; `call` is the holder of `configUpdateMu`.  Who holds `access` and
`persistMu` follows from these.  `Write` has three outcomes: done, failed before the rename, failed
after it.  `Crash` loses all but `saved`.  Only one probe runs (`runMu`), and the worker that probes
does not save meanwhile, as in the code.  `Event` may happen after shutdown, as the handlers do
not look at it.

**Config and StateCache.**  A configuration is a record; what a YAML text, a stored document or a request body
does not say is absent from the record's domain, and `Overlay` puts what it says over a default.  Paths are
sequences of names.  `chosen`, `stored`, `sampled` and the flags next to them are history variables.  The
task is a probe under `runMu` that holds a copy of the document and marks it with its round, which stands
for the samples; the setter is a PUT request: it reads the configuration in force, then `SetDynamicConfig` loads, saves
and installs under its locks.  `Start` is `New`, which merges and saves; `HostConfigures` is `Register` or
`Reconfigure`.  A probe of the worker is cancelled by a switch, one of the management API is not.
`GuardSaves` is the guard's own save when its path is the cache's.

**QuotaReport, Estimator, Evidence, Planner.**  Operators on records and sequences.  Where Go visits a map
in any order and the outcome depends on it, the operator returns the set of outcomes.  Rates are in hundredths
of a percent and scores in integers; the order of two scores is that of the code for the values of the instances.
A plan is its set of items and its set of changes; the order in which `SortPlanItems` lists them is left out.
A tier is a set of standings, and `Place` is the index that sorting with `CompareHealthyCandidates` gives one: the
number of those before it, as names are distinct.  `Clusters` is the loop of `planPositive` along these places.
A history is normalised by a recursive function on the number of samples taken in.

**ProbeRound.**  `stage` is where the goroutine of `runProductionTask` stands, `pool` the feeder, the idle and
the busy workers, `work` the store it loaded, changes and saves.  Jobs are handed out in the order of the
credentials' numbers: the feeder takes the least of `pool.jobs`.  `Finish` is `probeAndRecord` and the
`select` that delivers its results; `sent` and `count` say which of its exits it takes.  `Collect` runs when the
result channel is closed.  `Publish` and `Record` are the projection and `persistRun`.  The clock
moves between rounds only, as a round reads it once.  `setter` is a configuration call that has loaded the state cache:
`ConfigLoads` and `ConfigSaves` are the load and the save of `SetDynamicConfig`, which does not take `runMu`, so any
steps of a round may come between them.  What it sets is not in this module's document (`StateCache` has it), only that
the rest is written back as it was read.  A save of a round marks the call as overtaken, and `reverted` remembers
that such a call has replaced the file.  Calls come one at a time (`configUpdateMu`).  `answered`, `delivered` and `shown` feed the properties.

**HostTransition.**  One intent at a time: `Read`, `ReplaceReplies`, `Verify` are the three host calls of
`executeOne`, with everything that may happen between two of them: other writers (`Foreign`), a reply that is
lost, a caller that gives up.  `track` remembers, for the properties, whether the replacement reached the host and
when somebody else wrote.

## 3. Runs

All runs set `CHECK_DEADLOCK FALSE`: clocks, changes, failures and attempts are bounded, so every
bounded instance stops when its bounds are used up.

| Run | Shows | Bounds |
|---|---|---|
| `quota429` | `TypeOK`, `KnownZeroBlocks`, `OnlyOwnerSettles`, `HardNeverShortened` | one credential and group, two requests with success or explicit 429, clock to 4, resets up to 2 ahead |
| `rate429` | `EveryBlockEnds`, `KnowledgeOnlyGrows` | three requests with generic 429s (threshold 2, escalation after 3), clock to 3 |
| `roster` | `RosterIndexed`, `EvidenceStaysWithCredential` | two slots, two names, two accounts under one name, rosters that move them, observing and enforcing picks on a mixed route, one reload, clock to 2 |
| `admission` | `AdmissionTypeOK`, `PickedPasses`, `ReadinessSticks`, `ColdStartKeepsBreakers` | one request, two slots: both accounts with equal or different priorities, the first alone, or none; a mixed route, two configuration calls, one probe round with its roster updates, explicit 429s, clock to 3 with evidence stale after 1 |
| `runtime` | `TypeOK`, `CleanMeansStored`, `ShutdownFlushes`, refinement `DurableSpec`; `EventuallyStored`, `CallsEnd` under `FairSpec` | two changes, three generations, two failed writes, one background probe, one crash |
| `kept` | `TypeOK`, `OnlyStoredInForce`, `KeptWithoutOverlap`, `SamplesKept`, `InForceIsSound` | four initial files (none, foreign, an older version, an unsound one), two request bodies (an enforcing one and one that names the cache), three YAML texts; two PUTs, probes, starts and host calls, one failed write |
| `transition` | `TypeOK`, `DeniedNeverWrote`, `AloneIsExact`, `OthersKept`, `ReportAligned` | two credentials; rounds on both, on one twice, on none and one; two priorities, one foreign write, two failing calls |
| `rounds` | `RoundTypeOK`, `SamplesSound`, `SavedRoundComplete`, `ExhaustedSeen`, `OnlyAnsweredChange`, `SyncAgrees`, `UrgentFirst`, `BoostedFirst`, `PlanSettles`, `NewestRunTrue`, `NothingForgotten`; `RoundEnds` under `FairSpec` | four scenarios: one credential, five answers, up to three rounds, an empty file or one of an older version; two credentials with two workers and a host that changes; three credentials ranked; one credential with two rounds and two configuration calls between and during them; one failing call or cancellation each |

Why the bounds are enough: a lease, its owner, a late result of another request and a
429 need two requests; opening and escalating a generic breaker needs three failures with threshold
2; a stale worker needs two generations and a third for a second switch while the first
retires; the time constants (window 1, cooldowns 1 and 2, lease 1) make every comparison of the
code go both ways within four ticks.  Two rounds are the fewest in which one learns from the other, three the
fewest that fill a history of two samples and overflow it; two workers with two jobs show every way a pool can
be left; three credentials are the fewest whose clusters differ from those of neighbours.  A request and a
probe of the state cache overlap in every order with two of each.  Readiness needs one probe round to be
reached and a configuration call to be lost; a second round can only confirm it, and a second call meets a guard that has
lost it or kept it.  Properties that need other ingredients have a run of
their own, so no run carries dimensions its properties do not use.

Four runs are expected to find a violation; each is a disagreement between a document, comment or
test and the code, listed under `findings`: `generic_bound`, `ownerlost`, `unprobed`, `reverted`.

### What the properties leave out, and why

The conditions in some properties are what the code does not promise, met while modelling:

* `SamplesKept` and `KeptWithoutOverlap` except overlaps of a probe and a configuration call: both write back the
  whole document, and the later one wins (`reverted` shows one direction).
* `NewestRunTrue`, `NothingForgotten`, `SyncAgrees` and what `SavedRoundComplete` says of the file except the other
  direction: a configuration call that loaded the cache before a round's save and writes it back after it
  (runtime.go:761-771) restores old entries, samples and runs, while the runtime still shows the run as persisted.
  A call that no round has overtaken is not excepted, wherever it falls.
* `ReadinessSticks` names the two conditions of official_guard.go:118.  With different priorities in the host's list
  a configuration call drops readiness although the inventory is complete, and only a later round or call that
  finds one priority and fresh evidence restores it.
* They and `InForceIsSound` except a PUT that names the cache's path as the guard's state file while no
  cache exists.  `ApplyTo` does not compare the two paths, though config.go:24 says that they must stay
  separate; the guard's save then replaces the cache, which can no longer be loaded, and further
  PUTs fail.
* A stored document that says nothing of the guard, or a PUT of an empty object, puts the default guard into force
  in place of the host's YAML: stored configuration always overrides it.
* `OthersKept` excepts a foreign write between the read and the replacement; the host offers no
  compare-and-swap.
* `DeniedNeverWrote` excepts a write that is undone before it is read back.
* `BoostedFirst` holds where the start priorities leave room for the boosted clusters; nothing
  validates that they do.  Urgency compares the composite score (urgency.go:51-60).
* `UrgentFirst` compares neighbours at any distance but lets credentials of one cluster share a priority, and ends
  where priorities reach 1.
* `SyncAgrees` compares right after the round; a later synchronisation reads another clock.

### Fairness

`GuardRuntime!FairSpec` assumes weak fairness of each worker and of the call in progress: the Go scheduler runs
every runnable goroutine, the worker's ticker (`guardPersistInterval`) fires again and again, and a
probe ends because its HTTP calls have timeouts.  Nothing is assumed of the host, of
events or of crashes.  Failed writes are finitely many (`MaxFailures`), without which no save need
ever succeed; probes are bounded, so a worker cannot probe for ever.  A change that a crash takes away
before it was stored is excepted; `DurableSpec` says that nothing else takes one away.

`ProbeRound!FairSpec` assumes weak fairness of the pool (some goroutine of it that can move does) and of the
round's goroutine.  Host calls return, with an answer or an error: the client has a timeout.  Nothing is assumed
of cancellation, of the host or of synchronisations.

## 4. Theorems

They hold for every value of the constants that meets the named assumptions.  These ask that sets of data
are well formed, that the model values that stand for "none" are no data, and that bounds are numbers.
Four say something of the code or its host:

* `DefaultAssumption` (`Config`) says what the proofs need of the literal defaults: that they would be accepted.  TLC evaluates it.
* `InputAssumption` (`StateCache`) says that the host's YAML sets the guard's keys and those only the host may set, and
  does not move the state cache, which the model keeps at its default path.
* `ScenarioAssumption` (`ProbeRound`) says that the samples of a first file carry none of the round numbers to come, and that
  the start priorities, the tolerance and the group in control are ones that `Validate` accepts (config.go:364-387).
* `DepletedAssumption` (`HostTransition`) says that the priority of a depleted credential is one the host knows.

### Engine

* `GuardEngineProofs!TypeCorrect`: type correctness.
* `KnownZeroBlocksAlways`, `EveryBlockEndsAlways`.  The inductive invariant `IInv` adds to the two properties how far ahead
  recovery times and leases may lie, that recorded times are not in the future, that `zeroUntil` speaks only of
  entries that exist, and that what is in flight (usage records, the probe round) respects the same bounds; without
  these a late record could break either property.
* `GuardEngineProofs!EntryStep` says all that a step may do to one breaker (`EntryMoves`): it is replaced with its
  credential, takes a usage record or evidence of its own account, is leased or released, or stays.  From it follow
  `HardNeverShortenedAlways`, `EvidenceStaysWithCredentialAlways` and `KnowledgeOnlyGrowsAlways`; the last needs
  the invariant that what a breaker knows of the quota is not newer than the evidence it has (`QuotaKnown`).
* `RosterIndexedAlways`: the index by name and the breakers describe one roster.  It is inductive on well-typed
  states, because every roster that is applied has distinct names.
* `OnlyOwnerSettlesEnforcing`.  `OnlyOwnerSettles` is not true of every step of `GuardEngine` when its mode may
  change from pick to pick, as an observing engine does not ask who holds a lease.  In the code the mode
  belongs to the engine: a configuration call makes a new engine, and the load forgets the owners.  So the property is
  proved for engines that only enforce, and in `AdmissionProofs!OnlyOwnerSettlesAlways` for modes that change with
  configuration calls.  `OwnerKnows` carries the argument: whatever the owner of a lease has in flight or has reported for the
  leased breaker was sent under that lease.

### Admission

* `AdmissionTypeCorrect`, `AdmissionKeepsBlocks`, `AdmissionIndexed`: the engine's invariants are kept by the handlers and
  configuration calls too.  `AdmissionCases` shows that a step is one of the engine, a pick, a look of the
  interceptor, or a configuration call, and `ReconfigureMoves` what the last may do.
* `PickedPassesAlways`: the candidate that a pick returns opens the interceptor's gate in the state the pick
  leaves behind (`PickOpensGate`), including a lease that the pick itself took.
* `ReadinessSticksAlways`, `ColdStartKeepsBreakersAlways`: action properties, by cases on the step.  Only a configuration
  call lowers `inventory` or `baseline`; `ReadyStep` shows that one with the inventory and one priority in the new
  engine does not.

### Runtime

* `GuardRuntimeProofs!TypeCorrect` includes that each generation has exactly its worker and that `persistMu` has one holder.
* `CleanMeansStoredAlways`.  `CleanMeansStored` is not inductive: the strengthening says what the holder
  of `persistMu` has in its snapshot, that only the current generation writes, and that the engine a
  call has loaded still agrees with the file until it is installed.
* `Durability`: `Spec => DurableSpec`.  Initial states map to initial states; a change maps to
  `Accept`, a write to `Store`, a crash to `Crash`, everything else to a stutter, given the invariant.
* `ShutdownFlushesAlways`.  `Owed` carries the argument: from the moment `Shutdown` is called,
  either what it must save is in the file, or the worker of the active generation has neither left nor started
  its last write without it, or a write has failed.  `Leaving` says that a worker leaves only when its generation
  is cancelled, and before shutdown that is true of retired generations only; `Stopping` that nothing
  is installed after shutdown.

### State cache

* `StateCacheTypeCorrect`, `OnlyStoredInForceAlways`.  The lemmas on `Config` say that a settled configuration is written,
  read, decoded and validated to itself (`CanonicalSettles`, `SettledAccepted`, `CanonSettles`), which the code relies on when
  it reads back what it saved.  `CacheInv` says of the file, of the copies that the task and the setter hold and of
  the configuration in force that each is settled and was stored.
* `InForceIsSoundAlways`: `PreparedInv` adds that no guard in force has the cache as its own file unless a call named it, and that one
  which enforces is supported by the host.
* `SamplesKeptAlways`, `KeptWithoutOverlapAlways`: `SamplesInv` and `KeptInv` say what a copy in the hands of a task or a setter
  already has, as long as the two have not overlapped.

### Probe round

* `RoundTypeCorrect`.  `EvidenceProofs` has the lemmas: whatever samples a file holds, `Normalize` returns a history in
  order (`NormalizeInOrder`) and leaves one in order alone (`NormalizeSame`); `UpdateSound` and `MarkedSound` carry this over
  learning, retention and marking.  Such facts are about recursive functions on the natural numbers; they
  are proved by a least counterexample (`LeastNatural`) instead of induction.
* `SamplesSoundHolds` follows: a store is sound as soon as it is loaded, and stays so.
* `SavedRoundCompleteHolds`.  `PoolInv` says that no credential is lost between feeder, workers and collector: each listed one
  waits, is with a worker, or has delivered both results, unless the round was cancelled; and a cancelled round that lost
  one is never saved.  `Marks` says that samples marked with the current round come from a delivered result.
* `NothingForgottenHolds`: the store at hand remembers the file it was loaded from (`Remembers`), with whatever the
  workers have written into it meanwhile.  `CallOK` says of a configuration call that no round has overtaken that it holds
  what the file says, so writing it back loses nothing (`LoadedTwice`: a document that is loaded again is the same).
* `ExhaustedSeenHolds`: every exhausted window of an answer survives the parser (`ExhaustedPassed`: the effective window is as
  exhausted, and no earlier), and `EvidenceInv` follows the answer through results, classification and enrichment.
* `OnlyAnsweredChangeHolds`: a change of a plan has a fresh item, which comes from a fresh observation of a credential that did
  not fail; cached evidence yields none.
* `NewestRunHolds`: what the runtime shows as persisted was written by the save that ended the round, and no
  configuration call has put an older document back since (`CallOK`).
* `UrgentFirstHolds`, `BoostedFirstHolds`.  `PlannerProofs` shows that urgency is a strict weak order on fractions
  (`UrgencyTransitive`) and `Before` a strict total order on the standings of a tier, so every place has exactly one standing
  (`PlacesTaken`).  `ClusterSound` says what the walk along the places keeps: a cluster's anchor is at one of its places, its
  priority lies between the start less the places passed and the start.  `ClustersFall` then puts a standing that is further
  apart than the tolerance from an earlier one into a later cluster: the anchor of the later standing's cluster cannot lie
  before the earlier standing (`ApartFromAbove`).  `InOrderShown` is the invariant; it needs that the evidence of rounds and files is
  made of numbers (`FreshEvidenceTyped`, `StoredTyped`).
* `PlanSettlesHolds`: after its changes a credential is judged as before or left alone (`ChangedItem`), the tiers are
  the same (`TiersAgree`), so its target is what the host has by then (`PlanIsSettled`).
* `SyncAgreesHolds`.  What a plan makes of a host depends only on what the evidence of each credential says, not on whether
  it is fresh (`SameEvidence`).  A credential that was heard has just written its own entry (`Noticed`), and an unheard one is
  judged by its entry in both (`HeardAgrees`, `UnheardAgrees`); that the saved file holds the entries follows from `StoreInv`, that
  each credential has a result from `PoolInv`.  `Agreeing` carries the agreement from the publication over the record of the
  run, which writes the same entries with the cooldowns that were over removed (`SyncedSame`).  It needs that what is classified is
  still what the store holds (`ObservedNow`), that a successful result has a reset time (`ReadyReset`) and that no round
  begins at the zero time (`Clock`).

### Transitions

* `TypeCorrect`, `DeniedNeverWroteAlways`, `AloneIsExactAlways`, `OthersKeptAlways`.  A result is decided
  by the final read, so the invariant says what that read can find: `Reading` that the current intent expected
  the document it read and wants another one; `Replacing` that the host still has the document read unless somebody
  wrote it; `Verifying` that after the reply the host has the wanted document or the one read, according to
  whether the replacement arrived and nobody interfered.
* `ReportAlignedAlways`: the rank of a fresh change among the fresh ones is a bijection onto the results
  (`RankBijective`), each result bears the name of its intent (`InTurn`), and the counters count disjoint
  sets of results.

### Only model-checked

* Liveness: `EventuallyStored`, `CallsEnd`, `RoundEnds`.  Fairness and `ENABLED` are outside what the proof system handles.
* What a run checks and the theorems do not say: that the instances reach the interesting cases, which the
  mutants show.  Every invariant and every action property of a passing run is also a theorem.

## 5. Not modelled

* Path, symlink and permission checks of the files, JSON, HTTP and C ABI glue, redaction, the management page and its
  translations, the developer server: input and output without state of their own.
* The text of YAML (`config/parse.go`), of numbers and times in quota answers and reset headers, and of model names:
  the models start from what these are recognised as.
* The schedule window: it is stored and validated, and nothing in the official runtime acts on it.
  `SetScheduleConfig`, which only the legacy handler calls, loads and saves the state cache as `SetDynamicConfig` does but
  outside `configUpdateMu`; what it does to the rest of the document is `ConfigLoads` and `ConfigSaves`, its overlap with
  another configuration call is not modelled.
* Automatic and manual apply of the official runtime, which end with `ErrLegacyMutationDisabled`; `HostTransition` models
  the library they would call.
* Groups that are not enforced in `Admission`; `RequireUniformPriority`, which decides only how a call that enforces
  without uniform priorities is refused; metrics; diagnostics.
* Floating point: rates and scores are integers, so ties that rounding makes or breaks are not examined.

## 6. Plan

1. An abstract breaker (excluded until a time, recovering, available) that `GuardEngine` implements.
2. A version of the roster in `GuardEngine`.  `ReplaceRoster` takes any list of `HostRosters` at any time, so lists that are
   applied late or in the opposite order are covered by every property of the engine; which list is the newest is not
   expressed.
