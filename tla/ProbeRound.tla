----------------------------- MODULE ProbeRound -----------------------------
(***************************************************************************)
(* A probe round: list the host's credentials, ask the provider for the    *)
(* quota of each with a pool of workers, classify what came back, save the *)
(* state cache, plan, publish the plan and record the run.  runMu keeps    *)
(* rounds and host synchronisations apart, but not from configuration      *)
(* calls, which read and write the same file.  The caller may give up at   *)
(* any time, the host may change and the file system may fail.             *)
(***************************************************************************)
EXTENDS Planner

CONSTANTS
    Creds,       \* auth indexes, numbers so that they are ordered
    Scenarios,   \* configuration, files, hosts, answers and clock readings
    MaxHistory,  \* runs remembered
    MaxFaults,   \* bound on failing host calls and saves
    MaxMoves     \* bound on changes of the host

ASSUME CredsAssumption == Creds \subseteq Nat \ {0} /\ IsFiniteSet(Creds)
ASSUME BoundAssumption == MaxHistory \in Nat \ {0} /\ MaxFaults \in Nat /\ MaxMoves \in Nat

VARIABLES
    setup,      \* the scenario
    now,
    host,       \* what the host lists and what its documents say
    file,       \* the state cache
    setter,     \* the configuration call under way and the document it read
    puts,       \* configuration calls begun
    reverted,   \* history: a call wrote a document that a round had overtaken
    round,      \* rounds begun
    stage,      \* where the round in progress stands
    work,       \* its inputs, its store and its evidence
    pool,       \* the job feeder and the workers
    delivered,  \* results the collector has received
    broken,     \* it has received an error
    answered,   \* history: the answers behind the results delivered
    cancelled,  \* the round's context
    shown,      \* the snapshot on display
    runs,       \* run history in memory, newest first
    faults, moves

vars == <<setup, now, host, file, setter, puts, reverted, round, stage, work, pool,
          delivered, broken, answered, cancelled, shown, runs, faults, moves>>

Stages == {"idle", "collecting", "collected", "relisted", "saved", "published"}

config == setup.config
Keys == Creds \X Groups

RunType == [round : Nat, persisted : BOOLEAN]
FileType == [entries : [Keys -> EntryType], cooldowns : [Creds -> Nat], runs : Seq(RunType)]

\* A scenario begins with a file whose samples carry none of the rounds to
\* come.  An answer is one report with finitely many windows, or none.  The
\* start priorities, the tolerance and the group in control are those that
\* Validate lets through.
ASSUME ScenarioAssumption ==
    \A s \in Scenarios :
        /\ s.rounds \in Nat /\ s.puts \in Nat /\ s.times \subseteq Nat
        /\ s.config.workers \in Int /\ s.config.capacity \in Int
        /\ s.config.boost \in 1 .. MaxPriority /\ s.config.normal \in 1 .. s.config.boost
        /\ s.config.tolerance \in Nat /\ s.config.control \in Groups
        /\ s.file \in FileType /\ Len(s.file.runs) <= MaxHistory
        /\ \A k \in Keys : \A i \in DOMAIN s.file.entries[k].samples :
              s.file.entries[k].samples[i].round = NoRound
        /\ \A answer \in s.answers : \A report \in answer :
              /\ answer = {report}
              /\ \A g \in Groups : ReportType(report.named[g].windows \cup report.loose[g])

Listed == {c \in Creds : host[c].listed}

\* enrichCredentialsFromAuthDocuments: the document overrides the list.
Enriched(c) ==
    LET entry == host[c] IN
    [priority |-> IF entry.documentPriority = {} THEN entry.priority
                  ELSE CHOOSE p \in entry.documentPriority : TRUE,
     missing |-> entry.missing /\ entry.documentPriority = {},
     disabled |-> IF entry.documentDisabled = {} THEN entry.disabled
                  ELSE CHOOSE d \in entry.documentDisabled : TRUE]

\* state.Load puts the samples of every entry in order.
Loaded(f) ==
    [f EXCEPT !.entries = [k \in Keys |->
        LET known == Normalize(f.entries[k].samples, f.entries[k].baseline)
        IN [f.entries[k] EXCEPT !.samples = known.samples, !.baseline = known.baseline]]]

EntriesOf(store, group) == [c \in Creds |-> store.entries[<<c, group>>]]

\* GetActiveCooldowns forgets those that are over.
Pruned(store, at) ==
    [store EXCEPT !.cooldowns = [c \in Creds |-> IF at < @[c] THEN @[c] ELSE Zero]]

NoWork == [started |-> Zero, creds |-> {}, relisted |-> {}, store |-> Loaded(setup.file),
           observations |-> [g \in Groups |-> {}]]
NoCall == [loaded |-> FALSE, copy |-> Loaded(setup.file), overtaken |-> FALSE]
NoPool == [jobs |-> {}, feeder |-> "closed", idle |-> 0, busy |-> {}]

Workers(jobs) == Least(IF config.workers < 1 THEN 2 ELSE config.workers, jobs)
Parallel == Workers(Cardinality(work.creds)) > 1

-----------------------------------------------------------------------------
(***************************************************************************)
(* Projection: one plan for the group in control, one for the other.       *)
(***************************************************************************)
Alternate(group) == CHOOSE g \in Groups : g # group

Options(at, store) ==
    [now |-> at, boost |-> config.boost, normal |-> config.normal,
     minChange |-> config.minChange, tolerance |-> config.tolerance,
     ignoreDisabled |-> config.ignoreDisabled, cooldowns |-> Pruned(store, at).cooldowns]

\* A predicted plan carries no fresh change.
AsPredicted(changes) == {[c EXCEPT !.fresh = FALSE] : c \in changes}

GroupPlan(hosts, observations, options, predicted) ==
    LET view(plan) ==
            [items |-> plan.items, alerts |-> FailedCreds(observations),
             changes |-> IF predicted THEN AsPredicted(plan.changes) ELSE plan.changes]
    IN view(Plan(hosts, QuotaOf(observations, "fresh"), QuotaOf(observations, "historical"),
                 options))

Projection(hosts, observations, options) ==
    [g \in Groups |-> GroupPlan(hosts, observations[g], options, g # config.control)]

\* buildProjectionEvidence: history alone.
StoredEvidence(store, creds) ==
    [g \in Groups |-> Classify(g, creds, {}, EntriesOf(store, g))]

\* GetSamplesByProbeRound: what a file tells of one round.
SamplesOf(f, number) ==
    UNION {{[key |-> k, at |-> f.entries[k].samples[i].at] :
                i \in {j \in DOMAIN f.entries[k].samples :
                            f.entries[k].samples[j].round = number}} : k \in Keys}

\* What a synchronisation makes of a file.
SyncedWith(store, hosts, at) ==
    Projection(hosts, StoredEvidence(store, DOMAIN hosts), Options(at, store))

Synchronised(f, hosts, at) == SyncedWith(Loaded(f), hosts, at)

Display(by, hosts, probed, at, plans) ==
    [by |-> by, round |-> round, hosts |-> hosts, probed |-> probed, at |-> at, plans |-> plans]

NothingShown == [by |-> "nobody", round |-> 0, hosts |-> <<>>, probed |-> {}, at |-> Zero,
                 plans |-> <<>>]

-----------------------------------------------------------------------------
Init ==
    /\ setup \in Scenarios
    /\ now = 1
    /\ host \in setup.hosts
    /\ file = setup.file
    /\ setter = NoCall
    /\ puts = 0
    /\ reverted = FALSE
    /\ round = 0
    /\ stage = "idle"
    /\ work = NoWork
    /\ pool = NoPool
    /\ delivered = {}
    /\ broken = FALSE
    /\ answered = {}
    /\ cancelled = FALSE
    /\ shown = NothingShown
    /\ runs = <<>>
    /\ faults = 0
    /\ moves = 0

Fault == faults < MaxFaults /\ faults' = faults + 1
NoFault == UNCHANGED faults

\* The round is over and lets go of what it holds.
RoundOver ==
    /\ stage' = "idle"
    /\ work' = NoWork
    /\ pool' = NoPool
    /\ delivered' = {}
    /\ broken' = FALSE
    /\ answered' = {}
    /\ cancelled' = FALSE

outside == <<setup, now, host, moves, puts, reverted>>
collection == <<pool, delivered, broken, answered>>
document == <<file, setter>>
results == <<file, setter, shown, runs>>

\* The list of credentials, their documents and the state cache; the jobs of
\* the round and its workers.
Begin ==
    /\ stage = "idle" /\ round < setup.rounds
    /\ round' = round + 1
    /\ stage' = "collecting"
    /\ work' = [NoWork EXCEPT !.started = now, !.creds = Listed, !.store = Loaded(file)]
    /\ pool' = [jobs |-> Listed, feeder |-> "feeding",
                 idle |-> Workers(Cardinality(Listed)), busy |-> {}]
    /\ UNCHANGED <<outside, results, delivered, broken, answered, cancelled, faults>>

\* What the pool's goroutines do to it: a worker takes the next job, and
\* returns if the round was cancelled.
Hand(c) ==
    /\ stage = "collecting" /\ pool.feeder = "feeding" /\ pool.idle > 0
    /\ c \in pool.jobs /\ \A other \in pool.jobs : c <= other
    /\ pool' = [pool EXCEPT !.jobs = @ \ {c}, !.idle = @ - 1,
                            !.busy = IF Parallel /\ cancelled THEN @ ELSE @ \cup {c}]

\* A slip: the last job is forgotten.
HandedOut_OneShort == Cardinality(pool.jobs) <= 1
HandedOut == pool.jobs = {}

\* However the feeder stops, it closes the channel.
\* A slip: not when it is cancelled.
Stopped_Open == IF HandedOut THEN "closed" ELSE "gone"
Stopped == "closed"

Stop ==
    /\ stage = "collecting" /\ pool.feeder = "feeding"
    /\ HandedOut \/ (Parallel /\ cancelled)
    /\ pool' = [pool EXCEPT !.feeder = Stopped]

Leave ==
    /\ stage = "collecting" /\ pool.feeder = "closed" /\ pool.idle > 0
    /\ pool' = [pool EXCEPT !.idle = @ - 1]

Done(c, goesOn) ==
    /\ stage = "collecting" /\ c \in pool.busy
    /\ pool' = [pool EXCEPT !.busy = @ \ {c}, !.idle = IF goesOn THEN @ + 1 ELSE @]

PoolMoves ==
    Stop \/ Leave \/ \E c \in Creds : Hand(c) \/ \E goesOn \in BOOLEAN : Done(c, goesOn)

Take(c) ==
    /\ Hand(c)
    /\ UNCHANGED <<outside, results, round, stage, work, delivered, broken, answered, cancelled, faults>>

FeederStops ==
    /\ Stop
    /\ UNCHANGED <<outside, results, round, stage, work, delivered, broken, answered, cancelled, faults>>

WorkerReturns ==
    /\ Leave
    /\ UNCHANGED <<outside, results, round, stage, work, delivered, broken, answered, cancelled, faults>>

Parsed(c, answer, group) ==
    IF answer = {} THEN {FailedResult(c, group, work.started)}
    ELSE UNION {ParseGroup(c, a, group, work.started) : a \in answer}

\* recordAntigravityProbeResult for the first count of two results.
Noted(store, r) ==
    [store EXCEPT !.entries[<<r.cred, r.group>>] = Recorded(@, r, config.capacity, round)]

NotedFirst(store, first, second, count) ==
    IF count = 0 THEN store
    ELSE IF count = 1 THEN Noted(store, first)
    ELSE Noted(Noted(store, first), second)

\* probeAndRecord for one credential: no usable answer is {}.  The first count
\* groups are recorded; fewer than both means that the context was cancelled.
\* A worker that may send may also notice the cancellation.
Finish(c, answer, count, sent) ==
    /\ Done(c, sent /\ count = 2)
    /\ count < 2 => cancelled
    /\ sent \/ (cancelled /\ Parallel)
    /\ \E first \in Parsed(c, answer, "gemini"), second \in Parsed(c, answer, "claude_gpt") :
        /\ work' = [work EXCEPT !.store = NotedFirst(@, first, second, count)]
        /\ delivered' = IF sent /\ count = 2 THEN delivered \cup {first, second} ELSE delivered
    /\ answered' = IF sent /\ count = 2 THEN answered \cup {<<c, answer>>} ELSE answered
    /\ broken' = (broken \/ (sent /\ count < 2))
    /\ UNCHANGED <<outside, results, round, stage, cancelled, faults>>

AllGone == stage = "collecting" /\ pool.idle = 0 /\ pool.busy = {}

\* collectFreshEvidence, once the results are there: the evidence of each group.
FreshEvidence ==
    [g \in Groups |->
        LET entries == EntriesOf(work.store, g)
        IN EnrichFresh(Classify(g, work.creds, delivered, entries), entries)]

\* Every worker is gone.  An error ends the round; otherwise the results are
\* classified, even if some were dropped.
Collect ==
    /\ AllGone
    /\ IF broken THEN RoundOver
       ELSE /\ stage' = "collected"
            /\ work' = [work EXCEPT !.observations = FreshEvidence]
            /\ UNCHANGED <<collection, cancelled>>
    /\ UNCHANGED <<outside, results, round, faults>>

\* The inventory is read again, and the guard gets the evidence.
Relist ==
    /\ stage = "collected" /\ ~cancelled
    /\ stage' = "relisted"
    /\ work' = [work EXCEPT !.relisted = Listed]
    /\ UNCHANGED <<outside, results, collection, round, cancelled, faults>>

\* The round writes while a configuration call holds an older document.
Overtakes == setter' = [setter EXCEPT !.overtaken = setter.loaded]

\* SaveAtomic, which may fail after the file is replaced.
Save(confirmed) ==
    /\ stage = "relisted" /\ ~cancelled
    /\ IF confirmed THEN NoFault ELSE Fault
    /\ file' = work.store
    /\ Overtakes
    /\ IF confirmed THEN stage' = "saved" /\ UNCHANGED <<work, collection, cancelled>>
       ELSE RoundOver
    /\ UNCHANGED <<outside, round, shown, runs>>

\* A host call or a save fails, or finds its context cancelled.
Abort ==
    /\ stage \in {"collected", "relisted", "saved"}
    /\ IF cancelled THEN NoFault ELSE Fault
    /\ RoundOver
    /\ UNCHANGED <<outside, results, round>>

CurrentHost == [c \in work.relisted |-> Enriched(c)]

ProjectCurrentHost ==
    Projection(CurrentHost, work.observations, Options(work.started, work.store))

Push(run) == SubSeq(<<run>> \o runs, 1, Least(Len(runs) + 1, MaxHistory))

\* The documents are read again and the plans are shown; the run is noted as
\* persisted before it is.
Publish ==
    /\ stage = "saved" /\ ~cancelled
    /\ stage' = "published"
    /\ shown' = Display("probe", CurrentHost, work.creds, work.started, ProjectCurrentHost)
    /\ work' = [work EXCEPT !.store = Pruned(@, work.started)]
    /\ runs' = Push([round |-> round, persisted |-> TRUE])
    /\ UNCHANGED <<outside, document, collection, round, cancelled, faults>>

\* A save that fails is noted as a second run.
\* A slip: it is not noted.
RunsAfter_Unnoticed(outcome) == runs
RunsAfter(outcome) ==
    IF outcome = "saved" THEN runs ELSE Push([round |-> round, persisted |-> FALSE])

\* persistRun.
Record(outcome) ==
    /\ stage = "published"
    /\ cancelled => outcome = "failed"
    /\ IF outcome = "saved" \/ cancelled THEN NoFault ELSE Fault
    /\ IF outcome = "failed" THEN UNCHANGED document
       ELSE file' = [work.store EXCEPT !.runs = runs] /\ Overtakes
    /\ runs' = RunsAfter(outcome)
    /\ RoundOver
    /\ UNCHANGED <<outside, shown, round>>

\* SyncHost: the host as it is and the evidence of the file.
SyncHost ==
    /\ stage = "idle"
    /\ LET hosts == [c \in Listed |-> Enriched(c)] IN
       shown' = Display("sync", hosts, {}, now, Synchronised(file, hosts, now))
    /\ UNCHANGED <<outside, collection, document, runs, round, stage, work, cancelled, faults>>

-----------------------------------------------------------------------------
(***************************************************************************)
(* SetDynamicConfig: the whole document is read and written back with      *)
(* another configuration, at any moment of a round, one call at a time.    *)
(* What it configures is the matter of StateCache.                         *)
(***************************************************************************)
ConfigLoads ==
    /\ ~setter.loaded /\ puts < setup.puts
    /\ puts' = puts + 1
    /\ setter' = [loaded |-> TRUE, copy |-> Loaded(file), overtaken |-> FALSE]
    /\ UNCHANGED <<setup, now, host, moves, reverted, file, shown, runs, collection, round, stage,
                   work, cancelled, faults>>

ConfigSaves(replaced) ==
    /\ setter.loaded
    /\ file' = IF replaced THEN setter.copy ELSE file
    /\ reverted' = (reverted \/ (replaced /\ setter.overtaken))
    /\ setter' = NoCall
    /\ UNCHANGED <<setup, now, host, moves, puts, shown, runs, collection, round, stage, work,
                   cancelled, faults>>

-----------------------------------------------------------------------------
\* The caller gives up, or the runtime shuts down.
Cancel ==
    /\ stage # "idle" /\ ~cancelled /\ Fault
    /\ cancelled' = TRUE
    /\ UNCHANGED <<outside, results, collection, round, stage, work>>

HostMoves ==
    /\ moves < MaxMoves
    /\ host' \in setup.hosts \ {host}
    /\ moves' = moves + 1
    /\ UNCHANGED <<setup, now, puts, reverted, results, collection, round, stage, work, cancelled,
                   faults>>

\* Only a round that begins and a synchronisation read the clock.
Tick ==
    /\ stage = "idle"
    /\ now' \in {t \in setup.times : t > now}
    /\ UNCHANGED <<setup, host, moves, puts, reverted, results, collection, round, stage, work,
                   cancelled, faults>>

Next ==
    \/ Begin
    \/ \E c \in Creds : Take(c)
    \/ FeederStops
    \/ WorkerReturns
    \/ \E c \in Creds, answer \in setup.answers, count \in 0..2, sent \in BOOLEAN :
            Finish(c, answer, count, sent)
    \/ Collect
    \/ Relist
    \/ \E confirmed \in BOOLEAN : Save(confirmed)
    \/ Abort
    \/ Publish
    \/ \E outcome \in {"saved", "failed", "unconfirmed"} : Record(outcome)
    \/ SyncHost
    \/ ConfigLoads
    \/ \E replaced \in BOOLEAN : ConfigSaves(replaced)
    \/ Cancel
    \/ HostMoves
    \/ Tick

Spec == Init /\ [][Next]_vars

\* The goroutine of the round reaches its next statement: host calls and saves
\* return, with a result or an error.
RoundMoves ==
    /\ AllGone \/ stage \notin {"idle", "collecting"}
    /\ stage' \in Stages \ {stage}

FairSpec == Spec /\ WF_pool(PoolMoves) /\ WF_stage(RoundMoves)

-----------------------------------------------------------------------------
(***************************************************************************)
(* Properties.                                                             *)
(***************************************************************************)

\* Every variable has its type; a learned rate stays within its bounds.
RoundTypeOK ==
    /\ stage \in Stages /\ round \in 0..setup.rounds
    /\ host \in setup.hosts
    /\ work.creds \subseteq Creds /\ work.relisted \subseteq Creds
    /\ \A k \in Keys : file.entries[k].rate \in RateRange \cup {0}
    /\ pool.feeder \in {"feeding", "closed"}
    /\ pool.idle + Cardinality(pool.busy) <= Cardinality(work.creds)
    /\ Len(runs) <= MaxHistory /\ Len(file.runs) <= MaxHistory
    /\ broken \in BOOLEAN /\ cancelled \in BOOLEAN
    /\ faults \in 0..MaxFaults /\ moves \in 0..MaxMoves
    /\ puts \in 0..setup.puts /\ reverted \in BOOLEAN

\* The history that a round leaves in an entry it has learned from: sequence
\* numbers increase, neighbours differ, the configured capacity is kept, and
\* the baseline of the next estimate is still there; whatever the file held
\* before and however rounds, failures and cancellations mix.
SamplesSound ==
    \A k \in Keys :
        LET entry == work.store.entries[k]
            samples == entry.samples
        IN /\ \A i, j \in DOMAIN samples : i < j => samples[i].seq < samples[j].seq
           /\ \A i \in DOMAIN samples \ {1} : ~SameQuota(samples[i - 1], samples[i])
           /\ samples # <<>> => entry.baseline \in Sequences(samples)
           /\ (\E i \in DOMAIN samples : samples[i].round # NoRound)
                => Len(samples) <= Capacity(config.capacity)

\* A round that is saved is complete: every credential it listed has a result
\* for both groups, and the file shows it, unless a configuration call has put
\* back a document that a round had overtaken.  Results that a cancelled worker
\* drops without an error never get there.  The samples that the operator is
\* shown for the round are its own, at most one for a credential and group.
SavedRoundComplete ==
    stage \in {"saved", "published"} =>
        /\ \A c \in work.creds, g \in Groups :
             /\ \E r \in delivered : r.cred = c /\ r.group = g
             /\ reverted \/ file.entries[<<c, g>>].at = work.started
                         \/ file.entries[<<c, g>>].failed
        /\ reverted \/ \A s \in SamplesOf(Loaded(file), round) :
             /\ s.at = work.started
             /\ \E r \in delivered : <<r.cred, r.group>> = s.key /\ r.ready
             /\ \A t \in SamplesOf(Loaded(file), round) : t.key = s.key => t = s

\* What the guard is told of a credential admits an exhausted five-hour or
\* weekly window of its answer: nothing remains, and not before that reset.
ExhaustedSeen ==
    stage = "collected" =>
        \A g \in Groups, pair \in answered :
            \A answer \in pair[2], e \in QuotaOf(work.observations[g], "fresh") :
                e.cred = pair[1] =>
                    \A w \in CollectGroupWindows(answer, g) :
                        w.kind # "unknown" /\ w.remaining = 0
                            => GuardRemaining(e) = 0 /\ GuardReset(e) >= w.reset

\* A plan changes the host only for a credential whose quota of that group was
\* read in the round that shows it: failed probes preserve the host's state
\* (ADR 6), and a synchronisation changes nothing.
OnlyAnsweredChange ==
    \A g \in DOMAIN shown.plans : \A change \in shown.plans[g].changes :
        /\ shown.by = "probe"
        /\ change.cred \in shown.probed \ shown.plans[g].alerts
        /\ g # config.control => ~change.fresh

SameTarget(i, j) == i.priority = j.priority /\ i.disabled = j.disabled /\ i.reason = j.reason

\* A synchronisation right after a round shows the targets that the round
\* showed, with the rates just learned (probe_evidence.go 95-98), as long as no
\* credential has appeared meanwhile and no configuration call has put back a
\* document that a round had overtaken.
SyncAgrees ==
    (~reverted /\ shown.by = "probe" /\ shown.round = round /\ DOMAIN shown.hosts \subseteq shown.probed) =>
        LET later == Synchronised(file, shown.hosts, shown.at) IN
        \A g \in Groups : \E after \in {later[g]} :
            /\ after.alerts \cap DOMAIN shown.hosts
                 = shown.plans[g].alerts \cap DOMAIN shown.hosts
            /\ \A c \in DOMAIN shown.hosts :
                 SameTarget(ItemOf(shown.plans[g], c), ItemOf(after, c))

Shown == {shown.plans[g] : g \in DOMAIN shown.plans}
Ranked(plan, reason) == {i \in plan.items : i.reason = reason}

\* In a tier the more urgent credential never has the lower priority, and a
\* strictly higher one if the two are further apart than the tolerance, until
\* priorities run out: however the clusters between them fall.
UrgentFirst ==
    \A plan \in Shown, reason \in {"boosted", "remaining positive"} :
        \A a, b \in Ranked(plan, reason) :
            MoreUrgent(a.urgency, b.urgency) =>
                /\ a.priority >= b.priority
                /\ (Apart(a.urgency, b.urgency, config.tolerance) /\ b.priority > MinPriority)
                        => a.priority > b.priority

\* Boosted credentials come before regular ones (ADR 3) when the start
\* priorities leave room for the boosted clusters.
BoostedFirst ==
    \A plan \in Shown :
        config.boost - config.normal >= Cardinality(Ranked(plan, "boosted")) =>
            \A i \in Ranked(plan, "boosted"), j \in Ranked(plan, "remaining positive") :
                i.priority > j.priority

\* A host that has made the changes of a plan is left alone by the next plan
\* on the same evidence: plans do not alternate.
PlanSettles ==
    stage = "published" =>
        LET plan == shown.plans[config.control]
            changed == {i.cred : i \in plan.changes}
            after == [c \in DOMAIN shown.hosts |->
                        IF c \notin changed THEN shown.hosts[c]
                        ELSE [priority |-> ItemOf(plan, c).priority, missing |-> FALSE,
                              disabled |-> ItemOf(plan, c).disabled]]
        IN GroupPlan(after, work.observations[config.control],
                     Options(shown.at, work.store), FALSE).changes = {}

\* Between rounds, a newest run that says persisted is in the file, whatever
\* fails, unless a configuration call (runtime.go 761-771) has put back a
\* document that it had read before a round wrote.
NewestRunTrue ==
    stage = "idle" /\ runs # <<>> /\ Head(runs).persisted /\ ~reverted
        => file.runs # <<>> /\ Head(file.runs).round = Head(runs).round

\* The file forgets nothing until a configuration call puts back a document
\* that it had read before a round wrote (runtime.go 761-771): an entry keeps
\* what it measured and learned until a round measures it again, and its
\* samples never start over, whatever rounds, failures and calls come one after
\* the other.
NothingForgotten ==
    [][reverted' \/ \A k \in Keys :
        LET old == Loaded(file).entries[k]
            new == file'.entries[k]
        IN /\ \/ new.at = work.started
              \/ Measured(new) = Measured(old) /\ new.samples = old.samples /\ new.rate = old.rate
           /\ old.samples # <<>> =>
                new.samples # <<>> /\ Last(new.samples).seq >= Last(old.samples).seq]_file

\* A round ends: neither a cancelled worker nor a cancelled feeder leaves the
\* others waiting.
RoundEnds == stage # "idle" ~> stage = "idle"

=============================================================================
