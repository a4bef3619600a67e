--------------------------- MODULE ProbeRoundProofs ---------------------------
(***************************************************************************)
(* Theorems about ProbeRound for every value of its constants: any number  *)
(* of credentials, workers and rounds, any files, hosts and answers.       *)
(***************************************************************************)
EXTENDS ProbeRound, PlannerProofs

\* What a file may hold after n rounds, and what a store in order holds.
FileOK(f, n, configured) ==
    /\ f \in FileType
    /\ Len(f.runs) <= MaxHistory
    /\ \A k \in Keys :
         LET samples == f.entries[k].samples IN
         /\ RoundsOf(samples) \subseteq 0 .. n
         /\ (\E i \in DOMAIN samples : samples[i].round # NoRound)
              => Len(samples) <= Capacity(configured)

StoreOK(f, n, configured) ==
    /\ FileOK(f, n, configured)
    /\ \A k \in Keys : HistorySound(f.entries[k].samples, f.entries[k].baseline)

WorkShape(w) ==
    w = [started |-> w.started, creds |-> w.creds, relisted |-> w.relisted, store |-> w.store,
         observations |-> w.observations]

PoolType ==
    [jobs : SUBSET Creds, feeder : {"feeding", "closed"}, idle : Nat, busy : SUBSET Creds]

Idle ==
    /\ work = NoWork /\ pool = NoPool
    /\ delivered = {} /\ broken = FALSE /\ answered = {} /\ cancelled = FALSE

WorldOK ==
    /\ setup \in Scenarios /\ now \in Nat /\ host \in setup.hosts /\ moves \in 0 .. MaxMoves
    /\ puts \in 0 .. setup.puts /\ reverted \in BOOLEAN

FilesOK ==
    /\ round \in 0 .. setup.rounds
    /\ FileOK(file, round, config.capacity)
    /\ runs \in Seq(RunType) /\ Len(runs) <= MaxHistory

\* A configuration call that no round has overtaken holds what the file says.
CallOK ==
    /\ setter \in [loaded : BOOLEAN, copy : FileType, overtaken : BOOLEAN]
    /\ FileOK(setter.copy, round, config.capacity)
    /\ setter.loaded /\ ~setter.overtaken => setter.copy = Loaded(file)

WorkOK ==
    /\ WorkShape(work) /\ work.started \in Nat
    /\ work.creds \subseteq Creds /\ work.relisted \subseteq Creds
    /\ StoreOK(work.store, round, config.capacity)

PoolOK ==
    /\ pool \in PoolType
    /\ pool.jobs \subseteq work.creds /\ pool.busy \subseteq work.creds
    /\ pool.idle + Cardinality(pool.busy) <= Cardinality(work.creds)

FlagsOK ==
    stage \in Stages /\ broken \in BOOLEAN /\ cancelled \in BOOLEAN /\ faults \in 0 .. MaxFaults

TypeInv ==
    WorldOK /\ FilesOK /\ CallOK /\ WorkOK /\ PoolOK /\ FlagsOK /\ (stage = "idle" => Idle)

-----------------------------------------------------------------------------
(***************************************************************************)
(* Files and stores.                                                       *)
(***************************************************************************)
LEMMA SetupTyped ==
    ASSUME setup \in Scenarios
    PROVE  /\ setup.rounds \in Nat /\ setup.puts \in Nat /\ setup.times \subseteq Nat
           /\ config.workers \in Int /\ config.capacity \in Int
           /\ setup.file \in FileType /\ Len(setup.file.runs) <= MaxHistory
           /\ \A k \in Keys : \A i \in DOMAIN setup.file.entries[k].samples :
                setup.file.entries[k].samples[i].round = NoRound
  BY ScenarioAssumption DEF config

\* An answer is at most one report.
LEMMA AnswersTyped ==
    ASSUME setup \in Scenarios, NEW answer \in setup.answers, NEW report \in answer
    PROVE  answer = {report} /\ AnswerType(report)
  BY ScenarioAssumption DEF AnswerType

\* The file of a scenario is one that any number of rounds may have left.
LEMMA FirstFileOK ==
    ASSUME setup \in Scenarios, NEW n \in Nat
    PROVE  FileOK(setup.file, n, config.capacity)
<1>1. /\ setup.file \in FileType /\ Len(setup.file.runs) <= MaxHistory
      /\ \A k \in Keys : \A i \in DOMAIN setup.file.entries[k].samples :
           setup.file.entries[k].samples[i].round = NoRound
  BY SetupTyped
<1>2. \A k \in Keys : RoundsOf(setup.file.entries[k].samples) \subseteq 0 .. n
  BY <1>1 DEF RoundsOf, NoRound
<1>3. QED  BY <1>1, <1>2 DEF FileOK

\* The fields of an entry.
LEMMA EntryTyped ==
    ASSUME NEW entry \in EntryType
    PROVE  /\ entry.samples \in Seq(SampleType) /\ entry.baseline \in Nat
           /\ entry.rate \in RateRange \cup {0} /\ entry.at \in Nat
  BY DEF EntryType

\* Reading a file puts its histories in order and keeps everything else.
LEMMA LoadedEntries ==
    ASSUME NEW f \in FileType, NEW k \in Keys
    PROVE  LET old == f.entries[k]
               new == Loaded(f).entries[k]
               known == Normalize(old.samples, old.baseline)
           IN /\ new \in EntryType
              /\ Measured(new) = Measured(old) /\ new.rate = old.rate /\ new.failed = old.failed
              /\ new.at = old.at
              /\ new.samples = known.samples /\ new.baseline = known.baseline
<1> DEFINE old == f.entries[k]
           known == Normalize(old.samples, old.baseline)
           new == [old EXCEPT !.samples = known.samples, !.baseline = known.baseline]
<1>1. old \in EntryType
  BY DEF FileType
<1>2. known.samples \in Seq(SampleType) /\ known.baseline \in Nat
  BY <1>1, EntryTyped, NormalizeInOrder DEF InOrder
<1>3. Loaded(f).entries[k] = new
  BY DEF Loaded, FileType
<1> HIDE DEF old, known
<1> DEFINE s == known.samples
           b == known.baseline
<1> HIDE DEF s, b
<1>4. s \in Seq(SampleType) /\ b \in Nat
  BY <1>2 DEF s, b
<1> DEFINE mid == [old EXCEPT !.samples = s]
           end == [mid EXCEPT !.baseline = b]
<1>5. mid \in EntryType /\ mid.samples = s /\ mid.rate = old.rate /\ mid.failed = old.failed
      /\ mid.at = old.at /\ \A m \in Measures : mid[m] = old[m]
  BY <1>1, <1>4 DEF EntryType, Measures
<1> HIDE DEF mid
<1>6. end \in EntryType /\ end.samples = s /\ end.baseline = b /\ end.rate = old.rate
      /\ end.failed = old.failed /\ end.at = old.at /\ \A m \in Measures : end[m] = old[m]
  BY <1>4, <1>5 DEF EntryType, Measures
<1>7. new = end
  BY DEF mid, s, b
<1> HIDE DEF new, end
<1>8. Measured(new) = Measured(old)
  BY <1>6, <1>7 DEF Measured
<1>9. QED  BY <1>3, <1>6, <1>7, <1>8 DEF s, b, known, old

\* Reading a file gives a file with the same runs and cooldowns.
LEMMA LoadedTyped ==
    ASSUME NEW f \in FileType
    PROVE  Loaded(f) \in FileType /\ Loaded(f).runs = f.runs /\ Loaded(f).cooldowns = f.cooldowns
<1> DEFINE entries == [k \in Keys |->
              LET known == Normalize(f.entries[k].samples, f.entries[k].baseline)
              IN [f.entries[k] EXCEPT !.samples = known.samples, !.baseline = known.baseline]]
<1>1. Loaded(f) = [f EXCEPT !.entries = entries]
  BY DEF Loaded
<1>2. \A k \in Keys : entries[k] = Loaded(f).entries[k]
  BY <1>1 DEF FileType
<1>3. \A k \in Keys : entries[k] \in EntryType
  BY <1>2, LoadedEntries
<1>4. entries = [k \in Keys |-> entries[k]]
  OBVIOUS
<1> HIDE DEF entries
<1>5. entries \in [Keys -> EntryType]
  BY <1>3, <1>4
<1>6. QED  BY <1>1, <1>5 DEF FileType

\* Reading a file gives a store in order.
LEMMA LoadedOK ==
    ASSUME NEW f, NEW n \in Nat, NEW configured, FileOK(f, n, configured)
    PROVE  StoreOK(Loaded(f), n, configured)
<1>1. f \in FileType /\ Loaded(f) \in FileType /\ Loaded(f).runs = f.runs
  BY LoadedTyped DEF FileOK
<1>2. ASSUME NEW k \in Keys
      PROVE  LET samples == Loaded(f).entries[k].samples IN
             /\ RoundsOf(samples) \subseteq 0 .. n
             /\ (\E i \in DOMAIN samples : samples[i].round # NoRound)
                  => Len(samples) <= Capacity(configured)
             /\ HistorySound(samples, Loaded(f).entries[k].baseline)
  <2> DEFINE old == f.entries[k]
             new == Loaded(f).entries[k]
             cap == Capacity(configured)
  <2>1. old \in EntryType
    BY <1>1 DEF FileType
  <2>2. /\ new.samples = Normalize(old.samples, old.baseline).samples
        /\ new.baseline = Normalize(old.samples, old.baseline).baseline
    BY <1>1, LoadedEntries
  <2>3. old.samples \in Seq(SampleType) /\ old.baseline \in Nat
    BY <2>1, EntryTyped
  <2>4. /\ RoundsOf(old.samples) \subseteq 0 .. n
        /\ (\E i \in DOMAIN old.samples : old.samples[i].round # NoRound)
             => Len(old.samples) <= cap
    BY DEF FileOK
  <2> HIDE DEF old, new, cap
  <2>5. /\ HistorySound(new.samples, new.baseline)
        /\ Len(new.samples) <= Len(old.samples)
        /\ RoundsOf(new.samples) \subseteq RoundsOf(old.samples)
    BY <2>2, <2>3, NormalizeInOrder DEF HistorySound
  <2>6. (\E i \in DOMAIN new.samples : new.samples[i].round # NoRound) => Len(new.samples) <= cap
    <3> SUFFICES ASSUME NEW i \in DOMAIN new.samples, new.samples[i].round # NoRound
                 PROVE  Len(new.samples) <= cap
      OBVIOUS
    <3>1. new.samples[i].round \in RoundsOf(old.samples)
      BY <2>5 DEF RoundsOf
    <3>2. Len(old.samples) <= cap
      BY <2>4, <3>1 DEF RoundsOf
    <3>3. Len(new.samples) \in Nat /\ Len(old.samples) \in Nat /\ cap \in Nat
      BY <2>3, <2>5, CapacityPositive DEF HistorySound, InOrder, cap
    <3>4. QED  BY <2>5, <3>2, <3>3
  <2>7. QED  BY <2>4, <2>5, <2>6 DEF new, cap
<1>3. Len(Loaded(f).runs) <= MaxHistory
  BY <1>1 DEF FileOK
<1>4. QED  BY <1>1, <1>2, <1>3 DEF StoreOK, FileOK

\* Reading what a round has saved changes no history.
LEMMA LoadedSame ==
    ASSUME NEW f, NEW n \in Nat, NEW configured, StoreOK(f, n, configured), NEW k \in Keys
    PROVE  /\ Loaded(f).entries[k].samples = f.entries[k].samples
           /\ Measured(Loaded(f).entries[k]) = Measured(f.entries[k])
           /\ Loaded(f).entries[k].rate = f.entries[k].rate
           /\ Loaded(f).entries[k].at = f.entries[k].at
<1>1. f \in FileType /\ InOrder(f.entries[k].samples) /\ f.entries[k].baseline \in Nat
  BY DEF StoreOK, FileOK, HistorySound
<1>2. QED  BY <1>1, LoadedEntries, NormalizeSame

\* Reading a file a second time changes nothing.
LEMMA LoadedTwice ==
    ASSUME NEW f \in FileType
    PROVE  Loaded(Loaded(f)) = Loaded(f)
<1> DEFINE once == Loaded(f)
           twice == Loaded(once)
<1>1. once \in FileType /\ twice \in FileType
      /\ twice.runs = once.runs /\ twice.cooldowns = once.cooldowns
  BY LoadedTyped
<1>2. ASSUME NEW k \in Keys PROVE twice.entries[k] = once.entries[k]
  <2> DEFINE e == once.entries[k]
             known == Normalize(e.samples, e.baseline)
             old == f.entries[k]
  <2>1. e \in EntryType /\ old \in EntryType
    BY <1>1 DEF FileType
  <2>2. /\ e.samples = Normalize(old.samples, old.baseline).samples
        /\ e.baseline = Normalize(old.samples, old.baseline).baseline
    BY LoadedEntries
  <2>3. /\ old.samples \in Seq(SampleType) /\ old.baseline \in Nat
    BY <2>1, EntryTyped
  <2>4. twice.entries[k] = [e EXCEPT !.samples = known.samples, !.baseline = known.baseline]
    BY <1>1 DEF Loaded, FileType
  <2> HIDE DEF e, old
  <2>5. /\ InOrder(e.samples) /\ e.baseline \in Nat
        /\ e.samples = <<>> <=> old.samples = <<>>
        /\ e.samples # <<>> => e.baseline \in Sequences(e.samples)
    BY <2>2, <2>3, NormalizeInOrder
  <2>6. known.samples = e.samples /\ known.baseline = e.baseline
    <3>1. CASE e.samples = <<>>
      BY <2>2, <2>5, <3>1 DEF Normalize
    <3>2. CASE e.samples # <<>>
      BY <2>5, <3>2, NormalizeSame
    <3>3. QED  BY <3>1, <3>2
  <2> HIDE DEF known
  <2>7. [e EXCEPT !.samples = e.samples, !.baseline = e.baseline] = e
    BY <2>1 DEF EntryType
  <2>8. QED  BY <2>4, <2>6, <2>7 DEF e
<1> HIDE DEF once, twice
<1>3. twice.entries = once.entries
  BY <1>1, <1>2 DEF FileType
<1>4. \A x \in FileType : x = [entries |-> x.entries, cooldowns |-> x.cooldowns, runs |-> x.runs]
  BY DEF FileType
<1>5. twice = once
  BY <1>1, <1>3, <1>4
<1>6. QED  BY <1>5 DEF once, twice

-----------------------------------------------------------------------------
(***************************************************************************)
(* Results and what the store notes of them.                               *)
(***************************************************************************)
LEMMA ParsedResult ==
    ASSUME setup \in Scenarios, NEW c \in Creds, NEW answer \in setup.answers, NEW g \in Groups,
           work.started \in Nat, NEW r \in Parsed(c, answer, g)
    PROVE  /\ r.cred = c /\ r.group = g /\ r.at = work.started /\ r.ready \in BOOLEAN
           /\ Measurable(r)
           /\ r.ready => \E report \in answer : r \in ParseGroup(c, report, g, work.started)
<1>1. CASE answer = {}
  <2>1. r = FailedResult(c, g, work.started)
    BY <1>1 DEF Parsed
  <2>2. QED  BY <2>1 DEF FailedResult, Measurable, Zero, Missing
<1>2. CASE answer # {}
  <2>1. PICK report \in answer : r \in ParseGroup(c, report, g, work.started)
    BY <1>2 DEF Parsed
  <2>2. AnswerType(report)
    BY AnswersTyped
  <2>3. QED  BY <2>1, <2>2, ParsedTyped
<1>3. QED  BY <1>1, <1>2

\* The entries of a store in order are sound.
LEMMA EntryOfStore ==
    ASSUME NEW f, NEW n, NEW configured, StoreOK(f, n, configured), NEW k \in Keys
    PROVE  EntrySound(f.entries[k], configured) /\ RoundsOf(f.entries[k].samples) \subseteq 0 .. n
  BY DEF StoreOK, FileOK, FileType, EntrySound

\* An entry that shows what a result has measured.
Shows(entry, r) == ~entry.failed /\ Measured(entry) = Measured(r)

\* That is what a successful probe leaves.
LEMMA SuccessShows ==
    ASSUME NEW entry, NEW r, NEW configured, NEW number
    PROVE  Shows(Success(entry, r, configured, number), r)
<1> DEFINE learned == Marked(entry.samples, UpdateSamples(entry, r, configured), number)
           new == Success(entry, r, configured, number)
<1>1. new = [at |-> r.at, reset |-> r.reset, rem |-> r.rem,
             sreset |-> r.sreset, srem |-> r.srem, lreset |-> r.lreset, lrem |-> r.lrem,
             failed |-> FALSE, rate |-> learned.rate, samples |-> learned.samples,
             baseline |-> learned.baseline]
  BY DEF Success
<1> HIDE DEF new, learned
<1>2. new.failed = FALSE /\ \A m \in Measures : new[m] = r[m]
  BY <1>1 DEF Measures
<1>3. ~new.failed /\ Measured(new) = Measured(r)
  BY <1>2 DEF Measured
<1>4. QED  BY <1>3 DEF Shows, new

\* How a result changes its entry.
NotedEntry(old, new, r) ==
    /\ r.ready =>
         /\ new.at = r.at /\ Shows(new, r)
         /\ Left(old.samples, new.samples, r.at, round, Capacity(config.capacity))
    /\ ~r.ready => new.failed /\ SameKnowledge(old, new)

\* Noting a result changes its own entry.
LEMMA NotedOK ==
    ASSUME NEW store, NEW n \in Nat, StoreOK(store, n, config.capacity), round \in 0 .. n,
           NEW r, r.cred \in Creds, r.group \in Groups, r.ready \in BOOLEAN, Measurable(r)
    PROVE  LET new == Noted(store, r)
               key == <<r.cred, r.group>>
           IN /\ StoreOK(new, n, config.capacity)
              /\ new.runs = store.runs
              /\ \A k \in Keys \ {key} : new.entries[k] = store.entries[k]
              /\ NotedEntry(store.entries[key], new.entries[key], r)
<1> DEFINE key == <<r.cred, r.group>>
           old == store.entries[key]
           entry == Recorded(old, r, config.capacity, round)
           new == Noted(store, r)
           cap == Capacity(config.capacity)
<1>1. key \in Keys
  BY DEF Keys
<1> HIDE DEF key
<1>2. EntrySound(old, config.capacity) /\ RoundsOf(old.samples) \subseteq 0 .. n /\ round \in Nat
  BY <1>1, EntryOfStore
<1> HIDE DEF old
<1>3. EntrySound(entry, config.capacity) /\ NotedEntry(old, entry, r)
  <2>1. CASE r.ready
    <3>1. entry = Success(old, r, config.capacity, round)
      BY <2>1 DEF Recorded
    <3>2. QED  BY <1>2, <2>1, <3>1, SuccessSound, SuccessShows DEF NotedEntry
  <2>2. CASE ~r.ready
    <3>1. entry = Failure(old)
      BY <2>2 DEF Recorded
    <3>2. QED  BY <1>2, <2>2, <3>1, FailureSound DEF NotedEntry
  <2>3. QED  BY <2>1, <2>2
<1> HIDE DEF entry
<1>4. RoundsOf(entry.samples) \subseteq 0 .. n
  <2>1. CASE r.ready
    <3>1. \A i \in DOMAIN entry.samples :
            entry.samples[i].round \in RoundsOf(old.samples) \/ entry.samples[i].round = round
      BY <1>3, <2>1 DEF NotedEntry, Left
    <3>2. QED  BY <1>2, <3>1 DEF RoundsOf
  <2>2. CASE ~r.ready
    BY <1>2, <1>3, <2>2 DEF NotedEntry, SameKnowledge
  <2>3. QED  BY <2>1, <2>2
<1>5. entry \in EntryType
  BY <1>3 DEF EntrySound
<1>6. store \in FileType /\ Len(store.runs) <= MaxHistory
  BY DEF StoreOK, FileOK
<1>7. new = [store EXCEPT !.entries[key] = entry]
  BY DEF Noted, entry, old, key
<1> HIDE DEF new
<1> DEFINE entries == [store.entries EXCEPT ![key] = entry]
<1>8. new = [store EXCEPT !.entries = entries]
  BY <1>6, <1>7 DEF FileType
<1>9. entries \in [Keys -> EntryType]
  BY <1>5, <1>6 DEF FileType
<1>10. \A k \in Keys : entries[k] = IF k = key THEN entry ELSE store.entries[k]
  BY <1>6 DEF FileType
<1> HIDE DEF entries
<1>11. new \in FileType /\ new.runs = store.runs /\ new.entries = entries
  BY <1>6, <1>8, <1>9 DEF FileType
<1>12. ASSUME NEW k \in Keys
       PROVE  LET samples == new.entries[k].samples IN
              /\ RoundsOf(samples) \subseteq 0 .. n
              /\ (\E i \in DOMAIN samples : samples[i].round # NoRound)
                   => Len(samples) <= Capacity(config.capacity)
              /\ HistorySound(samples, new.entries[k].baseline)
  <2>1. CASE k = key
    BY <1>3, <1>4, <1>10, <1>11, <2>1 DEF EntrySound
  <2>2. CASE k # key
    <3>1. new.entries[k] = store.entries[k]
      BY <1>10, <1>11, <2>2
    <3>2. QED  BY <3>1, EntryOfStore DEF EntrySound
  <2>3. QED  BY <2>1, <2>2
<1>13. StoreOK(new, n, config.capacity)
  BY <1>6, <1>11, <1>12 DEF StoreOK, FileOK
<1>14. /\ \A k \in Keys \ {key} : new.entries[k] = store.entries[k]
       /\ new.entries[key] = entry
  BY <1>1, <1>10, <1>11
<1>15. QED  BY <1>3, <1>11, <1>13, <1>14 DEF new, key, old

\* How the results of a credential change the store; one that was not noted
\* was left out because of a cancellation.
Effect(old, new, c, first, second, count) ==
    /\ new.runs = old.runs
    /\ \A k \in Keys : k[1] # c => new.entries[k] = old.entries[k]
    /\ \A r \in {first, second} :
         LET k == <<c, r.group>> IN
         \/ NotedEntry(old.entries[k], new.entries[k], r)
         \/ count < 2 /\ new.entries[k] = old.entries[k]

ResultOf(r, c, g) ==
    r.cred = c /\ r.group = g /\ r.ready \in BOOLEAN /\ Measurable(r)

\* Noting none, one or two results of a credential leaves the store in order.
LEMMA NotedFirstOK ==
    ASSUME NEW store, NEW n \in Nat, StoreOK(store, n, config.capacity), round \in 0 .. n,
           NEW c \in Creds, NEW first, ResultOf(first, c, "gemini"),
           NEW second, ResultOf(second, c, "claude_gpt"), NEW count \in 0 .. 2
    PROVE  LET new == NotedFirst(store, first, second, count) IN
           /\ StoreOK(new, n, config.capacity)
           /\ Effect(store, new, c, first, second, count)
<1> DEFINE one == Noted(store, first)
           two == Noted(one, second)
           k1 == <<c, "gemini">>
           k2 == <<c, "claude_gpt">>
<1>1. /\ first.cred = c /\ first.group = "gemini" /\ first.ready \in BOOLEAN /\ Measurable(first)
      /\ second.cred = c /\ second.group = "claude_gpt" /\ second.ready \in BOOLEAN
      /\ Measurable(second)
  BY DEF ResultOf
<1>2. /\ k1 \in Keys /\ k2 \in Keys /\ k1 # k2 /\ k1[1] = c /\ k2[1] = c
      /\ first.group \in Groups /\ second.group \in Groups
  BY <1>1 DEF Keys, Groups
<1>3. /\ StoreOK(one, n, config.capacity)
      /\ one.runs = store.runs
      /\ \A k \in Keys \ {k1} : one.entries[k] = store.entries[k]
      /\ NotedEntry(store.entries[k1], one.entries[k1], first)
  BY <1>1, <1>2, NotedOK
<1> HIDE DEF one
<1>4. /\ StoreOK(two, n, config.capacity)
      /\ two.runs = one.runs
      /\ \A k \in Keys \ {k2} : two.entries[k] = one.entries[k]
      /\ NotedEntry(one.entries[k2], two.entries[k2], second)
  <2>1. <<second.cred, second.group>> = k2 /\ second.cred \in Creds
    BY <1>1
  <2>2. StoreOK(one, n, config.capacity)
    BY <1>3
  <2> HIDE DEF k1, k2
  <2>3. QED  BY <1>1, <1>2, <2>1, <2>2, NotedOK
<1> HIDE DEF two, k1, k2
<1>5. CASE count = 0
  <2>1. NotedFirst(store, first, second, count) = store
    BY <1>5 DEF NotedFirst
  <2>2. QED  BY <1>5, <2>1 DEF Effect
<1>6. CASE count = 1
  <2>1. NotedFirst(store, first, second, count) = one
    BY <1>6 DEF NotedFirst, one
  <2>2. \A k \in Keys : k[1] # c => one.entries[k] = store.entries[k]
    BY <1>2, <1>3
  <2>3. one.entries[k2] = store.entries[k2]
    BY <1>2, <1>3
  <2>4. Effect(store, one, c, first, second, count)
    BY <1>1, <1>3, <1>6, <2>2, <2>3 DEF Effect, k1, k2
  <2>5. QED  BY <1>3, <2>1, <2>4
<1>7. CASE count = 2
  <2>1. NotedFirst(store, first, second, count) = two
    BY <1>7 DEF NotedFirst, two, one
  <2>2. \A k \in Keys : k[1] # c => two.entries[k] = store.entries[k]
    BY <1>2, <1>3, <1>4
  <2>3. one.entries[k2] = store.entries[k2] /\ two.entries[k1] = one.entries[k1]
    BY <1>2, <1>3, <1>4
  <2>4. NotedEntry(store.entries[k1], two.entries[k1], first)
        /\ NotedEntry(store.entries[k2], two.entries[k2], second)
    BY <1>3, <1>4, <2>3
  <2>5. two.runs = store.runs
    BY <1>3, <1>4
  <2>6. Effect(store, two, c, first, second, count)
    BY <1>1, <2>2, <2>4, <2>5 DEF Effect, k1, k2
  <2>7. QED  BY <1>4, <2>1, <2>6
<1>8. QED  BY <1>5, <1>6, <1>7

-----------------------------------------------------------------------------
(***************************************************************************)
(* Type correctness.                                                       *)
(***************************************************************************)
LEMMA FinishFacts ==
    ASSUME TypeInv, NEW c \in Creds, NEW answer \in setup.answers, NEW count \in 0 .. 2,
           NEW sent \in BOOLEAN, Finish(c, answer, count, sent)
    PROVE  /\ UNCHANGED <<outside, results, round, stage, cancelled, faults>>
           /\ Done(c, sent /\ count = 2)
           /\ count < 2 => cancelled
           /\ sent \/ cancelled
           /\ work' = [work EXCEPT !.store = work'.store]
           /\ StoreOK(work'.store, round, config.capacity)
           /\ answered' = IF sent /\ count = 2 THEN answered \cup {<<c, answer>>} ELSE answered
           /\ broken' \in BOOLEAN
           /\ \E first \in Parsed(c, answer, "gemini"), second \in Parsed(c, answer, "claude_gpt") :
                /\ ResultOf(first, c, "gemini") /\ ResultOf(second, c, "claude_gpt")
                /\ Effect(work.store, work'.store, c, first, second, count)
                /\ delivered' = IF sent /\ count = 2 THEN delivered \cup {first, second} ELSE delivered
<1>1. PICK first \in Parsed(c, answer, "gemini"), second \in Parsed(c, answer, "claude_gpt") :
        /\ work' = [work EXCEPT !.store = NotedFirst(@, first, second, count)]
        /\ delivered' = IF sent /\ count = 2 THEN delivered \cup {first, second} ELSE delivered
  BY DEF Finish
<1>2. ResultOf(first, c, "gemini") /\ ResultOf(second, c, "claude_gpt")
  BY ParsedResult DEF TypeInv, WorldOK, WorkOK, ResultOf, Groups
<1>3. StoreOK(work.store, round, config.capacity) /\ round \in Nat /\ round \in 0 .. round
  BY SetupTyped DEF TypeInv, WorldOK, FilesOK, WorkOK
<1> DEFINE new == NotedFirst(work.store, first, second, count)
<1>4. StoreOK(new, round, config.capacity) /\ Effect(work.store, new, c, first, second, count)
  BY <1>2, <1>3, NotedFirstOK
<1>5. work' = [work EXCEPT !.store = new]
  BY <1>1
<1> HIDE DEF new
<1>6. work'.store = new
  <2>1. work = [started |-> work.started, creds |-> work.creds, relisted |-> work.relisted,
                store |-> work.store, observations |-> work.observations]
    BY DEF TypeInv, WorkOK, WorkShape
  <2>2. QED  BY <1>5, <2>1
<1>7. work' = [work EXCEPT !.store = work'.store]
  BY <1>5, <1>6
<1>8. /\ UNCHANGED <<outside, results, round, stage, cancelled, faults>>
      /\ Done(c, sent /\ count = 2)
      /\ count < 2 => cancelled
      /\ sent \/ cancelled
      /\ answered' = IF sent /\ count = 2 THEN answered \cup {<<c, answer>>} ELSE answered
      /\ broken' = (broken \/ (sent /\ count < 2))
  BY DEF Finish
<1>9. broken' \in BOOLEAN
  BY <1>8
<1>10. QED  BY <1>1, <1>2, <1>4, <1>6, <1>7, <1>8, <1>9

\* Between rounds nothing is held.
LEMMA NoWorkSame ==
    ASSUME setup' = setup
    PROVE  NoWork' = NoWork
  BY DEF NoWork

\* What is held between rounds has its types.
LEMMA NoWorkOK ==
    ASSUME setup \in Scenarios, NEW n \in Nat
    PROVE  /\ WorkShape(NoWork) /\ NoWork.started \in Nat
           /\ NoWork.creds = {} /\ NoWork.relisted = {} /\ NoWork.store = Loaded(setup.file)
           /\ StoreOK(NoWork.store, n, config.capacity)
<1>1. StoreOK(Loaded(setup.file), n, config.capacity)
  BY FirstFileOK, LoadedOK
<1>2. QED  BY <1>1 DEF NoWork, WorkShape, Zero

\* The initial states have their types.
LEMMA InitTyped ==
    ASSUME Init
    PROVE  TypeInv
<1>1. setup \in Scenarios /\ setup.rounds \in Nat /\ Len(setup.file.runs) <= MaxHistory
  BY SetupTyped DEF Init
<1>2. FileOK(file, 0, config.capacity)
  BY <1>1, FirstFileOK DEF Init
<1>3. /\ WorkShape(work) /\ work.started \in Nat /\ work.creds = {} /\ work.relisted = {}
      /\ StoreOK(work.store, 0, config.capacity)
  BY <1>1, NoWorkOK DEF Init
<1>4. /\ pool \in PoolType /\ pool.jobs = {} /\ pool.busy = {} /\ pool.idle = 0
  BY DEF Init, NoPool, PoolType
<1>5. pool.idle + Cardinality(pool.busy) <= Cardinality(work.creds)
  BY <1>3, <1>4, FS_EmptySet
<1>6. runs \in Seq(RunType) /\ Len(runs) <= MaxHistory /\ faults \in 0 .. MaxFaults
      /\ moves \in 0 .. MaxMoves
  BY BoundAssumption DEF Init
<1>call. puts \in 0 .. setup.puts /\ reverted \in BOOLEAN /\ CallOK
  <2>1. setup.puts \in Nat /\ puts = 0 /\ reverted = FALSE /\ setter = NoCall /\ round = 0
    BY <1>1, SetupTyped DEF Init
  <2>2. FileOK(Loaded(setup.file), 0, config.capacity)
    BY <1>1, FirstFileOK, LoadedOK DEF StoreOK
  <2>3. Loaded(setup.file) \in FileType
    BY <2>2 DEF FileOK
  <2>4. CallOK
    BY <2>1, <2>2, <2>3 DEF CallOK, NoCall
  <2>5. puts \in 0 .. setup.puts
    BY <2>1
  <2>6. reverted \in BOOLEAN
    BY <2>1
  <2>7. QED  BY <2>4, <2>5, <2>6
<1>7. Idle
  BY DEF Init, Idle
<1>8. /\ now \in Nat /\ host \in setup.hosts /\ round = 0 /\ round \in 0 .. setup.rounds
      /\ stage \in Stages /\ broken \in BOOLEAN /\ cancelled \in BOOLEAN
  <2>1. /\ now = 1 /\ host \in setup.hosts /\ round = 0 /\ stage = "idle"
        /\ broken = FALSE /\ cancelled = FALSE
    BY DEF Init
  <2>2. broken \in BOOLEAN /\ cancelled \in BOOLEAN
    BY <2>1
  <2>3. stage \in Stages
    BY <2>1 DEF Stages
  <2>4. round \in 0 .. setup.rounds /\ now \in Nat
    BY <1>1, <2>1
  <2>5. QED  BY <2>1, <2>2, <2>3, <2>4
<1>9. QED
  BY <1>1, <1>2, <1>3, <1>4, <1>5, <1>6, <1>call, <1>7, <1>8
     DEF TypeInv, WorldOK, FilesOK, WorkOK, PoolOK, FlagsOK

\* Each part of the type invariant depends on its own variables.
LEMMA TypeFrames ==
    ASSUME TypeInv
    PROVE  /\ UNCHANGED outside => WorldOK'
           /\ UNCHANGED <<setup, file, round, runs>> => FilesOK'
           /\ UNCHANGED <<setup, file, setter, round>> => CallOK'
           /\ UNCHANGED <<setup, round, work>> => WorkOK'
           /\ UNCHANGED <<work, pool>> => PoolOK'
           /\ UNCHANGED <<stage, broken, cancelled, faults>> => FlagsOK'
           /\ UNCHANGED <<setup, work, collection, cancelled>> /\ (stage' = "idle" => stage = "idle")
                => (stage = "idle" => Idle)'
<1>1. UNCHANGED outside => WorldOK'
  BY DEF TypeInv, WorldOK, outside
<1>2. UNCHANGED <<setup, file, round, runs>> => FilesOK'
  BY DEF TypeInv, FilesOK, FileOK, config
<1>call. UNCHANGED <<setup, file, setter, round>> => CallOK'
  BY DEF TypeInv, CallOK, FileOK, config
<1>3. UNCHANGED <<setup, round, work>> => WorkOK'
  BY DEF TypeInv, WorkOK, WorkShape, StoreOK, FileOK, config
<1>4. UNCHANGED <<work, pool>> => PoolOK'
  BY DEF TypeInv, PoolOK
<1>5. UNCHANGED <<stage, broken, cancelled, faults>> => FlagsOK'
  BY DEF TypeInv, FlagsOK
<1>6. UNCHANGED <<setup, work, collection, cancelled>> /\ (stage' = "idle" => stage = "idle")
        => (stage = "idle" => Idle)'
  BY NoWorkSame DEF TypeInv, Idle, collection
<1>7. QED  BY <1>1, <1>2, <1>call, <1>3, <1>4, <1>5, <1>6

\* A round that writes leaves a configuration call with what it had read.
LEMMA OvertakesTyped ==
    ASSUME TypeInv, Overtakes, UNCHANGED <<setup, round>>
    PROVE  CallOK'
<1>1. /\ setter'.loaded = setter.loaded /\ setter'.copy = setter.copy
      /\ setter'.overtaken = setter.loaded
      /\ setter' \in [loaded : BOOLEAN, copy : FileType, overtaken : BOOLEAN]
  BY DEF Overtakes, TypeInv, CallOK
<1>2. FileOK(setter'.copy, round', config'.capacity)
  BY <1>1 DEF TypeInv, CallOK, config
<1>3. QED  BY <1>1, <1>2 DEF CallOK, FileOK

\* A round that ends keeps the types.
LEMMA OverTyped ==
    ASSUME TypeInv, RoundOver, UNCHANGED <<setup, round>>, faults' \in 0 .. MaxFaults
    PROVE  WorkOK' /\ PoolOK' /\ FlagsOK' /\ (stage = "idle" => Idle)'
<1>1. setup \in Scenarios /\ round \in Nat
  BY SetupTyped DEF TypeInv, WorldOK, FilesOK
<1>2. /\ WorkShape(NoWork) /\ NoWork.started \in Nat
      /\ NoWork.creds = {} /\ NoWork.relisted = {}
      /\ StoreOK(NoWork.store, round, config.capacity)
  BY <1>1, NoWorkOK
<1>3. WorkOK'
  BY <1>2 DEF RoundOver, WorkOK, WorkShape, StoreOK, FileOK, config
<1>4. PoolOK'
  <2>1. NoPool \in PoolType /\ NoPool.jobs = {} /\ NoPool.busy = {} /\ NoPool.idle = 0
    BY DEF NoPool, PoolType
  <2>2. NoPool.idle + Cardinality(NoPool.busy) <= Cardinality(NoWork.creds)
    BY <1>2, <2>1, FS_EmptySet
  <2>3. QED  BY <1>2, <2>1, <2>2 DEF RoundOver, PoolOK
<1>5. FlagsOK'
  BY DEF RoundOver, FlagsOK, Stages
<1>6. Idle'
  BY NoWorkSame DEF RoundOver, Idle
<1>7. QED  BY <1>3, <1>4, <1>5, <1>6

\* The pool as a record of finite sets.
LEMMA FinitePool ==
    ASSUME TypeInv
    PROVE  /\ IsFiniteSet(work.creds) /\ IsFiniteSet(pool.jobs) /\ IsFiniteSet(pool.busy)
           /\ Cardinality(work.creds) \in Nat /\ Cardinality(pool.busy) \in Nat
           /\ Cardinality(pool.jobs) \in Nat
           /\ pool.idle \in Nat /\ pool.feeder \in {"feeding", "closed"}
           /\ pool.jobs \subseteq Creds /\ pool.busy \subseteq Creds
           /\ pool = [jobs |-> pool.jobs, feeder |-> pool.feeder, idle |-> pool.idle,
                      busy |-> pool.busy]
<1>1. IsFiniteSet(Creds) /\ work.creds \subseteq Creds /\ pool \in PoolType
  BY CredsAssumption DEF TypeInv, WorkOK, PoolOK
<1>2. /\ pool.jobs \subseteq Creds /\ pool.busy \subseteq Creds /\ pool.idle \in Nat
      /\ pool.feeder \in {"feeding", "closed"}
      /\ pool = [jobs |-> pool.jobs, feeder |-> pool.feeder, idle |-> pool.idle,
                 busy |-> pool.busy]
  BY <1>1 DEF PoolType
<1>3. IsFiniteSet(work.creds) /\ IsFiniteSet(pool.jobs) /\ IsFiniteSet(pool.busy)
  BY <1>1, <1>2, FS_Subset
<1>4. QED  BY <1>2, <1>3, FS_CardinalityType

\* What a step of the pool makes of it.
LEMMA PoolStep ==
    ASSUME TypeInv,
           \/ Stop \/ Leave
           \/ \E c \in Creds : Hand(c) \/ \E goesOn \in BOOLEAN : Done(c, goesOn)
    PROVE  /\ pool' \in PoolType
           /\ pool'.jobs \subseteq pool.jobs
           /\ pool'.busy \subseteq pool.busy \cup pool.jobs
           /\ pool'.idle + Cardinality(pool'.busy) <= pool.idle + Cardinality(pool.busy)
<1> USE FinitePool
<1> DEFINE n == Cardinality(pool.busy)
           goal == /\ pool' \in PoolType
                   /\ pool'.jobs \subseteq pool.jobs
                   /\ pool'.busy \subseteq pool.busy \cup pool.jobs
                   /\ pool'.idle + Cardinality(pool'.busy) <= pool.idle + n
<1>1. n \in Nat /\ pool.idle \in Nat
  OBVIOUS
<1>2. ASSUME NEW jobs \in SUBSET pool.jobs, NEW idle \in Nat, NEW busy \in SUBSET (pool.busy \cup pool.jobs),
             idle + Cardinality(busy) <= pool.idle + n, NEW feeder \in {"feeding", "closed"},
             pool' = [jobs |-> jobs, feeder |-> feeder, idle |-> idle, busy |-> busy]
      PROVE  goal
  <2>1. jobs \subseteq Creds /\ busy \subseteq Creds
    OBVIOUS
  <2>2. pool' \in PoolType
    BY <1>2, <2>1 DEF PoolType
  <2>3. pool'.jobs = jobs /\ pool'.busy = busy /\ pool'.idle = idle
    BY <1>2
  <2>4. QED  BY <1>2, <2>2, <2>3
<1>3. ASSUME Stop PROVE goal
  <2>1. pool' = [jobs |-> pool.jobs, feeder |-> "closed", idle |-> pool.idle, busy |-> pool.busy]
    BY <1>3 DEF Stop, Stopped
  <2>2. pool.idle + Cardinality(pool.busy) <= pool.idle + n
    BY <1>1
  <2> HIDE DEF goal
  <2>3. QED  BY <1>2, <2>1, <2>2
<1>4. ASSUME Leave PROVE goal
  <2>1. /\ pool' = [jobs |-> pool.jobs, feeder |-> pool.feeder, idle |-> pool.idle - 1,
                    busy |-> pool.busy]
        /\ pool.idle > 0
    BY <1>4 DEF Leave
  <2>2. pool.idle - 1 \in Nat /\ (pool.idle - 1) + Cardinality(pool.busy) <= pool.idle + n
    BY <1>1, <2>1
  <2> HIDE DEF goal
  <2>3. QED  BY <1>2, <2>1, <2>2
<1>5. ASSUME NEW c \in Creds, Hand(c) PROVE goal
  <2> DEFINE busy == IF Parallel /\ cancelled THEN pool.busy ELSE pool.busy \cup {c}
  <2>1. /\ pool' = [jobs |-> pool.jobs \ {c}, feeder |-> pool.feeder, idle |-> pool.idle - 1,
                    busy |-> busy]
        /\ pool.idle > 0 /\ c \in pool.jobs
    BY <1>5 DEF Hand
  <2>2. Cardinality(busy) <= n + 1 /\ Cardinality(busy) \in Nat
    <3>1. /\ IsFiniteSet(pool.busy \cup {c})
          /\ Cardinality(pool.busy \cup {c}) = IF c \in pool.busy THEN n ELSE n + 1
      BY FS_AddElement
    <3>2. IsFiniteSet(pool.busy \cup {c}) /\ Cardinality(pool.busy \cup {c}) <= n + 1
      <4> HIDE DEF n
      <4>1. QED  BY <1>1, <3>1
    <3>3. Cardinality(pool.busy \cup {c}) \in Nat
      BY <3>2, FS_CardinalityType
    <3>4. QED  BY <1>1, <3>2, <3>3
  <2>3. busy \in SUBSET (pool.busy \cup pool.jobs)
    BY <2>1
  <2> HIDE DEF busy, goal
  <2>4. pool.idle - 1 \in Nat /\ (pool.idle - 1) + Cardinality(busy) <= pool.idle + n
    BY <1>1, <2>1, <2>2
  <2>5. QED  BY <1>2, <2>1, <2>3, <2>4
<1>6. ASSUME NEW c \in Creds, NEW goesOn \in BOOLEAN, Done(c, goesOn) PROVE goal
  <2> DEFINE idle == IF goesOn THEN pool.idle + 1 ELSE pool.idle
  <2>1. /\ pool' = [jobs |-> pool.jobs, feeder |-> pool.feeder, idle |-> idle,
                    busy |-> pool.busy \ {c}]
        /\ c \in pool.busy
    BY <1>6 DEF Done
  <2>2. Cardinality(pool.busy \ {c}) = n - 1
    BY <2>1, FS_RemoveElement
  <2>3. idle \in Nat /\ idle <= pool.idle + 1
    BY <1>1
  <2> HIDE DEF idle, goal
  <2>4. idle + Cardinality(pool.busy \ {c}) <= pool.idle + n
    BY <1>1, <2>2, <2>3
  <2>5. QED  BY <1>2, <2>1, <2>3, <2>4
<1>7. QED  BY <1>3, <1>4, <1>5, <1>6

\* A step of the pool keeps its types.
LEMMA PoolStepTyped ==
    ASSUME TypeInv, work'.creds = work.creds,
           \/ Stop \/ Leave
           \/ \E c \in Creds : Hand(c) \/ \E goesOn \in BOOLEAN : Done(c, goesOn)
    PROVE  PoolOK'
<1>1. /\ pool' \in PoolType
      /\ pool'.jobs \subseteq pool.jobs
      /\ pool'.busy \subseteq pool.busy \cup pool.jobs
      /\ pool'.idle + Cardinality(pool'.busy) <= pool.idle + Cardinality(pool.busy)
  BY PoolStep
<1>2. pool.jobs \subseteq work.creds /\ pool.busy \subseteq work.creds
  BY DEF TypeInv, PoolOK
<1>3. pool'.idle + Cardinality(pool'.busy) <= Cardinality(work.creds)
  <2>1. pool'.idle \in Nat /\ Cardinality(pool'.busy) \in Nat
    <3>1. pool'.busy \subseteq work.creds
      BY <1>1, <1>2
    <3>2. IsFiniteSet(pool'.busy)
      BY <3>1, FinitePool, FS_Subset
    <3>3. QED  BY <1>1, <3>2, FS_CardinalityType DEF PoolType
  <2>2. pool.idle + Cardinality(pool.busy) <= Cardinality(work.creds)
    BY DEF TypeInv, PoolOK
  <2>3. QED  BY <1>1, <2>1, <2>2, FinitePool
<1>4. QED  BY <1>1, <1>2, <1>3 DEF PoolOK

\* A run is pushed in front, and the oldest may fall out.
LEMMA RunPushed ==
    ASSUME runs \in Seq(RunType), Len(runs) <= MaxHistory, NEW run \in RunType
    PROVE  /\ Push(run) \in Seq(RunType) /\ Len(Push(run)) <= MaxHistory
           /\ Push(run) # <<>> /\ Head(Push(run)) = run
<1> DEFINE all == <<run>> \o runs
           n == Least(Len(runs) + 1, MaxHistory)
<1>1. /\ all \in Seq(RunType) /\ Len(all) = Len(runs) + 1 /\ all[1] = run /\ Len(runs) \in Nat
  OBVIOUS
<1>2. n \in Nat /\ n > 0 /\ n <= MaxHistory /\ n <= Len(runs) + 1
  BY <1>1, BoundAssumption DEF Least
<1> HIDE DEF all, n
<1>3. /\ SubSeq(all, 1, n) \in Seq(RunType) /\ Len(SubSeq(all, 1, n)) = n
      /\ SubSeq(all, 1, n)[1] = all[1]
  BY <1>1, <1>2
<1>4. Push(run) = SubSeq(all, 1, n)
  BY DEF Push, all, n
<1>5. QED  BY <1>1, <1>2, <1>3, <1>4

\* A file that n rounds may have left may have been left by more.
LEMMA FileGrows ==
    ASSUME NEW f, NEW n \in Nat, NEW configured, FileOK(f, n, configured)
    PROVE  FileOK(f, n + 1, configured)
<1>1. 0 .. n \subseteq 0 .. n + 1
  OBVIOUS
<1>2. QED  BY <1>1 DEF FileOK

\* The work as a record, so that a change of one field leaves the others.
LEMMA WorkFields ==
    ASSUME TypeInv, NEW x
    PROVE  /\ WorkShape([work EXCEPT !.store = x])
           /\ [work EXCEPT !.store = x].store = x
           /\ [work EXCEPT !.store = x].started = work.started
           /\ [work EXCEPT !.store = x].creds = work.creds
           /\ [work EXCEPT !.store = x].relisted = work.relisted
           /\ [work EXCEPT !.store = x].observations = work.observations
           /\ WorkShape([work EXCEPT !.relisted = x])
           /\ [work EXCEPT !.relisted = x].relisted = x
           /\ [work EXCEPT !.relisted = x].started = work.started
           /\ [work EXCEPT !.relisted = x].creds = work.creds
           /\ [work EXCEPT !.relisted = x].store = work.store
           /\ [work EXCEPT !.relisted = x].observations = work.observations
           /\ WorkShape([work EXCEPT !.observations = x])
           /\ [work EXCEPT !.observations = x].observations = x
           /\ [work EXCEPT !.observations = x].started = work.started
           /\ [work EXCEPT !.observations = x].creds = work.creds
           /\ [work EXCEPT !.observations = x].relisted = work.relisted
           /\ [work EXCEPT !.observations = x].store = work.store
<1>1. work = [started |-> work.started, creds |-> work.creds, relisted |-> work.relisted,
              store |-> work.store, observations |-> work.observations]
  BY DEF TypeInv, WorkOK, WorkShape
<1> DEFINE a == work.started
           b == work.creds
           c == work.relisted
           d == work.store
           e == work.observations
<1>2. [work EXCEPT !.store = x]
        = [started |-> a, creds |-> b, relisted |-> c, store |-> x, observations |-> e]
  BY <1>1
<1>3. [work EXCEPT !.relisted = x]
        = [started |-> a, creds |-> b, relisted |-> x, store |-> d, observations |-> e]
  BY <1>1
<1>4. [work EXCEPT !.observations = x]
        = [started |-> a, creds |-> b, relisted |-> c, store |-> d, observations |-> x]
  BY <1>1
<1> HIDE DEF a, b, c, d, e
<1>5. QED  BY <1>2, <1>3, <1>4 DEF WorkShape, a, b, c, d, e

\* What a round begins with.
LEMMA BeginFacts ==
    ASSUME TypeInv, Begin
    PROVE  /\ stage = "idle" /\ stage' = "collecting"
           /\ round \in Nat /\ round < setup.rounds /\ round' = round + 1
           /\ work' = [started |-> now, creds |-> Listed, relisted |-> {}, store |-> Loaded(file),
                       observations |-> [g \in Groups |-> {}]]
           /\ pool' = [jobs |-> Listed, feeder |-> "feeding",
                       idle |-> Workers(Cardinality(Listed)), busy |-> {}]
           /\ Listed \subseteq Creds /\ IsFiniteSet(Listed) /\ Cardinality(Listed) \in Nat
           /\ Workers(Cardinality(Listed)) \in Nat
           /\ Workers(Cardinality(Listed)) <= Cardinality(Listed)
           /\ Cardinality(Listed) > 0 => Workers(Cardinality(Listed)) > 0
           /\ UNCHANGED <<outside, results, delivered, broken, answered, cancelled, faults>>
<1>1. work' = [started |-> now, creds |-> Listed, relisted |-> {}, store |-> Loaded(file),
               observations |-> [g \in Groups |-> {}]]
  BY DEF Begin, NoWork
<1>2. Listed \subseteq Creds /\ IsFiniteSet(Listed) /\ Cardinality(Listed) \in Nat
  BY CredsAssumption, FS_Subset, FS_CardinalityType DEF Listed
<1>3. /\ Workers(Cardinality(Listed)) \in Nat
      /\ Workers(Cardinality(Listed)) <= Cardinality(Listed)
      /\ Cardinality(Listed) > 0 => Workers(Cardinality(Listed)) > 0
  <2>1. config.workers \in Int
    BY SetupTyped DEF TypeInv, WorldOK
  <2>2. QED  BY <1>2, <2>1 DEF Workers, Least
<1>4. round \in Nat
  BY SetupTyped DEF TypeInv, WorldOK, FilesOK
<1>5. QED  BY <1>1, <1>2, <1>3, <1>4 DEF Begin

\* One lemma per action: it keeps the type invariant.
LEMMA BeginTyped ==
    ASSUME TypeInv, Begin
    PROVE  TypeInv'
<1> USE BeginFacts
<1>1. WorldOK'
  BY TypeFrames DEF Begin
<1>2. FileOK(file, round + 1, config.capacity) /\ FileOK(setter.copy, round + 1, config.capacity)
  BY FileGrows DEF TypeInv, FilesOK, CallOK
<1>3. setup' = setup /\ file' = file /\ setter' = setter /\ runs' = runs
  BY DEF outside, results
<1>call. CallOK'
  BY <1>2, <1>3 DEF TypeInv, CallOK, FileOK, config
<1>4. FilesOK'
  <2>1. round' \in 0 .. setup'.rounds
    BY <1>3, SetupTyped DEF TypeInv, WorldOK
  <2>2. QED  BY <1>2, <1>3, <2>1 DEF TypeInv, FilesOK, FileOK, config
<1>5. WorkOK'
  <2>1. StoreOK(Loaded(file), round + 1, config.capacity)
    BY <1>2, LoadedOK
  <2>2. /\ WorkShape(work)' /\ work'.started = now /\ work'.creds = Listed /\ work'.relisted = {}
        /\ work'.store = Loaded(file)
    BY DEF WorkShape
  <2>3. now \in Nat
    BY DEF TypeInv, WorldOK
  <2>4. StoreOK(work'.store, round', config'.capacity)
    BY <1>3, <2>1, <2>2 DEF config
  <2>5. QED  BY <2>2, <2>3, <2>4 DEF WorkOK, WorkShape, StoreOK, FileOK
<1>6. PoolOK'
  <2>1. /\ pool'.jobs = Listed /\ pool'.busy = {} /\ pool'.idle = Workers(Cardinality(Listed))
        /\ work'.creds = Listed
    OBVIOUS
  <2>2. pool' \in PoolType
    BY DEF PoolType
  <2>3. pool'.idle + Cardinality(pool'.busy) <= Cardinality(work'.creds)
    BY <2>1, FS_EmptySet
  <2>4. QED  BY <2>1, <2>2, <2>3 DEF PoolOK
<1>7. FlagsOK'
  BY DEF TypeInv, FlagsOK, Stages
<1>8. QED  BY <1>1, <1>call, <1>4, <1>5, <1>6, <1>7 DEF TypeInv

LEMMA PoolActionsTyped ==
    ASSUME TypeInv, (\E c \in Creds : Take(c)) \/ FeederStops \/ WorkerReturns
    PROVE  TypeInv'
<1>1. /\ UNCHANGED <<outside, results, round, stage, work, delivered, broken, answered, cancelled, faults>>
      /\ stage = "collecting"
      /\ Stop \/ Leave \/ \E c \in Creds : Hand(c) \/ \E goesOn \in BOOLEAN : Done(c, goesOn)
  BY DEF Take, FeederStops, WorkerReturns, Hand, Stop, Leave
<1>2. PoolOK'
  BY <1>1, PoolStepTyped
<1>3. WorldOK' /\ FilesOK' /\ CallOK' /\ WorkOK' /\ FlagsOK'
  BY <1>1, TypeFrames DEF outside, results
<1>4. QED  BY <1>1, <1>2, <1>3 DEF TypeInv

LEMMA FinishTyped ==
    ASSUME TypeInv, NEW c \in Creds, NEW answer \in setup.answers, NEW count \in 0 .. 2,
           NEW sent \in BOOLEAN, Finish(c, answer, count, sent)
    PROVE  TypeInv'
<1>1. /\ UNCHANGED <<outside, results, round, stage, cancelled, faults>>
      /\ Done(c, sent /\ count = 2)
      /\ work' = [work EXCEPT !.store = work'.store]
      /\ StoreOK(work'.store, round, config.capacity)
      /\ broken' \in BOOLEAN
  BY FinishFacts
<1>2. /\ WorkShape(work)' /\ work'.started = work.started /\ work'.creds = work.creds
      /\ work'.relisted = work.relisted
  <2> DEFINE x == work'.store
  <2> HIDE DEF x
  <2>1. work' = [work EXCEPT !.store = x]
    BY <1>1 DEF x
  <2>2. QED  BY <2>1, WorkFields DEF WorkShape
<1>3. WorkOK'
  <2>1. StoreOK(work'.store, round', config'.capacity)
    BY <1>1 DEF outside, config
  <2>2. QED  BY <1>2, <2>1 DEF TypeInv, WorkOK, StoreOK, FileOK, WorkShape
<1>4. PoolOK'
  <2>1. (sent /\ count = 2) \in BOOLEAN
    OBVIOUS
  <2>2. QED  BY <1>1, <1>2, <2>1, PoolStepTyped
<1>5. WorldOK' /\ FilesOK' /\ CallOK'
  BY <1>1, TypeFrames DEF outside, results
<1>6. FlagsOK' /\ stage' = "collecting"
  BY <1>1 DEF TypeInv, FlagsOK, Done
<1>7. QED  BY <1>3, <1>4, <1>5, <1>6 DEF TypeInv

LEMMA CollectTyped ==
    ASSUME TypeInv, Collect
    PROVE  TypeInv'
<1>1. UNCHANGED <<outside, results, round, faults>> /\ stage = "collecting"
  BY DEF Collect, AllGone
<1>2. WorldOK' /\ FilesOK' /\ CallOK' /\ faults' \in 0 .. MaxFaults
  BY <1>1, TypeFrames DEF outside, results, TypeInv, FlagsOK
<1>3. CASE broken
  <2>1. RoundOver
    BY <1>3 DEF Collect
  <2>2. QED  BY <1>1, <1>2, <2>1, OverTyped DEF outside, TypeInv
<1>4. CASE ~broken
  <2>1. /\ stage' = "collected" /\ work' = [work EXCEPT !.observations = FreshEvidence]
        /\ UNCHANGED <<collection, cancelled>>
    BY <1>4 DEF Collect
  <2>2. /\ WorkShape(work)' /\ work'.started = work.started /\ work'.creds = work.creds
        /\ work'.relisted = work.relisted /\ work'.store = work.store
    BY <2>1, WorkFields DEF WorkShape
  <2>3. WorkOK'
    BY <1>1, <2>2 DEF TypeInv, WorkOK, StoreOK, FileOK, WorkShape, outside, config
  <2>4. PoolOK'
    BY <2>1, <2>2 DEF TypeInv, PoolOK, collection
  <2>5. FlagsOK'
    BY <1>1, <2>1 DEF TypeInv, FlagsOK, collection, Stages
  <2>6. QED  BY <1>2, <2>1, <2>3, <2>4, <2>5 DEF TypeInv
<1>5. QED  BY <1>3, <1>4

LEMMA RelistTyped ==
    ASSUME TypeInv, Relist
    PROVE  TypeInv'
<1>1. /\ UNCHANGED <<outside, results, collection, round, cancelled, faults>>
      /\ stage' = "relisted" /\ work' = [work EXCEPT !.relisted = Listed]
  BY DEF Relist
<1>2. WorldOK' /\ FilesOK' /\ CallOK'
  BY <1>1, TypeFrames DEF outside, results
<1>3. /\ WorkShape(work)' /\ work'.started = work.started /\ work'.creds = work.creds
      /\ work'.relisted = Listed /\ work'.store = work.store
  BY <1>1, WorkFields DEF WorkShape
<1>4. Listed \subseteq Creds
  BY DEF Listed
<1>5. WorkOK'
  BY <1>1, <1>3, <1>4 DEF TypeInv, WorkOK, StoreOK, FileOK, WorkShape, outside, config
<1>6. PoolOK'
  BY <1>1, <1>3 DEF TypeInv, PoolOK, collection
<1>7. FlagsOK'
  BY <1>1 DEF TypeInv, FlagsOK, collection, Stages
<1>8. QED  BY <1>1, <1>2, <1>5, <1>6, <1>7 DEF TypeInv

\* Faults stay within their bound.
LEMMA FaultTyped ==
    ASSUME TypeInv, Fault \/ NoFault
    PROVE  faults' \in 0 .. MaxFaults
<1>1. faults \in 0 .. MaxFaults /\ MaxFaults \in Nat
  BY BoundAssumption DEF TypeInv, FlagsOK
<1>2. QED  BY <1>1 DEF Fault, NoFault

LEMMA SaveTyped ==
    ASSUME TypeInv, NEW confirmed \in BOOLEAN, Save(confirmed)
    PROVE  TypeInv'
<1>1. /\ stage = "relisted" /\ file' = work.store /\ UNCHANGED <<outside, round, shown, runs>>
      /\ Fault \/ NoFault
  BY DEF Save
<1>2. WorldOK' /\ faults' \in 0 .. MaxFaults
  BY <1>1, TypeFrames, FaultTyped
<1>3. FilesOK'
  BY <1>1 DEF TypeInv, FilesOK, WorkOK, StoreOK, FileOK, outside, config
<1>call. CallOK'
  BY <1>1, OvertakesTyped DEF Save, outside
<1>4. CASE confirmed
  <2>1. stage' = "saved" /\ UNCHANGED <<work, collection, cancelled>>
    BY <1>4 DEF Save
  <2>2. WorkOK' /\ PoolOK'
    BY <1>1, <2>1, TypeFrames DEF outside, collection
  <2>3. FlagsOK'
    BY <1>2, <2>1 DEF TypeInv, FlagsOK, collection, Stages
  <2>4. QED  BY <1>2, <1>3, <1>call, <2>1, <2>2, <2>3 DEF TypeInv
<1>5. CASE ~confirmed
  <2>1. RoundOver
    BY <1>5 DEF Save
  <2>2. QED  BY <1>1, <1>2, <1>3, <1>call, <2>1, OverTyped DEF outside, TypeInv
<1>6. QED  BY <1>4, <1>5

LEMMA AbortTyped ==
    ASSUME TypeInv, Abort
    PROVE  TypeInv'
<1>1. RoundOver /\ UNCHANGED <<outside, results, round>> /\ (Fault \/ NoFault)
  BY DEF Abort
<1>2. WorldOK' /\ FilesOK' /\ CallOK' /\ faults' \in 0 .. MaxFaults
  BY <1>1, TypeFrames, FaultTyped DEF outside, results
<1>3. QED  BY <1>1, <1>2, OverTyped DEF outside, TypeInv

\* Forgetting cooldowns keeps what a store knows.
LEMMA PrunedOK ==
    ASSUME NEW store, NEW n, NEW configured, StoreOK(store, n, configured), NEW at
    PROVE  /\ StoreOK(Pruned(store, at), n, configured)
           /\ Pruned(store, at).entries = store.entries
           /\ Pruned(store, at).runs = store.runs
<1> DEFINE cooldowns == [c \in Creds |-> IF at < store.cooldowns[c] THEN store.cooldowns[c] ELSE Zero]
<1>1. store \in FileType
  BY DEF StoreOK, FileOK
<1>2. Pruned(store, at) = [store EXCEPT !.cooldowns = cooldowns]
  BY <1>1 DEF Pruned, FileType
<1>3. cooldowns \in [Creds -> Nat]
  BY <1>1 DEF FileType, Zero
<1> HIDE DEF cooldowns
<1>4. /\ Pruned(store, at) \in FileType /\ Pruned(store, at).entries = store.entries
      /\ Pruned(store, at).runs = store.runs
  BY <1>1, <1>2, <1>3 DEF FileType
<1>5. QED  BY <1>4 DEF StoreOK, FileOK

\* Publishing a plan changes the store, the snapshot and the history.
LEMMA PublishFacts ==
    ASSUME TypeInv, Publish
    PROVE  /\ UNCHANGED <<outside, file, setter, collection, round, cancelled, faults>>
           /\ stage = "saved" /\ stage' = "published" /\ ~cancelled
           /\ WorkShape(work)' /\ work'.started = work.started /\ work'.creds = work.creds
           /\ work'.relisted = work.relisted /\ work'.observations = work.observations
           /\ work'.store = Pruned(work.store, work.started)
           /\ StoreOK(work'.store, round, config.capacity)
           /\ work'.store.entries = work.store.entries /\ work'.store.runs = work.store.runs
           /\ runs' \in Seq(RunType) /\ Len(runs') <= MaxHistory
           /\ runs' # <<>> /\ Head(runs') = [round |-> round, persisted |-> TRUE]
<1>1. /\ UNCHANGED <<outside, file, setter, collection, round, cancelled, faults>>
      /\ stage = "saved" /\ stage' = "published" /\ ~cancelled
      /\ runs' = Push([round |-> round, persisted |-> TRUE])
  BY DEF Publish, document
<1> DEFINE x == Pruned(work.store, work.started)
<1>2. work' = [work EXCEPT !.store = x]
  BY DEF Publish
<1>3. /\ StoreOK(x, round, config.capacity)
      /\ x.entries = work.store.entries /\ x.runs = work.store.runs
  BY PrunedOK DEF TypeInv, WorkOK
<1> HIDE DEF x
<1>4. /\ WorkShape(work)' /\ work'.started = work.started /\ work'.creds = work.creds
      /\ work'.relisted = work.relisted /\ work'.observations = work.observations
      /\ work'.store = x
  BY <1>2, WorkFields DEF WorkShape
<1>5. [round |-> round, persisted |-> TRUE] \in RunType
  BY SetupTyped DEF TypeInv, WorldOK, FilesOK, RunType
<1>6. /\ runs' \in Seq(RunType) /\ Len(runs') <= MaxHistory
      /\ runs' # <<>> /\ Head(runs') = [round |-> round, persisted |-> TRUE]
  BY <1>1, <1>5, RunPushed DEF TypeInv, FilesOK
<1>7. QED  BY <1>1, <1>3, <1>4, <1>6 DEF x

LEMMA PublishTyped ==
    ASSUME TypeInv, Publish
    PROVE  TypeInv'
<1> USE PublishFacts
<1>1. WorldOK'
  BY TypeFrames
<1>2. FilesOK'
  BY DEF TypeInv, FilesOK, FileOK, outside, config
<1>call. CallOK'
  BY TypeFrames DEF outside
<1>3. StoreOK(work'.store, round', config'.capacity)
  BY DEF outside, config
<1>4. WorkOK'
  BY <1>3 DEF TypeInv, WorkOK, WorkShape, StoreOK, FileOK
<1>5. PoolOK'
  BY DEF TypeInv, PoolOK, collection
<1>6. FlagsOK'
  BY DEF TypeInv, FlagsOK, collection, Stages
<1>7. QED  BY <1>1, <1>2, <1>call, <1>4, <1>5, <1>6 DEF TypeInv

\* Recording a run changes the runs of the file, if anything.
LEMMA RecordFacts ==
    ASSUME TypeInv, NEW outcome \in {"saved", "failed", "unconfirmed"}, Record(outcome)
    PROVE  /\ stage = "published" /\ RoundOver /\ UNCHANGED <<outside, shown, round>>
           /\ faults' \in 0 .. MaxFaults
           /\ outcome = "failed" => file' = file /\ setter' = setter
           /\ outcome # "failed" => /\ file'.entries = work.store.entries /\ file'.runs = runs
                                    /\ StoreOK(file', round, config.capacity)
                                    /\ Overtakes
           /\ outcome = "saved" => runs' = runs
           /\ outcome # "saved" => runs' # <<>> /\ ~Head(runs').persisted
           /\ runs' \in Seq(RunType) /\ Len(runs') <= MaxHistory
<1>1. /\ stage = "published" /\ RoundOver /\ UNCHANGED <<outside, shown, round>>
      /\ Fault \/ NoFault
      /\ file' = IF outcome = "failed" THEN file ELSE [work.store EXCEPT !.runs = runs]
      /\ IF outcome = "failed" THEN setter' = setter ELSE Overtakes
      /\ runs' = RunsAfter(outcome)
  BY DEF Record, document
<1>2. faults' \in 0 .. MaxFaults
  BY <1>1, FaultTyped
<1>3. StoreOK(work.store, round, config.capacity) /\ work.store \in FileType
      /\ runs \in Seq(RunType) /\ Len(runs) <= MaxHistory
  BY DEF TypeInv, WorkOK, FilesOK, StoreOK, FileOK
<1>4. outcome # "failed" => /\ file'.entries = work.store.entries /\ file'.runs = runs
                            /\ StoreOK(file', round, config.capacity)
  <2> SUFFICES ASSUME outcome # "failed"
               PROVE  /\ file'.entries = work.store.entries /\ file'.runs = runs
                      /\ StoreOK(file', round, config.capacity)
    OBVIOUS
  <2>1. file' = [work.store EXCEPT !.runs = runs]
    BY <1>1
  <2>2. file' \in FileType /\ file'.entries = work.store.entries /\ file'.runs = runs
    BY <1>3, <2>1 DEF FileType
  <2>3. QED  BY <1>3, <2>2 DEF StoreOK, FileOK
<1> DEFINE run == [round |-> round, persisted |-> FALSE]
<1>5. run \in RunType /\ run.persisted = FALSE
  BY SetupTyped DEF TypeInv, WorldOK, FilesOK, RunType
<1>6. /\ outcome = "saved" => runs' = runs
      /\ outcome # "saved" => runs' = Push(run)
  BY <1>1 DEF RunsAfter
<1> HIDE DEF run
<1>7. /\ Push(run) \in Seq(RunType) /\ Len(Push(run)) <= MaxHistory
      /\ Push(run) # <<>> /\ Head(Push(run)) = run
  BY <1>3, <1>5, RunPushed
<1>8. /\ outcome # "saved" => runs' # <<>> /\ ~Head(runs').persisted
      /\ runs' \in Seq(RunType) /\ Len(runs') <= MaxHistory
  BY <1>3, <1>5, <1>6, <1>7
<1>9. QED  BY <1>1, <1>2, <1>4, <1>6, <1>8

LEMMA RecordTyped ==
    ASSUME TypeInv, NEW outcome \in {"saved", "failed", "unconfirmed"}, Record(outcome)
    PROVE  TypeInv'
<1>1. /\ stage = "published" /\ RoundOver /\ UNCHANGED <<outside, shown, round>>
      /\ faults' \in 0 .. MaxFaults
      /\ outcome = "failed" => file' = file /\ setter' = setter
      /\ outcome # "failed" => StoreOK(file', round, config.capacity) /\ Overtakes
      /\ runs' \in Seq(RunType) /\ Len(runs') <= MaxHistory
  BY RecordFacts
<1>2. FileOK(file', round', config'.capacity)
  BY <1>1 DEF TypeInv, FilesOK, StoreOK, outside, config
<1>3. FilesOK'
  BY <1>1, <1>2 DEF TypeInv, FilesOK, FileOK, outside
<1>4. WorldOK'
  BY <1>1, TypeFrames
<1>call. CallOK'
  <2>1. setup' = setup
    BY <1>1 DEF outside
  <2>2. CASE outcome = "failed"
    BY <1>1, <2>1, <2>2, TypeFrames
  <2>3. CASE outcome # "failed"
    BY <1>1, <2>1, <2>3, OvertakesTyped
  <2>4. QED  BY <2>2, <2>3
<1>5. QED  BY <1>1, <1>3, <1>4, <1>call, OverTyped DEF outside, TypeInv

\* A configuration call reads the file; what it writes is what the file says,
\* unless a round has overtaken it.
LEMMA CallFacts ==
    ASSUME TypeInv, ConfigLoads \/ \E replaced \in BOOLEAN : ConfigSaves(replaced)
    PROVE  /\ UNCHANGED <<setup, now, host, moves, shown, runs, collection, round, stage, work,
                          cancelled, faults>>
           /\ FileOK(file', round, config.capacity) /\ CallOK'
           /\ puts' \in 0 .. setup.puts /\ reverted' \in BOOLEAN
           /\ \/ UNCHANGED <<file, reverted>>
              \/ reverted'
              \/ file' = Loaded(file) /\ UNCHANGED reverted
<1> USE DEF TypeInv
<1>1. /\ FileOK(file, round, config.capacity) /\ FileOK(setter.copy, round, config.capacity)
      /\ round \in Nat /\ setup.puts \in Nat /\ puts \in 0 .. setup.puts
      /\ reverted \in BOOLEAN /\ setup \in Scenarios
  BY SetupTyped DEF FilesOK, CallOK, WorldOK
<1>2. CASE ConfigLoads
  <2>1. /\ UNCHANGED <<setup, now, host, moves, shown, runs, collection, round, stage, work,
                       cancelled, faults>>
        /\ UNCHANGED <<file, reverted>> /\ puts < setup.puts /\ puts' = puts + 1
        /\ setter' = [loaded |-> TRUE, copy |-> Loaded(file), overtaken |-> FALSE]
    BY <1>2 DEF ConfigLoads
  <2>2. FileOK(Loaded(file), round, config.capacity) /\ Loaded(file) \in FileType
    BY <1>1, LoadedOK DEF StoreOK, FileOK
  <2>3. puts' \in 0 .. setup.puts
    BY <1>1, <2>1
  <2>4. CallOK'
    BY <2>1, <2>2 DEF CallOK, FileOK, config
  <2>5. QED  BY <1>1, <2>1, <2>3, <2>4
<1>3. ASSUME NEW replaced \in BOOLEAN, ConfigSaves(replaced)
      PROVE  /\ UNCHANGED <<setup, now, host, moves, shown, runs, collection, round, stage, work,
                            cancelled, faults>>
             /\ FileOK(file', round, config.capacity) /\ CallOK'
             /\ puts' \in 0 .. setup.puts /\ reverted' \in BOOLEAN
             /\ \/ UNCHANGED <<file, reverted>>
                \/ reverted'
                \/ file' = Loaded(file) /\ UNCHANGED reverted
  <2>1. /\ UNCHANGED <<setup, now, host, moves, puts, shown, runs, collection, round, stage, work,
                       cancelled, faults>>
        /\ setter.loaded /\ setter' = NoCall
        /\ file' = IF replaced THEN setter.copy ELSE file
        /\ reverted' = (reverted \/ (replaced /\ setter.overtaken))
    BY <1>3 DEF ConfigSaves
  <2>2. FileOK(Loaded(setup.file), round, config.capacity) /\ Loaded(setup.file) \in FileType
    BY <1>1, FirstFileOK, LoadedOK DEF StoreOK, FileOK
  <2>3. CallOK'
    BY <2>1, <2>2 DEF CallOK, NoCall, FileOK, config
  <2>4. setter.overtaken \in BOOLEAN /\ (~setter.overtaken => setter.copy = Loaded(file))
    BY <2>1 DEF CallOK
  <2>5. reverted' \in BOOLEAN
    BY <2>1
  <2>6. FileOK(file', round, config.capacity) /\ puts' \in 0 .. setup.puts
    BY <1>1, <2>1
  <2>7. \/ UNCHANGED <<file, reverted>>
        \/ reverted'
        \/ file' = Loaded(file) /\ UNCHANGED reverted
    <3>1. CASE ~replaced
      <4>1. file' = file /\ reverted' = reverted
        BY <1>1, <2>1, <3>1
      <4>2. QED  BY <4>1
    <3>2. CASE replaced /\ setter.overtaken
      BY <2>1, <3>2
    <3>3. CASE replaced /\ ~setter.overtaken
      <4>1. file' = Loaded(file) /\ reverted' = reverted
        BY <1>1, <2>1, <2>4, <3>3
      <4>2. QED  BY <4>1
    <3>4. QED  BY <2>4, <3>1, <3>2, <3>3
  <2>8. QED  BY <2>1, <2>3, <2>5, <2>6, <2>7
<1>4. QED  BY <1>2, <1>3

LEMMA ConfigTyped ==
    ASSUME TypeInv, ConfigLoads \/ \E replaced \in BOOLEAN : ConfigSaves(replaced)
    PROVE  TypeInv'
<1> USE CallFacts
<1>1. WorldOK'
  BY DEF TypeInv, WorldOK
<1>2. FilesOK'
  BY DEF TypeInv, FilesOK, FileOK, config
<1>3. WorkOK' /\ PoolOK' /\ FlagsOK' /\ (stage = "idle" => Idle)'
  BY TypeFrames DEF collection
<1>4. QED  BY <1>1, <1>2, <1>3 DEF TypeInv

LEMMA OtherTyped ==
    ASSUME TypeInv, SyncHost \/ Cancel \/ HostMoves \/ Tick \/ UNCHANGED vars
    PROVE  TypeInv'
<1>1. UNCHANGED <<setup, file, setter, round, runs, stage, work, collection>>
  BY DEF SyncHost, Cancel, HostMoves, Tick, vars, outside, results, document, collection
<1>2. FilesOK' /\ CallOK' /\ WorkOK' /\ PoolOK'
  BY <1>1, TypeFrames DEF collection
<1>3. WorldOK'
  <2>1. CASE SyncHost \/ Cancel \/ UNCHANGED vars
    BY <2>1, TypeFrames DEF SyncHost, Cancel, vars, outside
  <2>2. CASE HostMoves
    <3>1. moves \in 0 .. MaxMoves /\ moves < MaxMoves /\ moves' = moves + 1 /\ MaxMoves \in Nat
      BY <2>2, BoundAssumption DEF TypeInv, WorldOK, HostMoves
    <3>2. moves' \in 0 .. MaxMoves
      BY <3>1
    <3>3. UNCHANGED <<setup, now, puts, reverted>> /\ host' \in setup.hosts
      BY <2>2 DEF HostMoves
    <3>4. QED  BY <3>2, <3>3 DEF TypeInv, WorldOK
  <2>3. CASE Tick
    BY <2>3, SetupTyped DEF TypeInv, WorldOK, Tick
  <2>4. QED  BY <2>1, <2>2, <2>3
<1>4. FlagsOK'
  <2>1. CASE Cancel
    <3>1. faults' \in 0 .. MaxFaults /\ cancelled' = TRUE
      BY <2>1, FaultTyped DEF Cancel
    <3>2. QED  BY <1>1, <3>1 DEF TypeInv, FlagsOK, collection
  <2>2. CASE SyncHost \/ HostMoves \/ Tick \/ UNCHANGED vars
    BY <1>1, <2>2 DEF TypeInv, FlagsOK, SyncHost, HostMoves, Tick, vars, collection
  <2>3. QED  BY <2>1, <2>2
<1>5. (stage = "idle" => Idle)'
  <2>1. CASE Cancel
    BY <1>1, <2>1 DEF Cancel
  <2>2. CASE SyncHost \/ HostMoves \/ Tick \/ UNCHANGED vars
    <3>1. cancelled' = cancelled
      BY <2>2 DEF SyncHost, HostMoves, Tick, vars
    <3>2. QED  BY <1>1, <3>1, TypeFrames
  <2>3. QED  BY <2>1, <2>2
<1>6. QED  BY <1>2, <1>3, <1>4, <1>5 DEF TypeInv

\* Every step keeps the type invariant.
LEMMA TypeStep ==
    ASSUME TypeInv, [Next]_vars
    PROVE  TypeInv'
<1>1. CASE Begin
  BY <1>1, BeginTyped
<1>2. CASE (\E c \in Creds : Take(c)) \/ FeederStops \/ WorkerReturns
  BY <1>2, PoolActionsTyped
<1>3. ASSUME NEW c \in Creds, NEW answer \in setup.answers, NEW count \in 0 .. 2,
             NEW sent \in BOOLEAN, Finish(c, answer, count, sent)
      PROVE  TypeInv'
  BY <1>3, FinishTyped
<1>4. CASE Collect \/ Relist \/ Abort \/ Publish
  BY <1>4, CollectTyped, RelistTyped, AbortTyped, PublishTyped
<1>5. ASSUME NEW confirmed \in BOOLEAN, Save(confirmed)
      PROVE  TypeInv'
  BY <1>5, SaveTyped
<1>6. ASSUME NEW outcome \in {"saved", "failed", "unconfirmed"}, Record(outcome)
      PROVE  TypeInv'
  BY <1>6, RecordTyped
<1>7. CASE SyncHost \/ Cancel \/ HostMoves \/ Tick \/ UNCHANGED vars
  BY <1>7, OtherTyped
<1>8. CASE ConfigLoads \/ \E replaced \in BOOLEAN : ConfigSaves(replaced)
  BY <1>8, ConfigTyped
<1>9. QED  BY <1>1, <1>2, <1>3, <1>4, <1>5, <1>6, <1>7, <1>8 DEF Next

\* The type invariant, which holds in every state.
LEMMA TypeHolds == Spec => []TypeInv
<1>1. Init => TypeInv
  BY InitTyped
<1>2. TypeInv /\ [Next]_vars => TypeInv'
  BY TypeStep
<1>3. QED  BY <1>1, <1>2, PTL DEF Spec

\* The types of the round's state: learned rates stay in their range whatever
\* the answers, there are never more workers than credentials, and neither run
\* history grows beyond its limit.
THEOREM RoundTypeCorrect == Spec => []RoundTypeOK
<1>1. TypeInv => RoundTypeOK
  <2> SUFFICES ASSUME TypeInv PROVE RoundTypeOK
    OBVIOUS
  <2>1. \A k \in Keys : file.entries[k].rate \in RateRange \cup {0}
    <3> SUFFICES ASSUME NEW k \in Keys PROVE file.entries[k].rate \in RateRange \cup {0}
      OBVIOUS
    <3>1. file.entries[k] \in EntryType
      BY DEF TypeInv, FilesOK, FileOK, FileType
    <3>2. QED  BY <3>1, EntryTyped
  <2>2. stage \in Stages /\ round \in 0 .. setup.rounds /\ host \in setup.hosts
    BY DEF TypeInv, FlagsOK, FilesOK, WorldOK
  <2>3. /\ work.creds \subseteq Creds /\ work.relisted \subseteq Creds
        /\ pool.feeder \in {"feeding", "closed"}
        /\ pool.idle + Cardinality(pool.busy) <= Cardinality(work.creds)
    BY DEF TypeInv, WorkOK, PoolOK, PoolType
  <2>4. /\ Len(runs) <= MaxHistory /\ Len(file.runs) <= MaxHistory
        /\ broken \in BOOLEAN /\ cancelled \in BOOLEAN
        /\ faults \in 0 .. MaxFaults /\ moves \in 0 .. MaxMoves
        /\ puts \in 0 .. setup.puts /\ reverted \in BOOLEAN
    BY DEF TypeInv, FlagsOK, FilesOK, FileOK, WorldOK
  <2>5. QED  BY <2>1, <2>2, <2>3, <2>4 DEF RoundTypeOK
<1>2. QED  BY <1>1, TypeHolds, PTL

-----------------------------------------------------------------------------
(***************************************************************************)
(* The kinds of step, by what they leave alone.                            *)
(***************************************************************************)
PoolOnly ==
    /\ (\E c \in Creds : Hand(c)) \/ Stop \/ Leave
    /\ UNCHANGED <<outside, results, round, stage, work, delivered, broken, answered, cancelled, faults>>

FinishStep ==
    \E c \in Creds, answer \in setup.answers, count \in 0 .. 2, sent \in BOOLEAN :
        Finish(c, answer, count, sent)

SameWork ==
    /\ work'.started = work.started /\ work'.creds = work.creds
    /\ work'.relisted = work.relisted /\ work'.store = work.store

Collects ==
    /\ AllGone /\ stage' = "collected"
    /\ SameWork /\ work'.observations = FreshEvidence
    /\ UNCHANGED <<outside, results, collection, round, cancelled>>

Relists ==
    /\ stage = "collected" /\ ~cancelled /\ stage' = "relisted"
    /\ work'.started = work.started /\ work'.creds = work.creds
    /\ work'.store = work.store /\ work'.observations = work.observations
    /\ UNCHANGED <<outside, results, collection, round, cancelled>>

Saves ==
    /\ stage = "relisted" /\ ~cancelled /\ stage' = "saved"
    /\ file' = work.store
    /\ UNCHANGED <<outside, round, shown, runs, work, collection, cancelled>>

Ends ==
    /\ RoundOver /\ UNCHANGED <<outside, shown, round>>
    /\ \/ stage \in {"collecting", "collected", "relisted", "saved"} /\ UNCHANGED <<file, runs>>
       \/ stage = "relisted" /\ ~cancelled /\ file' = work.store /\ UNCHANGED runs
       \/ \E outcome \in {"saved", "failed", "unconfirmed"} : Record(outcome)

Stays ==
    /\ UNCHANGED <<setup, file, reverted, round, runs, stage, work, collection>>
    /\ cancelled' = cancelled \/ cancelled'
    /\ shown' = shown \/ SyncHost

\* A configuration call writes: an older document, or what the file says.
Rewrites ==
    /\ UNCHANGED <<setup, now, round, stage, work, collection, cancelled, shown, runs>>
    /\ reverted' \/ (file' = Loaded(file) /\ UNCHANGED reverted)

\* Every step is of one of these kinds.
LEMMA StepKinds ==
    ASSUME TypeInv, [Next]_vars
    PROVE  \/ Begin \/ PoolOnly \/ FinishStep \/ Collects \/ Relists \/ Saves \/ Publish
           \/ Ends \/ Stays \/ Rewrites
<1>1. CASE Begin \/ Publish
  BY <1>1
<1>2. CASE (\E c \in Creds : Take(c)) \/ FeederStops \/ WorkerReturns
  BY <1>2 DEF PoolOnly, Take, FeederStops, WorkerReturns
<1>3. CASE FinishStep
  BY <1>3
<1>4. CASE Collect
  <2>1. CASE broken
    BY <1>4, <2>1 DEF Collect, Ends, AllGone, results, outside
  <2>2. CASE ~broken
    <3>1. /\ AllGone /\ stage' = "collected" /\ work' = [work EXCEPT !.observations = FreshEvidence]
          /\ UNCHANGED <<outside, results, collection, round, cancelled>>
      BY <1>4, <2>2 DEF Collect
    <3>2. SameWork /\ work'.observations = FreshEvidence
      BY <3>1, WorkFields DEF SameWork
    <3>3. QED  BY <3>1, <3>2 DEF Collects
  <2>3. QED  BY <2>1, <2>2
<1>5. CASE Relist
  <2>1. /\ work'.started = work.started /\ work'.creds = work.creds
        /\ work'.store = work.store /\ work'.observations = work.observations
    BY <1>5, WorkFields DEF Relist
  <2>2. QED  BY <1>5, <2>1 DEF Relist, Relists
<1>6. ASSUME NEW confirmed \in BOOLEAN, Save(confirmed)
      PROVE  Saves \/ Ends
  BY <1>6 DEF Save, Saves, Ends
<1>7. CASE Abort
  BY <1>7 DEF Abort, Ends, results
<1>8. ASSUME NEW outcome \in {"saved", "failed", "unconfirmed"}, Record(outcome)
      PROVE  Ends
  <2>1. RoundOver /\ UNCHANGED <<outside, shown, round>>
    BY <1>8 DEF Record
  <2>2. QED  BY <1>8, <2>1 DEF Ends
<1>9. CASE SyncHost \/ Cancel \/ HostMoves \/ Tick \/ UNCHANGED vars
  BY <1>9
     DEF SyncHost, Cancel, HostMoves, Tick, vars, outside, results, document, collection, Stays
<1>10. CASE ConfigLoads \/ \E replaced \in BOOLEAN : ConfigSaves(replaced)
  BY <1>10, CallFacts DEF Stays, Rewrites
<1>11. QED
  BY <1>1, <1>2, <1>3, <1>4, <1>5, <1>6, <1>7, <1>8, <1>9, <1>10 DEF Next, FinishStep

-----------------------------------------------------------------------------
(***************************************************************************)
(* The run history.                                                        *)
(***************************************************************************)
NewestTrue ==
    runs # <<>> /\ Head(runs).persisted
        => file.runs # <<>> /\ Head(file.runs).round = Head(runs).round

RunsInv ==
    ~reverted =>
        /\ stage \in {"collecting", "collected", "relisted", "saved"} => work.store.runs = file.runs
        /\ stage # "published" => NewestTrue

\* Every step keeps the run history true.
LEMMA RunsStep ==
    ASSUME TypeInv, RunsInv, [Next]_vars
    PROVE  RunsInv'
<1>1. CASE Begin
  <2>1. /\ stage = "idle" /\ work'.store = Loaded(file) /\ UNCHANGED <<file, runs, reverted>>
    BY <1>1, BeginFacts DEF outside, results
  <2>2. Loaded(file).runs = file.runs
    BY LoadedTyped DEF TypeInv, FilesOK, FileOK
  <2>3. QED  BY <2>1, <2>2 DEF RunsInv, NewestTrue
<1>2. CASE PoolOnly
  BY <1>2 DEF PoolOnly, outside, results, RunsInv, NewestTrue
<1>3. CASE FinishStep
  <2>1. PICK c \in Creds, answer \in setup.answers, count \in 0 .. 2, sent \in BOOLEAN :
                Finish(c, answer, count, sent)
    BY <1>3 DEF FinishStep
  <2>2. UNCHANGED <<outside, results, stage>> /\ work'.store.runs = work.store.runs
    BY <2>1, FinishFacts DEF Effect
  <2>3. QED  BY <2>2 DEF outside, results, RunsInv, NewestTrue
<1>4. CASE Collects \/ Relists
  <2>1. /\ UNCHANGED <<outside, results>> /\ work'.store = work.store
        /\ stage \in {"collecting", "collected"} /\ stage' \in {"collected", "relisted"}
    BY <1>4 DEF Collects, Relists, SameWork, AllGone
  <2>2. QED  BY <2>1 DEF outside, results, RunsInv, NewestTrue
<1>5. CASE Saves
  BY <1>5 DEF Saves, outside, RunsInv, NewestTrue
<1>6. CASE Publish
  BY <1>6, PublishFacts DEF outside, RunsInv
<1>7. CASE Ends
  <2>1. stage' = "idle" /\ reverted' = reverted
    BY <1>7 DEF Ends, RoundOver, outside
  <2>2. CASE stage \in {"collecting", "collected", "relisted", "saved"} /\ UNCHANGED <<file, runs>>
    BY <2>1, <2>2 DEF RunsInv, NewestTrue
  <2>3. CASE stage = "relisted" /\ ~cancelled /\ file' = work.store /\ UNCHANGED runs
    BY <2>1, <2>3 DEF RunsInv, NewestTrue
  <2>4. ASSUME NEW outcome \in {"saved", "failed", "unconfirmed"}, Record(outcome)
        PROVE  NewestTrue'
    BY <2>4, RecordFacts DEF NewestTrue
  <2>5. QED  BY <1>7, <2>1, <2>2, <2>3, <2>4 DEF Ends, RunsInv
<1>8. CASE Stays
  BY <1>8 DEF Stays, RunsInv, NewestTrue
<1>9. CASE Rewrites
  <2>1. CASE reverted'
    BY <2>1 DEF RunsInv
  <2>2. CASE file' = Loaded(file) /\ UNCHANGED reverted
    <3>1. file'.runs = file.runs
      BY <2>2, LoadedTyped DEF TypeInv, FilesOK, FileOK
    <3>2. QED  BY <1>9, <2>2, <3>1 DEF Rewrites, RunsInv, NewestTrue
  <2>3. QED  BY <1>9, <2>1, <2>2 DEF Rewrites
<1>10. QED  BY <1>1, <1>2, <1>3, <1>4, <1>5, <1>6, <1>7, <1>8, <1>9, StepKinds

\* A newest run that says persisted is in the file, whatever saves failed or
\* were confirmed too late and whatever configuration calls wrote, except those
\* that put back a document that a round had overtaken.
THEOREM NewestRunHolds == Spec => []NewestRunTrue
<1>1. Init => RunsInv
  BY DEF Init, RunsInv, NewestTrue
<1>2. TypeInv /\ RunsInv /\ [Next]_vars => RunsInv'
  BY RunsStep
<1>3. RunsInv => NewestRunTrue
  BY DEF RunsInv, NewestTrue, NewestRunTrue
<1>4. QED  BY <1>1, <1>2, <1>3, TypeHolds, PTL DEF Spec

\* The histories of the store are sound in every state of a round.
THEOREM SamplesSoundHolds == Spec => []SamplesSound
<1>1. TypeInv => SamplesSound
  <2> SUFFICES ASSUME TypeInv, NEW k \in Keys
               PROVE  LET entry == work.store.entries[k]
                          samples == entry.samples
                      IN /\ \A i, j \in DOMAIN samples : i < j => samples[i].seq < samples[j].seq
                         /\ \A i \in DOMAIN samples \ {1} : ~SameQuota(samples[i - 1], samples[i])
                         /\ samples # <<>> => entry.baseline \in Sequences(samples)
                         /\ (\E i \in DOMAIN samples : samples[i].round # NoRound)
                              => Len(samples) <= Capacity(config.capacity)
    BY DEF SamplesSound
  <2>1. EntrySound(work.store.entries[k], config.capacity)
    BY EntryOfStore DEF TypeInv, WorkOK
  <2>2. QED  BY <2>1 DEF EntrySound, HistorySound, InOrder, Increasing, Differ
<1>2. QED  BY <1>1, TypeHolds, PTL

-----------------------------------------------------------------------------
(***************************************************************************)
(* No credential is lost between the feeder, the workers and the           *)
(* collector unless the round is cancelled.                                *)
(***************************************************************************)
Received == {r.cred : r \in delivered}

Delivered(r) ==
    /\ r.cred \in Creds /\ r.group \in Groups /\ r.ready \in BOOLEAN /\ r.at = work.started
    /\ r.cred \notin pool.jobs /\ r.cred \notin pool.busy
    /\ r.cred \in work.creds
    /\ \A g \in Groups : \E s \in delivered : s.cred = r.cred /\ s.group = g
    /\ \A s \in delivered : s.cred = r.cred /\ s.group = r.group => s = r

PoolInv ==
    /\ \A r \in delivered : Delivered(r)
    /\ pool.jobs \cap pool.busy = {}
    /\ ~cancelled \/ stage \in {"saved", "published"}
         => work.creds \subseteq pool.jobs \cup pool.busy \cup Received
    /\ ~cancelled /\ stage = "collecting" /\ pool.feeder = "feeding"
         => pool.idle + Cardinality(pool.busy) = Workers(Cardinality(work.creds))
    /\ ~cancelled /\ pool.feeder = "closed" => pool.jobs = {}
    /\ \/ stage \in {"idle", "collecting"}
       \/ pool.busy = {} /\ (~cancelled \/ stage \in {"saved", "published"} => pool.jobs = {})

\* Every credential of the round is answered.
Complete == stage \in {"saved", "published"} => work.creds \subseteq Received

\* Two results of one credential.
LEMMA PairDelivered ==
    ASSUME TypeInv, PoolInv, NEW c \in pool.busy, NEW answer \in setup.answers,
           NEW first \in Parsed(c, answer, "gemini"), NEW second \in Parsed(c, answer, "claude_gpt"),
           delivered' = delivered \cup {first, second}, work'.started = work.started,
           work'.creds = work.creds, pool'.jobs = pool.jobs, pool'.busy = pool.busy \ {c}
    PROVE  \A r \in delivered' : Delivered(r)'
<1>1. /\ c \in Creds /\ c \in work.creds /\ c \notin pool.jobs
      /\ pool.busy \subseteq Creds /\ "gemini" \in Groups /\ "claude_gpt" \in Groups
  BY FinitePool DEF TypeInv, PoolOK, PoolInv, Groups
<1>2. \A s \in delivered : s.cred # c
  BY DEF PoolInv, Delivered
<1>3. /\ first.cred = c /\ first.group = "gemini" /\ first.ready \in BOOLEAN
      /\ first.at = work.started
      /\ second.cred = c /\ second.group = "claude_gpt" /\ second.ready \in BOOLEAN
      /\ second.at = work.started
  BY <1>1, ParsedResult DEF TypeInv, WorldOK, WorkOK
<1>4. ASSUME NEW r \in delivered PROVE Delivered(r)'
  <2>1. Delivered(r) /\ r.cred # c
    BY <1>2 DEF PoolInv
  <2>2. \A s \in delivered' : s.cred = r.cred => s \in delivered
    BY <1>3, <2>1
  <2>3. delivered \subseteq delivered'
    OBVIOUS
  <2>4. \A g \in Groups : \E s \in delivered' : s.cred = r.cred /\ s.group = g
    BY <2>1, <2>3 DEF Delivered
  <2>5. \A s \in delivered' : s.cred = r.cred /\ s.group = r.group => s = r
    BY <2>1, <2>2 DEF Delivered
  <2>6. QED  BY <2>1, <2>4, <2>5 DEF Delivered
<1>5. ASSUME NEW r \in {first, second} PROVE Delivered(r)'
  <2>1. \A g \in Groups : \E s \in delivered' : s.cred = r.cred /\ s.group = g
    BY <1>3 DEF Groups
  <2>2. \A s \in delivered' : s.cred = r.cred /\ s.group = r.group => s = r
    BY <1>2, <1>3
  <2>3. QED  BY <1>1, <1>3, <2>1, <2>2 DEF Delivered
<1>6. QED  BY <1>4, <1>5

\* What the pool does and the collector receives.
LEMMA PoolFields ==
    ASSUME TypeInv
    PROVE  /\ \A c : Hand(c) =>
                /\ c \in pool.jobs /\ pool.idle > 0 /\ pool.feeder = "feeding" /\ stage = "collecting"
                /\ pool'.jobs = pool.jobs \ {c} /\ pool'.idle = pool.idle - 1
                /\ pool'.feeder = pool.feeder
                /\ pool'.busy = IF Parallel /\ cancelled THEN pool.busy ELSE pool.busy \cup {c}
           /\ Stop =>
                /\ stage = "collecting" /\ (pool.jobs = {} \/ cancelled)
                /\ pool'.jobs = pool.jobs /\ pool'.idle = pool.idle /\ pool'.busy = pool.busy
                /\ pool'.feeder = "closed"
           /\ Leave =>
                /\ stage = "collecting" /\ pool.feeder = "closed"
                /\ pool'.jobs = pool.jobs /\ pool'.busy = pool.busy /\ pool'.feeder = pool.feeder
           /\ \A c, goesOn : Done(c, goesOn) =>
                /\ stage = "collecting" /\ c \in pool.busy
                /\ pool'.jobs = pool.jobs /\ pool'.busy = pool.busy \ {c}
                /\ pool'.feeder = pool.feeder
                /\ pool'.idle = IF goesOn THEN pool.idle + 1 ELSE pool.idle
<1>1. pool = [jobs |-> pool.jobs, feeder |-> pool.feeder, idle |-> pool.idle,
              busy |-> pool.busy]
  BY FinitePool
<1>2. \A c : Hand(c) =>
        /\ c \in pool.jobs /\ pool.idle > 0 /\ pool.feeder = "feeding" /\ stage = "collecting"
        /\ pool'.jobs = pool.jobs \ {c} /\ pool'.idle = pool.idle - 1
        /\ pool'.feeder = pool.feeder
        /\ pool'.busy = IF Parallel /\ cancelled THEN pool.busy ELSE pool.busy \cup {c}
  <2> DEFINE busy(c) == IF Parallel /\ cancelled THEN pool.busy ELSE pool.busy \cup {c}
  <2> SUFFICES ASSUME NEW c, Hand(c)
               PROVE  /\ c \in pool.jobs /\ pool.idle > 0 /\ pool.feeder = "feeding"
                      /\ stage = "collecting"
                      /\ pool'.jobs = pool.jobs \ {c} /\ pool'.idle = pool.idle - 1
                      /\ pool'.feeder = pool.feeder
                      /\ pool'.busy = busy(c)
    OBVIOUS
  <2>1. pool' = [pool EXCEPT !.jobs = @ \ {c}, !.idle = @ - 1, !.busy = busy(c)]
    BY DEF Hand
  <2> HIDE DEF busy
  <2>2. QED  BY <1>1, <2>1 DEF Hand
<1>3. Stop =>
        /\ stage = "collecting" /\ (pool.jobs = {} \/ cancelled)
        /\ pool'.jobs = pool.jobs /\ pool'.idle = pool.idle /\ pool'.busy = pool.busy
        /\ pool'.feeder = "closed"
  BY <1>1 DEF Stop, Stopped, HandedOut
<1>4. Leave =>
        /\ stage = "collecting" /\ pool.feeder = "closed"
        /\ pool'.jobs = pool.jobs /\ pool'.busy = pool.busy /\ pool'.feeder = pool.feeder
  BY <1>1 DEF Leave
<1>5. \A c, goesOn : Done(c, goesOn) =>
        /\ stage = "collecting" /\ c \in pool.busy
        /\ pool'.jobs = pool.jobs /\ pool'.busy = pool.busy \ {c}
        /\ pool'.feeder = pool.feeder
        /\ pool'.idle = IF goesOn THEN pool.idle + 1 ELSE pool.idle
  BY <1>1 DEF Done
<1>6. QED  BY <1>2, <1>3, <1>4, <1>5

\* A round begins with every credential listed as a job.
LEMMA PoolBegins ==
    ASSUME TypeInv, Begin
    PROVE  PoolInv'
<1> USE BeginFacts
<1>1. delivered' = {} /\ ~cancelled'
  <2>1. Idle
    BY DEF TypeInv
  <2>2. QED  BY <2>1 DEF Idle
<1>2. /\ pool'.jobs = Listed /\ pool'.busy = {} /\ pool'.idle = Workers(Cardinality(Listed))
      /\ pool'.feeder = "feeding" /\ work'.creds = Listed
  OBVIOUS
<1>3. Workers(Cardinality(Listed)) = Workers(Cardinality(work.creds))'
  BY <1>2 DEF Workers, config, outside
<1>4. pool'.idle + Cardinality(pool'.busy) = Workers(Cardinality(work.creds))'
  BY <1>2, <1>3, FS_EmptySet
<1>5. \A r \in delivered' : Delivered(r)'
  BY <1>1
<1>6. QED  BY <1>1, <1>2, <1>4, <1>5 DEF PoolInv

\* What the feeder and the workers do among themselves loses no credential.
LEMMA PoolHands ==
    ASSUME TypeInv, PoolInv, PoolOnly
    PROVE  PoolInv'
<1>1. UNCHANGED <<outside, stage, work, delivered, cancelled>>
  BY DEF PoolOnly
<1>2. (Workers(Cardinality(work.creds)) = Workers(Cardinality(work.creds))')
      /\ Received' = Received
  BY <1>1 DEF Workers, config, outside, Received
<1>3. ASSUME NEW c \in Creds, Hand(c) PROVE PoolInv'
  <2>1. /\ c \in pool.jobs /\ pool.idle > 0 /\ pool.feeder = "feeding" /\ stage = "collecting"
        /\ pool'.jobs = pool.jobs \ {c} /\ pool'.idle = pool.idle - 1
        /\ pool'.feeder = pool.feeder
        /\ pool'.busy = IF Parallel /\ cancelled THEN pool.busy ELSE pool.busy \cup {c}
    BY <1>3, PoolFields
  <2>2. \A r \in delivered' : Delivered(r)'
    BY <1>1, <2>1 DEF PoolInv, Delivered
  <2>3. pool'.jobs \cap pool'.busy = {}
    BY <2>1 DEF PoolInv
  <2>4. ~cancelled => pool'.jobs \cup pool'.busy = pool.jobs \cup pool.busy
    BY <2>1
  <2>5. ~cancelled => pool'.idle + Cardinality(pool'.busy) = Workers(Cardinality(work.creds))
    <3> SUFFICES ASSUME ~cancelled
                 PROVE  pool'.idle + Cardinality(pool'.busy) = Workers(Cardinality(work.creds))
      OBVIOUS
    <3>1. pool.idle + Cardinality(pool.busy) = Workers(Cardinality(work.creds)) /\ c \notin pool.busy
      BY <2>1 DEF PoolInv
    <3>2. Cardinality(pool.busy \cup {c}) = Cardinality(pool.busy) + 1
      BY <3>1, FinitePool, FS_AddElement
    <3>3. pool'.busy = pool.busy \cup {c} /\ pool'.idle = pool.idle - 1
      BY <2>1
    <3> DEFINE total == Workers(Cardinality(work.creds))
               n == Cardinality(pool.busy)
    <3>4. pool.idle \in Nat /\ n \in Nat /\ pool.idle + n = total
      BY <3>1, FinitePool
    <3>5. Cardinality(pool'.busy) = n + 1
      BY <3>2, <3>3
    <3> HIDE DEF total, n
    <3>6. pool'.idle + Cardinality(pool'.busy) = total
      BY <3>3, <3>4, <3>5
    <3>7. QED  BY <3>6 DEF total
  <2>6. QED  BY <1>1, <1>2, <2>1, <2>2, <2>3, <2>4, <2>5 DEF PoolInv
<1>4. CASE Stop
  <2>1. /\ stage = "collecting" /\ (pool.jobs = {} \/ cancelled)
        /\ pool'.jobs = pool.jobs /\ pool'.idle = pool.idle /\ pool'.busy = pool.busy
        /\ pool'.feeder = "closed"
    BY <1>4, PoolFields
  <2>2. \A r \in delivered' : Delivered(r)'
    BY <1>1, <2>1 DEF PoolInv, Delivered
  <2>3. QED  BY <1>1, <1>2, <2>1, <2>2 DEF PoolInv
<1>5. CASE Leave
  <2>1. /\ stage = "collecting" /\ pool.feeder = "closed"
        /\ pool'.jobs = pool.jobs /\ pool'.busy = pool.busy /\ pool'.feeder = pool.feeder
    BY <1>5, PoolFields
  <2>2. \A r \in delivered' : Delivered(r)'
    BY <1>1, <2>1 DEF PoolInv, Delivered
  <2>3. QED  BY <1>1, <1>2, <2>1, <2>2 DEF PoolInv
<1>6. QED  BY <1>3, <1>4, <1>5 DEF PoolOnly

\* A worker that goes on has delivered both results; one that does not was
\* cancelled.
LEMMA PoolFinishes ==
    ASSUME TypeInv, PoolInv, FinishStep
    PROVE  PoolInv'
<1>1. PICK c \in Creds, answer \in setup.answers, count \in 0 .. 2, sent \in BOOLEAN :
              Finish(c, answer, count, sent)
  BY DEF FinishStep
<1>2. /\ UNCHANGED <<outside, stage, cancelled>> /\ Done(c, sent /\ count = 2)
      /\ count < 2 => cancelled
      /\ sent \/ cancelled
      /\ work' = [work EXCEPT !.store = work'.store]
  BY <1>1, FinishFacts
<1>3. work'.started = work.started /\ work'.creds = work.creds
  <2> DEFINE x == work'.store
  <2> HIDE DEF x
  <2>1. work' = [work EXCEPT !.store = x]
    BY <1>2 DEF x
  <2>2. QED  BY <2>1, WorkFields
<1>4. /\ stage = "collecting" /\ c \in pool.busy
      /\ pool'.jobs = pool.jobs /\ pool'.busy = pool.busy \ {c}
      /\ pool'.feeder = pool.feeder
      /\ pool'.idle = IF sent /\ count = 2 THEN pool.idle + 1 ELSE pool.idle
  BY <1>2, PoolFields
<1>5. CASE sent /\ count = 2
  <2>1. PICK first \in Parsed(c, answer, "gemini"), second \in Parsed(c, answer, "claude_gpt") :
          delivered' = IF sent /\ count = 2 THEN delivered \cup {first, second} ELSE delivered
    BY <1>1, FinishFacts
  <2>2. \A r \in delivered' : Delivered(r)'
    BY <1>3, <1>4, <1>5, <2>1, PairDelivered
  <2>3. first.cred = c
    BY <1>1, ParsedResult DEF TypeInv, WorldOK, WorkOK, Groups
  <2>4. Received' = Received \cup {c}
    <3>1. second.cred = c
      BY <1>1, ParsedResult DEF TypeInv, WorldOK, WorkOK, Groups
    <3>2. delivered' = delivered \cup {first, second}
      BY <1>5, <2>1
    <3>3. QED  BY <2>3, <3>1, <3>2 DEF Received
  <2>5. pool'.idle + Cardinality(pool'.busy) = pool.idle + Cardinality(pool.busy)
    <3>1. Cardinality(pool.busy \ {c}) = Cardinality(pool.busy) - 1
      BY <1>4, FinitePool, FS_RemoveElement
    <3>2. pool'.idle = pool.idle + 1
      BY <1>4, <1>5
    <3>3. QED  BY <1>4, <3>1, <3>2, FinitePool
  <2>6. (Workers(Cardinality(work.creds)) = Workers(Cardinality(work.creds))')
    BY <1>2, <1>3 DEF Workers, config, outside
  <2>7. QED  BY <1>2, <1>3, <1>4, <2>2, <2>4, <2>5, <2>6 DEF PoolInv
<1>6. CASE ~(sent /\ count = 2)
  <2>1. cancelled
    BY <1>2, <1>6
  <2>2. delivered' = delivered
    BY <1>1, <1>6, FinishFacts
  <2>3. \A r \in delivered' : Delivered(r)'
    BY <1>3, <1>4, <2>2 DEF PoolInv, Delivered
  <2>4. QED  BY <1>2, <1>4, <2>1, <2>3 DEF PoolInv
<1>7. QED  BY <1>5, <1>6

\* When every worker has returned without a cancellation, no job is left.
LEMMA PoolCollects ==
    ASSUME TypeInv, PoolInv, Collects
    PROVE  PoolInv'
<1>1. /\ UNCHANGED <<outside, pool, delivered, cancelled>> /\ stage' = "collected"
      /\ stage = "collecting" /\ pool.idle = 0 /\ pool.busy = {}
      /\ work'.started = work.started /\ work'.creds = work.creds
  BY DEF Collects, SameWork, AllGone, collection
<1>2. ~cancelled => pool.jobs = {}
  <2> SUFFICES ASSUME ~cancelled, pool.feeder = "feeding"
               PROVE  pool.jobs = {}
    BY FinitePool DEF PoolInv
  <2>1. Workers(Cardinality(work.creds)) = 0
    BY <1>1, FS_EmptySet DEF PoolInv
  <2>2. Cardinality(work.creds) = 0
    <3>1. config.workers \in Int /\ Cardinality(work.creds) \in Nat
      BY FinitePool, SetupTyped DEF TypeInv, WorldOK
    <3>2. QED  BY <2>1, <3>1 DEF Workers, Least
  <2>3. work.creds = {}
    BY <2>2, FinitePool, FS_EmptySet
  <2>4. QED  BY <2>3 DEF TypeInv, PoolOK
<1>3. \A r \in delivered' : Delivered(r)'
  BY <1>1 DEF PoolInv, Delivered
<1>4. Received' = Received
  BY <1>1 DEF Received
<1>5. QED  BY <1>1, <1>2, <1>3, <1>4 DEF PoolInv

\* Steps after the collection leave the pool and the results alone.
LEMMA PoolKept ==
    ASSUME TypeInv, PoolInv,
           UNCHANGED <<setup, pool, delivered>>, work'.started = work.started,
           work'.creds = work.creds, ~cancelled' => ~cancelled,
           stage' = stage \/ (stage \notin {"idle", "collecting"} /\ stage' \in Stages \ {"idle", "collecting"}),
           stage' \in {"saved", "published"} => ~cancelled \/ stage \in {"saved", "published"}
    PROVE  PoolInv'
<1>1. \A r \in delivered' : Delivered(r)'
  BY DEF PoolInv, Delivered
<1>2. (Workers(Cardinality(work.creds)) = Workers(Cardinality(work.creds))')
      /\ Received' = Received
  BY DEF Workers, config, Received
<1>3. QED  BY <1>1, <1>2 DEF PoolInv

\* Every step keeps the pool invariant.
LEMMA PoolInvStep ==
    ASSUME TypeInv, PoolInv, [Next]_vars
    PROVE  PoolInv'
<1>1. CASE Begin
  BY <1>1, PoolBegins
<1>2. CASE PoolOnly
  BY <1>2, PoolHands
<1>3. CASE FinishStep
  BY <1>3, PoolFinishes
<1>4. CASE Collects
  BY <1>4, PoolCollects
<1>5. CASE Relists \/ Saves
  <2>1. /\ UNCHANGED <<setup, pool, delivered, cancelled>> /\ work'.started = work.started
        /\ work'.creds = work.creds /\ stage \notin {"idle", "collecting"} /\ ~cancelled
        /\ stage' \in {"relisted", "saved"}
    BY <1>5 DEF Relists, Saves, outside, collection
  <2>2. QED  BY <2>1, PoolKept DEF Stages
<1>6. CASE Publish
  <2>1. /\ UNCHANGED <<setup, pool, delivered, cancelled>> /\ work'.started = work.started
        /\ work'.creds = work.creds /\ stage = "saved" /\ stage' = "published" /\ ~cancelled
    BY <1>6, PublishFacts DEF outside, collection
  <2>2. QED  BY <2>1, PoolKept DEF Stages
<1>7. CASE Ends
  <2>1. /\ delivered' = {} /\ pool' = NoPool /\ work' = NoWork /\ stage' = "idle"
        /\ cancelled' = FALSE
    BY <1>7 DEF Ends, RoundOver
  <2>2. pool'.jobs = {} /\ pool'.busy = {} /\ pool'.feeder = "closed" /\ work'.creds = {}
    BY <2>1 DEF NoPool, NoWork
  <2>3. QED  BY <2>1, <2>2 DEF PoolInv
<1>8. CASE Stays \/ Rewrites
  <2>1. UNCHANGED <<setup, pool, delivered, stage, work>>
    BY <1>8 DEF Stays, Rewrites, collection
  <2>2. (~cancelled' => ~cancelled) /\ work'.started = work.started /\ work'.creds = work.creds
    BY <1>8, <2>1 DEF Stays, Rewrites
  <2>3. stage' = stage
    BY <2>1
  <2>4. stage' \in {"saved", "published"} => ~cancelled \/ stage \in {"saved", "published"}
    BY <2>3
  <2>5. QED  BY <2>1, <2>2, <2>3, <2>4, PoolKept
<1>9. QED  BY <1>1, <1>2, <1>3, <1>4, <1>5, <1>6, <1>7, <1>8, StepKinds

\* The pool invariant holds in every state.
LEMMA PoolHolds == Spec => []PoolInv
<1>1. Init => PoolInv
  <2> SUFFICES ASSUME Init PROVE PoolInv
    OBVIOUS
  <2>1. /\ delivered = {} /\ pool.jobs = {} /\ pool.busy = {} /\ pool.feeder = "closed"
        /\ work.creds = {} /\ stage = "idle"
    BY DEF Init, NoPool, NoWork
  <2>2. QED  BY <2>1 DEF PoolInv
<1>2. TypeInv /\ PoolInv /\ [Next]_vars => PoolInv'
  BY PoolInvStep
<1>3. QED  BY <1>1, <1>2, TypeHolds, PTL DEF Spec

\* What is saved is complete.
LEMMA CompleteHolds ==
    ASSUME PoolInv
    PROVE  Complete
  BY DEF PoolInv, Complete

-----------------------------------------------------------------------------
(***************************************************************************)
(* What the store keeps of the round, and of the time before it.           *)
(***************************************************************************)
Unsaved == {"collecting", "collected", "relisted"}

Noticed(r) ==
    LET entry == work.store.entries[<<r.cred, r.group>>] IN
    IF r.ready THEN entry.at = work.started /\ Shows(entry, r) ELSE entry.failed

\* A sample that carries the round is the newest of its entry, and comes from
\* a result that was received unless the round is cancelled.
MarkOK(k, i) ==
    LET samples == work.store.entries[k].samples IN
    samples[i].round = round =>
        /\ i = Len(samples) /\ samples[i].at = work.started
        /\ k[1] \notin pool.jobs /\ k[1] \notin pool.busy
        /\ \/ cancelled /\ stage \in Unsaved
           \/ \E r \in delivered : r.cred = k[1] /\ r.group = k[2] /\ r.ready

Marks == \A k \in Keys : \A i \in DOMAIN work.store.entries[k].samples : MarkOK(k, i)

Remembers(old, new, at) ==
    /\ \/ new.at = at
       \/ Measured(new) = Measured(old) /\ new.samples = old.samples /\ new.rate = old.rate
    /\ old.samples # <<>> =>
         new.samples # <<>>
           /\ new.samples[Len(new.samples)].seq >= old.samples[Len(old.samples)].seq

StoreInv ==
    /\ \A r \in delivered : Noticed(r)
    /\ stage # "idle" => Marks
    /\ stage \in Unsaved /\ ~reverted =>
         \A k \in Keys : Remembers(Loaded(file).entries[k], work.store.entries[k], work.started)
    /\ stage \in {"saved", "published"} /\ ~reverted =>
         Loaded(file).entries = Loaded(work.store).entries

\* The last sequence number.
LEMMA LastSeq ==
    ASSUME NEW entry, NEW configured, EntrySound(entry, configured), entry.samples # <<>>
    PROVE  /\ entry.samples[Len(entry.samples)].seq \in Nat
           /\ Last(entry.samples) = entry.samples[Len(entry.samples)]
  BY LastSample DEF EntrySound, HistorySound, InOrder

\* An entry that measured the same did so at the same time.
LEMMA MeasuredAt ==
    ASSUME NEW x, NEW y, Measured(x) = Measured(y)
    PROVE  x.at = y.at
<1>1. "at" \in Measures
  BY DEF Measures
<1>2. Measured(x)["at"] = x["at"] /\ Measured(y)["at"] = y["at"]
  BY <1>1 DEF Measured
<1>3. x["at"] = y["at"]
  BY <1>2
<1>4. QED  BY <1>3

\* An entry that has noted one more result still remembers what it did.
LEMMA RemembersMore ==
    ASSUME NEW old, EntrySound(old, config.capacity), NEW mid, EntrySound(mid, config.capacity),
           NEW new, EntrySound(new, config.capacity), NEW r, NotedEntry(mid, new, r),
           r.ready \in BOOLEAN, Remembers(old, mid, r.at)
    PROVE  Remembers(old, new, r.at)
<1>1. CASE r.ready
  <2>1. new.at = r.at
    BY <1>1 DEF NotedEntry
  <2>2. mid.samples # <<>> =>
          new.samples # <<>>
            /\ new.samples[Len(new.samples)].seq >= mid.samples[Len(mid.samples)].seq
    BY <1>1 DEF NotedEntry, Left
  <2>3. old.samples # <<>> =>
          mid.samples # <<>>
            /\ mid.samples[Len(mid.samples)].seq >= old.samples[Len(old.samples)].seq
    BY DEF Remembers
  <2>4. old.samples # <<>> =>
          new.samples # <<>>
            /\ new.samples[Len(new.samples)].seq >= old.samples[Len(old.samples)].seq
    <3> SUFFICES ASSUME old.samples # <<>>
                 PROVE  new.samples # <<>>
                          /\ new.samples[Len(new.samples)].seq >= old.samples[Len(old.samples)].seq
      OBVIOUS
    <3>1. mid.samples # <<>> /\ new.samples # <<>>
      BY <2>2, <2>3
    <3> DEFINE a == old.samples[Len(old.samples)].seq
               b == mid.samples[Len(mid.samples)].seq
               c == new.samples[Len(new.samples)].seq
    <3>2. a \in Nat /\ b \in Nat /\ c \in Nat
      BY <3>1, LastSeq
    <3>3. b >= a /\ c >= b
      BY <2>2, <2>3, <3>1
    <3> HIDE DEF a, b, c
    <3>4. c >= a
      BY <3>2, <3>3
    <3>5. QED  BY <3>1, <3>4 DEF a, c
  <2>5. QED  BY <2>1, <2>4 DEF Remembers
<1>2. CASE ~r.ready
  <2>1. /\ Measured(new) = Measured(mid) /\ new.rate = mid.rate /\ new.samples = mid.samples
    BY <1>2 DEF NotedEntry, SameKnowledge
  <2>2. new.at = mid.at
    BY <2>1, MeasuredAt
  <2>3. QED  BY <2>1, <2>2 DEF Remembers
<1>3. QED  BY <1>1, <1>2

\* The entries read from the file are sound.
LEMMA LoadedSound ==
    ASSUME TypeInv, NEW k \in Keys
    PROVE  EntrySound(Loaded(file).entries[k], config.capacity)
<1>1. round \in Nat
  BY SetupTyped DEF TypeInv, WorldOK, FilesOK
<1>2. StoreOK(Loaded(file), round, config.capacity)
  BY <1>1, LoadedOK DEF TypeInv, FilesOK
<1>3. QED  BY <1>2, EntryOfStore

\* A round begins with the store that was read.
LEMMA StoreBegins ==
    ASSUME TypeInv, Begin
    PROVE  StoreInv'
<1>1. /\ round \in Nat /\ round' = round + 1 /\ stage' = "collecting" /\ file' = file
      /\ work'.store = Loaded(file)
  BY BeginFacts DEF results
<1>2. delivered' = {}
  <2>1. Idle /\ delivered' = delivered
    BY BeginFacts DEF TypeInv
  <2>2. QED  BY <2>1 DEF Idle
<1>3. StoreOK(Loaded(file), round, config.capacity)
  BY <1>1, LoadedOK DEF TypeInv, FilesOK
<1>4. ASSUME NEW k \in Keys, NEW i \in DOMAIN work'.store.entries[k].samples
      PROVE  work'.store.entries[k].samples[i].round # round'
  <2>1. RoundsOf(work'.store.entries[k].samples) \subseteq 0 .. round
    BY <1>1, <1>3, EntryOfStore
  <2>2. work'.store.entries[k].samples[i].round \in 0 .. round
    BY <2>1 DEF RoundsOf
  <2>3. QED  BY <1>1, <2>2
<1>5. Marks'
  BY <1>4 DEF Marks, MarkOK
<1>6. ASSUME NEW k \in Keys
      PROVE  Remembers(Loaded(file).entries[k], Loaded(file).entries[k], work'.started)
  <2> DEFINE e == Loaded(file).entries[k]
  <2>1. e.samples # <<>> => e.samples[Len(e.samples)].seq \in Nat
    BY LoadedSound, LastSeq
  <2> HIDE DEF e
  <2>2. Remembers(e, e, work'.started)
    BY <2>1 DEF Remembers
  <2>3. QED  BY <2>2 DEF e
<1>7. (\A k \in Keys : Remembers(Loaded(file).entries[k], work.store.entries[k], work.started))'
  <2>1. Loaded(file)' = Loaded(file)
    BY <1>1
  <2>2. QED  BY <1>1, <1>6, <2>1
<1>8. QED  BY <1>1, <1>2, <1>5, <1>7 DEF StoreInv, Unsaved

\* How one entry of the credential that is finished changes.
LEMMA FinishEntry ==
    ASSUME TypeInv, PoolInv, StoreInv, NEW c \in pool.busy, stage = "collecting",
           NEW r, r.at = work.started, r.ready \in BOOLEAN, r.cred = c, r.group \in Groups,
           NEW new, EntrySound(new, config.capacity),
           NotedEntry(work.store.entries[<<c, r.group>>], new, r)
    PROVE  /\ ~reverted => Remembers(Loaded(file).entries[<<c, r.group>>], new, work.started)
           /\ IF r.ready THEN new.at = work.started /\ Shows(new, r) ELSE new.failed
           /\ \A i \in DOMAIN new.samples :
                new.samples[i].round = round =>
                    i = Len(new.samples) /\ new.samples[i].at = work.started /\ r.ready
<1> DEFINE k == <<c, r.group>>
           old == work.store.entries[k]
<1>1. k \in Keys /\ k[1] = c
  BY FinitePool DEF Keys
<1>2. EntrySound(old, config.capacity)
  BY <1>1, EntryOfStore DEF TypeInv, WorkOK
<1>3. ~reverted => Remembers(Loaded(file).entries[k], old, r.at)
  BY <1>1 DEF StoreInv, Unsaved
<1>4. ~reverted => Remembers(Loaded(file).entries[k], new, r.at)
  BY <1>1, <1>2, <1>3, LoadedSound, RemembersMore
<1>5. IF r.ready THEN new.at = work.started /\ Shows(new, r) ELSE new.failed
  BY DEF NotedEntry
<1>6. round \notin RoundsOf(old.samples)
  <2>1. \A i \in DOMAIN old.samples : old.samples[i].round # round
    BY <1>1 DEF StoreInv, Marks, MarkOK
  <2>2. QED  BY <2>1 DEF RoundsOf
<1>7. ASSUME NEW i \in DOMAIN new.samples, new.samples[i].round = round
      PROVE  i = Len(new.samples) /\ new.samples[i].at = work.started /\ r.ready
  <2>1. CASE r.ready
    BY <1>6, <1>7, <2>1 DEF NotedEntry, Left
  <2>2. CASE ~r.ready
    <3>1. new.samples = old.samples
      BY <2>2 DEF NotedEntry, SameKnowledge
    <3>2. QED  BY <1>6, <1>7, <3>1 DEF RoundsOf
  <2>3. QED  BY <2>1, <2>2
<1>8. QED  BY <1>4, <1>5, <1>7

\* A worker that finishes a credential keeps the store invariant.
LEMMA StoreFinishes ==
    ASSUME TypeInv, PoolInv, StoreInv, FinishStep
    PROVE  StoreInv'
<1>1. PICK c \in Creds, answer \in setup.answers, count \in 0 .. 2, sent \in BOOLEAN :
              Finish(c, answer, count, sent)
  BY DEF FinishStep
<1>2. /\ UNCHANGED <<outside, results, round, stage, cancelled>>
      /\ Done(c, sent /\ count = 2)
      /\ count < 2 => cancelled
      /\ sent \/ cancelled
      /\ work' = [work EXCEPT !.store = work'.store]
      /\ StoreOK(work'.store, round, config.capacity)
  BY <1>1, FinishFacts
<1>3. work'.started = work.started
  <2> DEFINE x == work'.store
  <2> HIDE DEF x
  <2>1. work' = [work EXCEPT !.store = x]
    BY <1>2 DEF x
  <2>2. QED  BY <2>1, WorkFields
<1>4. /\ stage = "collecting" /\ c \in pool.busy
      /\ pool'.jobs = pool.jobs /\ pool'.busy = pool.busy \ {c}
  BY <1>2, PoolFields
<1>5. PICK first \in Parsed(c, answer, "gemini"), second \in Parsed(c, answer, "claude_gpt") :
        /\ ResultOf(first, c, "gemini") /\ ResultOf(second, c, "claude_gpt")
        /\ Effect(work.store, work'.store, c, first, second, count)
        /\ delivered' = IF sent /\ count = 2 THEN delivered \cup {first, second} ELSE delivered
  BY <1>1, FinishFacts
<1>6. ASSUME NEW r \in {first, second}
      PROVE  /\ r.cred = c /\ r.group \in Groups /\ r.ready \in BOOLEAN /\ r.at = work.started
  BY <1>1, <1>5, ParsedResult DEF TypeInv, WorldOK, WorkOK, Groups
<1>7. \A k \in Keys : k[1] # c => work'.store.entries[k] = work.store.entries[k]
  BY <1>5 DEF Effect
<1>8. ASSUME NEW r \in {first, second},
             NotedEntry(work.store.entries[<<c, r.group>>], work'.store.entries[<<c, r.group>>], r)
      PROVE  LET new == work'.store.entries[<<c, r.group>>] IN
             /\ ~reverted => Remembers(Loaded(file).entries[<<c, r.group>>], new, work.started)
             /\ IF r.ready THEN new.at = work.started /\ Shows(new, r) ELSE new.failed
             /\ \A i \in DOMAIN new.samples :
                  new.samples[i].round = round =>
                      i = Len(new.samples) /\ new.samples[i].at = work.started /\ r.ready
  <2>1. <<c, r.group>> \in Keys
    BY <1>6 DEF Keys
  <2>2. EntrySound(work'.store.entries[<<c, r.group>>], config.capacity)
    BY <1>2, <2>1, EntryOfStore
  <2>3. QED  BY <1>4, <1>6, <1>8, <2>2, FinishEntry
<1>9. \A k \in Keys : k[1] = c => \E r \in {first, second} : k = <<c, r.group>>
  <2>1. first.group = "gemini" /\ second.group = "claude_gpt"
    BY <1>5 DEF ResultOf
  <2>2. QED  BY <2>1 DEF Keys, Groups
<1>10. \A r \in {first, second} :
          LET k == <<c, r.group>> IN
          \/ NotedEntry(work.store.entries[k], work'.store.entries[k], r)
          \/ count < 2 /\ work'.store.entries[k] = work.store.entries[k]
  BY <1>5 DEF Effect
<1>11. ASSUME NEW r \in delivered' PROVE Noticed(r)'
  <2>1. CASE r \in delivered
    <3>1. Delivered(r) /\ Noticed(r)
      BY <2>1 DEF PoolInv, StoreInv
    <3>2. r.cred # c /\ <<r.cred, r.group>> \in Keys
      BY <1>4, <3>1 DEF Delivered, Keys
    <3>3. work'.store.entries[<<r.cred, r.group>>] = work.store.entries[<<r.cred, r.group>>]
      BY <1>7, <3>2
    <3>4. QED  BY <1>3, <3>1, <3>3 DEF Noticed
  <2>2. CASE r \in {first, second} /\ count = 2
    <3>1. NotedEntry(work.store.entries[<<c, r.group>>], work'.store.entries[<<c, r.group>>], r)
      BY <1>10, <2>2
    <3>2. QED  BY <1>3, <1>6, <1>8, <2>2, <3>1 DEF Noticed
  <2>3. QED  BY <1>5, <2>1, <2>2
<1>12. (Loaded(file))' = Loaded(file) /\ reverted' = reverted
  <2>1. file' = file /\ reverted' = reverted
    BY <1>2 DEF outside, results
  <2>2. QED  BY <2>1
<1>13. ASSUME NEW k \in Keys, ~reverted
       PROVE  Remembers(Loaded(file).entries[k], work'.store.entries[k], work.started)
  <2>1. Remembers(Loaded(file).entries[k], work.store.entries[k], work.started)
    BY <1>4, <1>13 DEF StoreInv, Unsaved
  <2>2. CASE k[1] # c
    BY <1>7, <2>1, <2>2
  <2>3. CASE k[1] = c
    <3>1. PICK r \in {first, second} : k = <<c, r.group>>
      BY <1>9, <2>3
    <3>2. CASE NotedEntry(work.store.entries[k], work'.store.entries[k], r)
      BY <1>8, <1>13, <3>1, <3>2
    <3>3. CASE work'.store.entries[k] = work.store.entries[k]
      BY <2>1, <3>3
    <3>4. QED  BY <1>10, <3>1, <3>2, <3>3
  <2>4. QED  BY <2>2, <2>3
<1>14. ASSUME NEW k \in Keys, NEW i \in DOMAIN work'.store.entries[k].samples
       PROVE  MarkOK(k, i)'
  <2> DEFINE samples == work.store.entries[k].samples
             after == work'.store.entries[k].samples
  <2>1. SUFFICES ASSUME after[i].round = round
        PROVE  /\ i = Len(after) /\ after[i].at = work.started
               /\ k[1] \notin pool'.jobs /\ k[1] \notin pool'.busy
               /\ \/ cancelled /\ stage \in Unsaved
                  \/ \E r \in delivered' : r.cred = k[1] /\ r.group = k[2] /\ r.ready
    BY <1>2, <1>3 DEF MarkOK, results
  <2>2. CASE k[1] # c
    <3>1. after = samples
      BY <1>7, <2>2
    <3>2. /\ i = Len(samples) /\ samples[i].at = work.started
          /\ k[1] \notin pool.jobs /\ k[1] \notin pool.busy
          /\ \/ cancelled /\ stage \in Unsaved
             \/ \E r \in delivered : r.cred = k[1] /\ r.group = k[2] /\ r.ready
      BY <1>4, <2>1, <3>1 DEF StoreInv, Marks, MarkOK
    <3>3. delivered \subseteq delivered'
      BY <1>5
    <3>4. QED  BY <1>4, <3>1, <3>2, <3>3
  <2>3. CASE k[1] = c
    <3>1. PICK r \in {first, second} : k = <<c, r.group>>
      BY <1>9, <2>3
    <3>2. c \notin pool'.jobs /\ c \notin pool'.busy
      BY <1>4 DEF PoolInv
    <3>3. ~(count < 2 /\ work'.store.entries[k] = work.store.entries[k])
      <4> SUFFICES ASSUME work'.store.entries[k] = work.store.entries[k] PROVE FALSE
        OBVIOUS
      <4>1. samples[i].round = round /\ i \in DOMAIN samples
        BY <2>1
      <4>2. k[1] \notin pool.busy
        BY <1>4, <4>1 DEF StoreInv, Marks, MarkOK
      <4>3. QED  BY <1>4, <2>3, <4>2
    <3>4. NotedEntry(work.store.entries[k], work'.store.entries[k], r)
      BY <1>10, <3>1, <3>3
    <3>5. i = Len(after) /\ after[i].at = work.started /\ r.ready
      BY <1>8, <2>1, <3>1, <3>4
    <3>6. CASE sent /\ count = 2
      <4>1. r \in delivered'
        BY <1>5, <3>6
      <4>2. r.cred = k[1] /\ r.group = k[2]
        BY <1>6, <3>1
      <4>3. QED  BY <2>3, <3>2, <3>5, <4>1, <4>2
    <3>7. CASE ~(sent /\ count = 2)
      <4>1. cancelled /\ stage \in Unsaved
        BY <1>2, <1>4, <3>7 DEF Unsaved
      <4>2. QED  BY <2>3, <3>2, <3>5, <4>1
    <3>8. QED  BY <3>6, <3>7
  <2>4. QED  BY <2>2, <2>3
<1>15. Marks'
  BY <1>14 DEF Marks
<1>16. (~reverted =>
         \A k \in Keys : Remembers(Loaded(file).entries[k], work.store.entries[k], work.started))'
  BY <1>3, <1>12, <1>13
<1>17. stage' = "collecting"
  BY <1>2, <1>4
<1>18. QED  BY <1>11, <1>15, <1>16, <1>17 DEF StoreInv

\* Steps that leave the entries of the store alone.
LEMMA MarksKept ==
    ASSUME Marks, UNCHANGED <<round, delivered>>, work'.started = work.started,
           work'.store.entries = work.store.entries,
           pool'.jobs \cup pool'.busy \subseteq pool.jobs \cup pool.busy,
           cancelled /\ stage \in Unsaved => cancelled' /\ stage' \in Unsaved
    PROVE  Marks'
<1> SUFFICES ASSUME NEW k \in Keys, NEW i \in DOMAIN work.store.entries[k].samples
             PROVE  MarkOK(k, i)'
  BY DEF Marks
<1> DEFINE samples == work.store.entries[k].samples
<1>1. SUFFICES ASSUME samples[i].round = round
      PROVE  /\ i = Len(samples) /\ samples[i].at = work.started
             /\ k[1] \notin pool'.jobs /\ k[1] \notin pool'.busy
             /\ \/ cancelled' /\ stage' \in Unsaved
                \/ \E r \in delivered : r.cred = k[1] /\ r.group = k[2] /\ r.ready
  BY DEF MarkOK
<1>2. /\ i = Len(samples) /\ samples[i].at = work.started
      /\ k[1] \notin pool.jobs /\ k[1] \notin pool.busy
      /\ \/ cancelled /\ stage \in Unsaved
         \/ \E r \in delivered : r.cred = k[1] /\ r.group = k[2] /\ r.ready
  BY <1>1 DEF Marks, MarkOK
<1>3. QED  BY <1>2

\* Results already received stay noticed.
LEMMA NoticedKept ==
    ASSUME StoreInv, delivered' = delivered, work'.started = work.started,
           work'.store.entries = work.store.entries
    PROVE  \A r \in delivered' : Noticed(r)'
<1>1. ASSUME NEW r \in delivered PROVE Noticed(r)'
  <2>1. Noticed(r)
    BY DEF StoreInv
  <2>2. work'.store.entries[<<r.cred, r.group>>] = work.store.entries[<<r.cred, r.group>>]
    OBVIOUS
  <2>3. QED  BY <2>1, <2>2 DEF Noticed
<1>2. QED  BY <1>1

\* What the store remembers of the file stays so while the one does not change
\* and the other says the same.
LEMMA RemembersKept ==
    ASSUME StoreInv, stage \in Unsaved, reverted' = reverted, (Loaded(file))' = Loaded(file),
           work'.started = work.started, work'.store.entries = work.store.entries
    PROVE  (~reverted =>
             \A k \in Keys : Remembers(Loaded(file).entries[k], work.store.entries[k], work.started))'
  BY DEF StoreInv

\* Steps that leave the store alone, and the file as it is read.
LEMMA StoreRests ==
    ASSUME StoreInv, UNCHANGED <<round, reverted, delivered, pool, stage, work>>,
           cancelled => cancelled', (Loaded(file))' = Loaded(file)
    PROVE  StoreInv'
<1>1. stage # "idle" => Marks'
  BY MarksKept DEF StoreInv
<1>2. stage \in Unsaved =>
        (~reverted =>
          \A k \in Keys : Remembers(Loaded(file).entries[k], work.store.entries[k], work.started))'
  BY RemembersKept
<1>3. \A r \in delivered' : Noticed(r)'
  BY NoticedKept
<1>4. (Loaded(work.store))' = Loaded(work.store)
  OBVIOUS
<1>5. QED  BY <1>1, <1>2, <1>3, <1>4 DEF StoreInv

\* Files with the same entries are read alike.
LEMMA LoadedAlike ==
    ASSUME NEW one \in FileType, NEW other \in FileType, one.entries = other.entries
    PROVE  Loaded(one).entries = Loaded(other).entries
  BY DEF Loaded, FileType

\* Every step keeps the store invariant.
LEMMA StoreInvStep ==
    ASSUME TypeInv, PoolInv, StoreInv, [Next]_vars
    PROVE  StoreInv'
<1>1. CASE Begin
  BY <1>1, StoreBegins
<1>2. CASE FinishStep
  BY <1>2, StoreFinishes
<1>3. CASE PoolOnly \/ Collects \/ Relists
  <2>1. /\ UNCHANGED <<round, file, reverted, delivered, cancelled>>
        /\ work'.started = work.started /\ work'.store = work.store
        /\ stage \in Unsaved /\ stage' \in Unsaved
    <3>1. CASE PoolOnly
      <4>1. stage = "collecting"
        <5>1. CASE Stop
          BY <5>1 DEF Stop
        <5>2. CASE Leave
          BY <5>2 DEF Leave
        <5>3. CASE \E c \in Creds : Hand(c)
          BY <5>3 DEF Hand
        <5>4. QED  BY <3>1, <5>1, <5>2, <5>3 DEF PoolOnly
      <4>2. UNCHANGED <<round, file, reverted, delivered, cancelled, work, stage>>
        BY <3>1 DEF PoolOnly, outside, results
      <4>3. QED  BY <4>1, <4>2 DEF Unsaved
    <3>2. CASE Collects
      BY <3>2 DEF Collects, AllGone, SameWork, outside, results, collection, Unsaved
    <3>3. CASE Relists
      BY <3>3 DEF Relists, outside, results, collection, Unsaved
    <3>4. QED  BY <1>3, <3>1, <3>2, <3>3
  <2>2. pool'.jobs \cup pool'.busy \subseteq pool.jobs \cup pool.busy
    <3>1. CASE PoolOnly
      BY <3>1, PoolStep DEF PoolOnly
    <3>2. CASE Collects \/ Relists
      BY <3>2 DEF Collects, Relists, collection
    <3>3. QED  BY <1>3, <3>1, <3>2
  <2>3. Marks'
    BY <2>1, <2>2, MarksKept DEF StoreInv, Unsaved
  <2>4. (Loaded(file))' = Loaded(file)
    BY <2>1
  <2>5. QED  BY <2>1, <2>3, <2>4, NoticedKept, RemembersKept DEF StoreInv, Unsaved
<1>4. CASE Saves
  <2>1. /\ UNCHANGED <<round, delivered, cancelled, work, pool>> /\ ~cancelled
        /\ stage = "relisted" /\ stage' = "saved" /\ file' = work.store
    BY <1>4 DEF Saves, collection
  <2>2. Marks'
    BY <2>1, MarksKept DEF StoreInv
  <2>3. (Loaded(file))' = Loaded(work.store) /\ (Loaded(work.store))' = Loaded(work.store)
    BY <2>1
  <2>4. QED  BY <2>1, <2>2, <2>3, NoticedKept DEF StoreInv, Unsaved
<1>5. CASE Publish
  <2>1. /\ UNCHANGED <<round, file, reverted, delivered, cancelled, pool>>
        /\ work'.started = work.started /\ work'.store.entries = work.store.entries
        /\ stage = "saved" /\ stage' = "published"
    BY <1>5, PublishFacts DEF outside, collection
  <2>2. Marks'
    BY <2>1, MarksKept DEF StoreInv, Unsaved
  <2>3. (Loaded(file))' = Loaded(file) /\ (Loaded(work.store).entries)' = Loaded(work.store).entries
    <3>1. work.store \in FileType /\ work'.store \in FileType
      BY <1>5, PublishFacts DEF TypeInv, WorkOK, StoreOK, FileOK
    <3>2. QED  BY <2>1, <3>1, LoadedAlike
  <2>4. QED  BY <2>1, <2>2, <2>3, NoticedKept DEF StoreInv, Unsaved
<1>6. CASE Ends
  <2>1. stage' = "idle" /\ delivered' = {}
    BY <1>6 DEF Ends, RoundOver
  <2>2. QED  BY <2>1 DEF StoreInv, Unsaved
<1>7. CASE Stays
  <2>1. /\ UNCHANGED <<round, file, reverted, delivered, pool, stage, work>>
        /\ (cancelled => cancelled')
    BY <1>7 DEF Stays, collection
  <2>2. (Loaded(file))' = Loaded(file)
    BY <2>1
  <2>3. QED  BY <2>1, <2>2, StoreRests
<1>8. CASE Rewrites
  <2>1. UNCHANGED <<round, delivered, pool, stage, work, cancelled>>
    BY <1>8 DEF Rewrites, collection
  <2>2. CASE reverted'
    BY <2>1, <2>2, MarksKept, NoticedKept DEF StoreInv
  <2>3. CASE file' = Loaded(file) /\ UNCHANGED reverted
    <3>1. (Loaded(file))' = Loaded(file)
      BY <2>3, LoadedTwice DEF TypeInv, FilesOK, FileOK
    <3>2. QED  BY <2>1, <2>3, <3>1, StoreRests
  <2>4. QED  BY <1>8, <2>2, <2>3 DEF Rewrites
<1>9. QED  BY <1>1, <1>2, <1>3, <1>4, <1>5, <1>6, <1>7, <1>8, StepKinds

\* The store invariant holds in every state.
LEMMA StoreHolds == Spec => []StoreInv
<1>1. Init => StoreInv
  BY DEF Init, StoreInv, Unsaved
<1>2. TypeInv /\ PoolInv /\ StoreInv /\ [Next]_vars => StoreInv'
  BY StoreInvStep
<1>3. QED  BY <1>1, <1>2, TypeHolds, PoolHolds, PTL DEF Spec

\* What reading a file shows of the histories that a round has saved.
LEMMA SavedHistory ==
    ASSUME TypeInv, StoreInv, stage \in {"saved", "published"}, ~reverted, NEW k \in Keys
    PROVE  /\ Loaded(file).entries[k].samples = work.store.entries[k].samples
           /\ Measured(Loaded(file).entries[k]) = Measured(work.store.entries[k])
           /\ Loaded(file).entries[k].rate = work.store.entries[k].rate
           /\ Loaded(file).entries[k].failed = work.store.entries[k].failed
           /\ file.entries[k].at = work.store.entries[k].at
           /\ file.entries[k].failed = work.store.entries[k].failed
<1>1. Loaded(file).entries[k] = Loaded(work.store).entries[k]
  BY DEF StoreInv
<1>2. /\ round \in Nat /\ StoreOK(work.store, round, config.capacity)
      /\ work.store \in FileType /\ file \in FileType
  BY SetupTyped DEF TypeInv, WorldOK, FilesOK, WorkOK, StoreOK, FileOK
<1>3. /\ Loaded(work.store).entries[k].samples = work.store.entries[k].samples
      /\ Measured(Loaded(work.store).entries[k]) = Measured(work.store.entries[k])
      /\ Loaded(work.store).entries[k].rate = work.store.entries[k].rate
      /\ Loaded(work.store).entries[k].at = work.store.entries[k].at
  BY <1>2, LoadedSame
<1>4. /\ Loaded(work.store).entries[k].failed = work.store.entries[k].failed
      /\ Loaded(file).entries[k].failed = file.entries[k].failed
      /\ Loaded(file).entries[k].at = file.entries[k].at
  BY <1>2, LoadedEntries
<1>5. QED  BY <1>1, <1>3, <1>4

\* A round that is saved is complete, whatever workers drop and whenever the
\* round is cancelled, and the file shows of it what was received, unless a
\* configuration call has put back a document that a round had overtaken.
THEOREM SavedRoundCompleteHolds == Spec => []SavedRoundComplete
<1>1. TypeInv /\ PoolInv /\ StoreInv => SavedRoundComplete
  <2> SUFFICES ASSUME TypeInv, PoolInv, StoreInv, stage \in {"saved", "published"}
               PROVE  /\ \A c \in work.creds, g \in Groups :
                           /\ \E r \in delivered : r.cred = c /\ r.group = g
                           /\ reverted \/ file.entries[<<c, g>>].at = work.started
                                       \/ file.entries[<<c, g>>].failed
                      /\ reverted \/ \A s \in SamplesOf(Loaded(file), round) :
                           /\ s.at = work.started
                           /\ \E r \in delivered : <<r.cred, r.group>> = s.key /\ r.ready
                           /\ \A t \in SamplesOf(Loaded(file), round) : t.key = s.key => t = s
    BY DEF SavedRoundComplete
  <2>1. ASSUME NEW c \in work.creds, NEW g \in Groups
        PROVE  /\ \E r \in delivered : r.cred = c /\ r.group = g
               /\ reverted \/ file.entries[<<c, g>>].at = work.started
                           \/ file.entries[<<c, g>>].failed
    <3>1. c \in Received
      BY CompleteHolds DEF Complete
    <3>2. PICK s \in delivered : s.cred = c
      BY <3>1 DEF Received
    <3>3. PICK r \in delivered : r.cred = c /\ r.group = g
      BY <3>2 DEF PoolInv, Delivered
    <3>4. Noticed(r) /\ <<c, g>> \in Keys
      BY <3>3 DEF StoreInv, TypeInv, WorkOK, Keys
    <3>5. QED  BY <3>3, <3>4, SavedHistory DEF Noticed
  <2>2. ASSUME ~reverted, NEW s \in SamplesOf(Loaded(file), round)
        PROVE  \E k \in Keys :
                 LET samples == work.store.entries[k].samples IN
                 /\ s = [key |-> k, at |-> samples[Len(samples)].at]
                 /\ samples[Len(samples)].at = work.started
                 /\ \E r \in delivered : r.cred = k[1] /\ r.group = k[2] /\ r.ready
    <3>1. PICK k \in Keys :
            s \in {[key |-> k, at |-> Loaded(file).entries[k].samples[i].at] :
                     i \in {j \in DOMAIN Loaded(file).entries[k].samples :
                              Loaded(file).entries[k].samples[j].round = round}}
      BY DEF SamplesOf
    <3>2. PICK i \in DOMAIN Loaded(file).entries[k].samples :
            /\ Loaded(file).entries[k].samples[i].round = round
            /\ s = [key |-> k, at |-> Loaded(file).entries[k].samples[i].at]
      BY <3>1
    <3> DEFINE samples == work.store.entries[k].samples
    <3>3. /\ i \in DOMAIN samples /\ samples[i].round = round
          /\ s = [key |-> k, at |-> samples[i].at]
      BY <2>2, <3>2, SavedHistory
    <3>4. MarkOK(k, i)
      BY <3>3 DEF StoreInv, Marks
    <3>5. QED  BY <3>3, <3>4 DEF MarkOK, Unsaved
  <2>3. ASSUME ~reverted, NEW s \in SamplesOf(Loaded(file), round)
        PROVE  /\ s.at = work.started
               /\ \E r \in delivered : <<r.cred, r.group>> = s.key /\ r.ready
               /\ \A t \in SamplesOf(Loaded(file), round) : t.key = s.key => t = s
    <3>1. PICK k \in Keys :
            LET samples == work.store.entries[k].samples IN
            /\ s = [key |-> k, at |-> samples[Len(samples)].at]
            /\ samples[Len(samples)].at = work.started
            /\ \E r \in delivered : r.cred = k[1] /\ r.group = k[2] /\ r.ready
      BY <2>2, <2>3
    <3>2. s.key = k /\ s.at = work.started /\ k = <<k[1], k[2]>>
      BY <3>1 DEF Keys
    <3>3. \E r \in delivered : <<r.cred, r.group>> = s.key /\ r.ready
      BY <3>1, <3>2
    <3>4. ASSUME NEW t \in SamplesOf(Loaded(file), round), t.key = s.key
          PROVE  t = s
      <4>1. PICK l \in Keys : t = [key |-> l, at |-> work.store.entries[l].samples[Len(work.store.entries[l].samples)].at]
        BY <2>2, <2>3
      <4>2. t.key = l
        BY <4>1
      <4>3. l = k
        BY <3>2, <3>4, <4>2
      <4>4. QED  BY <3>1, <4>1, <4>3
    <3>5. QED  BY <3>2, <3>3, <3>4
  <2>4. QED  BY <2>1, <2>3
<1>2. QED  BY <1>1, TypeHolds, PoolHolds, StoreHolds, PTL

\* The file forgets nothing, in any step of any round or configuration call
\* but one that puts back a document that a round had overtaken.
THEOREM NothingForgottenHolds == Spec => NothingForgotten
<1> DEFINE Retains(k) ==
      LET old == Loaded(file).entries[k]
          new == file'.entries[k]
      IN /\ \/ new.at = work.started
            \/ Measured(new) = Measured(old) /\ new.samples = old.samples /\ new.rate = old.rate
         /\ old.samples # <<>> =>
              new.samples # <<>> /\ Last(new.samples).seq >= Last(old.samples).seq
<1>1. TypeInv /\ StoreInv /\ [Next]_vars => [reverted' \/ \A k \in Keys : Retains(k)]_file
  <2> SUFFICES ASSUME TypeInv, StoreInv, [Next]_vars, file' # file, ~reverted', NEW k \in Keys
               PROVE  Retains(k)
    OBVIOUS
  <2> DEFINE old == Loaded(file).entries[k]
             store == work.store.entries[k]
  <2>1. EntrySound(old, config.capacity) /\ EntrySound(store, config.capacity)
    BY LoadedSound, EntryOfStore DEF TypeInv, WorkOK
  <2>kept. ~(Rewrites /\ reverted) /\ (~Rewrites => reverted' = reverted)
    <3>1. Rewrites => reverted' = reverted
      BY DEF Rewrites
    <3>2. Begin \/ FinishStep \/ Publish => reverted' = reverted
      BY BeginFacts, FinishFacts, PublishFacts DEF FinishStep, outside
    <3>3. PoolOnly \/ Collects \/ Relists \/ Saves \/ Ends \/ Stays => reverted' = reverted
      BY DEF PoolOnly, Collects, Relists, Saves, Ends, Stays, outside
    <3>4. QED  BY <3>1, <3>2, <3>3, StepKinds DEF TypeInv, WorldOK
  <2>before. ~reverted
    BY <2>kept
  <2>2. ASSUME Remembers(old, store, work.started), file'.entries[k] = store
        PROVE  Retains(k)
    <3>1. old.samples # <<>> => Last(store.samples) = store.samples[Len(store.samples)]
                                  /\ Last(old.samples) = old.samples[Len(old.samples)]
      BY <2>1, <2>2, LastSeq DEF Remembers
    <3>2. QED  BY <2>2, <3>1 DEF Remembers
  <2>3. CASE Saves \/ (stage = "relisted" /\ file' = work.store)
    <3>1. stage \in Unsaved /\ file'.entries[k] = store
      BY <2>3 DEF Saves, Unsaved
    <3>2. Remembers(old, store, work.started)
      BY <2>before, <3>1 DEF StoreInv
    <3> HIDE DEF Retains, old, store
    <3>3. QED  BY <2>2, <3>1, <3>2
  <2>4. ASSUME NEW outcome \in {"saved", "failed", "unconfirmed"}, Record(outcome)
        PROVE  Retains(k)
    <3>1. stage = "published" /\ file'.entries = work.store.entries
      BY <2>4, RecordFacts
    <3>2. /\ old.samples = store.samples /\ Measured(old) = Measured(store)
          /\ old.rate = store.rate
      BY <2>before, <3>1, SavedHistory
    <3>3. old.samples # <<>> => old.samples[Len(old.samples)].seq \in Nat
      BY <2>1, LastSeq
    <3>4. Remembers(old, store, work.started)
      BY <3>2, <3>3 DEF Remembers
    <3> HIDE DEF Retains, old
    <3>5. QED  BY <2>2, <3>1, <3>4
  <2>5. ASSUME Begin \/ PoolOnly \/ FinishStep \/ Collects \/ Relists \/ Publish \/ Stays
        PROVE  FALSE
    <3>1. Begin => file' = file
      BY BeginFacts DEF results
    <3>2. FinishStep => file' = file
      BY FinishFacts DEF FinishStep, results
    <3>3. Publish => file' = file
      BY PublishFacts
    <3>4. PoolOnly \/ Collects \/ Relists \/ Stays => file' = file
      BY DEF PoolOnly, Collects, Relists, Stays, results
    <3>5. QED  BY <2>5, <3>1, <3>2, <3>3, <3>4
  <2>6. ASSUME Ends PROVE Retains(k)
    <3> HIDE DEF Retains
    <3>1. QED  BY <2>3, <2>4, <2>6 DEF Ends
  <2>7. ASSUME Rewrites PROVE Retains(k)
    <3>1. file' = Loaded(file)
      BY <2>7 DEF Rewrites
    <3>2. file'.entries[k] = old
      BY <3>1
    <3>3. old.samples # <<>> => /\ Last(old.samples) = old.samples[Len(old.samples)]
                                /\ old.samples[Len(old.samples)].seq \in Nat
      BY <2>1, LastSeq
    <3> HIDE DEF old
    <3>4. QED  BY <3>2, <3>3 DEF old
  <2> HIDE DEF Retains
  <2>8. QED  BY <2>3, <2>5, <2>6, <2>7, StepKinds
<1>2. QED
  <2>1. Spec => [][reverted' \/ \A k \in Keys : Retains(k)]_file
    BY <1>1, TypeHolds, StoreHolds, PTL DEF Spec
  <2>2. QED  BY <2>1 DEF NothingForgotten

-----------------------------------------------------------------------------
(***************************************************************************)
(* The answers behind the results, and the evidence made of them.          *)
(***************************************************************************)
AnswerInv ==
    /\ \A pair \in answered :
         /\ pair[1] \in Received /\ pair[2] \in setup.answers
         /\ \A other \in answered : other[1] = pair[1] => other[2] = pair[2]
    /\ \A r \in delivered : \E pair \in answered :
         pair[1] = r.cred /\ r \in Parsed(r.cred, pair[2], r.group)

\* Where the quota of a fresh observation comes from.
Fresh(e, g) ==
    \E r \in delivered :
        /\ r.ready /\ r.group = g /\ r.cred = e.cred /\ r.cred \in work.creds
        /\ \A m \in Measures : e[m] = r[m]

Observed(g) ==
    \A e \in QuotaOf(work.observations[g], "fresh") :
        Fresh(e, g) /\ e.cred \notin FailedCreds(work.observations[g])

EvidenceInv ==
    /\ AnswerInv
    /\ stage \in {"collected", "relisted", "saved", "published"} => \A g \in Groups : Observed(g)

\* A worker that delivers its results delivers those of one answer.
LEMMA AnswersFinish ==
    ASSUME TypeInv, PoolInv, AnswerInv, FinishStep
    PROVE  AnswerInv'
<1>1. PICK c \in Creds, answer \in setup.answers, count \in 0 .. 2, sent \in BOOLEAN :
              Finish(c, answer, count, sent)
  BY DEF FinishStep
<1>2. /\ UNCHANGED outside /\ Done(c, sent /\ count = 2)
      /\ work' = [work EXCEPT !.store = work'.store]
      /\ answered' = IF sent /\ count = 2 THEN answered \cup {<<c, answer>>} ELSE answered
  BY <1>1, FinishFacts
<1>3. work'.started = work.started
  <2> DEFINE x == work'.store
  <2> HIDE DEF x
  <2>1. work' = [work EXCEPT !.store = x]
    BY <1>2 DEF x
  <2>2. QED  BY <2>1, WorkFields
<1>4. PICK first \in Parsed(c, answer, "gemini"), second \in Parsed(c, answer, "claude_gpt") :
        delivered' = IF sent /\ count = 2 THEN delivered \cup {first, second} ELSE delivered
  BY <1>1, FinishFacts
<1>5. \A d, x, g : Parsed(d, x, g)' = Parsed(d, x, g)
  BY <1>3 DEF Parsed
<1>6. CASE ~(sent /\ count = 2)
  BY <1>2, <1>3, <1>4, <1>5, <1>6 DEF AnswerInv, Received, outside
<1>7. CASE sent /\ count = 2
  <2>1. /\ first.cred = c /\ first.group = "gemini" /\ second.cred = c /\ second.group = "claude_gpt"
    BY <1>1, ParsedResult DEF TypeInv, WorldOK, WorkOK, Groups
  <2>2. delivered' = delivered \cup {first, second} /\ answered' = answered \cup {<<c, answer>>}
    BY <1>2, <1>4, <1>7
  <2>3. \A r \in delivered : r.cred # c
    BY <1>2, PoolFields DEF PoolInv, Delivered
  <2>4. c \notin Received /\ Received' = Received \cup {c}
    BY <2>1, <2>2, <2>3 DEF Received
  <2>5. \A pair \in answered : pair[1] # c
    BY <2>4 DEF AnswerInv
  <2>6. setup' = setup
    BY <1>2 DEF outside
  <2>7. ASSUME NEW pair \in answered'
        PROVE  /\ pair[1] \in Received' /\ pair[2] \in setup'.answers
               /\ \A other \in answered' : other[1] = pair[1] => other[2] = pair[2]
    <3>1. CASE pair \in answered
      BY <2>2, <2>4, <2>5, <2>6, <3>1 DEF AnswerInv
    <3>2. CASE pair = <<c, answer>>
      BY <2>2, <2>4, <2>5, <2>6, <3>2
    <3>3. QED  BY <2>2, <3>1, <3>2
  <2>8. ASSUME NEW r \in delivered'
        PROVE  \E pair \in answered' :
                 pair[1] = r.cred /\ r \in Parsed(r.cred, pair[2], r.group)
    <3>1. CASE r \in delivered
      BY <2>2, <3>1 DEF AnswerInv
    <3>2. CASE r \in {first, second}
      <4>1. r \in Parsed(c, answer, r.group) /\ r.cred = c
        BY <1>4, <2>1, <3>2
      <4>2. <<c, answer>> \in answered' /\ <<c, answer>>[1] = c /\ <<c, answer>>[2] = answer
        BY <2>2
      <4>3. QED  BY <4>1, <4>2
    <3>3. QED  BY <2>2, <3>1, <3>2
  <2>9. QED  BY <1>5, <2>7, <2>8 DEF AnswerInv
<1>8. QED  BY <1>6, <1>7

\* The fresh observations of a classification.
Rated(cred, kind, x, rate, learned) ==
    [Observation(cred, kind, Quota(cred, x, rate)) EXCEPT !.quota.rate = learned]

\* Enriching an observation changes its rate only.
LEMMA EnrichedQuota ==
    ASSUME NEW cred, NEW kind, NEW x, NEW rate, NEW learned
    PROVE  LET new == Rated(cred, kind, x, rate, learned) IN
           /\ new.kind = kind /\ new.cred = cred /\ new.quota.cred = cred
           /\ \A m \in Measures : new.quota[m] = x[m]
<1> DEFINE quota == Quota(cred, x, rate)
           other == [quota EXCEPT !.rate = learned]
<1>1. other.cred = cred /\ \A m \in Measures : other[m] = x[m]
  BY DEF Quota, Measures
<1>2. Rated(cred, kind, x, rate, learned) = [cred |-> cred, kind |-> kind, quota |-> other]
  BY DEF Rated, Observation
<1> HIDE DEF quota, other
<1>3. QED  BY <1>1, <1>2 DEF quota

\* A fresh observation is a result of the round for a credential listed.
LEMMA FreshOf ==
    ASSUME NEW g, NEW creds, NEW heard, NEW entries,
           NEW o \in EnrichFresh(Classify(g, creds, heard, entries), entries), o.kind = "fresh"
    PROVE  /\ o.quota.cred = o.cred
           /\ \E r \in heard :
                /\ r.ready /\ r.group = g /\ r.cred = o.cred /\ r.cred \in creds
                /\ \A m \in Measures : o.quota[m] = r[m]
<1>1. PICK p \in Classify(g, creds, heard, entries) :
        o = IF p.kind = "fresh" THEN [p EXCEPT !.quota.rate = RateOf(entries[p.cred])] ELSE p
  BY DEF EnrichFresh
<1>2. p.kind = "fresh"
  BY <1>1
<1>3. PICK r \in {s \in heard : s.cred \in creds /\ s.group = g /\ s.ready} :
        p = Observation(r.cred, "fresh", Quota(r.cred, r, 0))
  BY <1>2 DEF Classify, Observation
<1> DEFINE learned == RateOf(entries[p.cred])
<1>4. o = [p EXCEPT !.quota.rate = learned]
  BY <1>1, <1>2
<1> HIDE DEF learned
<1>5. /\ o.kind = "fresh" /\ o.cred = r.cred /\ o.quota.cred = r.cred
      /\ \A m \in Measures : o.quota[m] = r[m]
  <2> DEFINE new == Rated(r.cred, "fresh", r, 0, learned)
  <2>1. /\ new.kind = "fresh" /\ new.cred = r.cred /\ new.quota.cred = r.cred
        /\ \A m \in Measures : new.quota[m] = r[m]
    BY EnrichedQuota
  <2>2. o = new
    BY <1>3, <1>4 DEF Rated
  <2> HIDE DEF new
  <2>3. QED  BY <2>1, <2>2
<1>6. QED  BY <1>3, <1>5

\* A failed observation: a result that is not ready, or no result at all.
LEMMA FailedOf ==
    ASSUME NEW g, NEW creds, NEW heard, NEW entries,
           NEW o \in EnrichFresh(Classify(g, creds, heard, entries), entries), o.kind = "failed"
    PROVE  \/ \E r \in heard : r.cred = o.cred /\ r.group = g /\ ~r.ready
           \/ \A r \in heard : r.cred \in creds => r.cred # o.cred
<1>1. PICK p \in Classify(g, creds, heard, entries) :
        o = IF p.kind = "fresh" THEN [p EXCEPT !.quota.rate = RateOf(entries[p.cred])] ELSE p
  BY DEF EnrichFresh
<1>2. CASE p.kind = "fresh"
  <2>1. PICK r \in {s \in heard : s.cred \in creds /\ s.group = g /\ s.ready} :
          p = Observation(r.cred, "fresh", Quota(r.cred, r, 0))
    BY <1>2 DEF Classify, Observation
  <2> DEFINE learned == RateOf(entries[p.cred])
  <2> HIDE DEF learned
  <2>2. o = Rated(r.cred, "fresh", r, 0, learned)
    BY <1>1, <1>2, <2>1 DEF Rated, learned
  <2>3. o.kind = "fresh"
    BY <2>2, EnrichedQuota
  <2>4. QED  BY <2>3
<1>3. CASE p.kind # "fresh"
  <2>1. o = p
    BY <1>1, <1>3
  <2>2. QED  BY <2>1 DEF Classify, Observation
<1>4. QED  BY <1>2, <1>3

\* The evidence of a round comes from its results, and no credential is both
\* fresh and failed.
LEMMA FreshEvidenceSound ==
    ASSUME PoolInv, NEW g \in Groups, NEW e \in QuotaOf(FreshEvidence[g], "fresh")
    PROVE  Fresh(e, g) /\ e.cred \notin FailedCreds(FreshEvidence[g])
<1> DEFINE entries == EntriesOf(work.store, g)
<1>1. FreshEvidence[g] = EnrichFresh(Classify(g, work.creds, delivered, entries), entries)
  BY DEF FreshEvidence
<1>2. PICK o \in FreshEvidence[g] : o.kind = "fresh" /\ o.quota = e
  BY DEF QuotaOf
<1>3. /\ e.cred = o.cred
      /\ \E r \in delivered :
           /\ r.ready /\ r.group = g /\ r.cred = o.cred /\ r.cred \in work.creds
           /\ \A m \in Measures : e[m] = r[m]
  BY <1>1, <1>2, FreshOf
<1>4. PICK r \in delivered :
        /\ r.ready /\ r.group = g /\ r.cred = e.cred /\ r.cred \in work.creds
        /\ \A m \in Measures : e[m] = r[m]
  BY <1>3
<1>5. Fresh(e, g)
  BY <1>4 DEF Fresh
<1>6. ASSUME NEW p \in FreshEvidence[g], p.kind = "failed", p.cred = e.cred
      PROVE  FALSE
  <2>1. \/ \E s \in delivered : s.cred = p.cred /\ s.group = g /\ ~s.ready
        \/ \A s \in delivered : s.cred \in work.creds => s.cred # p.cred
    BY <1>1, <1>6, FailedOf
  <2>2. \A s \in delivered : s.cred = r.cred /\ s.group = r.group => s = r
    BY <1>4 DEF PoolInv, Delivered
  <2>3. QED  BY <1>4, <1>6, <2>1, <2>2
<1>7. QED  BY <1>5, <1>6 DEF FailedCreds

\* Steps that leave the results alone keep the evidence.
LEMMA EvidenceKept ==
    ASSUME EvidenceInv, UNCHANGED <<setup, delivered, answered>>,
           work'.started = work.started, work'.creds = work.creds,
           \/ stage' = "collecting"
           \/ stage' = "collected" /\ work'.observations = FreshEvidence /\ PoolInv
           \/ /\ work'.observations = work.observations
              /\ stage' = stage \/ stage \in {"collected", "relisted", "saved"}
    PROVE  EvidenceInv'
<1>1. \A d, x, g : Parsed(d, x, g)' = Parsed(d, x, g)
  BY DEF Parsed
<1>2. AnswerInv'
  BY <1>1 DEF EvidenceInv, AnswerInv, Received
<1>3. \A e, g : Fresh(e, g) => Fresh(e, g)'
  BY DEF Fresh
<1>4. CASE stage' = "collecting"
  BY <1>2, <1>4 DEF EvidenceInv
<1>5. CASE stage' = "collected" /\ work'.observations = FreshEvidence /\ PoolInv
  <2>1. \A g \in Groups : \A e \in QuotaOf(FreshEvidence[g], "fresh") :
          Fresh(e, g) /\ e.cred \notin FailedCreds(FreshEvidence[g])
    BY <1>5, FreshEvidenceSound
  <2> DEFINE seen == FreshEvidence
  <2> HIDE DEF seen
  <2>2. work'.observations = seen
    BY <1>5 DEF seen
  <2>3. \A g \in Groups : \A e \in QuotaOf(seen[g], "fresh") :
          Fresh(e, g)' /\ e.cred \notin FailedCreds(seen[g])
    BY <1>3, <2>1 DEF seen
  <2>4. \A g \in Groups : Observed(g)'
    BY <2>2, <2>3 DEF Observed
  <2>5. QED  BY <1>2, <2>4 DEF EvidenceInv
<1>6. CASE /\ work'.observations = work.observations
           /\ stage' = stage \/ stage \in {"collected", "relisted", "saved"}
  <2>1. \A g \in Groups : Observed(g) => Observed(g)'
    BY <1>3, <1>6 DEF Observed
  <2>2. QED  BY <1>2, <1>6, <2>1 DEF EvidenceInv
<1>7. QED  BY <1>4, <1>5, <1>6

\* Every step keeps the evidence invariant.
LEMMA EvidenceStep ==
    ASSUME TypeInv, PoolInv, EvidenceInv, [Next]_vars
    PROVE  EvidenceInv'
<1>1. CASE Begin
  <2>1. Idle /\ UNCHANGED <<delivered, answered>> /\ stage' = "collecting"
    BY <1>1, BeginFacts DEF TypeInv
  <2>2. delivered' = {} /\ answered' = {}
    BY <2>1 DEF Idle
  <2>3. QED  BY <2>1, <2>2 DEF EvidenceInv, AnswerInv
<1>2. CASE FinishStep
  <2>1. AnswerInv'
    BY <1>2, AnswersFinish DEF EvidenceInv
  <2>2. stage' = "collecting"
    BY <1>2, FinishFacts, PoolFields DEF FinishStep
  <2>3. QED  BY <2>1, <2>2 DEF EvidenceInv
<1>3. CASE PoolOnly
  <2>1. UNCHANGED <<setup, delivered, answered, work, stage>>
    BY <1>3 DEF PoolOnly, outside
  <2>2. QED  BY <2>1, EvidenceKept
<1>4. CASE Collects
  <2>1. /\ UNCHANGED <<setup, delivered, answered>> /\ work'.started = work.started
        /\ work'.creds = work.creds /\ stage' = "collected" /\ work'.observations = FreshEvidence
    BY <1>4 DEF Collects, SameWork, outside, collection
  <2>2. QED  BY <2>1, EvidenceKept
<1>5. CASE Relists
  <2>1. /\ UNCHANGED <<setup, delivered, answered>> /\ work'.started = work.started
        /\ work'.creds = work.creds /\ work'.observations = work.observations
        /\ stage \in {"collected", "relisted", "saved"}
    BY <1>5 DEF Relists, outside, collection
  <2>2. QED  BY <2>1, EvidenceKept
<1>6. CASE Saves
  <2>1. /\ UNCHANGED <<setup, delivered, answered, work>>
        /\ stage \in {"collected", "relisted", "saved"}
    BY <1>6 DEF Saves, outside, collection
  <2>2. QED  BY <2>1, EvidenceKept
<1>7. CASE Publish
  <2>1. /\ UNCHANGED <<setup, delivered, answered>> /\ work'.started = work.started
        /\ work'.creds = work.creds /\ work'.observations = work.observations
        /\ stage \in {"collected", "relisted", "saved"}
    BY <1>7, PublishFacts DEF outside, collection
  <2>2. QED  BY <2>1, EvidenceKept
<1>8. CASE Ends
  <2>1. stage' = "idle" /\ delivered' = {} /\ answered' = {}
    BY <1>8 DEF Ends, RoundOver
  <2>2. QED  BY <2>1 DEF EvidenceInv, AnswerInv
<1>9. CASE Stays \/ Rewrites
  <2>1. UNCHANGED <<setup, delivered, answered, work, stage>>
    BY <1>9 DEF Stays, Rewrites, collection
  <2>2. QED  BY <2>1, EvidenceKept
<1>10. QED  BY <1>1, <1>2, <1>3, <1>4, <1>5, <1>6, <1>7, <1>8, <1>9, StepKinds

\* The evidence invariant holds in every state.
LEMMA EvidenceHolds == Spec => []EvidenceInv
<1>1. Init => EvidenceInv
  BY DEF Init, EvidenceInv, AnswerInv
<1>2. TypeInv /\ PoolInv /\ EvidenceInv /\ [Next]_vars => EvidenceInv'
  BY EvidenceStep
<1>3. QED  BY <1>1, <1>2, TypeHolds, PoolHolds, PTL DEF Spec

\* What the guard is told of a credential admits every exhausted window of its
\* answer, whatever the answers list and in whatever order they arrive.
THEOREM ExhaustedSeenHolds == Spec => []ExhaustedSeen
<1>1. TypeInv /\ EvidenceInv => ExhaustedSeen
  <2> SUFFICES ASSUME TypeInv, EvidenceInv, stage = "collected",
                      NEW g \in Groups, NEW pair \in answered, NEW answer \in pair[2],
                      NEW e \in QuotaOf(work.observations[g], "fresh"), e.cred = pair[1],
                      NEW w \in CollectGroupWindows(answer, g), w.kind # "unknown", w.remaining = 0
               PROVE  GuardRemaining(e) = 0 /\ GuardReset(e) >= w.reset
    BY DEF ExhaustedSeen
  <2>1. PICK r \in delivered :
          /\ r.ready /\ r.group = g /\ r.cred = e.cred /\ r.cred \in work.creds
          /\ \A m \in Measures : e[m] = r[m]
    BY DEF EvidenceInv, Observed, Fresh
  <2>2. PICK other \in answered : other[1] = r.cred /\ r \in Parsed(r.cred, other[2], r.group)
    BY <2>1 DEF EvidenceInv, AnswerInv
  <2>3. other[2] = pair[2] /\ pair[2] \in setup.answers
    BY <2>1, <2>2 DEF EvidenceInv, AnswerInv
  <2>4. r \in Parsed(r.cred, pair[2], g) /\ r.cred \in Creds
    BY <2>1, <2>2, <2>3 DEF TypeInv, WorkOK
  <2>5. PICK report \in pair[2] : r \in ParseGroup(r.cred, report, g, work.started)
    BY <2>1, <2>3, <2>4, ParsedResult DEF TypeInv, WorldOK, WorkOK
  <2>6. report = answer /\ AnswerType(answer)
    <3>1. pair[2] = {report} /\ AnswerType(report)
      BY <2>3, AnswersTyped DEF TypeInv, WorldOK
    <3>2. QED  BY <3>1
  <2>7. /\ e.rem = r.rem /\ e.srem = r.srem /\ e.lrem = r.lrem
        /\ e.reset = r.reset /\ e.sreset = r.sreset /\ e.lreset = r.lreset
    <3>1. e["rem"] = r["rem"] /\ e["srem"] = r["srem"] /\ e["lrem"] = r["lrem"]
          /\ e["reset"] = r["reset"] /\ e["sreset"] = r["sreset"] /\ e["lreset"] = r["lreset"]
      BY <2>1 DEF Measures
    <3>2. QED  BY <3>1
  <2>8. work.started \in Nat
    BY DEF TypeInv, WorkOK
  <2>9. QED  BY <2>1, <2>5, <2>6, <2>7, <2>8, ExhaustedPassed
<1>2. QED  BY <1>1, TypeHolds, EvidenceHolds, PTL

-----------------------------------------------------------------------------
(***************************************************************************)
(* Which credentials a plan changes.                                       *)
(***************************************************************************)
\* A plan changes credentials that there is fresh evidence of.
LEMMA PlanChanges ==
    ASSUME NEW hosts, NEW fresh, NEW historical, NEW options,
           NEW i \in Plan(hosts, fresh, historical, options).changes
    PROVE  ItemShape(i) /\ \E e \in fresh : e.cred = i.cred
<1> DEFINE o == NormalizeOptions(options)
<1>1. Plan(hosts, fresh, historical, options) = Planned(hosts, fresh, historical, o)
  BY DEF Plan
<1> HIDE DEF o
<1>2. /\ i \in {Target(d, hosts, fresh, historical, o) : d \in DOMAIN hosts}
      /\ ShouldChange(i, o)
  <2> DEFINE plan == Planned(hosts, fresh, historical, o)
  <2>1. /\ plan.items = {Target(d, hosts, fresh, historical, o) : d \in DOMAIN hosts}
        /\ plan.changes = {x \in plan.items : ShouldChange(x, o)}
    BY PlannedIs
  <2> HIDE DEF plan
  <2>2. QED  BY <1>1, <2>1 DEF plan
<1>3. PICK c \in DOMAIN hosts : i = Target(c, hosts, fresh, historical, o)
  BY <1>2
<1> DEFINE before == PlanItem(c, hosts[c], fresh, historical, o)
           t == Target(c, hosts, fresh, historical, o)
<1>4. before.cred = c /\ SameItem(before, t)
  BY TargetIs
<1>5. before.fresh => \E e \in fresh : e.cred = c
  BY PlanItemFresh
<1> HIDE DEF before, t
<1>6. ItemShape(t) /\ t.cred = c /\ t.fresh = before.fresh
  BY <1>4 DEF SameItem
<1>7. t = i /\ t.fresh
  BY <1>2, <1>3 DEF t, ShouldChange
<1>8. QED  BY <1>5, <1>6, <1>7

\* The same of both plans of a projection.
LEMMA ProjectionChanges ==
    ASSUME NEW hosts, NEW observations, NEW options, NEW creds,
           \A g \in Groups : \A e \in QuotaOf(observations[g], "fresh") :
                e.cred \in creds /\ e.cred \notin FailedCreds(observations[g]),
           NEW g \in Groups, NEW change \in Projection(hosts, observations, options)[g].changes
    PROVE  /\ change.cred \in creds
           /\ change.cred \notin Projection(hosts, observations, options)[g].alerts
           /\ g # config.control => ~change.fresh
<1> DEFINE seen == observations[g]
           plan == Plan(hosts, QuotaOf(seen, "fresh"), QuotaOf(seen, "historical"), options)
           shape == Projection(hosts, observations, options)[g]
<1>1. shape = GroupPlan(hosts, seen, options, g # config.control)
  BY DEF Projection
<1>2. /\ shape.alerts = FailedCreds(seen)
      /\ shape.changes = IF g # config.control THEN AsPredicted(plan.changes) ELSE plan.changes
  BY <1>1 DEF GroupPlan
<1>3. \A i \in plan.changes : ItemShape(i) /\ \E e \in QuotaOf(seen, "fresh") : e.cred = i.cred
  BY PlanChanges
<1> HIDE DEF plan, shape
<1>4. CASE g # config.control
  <2>1. PICK i \in plan.changes : change = [i EXCEPT !.fresh = FALSE]
    BY <1>2, <1>4 DEF AsPredicted, shape
  <2>2. change.cred = i.cred /\ change.fresh = FALSE
    BY <1>3, <2>1 DEF ItemShape
  <2>3. QED  BY <1>2, <1>3, <2>2 DEF shape
<1>5. CASE g = config.control
  <2>1. change \in plan.changes
    BY <1>2, <1>5 DEF shape
  <2>2. QED  BY <1>2, <1>3, <1>5, <2>1 DEF shape
<1>6. QED  BY <1>4, <1>5

\* History alone is not fresh.
LEMMA StoredNotFresh ==
    ASSUME NEW store, NEW creds, NEW g \in Groups
    PROVE  QuotaOf(StoredEvidence(store, creds)[g], "fresh") = {}
<1>1. \A o \in Classify(g, creds, {}, EntriesOf(store, g)) : o.kind # "fresh"
  BY DEF Classify, Observation
<1>2. StoredEvidence(store, creds)[g] = Classify(g, creds, {}, EntriesOf(store, g))
  BY DEF StoredEvidence
<1>3. QED  BY <1>1, <1>2 DEF QuotaOf

\* A round that is published changes credentials that were read.
LEMMA PublishChanges ==
    ASSUME EvidenceInv, Publish
    PROVE  OnlyAnsweredChange'
<1>1. stage = "saved" /\ config' = config
      /\ shown' = Display("probe", CurrentHost, work.creds, work.started, ProjectCurrentHost)
  BY DEF Publish, outside, config
<1>2. /\ shown'.by = "probe" /\ shown'.probed = work.creds
      /\ shown'.plans = ProjectCurrentHost
  BY <1>1 DEF Display
<1> DEFINE plans == Projection(CurrentHost, work.observations, Options(work.started, work.store))
<1>3. shown'.plans = plans /\ DOMAIN plans = Groups
  BY <1>2 DEF ProjectCurrentHost, Projection
<1>4. \A g \in Groups : \A e \in QuotaOf(work.observations[g], "fresh") :
        e.cred \in work.creds /\ e.cred \notin FailedCreds(work.observations[g])
  BY <1>1 DEF EvidenceInv, Observed, Fresh
<1>5. \A g \in Groups : \A change \in plans[g].changes :
        /\ change.cred \in work.creds /\ change.cred \notin plans[g].alerts
        /\ g # config.control => ~change.fresh
  <2> DEFINE hosts == CurrentHost
             seen == work.observations
             options == Options(work.started, work.store)
             creds == work.creds
  <2>1. \A g \in Groups : \A e \in QuotaOf(seen[g], "fresh") :
          e.cred \in creds /\ e.cred \notin FailedCreds(seen[g])
    BY <1>4
  <2>2. plans = Projection(hosts, seen, options)
    OBVIOUS
  <2> HIDE DEF hosts, seen, options, creds, plans
  <2>3. ASSUME NEW g \in Groups, NEW change \in plans[g].changes
        PROVE  /\ change.cred \in creds /\ change.cred \notin plans[g].alerts
               /\ g # config.control => ~change.fresh
    <3>1. change \in Projection(hosts, seen, options)[g].changes
      BY <2>2
    <3>2. /\ change.cred \in creds
          /\ change.cred \notin Projection(hosts, seen, options)[g].alerts
          /\ g # config.control => ~change.fresh
      BY <2>1, <3>1, ProjectionChanges
    <3>3. QED  BY <2>2, <3>2
  <2>4. QED  BY <2>3 DEF creds
<1> HIDE DEF plans
<1>6. QED  BY <1>1, <1>2, <1>3, <1>5 DEF OnlyAnsweredChange

\* A synchronisation changes nothing.
LEMMA SyncChanges ==
    ASSUME SyncHost
    PROVE  OnlyAnsweredChange'
<1> DEFINE hosts == [c \in Listed |-> Enriched(c)]
           evidence == StoredEvidence(Loaded(file), DOMAIN hosts)
           plans == Projection(hosts, evidence, Options(now, Loaded(file)))
<1>1. shown' = Display("sync", hosts, {}, now, Synchronised(file, hosts, now))
  BY DEF SyncHost
<1>2. shown'.plans = plans /\ DOMAIN plans = Groups
  BY <1>1 DEF Display, Synchronised, SyncedWith, Projection
<1>3. \A g \in Groups : QuotaOf(evidence[g], "fresh") = {}
  BY StoredNotFresh
<1> HIDE DEF evidence
<1>4. ASSUME NEW g \in Groups, NEW change \in plans[g].changes PROVE FALSE
  <2>1. \A h \in Groups : \A e \in QuotaOf(evidence[h], "fresh") :
          e.cred \in {} /\ e.cred \notin FailedCreds(evidence[h])
    BY <1>3
  <2>2. change.cred \in {}
    BY <2>1, ProjectionChanges
  <2>3. QED  BY <2>2
<1> HIDE DEF plans
<1>5. QED  BY <1>2, <1>4 DEF OnlyAnsweredChange

\* Only credentials whose quota was read in the round are changed, whatever
\* was listed, answered, cancelled or synchronised meanwhile.
THEOREM OnlyAnsweredChangeHolds == Spec => []OnlyAnsweredChange
<1>1. Init => OnlyAnsweredChange
  BY DEF Init, NothingShown, OnlyAnsweredChange
<1>2. TypeInv /\ EvidenceInv /\ OnlyAnsweredChange /\ [Next]_vars => OnlyAnsweredChange'
  <2> SUFFICES ASSUME TypeInv, EvidenceInv, OnlyAnsweredChange, [Next]_vars
               PROVE  OnlyAnsweredChange'
    OBVIOUS
  <2>1. CASE Publish
    BY <2>1, PublishChanges
  <2>2. CASE SyncHost
    BY <2>2, SyncChanges
  <2>3. CASE setup' = setup /\ shown' = shown
    BY <2>3 DEF OnlyAnsweredChange, config
  <2>4. Begin \/ PoolOnly \/ Collects \/ Relists \/ Saves \/ Ends \/ Rewrites
          => setup' = setup /\ shown' = shown
    BY BeginFacts DEF PoolOnly, Collects, Relists, Saves, Ends, Rewrites, outside, results
  <2>5. FinishStep => setup' = setup /\ shown' = shown
    BY FinishFacts DEF FinishStep, outside, results
  <2>6. Stays => SyncHost \/ (setup' = setup /\ shown' = shown)
    BY DEF Stays
  <2>7. QED  BY <2>1, <2>2, <2>3, <2>4, <2>5, <2>6, StepKinds
<1>3. QED  BY <1>1, <1>2, TypeHolds, EvidenceHolds, PTL DEF Spec

-----------------------------------------------------------------------------
(***************************************************************************)
(* What a classification says of each credential.                          *)
(***************************************************************************)
Heard(g, creds, answers) == {r \in answers : r.cred \in creds /\ r.group = g /\ r.ready}
Unheard(g, creds, answers) == {r \in answers : r.cred \in creds /\ r.group = g /\ ~r.ready}
Remembered(entries, creds) == {c \in creds : entries[c].at # Zero /\ entries[c].reset # Zero}

Rest(g, creds, answers, entries) ==
    {Observation(c, "historical", Quota(c, entries[c], RateOf(entries[c]))) :
            c \in Remembered(entries, creds) \ {r.cred : r \in Heard(g, creds, answers)}}
      \cup {Observation(r.cred, "wrong_group", NoQuota) :
                r \in {s \in answers : s.cred \in creds /\ s.group # g}}
      \cup {Observation(r.cred, "failed", NoQuota) : r \in Unheard(g, creds, answers)}
      \cup {Observation(c, "failed", NoQuota) :
                c \in {d \in creds : entries[d].failed}
                        \ {r.cred : r \in {s \in answers : s.cred \in creds}}}

\* The observations of a classification that are fresh, and the rest.
LEMMA ClassifyIs ==
    ASSUME NEW g, NEW creds, NEW answers, NEW entries
    PROVE  Classify(g, creds, answers, entries)
             = {Observation(r.cred, "fresh", Quota(r.cred, r, 0)) : r \in Heard(g, creds, answers)}
                 \cup Rest(g, creds, answers, entries)
<1> DEFINE known == {r \in answers : r.cred \in creds}
           fresh == {r \in known : r.group = g /\ r.ready}
           history == HistoricalObservations(entries, creds)
           past == {h.cred : h \in {i \in history : i.read}}
           failed == {h.cred : h \in {i \in history : i.failed}}
<1>1. fresh = Heard(g, creds, answers)
  BY DEF Heard
<1>2. past = Remembered(entries, creds) /\ failed = {d \in creds : entries[d].failed}
  <2> DEFINE seen(c) == [cred |-> c, failed |-> entries[c].failed,
                         read |-> entries[c].at # Zero /\ entries[c].reset # Zero]
  <2>1. history = {seen(c) : c \in creds}
    BY DEF HistoricalObservations
  <2>2. \A c : /\ seen(c).cred = c
               /\ seen(c).failed = entries[c].failed
               /\ seen(c).read = (entries[c].at # Zero /\ entries[c].reset # Zero)
    OBVIOUS
  <2> HIDE DEF seen, history
  <2>3. past = Remembered(entries, creds)
    <3>1. \A c \in creds : seen(c).read <=> c \in Remembered(entries, creds)
      BY <2>2 DEF Remembered
    <3>2. Remembered(entries, creds) \subseteq creds
      BY DEF Remembered
    <3>3. QED  BY <2>1, <2>2, <3>1, <3>2
  <2>4. failed = {d \in creds : entries[d].failed}
    BY <2>1, <2>2
  <2>5. QED  BY <2>3, <2>4
<1>4. {s \in known : s.group # g} = {s \in answers : s.cred \in creds /\ s.group # g}
  OBVIOUS
<1>5. {s \in known : s.group = g /\ ~s.ready} = Unheard(g, creds, answers)
  BY DEF Unheard
<1>6. Classify(g, creds, answers, entries)
        = {Observation(r.cred, "fresh", Quota(r.cred, r, 0)) : r \in fresh}
            \cup {Observation(c, "historical", Quota(c, entries[c], RateOf(entries[c]))) :
                     c \in past \ {r.cred : r \in fresh}}
            \cup {Observation(r.cred, "wrong_group", NoQuota) : r \in {s \in known : s.group # g}}
            \cup {Observation(r.cred, "failed", NoQuota) :
                     r \in {s \in known : s.group = g /\ ~s.ready}}
            \cup {Observation(c, "failed", NoQuota) : c \in failed \ {r.cred : r \in known}}
  BY DEF Classify
<1> HIDE DEF fresh, past, failed
<1>7. QED  BY <1>1, <1>2, <1>4, <1>5, <1>6 DEF Rest

\* The kinds of the rest.
LEMMA RestKinds ==
    ASSUME NEW g, NEW creds, NEW answers, NEW entries
    PROVE  /\ \A o \in Rest(g, creds, answers, entries) : o.kind # "fresh"
           /\ QuotaOf(Rest(g, creds, answers, entries), "historical")
                = {Quota(c, entries[c], RateOf(entries[c])) :
                     c \in Remembered(entries, creds) \ {r.cred : r \in Heard(g, creds, answers)}}
           /\ FailedCreds(Rest(g, creds, answers, entries))
                = {r.cred : r \in Unheard(g, creds, answers)}
                    \cup ({d \in creds : entries[d].failed}
                            \ {r.cred : r \in {s \in answers : s.cred \in creds}})
<1> DEFINE past == Remembered(entries, creds) \ {r.cred : r \in Heard(g, creds, answers)}
           others == {s \in answers : s.cred \in creds /\ s.group # g}
           unheard == Unheard(g, creds, answers)
           silent == {d \in creds : entries[d].failed}
                        \ {r.cred : r \in {s \in answers : s.cred \in creds}}
           old(c) == Quota(c, entries[c], RateOf(entries[c]))
           rest == Rest(g, creds, answers, entries)
<1>1. rest = {Observation(c, "historical", old(c)) : c \in past}
               \cup {Observation(r.cred, "wrong_group", NoQuota) : r \in others}
               \cup {Observation(r.cred, "failed", NoQuota) : r \in unheard}
               \cup {Observation(c, "failed", NoQuota) : c \in silent}
  BY DEF Rest
<1>2. \A c, kind, quota : /\ Observation(c, kind, quota).kind = kind
                          /\ Observation(c, kind, quota).cred = c
                          /\ Observation(c, kind, quota).quota = quota
  BY DEF Observation
<1> HIDE DEF past, others, unheard, silent, old, rest
<1>3. \A o \in rest : o.kind # "fresh"
  BY <1>1, <1>2
<1>4. QuotaOf(rest, "historical") = {old(c) : c \in past}
  <2>1. ASSUME NEW o \in rest, o.kind = "historical"
        PROVE  \E c \in past : o.quota = old(c)
    BY <1>1, <1>2, <2>1
  <2>2. ASSUME NEW c \in past
        PROVE  \E o \in rest : o.kind = "historical" /\ o.quota = old(c)
    BY <1>1, <1>2
  <2>3. QED  BY <2>1, <2>2 DEF QuotaOf
<1>5. FailedCreds(rest) = {r.cred : r \in unheard} \cup silent
  <2>1. ASSUME NEW o \in rest, o.kind = "failed"
        PROVE  o.cred \in {r.cred : r \in unheard} \cup silent
    BY <1>1, <1>2, <2>1
  <2>2. ASSUME NEW c \in {r.cred : r \in unheard} \cup silent
        PROVE  \E o \in rest : o.kind = "failed" /\ o.cred = c
    BY <1>1, <1>2
  <2>3. QED  BY <2>1, <2>2 DEF FailedCreds
<1>6. QED  BY <1>3, <1>4, <1>5 DEF rest, old, past, unheard, silent

\* Enriching a fresh observation gives it another rate.
LEMMA RatedIs ==
    ASSUME NEW cred, NEW x, NEW learned
    PROVE  Rated(cred, "fresh", x, 0, learned) = Observation(cred, "fresh", Quota(cred, x, learned))
<1>1. [Quota(cred, x, 0) EXCEPT !.rate = learned] = Quota(cred, x, learned)
  BY DEF Quota
<1> DEFINE new == Quota(cred, x, learned)
           old == Quota(cred, x, 0)
<1>2. [old EXCEPT !.rate = learned] = new
  BY <1>1
<1> HIDE DEF new, old
<1>3. [[cred |-> cred, kind |-> "fresh", quota |-> old] EXCEPT !.quota.rate = learned]
        = [cred |-> cred, kind |-> "fresh", quota |-> new]
  BY <1>2
<1>4. QED  BY <1>3 DEF Rated, Observation, old, new

\* A round's evidence of a group: what was heard, at the rate just learned, and
\* the rest.
LEMMA EnrichedIs ==
    ASSUME NEW g, NEW creds, NEW answers, NEW entries
    PROVE  EnrichFresh(Classify(g, creds, answers, entries), entries)
             = {Observation(r.cred, "fresh", Quota(r.cred, r, RateOf(entries[r.cred]))) :
                    r \in Heard(g, creds, answers)}
                 \cup Rest(g, creds, answers, entries)
<1> DEFINE seen == Classify(g, creds, answers, entries)
           heard == Heard(g, creds, answers)
           rest == Rest(g, creds, answers, entries)
           first(r) == Observation(r.cred, "fresh", Quota(r.cred, r, 0))
           last(r) == Observation(r.cred, "fresh", Quota(r.cred, r, RateOf(entries[r.cred])))
           enriched(o) == IF o.kind = "fresh" THEN [o EXCEPT !.quota.rate = RateOf(entries[o.cred])]
                          ELSE o
<1>1. seen = {first(r) : r \in heard} \cup rest
  BY ClassifyIs
<1>2. \A o \in rest : o.kind # "fresh"
  BY RestKinds
<1>3. ASSUME NEW r PROVE enriched(first(r)) = last(r)
  <2> DEFINE learned == RateOf(entries[r.cred])
  <2>1. first(r).kind = "fresh" /\ first(r).cred = r.cred
    BY DEF Observation
  <2> HIDE DEF learned
  <2>2. enriched(first(r)) = Rated(r.cred, "fresh", r, 0, learned)
    BY <2>1 DEF Rated, learned
  <2>3. QED  BY <2>2, RatedIs DEF learned
<1>4. EnrichFresh(seen, entries) = {enriched(o) : o \in seen}
  BY DEF EnrichFresh
<1>5. \A o \in rest : enriched(o) = o
  BY <1>2
<1> HIDE DEF seen, heard, rest, first, last, enriched
<1>6. {enriched(o) : o \in seen} = {last(r) : r \in heard} \cup rest
  BY <1>1, <1>3, <1>5
<1>7. QED  BY <1>4, <1>6 DEF seen, heard, rest, last

\* The quotas of the evidence and the credentials that failed.
LEMMA RoundQuotas ==
    ASSUME NEW g, NEW creds, NEW answers, NEW entries
    PROVE  LET seen == EnrichFresh(Classify(g, creds, answers, entries), entries)
               rest == Rest(g, creds, answers, entries)
           IN /\ QuotaOf(seen, "fresh") = {Quota(r.cred, r, RateOf(entries[r.cred])) :
                                              r \in Heard(g, creds, answers)}
              /\ QuotaOf(seen, "historical") = QuotaOf(rest, "historical")
              /\ FailedCreds(seen) = FailedCreds(rest)
<1> DEFINE seen == EnrichFresh(Classify(g, creds, answers, entries), entries)
           heard == Heard(g, creds, answers)
           rest == Rest(g, creds, answers, entries)
           quota(r) == Quota(r.cred, r, RateOf(entries[r.cred]))
           last(r) == Observation(r.cred, "fresh", quota(r))
<1>1. seen = {last(r) : r \in heard} \cup rest
  BY EnrichedIs
<1>2. \A o \in rest : o.kind # "fresh"
  BY RestKinds
<1>3. \A r : last(r).kind = "fresh" /\ last(r).quota = quota(r)
  BY DEF Observation
<1> HIDE DEF seen, heard, rest, quota, last
<1>4. QuotaOf(seen, "fresh") = {quota(r) : r \in heard}
  <2>1. {o \in seen : o.kind = "fresh"} = {last(r) : r \in heard}
    BY <1>1, <1>2, <1>3
  <2>2. QED  BY <1>3, <2>1 DEF QuotaOf
<1>5. \A kind : kind # "fresh" => {o \in seen : o.kind = kind} = {o \in rest : o.kind = kind}
  BY <1>1, <1>3
<1>6. QuotaOf(seen, "historical") = QuotaOf(rest, "historical")
  BY <1>5 DEF QuotaOf
<1>7. FailedCreds(seen) = FailedCreds(rest)
  BY <1>5 DEF FailedCreds
<1>8. QED  BY <1>4, <1>6, <1>7 DEF seen, heard, rest, quota

\* Without results there is history alone.
LEMMA StoredQuotas ==
    ASSUME NEW g, NEW creds, NEW entries
    PROVE  LET seen == Classify(g, creds, {}, entries) IN
           /\ QuotaOf(seen, "fresh") = {}
           /\ QuotaOf(seen, "historical")
                = {Quota(c, entries[c], RateOf(entries[c])) : c \in Remembered(entries, creds)}
           /\ FailedCreds(seen) = {d \in creds : entries[d].failed}
<1> DEFINE none == {}
           rest == Rest(g, creds, none, entries)
           seen == Classify(g, creds, none, entries)
<1>1. seen = {Observation(r.cred, "fresh", Quota(r.cred, r, 0)) : r \in Heard(g, creds, none)} \cup rest
  BY ClassifyIs
<1>2. Heard(g, creds, none) = {} /\ Unheard(g, creds, none) = {}
  BY DEF Heard, Unheard
<1>3. seen = rest
  BY <1>1, <1>2
<1>4. /\ \A o \in rest : o.kind # "fresh"
      /\ QuotaOf(rest, "historical")
           = {Quota(c, entries[c], RateOf(entries[c])) :
                c \in Remembered(entries, creds) \ {r.cred : r \in Heard(g, creds, none)}}
      /\ FailedCreds(rest)
           = {r.cred : r \in Unheard(g, creds, none)}
               \cup ({d \in creds : entries[d].failed}
                       \ {r.cred : r \in {s \in none : s.cred \in creds}})
  BY RestKinds
<1> HIDE DEF rest, seen
<1>5. QuotaOf(seen, "fresh") = {}
  BY <1>3, <1>4 DEF QuotaOf
<1>6. Remembered(entries, creds) \ {r.cred : r \in Heard(g, creds, none)} = Remembered(entries, creds)
  BY <1>2
<1>7. FailedCreds(rest) = {d \in creds : entries[d].failed}
  <2> DEFINE failing == {d \in creds : entries[d].failed}
  <2> HIDE DEF failing
  <2>1. FailedCreds(rest) = {r.cred : r \in Unheard(g, creds, none)}
                              \cup (failing \ {r.cred : r \in {s \in none : s.cred \in creds}})
    BY <1>4 DEF failing
  <2>2. FailedCreds(rest) = failing
    BY <1>2, <2>1
  <2>3. QED  BY <2>2 DEF failing
<1>8. QED  BY <1>3, <1>4, <1>5, <1>6, <1>7 DEF seen, none

-----------------------------------------------------------------------------
(***************************************************************************)
(* The plans that are shown are in order.                                  *)
(***************************************************************************)

\* The options of a plan: the start priorities stay as they are configured.
LEMMA OptionsAre ==
    ASSUME setup \in Scenarios, NEW at, NEW store
    PROVE  /\ NormalizeOptions(Options(at, store))
                = [now |-> at, boost |-> config.boost, normal |-> config.normal,
                   minChange |-> Most(config.minChange, 0), tolerance |-> config.tolerance,
                   ignoreDisabled |-> config.ignoreDisabled,
                   cooldowns |-> Pruned(store, at).cooldowns]
           /\ config.boost \in Nat \ {0} /\ config.normal \in Nat \ {0} /\ config.tolerance \in Nat
<1>1. /\ config.boost \in 1 .. MaxPriority /\ config.normal \in 1 .. config.boost
      /\ config.tolerance \in Nat
  BY ScenarioAssumption DEF config
<1>2. /\ NormalizeStart(config.boost, 999) = config.boost
      /\ NormalizeStart(config.normal, 100) = config.normal
  <2>1. ASSUME NEW x \in 1 .. MaxPriority, NEW d PROVE NormalizeStart(x, d) = x
    BY DEF NormalizeStart, Least, MaxPriority
  <2> DEFINE b == config.boost
             n == config.normal
  <2>2. b \in 1 .. MaxPriority /\ n \in 1 .. b
    BY <1>1
  <2> HIDE DEF b, n
  <2>3. n \in 1 .. MaxPriority
    BY <2>2 DEF MaxPriority
  <2>4. NormalizeStart(b, 999) = b /\ NormalizeStart(n, 100) = n
    BY <2>1, <2>2, <2>3
  <2>5. QED  BY <2>4 DEF b, n
<1> DEFINE options == Options(at, store)
           boost == NormalizeStart(options.boost, 999)
           normal == NormalizeStart(options.normal, 100)
           change == Most(options.minChange, 0)
           cooldowns == Pruned(store, at).cooldowns
<1>3. options = [now |-> at, boost |-> config.boost, normal |-> config.normal,
                 minChange |-> config.minChange, tolerance |-> config.tolerance,
                 ignoreDisabled |-> config.ignoreDisabled, cooldowns |-> cooldowns]
  BY DEF Options
<1>4. NormalizeOptions(options)
        = [options EXCEPT !.boost = boost, !.normal = normal, !.minChange = change]
  BY DEF NormalizeOptions
<1> HIDE DEF options, cooldowns
<1>5. boost = config.boost /\ normal = config.normal /\ change = Most(config.minChange, 0)
  BY <1>2, <1>3
<1> HIDE DEF boost, normal, change
<1>6. NormalizeOptions(options)
        = [now |-> at, boost |-> boost, normal |-> normal, minChange |-> change,
           tolerance |-> config.tolerance, ignoreDisabled |-> config.ignoreDisabled,
           cooldowns |-> cooldowns]
  BY <1>3, <1>4
<1>7. QED  BY <1>1, <1>5, <1>6 DEF options, cooldowns

\* The plan of a group.
LEMMA GroupPlanIs ==
    ASSUME NEW hosts, NEW seen, NEW options, NEW predicted
    PROVE  LET plan == Planned(hosts, QuotaOf(seen, "fresh"), QuotaOf(seen, "historical"),
                               NormalizeOptions(options))
               view == GroupPlan(hosts, seen, options, predicted)
           IN /\ view.items = plan.items /\ view.alerts = FailedCreds(seen)
              /\ view.changes = IF predicted THEN AsPredicted(plan.changes) ELSE plan.changes
  BY DEF GroupPlan, Plan

UrgentIn(plan, tolerance) ==
    \A reason \in Healthy : \A a, b \in Ranked(plan, reason) :
        MoreUrgent(a.urgency, b.urgency) =>
            /\ a.priority >= b.priority
            /\ (Apart(a.urgency, b.urgency, tolerance) /\ b.priority > MinPriority)
                    => a.priority > b.priority

BoostedIn(plan, boost, normal) ==
    boost - normal >= Cardinality(Ranked(plan, BoostedReason)) =>
        \A i \in Ranked(plan, BoostedReason), j \in Ranked(plan, RegularReason) :
            i.priority > j.priority

\* A plan on typed evidence is in order.
LEMMA PlanInOrder ==
    ASSUME NEW hosts, NEW fresh, NEW historical, NEW o, InputsOK(hosts, fresh, historical, o),
           NEW plan, plan.items = Planned(hosts, fresh, historical, o).items
    PROVE  UrgentIn(plan, o.tolerance) /\ BoostedIn(plan, o.boost, o.normal)
<1>1. \A reason : Ranked(plan, reason)
                    = {i \in Planned(hosts, fresh, historical, o).items : i.reason = reason}
  BY DEF Ranked
<1>2. UrgentIn(plan, o.tolerance)
  <2> SUFFICES ASSUME NEW reason \in Healthy,
                      NEW a \in Ranked(plan, reason), NEW b \in Ranked(plan, reason),
                      MoreUrgent(a.urgency, b.urgency)
               PROVE  /\ a.priority >= b.priority
                      /\ (Apart(a.urgency, b.urgency, o.tolerance) /\ b.priority > MinPriority)
                              => a.priority > b.priority
    BY DEF UrgentIn
  <2>1. /\ a \in Planned(hosts, fresh, historical, o).items /\ a.reason = reason
        /\ b \in Planned(hosts, fresh, historical, o).items /\ b.reason = reason
    BY <1>1
  <2>2. QED  BY <2>1, PlanUrgentFirst
<1>3. BoostedIn(plan, o.boost, o.normal)
  <2> SUFFICES ASSUME o.boost - o.normal >= Cardinality(Ranked(plan, BoostedReason)),
                      NEW i \in Ranked(plan, BoostedReason), NEW j \in Ranked(plan, RegularReason)
               PROVE  i.priority > j.priority
    BY DEF BoostedIn
  <2>1. /\ i \in Planned(hosts, fresh, historical, o).items /\ i.reason = BoostedReason
        /\ j \in Planned(hosts, fresh, historical, o).items /\ j.reason = RegularReason
    BY <1>1
  <2> DEFINE boosted == {x \in Planned(hosts, fresh, historical, o).items : x.reason = BoostedReason}
  <2>2. boosted = Ranked(plan, BoostedReason)
    BY <1>1
  <2>3. o.boost - o.normal >= Cardinality(boosted)
    <3> HIDE DEF boosted
    <3>1. QED  BY <2>2
  <2>4. QED  BY <2>1, <2>3, PlanBoostedFirst
<1>4. QED  BY <1>2, <1>3

\* Quotas of a group's observations that are numbers.
QuotasTyped(seen) ==
    \A e \in QuotaOf(seen, "fresh") \cup QuotaOf(seen, "historical") : QuotaTyped(e)

\* Both plans of a projection on typed evidence are in order.
LEMMA ProjectionInOrder ==
    ASSUME setup \in Scenarios, NEW hosts, DOMAIN hosts \subseteq Creds, NEW observations,
           \A g \in Groups : QuotasTyped(observations[g]),
           NEW at \in Nat, NEW store, NEW g \in Groups
    PROVE  LET plan == Projection(hosts, observations, Options(at, store))[g] IN
           UrgentIn(plan, config.tolerance) /\ BoostedIn(plan, config.boost, config.normal)
<1> DEFINE seen == observations[g]
           options == Options(at, store)
           o == NormalizeOptions(options)
           fresh == QuotaOf(seen, "fresh")
           historical == QuotaOf(seen, "historical")
           plan == Projection(hosts, observations, options)[g]
<1>1. plan = GroupPlan(hosts, seen, options, g # config.control)
  BY DEF Projection
<1>2. plan.items = Planned(hosts, fresh, historical, o).items
  BY <1>1, GroupPlanIs
<1>3. /\ o.now = at /\ o.boost = config.boost /\ o.normal = config.normal
      /\ o.tolerance = config.tolerance
      /\ config.boost \in Nat \ {0} /\ config.normal \in Nat \ {0} /\ config.tolerance \in Nat
  <2> DEFINE change == Most(config.minChange, 0)
             cooldowns == Pruned(store, at).cooldowns
  <2>1. /\ o = [now |-> at, boost |-> config.boost, normal |-> config.normal,
                minChange |-> change, tolerance |-> config.tolerance,
                ignoreDisabled |-> config.ignoreDisabled, cooldowns |-> cooldowns]
        /\ config.boost \in Nat \ {0} /\ config.normal \in Nat \ {0} /\ config.tolerance \in Nat
    BY OptionsAre
  <2> HIDE DEF o, change, cooldowns
  <2>2. QED  BY <2>1
<1>4. DOMAIN hosts \subseteq Int /\ IsFiniteSet(DOMAIN hosts)
  <2> DEFINE creds == DOMAIN hosts
  <2>1. creds \subseteq Creds
    OBVIOUS
  <2> HIDE DEF creds
  <2>2. creds \subseteq Int
    BY <2>1, CredsAssumption
  <2>3. IsFiniteSet(creds)
    BY <2>1, CredsAssumption, FS_Subset
  <2>4. QED  BY <2>2, <2>3 DEF creds
<1>5. \A e \in fresh \cup historical : QuotaTyped(e)
  BY DEF QuotasTyped
<1> HIDE DEF seen, options, o, fresh, historical, plan
<1>6. InputsOK(hosts, fresh, historical, o)
  BY <1>3, <1>4, <1>5 DEF InputsOK
<1>7. UrgentIn(plan, o.tolerance) /\ BoostedIn(plan, o.boost, o.normal)
  BY <1>2, <1>6, PlanInOrder
<1>8. QED  BY <1>3, <1>7 DEF plan, options

\* The observations are those of the results and of the store, until the round
\* is over.
Observing == {"collected", "relisted", "saved", "published"}
ObservedNow == stage \in Observing => work.observations = FreshEvidence

LEMMA FreshEvidenceKept ==
    ASSUME delivered' = delivered, work'.creds = work.creds,
           work'.store.entries = work.store.entries
    PROVE  FreshEvidence' = FreshEvidence
  BY DEF FreshEvidence, EntriesOf

LEMMA ObservedStep ==
    ASSUME TypeInv, ObservedNow, [Next]_vars
    PROVE  ObservedNow'
<1>1. CASE Begin \/ FinishStep \/ PoolOnly
  <2>1. stage' = "collecting"
    <3>1. CASE Begin
      BY <3>1, BeginFacts
    <3>2. CASE FinishStep
      BY <3>2, FinishFacts, PoolFields DEF FinishStep
    <3>3. CASE PoolOnly
      BY <3>3, PoolFields DEF PoolOnly
    <3>4. QED  BY <1>1, <3>1, <3>2, <3>3
  <2>2. QED  BY <2>1 DEF ObservedNow, Observing
<1>2. CASE Collects
  <2>1. /\ work'.observations = FreshEvidence
        /\ delivered' = delivered /\ work'.creds = work.creds /\ work'.store = work.store
    BY <1>2 DEF Collects, SameWork, collection
  <2>2. QED  BY <2>1, FreshEvidenceKept DEF ObservedNow
<1>3. CASE Relists \/ Saves \/ Publish \/ Stays \/ Rewrites
  <2>1. /\ delivered' = delivered /\ work'.creds = work.creds
        /\ work'.store.entries = work.store.entries /\ work'.observations = work.observations
    <3>1. CASE Relists
      BY <3>1 DEF Relists, collection
    <3>2. CASE Saves
      BY <3>2 DEF Saves, collection
    <3>3. CASE Publish
      BY <3>3, PublishFacts DEF collection
    <3>4. CASE Stays \/ Rewrites
      BY <3>4 DEF Stays, Rewrites, collection
    <3>5. QED  BY <1>3, <3>1, <3>2, <3>3, <3>4
  <2>2. stage' \in Observing => stage \in Observing
    BY <1>3 DEF Relists, Saves, Publish, Stays, Rewrites, Observing
  <2>3. QED  BY <2>1, <2>2, FreshEvidenceKept DEF ObservedNow
<1>4. CASE Ends
  BY <1>4 DEF Ends, RoundOver, ObservedNow, Observing
<1>5. QED  BY <1>1, <1>2, <1>3, <1>4, StepKinds

LEMMA ObservedHolds == Spec => []ObservedNow
<1>1. Init => ObservedNow
  BY DEF Init, ObservedNow, Observing
<1>2. TypeInv /\ ObservedNow /\ [Next]_vars => ObservedNow'
  BY ObservedStep
<1>3. QED  BY <1>1, <1>2, TypeHolds, PTL DEF Spec

\* The quota of something measured.
LEMMA QuotaFields ==
    ASSUME NEW cred, NEW x, NEW rate
    PROVE  LET e == Quota(cred, x, rate) IN
           /\ e.cred = cred /\ e.rate = rate /\ e.rem = x.rem /\ e.srem = x.srem /\ e.lrem = x.lrem
           /\ e.reset = x.reset /\ e.sreset = x.sreset /\ e.lreset = x.lreset
  BY DEF Quota

\* What the store says of credentials is typed.
LEMMA HistoryTyped ==
    ASSUME NEW store \in FileType, NEW creds, creds \subseteq Creds, NEW g \in Groups, NEW c \in creds
    PROVE  LET entries == EntriesOf(store, g) IN
           QuotaTyped(Quota(c, entries[c], RateOf(entries[c])))
<1> DEFINE entry == EntriesOf(store, g)[c]
           rate == RateOf(entry)
<1>1. entry \in EntryType
  BY DEF EntriesOf, FileType, Keys
<1> HIDE DEF entry, rate
<1>2. /\ entry.rem \in Int /\ entry.srem \in Int /\ entry.lrem \in Int
      /\ entry.reset \in Nat /\ entry.sreset \in Nat /\ entry.lreset \in Nat
  BY <1>1 DEF EntryType
<1>3. QuotaTyped(Quota(c, entry, rate))
  BY <1>2, QuotaFields DEF QuotaTyped
<1>4. QED  BY <1>3 DEF entry, rate

\* The evidence of a round is typed.
LEMMA FreshEvidenceTyped ==
    ASSUME TypeInv, PoolInv, AnswerInv, NEW g \in Groups
    PROVE  QuotasTyped(FreshEvidence[g])
<1> DEFINE entries == EntriesOf(work.store, g)
           seen == EnrichFresh(Classify(g, work.creds, delivered, entries), entries)
           rest == Rest(g, work.creds, delivered, entries)
           heard == Heard(g, work.creds, delivered)
           old(c) == Quota(c, entries[c], RateOf(entries[c]))
           new(r) == Quota(r.cred, r, RateOf(entries[r.cred]))
<1>1. FreshEvidence[g] = seen
  BY DEF FreshEvidence
<1>2. work.store \in FileType /\ work.creds \subseteq Creds
  BY DEF TypeInv, WorkOK, StoreOK, FileOK
<1>3. /\ QuotaOf(seen, "fresh") = {new(r) : r \in heard}
      /\ QuotaOf(seen, "historical") = QuotaOf(rest, "historical")
  BY RoundQuotas
<1>4. QuotaOf(rest, "historical")
        = {old(c) : c \in Remembered(entries, work.creds) \ {r.cred : r \in heard}}
  BY RestKinds
<1>5. ASSUME NEW c \in work.creds PROVE QuotaTyped(old(c))
  BY <1>2, HistoryTyped
<1>6. ASSUME NEW r \in heard PROVE QuotaTyped(new(r))
  <2>1. r \in delivered /\ r.group = g
    BY DEF Heard
  <2>2. r.cred \in Creds
    BY <2>1 DEF PoolInv, Delivered
  <2>3. PICK pair \in answered : pair[1] = r.cred /\ r \in Parsed(r.cred, pair[2], r.group)
    BY <2>1 DEF AnswerInv
  <2>4. pair[2] \in setup.answers
    BY DEF AnswerInv
  <2>5. Measurable(r)
    BY <2>1, <2>2, <2>3, <2>4, ParsedResult DEF TypeInv, WorldOK, WorkOK
  <2> DEFINE rate == RateOf(entries[r.cred])
             cred == r.cred
  <2> HIDE DEF rate, cred
  <2>6. QuotaTyped(Quota(cred, r, rate))
    BY <2>5, QuotaFields DEF QuotaTyped, Measurable
  <2>7. QED  BY <2>6 DEF rate, cred
<1>7. Remembered(entries, work.creds) \subseteq work.creds
  BY DEF Remembered
<1> HIDE DEF old, new, heard, rest, seen, entries
<1>8. QED  BY <1>1, <1>3, <1>4, <1>5, <1>6, <1>7 DEF QuotasTyped

\* The evidence of a synchronisation is typed.
LEMMA StoredTyped ==
    ASSUME NEW store \in FileType, NEW creds, creds \subseteq Creds, NEW g \in Groups
    PROVE  QuotasTyped(StoredEvidence(store, creds)[g])
<1> DEFINE entries == EntriesOf(store, g)
           seen == Classify(g, creds, {}, entries)
           old(c) == Quota(c, entries[c], RateOf(entries[c]))
<1>1. StoredEvidence(store, creds)[g] = seen
  BY DEF StoredEvidence
<1>2. /\ QuotaOf(seen, "fresh") = {}
      /\ QuotaOf(seen, "historical") = {old(c) : c \in Remembered(entries, creds)}
  BY StoredQuotas
<1>3. ASSUME NEW c \in creds PROVE QuotaTyped(old(c))
  BY HistoryTyped
<1>4. Remembered(entries, creds) \subseteq creds
  BY DEF Remembered
<1> HIDE DEF old, seen, entries
<1>5. QED  BY <1>1, <1>2, <1>3, <1>4 DEF QuotasTyped

InOrderShown ==
    \A g \in DOMAIN shown.plans :
        /\ UrgentIn(shown.plans[g], config.tolerance)
        /\ BoostedIn(shown.plans[g], config.boost, config.normal)

\* A round that is published shows plans in order.
LEMMA PublishInOrder ==
    ASSUME TypeInv, PoolInv, AnswerInv, ObservedNow, Publish
    PROVE  InOrderShown'
<1> DEFINE hosts == CurrentHost
           seen == work.observations
           plans == Projection(hosts, seen, Options(work.started, work.store))
<1>1. shown' = Display("probe", hosts, work.creds, work.started, plans) /\ config' = config
  BY DEF Publish, ProjectCurrentHost, outside, config
<1>2. shown'.plans = plans /\ DOMAIN plans = Groups
  BY <1>1 DEF Display, Projection
<1>3. \A g \in Groups : QuotasTyped(seen[g])
  BY FreshEvidenceTyped DEF ObservedNow, Observing, Publish
<1>4. DOMAIN hosts \subseteq Creds
  BY DEF CurrentHost, TypeInv, WorkOK
<1>5. setup \in Scenarios /\ work.started \in Nat
  BY DEF TypeInv, WorldOK, WorkOK
<1> HIDE DEF hosts, seen
<1>6. \A g \in Groups : /\ UrgentIn(plans[g], config.tolerance)
                        /\ BoostedIn(plans[g], config.boost, config.normal)
  BY <1>3, <1>4, <1>5, ProjectionInOrder
<1> HIDE DEF plans
<1>7. QED  BY <1>1, <1>2, <1>6 DEF InOrderShown

\* So does a synchronisation.
LEMMA SyncInOrder ==
    ASSUME TypeInv, SyncHost
    PROVE  InOrderShown'
<1> DEFINE hosts == [c \in Listed |-> Enriched(c)]
           store == Loaded(file)
           seen == StoredEvidence(store, DOMAIN hosts)
           plans == Projection(hosts, seen, Options(now, store))
<1>1. shown' = Display("sync", hosts, {}, now, plans) /\ config' = config
  BY DEF SyncHost, Synchronised, SyncedWith, outside, config
<1>2. shown'.plans = plans /\ DOMAIN plans = Groups
  BY <1>1 DEF Display, Projection
<1>3. store \in FileType
  BY LoadedTyped DEF TypeInv, FilesOK, FileOK
<1>4. DOMAIN hosts \subseteq Creds
  BY DEF Listed
<1>5. setup \in Scenarios /\ now \in Nat
  BY DEF TypeInv, WorldOK
<1> HIDE DEF hosts, store
<1>6. \A g \in Groups : QuotasTyped(seen[g])
  BY <1>3, <1>4, StoredTyped
<1> HIDE DEF seen
<1>7. \A g \in Groups : /\ UrgentIn(plans[g], config.tolerance)
                        /\ BoostedIn(plans[g], config.boost, config.normal)
  BY <1>4, <1>5, <1>6, ProjectionInOrder
<1> HIDE DEF plans
<1>8. QED  BY <1>1, <1>2, <1>7 DEF InOrderShown

\* Only a round that is published and a synchronisation change what is shown.
LEMMA ShownKinds ==
    ASSUME TypeInv, [Next]_vars
    PROVE  setup' = setup /\ (Publish \/ SyncHost \/ shown' = shown)
<1>1. Begin \/ PoolOnly \/ Collects \/ Relists \/ Saves \/ Ends \/ Rewrites
        => setup' = setup /\ shown' = shown
  BY BeginFacts DEF PoolOnly, Collects, Relists, Saves, Ends, Rewrites, outside, results
<1>2. FinishStep => setup' = setup /\ shown' = shown
  BY FinishFacts DEF FinishStep, outside, results
<1>3. Publish => setup' = setup
  BY DEF Publish, outside
<1>4. Stays => setup' = setup /\ (SyncHost \/ shown' = shown)
  BY DEF Stays
<1>5. QED  BY <1>1, <1>2, <1>3, <1>4, StepKinds

LEMMA InOrderHolds == Spec => []InOrderShown
<1>1. Init => InOrderShown
  BY DEF Init, NothingShown, InOrderShown
<1>2. TypeInv /\ PoolInv /\ EvidenceInv /\ ObservedNow /\ InOrderShown /\ [Next]_vars => InOrderShown'
  <2> SUFFICES ASSUME TypeInv, PoolInv, EvidenceInv, ObservedNow, InOrderShown, [Next]_vars
               PROVE  InOrderShown'
    OBVIOUS
  <2>1. CASE Publish
    BY <2>1, PublishInOrder DEF EvidenceInv
  <2>2. CASE SyncHost
    BY <2>2, SyncInOrder
  <2>3. CASE setup' = setup /\ shown' = shown
    BY <2>3 DEF InOrderShown, config
  <2>4. QED  BY <2>1, <2>2, <2>3, ShownKinds
<1>3. QED  BY <1>1, <1>2, TypeHolds, PoolHolds, EvidenceHolds, ObservedHolds, PTL DEF Spec

\* In a tier that is shown the more urgent credential never has the lower
\* priority, and the higher one if the two are further apart than the
\* tolerance: for any number of credentials, however the clusters fall.
THEOREM UrgentFirstHolds == Spec => []UrgentFirst
<1>1. InOrderShown => UrgentFirst
  <2>1. InOrderShown => \A plan \in Shown : UrgentIn(plan, config.tolerance)
    BY DEF InOrderShown, Shown
  <2>2. UrgentFirst <=> \A plan \in Shown : UrgentIn(plan, config.tolerance)
    BY DEF UrgentFirst, UrgentIn, Healthy
  <2>3. QED  BY <2>1, <2>2
<1>2. QED  BY <1>1, InOrderHolds, PTL

\* Boosted credentials come before regular ones, for any number of them, when
\* the start priorities leave room for the boosted clusters.
THEOREM BoostedFirstHolds == Spec => []BoostedFirst
<1>1. InOrderShown => BoostedFirst
  <2>1. InOrderShown => \A plan \in Shown : BoostedIn(plan, config.boost, config.normal)
    BY DEF InOrderShown, Shown
  <2>2. BoostedFirst <=> \A plan \in Shown : BoostedIn(plan, config.boost, config.normal)
    BY DEF BoostedFirst, BoostedIn, BoostedReason, RegularReason
  <2>3. QED  BY <2>1, <2>2
<1>2. QED  BY <1>1, InOrderHolds, PTL

-----------------------------------------------------------------------------
(***************************************************************************)
(* A plan that is carried out is not changed by the next one.              *)
(***************************************************************************)
LEMMA GroupPlanSettles ==
    ASSUME NEW hosts, NEW seen, NEW options
    PROVE  LET plan == GroupPlan(hosts, seen, options, FALSE) IN
           GroupPlan(CarriedOut(plan, hosts), seen, options, FALSE).changes = {}
<1> DEFINE fresh == QuotaOf(seen, "fresh")
           historical == QuotaOf(seen, "historical")
           o == NormalizeOptions(options)
           plan == Planned(hosts, fresh, historical, o)
           view == GroupPlan(hosts, seen, options, FALSE)
           after == CarriedOut(plan, hosts)
<1>1. view.items = plan.items /\ view.changes = plan.changes
  BY DEF GroupPlan, Plan
<1>2. Planned(after, fresh, historical, o).changes = {}
  BY PlanIsSettled
<1>3. CarriedOut(view, hosts) = after
  <2> HIDE DEF view, plan
  <2>1. \A c : ItemOf(view, c) = ItemOf(plan, c)
    BY <1>1 DEF ItemOf
  <2>2. QED  BY <1>1, <2>1 DEF CarriedOut
<1>4. GroupPlan(after, seen, options, FALSE).changes = Planned(after, fresh, historical, o).changes
  <2> HIDE DEF after
  <2>1. QED  BY DEF GroupPlan, Plan
<1> HIDE DEF view, after
<1>5. QED  BY <1>2, <1>3, <1>4 DEF view

\* Forgetting the cooldowns that are over twice is forgetting them once.
LEMMA PrunedTwice ==
    ASSUME NEW store \in FileType, NEW at \in Nat
    PROVE  /\ Pruned(Pruned(store, at), at).cooldowns = Pruned(store, at).cooldowns
           /\ Options(at, Pruned(store, at)) = Options(at, store)
<1> DEFINE once == [c \in Creds |-> IF at < store.cooldowns[c] THEN store.cooldowns[c] ELSE Zero]
           twice == [c \in Creds |-> IF at < once[c] THEN once[c] ELSE Zero]
           kept == Pruned(store, at)
<1>1. kept = [store EXCEPT !.cooldowns = once]
  BY DEF Pruned, FileType
<1>2. once = twice
  BY DEF Zero
<1> HIDE DEF once
<1>3. kept.cooldowns = once
  BY <1>1 DEF FileType
<1>4. kept = [entries |-> kept.entries, cooldowns |-> kept.cooldowns, runs |-> kept.runs]
  BY <1>1 DEF FileType
<1> HIDE DEF kept
<1>5. Pruned(kept, at).cooldowns = twice
  <2>1. Pruned(kept, at) = [kept EXCEPT !.cooldowns = twice]
    BY <1>3 DEF Pruned
  <2> HIDE DEF twice
  <2>2. QED  BY <1>4, <2>1
<1>6. Pruned(kept, at).cooldowns = kept.cooldowns
  BY <1>2, <1>3, <1>5
<1>7. Options(at, kept) = Options(at, store)
  BY <1>6 DEF Options, kept
<1>8. QED  BY <1>6, <1>7 DEF kept

\* A round shows a plan that settles.
LEMMA PublishSettles ==
    ASSUME TypeInv, Publish
    PROVE  PlanSettles'
<1> DEFINE hosts == CurrentHost
           seen == work.observations
           options == Options(work.started, work.store)
           control == config.control
           plan == GroupPlan(hosts, seen[control], options, FALSE)
<1>1. /\ shown' = Display("probe", hosts, work.creds, work.started, Projection(hosts, seen, options))
      /\ config' = config
  BY DEF Publish, ProjectCurrentHost, outside, config
<1>2. control \in Groups
  BY ScenarioAssumption DEF TypeInv, WorldOK, config
<1>3. Projection(hosts, seen, options)[control] = plan
  BY <1>2 DEF Projection
<1>4. /\ shown'.hosts = hosts /\ shown'.at = work.started /\ shown'.plans[control] = plan
  BY <1>1, <1>3 DEF Display
<1>5. work.store \in FileType /\ work.started \in Nat
  BY DEF TypeInv, WorkOK, StoreOK, FileOK
<1>6. /\ work'.observations = seen
      /\ work'.store = Pruned(work.store, work.started)
  BY PublishFacts
<1>7. Options(shown.at, work.store)' = options
  <2>1. Options(work.started, Pruned(work.store, work.started)) = options
    BY <1>5, PrunedTwice
  <2>2. Options(shown.at, work.store)' = Options(work.started, Pruned(work.store, work.started))
    BY <1>1, <1>4, <1>6 DEF Options
  <2>3. QED  BY <2>1, <2>2
<1>8. GroupPlan(CarriedOut(plan, hosts), seen[control], options, FALSE).changes = {}
  BY GroupPlanSettles
<1> HIDE DEF hosts, seen, options, plan
<1> DEFINE changed == {i.cred : i \in plan.changes}
           after == [c \in DOMAIN hosts |->
                        IF c \notin changed THEN hosts[c]
                        ELSE [priority |-> ItemOf(plan, c).priority, missing |-> FALSE,
                              disabled |-> ItemOf(plan, c).disabled]]
<1>9. GroupPlan(after, seen[control], options, FALSE).changes = {}
  BY <1>8 DEF CarriedOut
<1>10. config'.control = control
  BY <1>1
<1> HIDE DEF control
<1>11. QED  BY <1>4, <1>6, <1>7, <1>9, <1>10 DEF PlanSettles

\* A host that has made the changes of a plan is left alone by the next plan
\* on the same evidence, whatever the evidence: plans do not alternate.
THEOREM PlanSettlesHolds == Spec => []PlanSettles
<1>1. Init => PlanSettles
  BY DEF Init, PlanSettles
<1>2. TypeInv /\ PlanSettles /\ [Next]_vars => PlanSettles'
  <2> SUFFICES ASSUME TypeInv, PlanSettles, [Next]_vars PROVE PlanSettles'
    OBVIOUS
  <2>1. CASE Publish
    BY <2>1, PublishSettles
  <2>2. CASE (Stays \/ Rewrites) /\ stage = "published"
    <3>1. ~SyncHost
      BY <2>2 DEF SyncHost
    <3>2. UNCHANGED <<setup, stage, work, shown>>
      BY <2>2, <3>1 DEF Stays, Rewrites
    <3>3. QED  BY <3>2 DEF PlanSettles, config, Options
  <2>3. ~Publish /\ ~((Stays \/ Rewrites) /\ stage = "published") => stage' # "published"
    <3>1. Begin \/ Collects \/ Relists \/ Saves \/ Ends => stage' # "published"
      BY BeginFacts DEF Collects, Relists, Saves, Ends, RoundOver
    <3>2. FinishStep \/ PoolOnly => stage' # "published"
      BY FinishFacts, PoolFields DEF FinishStep, PoolOnly
    <3>3. Stays \/ Rewrites => stage' = stage
      BY DEF Stays, Rewrites
    <3>4. QED  BY <3>1, <3>2, <3>3, StepKinds
  <2>4. QED  BY <2>1, <2>2, <2>3 DEF PlanSettles
<1>3. QED  BY <1>1, <1>2, TypeHolds, PTL DEF Spec

-----------------------------------------------------------------------------
(***************************************************************************)
(* A synchronisation after a round agrees with the round.                  *)
(***************************************************************************)

\* What there is of a credential decides what it is judged by.
Of(c, quotas) == {e \in quotas : e.cred = c}

LEMMA SameOn ==
    ASSUME NEW c, NEW fresh, NEW historical, NEW fresher, NEW older,
           Of(c, Judging(c, fresh, historical)) = Of(c, Judging(c, fresher, older))
    PROVE  /\ Known(c, fresh, historical) <=> Known(c, fresher, older)
           /\ EvidenceOn(c, fresh, historical) = EvidenceOn(c, fresher, older)
<1>1. \A S : (\E e \in S : e.cred = c) <=> Of(c, S) # {}
  BY DEF Of
<1>2. Known(c, fresh, historical) <=> Known(c, fresher, older)
  BY <1>1 DEF Known
<1>3. EvidenceOn(c, fresh, historical) = EvidenceOn(c, fresher, older)
  BY DEF EvidenceOn, Of
<1>4. QED  BY <1>2, <1>3

\* Entries that measured the same at the same rate give the same quota.
LEMMA SameQuotas ==
    ASSUME NEW c, NEW x, NEW y, Measured(x) = Measured(y), NEW rate
    PROVE  Quota(c, x, rate) = Quota(c, y, rate)
<1>1. \A m \in Measures : x[m] = y[m]
  <2>1. \A m \in Measures : Measured(x)[m] = x[m] /\ Measured(y)[m] = y[m]
    BY DEF Measured
  <2>2. QED  BY <2>1
<1>2. /\ x.at = y.at /\ x.reset = y.reset /\ x.rem = y.rem
      /\ x.sreset = y.sreset /\ x.srem = y.srem /\ x.lreset = y.lreset /\ x.lrem = y.lrem
  <2>1. /\ x["at"] = y["at"] /\ x["reset"] = y["reset"] /\ x["rem"] = y["rem"]
        /\ x["sreset"] = y["sreset"] /\ x["srem"] = y["srem"]
        /\ x["lreset"] = y["lreset"] /\ x["lrem"] = y["lrem"]
    BY <1>1 DEF Measures
  <2>2. QED  BY <2>1
<1>3. QED  BY <1>2 DEF Quota

\* The round's evidence of a credential whose result was heard, and what the
\* store makes of it.  entry is its entry in both.
LEMMA HeardAgrees ==
    ASSUME NEW g, NEW creds, NEW others, NEW answers, NEW entries, NEW loaded,
           NEW c \in creds, c \in others,
           NEW r \in answers, r.cred = c, r.group = g, r.ready,
           \A s \in answers : s.cred = c /\ s.group = g => s = r,
           Measured(loaded[c]) = Measured(entries[c]), RateOf(loaded[c]) = RateOf(entries[c]),
           Measured(entries[c]) = Measured(r), ~loaded[c].failed,
           r.at # Zero, r.reset # Zero
    PROVE  LET seen == EnrichFresh(Classify(g, creds, answers, entries), entries)
               later == Classify(g, others, {}, loaded)
           IN /\ Of(c, Judging(c, QuotaOf(seen, "fresh"), QuotaOf(seen, "historical")))
                   = Of(c, Judging(c, QuotaOf(later, "fresh"), QuotaOf(later, "historical")))
              /\ c \in FailedCreds(seen) <=> c \in FailedCreds(later)
<1> DEFINE seen == EnrichFresh(Classify(g, creds, answers, entries), entries)
           later == Classify(g, others, {}, loaded)
           heard == Heard(g, creds, answers)
           rest == Rest(g, creds, answers, entries)
           new(s) == Quota(s.cred, s, RateOf(entries[s.cred]))
           old(d) == Quota(d, loaded[d], RateOf(loaded[d]))
           fresh == QuotaOf(seen, "fresh")
           past == QuotaOf(seen, "historical")
           older == QuotaOf(later, "historical")
<1>1. fresh = {new(s) : s \in heard} /\ FailedCreds(seen) = FailedCreds(rest)
  BY RoundQuotas
<1>2. FailedCreds(rest) = {s.cred : s \in Unheard(g, creds, answers)}
                    \cup ({d \in creds : entries[d].failed}
                            \ {s.cred : s \in {t \in answers : t.cred \in creds}})
  BY RestKinds
<1>3. /\ QuotaOf(later, "fresh") = {}
      /\ older = {old(d) : d \in Remembered(loaded, others)}
      /\ FailedCreds(later) = {d \in others : loaded[d].failed}
  BY StoredQuotas
<1>4. \A s : new(s).cred = s.cred
  BY DEF Quota
<1>5. \A d : old(d).cred = d
  BY DEF Quota
<1>6. new(r) = old(c)
  <2> DEFINE rate == RateOf(entries[c])
             entry == loaded[c]
  <2>1. Measured(r) = Measured(entry)
    OBVIOUS
  <2>2. new(r) = Quota(c, r, rate) /\ old(c) = Quota(c, entry, rate)
    OBVIOUS
  <2> HIDE DEF new, old, rate, entry
  <2>3. Quota(c, r, rate) = Quota(c, entry, rate)
    BY <2>1, SameQuotas
  <2>4. QED  BY <2>2, <2>3
<1>7. r \in heard /\ \A s \in heard : s.cred = c => s = r
  BY DEF Heard
<1>8. c \in Remembered(loaded, others)
  <2>1. Measured(loaded[c]) = Measured(r)
    OBVIOUS
  <2>2. loaded[c].at = r.at /\ loaded[c].reset = r.reset
    <3>1. /\ Measured(loaded[c])["at"] = loaded[c].at /\ Measured(r)["at"] = r.at
          /\ Measured(loaded[c])["reset"] = loaded[c].reset /\ Measured(r)["reset"] = r.reset
      BY DEF Measured, Measures
    <3>2. QED  BY <2>1, <3>1
  <2>3. QED  BY <2>2 DEF Remembered
<1>9. c \notin FailedCreds(seen)
  <2>1. c \notin {s.cred : s \in Unheard(g, creds, answers)}
    BY DEF Unheard
  <2>2. c \in {s.cred : s \in {t \in answers : t.cred \in creds}}
    OBVIOUS
  <2>3. QED  BY <1>1, <1>2, <2>1, <2>2
<1>10. c \notin FailedCreds(later)
  BY <1>3
<1> HIDE DEF seen, later, heard, new, old, fresh, past, older
<1>11. Of(c, Judging(c, fresh, past)) = {new(r)}
  <2>1. Judging(c, fresh, past) = fresh
    BY <1>1, <1>4, <1>7 DEF Judging
  <2>2. QED  BY <1>1, <1>4, <1>7, <2>1 DEF Of
<1>12. Of(c, Judging(c, {}, older)) = {old(c)}
  <2>1. Judging(c, {}, older) = older
    BY DEF Judging
  <2>2. QED  BY <1>3, <1>5, <1>8, <2>1 DEF Of
<1>13. QED  BY <1>3, <1>6, <1>9, <1>10, <1>11, <1>12 DEF seen, later, fresh, past, older

\* The same of a credential whose probe failed.
LEMMA UnheardAgrees ==
    ASSUME NEW g, NEW creds, NEW others, NEW answers, NEW entries, NEW loaded,
           NEW c \in creds, c \in others,
           NEW r \in answers, r.cred = c, r.group = g, ~r.ready,
           \A s \in answers : s.cred = c /\ s.group = g => s = r,
           Measured(loaded[c]) = Measured(entries[c]), RateOf(loaded[c]) = RateOf(entries[c]),
           loaded[c].failed
    PROVE  LET seen == EnrichFresh(Classify(g, creds, answers, entries), entries)
               later == Classify(g, others, {}, loaded)
           IN /\ Of(c, Judging(c, QuotaOf(seen, "fresh"), QuotaOf(seen, "historical")))
                   = Of(c, Judging(c, QuotaOf(later, "fresh"), QuotaOf(later, "historical")))
              /\ c \in FailedCreds(seen) <=> c \in FailedCreds(later)
<1> DEFINE seen == EnrichFresh(Classify(g, creds, answers, entries), entries)
           later == Classify(g, others, {}, loaded)
           heard == Heard(g, creds, answers)
           rest == Rest(g, creds, answers, entries)
           new(s) == Quota(s.cred, s, RateOf(entries[s.cred]))
           kept(d) == Quota(d, entries[d], RateOf(entries[d]))
           old(d) == Quota(d, loaded[d], RateOf(loaded[d]))
           fresh == QuotaOf(seen, "fresh")
           past == QuotaOf(seen, "historical")
           older == QuotaOf(later, "historical")
<1>1. /\ fresh = {new(s) : s \in heard}
      /\ past = QuotaOf(rest, "historical")
      /\ FailedCreds(seen) = FailedCreds(rest)
  BY RoundQuotas
<1>2. /\ QuotaOf(rest, "historical")
           = {kept(d) : d \in Remembered(entries, creds) \ {s.cred : s \in heard}}
      /\ FailedCreds(rest) = {s.cred : s \in Unheard(g, creds, answers)}
                    \cup ({d \in creds : entries[d].failed}
                            \ {s.cred : s \in {t \in answers : t.cred \in creds}})
  BY RestKinds
<1>3. /\ QuotaOf(later, "fresh") = {}
      /\ older = {old(d) : d \in Remembered(loaded, others)}
      /\ FailedCreds(later) = {d \in others : loaded[d].failed}
  BY StoredQuotas
<1>4. \A s : new(s).cred = s.cred
  BY DEF Quota
<1>5. \A d : kept(d).cred = d /\ old(d).cred = d
  BY DEF Quota
<1>6. kept(c) = old(c)
  <2> DEFINE rate == RateOf(entries[c])
  <2>1. kept(c) = Quota(c, entries[c], rate) /\ old(c) = Quota(c, loaded[c], rate)
    OBVIOUS
  <2> HIDE DEF kept, old, rate
  <2>2. QED  BY <2>1, SameQuotas
<1>7. \A s \in heard : s.cred # c
  BY DEF Heard
<1>8. c \in Remembered(loaded, others) <=> c \in Remembered(entries, creds)
  <2>1. loaded[c].at = entries[c].at /\ loaded[c].reset = entries[c].reset
    <3>1. /\ Measured(loaded[c])["at"] = loaded[c].at
          /\ Measured(entries[c])["at"] = entries[c].at
          /\ Measured(loaded[c])["reset"] = loaded[c].reset
          /\ Measured(entries[c])["reset"] = entries[c].reset
      BY DEF Measured, Measures
    <3>2. QED  BY <3>1
  <2>2. QED  BY <2>1 DEF Remembered
<1>9. c \in FailedCreds(seen)
  <2>1. r \in Unheard(g, creds, answers)
    BY DEF Unheard
  <2>2. QED  BY <1>1, <1>2, <2>1
<1>10. c \in FailedCreds(later)
  BY <1>3
<1> HIDE DEF seen, later, heard, rest, new, kept, old, fresh, past, older
<1>11. Of(c, Judging(c, fresh, past)) = IF c \in Remembered(entries, creds) THEN {kept(c)} ELSE {}
  <2>1. Judging(c, fresh, past) = past
    BY <1>1, <1>4, <1>7 DEF Judging
  <2>2. past = {kept(d) : d \in Remembered(entries, creds) \ {s.cred : s \in heard}}
    BY <1>1, <1>2
  <2>3. c \notin {s.cred : s \in heard}
    BY <1>7
  <2>4. QED  BY <1>5, <2>1, <2>2, <2>3 DEF Of
<1>12. Of(c, Judging(c, {}, older)) = IF c \in Remembered(loaded, others) THEN {old(c)} ELSE {}
  <2>1. Judging(c, {}, older) = older
    BY DEF Judging
  <2>2. QED  BY <1>3, <1>5, <2>1 DEF Of
<1>13. QED  BY <1>3, <1>6, <1>8, <1>9, <1>10, <1>11, <1>12 DEF seen, later, fresh, past, older

\* The clock has started.
Clock == now # Zero /\ (stage # "idle" => work.started # Zero)

LEMMA ClockStep ==
    ASSUME TypeInv, Clock, [Next]_vars
    PROVE  Clock'
<1>1. now' = now \/ now' > now
  <2>1. CASE Tick
    BY <2>1 DEF Tick
  <2>2. CASE Stays /\ ~Tick
    <3>1. CASE Next
      BY <2>2, <3>1, FinishFacts, BeginFacts
         DEF Next, Take, FeederStops, WorkerReturns, Collect, Relist, Save, Abort, Publish, Record,
             SyncHost, ConfigLoads, ConfigSaves, Cancel, HostMoves, outside
    <3>2. CASE UNCHANGED vars
      BY <3>2 DEF vars
    <3>3. QED  BY <3>1, <3>2
  <2>3. Begin \/ PoolOnly \/ Collects \/ Relists \/ Saves \/ Publish \/ Ends \/ Rewrites => now' = now
    BY BeginFacts DEF PoolOnly, Collects, Relists, Saves, Publish, Ends, Rewrites, outside
  <2>4. FinishStep => now' = now
    BY FinishFacts DEF FinishStep, outside
  <2>5. QED  BY <2>1, <2>2, <2>3, <2>4, StepKinds
<1>2. now' # Zero
  BY <1>1, TypeStep DEF Clock, TypeInv, WorldOK, Zero
<1>3. stage' # "idle" => work'.started # Zero
  <2>1. CASE Begin
    BY <2>1, BeginFacts DEF Clock
  <2>2. CASE FinishStep
    <3>1. work'.started = work.started /\ stage # "idle"
      <4> DEFINE x == work'.store
      <4>1. work' = [work EXCEPT !.store = x] /\ stage = "collecting"
        BY <2>2, FinishFacts, PoolFields DEF FinishStep
      <4> HIDE DEF x
      <4>2. QED  BY <4>1, WorkFields
    <3>2. QED  BY <3>1 DEF Clock
  <2>3. CASE PoolOnly
    BY <2>3, PoolFields DEF PoolOnly, Clock
  <2>4. CASE Collects \/ Relists \/ Saves
    BY <2>4 DEF Collects, AllGone, SameWork, Relists, Saves, Clock
  <2>5. CASE Publish
    BY <2>5, PublishFacts DEF Clock
  <2>6. CASE Ends
    BY <2>6 DEF Ends, RoundOver
  <2>7. CASE Stays \/ Rewrites
    BY <2>7 DEF Stays, Rewrites, Clock
  <2>8. QED  BY <2>1, <2>2, <2>3, <2>4, <2>5, <2>6, <2>7, StepKinds
<1>4. QED  BY <1>2, <1>3 DEF Clock

LEMMA ClockHolds == Spec => []Clock
<1>1. Init => Clock
  BY DEF Init, Clock, Zero
<1>2. TypeInv /\ Clock /\ [Next]_vars => Clock'
  BY ClockStep
<1>3. QED  BY <1>1, <1>2, TypeHolds, PTL DEF Spec

\* Observations that say the same of a credential.
Concur(c, seen, later) ==
    /\ Of(c, Judging(c, QuotaOf(seen, "fresh"), QuotaOf(seen, "historical")))
         = Of(c, Judging(c, QuotaOf(later, "fresh"), QuotaOf(later, "historical")))
    /\ c \in FailedCreds(seen) <=> c \in FailedCreds(later)

\* The evidence that the round has of a credential is what the saved file tells
\* of it.
LEMMA EvidenceAgrees ==
    ASSUME TypeInv, PoolInv, AnswerInv, StoreInv, ObservedNow, Clock, stage = "saved", ~reverted,
           NEW g \in Groups, NEW c \in work.relisted, c \in work.creds
    PROVE  Concur(c, work.observations[g], StoredEvidence(Loaded(file), work.relisted)[g])
<1> DEFINE entries == EntriesOf(work.store, g)
           loaded == EntriesOf(Loaded(file), g)
           k == <<c, g>>
<1>1. c \in Creds /\ k \in Keys
  BY DEF TypeInv, WorkOK, Keys
<1>2. entries[c] = work.store.entries[k] /\ loaded[c] = Loaded(file).entries[k]
  BY <1>1 DEF EntriesOf
<1>3. PICK r \in delivered : r.cred = c /\ r.group = g
  <2>1. c \in Received
    BY CompleteHolds DEF Complete
  <2>2. PICK s \in delivered : s.cred = c
    BY <2>1 DEF Received
  <2>3. QED  BY <2>2 DEF PoolInv, Delivered
<1>4. /\ r.at = work.started /\ work.started # Zero
      /\ \A s \in delivered : s.cred = c /\ s.group = g => s = r
  BY <1>3 DEF PoolInv, Delivered, Clock
<1>5. r.ready => r.reset # Zero
  <2> SUFFICES ASSUME r.ready PROVE r.reset # Zero
    OBVIOUS
  <2>1. PICK pair \in answered : pair[1] = r.cred /\ r \in Parsed(r.cred, pair[2], r.group)
    BY <1>3 DEF AnswerInv
  <2>2. pair[2] \in setup.answers
    BY DEF AnswerInv
  <2>3. setup \in Scenarios /\ work.started \in Nat
    BY DEF TypeInv, WorldOK, WorkOK
  <2>4. PICK report \in pair[2] : r \in ParseGroup(c, report, g, work.started)
    BY <1>1, <1>3, <2>1, <2>2, <2>3, ParsedResult
  <2>5. AnswerType(report)
    BY <2>2, <2>3, <2>4, AnswersTyped
  <2>6. QED  BY <2>3, <2>4, <2>5, ReadyReset
<1>6. Measured(loaded[c]) = Measured(entries[c]) /\ RateOf(loaded[c]) = RateOf(entries[c])
  <2>1. /\ Measured(Loaded(file).entries[k]) = Measured(work.store.entries[k])
        /\ Loaded(file).entries[k].rate = work.store.entries[k].rate
    BY <1>1, SavedHistory
  <2>2. QED  BY <1>2, <2>1 DEF RateOf
<1>7. loaded[c].failed = entries[c].failed
  <2>1. Loaded(file).entries[k].failed = work.store.entries[k].failed
    BY <1>1, SavedHistory
  <2>2. QED  BY <1>2, <2>1
<1>8. IF r.ready THEN ~entries[c].failed /\ Measured(entries[c]) = Measured(r)
      ELSE entries[c].failed
  BY <1>2, <1>3 DEF StoreInv, Noticed, Shows
<1>9. /\ work.observations[g] = EnrichFresh(Classify(g, work.creds, delivered, entries), entries)
      /\ StoredEvidence(Loaded(file), work.relisted)[g] = Classify(g, work.relisted, {}, loaded)
  BY DEF ObservedNow, Observing, FreshEvidence, StoredEvidence
<1> HIDE DEF entries, loaded
<1>10. CASE r.ready
  <2>1. /\ Measured(entries[c]) = Measured(r) /\ ~loaded[c].failed
        /\ r.at # Zero /\ r.reset # Zero
    BY <1>4, <1>5, <1>7, <1>8, <1>10
  <2>2. LET seen == EnrichFresh(Classify(g, work.creds, delivered, entries), entries)
            later == Classify(g, work.relisted, {}, loaded)
        IN Concur(c, seen, later)
    BY <1>3, <1>4, <1>6, <1>10, <2>1, HeardAgrees DEF Concur
  <2>3. QED  BY <1>9, <2>2
<1>11. CASE ~r.ready
  BY <1>3, <1>4, <1>6, <1>7, <1>8, <1>9, <1>11, UnheardAgrees DEF Concur
<1>12. QED  BY <1>10, <1>11

\* Plans that agree on the credentials of a host.
Agree(plans, later, hosts) ==
    \A g \in Groups :
        /\ later[g].alerts \cap DOMAIN hosts = plans[g].alerts \cap DOMAIN hosts
        /\ \A c \in DOMAIN hosts : SameTarget(ItemOf(plans[g], c), ItemOf(later[g], c))

\* Two projections of observations that say the same of every credential.
LEMMA ProjectionsAgree ==
    ASSUME NEW hosts, NEW observations, NEW others, NEW options,
           \A g \in Groups, c \in DOMAIN hosts : Concur(c, observations[g], others[g])
    PROVE  Agree(Projection(hosts, observations, options), Projection(hosts, others, options), hosts)
<1> DEFINE plans == Projection(hosts, observations, options)
           later == Projection(hosts, others, options)
<1>1. ASSUME NEW g \in Groups
      PROVE  /\ later[g].alerts \cap DOMAIN hosts = plans[g].alerts \cap DOMAIN hosts
             /\ \A c \in DOMAIN hosts : SameTarget(ItemOf(plans[g], c), ItemOf(later[g], c))
  <2> DEFINE seen == observations[g]
             known == others[g]
             predicted == g # config.control
             o == NormalizeOptions(options)
             fresh == QuotaOf(seen, "fresh")
             historical == QuotaOf(seen, "historical")
             fresher == QuotaOf(known, "fresh")
             older == QuotaOf(known, "historical")
             first == Planned(hosts, fresh, historical, o)
             second == Planned(hosts, fresher, older, o)
  <2>1. plans[g] = GroupPlan(hosts, seen, options, predicted)
        /\ later[g] = GroupPlan(hosts, known, options, predicted)
    BY DEF Projection
  <2>2. \A c \in DOMAIN hosts :
          /\ Of(c, Judging(c, fresh, historical)) = Of(c, Judging(c, fresher, older))
          /\ c \in FailedCreds(seen) <=> c \in FailedCreds(known)
    BY DEF Concur
  <2> HIDE DEF predicted, seen, known, plans, later
  <2>3. /\ plans[g].items = first.items /\ plans[g].alerts = FailedCreds(seen)
        /\ later[g].items = second.items /\ later[g].alerts = FailedCreds(known)
    BY <2>1, GroupPlanIs
  <2>4. later[g].alerts \cap DOMAIN hosts = plans[g].alerts \cap DOMAIN hosts
    BY <2>2, <2>3
  <2> HIDE DEF fresh, historical, fresher, older, o
  <2>5. \A c \in DOMAIN hosts :
          /\ Known(c, fresh, historical) <=> Known(c, fresher, older)
          /\ EvidenceOn(c, fresh, historical) = EvidenceOn(c, fresher, older)
    BY <2>2, SameOn
  <2>6. ASSUME NEW c \in DOMAIN hosts
        PROVE  SameTarget(ItemOf(plans[g], c), ItemOf(later[g], c))
    <3> DEFINE a == Target(c, hosts, fresh, historical, o)
               b == Target(c, hosts, fresher, older, o)
    <3>1. ItemOf(first, c) = a /\ ItemOf(second, c) = b
      BY PlannedIs
    <3>2. a.priority = b.priority /\ a.disabled = b.disabled /\ a.reason = b.reason
      BY <2>5, SameEvidence
    <3> HIDE DEF a, b, first, second
    <3>3. ItemOf(plans[g], c) = ItemOf(first, c) /\ ItemOf(later[g], c) = ItemOf(second, c)
      BY <2>3 DEF ItemOf
    <3>4. QED  BY <3>1, <3>2, <3>3 DEF SameTarget
  <2>7. QED  BY <2>4, <2>6
<1> HIDE DEF plans, later
<1>2. Agree(plans, later, hosts)
  BY <1>1 DEF Agree
<1>3. QED  BY <1>2 DEF plans, later

\* A file that is read with the same entries and the same cooldowns that still
\* run makes the same of a host.
LEMMA SyncedSame ==
    ASSUME NEW old \in FileType, NEW new \in FileType, NEW hosts, NEW at \in Nat,
           Loaded(new).entries = Loaded(old).entries,
           Pruned(new, at).cooldowns = Pruned(old, at).cooldowns
    PROVE  Synchronised(new, hosts, at) = Synchronised(old, hosts, at)
<1>2. Options(at, Loaded(new)) = Options(at, Loaded(old))
  <2>1. ASSUME NEW f \in FileType
        PROVE  Pruned(Loaded(f), at).cooldowns = Pruned(f, at).cooldowns
    <3> DEFINE loaded == Loaded(f)
    <3>1. loaded \in FileType /\ loaded.cooldowns = f.cooldowns
      BY LoadedTyped
    <3> HIDE DEF loaded
    <3>2. \A x \in {loaded, f} :
             Pruned(x, at).cooldowns
               = [c \in Creds |-> IF at < x.cooldowns[c] THEN x.cooldowns[c] ELSE Zero]
      BY <3>1 DEF Pruned, FileType
    <3>3. Pruned(loaded, at).cooldowns = Pruned(f, at).cooldowns
      BY <3>1, <3>2
    <3>4. QED  BY <3>3 DEF loaded
  <2>2. QED  BY <2>1 DEF Options
<1>3. StoredEvidence(Loaded(new), DOMAIN hosts) = StoredEvidence(Loaded(old), DOMAIN hosts)
  BY DEF StoredEvidence, EntriesOf
<1>4. QED  BY <1>2, <1>3 DEF Synchronised, SyncedWith

\* While a round is not published the plan on display is not its own; what it
\* saves is its store, from which publishing drops the cooldowns that are over.
Agreeing ==
    /\ (~reverted /\ shown.by = "probe" /\ shown.round = round
            /\ DOMAIN shown.hosts \subseteq shown.probed)
         => Agree(shown.plans, Synchronised(file, shown.hosts, shown.at), shown.hosts)
    /\ shown.round \in Nat /\ shown.round <= round
    /\ stage \in Unsaved \cup {"saved"} => shown.by # "probe" \/ shown.round # round
    /\ stage = "saved" /\ ~reverted => file.cooldowns = work.store.cooldowns
    /\ stage = "published" => shown.at = work.started
    /\ stage = "published" /\ ~reverted
         => Pruned(file, work.started).cooldowns = work.store.cooldowns
    /\ shown.at \in Nat

\* A round shows what a synchronisation makes of its file.
LEMMA PublishAgrees ==
    ASSUME TypeInv, PoolInv, AnswerInv, StoreInv, ObservedNow, Clock, Agreeing, Publish
    PROVE  Agreeing'
<1> DEFINE hosts == CurrentHost
           at == work.started
           options == Options(at, work.store)
           plans == Projection(hosts, work.observations, options)
           later == StoredEvidence(Loaded(file), DOMAIN hosts)
<1>1. /\ shown' = Display("probe", hosts, work.creds, at, plans)
      /\ UNCHANGED <<setup, file, reverted, round>> /\ stage = "saved" /\ stage' = "published"
      /\ work'.started = at /\ work'.store = Pruned(work.store, at)
  BY PublishFacts DEF Publish, ProjectCurrentHost, outside
<1>2. /\ ~reverted => file.cooldowns = work.store.cooldowns
      /\ work.store \in FileType /\ file \in FileType /\ at \in Nat
  BY <1>1 DEF Agreeing, TypeInv, FilesOK, WorkOK, StoreOK, FileOK
<1>3. DOMAIN hosts = work.relisted
  BY DEF CurrentHost
<1>4. ~reverted /\ DOMAIN hosts \subseteq work.creds =>
        \A g \in Groups, c \in DOMAIN hosts : Concur(c, work.observations[g], later[g])
  BY <1>1, <1>3, EvidenceAgrees
<1>11. ~reverted => Pruned(Loaded(file), at).cooldowns = Pruned(work.store, at).cooldowns
                    /\ Pruned(file, at).cooldowns = Pruned(work.store, at).cooldowns
  <2> DEFINE loaded == Loaded(file)
  <2>1. loaded \in FileType /\ loaded.cooldowns = file.cooldowns
    BY <1>2, LoadedTyped
  <2> HIDE DEF loaded, at
  <2>2. \A x \in {loaded, file, work.store} :
           Pruned(x, at).cooldowns
             = [c \in Creds |-> IF at < x.cooldowns[c] THEN x.cooldowns[c] ELSE Zero]
    BY <1>2, <2>1 DEF Pruned, FileType
  <2>3. QED  BY <1>2, <2>1, <2>2 DEF loaded
<1>5. ~reverted => Options(at, Loaded(file)) = options
  BY <1>11 DEF Options
<1>6. ~reverted => Synchronised(file, hosts, at) = Projection(hosts, later, options)
  BY <1>5 DEF Synchronised, SyncedWith
<1> HIDE DEF hosts, later, options
<1>7. ~reverted /\ DOMAIN hosts \subseteq work.creds => Agree(plans, Synchronised(file, hosts, at), hosts)
  BY <1>4, <1>6, ProjectionsAgree
<1> HIDE DEF plans
<1>8. /\ shown'.by = "probe" /\ shown'.hosts = hosts /\ shown'.probed = work.creds
      /\ shown'.at = at /\ shown'.plans = plans /\ shown'.round = round
  BY <1>1 DEF Display
<1>9. Synchronised(file, shown.hosts, shown.at)' = Synchronised(file, hosts, at)
  BY <1>1, <1>8 DEF Synchronised, SyncedWith, Projection, Options, config
<1>10. round \in Nat
  BY SetupTyped DEF TypeInv, WorldOK, FilesOK
<1> HIDE DEF at
<1>12. (~reverted /\ DOMAIN shown.hosts \subseteq shown.probed
          => Agree(shown.plans, Synchronised(file, shown.hosts, shown.at), shown.hosts))'
  BY <1>1, <1>7, <1>8, <1>9 DEF Agree
<1>13. QED  BY <1>1, <1>2, <1>8, <1>10, <1>11, <1>12 DEF Agreeing, Unsaved, at

\* Recording the run leaves the file as good as it was.
LEMMA RecordAgrees ==
    ASSUME TypeInv, StoreInv, Agreeing,
           NEW outcome \in {"saved", "failed", "unconfirmed"}, Record(outcome)
    PROVE  Agreeing'
<1> DEFINE at == work.started
<1>1. /\ stage = "published" /\ stage' = "idle" /\ UNCHANGED <<setup, reverted, shown, round>>
      /\ file' = file \/ file' = [work.store EXCEPT !.runs = runs]
  BY DEF Record, RoundOver, outside, document
<1>2. /\ file \in FileType /\ work.store \in FileType /\ at \in Nat
      /\ runs \in Seq(RunType)
  BY DEF TypeInv, FilesOK, WorkOK, StoreOK, FileOK
<1>3. /\ shown.at = at
      /\ ~reverted => /\ Loaded(file).entries = Loaded(work.store).entries
                      /\ Pruned(file, at).cooldowns = work.store.cooldowns
  BY <1>1 DEF StoreInv, Agreeing
<1>4. CASE file' = file
  <2>1. Synchronised(file, shown.hosts, shown.at)' = Synchronised(file, shown.hosts, shown.at)
    BY <1>1, <1>4 DEF Synchronised, SyncedWith, Projection, Options, config
  <2>2. QED  BY <1>1, <1>4, <2>1 DEF Agreeing, Agree, Unsaved
<1>5. CASE file' = [work.store EXCEPT !.runs = runs] /\ ~reverted
  <2> DEFINE new == [work.store EXCEPT !.runs = runs]
             once == Pruned(file, at)
  <2>1. /\ new \in FileType /\ new.entries = work.store.entries
        /\ new.cooldowns = once.cooldowns
    BY <1>2, <1>3, <1>5 DEF FileType
  <2>2. once \in FileType /\ Pruned(once, at).cooldowns = once.cooldowns
    <3>1. Pruned(once, at).cooldowns = once.cooldowns
      BY <1>2, PrunedTwice
    <3>2. once \in FileType
      BY <1>2 DEF Pruned, FileType, Zero
    <3>3. QED  BY <3>1, <3>2
  <2> HIDE DEF new, once
  <2>3. Pruned(new, at).cooldowns = once.cooldowns
    BY <2>1, <2>2 DEF Pruned, FileType
  <2>alike. Loaded(new).entries = Loaded(file).entries
    BY <1>2, <1>3, <1>5, <2>1, LoadedAlike
  <2>4. Synchronised(new, shown.hosts, at) = Synchronised(file, shown.hosts, at)
    BY <1>2, <2>1, <2>3, <2>alike, SyncedSame DEF once
  <2>5. file' = new
    BY <1>5 DEF new
  <2>6. Synchronised(file, shown.hosts, shown.at)' = Synchronised(new, shown.hosts, at)
    BY <1>1, <1>3, <2>5 DEF Synchronised, SyncedWith, Projection, Options, config
  <2> HIDE DEF at
  <2>7. QED  BY <1>1, <1>3, <2>4, <2>6 DEF Agreeing, Agree, Unsaved
<1>6. CASE reverted
  BY <1>1, <1>6 DEF Agreeing, Unsaved
<1>7. QED  BY <1>1, <1>4, <1>5, <1>6

\* A configuration call that writes what the file says leaves it as good.
LEMMA CallAgrees ==
    ASSUME TypeInv, Agreeing, UNCHANGED <<setup, round, stage, work, shown, reverted>>,
           file' = Loaded(file)
    PROVE  Agreeing'
<1> DEFINE new == Loaded(file)
           at == shown.at
<1>1. file \in FileType /\ new \in FileType /\ new.cooldowns = file.cooldowns
  BY LoadedTyped DEF TypeInv, FilesOK, FileOK
<1>2. Loaded(new).entries = Loaded(file).entries
  BY <1>1, LoadedTwice
<1> HIDE DEF new
<1>3. \A t : Pruned(new, t).cooldowns = Pruned(file, t).cooldowns
  <2> SUFFICES ASSUME NEW t PROVE Pruned(new, t).cooldowns = Pruned(file, t).cooldowns
    OBVIOUS
  <2>1. \A x \in {new, file} :
           Pruned(x, t).cooldowns
             = [c \in Creds |-> IF t < x.cooldowns[c] THEN x.cooldowns[c] ELSE Zero]
    BY <1>1 DEF Pruned, FileType
  <2>2. QED  BY <1>1, <2>1
<1>4. at \in Nat /\ file' = new
  BY DEF Agreeing, new
<1> DEFINE hosts == shown.hosts
<1> HIDE DEF at, hosts
<1>5. Synchronised(new, hosts, at) = Synchronised(file, hosts, at)
  <2>1. Pruned(new, at).cooldowns = Pruned(file, at).cooldowns
    BY <1>3
  <2>2. QED  BY <1>1, <1>2, <1>4, <2>1, SyncedSame
<1> USE DEF at, hosts
<1>6. Synchronised(file, shown.hosts, shown.at)' = Synchronised(new, shown.hosts, at)
  BY <1>4 DEF Synchronised, SyncedWith, Projection, Options, config
<1>7. /\ file'.cooldowns = file.cooldowns
      /\ Pruned(file, work.started).cooldowns' = Pruned(file, work.started).cooldowns
  BY <1>1, <1>3, <1>4
<1> HIDE DEF at
<1>8. QED  BY <1>5, <1>6, <1>7 DEF Agreeing, Agree, Unsaved, at

LEMMA AgreeingStep ==
    ASSUME TypeInv, PoolInv, EvidenceInv, StoreInv, ObservedNow, Clock, Agreeing, [Next]_vars
    PROVE  Agreeing'
<1>1. round \in Nat
  BY SetupTyped DEF TypeInv, WorldOK, FilesOK
<1>2. CASE Begin
  <2>1. stage' = "collecting" /\ round' = round + 1 /\ shown' = shown
    BY <1>2 DEF Begin, results
  <2>2. QED  BY <1>1, <2>1 DEF Agreeing, Unsaved
<1>3. CASE PoolOnly \/ FinishStep \/ Collects \/ Relists
  <2>1. UNCHANGED <<round, shown>> /\ stage \in Unsaved /\ stage' \in Unsaved
    <3>1. CASE PoolOnly
      BY <3>1, PoolFields DEF PoolOnly, results, Unsaved
    <3>2. CASE FinishStep
      <4>1. stage = "collecting"
        BY <3>2 DEF FinishStep, Finish, Done
      <4>2. UNCHANGED <<round, shown, stage>>
        BY <3>2 DEF FinishStep, Finish, results
      <4>3. QED  BY <4>1, <4>2 DEF Unsaved
    <3>3. CASE Collects \/ Relists
      BY <3>3 DEF Collects, Relists, AllGone, results, Unsaved
    <3>4. QED  BY <1>3, <3>1, <3>2, <3>3
  <2>2. QED  BY <2>1 DEF Agreeing, Unsaved
<1>4. CASE Saves
  <2>1. UNCHANGED <<round, shown, work>> /\ stage = "relisted" /\ stage' = "saved"
        /\ file' = work.store
    BY <1>4 DEF Saves
  <2>2. QED  BY <2>1 DEF Agreeing, Unsaved
<1>5. CASE Publish
  BY <1>5, PublishAgrees DEF EvidenceInv
<1>6. CASE Ends
  <2>1. CASE stage \in Unsaved \cup {"saved"} /\ stage' = "idle" /\ UNCHANGED <<round, shown>>
    BY <2>1 DEF Agreeing, Unsaved
  <2>2. CASE \E outcome \in {"saved", "failed", "unconfirmed"} : Record(outcome)
    BY <2>2, RecordAgrees
  <2>3. QED  BY <1>6, <2>1, <2>2 DEF Ends, RoundOver, Unsaved
<1>7. CASE Stays /\ shown' = shown
  <2>1. UNCHANGED <<setup, file, reverted, round, stage, work, shown>>
    BY <1>7 DEF Stays
  <2>2. Synchronised(file, shown.hosts, shown.at)' = Synchronised(file, shown.hosts, shown.at)
    BY <2>1 DEF Synchronised, SyncedWith, Projection, Options, config
  <2>3. QED  BY <2>1, <2>2 DEF Agreeing, Agree
<1>8. CASE SyncHost
  <2>1. shown'.by = "sync" /\ shown'.round = round /\ UNCHANGED <<round, stage>> /\ stage = "idle"
        /\ shown'.at \in Nat
    BY <1>8 DEF SyncHost, Display, TypeInv, WorldOK
  <2>2. QED  BY <1>1, <2>1 DEF Agreeing, Unsaved
<1>9. CASE Rewrites
  <2>1. UNCHANGED <<setup, round, stage, work, shown>>
    BY <1>9 DEF Rewrites
  <2>2. CASE reverted'
    BY <2>1, <2>2 DEF Agreeing
  <2>3. CASE file' = Loaded(file) /\ UNCHANGED reverted
    BY <2>1, <2>3, CallAgrees
  <2>4. QED  BY <1>9, <2>2, <2>3 DEF Rewrites
<1>10. QED  BY <1>2, <1>3, <1>4, <1>5, <1>6, <1>7, <1>8, <1>9, StepKinds DEF Stays

\* A synchronisation right after a round shows the targets that the round
\* showed: what the file tells of a credential is what the round heard of it,
\* unless a configuration call has put back a document that it had overtaken.
THEOREM SyncAgreesHolds == Spec => []SyncAgrees
<1>1. Init => Agreeing
  BY DEF Init, NothingShown, Agreeing, Unsaved, Zero
<1>2. TypeInv /\ PoolInv /\ EvidenceInv /\ StoreInv /\ ObservedNow /\ Clock /\ Agreeing
        /\ [Next]_vars => Agreeing'
  BY AgreeingStep
<1>3. Agreeing => SyncAgrees
  BY DEF Agreeing, Agree, SyncAgrees
<1>4. QED  BY <1>1, <1>2, <1>3, TypeHolds, PoolHolds, EvidenceHolds, StoreHolds, ObservedHolds,
              ClockHolds, PTL DEF Spec

=============================================================================
