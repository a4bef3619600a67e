------------------------------ MODULE Evidence ------------------------------
(***************************************************************************)
(* Quota evidence: what the state cache keeps of the probes of a           *)
(* credential and model group, and the classification of a round's         *)
(* results against it.  Only a result of the round itself is fresh.        *)
(***************************************************************************)
EXTENDS Estimator

Measures == {"at", "reset", "rem", "sreset", "srem", "lreset", "lrem"}
Measured(x) == [m \in Measures |-> x[m]]

\* An entry of the cache; the estimator uses its rate, samples and baseline.
EntryType ==
    [at : Nat, reset : Nat, rem : Int, sreset : Nat, srem : Int, lreset : Nat, lrem : Int,
     failed : BOOLEAN, rate : RateRange \cup {0}, samples : Seq(SampleType), baseline : Nat]

\* One without an observation is like no entry.
NoEntry == [at |-> Zero, reset |-> Zero, rem |-> 0, sreset |-> Zero, srem |-> Missing,
            lreset |-> Zero, lrem |-> Missing, failed |-> FALSE,
            rate |-> 0, samples |-> <<>>, baseline |-> 0]

\* MarkProbeSuccess replaces the entry and learns from it.
Success(entry, result, capacity, round) ==
    LET learned == Marked(entry.samples, UpdateSamples(entry, result, capacity), round) IN
    [at |-> result.at, reset |-> result.reset, rem |-> result.rem,
     sreset |-> result.sreset, srem |-> result.srem,
     lreset |-> result.lreset, lrem |-> result.lrem, failed |-> FALSE,
     rate |-> learned.rate, samples |-> learned.samples, baseline |-> learned.baseline]

\* MarkProbeFailure notes the error and keeps what is known.
\* A slip: the entry is replaced.
Failure_Forgets(entry) == [NoEntry EXCEPT !.failed = TRUE]
Failure(entry) == [entry EXCEPT !.failed = TRUE]

Recorded(entry, result, capacity, round) ==
    IF result.ready THEN Success(entry, result, capacity, round) ELSE Failure(entry)

-----------------------------------------------------------------------------
RateOf(entry) == IF entry.rate <= 0 THEN DefaultCycleBurnRate ELSE entry.rate

Quota(cred, x, rate) ==
    [cred |-> cred, rate |-> rate, at |-> x.at, reset |-> x.reset, rem |-> x.rem,
     sreset |-> x.sreset, srem |-> x.srem, lreset |-> x.lreset, lrem |-> x.lrem]

NoQuota == Quota(0, NoEntry, 0)

Observation(cred, kind, quota) == [cred |-> cred, kind |-> kind, quota |-> quota]

\* What the cache says of credentials: a quota once read, or a failure.
HistoricalObservations(entries, creds) ==
    {[cred |-> c, failed |-> entries[c].failed,
      read |-> entries[c].at # Zero /\ entries[c].reset # Zero] : c \in creds}

\* The observations of a classification.  entries are those of the group.
Classify(group, creds, results, entries) ==
    LET known == {r \in results : r.cred \in creds}
        fresh == {r \in known : r.group = group /\ r.ready}
        history == HistoricalObservations(entries, creds)
        past == {h.cred : h \in {i \in history : i.read}}
        failed == {h.cred : h \in {i \in history : i.failed}}
    IN {Observation(r.cred, "fresh", Quota(r.cred, r, 0)) : r \in fresh}
         \cup {Observation(c, "historical", Quota(c, entries[c], RateOf(entries[c]))) :
                  c \in past \ {r.cred : r \in fresh}}
         \cup {Observation(r.cred, "wrong_group", NoQuota) : r \in {s \in known : s.group # group}}
         \cup {Observation(r.cred, "failed", NoQuota) : r \in {s \in known : s.group = group /\ ~s.ready}}
         \cup {Observation(c, "failed", NoQuota) :
                  c \in failed \ {r.cred : r \in known}}

\* The fresh evidence takes the rate just learned.
\* A slip: it keeps none, and is planned with the default.
EnrichFresh_Not(observations, entries) == observations
EnrichFresh(observations, entries) ==
    {IF o.kind = "fresh" THEN [o EXCEPT !.quota.rate = RateOf(entries[o.cred])] ELSE o :
        o \in observations}

QuotaOf(observations, kind) == {o.quota : o \in {p \in observations : p.kind = kind}}

FailedCreds(observations) == {o.cred : o \in {p \in observations : p.kind = "failed"}}

=============================================================================
