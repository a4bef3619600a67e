------------------------------ MODULE Estimator ------------------------------
(***************************************************************************)
(* The burn-rate estimator: which part of the weekly quota one five-hour   *)
(* cycle can burn, learned from samples of both windows.  Rates are in     *)
(* hundredths of a percent, amounts in percent; floating point becomes     *)
(* integer division.                                                       *)
(***************************************************************************)
EXTENDS Integers, Sequences, SequencesExt, QuotaReport

DefaultCycleBurnRate == 1500
MinCycleBurnRate == 800
MaxCycleBurnRate == 3000
MinDelta == 5           \* MinDeltaThreshold, in percent
MinReplenishment == 5
NoRound == 0

RateRange == MinCycleBurnRate..MaxCycleBurnRate

SampleType == [seq : Nat, at : Nat, sreset : Nat, srem : Int, lrem : Int, round : Nat]

Sample(seq, at, reset, srem, lrem) ==
    [seq |-> seq, at |-> at, sreset |-> reset, srem |-> srem, lrem |-> lrem, round |-> NoRound]

SameQuota(s, t) == s.srem = t.srem /\ s.lrem = t.lrem

Sequences(samples) == {samples[k].seq : k \in DOMAIN samples}

\* One sample joins a history: it gets a sequence number above the previous
\* one, and merges with its predecessor when nothing was consumed.
NormalizeStep(acc, sample) ==
    LET seq == IF sample.seq = 0 \/ sample.seq <= acc.previous THEN acc.previous + 1
               ELSE sample.seq
        merges == acc.done # <<>> /\ SameQuota(sample, Last(acc.done))
    IN [previous |-> seq,
        baseline |-> IF merges /\ acc.baseline = seq THEN Last(acc.done).seq ELSE acc.baseline,
        done |-> IF merges
                 THEN [acc.done EXCEPT ![Len(acc.done)].at = sample.at,
                                       ![Len(acc.done)].sreset = sample.sreset]
                 ELSE Append(acc.done, [sample EXCEPT !.seq = seq])]

Anchored(done, baseline) ==
    [samples |-> done,
     baseline |-> IF baseline \in Sequences(done) THEN baseline ELSE done[1].seq]

\* The history after the first n samples.
History(samples, baseline) ==
    LET after[n \in 0 .. Len(samples)] ==
            IF n = 0 THEN [previous |-> 0, baseline |-> baseline, done |-> <<>>]
            ELSE NormalizeStep(after[n - 1], samples[n])
    IN after

Normalize(samples, baseline) ==
    IF samples = <<>> THEN [samples |-> <<>>, baseline |-> 0]
    ELSE LET acc == History(samples, baseline)[Len(samples)]
         IN Anchored(acc.done, acc.baseline)

\* The newest capacity samples.
\* A slip: one too many is kept.
Retained_Late(samples, capacity) ==
    IF Len(samples) > capacity + 1
    THEN SubSeq(samples, Len(samples) - capacity + 1, Len(samples)) ELSE samples
Retained(samples, capacity) ==
    IF Len(samples) > capacity
    THEN SubSeq(samples, Len(samples) - capacity + 1, Len(samples)) ELSE samples

\* A slip: an estimate is taken as it comes.
Clamped_Never(rate) == rate
Clamped(rate) ==
    IF rate < MinCycleBurnRate THEN MinCycleBurnRate
    ELSE IF rate > MaxCycleBurnRate THEN MaxCycleBurnRate ELSE rate

Smoothed(prev, delta5h, delta7d) ==
    (3 * Clamped((10000 * delta7d) \div delta5h) + 7 * prev) \div 10

StartsSpan(current, last) ==
    current.sreset # last.sreset \/ current.srem - last.srem >= MinReplenishment

Capacity(configured) == IF configured \in 2..30 THEN configured ELSE 6

Learned(rate, samples, baseline) == [rate |-> rate, samples |-> samples, baseline |-> baseline]

\* What was burned since the baseline, in both windows.
Estimated(rate, kept, base, current) ==
    IF base.srem - current.srem < MinDelta \/ base.lrem - current.lrem <= 0
    THEN Learned(rate, kept, base.seq)
    ELSE Learned(Smoothed(rate, base.srem - current.srem, base.lrem - current.lrem), kept,
                 current.seq)

Base(kept, baseline) ==
    kept[IF baseline \in Sequences(kept) THEN CHOOSE k \in DOMAIN kept : kept[k].seq = baseline
         ELSE 1]

\* A new sample that differs from the last one.
Extended(rate, kept, baseline, current, last) ==
    IF StartsSpan(current, last) THEN Learned(rate, kept, current.seq)
    ELSE Estimated(rate, kept, Base(kept, baseline), current)

\* A sample joins a history that is in order.
Joined(rate, old, current, capacity) ==
    IF old.samples = <<>> THEN Learned(rate, <<[current EXCEPT !.seq = 1]>>, 1)
    ELSE IF SameQuota(current, Last(old.samples))
    THEN Learned(rate, [old.samples EXCEPT ![Len(old.samples)].at = current.at,
                                           ![Len(old.samples)].sreset = current.sreset],
                 old.baseline)
    ELSE LET next == [current EXCEPT !.seq = Last(old.samples).seq + 1] IN
         Extended(rate, Retained(Append(old.samples, next), capacity), old.baseline, next,
                  Last(old.samples))

\* UpdateSamplesAndCycleBurnRate: a result without both windows teaches nothing.
Updated(rate, old, result, capacity) ==
    IF result.srem = Missing \/ result.lrem = Missing \/ result.sreset = Zero
    THEN Learned(rate, old.samples, old.baseline)
    ELSE Joined(rate, old, Sample(0, result.at, result.sreset, result.srem, result.lrem), capacity)

UpdateSamples(history, result, configured) ==
    Updated(IF history.rate <= 0 THEN DefaultCycleBurnRate ELSE history.rate,
            Normalize(history.samples, history.baseline), result, Capacity(configured))

\* The sample that a round appended carries the round.
Marked(before, after, round) ==
    IF after.samples # <<>> /\ (before = <<>> \/ Last(after.samples).seq > Last(before).seq)
    THEN [after EXCEPT !.samples[Len(after.samples)].round = round] ELSE after

=============================================================================
