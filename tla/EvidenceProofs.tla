---------------------------- MODULE EvidenceProofs ----------------------------
(***************************************************************************)
(* Lemmas about quota reports, the estimator and the evidence, for any     *)
(* histories, answers and capacities: what ProbeRoundProofs needs of them. *)
(***************************************************************************)
EXTENDS Evidence, FiniteSetTheorems, WellFoundedInduction, TLAPS

\* A set of naturals has a least element, from which a definition by recursion
\* is reasoned about: a counterexample would have a least one.
LEMMA LeastNatural ==
    ASSUME NEW T \in SUBSET Nat, T # {}
    PROVE  \E n \in T : \A m \in T : n <= m
<1>1. PICK n \in T : \A m \in T : ~ (<<m, n>> \in OpToRel(<, Nat))
  BY NatLessThanWellFounded, WFMin
<1>2. \A m \in T : ~(m < n)
  BY <1>1 DEF OpToRel
<1>3. QED  BY <1>2

Begun(baseline) == [previous |-> 0, baseline |-> baseline, done |-> <<>>]

Follows(f, samples, baseline, m) ==
    f = [n \in 0 .. m |-> IF n = 0 THEN Begun(baseline) ELSE NormalizeStep(f[n - 1], samples[n])]

\* The function that the recursion of History describes exists for any length.
LEMMA FollowsExists ==
    ASSUME NEW samples, NEW baseline, NEW m \in Nat
    PROVE  \E f : Follows(f, samples, baseline, m)
<1> DEFINE none == {k \in Nat : ~ \E f : Follows(f, samples, baseline, k)}
<1> SUFFICES ASSUME none # {} PROVE FALSE
  OBVIOUS
<1>1. PICK k \in none : \A l \in none : k <= l
  BY LeastNatural
<1>2. CASE k = 0
  <2>1. Follows([n \in 0 .. 0 |-> Begun(baseline)], samples, baseline, 0)
    BY DEF Follows
  <2>2. QED  BY <1>1, <1>2, <2>1
<1>3. CASE k # 0
  <2>1. k - 1 \in Nat /\ k \in Nat /\ k - 1 \notin none
    BY <1>1, <1>3
  <2>2. PICK f : Follows(f, samples, baseline, k - 1)
    BY <2>1
  <2> DEFINE next == [n \in 0 .. k |-> IF n = k THEN NormalizeStep(f[k - 1], samples[k]) ELSE f[n]]
  <2>3. \A n \in 0 .. k - 1 : next[n] = f[n]
    BY <2>1
  <2>4. \A n \in 0 .. k - 1 :
          f[n] = IF n = 0 THEN Begun(baseline) ELSE NormalizeStep(f[n - 1], samples[n])
    BY <2>2 DEF Follows
  <2>5. \A n \in 0 .. k :
          next[n] = IF n = 0 THEN Begun(baseline) ELSE NormalizeStep(next[n - 1], samples[n])
    <3> SUFFICES ASSUME NEW n \in 0 .. k
                 PROVE  next[n] = IF n = 0 THEN Begun(baseline)
                                  ELSE NormalizeStep(next[n - 1], samples[n])
      OBVIOUS
    <3>1. CASE n = k
      BY <1>3, <2>1, <2>3, <3>1
    <3>2. CASE n # k
      <4>1. n \in 0 .. k - 1 /\ (n # 0 => n - 1 \in 0 .. k - 1)
        BY <2>1, <3>2
      <4>2. QED  BY <2>3, <2>4, <4>1
    <3>3. QED  BY <3>1, <3>2
  <2>6. Follows(next, samples, baseline, k)
    <3>1. next = [n \in 0 .. k |-> next[n]]
      OBVIOUS
    <3> HIDE DEF next
    <3>2. QED  BY <2>5, <3>1 DEF Follows
  <2>7. QED  BY <1>1, <2>6
<1>4. QED  BY <1>2, <1>3

\* History is that function.
LEMMA HistoryDefined ==
    ASSUME NEW samples, NEW baseline, Len(samples) \in Nat
    PROVE  Follows(History(samples, baseline), samples, baseline, Len(samples))
  BY FollowsExists DEF History, Follows, Begun

\* The recursion, step by step.
LEMMA HistorySteps ==
    ASSUME NEW samples, NEW baseline, Len(samples) \in Nat
    PROVE  /\ History(samples, baseline)[0] = Begun(baseline)
           /\ \A n \in 1 .. Len(samples) :
                History(samples, baseline)[n]
                  = NormalizeStep(History(samples, baseline)[n - 1], samples[n])
<1> DEFINE f == History(samples, baseline)
<1>1. f = [n \in 0 .. Len(samples) |-> IF n = 0 THEN Begun(baseline)
                                        ELSE NormalizeStep(f[n - 1], samples[n])]
  BY HistoryDefined DEF Follows
<1> HIDE DEF f
<1>2. f[0] = Begun(baseline)
  <2>1. 0 \in 0 .. Len(samples)
    OBVIOUS
  <2>2. QED  BY <1>1, <2>1
<1>3. \A n \in 1 .. Len(samples) : f[n] = NormalizeStep(f[n - 1], samples[n])
  <2>1. \A n \in 1 .. Len(samples) : n \in 0 .. Len(samples) /\ n # 0
    OBVIOUS
  <2>2. QED  BY <1>1, <2>1
<1>4. QED  BY <1>2, <1>3 DEF f

-----------------------------------------------------------------------------
(***************************************************************************)
(* Sample histories.                                                       *)
(***************************************************************************)
Increasing(samples) ==
    /\ \A i \in DOMAIN samples : samples[i].seq > 0
    /\ \A i, j \in DOMAIN samples : i < j => samples[i].seq < samples[j].seq

Differ(samples) == \A i \in DOMAIN samples \ {1} : ~SameQuota(samples[i - 1], samples[i])

InOrder(samples) == samples \in Seq(SampleType) /\ Increasing(samples) /\ Differ(samples)

\* The fields of a sample in a sequence of samples.
LEMMA SampleTyped ==
    ASSUME NEW samples \in Seq(SampleType), NEW i \in DOMAIN samples
    PROVE  /\ samples[i] \in SampleType
           /\ samples[i].seq \in Nat /\ samples[i].at \in Nat /\ samples[i].sreset \in Nat
           /\ samples[i].srem \in Int /\ samples[i].lrem \in Int /\ samples[i].round \in Nat
<1>1. samples[i] \in SampleType
  OBVIOUS
<1>2. QED  BY <1>1 DEF SampleType

\* The rounds that left samples.
RoundsOf(samples) == {samples[i].round : i \in DOMAIN samples}

HistoryOK(acc, samples, n) ==
    /\ acc.previous \in Nat
    /\ acc.baseline \in Nat
    /\ InOrder(acc.done)
    /\ Len(acc.done) <= n
    /\ n > 0 => acc.done # <<>>
    /\ \A i \in DOMAIN acc.done : acc.done[i].seq <= acc.previous
    /\ RoundsOf(acc.done) \subseteq RoundsOf(samples)

\* The last sample of a history takes the time and the reset of another.
Merge(done, at, reset) == [done EXCEPT ![Len(done)].at = at, ![Len(done)].sreset = reset]

\* What a merge leaves alone.
LEMMA Merged ==
    ASSUME NEW done \in Seq(SampleType), done # <<>>, NEW at \in Nat, NEW reset \in Nat
    PROVE  /\ Merge(done, at, reset) \in Seq(SampleType)
           /\ Len(Merge(done, at, reset)) = Len(done)
           /\ DOMAIN Merge(done, at, reset) = DOMAIN done
           /\ \A i \in DOMAIN done :
                /\ Merge(done, at, reset)[i].seq = done[i].seq
                /\ Merge(done, at, reset)[i].srem = done[i].srem
                /\ Merge(done, at, reset)[i].lrem = done[i].lrem
                /\ Merge(done, at, reset)[i].round = done[i].round
                /\ i # Len(done) => Merge(done, at, reset)[i] = done[i]
           /\ Merge(done, at, reset)[Len(done)].at = at
<1> DEFINE last == [done[Len(done)] EXCEPT !.at = at, !.sreset = reset]
           merged == [done EXCEPT ![Len(done)] = last]
<1>1. Len(done) \in 1 .. Len(done) /\ DOMAIN done = 1 .. Len(done) /\ Len(done) \in Nat
  OBVIOUS
<1>2. done[Len(done)] \in SampleType
  BY <1>1
<1>3. /\ last \in SampleType /\ last.at = at /\ last.seq = done[Len(done)].seq
      /\ last.srem = done[Len(done)].srem /\ last.lrem = done[Len(done)].lrem
      /\ last.round = done[Len(done)].round
  BY <1>2 DEF SampleType
<1>4. Merge(done, at, reset) = merged
  BY <1>1 DEF Merge
<1> HIDE DEF last
<1>5. /\ merged \in Seq(SampleType) /\ Len(merged) = Len(done) /\ DOMAIN merged = DOMAIN done
      /\ \A i \in DOMAIN done : merged[i] = IF i = Len(done) THEN last ELSE done[i]
  BY <1>1, <1>3
<1> HIDE DEF merged
<1>6. QED  BY <1>1, <1>3, <1>4, <1>5

\* A merged history keeps what the properties look at.
LEMMA MergedInOrder ==
    ASSUME NEW done, InOrder(done), done # <<>>, NEW at \in Nat, NEW reset \in Nat
    PROVE  /\ InOrder(Merge(done, at, reset))
           /\ RoundsOf(Merge(done, at, reset)) = RoundsOf(done)
           /\ Sequences(Merge(done, at, reset)) = Sequences(done)
<1> DEFINE merged == Merge(done, at, reset)
<1>1. /\ merged \in Seq(SampleType) /\ DOMAIN merged = DOMAIN done
      /\ DOMAIN done = 1 .. Len(done) /\ Len(done) \in Nat
      /\ \A i \in DOMAIN done :
           /\ merged[i].seq = done[i].seq /\ merged[i].round = done[i].round
           /\ merged[i].srem = done[i].srem /\ merged[i].lrem = done[i].lrem
  BY Merged DEF InOrder
<1> HIDE DEF merged
<1>2. Increasing(merged)
  BY <1>1 DEF InOrder, Increasing
<1>3. Differ(merged)
  <2> SUFFICES ASSUME NEW i \in DOMAIN merged \ {1} PROVE ~SameQuota(merged[i - 1], merged[i])
    BY DEF Differ
  <2>1. i \in DOMAIN done \ {1} /\ i - 1 \in DOMAIN done
    BY <1>1
  <2>2. ~SameQuota(done[i - 1], done[i])
    BY <2>1 DEF InOrder, Differ
  <2>3. QED  BY <1>1, <2>1, <2>2 DEF SameQuota
<1>4. RoundsOf(merged) = RoundsOf(done)
  BY <1>1 DEF RoundsOf
<1>5. Sequences(merged) = Sequences(done)
  BY <1>1 DEF Sequences
<1>6. QED  BY <1>1, <1>2, <1>3, <1>4, <1>5 DEF InOrder, merged

\* A sample that differs from the last one and comes after it joins the history.
LEMMA AppendedInOrder ==
    ASSUME NEW done, InOrder(done), NEW sample \in SampleType, sample.seq > 0,
           \A i \in DOMAIN done : done[i].seq < sample.seq,
           done # <<>> => ~SameQuota(done[Len(done)], sample)
    PROVE  InOrder(Append(done, sample))
<1> DEFINE longer == Append(done, sample)
<1>1. done \in Seq(SampleType) /\ Len(done) \in Nat /\ DOMAIN done = 1 .. Len(done)
  BY DEF InOrder
<1>2. /\ longer \in Seq(SampleType) /\ DOMAIN longer = 1 .. Len(done) + 1
      /\ longer[Len(done) + 1] = sample
      /\ \A i \in 1 .. Len(done) : longer[i] = done[i]
  BY <1>1
<1> HIDE DEF longer
<1>3. Increasing(longer)
  <2>1. \A i \in DOMAIN longer : longer[i].seq > 0
    BY <1>1, <1>2 DEF InOrder, Increasing
  <2>2. ASSUME NEW i \in DOMAIN longer, NEW j \in DOMAIN longer, i < j
        PROVE  longer[i].seq < longer[j].seq
    <3>1. i \in 1 .. Len(done)
      BY <1>1, <1>2, <2>2
    <3>2. CASE j = Len(done) + 1
      BY <1>1, <1>2, <3>1, <3>2
    <3>3. CASE j # Len(done) + 1
      <4>1. j \in 1 .. Len(done)
        BY <1>1, <1>2, <3>3
      <4>2. QED  BY <1>1, <1>2, <2>2, <3>1, <4>1 DEF InOrder, Increasing
    <3>4. QED  BY <3>2, <3>3
  <2>3. QED  BY <2>1, <2>2 DEF Increasing
<1>4. Differ(longer)
  <2> SUFFICES ASSUME NEW i \in DOMAIN longer \ {1} PROVE ~SameQuota(longer[i - 1], longer[i])
    BY DEF Differ
  <2>1. CASE i = Len(done) + 1
    <3>1. done # <<>> /\ i - 1 = Len(done) /\ Len(done) \in 1 .. Len(done)
      BY <1>1, <1>2, <2>1
    <3>2. QED  BY <1>2, <2>1, <3>1
  <2>2. CASE i # Len(done) + 1
    <3>1. i \in DOMAIN done \ {1} /\ i - 1 \in DOMAIN done
      BY <1>1, <1>2, <2>2
    <3>2. QED  BY <1>1, <1>2, <3>1 DEF InOrder, Differ
  <2>3. QED  BY <2>1, <2>2
<1>5. QED  BY <1>2, <1>3, <1>4 DEF InOrder, longer

\* A sample that joins a history in order leaves it in order.
LEMMA StepInOrder ==
    ASSUME NEW samples \in Seq(SampleType), NEW n \in 1 .. Len(samples), NEW acc,
           HistoryOK(acc, samples, n - 1)
    PROVE  HistoryOK(NormalizeStep(acc, samples[n]), samples, n)
<1> DEFINE sample == samples[n]
           seq == IF sample.seq = 0 \/ sample.seq <= acc.previous THEN acc.previous + 1
                  ELSE sample.seq
           merges == acc.done # <<>> /\ SameQuota(sample, Last(acc.done))
           added == [sample EXCEPT !.seq = seq]
           next == NormalizeStep(acc, sample)
<1>1. /\ sample \in SampleType /\ acc.previous \in Nat /\ acc.baseline \in Nat
      /\ InOrder(acc.done) /\ acc.done \in Seq(SampleType)
      /\ Len(acc.done) <= n - 1 /\ n \in Nat /\ n > 0
      /\ \A i \in DOMAIN acc.done : acc.done[i].seq <= acc.previous
  BY DEF HistoryOK, InOrder
<1>2. seq \in Nat /\ seq > acc.previous /\ seq > 0
  <2>1. sample.seq \in Nat
    BY <1>1 DEF SampleType
  <2>2. \A p, q \in Nat :
           LET given == IF q = 0 \/ q <= p THEN p + 1 ELSE q IN
           given \in Nat /\ given > p /\ given > 0
    OBVIOUS
  <2>3. QED  BY <1>1, <2>1, <2>2
<1>3. /\ added \in SampleType /\ added.seq = seq /\ added.round = sample.round
      /\ added.srem = sample.srem /\ added.lrem = sample.lrem
  BY <1>1, <1>2 DEF SampleType
<1>4. /\ next.previous = seq
      /\ next.baseline = IF merges /\ acc.baseline = seq THEN Last(acc.done).seq ELSE acc.baseline
      /\ next.done = IF merges THEN Merge(acc.done, sample.at, sample.sreset)
                     ELSE Append(acc.done, added)
  BY DEF NormalizeStep, Merge
<1>5. sample.round \in RoundsOf(samples)
  BY DEF RoundsOf
<1> HIDE DEF seq, added, next
<1>6. CASE merges
  <2>1. Len(acc.done) \in 1 .. Len(acc.done)
    BY <1>1, <1>6
  <2>2. Last(acc.done) \in SampleType
    BY <1>1, <2>1 DEF Last
  <2>3. next.baseline \in Nat
    BY <1>1, <1>4, <2>2 DEF SampleType
  <2>4. sample.at \in Nat /\ sample.sreset \in Nat
    BY <1>1 DEF SampleType
  <2> HIDE DEF sample
  <2>5. next.done = Merge(acc.done, sample.at, sample.sreset) /\ acc.done # <<>>
    BY <1>4, <1>6
  <2>6. /\ InOrder(next.done) /\ RoundsOf(next.done) = RoundsOf(acc.done)
    BY <1>1, <2>4, <2>5, MergedInOrder
  <2>7. /\ Len(next.done) = Len(acc.done) /\ DOMAIN next.done = DOMAIN acc.done
        /\ \A i \in DOMAIN acc.done : next.done[i].seq = acc.done[i].seq
    BY <1>1, <2>4, <2>5, Merged
  <2>8. \A i \in DOMAIN next.done : next.done[i].seq <= next.previous
    <3> SUFFICES ASSUME NEW i \in DOMAIN acc.done PROVE next.done[i].seq <= next.previous
      BY <2>7
    <3>1. acc.done[i].seq \in Nat
      BY <1>1, SampleTyped
    <3>2. QED  BY <1>1, <1>2, <1>4, <2>7, <3>1
  <2>9. next.done # <<>> /\ Len(next.done) <= n
    BY <1>1, <2>1, <2>6, <2>7 DEF InOrder
  <2>10. QED  BY <1>2, <1>4, <2>3, <2>6, <2>8, <2>9 DEF HistoryOK, sample, next
<1>7. CASE ~merges
  <2>1. next.done = Append(acc.done, added) /\ next.baseline = acc.baseline
    BY <1>4, <1>7
  <2>2. /\ Len(next.done) = Len(acc.done) + 1
        /\ DOMAIN next.done = 1 .. Len(acc.done) + 1 /\ DOMAIN acc.done = 1 .. Len(acc.done)
        /\ Len(acc.done) \in Nat
        /\ next.done[Len(acc.done) + 1] = added
        /\ \A i \in 1 .. Len(acc.done) : next.done[i] = acc.done[i]
    BY <1>1, <1>3, <2>1
  <2>3. \A i \in DOMAIN acc.done : acc.done[i].seq < added.seq
    <3> SUFFICES ASSUME NEW i \in DOMAIN acc.done PROVE acc.done[i].seq < added.seq
      OBVIOUS
    <3>1. acc.done[i].seq \in Nat
      BY <1>1, SampleTyped
    <3>2. QED  BY <1>1, <1>2, <1>3, <3>1
  <2>4. acc.done # <<>> => ~SameQuota(acc.done[Len(acc.done)], added)
    BY <1>3, <1>7 DEF SameQuota, Last
  <2>5. InOrder(next.done)
    BY <1>1, <1>2, <1>3, <2>1, <2>3, <2>4, AppendedInOrder
  <2>6. \A i \in DOMAIN next.done : next.done[i].seq <= next.previous
    <3> SUFFICES ASSUME NEW i \in DOMAIN next.done PROVE next.done[i].seq <= next.previous
      OBVIOUS
    <3>1. CASE i = Len(acc.done) + 1
      BY <1>2, <1>3, <1>4, <2>2, <3>1
    <3>2. CASE i # Len(acc.done) + 1
      <4>1. i \in DOMAIN acc.done /\ next.done[i] = acc.done[i]
        BY <2>2, <3>2
      <4>2. acc.done[i].seq \in Nat /\ acc.done[i].seq < seq /\ seq \in Nat
        BY <1>1, <1>2, <1>3, <2>3, <4>1, SampleTyped
      <4>3. QED  BY <1>4, <4>1, <4>2
    <3>3. QED  BY <3>1, <3>2
  <2>7. RoundsOf(next.done) \subseteq RoundsOf(samples)
    <3>1. RoundsOf(acc.done) \subseteq RoundsOf(samples)
      BY DEF HistoryOK
    <3>2. RoundsOf(next.done) \subseteq RoundsOf(acc.done) \cup {added.round}
      <4> SUFFICES ASSUME NEW i \in DOMAIN next.done
                   PROVE  next.done[i].round \in RoundsOf(acc.done) \cup {added.round}
        BY DEF RoundsOf
      <4>1. CASE i = Len(acc.done) + 1
        BY <2>2, <4>1
      <4>2. CASE i # Len(acc.done) + 1
        <5>1. i \in DOMAIN acc.done /\ next.done[i] = acc.done[i]
          BY <2>2, <4>2
        <5>2. QED  BY <5>1 DEF RoundsOf
      <4>3. QED  BY <4>1, <4>2
    <3>3. QED  BY <1>3, <1>5, <3>1, <3>2
  <2>8. next.done # <<>> /\ Len(next.done) <= n
    BY <1>1, <2>2
  <2>9. next.previous \in Nat /\ next.baseline \in Nat
    BY <1>1, <1>2, <1>4, <2>1
  <2>10. QED  BY <2>5, <2>6, <2>7, <2>8, <2>9 DEF HistoryOK, next
<1>8. QED  BY <1>6, <1>7

\* The history of any samples is in order.
LEMMA HistoryInOrder ==
    ASSUME NEW samples \in Seq(SampleType), NEW baseline \in Nat, NEW m \in 0 .. Len(samples)
    PROVE  HistoryOK(History(samples, baseline)[m], samples, m)
<1> DEFINE after == History(samples, baseline)
           wrong == {n \in 0 .. Len(samples) : ~HistoryOK(after[n], samples, n)}
<1>1. Len(samples) \in Nat
  OBVIOUS
<1>2. /\ after[0] = Begun(baseline)
      /\ \A n \in 1 .. Len(samples) : after[n] = NormalizeStep(after[n - 1], samples[n])
  BY <1>1, HistorySteps
<1> HIDE DEF after
<1>3. HistoryOK(after[0], samples, 0)
  <2>1. InOrder(<<>>) /\ RoundsOf(<<>>) = {} /\ DOMAIN <<>> = {}
    BY DEF InOrder, Increasing, Differ, RoundsOf
  <2>2. /\ after[0].previous = 0 /\ after[0].baseline = baseline /\ after[0].done = <<>>
    BY <1>2 DEF Begun
  <2>3. QED  BY <2>1, <2>2 DEF HistoryOK
<1> SUFFICES ASSUME wrong # {} PROVE FALSE
  BY DEF after
<1>4. wrong \in SUBSET Nat
  BY <1>1
<1>5. PICK n \in wrong : \A k \in wrong : n <= k
  BY <1>4, LeastNatural
<1>6. n \in 1 .. Len(samples) /\ n - 1 \in 0 .. Len(samples) /\ n - 1 \notin wrong
  BY <1>1, <1>3, <1>5
<1>7. HistoryOK(after[n - 1], samples, n - 1)
  BY <1>6
<1>8. HistoryOK(after[n], samples, n)
  BY <1>2, <1>6, <1>7, StepInOrder
<1>9. QED  BY <1>5, <1>8

\* normalizeSampleHistory puts any history in order.
LEMMA NormalizeInOrder ==
    ASSUME NEW samples \in Seq(SampleType), NEW baseline \in Nat
    PROVE  LET known == Normalize(samples, baseline) IN
           /\ InOrder(known.samples)
           /\ known.baseline \in Nat
           /\ known.samples = <<>> <=> samples = <<>>
           /\ known.samples # <<>> => known.baseline \in Sequences(known.samples)
           /\ Len(known.samples) <= Len(samples)
           /\ RoundsOf(known.samples) \subseteq RoundsOf(samples)
<1>1. CASE samples = <<>>
  <2>1. /\ Normalize(samples, baseline).samples = <<>>
        /\ Normalize(samples, baseline).baseline = 0
    BY <1>1 DEF Normalize
  <2>2. InOrder(<<>>) /\ RoundsOf(<<>>) = {} /\ Len(<<>>) = 0
    BY DEF InOrder, Increasing, Differ, RoundsOf
  <2>3. QED  BY <1>1, <2>1, <2>2
<1>2. CASE samples # <<>>
  <2> DEFINE acc == History(samples, baseline)[Len(samples)]
  <2>1. Len(samples) \in 0 .. Len(samples) /\ Len(samples) > 0
    BY <1>2
  <2>2. HistoryOK(acc, samples, Len(samples))
    BY <2>1, HistoryInOrder
  <2>3. Normalize(samples, baseline) = Anchored(acc.done, acc.baseline)
    BY <1>2 DEF Normalize
  <2> HIDE DEF acc
  <2>4. /\ Normalize(samples, baseline).samples = acc.done
        /\ Normalize(samples, baseline).baseline
             = IF acc.baseline \in Sequences(acc.done) THEN acc.baseline ELSE acc.done[1].seq
    BY <2>3 DEF Anchored
  <2>5. /\ InOrder(acc.done) /\ acc.done \in Seq(SampleType) /\ acc.done # <<>>
        /\ acc.baseline \in Nat /\ Len(acc.done) <= Len(samples)
        /\ RoundsOf(acc.done) \subseteq RoundsOf(samples)
    BY <2>1, <2>2 DEF HistoryOK, InOrder
  <2>6. 1 \in DOMAIN acc.done
    BY <2>5
  <2>7. acc.done[1].seq \in Nat /\ acc.done[1].seq \in Sequences(acc.done)
    BY <2>5, <2>6, SampleTyped DEF Sequences
  <2>8. QED  BY <1>2, <2>4, <2>5, <2>7
<1>3. QED  BY <1>1, <1>2

\* and leaves one that is in order as it is.
LEMMA HistorySame ==
    ASSUME NEW samples, InOrder(samples), NEW baseline \in Nat, NEW m \in 1 .. Len(samples)
    PROVE  History(samples, baseline)[m]
             = [previous |-> samples[m].seq, baseline |-> baseline, done |-> SubSeq(samples, 1, m)]
<1> DEFINE after == History(samples, baseline)
           like(n) == [previous |-> samples[n].seq, baseline |-> baseline,
                       done |-> SubSeq(samples, 1, n)]
           wrong == {n \in 1 .. Len(samples) : after[n] # like(n)}
<1>1. samples \in Seq(SampleType) /\ Len(samples) \in Nat /\ DOMAIN samples = 1 .. Len(samples)
  BY DEF InOrder
<1>2. /\ after[0] = Begun(baseline)
      /\ \A n \in 1 .. Len(samples) : after[n] = NormalizeStep(after[n - 1], samples[n])
  BY <1>1, HistorySteps
<1> HIDE DEF after
<1>3. ASSUME NEW n \in 1 .. Len(samples)
      PROVE  /\ samples[n] \in SampleType /\ samples[n].seq \in Nat /\ samples[n].seq > 0
             /\ [samples[n] EXCEPT !.seq = samples[n].seq] = samples[n]
  <2>1. samples[n] \in SampleType /\ samples[n].seq \in Nat
    BY <1>1, SampleTyped
  <2>2. samples[n].seq > 0
    BY <1>1 DEF InOrder, Increasing
  <2>3. QED  BY <2>1, <2>2 DEF SampleType
<1>4. ASSUME NEW n \in 1 .. Len(samples)
      PROVE  SubSeq(samples, 1, n) = Append(SubSeq(samples, 1, n - 1), samples[n])
  BY <1>1
<1>5. 1 \in 1 .. Len(samples) => after[1] = like(1)
  <2> SUFFICES ASSUME 1 \in 1 .. Len(samples) PROVE after[1] = like(1)
    OBVIOUS
  <2>1. after[1] = NormalizeStep(Begun(baseline), samples[1])
    BY <1>2
  <2>2. NormalizeStep(Begun(baseline), samples[1])
          = [previous |-> samples[1].seq, baseline |-> baseline,
             done |-> Append(<<>>, samples[1])]
    <3>1. /\ Begun(baseline).done = <<>> /\ Begun(baseline).previous = 0
          /\ Begun(baseline).baseline = baseline
      BY DEF Begun
    <3>2. ~(samples[1].seq = 0 \/ samples[1].seq <= 0)
      <4>1. samples[1].seq \in Nat /\ samples[1].seq > 0
        BY <1>3
      <4>2. QED  BY <4>1
    <3>3. QED  BY <1>3, <3>1, <3>2 DEF NormalizeStep
  <2>3. SubSeq(samples, 1, 1) = Append(<<>>, samples[1])
    <3>1. SubSeq(samples, 1, 0) = <<>>
      BY <1>1
    <3>2. SubSeq(samples, 1, 1) = Append(SubSeq(samples, 1, 1 - 1), samples[1])
      BY <1>4
    <3>3. 1 - 1 = 0
      OBVIOUS
    <3>4. QED  BY <3>1, <3>2, <3>3, Zenon
  <2>4. QED  BY <2>1, <2>2, <2>3
<1> SUFFICES ASSUME wrong # {} PROVE FALSE
  BY DEF after
<1>6. wrong \in SUBSET Nat
  BY <1>1
<1>7. PICK n \in wrong : \A k \in wrong : n <= k
  BY <1>6, LeastNatural
<1>8. n \in 2 .. Len(samples) /\ n - 1 \in 1 .. Len(samples) /\ n - 1 \notin wrong
  <2>1. n \in 1 .. Len(samples) /\ after[n] # like(n)
    BY <1>7
  <2>2. n # 1
    BY <1>5, <2>1
  <2> HIDE DEF wrong
  <2>3. n - 1 \notin wrong
    BY <1>6, <1>7
  <2>4. QED  BY <1>1, <2>1, <2>2, <2>3
<1>9. after[n - 1] = like(n - 1)
  BY <1>8
<1>10. NormalizeStep(like(n - 1), samples[n]) = like(n)
  <2> DEFINE done == SubSeq(samples, 1, n - 1)
  <2>1. done \in Seq(SampleType) /\ Len(done) = n - 1 /\ done # <<>>
    <3>1. \A p \in 1 .. Len(samples) :
             SubSeq(samples, 1, p) \in Seq(SampleType) /\ Len(SubSeq(samples, 1, p)) = p
      BY <1>1
    <3>2. done \in Seq(SampleType) /\ Len(done) = n - 1
      BY <1>8, <3>1
    <3>3. n - 1 # 0
      BY <1>8
    <3>4. QED  BY <3>2, <3>3
  <2>2. Last(done) = samples[n - 1]
    BY <1>1, <1>8, <2>1 DEF Last
  <2>3. ~SameQuota(samples[n], samples[n - 1])
    <3>1. n \in DOMAIN samples \ {1}
      BY <1>1, <1>8
    <3>2. ~SameQuota(samples[n - 1], samples[n])
      BY <3>1 DEF InOrder, Differ
    <3>3. QED  BY <3>2 DEF SameQuota
  <2>4. samples[n].seq \in Nat /\ samples[n].seq > samples[n - 1].seq /\ samples[n].seq > 0
        /\ samples[n - 1].seq \in Nat
    BY <1>1, <1>3, <1>8 DEF InOrder, Increasing
  <2>5. ~(samples[n].seq = 0 \/ samples[n].seq <= samples[n - 1].seq)
    BY <2>4
  <2>6. SubSeq(samples, 1, n) = Append(done, samples[n])
    BY <1>4, <1>8
  <2>7. /\ like(n - 1).done = done /\ like(n - 1).previous = samples[n - 1].seq
        /\ like(n - 1).baseline = baseline
    OBVIOUS
  <2> HIDE DEF done
  <2>8. n \in 1 .. Len(samples)
    BY <1>1, <1>8
  <2>9. [samples[n] EXCEPT !.seq = samples[n].seq] = samples[n]
    BY <1>3, <2>8
  <2>10. QED  BY <2>2, <2>3, <2>5, <2>6, <2>7, <2>9 DEF NormalizeStep
<1>11. QED  BY <1>2, <1>7, <1>8, <1>9, <1>10

\* A normalised history is a fixed point: reading a file that a round has
\* written changes nothing.
LEMMA NormalizeSame ==
    ASSUME NEW samples, InOrder(samples), NEW baseline \in Nat
    PROVE  /\ Normalize(samples, baseline).samples = samples
           /\ baseline \in Sequences(samples) => Normalize(samples, baseline).baseline = baseline
<1>1. CASE samples = <<>>
  BY <1>1 DEF Normalize, Sequences
<1>2. CASE samples # <<>>
  <2>1. samples \in Seq(SampleType) /\ Len(samples) \in 1 .. Len(samples)
    BY <1>2 DEF InOrder
  <2>2. History(samples, baseline)[Len(samples)]
          = [previous |-> samples[Len(samples)].seq, baseline |-> baseline,
             done |-> SubSeq(samples, 1, Len(samples))]
    BY <2>1, HistorySame
  <2>3. SubSeq(samples, 1, Len(samples)) = samples
    BY <2>1
  <2>4. Normalize(samples, baseline) = Anchored(samples, baseline)
    <3> DEFINE acc == History(samples, baseline)[Len(samples)]
    <3>1. Normalize(samples, baseline) = Anchored(acc.done, acc.baseline)
      BY <1>2 DEF Normalize
    <3>2. acc.done = samples /\ acc.baseline = baseline
      BY <2>2, <2>3
    <3> HIDE DEF acc
    <3>3. QED  BY <3>1, <3>2
  <2>5. QED  BY <2>4 DEF Anchored
<1>3. QED  BY <1>1, <1>2

-----------------------------------------------------------------------------
(***************************************************************************)
(* What one result makes of a history that is in order.                    *)
(***************************************************************************)
HistorySound(samples, baseline) ==
    /\ InOrder(samples)
    /\ baseline \in Nat
    /\ samples # <<>> => baseline \in Sequences(samples)

\* The last sample.
LEMMA LastSample ==
    ASSUME NEW samples \in Seq(SampleType), samples # <<>>
    PROVE  /\ Len(samples) \in DOMAIN samples /\ Len(samples) \in Nat /\ Len(samples) > 0
           /\ Last(samples) = samples[Len(samples)] /\ Last(samples) \in SampleType
           /\ Last(samples).seq \in Nat
<1>1. Len(samples) \in DOMAIN samples /\ Len(samples) \in Nat /\ Len(samples) > 0
  OBVIOUS
<1>2. Last(samples) = samples[Len(samples)]
  BY DEF Last
<1>3. QED  BY <1>1, <1>2, SampleTyped

\* The newest samples of a history in order are in order.
LEMMA RetainedInOrder ==
    ASSUME NEW samples, InOrder(samples), samples # <<>>, NEW capacity \in Nat, capacity > 0
    PROVE  LET kept == Retained(samples, capacity) IN
           /\ InOrder(kept)
           /\ kept # <<>>
           /\ Len(kept) <= capacity
           /\ kept[Len(kept)] = samples[Len(samples)]
           /\ \A i \in 1 .. Len(kept) - 1 :
                \E j \in 1 .. Len(samples) - 1 : kept[i] = samples[j]
<1> DEFINE kept == Retained(samples, capacity)
           off == Len(samples) - capacity
<1>1. /\ samples \in Seq(SampleType) /\ Len(samples) \in Nat /\ Len(samples) > 0
      /\ DOMAIN samples = 1 .. Len(samples)
  BY DEF InOrder
<1>2. CASE Len(samples) > capacity
  <2>1. kept = SubSeq(samples, off + 1, Len(samples))
    BY <1>2 DEF Retained
  <2>2. off \in Nat /\ off > 0 /\ off + 1 \in 1 .. Len(samples) /\ off + capacity = Len(samples)
    BY <1>1, <1>2
  <2>3. /\ kept \in Seq(SampleType) /\ Len(kept) = capacity /\ DOMAIN kept = 1 .. capacity
        /\ \A i \in 1 .. capacity : kept[i] = samples[off + i]
    BY <1>1, <1>2, <2>1, <2>2
  <2> HIDE DEF kept, off
  <2>4. \A i \in 1 .. capacity : off + i \in DOMAIN samples \ {1}
    BY <1>1, <2>2
  <2>5. Increasing(kept)
    <3>1. \A i \in DOMAIN kept : kept[i].seq > 0
      BY <2>3, <2>4 DEF InOrder, Increasing
    <3>2. \A i, j \in DOMAIN kept : i < j => kept[i].seq < kept[j].seq
      <4> SUFFICES ASSUME NEW i \in DOMAIN kept, NEW j \in DOMAIN kept, i < j
                   PROVE  kept[i].seq < kept[j].seq
        OBVIOUS
      <4>1. off + i < off + j
        BY <2>2, <2>3
      <4>2. QED  BY <2>3, <2>4, <4>1 DEF InOrder, Increasing
    <3>3. QED  BY <3>1, <3>2 DEF Increasing
  <2>6. Differ(kept)
    <3> SUFFICES ASSUME NEW i \in DOMAIN kept \ {1} PROVE ~SameQuota(kept[i - 1], kept[i])
      BY DEF Differ
    <3>1. i \in 1 .. capacity /\ i - 1 \in 1 .. capacity /\ off + (i - 1) = (off + i) - 1
      BY <2>2, <2>3
    <3>2. ~SameQuota(samples[(off + i) - 1], samples[off + i])
      BY <2>4, <3>1 DEF InOrder, Differ
    <3>3. kept[i - 1] = samples[(off + i) - 1] /\ kept[i] = samples[off + i]
      BY <2>3, <3>1
    <3>4. QED  BY <3>2, <3>3
  <2>7. kept[Len(kept)] = samples[Len(samples)]
    BY <2>2, <2>3
  <2>8. \A i \in 1 .. Len(kept) - 1 : \E j \in 1 .. Len(samples) - 1 : kept[i] = samples[j]
    <3> SUFFICES ASSUME NEW i \in 1 .. Len(kept) - 1
                 PROVE  \E j \in 1 .. Len(samples) - 1 : kept[i] = samples[j]
      OBVIOUS
    <3>1. off + i \in 1 .. Len(samples) - 1 /\ i \in 1 .. capacity
      BY <2>2, <2>3
    <3>2. QED  BY <2>3, <3>1
  <2>9. kept # <<>> /\ Len(kept) <= capacity
    BY <2>3
  <2>10. QED  BY <2>3, <2>5, <2>6, <2>7, <2>8, <2>9 DEF InOrder, kept
<1>3. CASE ~(Len(samples) > capacity)
  <2>1. kept = samples
    BY <1>3 DEF Retained
  <2>2. Len(samples) <= capacity
    BY <1>1, <1>3
  <2>3. QED  BY <1>1, <2>1, <2>2
<1>4. QED  BY <1>2, <1>3

\* An estimate stays within its bounds.
LEMMA SmoothedInRange ==
    ASSUME NEW prev \in RateRange, NEW delta5h \in Int, delta5h > 0, NEW delta7d \in Int
    PROVE  Smoothed(prev, delta5h, delta7d) \in RateRange
<1> DEFINE rate == (10000 * delta7d) \div delta5h
<1>1. rate \in Int
  OBVIOUS
<1> HIDE DEF rate
<1>2. Clamped(rate) \in RateRange
  BY <1>1 DEF Clamped, RateRange, MinCycleBurnRate, MaxCycleBurnRate
<1> DEFINE clamped == Clamped(rate)
<1> HIDE DEF clamped
<1>3. clamped \in 800 .. 3000 /\ prev \in 800 .. 3000
  BY <1>2 DEF clamped, RateRange, MinCycleBurnRate, MaxCycleBurnRate
<1> DEFINE weighted == 3 * clamped + 7 * prev
<1>4. weighted \in Int /\ weighted >= 8000 /\ weighted <= 30000
  BY <1>3
<1> HIDE DEF weighted
<1> DEFINE tenth == weighted \div 10
<1>5. tenth \in Int /\ tenth >= 800 /\ tenth <= 3000
  BY <1>4
<1> HIDE DEF tenth
<1>6. tenth \in RateRange
  BY <1>5 DEF RateRange, MinCycleBurnRate, MaxCycleBurnRate
<1>7. QED  BY <1>6 DEF Smoothed, rate, clamped, weighted, tenth

\* The ways in which a result changes a history.
Grown(old, new, at, capacity) ==
    /\ new # <<>> /\ Len(new) <= capacity
    /\ new[Len(new)].round = NoRound /\ new[Len(new)].at = at
    /\ old # <<>> => new[Len(new)].seq > old[Len(old)].seq
    /\ \A i \in 1 .. Len(new) - 1 : new[i].round \in RoundsOf(old)

Grows(old, new, at, reset, capacity) ==
    \/ new = old
    \/ old # <<>> /\ new = Merge(old, at, reset)
    \/ Grown(old, new, at, capacity)

\* Sequence numbers are naturals.
LEMMA SequenceTyped ==
    ASSUME NEW samples \in Seq(SampleType), NEW n \in Sequences(samples)
    PROVE  n \in Nat
  BY SampleTyped DEF Sequences

\* The baseline sample is one of those kept.
LEMMA BaseSample ==
    ASSUME NEW kept \in Seq(SampleType), kept # <<>>, NEW baseline \in Nat
    PROVE  Base(kept, baseline) \in SampleType /\ Base(kept, baseline).seq \in Sequences(kept)
<1>1. 1 \in DOMAIN kept
  OBVIOUS
<1>2. \E k \in DOMAIN kept : Base(kept, baseline) = kept[k]
  <2>1. CASE baseline \in Sequences(kept)
    <3>1. \E k \in DOMAIN kept : kept[k].seq = baseline
      BY <2>1 DEF Sequences
    <3>2. (CHOOSE k \in DOMAIN kept : kept[k].seq = baseline) \in DOMAIN kept
      BY <3>1
    <3>3. QED  BY <2>1, <3>2 DEF Base
  <2>2. CASE baseline \notin Sequences(kept)
    BY <1>1, <2>2 DEF Base
  <2>3. QED  BY <2>1, <2>2
<1>3. QED  BY <1>2, SampleTyped DEF Sequences

\* A new sample moves the baseline to a sample that is kept, and learns a rate
\* within its bounds.
LEMMA ExtendedSound ==
    ASSUME NEW rate \in RateRange, NEW kept, InOrder(kept), kept # <<>>, NEW baseline \in Nat,
           NEW last \in SampleType
    PROVE  LET new == Extended(rate, kept, baseline, kept[Len(kept)], last) IN
           /\ new = Learned(new.rate, kept, new.baseline)
           /\ new.samples = kept
           /\ new.rate \in RateRange
           /\ new.baseline \in Sequences(kept)
<1> DEFINE current == kept[Len(kept)]
           base == Base(kept, baseline)
           new == Extended(rate, kept, baseline, current, last)
<1>1. kept \in Seq(SampleType)
  BY DEF InOrder
<1>2. current \in SampleType /\ current.seq \in Sequences(kept)
  BY <1>1, LastSample DEF Sequences
<1>3. base \in SampleType /\ base.seq \in Sequences(kept)
  BY <1>1, BaseSample
<1> HIDE DEF current, base
<1>4. \/ new = Learned(rate, kept, current.seq)
      \/ new = Estimated(rate, kept, base, current)
  BY DEF Extended, base
<1>5. \/ new = Learned(rate, kept, current.seq)
      \/ new = Learned(rate, kept, base.seq)
      \/ /\ ~(base.srem - current.srem < MinDelta)
         /\ new = Learned(Smoothed(rate, base.srem - current.srem, base.lrem - current.lrem), kept,
                          current.seq)
  BY <1>4 DEF Estimated
<1> HIDE DEF new
<1> DEFINE goal == /\ new = Learned(new.rate, kept, new.baseline)
                   /\ new.samples = kept
                   /\ new.rate \in RateRange
                   /\ new.baseline \in Sequences(kept)
<1>6. ASSUME NEW r \in RateRange, NEW n \in Sequences(kept), new = Learned(r, kept, n)
      PROVE  goal
  BY <1>6 DEF Learned
<1>7. ASSUME /\ ~(base.srem - current.srem < MinDelta)
             /\ new = Learned(Smoothed(rate, base.srem - current.srem, base.lrem - current.lrem), kept,
                              current.seq)
      PROVE  goal
  <2>1. base.srem \in Int /\ current.srem \in Int /\ base.lrem \in Int /\ current.lrem \in Int
    BY <1>2, <1>3 DEF SampleType
  <2>2. /\ base.srem - current.srem \in Int /\ base.lrem - current.lrem \in Int
        /\ base.srem - current.srem > 0
    BY <1>7, <2>1 DEF MinDelta
  <2>3. Smoothed(rate, base.srem - current.srem, base.lrem - current.lrem) \in RateRange
    BY <2>2, SmoothedInRange
  <2>4. QED  BY <1>2, <1>6, <1>7, <2>3
<1>8. goal
  BY <1>2, <1>3, <1>5, <1>6, <1>7
<1>9. QED  BY <1>8 DEF new, current

\* A result that joins a history in order leaves it sound, and longer only by
\* its own sample.
LEMMA JoinedSound ==
    ASSUME NEW rate \in RateRange, NEW old, HistorySound(old.samples, old.baseline),
           NEW current \in SampleType, current.round = NoRound,
           NEW capacity \in Nat, capacity > 0
    PROVE  LET new == Joined(rate, old, current, capacity) IN
           /\ new = Learned(new.rate, new.samples, new.baseline)
           /\ new.rate \in RateRange
           /\ HistorySound(new.samples, new.baseline)
           /\ Grows(old.samples, new.samples, current.at, current.sreset, capacity)
<1> DEFINE new == Joined(rate, old, current, capacity)
<1>1. /\ InOrder(old.samples) /\ old.samples \in Seq(SampleType) /\ old.baseline \in Nat
      /\ old.samples # <<>> => old.baseline \in Sequences(old.samples)
  BY DEF HistorySound, InOrder
<1>2. CASE old.samples = <<>>
  <2> DEFINE first == [current EXCEPT !.seq = 1]
  <2>1. /\ first \in SampleType /\ first.seq = 1 /\ first.round = NoRound /\ first.at = current.at
    BY DEF SampleType
  <2> HIDE DEF first
  <2>2. new = Learned(rate, <<first>>, 1)
    BY <1>2 DEF Joined, first
  <2>3. /\ <<first>> = Append(<<>>, first) /\ DOMAIN <<first>> = {1} /\ <<first>>[1] = first
        /\ Len(<<first>>) = 1 /\ <<first>> # <<>>
    OBVIOUS
  <2>4. InOrder(<<>>)
    BY DEF InOrder, Increasing, Differ
  <2>5. InOrder(<<first>>)
    <3>1. first.seq > 0 /\ \A i \in DOMAIN <<>> : <<>>[i].seq < first.seq
      BY <2>1
    <3>2. InOrder(Append(<<>>, first))
      BY <2>1, <2>4, <3>1, AppendedInOrder
    <3>3. QED  BY <2>3, <3>2
  <2>6. Sequences(<<first>>) = {1}
    BY <2>1, <2>3 DEF Sequences
  <2>7. Grown(old.samples, <<first>>, current.at, capacity)
    BY <1>2, <2>1, <2>3 DEF Grown
  <2>8. new.rate = rate /\ new.samples = <<first>> /\ new.baseline = 1
    BY <2>2 DEF Learned
  <2>9. HistorySound(<<first>>, 1)
    BY <2>5, <2>6 DEF HistorySound
  <2> HIDE DEF new
  <2>10. QED  BY <2>2, <2>7, <2>8, <2>9 DEF Grows, new
<1>3. CASE old.samples # <<>> /\ SameQuota(current, Last(old.samples))
  <2>1. new = Learned(rate, Merge(old.samples, current.at, current.sreset), old.baseline)
    BY <1>3 DEF Joined, Merge
  <2>2. current.at \in Nat /\ current.sreset \in Nat
    BY DEF SampleType
  <2>3. HistorySound(Merge(old.samples, current.at, current.sreset), old.baseline)
    BY <1>1, <1>3, <2>2, MergedInOrder DEF HistorySound
  <2>4. /\ new.rate = rate /\ new.baseline = old.baseline
        /\ new.samples = Merge(old.samples, current.at, current.sreset)
    BY <2>1 DEF Learned
  <2> HIDE DEF new
  <2>5. QED  BY <1>3, <2>1, <2>3, <2>4 DEF Grows, new
<1>4. CASE old.samples # <<>> /\ ~SameQuota(current, Last(old.samples))
  <2> DEFINE last == Last(old.samples)
             next == [current EXCEPT !.seq = last.seq + 1]
             longer == Append(old.samples, next)
             kept == Retained(longer, capacity)
  <2>1. /\ last \in SampleType /\ last.seq \in Nat /\ last = old.samples[Len(old.samples)]
        /\ Len(old.samples) \in Nat /\ DOMAIN old.samples = 1 .. Len(old.samples)
        /\ Len(old.samples) \in DOMAIN old.samples
    BY <1>1, <1>4, LastSample
  <2> HIDE DEF last
  <2> DEFINE number == last.seq + 1
  <2>2. number \in Nat /\ number > 0 /\ number > last.seq
    BY <2>1
  <2> HIDE DEF number
  <2>3. /\ next \in SampleType /\ next.seq = number /\ next.round = NoRound
        /\ next.at = current.at /\ next.srem = current.srem /\ next.lrem = current.lrem
    <3>1. next = [current EXCEPT !.seq = number]
      BY DEF number
    <3> HIDE DEF next
    <3>2. QED  BY <2>2, <3>1 DEF SampleType
  <2> HIDE DEF next
  <2>4. \A i \in DOMAIN old.samples : old.samples[i].seq < next.seq
    <3> SUFFICES ASSUME NEW i \in DOMAIN old.samples PROVE old.samples[i].seq < next.seq
      OBVIOUS
    <3>1. old.samples[i].seq \in Nat
      BY <1>1, SampleTyped
    <3>2. i # Len(old.samples) => old.samples[i].seq < old.samples[Len(old.samples)].seq
      BY <1>1, <2>1 DEF InOrder, Increasing
    <3>3. old.samples[i].seq <= last.seq
      BY <2>1, <3>1, <3>2
    <3>4. QED  BY <2>1, <2>2, <2>3, <3>1, <3>3
  <2>5. ~SameQuota(old.samples[Len(old.samples)], next)
    BY <1>4, <2>1, <2>3 DEF SameQuota, last
  <2>6. InOrder(longer)
    BY <1>1, <2>1, <2>2, <2>3, <2>4, <2>5, AppendedInOrder
  <2>7. /\ Len(longer) = Len(old.samples) + 1 /\ longer[Len(longer)] = next /\ longer # <<>>
        /\ \A j \in 1 .. Len(longer) - 1 : longer[j] = old.samples[j]
    BY <1>1, <2>1, <2>3
  <2> HIDE DEF longer
  <2>8. /\ InOrder(kept) /\ kept # <<>> /\ Len(kept) <= capacity /\ kept[Len(kept)] = next
        /\ \A i \in 1 .. Len(kept) - 1 :
             \E j \in 1 .. Len(longer) - 1 : kept[i] = longer[j]
    BY <2>6, <2>7, RetainedInOrder
  <2> HIDE DEF kept
  <2>9. new = Extended(rate, kept, old.baseline, kept[Len(kept)], last)
    BY <1>4, <2>8 DEF Joined, kept, longer, next, number, last
  <2>10. /\ new = Learned(new.rate, kept, new.baseline)
        /\ new.samples = kept
        /\ new.rate \in RateRange
        /\ new.baseline \in Sequences(kept)
    BY <1>1, <2>1, <2>8, <2>9, ExtendedSound
  <2>11. HistorySound(kept, new.baseline)
    BY <2>8, <2>10, SequenceTyped DEF HistorySound, InOrder
  <2>12. \A i \in 1 .. Len(kept) - 1 : kept[i].round \in RoundsOf(old.samples)
    <3> SUFFICES ASSUME NEW i \in 1 .. Len(kept) - 1
                 PROVE  kept[i].round \in RoundsOf(old.samples)
      OBVIOUS
    <3>1. PICK j \in 1 .. Len(longer) - 1 : kept[i] = longer[j]
      BY <2>8
    <3>2. kept[i] = old.samples[j] /\ j \in DOMAIN old.samples
      BY <2>1, <2>7, <3>1
    <3>3. QED  BY <3>2 DEF RoundsOf
  <2>13. Grown(old.samples, kept, current.at, capacity)
    <3>1. kept[Len(kept)].seq > old.samples[Len(old.samples)].seq
      BY <2>1, <2>2, <2>3, <2>8
    <3>2. kept[Len(kept)].round = NoRound /\ kept[Len(kept)].at = current.at
      BY <2>3, <2>8
    <3>3. QED  BY <2>8, <2>12, <3>1, <3>2 DEF Grown
  <2> HIDE DEF new
  <2>14. QED  BY <2>10, <2>11, <2>13 DEF Grows, new
<1>5. QED  BY <1>2, <1>3, <1>4

Measurable(result) ==
    /\ result.at \in Nat /\ result.reset \in Nat /\ result.sreset \in Nat /\ result.lreset \in Nat
    /\ result.rem \in Int /\ result.srem \in Int /\ result.lrem \in Int

\* A capacity out of range becomes the default.
LEMMA CapacityPositive ==
    ASSUME NEW configured
    PROVE  Capacity(configured) \in Nat /\ Capacity(configured) > 0
  BY DEF Capacity

\* UpdateSamplesAndCycleBurnRate keeps any history sound.
LEMMA UpdateSound ==
    ASSUME NEW entry \in EntryType, HistorySound(entry.samples, entry.baseline),
           NEW result, Measurable(result), NEW configured
    PROVE  LET new == UpdateSamples(entry, result, configured) IN
           /\ new = Learned(new.rate, new.samples, new.baseline)
           /\ new.rate \in RateRange
           /\ HistorySound(new.samples, new.baseline)
           /\ Grows(entry.samples, new.samples, result.at, result.sreset, Capacity(configured))
<1> DEFINE new == UpdateSamples(entry, result, configured)
           old == Normalize(entry.samples, entry.baseline)
           rate == IF entry.rate <= 0 THEN DefaultCycleBurnRate ELSE entry.rate
           cap == Capacity(configured)
           current == Sample(0, result.at, result.sreset, result.srem, result.lrem)
<1>1. rate \in RateRange
  <2>1. entry.rate \in RateRange \cup {0}
    BY DEF EntryType
  <2>2. \A r \in RateRange \cup {0} :
           (IF r <= 0 THEN DefaultCycleBurnRate ELSE r) \in RateRange
    BY DEF RateRange, MinCycleBurnRate, MaxCycleBurnRate, DefaultCycleBurnRate
  <2>3. QED  BY <2>1, <2>2
<1>2. cap \in Nat /\ cap > 0
  BY CapacityPositive
<1>3. old.samples = entry.samples /\ HistorySound(old.samples, old.baseline)
  <2>1. InOrder(entry.samples) /\ entry.samples \in Seq(SampleType) /\ entry.baseline \in Nat
    BY DEF HistorySound, InOrder
  <2>2. old.samples = entry.samples /\ old.baseline \in Nat
    BY <2>1, NormalizeSame, NormalizeInOrder
  <2>3. old.samples # <<>> => old.baseline \in Sequences(old.samples)
    BY <2>1, NormalizeInOrder
  <2>4. QED  BY <2>1, <2>2, <2>3 DEF HistorySound
<1>4. /\ current \in SampleType /\ current.round = NoRound
      /\ current.at = result.at /\ current.sreset = result.sreset
  BY DEF Sample, SampleType, Measurable, NoRound
<1> HIDE DEF old, rate, cap, current
<1>5. \/ new = Learned(rate, old.samples, old.baseline)
      \/ new = Joined(rate, old, current, cap)
  BY DEF UpdateSamples, Updated, old, rate, cap, current
<1> HIDE DEF new
<1> DEFINE goal == /\ new = Learned(new.rate, new.samples, new.baseline)
                   /\ new.rate \in RateRange
                   /\ HistorySound(new.samples, new.baseline)
                   /\ Grows(entry.samples, new.samples, result.at, result.sreset, cap)
<1>6. ASSUME new = Learned(rate, old.samples, old.baseline) PROVE goal
  <2>1. new.rate = rate /\ new.samples = old.samples /\ new.baseline = old.baseline
    BY <1>6 DEF Learned
  <2>2. QED  BY <1>1, <1>3, <1>6, <2>1 DEF Grows
<1>7. ASSUME new = Joined(rate, old, current, cap) PROVE goal
  BY <1>1, <1>2, <1>3, <1>4, <1>7, JoinedSound
<1>8. goal
  BY <1>5, <1>6, <1>7
<1>9. QED  BY <1>8 DEF new, cap

-----------------------------------------------------------------------------
(***************************************************************************)
(* The mark of a round.                                                    *)
(***************************************************************************)
Mark(samples, round) == [samples EXCEPT ![Len(samples)].round = round]

\* Marking a sample changes only its round.
LEMMA MarkSound ==
    ASSUME NEW samples, InOrder(samples), samples # <<>>, NEW round \in Nat
    PROVE  LET marked == Mark(samples, round) IN
           /\ InOrder(marked) /\ marked # <<>>
           /\ Len(marked) = Len(samples) /\ DOMAIN marked = DOMAIN samples
           /\ Sequences(marked) = Sequences(samples)
           /\ marked[Len(samples)].round = round
           /\ marked[Len(samples)].at = samples[Len(samples)].at
           /\ marked[Len(samples)].seq = samples[Len(samples)].seq
           /\ \A i \in DOMAIN samples : i # Len(samples) => marked[i] = samples[i]
<1> DEFINE last == [samples[Len(samples)] EXCEPT !.round = round]
           marked == [samples EXCEPT ![Len(samples)] = last]
<1>1. /\ samples \in Seq(SampleType) /\ Len(samples) \in Nat /\ DOMAIN samples = 1 .. Len(samples)
      /\ Len(samples) \in DOMAIN samples /\ samples[Len(samples)] \in SampleType
  BY LastSample, SampleTyped DEF InOrder
<1>2. /\ last \in SampleType /\ last.round = round
      /\ last.at = samples[Len(samples)].at /\ last.seq = samples[Len(samples)].seq
      /\ last.srem = samples[Len(samples)].srem /\ last.lrem = samples[Len(samples)].lrem
  BY <1>1 DEF SampleType
<1>3. Mark(samples, round) = marked
  BY <1>1 DEF Mark
<1> HIDE DEF last
<1>4. /\ marked \in Seq(SampleType) /\ Len(marked) = Len(samples)
      /\ DOMAIN marked = DOMAIN samples /\ marked # <<>>
      /\ \A i \in DOMAIN samples : marked[i] = IF i = Len(samples) THEN last ELSE samples[i]
  BY <1>1, <1>2
<1> HIDE DEF marked
<1>5. \A i \in DOMAIN samples :
        /\ marked[i].seq = samples[i].seq /\ marked[i].srem = samples[i].srem
        /\ marked[i].lrem = samples[i].lrem
  BY <1>2, <1>4
<1>6. Increasing(marked)
  BY <1>4, <1>5 DEF InOrder, Increasing
<1>7. Differ(marked)
  <2> SUFFICES ASSUME NEW i \in DOMAIN marked \ {1} PROVE ~SameQuota(marked[i - 1], marked[i])
    BY DEF Differ
  <2>1. i \in DOMAIN samples \ {1} /\ i - 1 \in DOMAIN samples
    BY <1>1, <1>4
  <2>2. ~SameQuota(samples[i - 1], samples[i])
    BY <2>1 DEF InOrder, Differ
  <2>3. QED  BY <1>5, <2>1, <2>2 DEF SameQuota
<1>8. Sequences(marked) = Sequences(samples)
  BY <1>4, <1>5 DEF Sequences
<1>9. /\ marked[Len(samples)].round = round
      /\ marked[Len(samples)].at = samples[Len(samples)].at
      /\ marked[Len(samples)].seq = samples[Len(samples)].seq
  BY <1>1, <1>2, <1>4
<1>10. QED  BY <1>3, <1>4, <1>6, <1>7, <1>8, <1>9 DEF InOrder

\* What a round leaves in a history: the newest sample may carry its mark, the
\* others carry older ones, and a history that got longer keeps the capacity.
Left(before, after, at, round, capacity) ==
    /\ before # <<>> =>
         after # <<>> /\ after[Len(after)].seq >= before[Len(before)].seq
    /\ \A i \in DOMAIN after :
         \/ after[i].round \in RoundsOf(before)
         \/ i = Len(after) /\ after[i].round = round /\ after[i].at = at
    /\ \/ Len(after) <= capacity
       \/ Len(after) = Len(before) /\ RoundsOf(after) = RoundsOf(before)

\* Marking keeps the rate and the baseline.
LEMMA LearnedMarked ==
    ASSUME NEW rate, NEW samples, NEW baseline, NEW round
    PROVE  [Learned(rate, samples, baseline) EXCEPT !.samples[Len(samples)].round = round].samples
             = Mark(samples, round)
  BY DEF Learned, Mark

\* A round marks a sample only if it appended one.
LEMMA MarkedSound ==
    ASSUME NEW before, InOrder(before), NEW after, NEW round \in Nat, NEW at \in Nat,
           NEW reset \in Nat, NEW capacity \in Nat,
           after = Learned(after.rate, after.samples, after.baseline),
           HistorySound(after.samples, after.baseline),
           Grows(before, after.samples, at, reset, capacity)
    PROVE  LET marked == Marked(before, after, round) IN
           /\ marked.rate = after.rate
           /\ marked.baseline = after.baseline
           /\ HistorySound(marked.samples, after.baseline)
           /\ Left(before, marked.samples, at, round, capacity)
<1> DEFINE marked == Marked(before, after, round)
           samples == after.samples
           marks == after.samples # <<>> /\ (before = <<>> \/ Last(after.samples).seq > Last(before).seq)
           goal == /\ marked.rate = after.rate
                   /\ marked.baseline = after.baseline
                   /\ HistorySound(marked.samples, after.baseline)
                   /\ Left(before, marked.samples, at, round, capacity)
<1>1. /\ before \in Seq(SampleType) /\ InOrder(samples) /\ samples \in Seq(SampleType)
      /\ DOMAIN before = 1 .. Len(before) /\ Len(before) \in Nat
      /\ DOMAIN samples = 1 .. Len(samples) /\ Len(samples) \in Nat
  BY DEF HistorySound, InOrder
<1>2. ASSUME samples = before \/ (before # <<>> /\ samples = Merge(before, at, reset))
      PROVE  goal
  <2>1. /\ Len(samples) = Len(before) /\ RoundsOf(samples) = RoundsOf(before)
        /\ before # <<>> => samples # <<>> /\ samples[Len(samples)].seq = before[Len(before)].seq
        /\ before = <<>> => samples = <<>>
    <3>1. CASE samples = before
      BY <3>1
    <3>2. CASE before # <<>> /\ samples = Merge(before, at, reset)
      <4>1. Len(before) \in DOMAIN before /\ before # <<>>
        BY <1>1, <3>2
      <4> DEFINE merged == Merge(before, at, reset)
      <4>2. RoundsOf(merged) = RoundsOf(before)
        BY <4>1, MergedInOrder
      <4>3. /\ Len(merged) = Len(before) /\ DOMAIN merged = DOMAIN before
            /\ merged[Len(before)].seq = before[Len(before)].seq
        BY <1>1, <4>1, Merged
      <4> HIDE DEF merged
      <4>4. samples = merged
        BY <3>2 DEF merged
      <4> HIDE DEF samples
      <4>5. samples # <<>>
        BY <4>1, <4>3, <4>4
      <4>6. QED  BY <4>1, <4>2, <4>3, <4>4, <4>5
    <3>3. QED  BY <1>2, <3>1, <3>2
  <2>2. ~marks
    <3>1. CASE before = <<>>
      BY <2>1, <3>1
    <3>2. CASE before # <<>>
      <4>1. before[Len(before)].seq \in Nat /\ Last(before) = before[Len(before)]
        BY <1>1, <3>2, LastSample
      <4>2. Last(samples) = samples[Len(samples)]
        BY DEF Last
      <4>3. QED  BY <2>1, <3>2, <4>1, <4>2
    <3>3. QED  BY <3>1, <3>2
  <2>3. marked = after
    BY <2>2 DEF Marked
  <2>4. before # <<>> => samples[Len(samples)].seq >= before[Len(before)].seq
    BY <1>1, <2>1, LastSample
  <2>5. \A i \in DOMAIN samples : samples[i].round \in RoundsOf(before)
    BY <2>1 DEF RoundsOf
  <2>6. Left(before, samples, at, round, capacity)
    BY <2>1, <2>4, <2>5 DEF Left
  <2>7. QED  BY <2>3, <2>6
<1>3. ASSUME Grown(before, samples, at, capacity)
      PROVE  goal
  <2>1. samples # <<>> /\ Len(samples) \in DOMAIN samples /\ Last(samples) = samples[Len(samples)]
    BY <1>1, <1>3, LastSample DEF Grown
  <2>2. marks
    <3>1. Last(before) = before[Len(before)]
      BY DEF Last
    <3>2. QED  BY <1>3, <2>1, <3>1 DEF Grown
  <2>3. marked = [after EXCEPT !.samples[Len(samples)].round = round]
    BY <2>2 DEF Marked
  <2>4. marked.rate = after.rate /\ marked.baseline = after.baseline
    BY <2>3 DEF Learned
  <2>5. marked.samples = Mark(samples, round)
    <3>1. [Learned(after.rate, samples, after.baseline)
              EXCEPT !.samples[Len(samples)].round = round].samples = Mark(samples, round)
      BY LearnedMarked
    <3>2. QED  BY <2>3, <3>1
  <2> DEFINE new == Mark(samples, round)
  <2>6. /\ InOrder(new) /\ new # <<>>
        /\ Len(new) = Len(samples) /\ DOMAIN new = DOMAIN samples
        /\ Sequences(new) = Sequences(samples)
        /\ new[Len(samples)].round = round
        /\ new[Len(samples)].at = samples[Len(samples)].at
        /\ new[Len(samples)].seq = samples[Len(samples)].seq
        /\ \A i \in DOMAIN samples : i # Len(samples) => new[i] = samples[i]
    BY <1>1, <2>1, MarkSound
  <2> HIDE DEF new, samples, marked
  <2>7. HistorySound(new, after.baseline)
    BY <2>1, <2>6 DEF HistorySound, samples
  <2>8. before # <<>> => new # <<>> /\ new[Len(new)].seq >= before[Len(before)].seq
    <3> SUFFICES ASSUME before # <<>> PROVE new[Len(new)].seq >= before[Len(before)].seq
      BY <2>6
    <3>1. before[Len(before)].seq \in Nat /\ samples[Len(samples)].seq \in Nat
      BY <1>1, <2>1, LastSample
    <3>2. samples[Len(samples)].seq > before[Len(before)].seq
      BY <1>3 DEF Grown
    <3>3. QED  BY <2>6, <3>1, <3>2
  <2>9. \A i \in DOMAIN new :
          \/ new[i].round \in RoundsOf(before)
          \/ i = Len(new) /\ new[i].round = round /\ new[i].at = at
    <3> SUFFICES ASSUME NEW i \in DOMAIN samples, i # Len(samples)
                 PROVE  new[i].round \in RoundsOf(before)
      BY <1>3, <2>6 DEF Grown
    <3>1. i \in 1 .. Len(samples) - 1
      BY <1>1
    <3>2. QED  BY <1>3, <2>6, <3>1 DEF Grown
  <2>10. Left(before, new, at, round, capacity)
    BY <1>3, <2>6, <2>8, <2>9 DEF Left, Grown
  <2>11. QED  BY <2>4, <2>5, <2>7, <2>10 DEF new
<1>4. goal
  BY <1>2, <1>3 DEF Grows
<1>5. QED  BY <1>4

-----------------------------------------------------------------------------
(***************************************************************************)
(* What a result makes of an entry of the cache.                           *)
(***************************************************************************)
EntrySound(entry, configured) ==
    /\ entry \in EntryType
    /\ HistorySound(entry.samples, entry.baseline)
    /\ (\E i \in DOMAIN entry.samples : entry.samples[i].round # NoRound)
         => Len(entry.samples) <= Capacity(configured)

SameKnowledge(old, new) ==
    /\ Measured(new) = Measured(old)
    /\ new.rate = old.rate /\ new.samples = old.samples /\ new.baseline = old.baseline

\* A failed probe changes nothing that was learned.
LEMMA FailureSound ==
    ASSUME NEW entry, NEW configured, EntrySound(entry, configured)
    PROVE  /\ EntrySound(Failure(entry), configured)
           /\ Failure(entry).failed
           /\ SameKnowledge(entry, Failure(entry))
<1>1. entry \in EntryType
  BY DEF EntrySound
<1>2. /\ Failure(entry) \in EntryType /\ Failure(entry).failed
      /\ Failure(entry).rate = entry.rate /\ Failure(entry).samples = entry.samples
      /\ Failure(entry).baseline = entry.baseline
  BY <1>1 DEF Failure, EntryType
<1>3. \A m \in Measures : Failure(entry)[m] = entry[m]
  BY <1>1 DEF Failure, EntryType, Measures
<1>4. Measured(Failure(entry)) = Measured(entry)
  BY <1>3 DEF Measured
<1>5. QED  BY <1>2, <1>4 DEF EntrySound, SameKnowledge

\* A probe that succeeds leaves the entry sound, with the time of the round.
LEMMA SuccessSound ==
    ASSUME NEW entry, NEW configured, EntrySound(entry, configured),
           NEW result, Measurable(result), NEW round \in Nat
    PROVE  LET new == Success(entry, result, configured, round) IN
           /\ EntrySound(new, configured)
           /\ new.at = result.at
           /\ new.rate \in RateRange
           /\ Left(entry.samples, new.samples, result.at, round, Capacity(configured))
<1> DEFINE cap == Capacity(configured)
           learned == UpdateSamples(entry, result, configured)
           marked == Marked(entry.samples, learned, round)
           new == Success(entry, result, configured, round)
<1>1. /\ entry \in EntryType /\ HistorySound(entry.samples, entry.baseline)
      /\ InOrder(entry.samples) /\ entry.samples \in Seq(SampleType)
      /\ Len(entry.samples) \in Nat
  BY DEF EntrySound, HistorySound, InOrder
<1>2. cap \in Nat /\ result.at \in Nat /\ result.sreset \in Nat
  BY CapacityPositive DEF Measurable
<1> HIDE DEF cap
<1>3. /\ learned = Learned(learned.rate, learned.samples, learned.baseline)
      /\ learned.rate \in RateRange
      /\ HistorySound(learned.samples, learned.baseline)
      /\ Grows(entry.samples, learned.samples, result.at, result.sreset, cap)
  BY <1>1, UpdateSound DEF cap
<1> HIDE DEF learned
<1>4. /\ marked.rate = learned.rate /\ marked.baseline = learned.baseline
      /\ HistorySound(marked.samples, learned.baseline)
      /\ Left(entry.samples, marked.samples, result.at, round, cap)
  BY <1>1, <1>2, <1>3, MarkedSound
<1> HIDE DEF marked
<1>5. /\ new.at = result.at /\ new.reset = result.reset /\ new.rem = result.rem
      /\ new.sreset = result.sreset /\ new.srem = result.srem
      /\ new.lreset = result.lreset /\ new.lrem = result.lrem /\ new.failed = FALSE
      /\ new.rate = marked.rate /\ new.samples = marked.samples
      /\ new.baseline = marked.baseline
  BY DEF Success, marked, learned
<1>6. new \in EntryType
  <2>1. /\ marked.rate \in RateRange \cup {0} /\ marked.samples \in Seq(SampleType)
        /\ marked.baseline \in Nat
    BY <1>3, <1>4 DEF HistorySound, InOrder
  <2>2. new = [at |-> result.at, reset |-> result.reset, rem |-> result.rem,
               sreset |-> result.sreset, srem |-> result.srem,
               lreset |-> result.lreset, lrem |-> result.lrem, failed |-> FALSE,
               rate |-> marked.rate, samples |-> marked.samples, baseline |-> marked.baseline]
    BY DEF Success, marked, learned
  <2>3. QED  BY <2>1, <2>2 DEF EntryType, Measurable
<1> HIDE DEF new
<1>7. (\E i \in DOMAIN new.samples : new.samples[i].round # NoRound) => Len(new.samples) <= cap
  <2> SUFFICES ASSUME ~(Len(new.samples) <= cap),
                      NEW i \in DOMAIN new.samples, new.samples[i].round # NoRound
               PROVE  FALSE
    OBVIOUS
  <2>1. /\ Len(new.samples) = Len(entry.samples)
        /\ RoundsOf(new.samples) = RoundsOf(entry.samples)
    BY <1>4, <1>5 DEF Left
  <2>2. new.samples[i].round \in RoundsOf(entry.samples)
    BY <2>1 DEF RoundsOf
  <2>3. \E j \in DOMAIN entry.samples : entry.samples[j].round # NoRound
    BY <2>2 DEF RoundsOf
  <2>4. Len(entry.samples) <= cap
    BY <2>3 DEF EntrySound, cap
  <2>5. QED  BY <2>1, <2>4
<1>8. EntrySound(new, configured)
  BY <1>4, <1>5, <1>6, <1>7 DEF EntrySound, cap
<1>9. QED  BY <1>3, <1>4, <1>5, <1>8 DEF new, cap

-----------------------------------------------------------------------------
(***************************************************************************)
(* What an answer is parsed to.                                            *)
(***************************************************************************)
LEMMA BoundedNaturals ==
    ASSUME NEW S \in SUBSET Nat, IsFiniteSet(S)
    PROVE  \E b \in Nat : \A n \in S : n <= b
<1> DEFINE sizes == {n \in Nat : \E T \in SUBSET Nat :
                        /\ IsFiniteSet(T) /\ Cardinality(T) = n
                        /\ ~ \E b \in Nat : \A m \in T : m <= b}
<1> SUFFICES ASSUME sizes # {} PROVE FALSE
  BY FS_CardinalityType
<1>1. PICK n \in sizes : \A m \in sizes : n <= m
  BY LeastNatural
<1>2. PICK T \in SUBSET Nat : /\ IsFiniteSet(T) /\ Cardinality(T) = n
                              /\ ~ \E b \in Nat : \A m \in T : m <= b
  BY <1>1
<1>3. PICK x \in T : TRUE
  <2>1. T = {} => \A m \in T : m <= 0
    OBVIOUS
  <2>2. QED  BY <1>2, <2>1
<1> DEFINE rest == T \ {x}
<1>4. IsFiniteSet(rest) /\ Cardinality(rest) = n - 1 /\ n - 1 \in Nat /\ rest \in SUBSET Nat
  <2>1. IsFiniteSet(rest) /\ Cardinality(rest) = Cardinality(T) - 1
    BY <1>2, <1>3, FS_RemoveElement
  <2>2. Cardinality(rest) \in Nat
    BY <2>1, FS_CardinalityType
  <2>3. QED  BY <1>2, <2>1, <2>2
<1>5. n - 1 \notin sizes
  <2>1. n \in Nat /\ ~(n <= n - 1)
    OBVIOUS
  <2> HIDE DEF sizes
  <2>2. QED  BY <1>1, <2>1
<1>6. PICK b \in Nat : \A m \in rest : m <= b
  BY <1>4, <1>5
<1>7. x \in Nat /\ \A m \in T : m \in Nat /\ (m <= b \/ m = x)
  BY <1>3, <1>6
<1>8. CASE x <= b
  BY <1>2, <1>7, <1>8
<1>9. CASE ~(x <= b)
  <2>1. \A m \in T : m <= x
    BY <1>6, <1>7, <1>9
  <2>2. QED  BY <1>2, <1>7, <2>1
<1>10. QED  BY <1>8, <1>9

\* The image of a finite set under a function is finite.
LEMMA FiniteImage ==
    ASSUME NEW S, IsFiniteSet(S), NEW f, f = [x \in S |-> f[x]]
    PROVE  IsFiniteSet({f[x] : x \in S})
<1> DEFINE image == {f[x] : x \in S}
<1>1. f \in [S -> image]
  OBVIOUS
<1>2. \A y \in image : \E x \in S : f[x] = y
  OBVIOUS
<1> HIDE DEF image
<1>3. f \in Surjection(S, image)
  BY <1>1, <1>2 DEF Surjection
<1>4. QED  BY <1>3, FS_Surjection DEF image

\* A finite set of naturals has a greatest element.
LEMMA GreatestNatural ==
    ASSUME NEW S \in SUBSET Nat, IsFiniteSet(S), S # {}
    PROVE  \E n \in S : \A m \in S : m <= n
<1>1. PICK b \in Nat : \A n \in S : n <= b
  BY BoundedNaturals
<1> DEFINE below == {b - n : n \in S}
<1>2. below \in SUBSET Nat /\ below # {}
  <2>1. \A n \in S : b - n \in Nat
    BY <1>1
  <2>2. QED  BY <2>1
<1>3. PICK d \in below : \A e \in below : d <= e
  BY <1>2, LeastNatural
<1>4. PICK n \in S : d = b - n
  BY <1>3
<1>5. \A m \in S : m <= n
  <2> SUFFICES ASSUME NEW m \in S PROVE m <= n
    OBVIOUS
  <2>1. b - m \in below
    OBVIOUS
  <2>2. b - n <= b - m
    BY <1>3, <1>4, <2>1
  <2>3. QED  BY <1>1, <1>4, <2>2
<1>6. QED  BY <1>4, <1>5

WindowType == [kind : {"weekly", "five_hour", "unknown"}, reset : Nat, remaining : Nat]

\* Finitely many windows are read from a report.
LEMMA WindowsTyped ==
    ASSUME NEW raw, ReportType(raw)
    PROVE  Windows(raw) \in SUBSET WindowType /\ IsFiniteSet(Windows(raw))
<1> DEFINE read == {v \in raw : v.reset # Zero /\ v.raw # Missing}
<1>1. IsFiniteSet(read)
  BY FS_Subset DEF ReportType
<1>2. IsFiniteSet(Windows(raw))
  <2> DEFINE f == [w \in read |-> [kind |-> ClassifyWindow(w.name), reset |-> w.reset,
                                   remaining |-> RemainingPercent(w.raw)]]
  <2>1. Windows(raw) = {f[w] : w \in read}
    BY DEF Windows
  <2>2. f = [w \in read |-> f[w]]
    OBVIOUS
  <2> HIDE DEF f, read
  <2>3. QED  BY <1>1, <2>1, <2>2, FiniteImage
<1>3. ASSUME NEW w \in raw
      PROVE  /\ w.reset \in Nat /\ RemainingPercent(w.raw) \in Nat
             /\ ClassifyWindow(w.name) \in {"weekly", "five_hour", "unknown"}
  <2>1. w.reset \in Nat /\ w.raw \in Int
    BY DEF ReportType
  <2>2. RemainingPercent(w.raw) \in Nat
    BY <2>1 DEF RemainingPercent
  <2>3. QED  BY <2>1, <2>2 DEF ClassifyWindow
<1>4. Windows(raw) \in SUBSET WindowType
  BY <1>3 DEF Windows, WindowType
<1>5. QED  BY <1>2, <1>4

\* An answer of the instances lists finitely many windows for a group.
AnswerType(answer) ==
    \A g \in Groups : ReportType(answer.named[g].windows \cup answer.loose[g])

\* Either list of windows of a group is finite.
LEMMA CollectedTyped ==
    ASSUME NEW answer, AnswerType(answer), NEW g \in Groups
    PROVE  /\ CollectGroupWindows(answer, g) \in SUBSET WindowType
           /\ IsFiniteSet(CollectGroupWindows(answer, g))
<1> DEFINE raw == IF answer.named[g].listed THEN answer.named[g].windows ELSE answer.loose[g]
           all == answer.named[g].windows \cup answer.loose[g]
<1>1. ReportType(all) /\ raw \subseteq all
  BY DEF AnswerType
<1>2. IsFiniteSet(raw)
  BY <1>1, FS_Subset DEF ReportType
<1>3. ReportType(raw)
  BY <1>1, <1>2 DEF ReportType
<1>4. QED  BY <1>3, WindowsTyped DEF CollectGroupWindows

\* The first window of a kind is the most exhausted one: the choice is always
\* defined.
LEMMA FirstWindowIs ==
    ASSUME NEW windows \in SUBSET WindowType, IsFiniteSet(windows), NEW kind,
           OfKind(windows, kind) # {}
    PROVE  /\ FirstWindow(windows, kind) \in OfKind(windows, kind)
           /\ \A v \in OfKind(windows, kind) :
                \/ FirstWindow(windows, kind).remaining < v.remaining
                \/ /\ FirstWindow(windows, kind).remaining = v.remaining
                   /\ FirstWindow(windows, kind).reset >= v.reset
<1> DEFINE some == OfKind(windows, kind)
           amounts == {w.remaining : w \in some}
<1>1. some \in SUBSET WindowType /\ IsFiniteSet(some)
  BY FS_Subset DEF OfKind
<1> HIDE DEF some
<1>2. \A w \in some : w.remaining \in Nat /\ w.reset \in Nat
  BY <1>1 DEF WindowType
<1>3. amounts \in SUBSET Nat /\ amounts # {}
  BY <1>2 DEF some
<1>4. PICK least \in amounts : \A n \in amounts : least <= n
  BY <1>3, LeastNatural
<1> DEFINE lowest == {w \in some : w.remaining = least}
           resets == {w.reset : w \in lowest}
<1>5. IsFiniteSet(lowest)
  BY <1>1, FS_Subset
<1>6. resets \in SUBSET Nat /\ resets # {} /\ IsFiniteSet(resets)
  <2>1. resets \in SUBSET Nat /\ resets # {}
    BY <1>2, <1>4
  <2> DEFINE f == [w \in lowest |-> w.reset]
  <2>2. resets = {f[w] : w \in lowest} /\ f = [w \in lowest |-> f[w]]
    OBVIOUS
  <2> HIDE DEF f, lowest
  <2>3. IsFiniteSet({f[w] : w \in lowest})
    BY <1>5, <2>2, FiniteImage
  <2>4. IsFiniteSet(resets)
    BY <2>2, <2>3
  <2>5. QED  BY <2>1, <2>4
<1>7. PICK latest \in resets : \A t \in resets : t <= latest
  BY <1>6, GreatestNatural
<1>8. PICK w \in some : w.remaining = least /\ w.reset = latest
  BY <1>7
<1>9. \A v \in some : w.remaining < v.remaining \/ (w.remaining = v.remaining /\ w.reset >= v.reset)
  <2> SUFFICES ASSUME NEW v \in some, ~(w.remaining < v.remaining)
               PROVE  w.remaining = v.remaining /\ w.reset >= v.reset
    OBVIOUS
  <2>1. least <= v.remaining
    BY <1>4
  <2>2. v.remaining = least
    BY <1>2, <1>8, <2>1
  <2>3. v.reset <= latest
    BY <1>7, <2>2
  <2>4. QED  BY <1>2, <1>8, <2>2, <2>3
<1>10. QED  BY <1>8, <1>9 DEF FirstWindow, some

\* The effective window is one of the windows.
LEMMA PickedWindow ==
    ASSUME NEW windows \in SUBSET WindowType, IsFiniteSet(windows), windows # {}
    PROVE  /\ PickEffectiveWindow(windows) \subseteq windows
           /\ PickEffectiveWindow(windows) # {}
<1>1. OfKind(windows, "weekly") \subseteq windows /\ OfKind(windows, "five_hour") \subseteq windows
  BY DEF OfKind
<1>2. /\ OfKind(windows, "weekly") # {} =>
           FirstWindow(windows, "weekly") \in OfKind(windows, "weekly")
      /\ OfKind(windows, "five_hour") # {} =>
           FirstWindow(windows, "five_hour") \in OfKind(windows, "five_hour")
  BY FirstWindowIs
<1>3. QED  BY <1>1, <1>2 DEF PickEffectiveWindow

\* What a result says of a kind of window.
LEMMA KindMeasured ==
    ASSUME NEW windows \in SUBSET WindowType, IsFiniteSet(windows), NEW kind
    PROVE  /\ ResetOf(windows, kind) \in Nat
           /\ RemainingOf(windows, kind) \in Nat \cup {Missing}
           /\ \A w \in OfKind(windows, kind) : w.remaining = 0 =>
                RemainingOf(windows, kind) = 0 /\ ResetOf(windows, kind) >= w.reset
<1>1. CASE OfKind(windows, kind) = {}
  BY <1>1 DEF ResetOf, RemainingOf, Zero
<1>2. CASE OfKind(windows, kind) # {}
  <2> DEFINE first == FirstWindow(windows, kind)
  <2>1. /\ first \in OfKind(windows, kind)
        /\ \A v \in OfKind(windows, kind) :
             \/ first.remaining < v.remaining
             \/ first.remaining = v.remaining /\ first.reset >= v.reset
    BY <1>2, FirstWindowIs
  <2>2. \A v \in OfKind(windows, kind) : v.remaining \in Nat /\ v.reset \in Nat
    BY DEF OfKind, WindowType
  <2>3. ResetOf(windows, kind) = first.reset /\ RemainingOf(windows, kind) = first.remaining
    BY <1>2 DEF ResetOf, RemainingOf
  <2> HIDE DEF first
  <2>4. ASSUME NEW w \in OfKind(windows, kind), w.remaining = 0
        PROVE  first.remaining = 0 /\ first.reset >= w.reset
    BY <2>1, <2>2, <2>4
  <2>5. QED  BY <2>1, <2>2, <2>3, <2>4
<1>3. QED  BY <1>1, <1>2

\* A result is measured at the beginning of the round.
LEMMA ParsedTyped ==
    ASSUME NEW cred, NEW answer, AnswerType(answer), NEW g \in Groups, NEW at \in Nat,
           NEW r \in ParseGroup(cred, answer, g, at)
    PROVE  /\ r.cred = cred /\ r.group = g /\ r.at = at /\ r.ready \in BOOLEAN
           /\ Measurable(r)
<1> DEFINE windows == CollectGroupWindows(answer, g)
<1>1. windows \in SUBSET WindowType /\ IsFiniteSet(windows)
  BY CollectedTyped
<1> HIDE DEF windows
<1>2. CASE windows = {}
  <2>1. r = FailedResult(cred, g, at)
    BY <1>2 DEF ParseGroup, windows
  <2>2. QED  BY <2>1 DEF FailedResult, Measurable, Zero, Missing
<1>3. CASE windows # {}
  <2>1. PICK w \in PickEffectiveWindow(windows) :
          r = [cred |-> cred, group |-> g, at |-> at, ready |-> TRUE,
               reset |-> w.reset, rem |-> w.remaining,
               sreset |-> ResetOf(windows, "five_hour"),
               srem |-> RemainingOf(windows, "five_hour"),
               lreset |-> ResetOf(windows, "weekly"),
               lrem |-> RemainingOf(windows, "weekly")]
    BY <1>3 DEF ParseGroup, windows
  <2>2. w \in WindowType
    BY <1>1, <1>3, PickedWindow
  <2>3. w.reset \in Nat /\ w.remaining \in Int
    BY <2>2 DEF WindowType
  <2>4. /\ ResetOf(windows, "five_hour") \in Nat /\ RemainingOf(windows, "five_hour") \in Int
        /\ ResetOf(windows, "weekly") \in Nat /\ RemainingOf(windows, "weekly") \in Int
    BY <1>1, KindMeasured DEF Missing
  <2>5. QED  BY <2>1, <2>3, <2>4 DEF Measurable
<1>4. QED  BY <1>2, <1>3

\* A result that is ready has a reset time: a window without one is dropped.
LEMMA ReadyReset ==
    ASSUME NEW cred, NEW answer, AnswerType(answer), NEW g \in Groups, NEW at \in Nat,
           NEW r \in ParseGroup(cred, answer, g, at), r.ready
    PROVE  r.reset # Zero
<1> DEFINE windows == CollectGroupWindows(answer, g)
<1>1. windows \in SUBSET WindowType /\ IsFiniteSet(windows)
  BY CollectedTyped
<1>2. \A w \in windows : w.reset # Zero
  <2>1. \A raw : \A w \in Windows(raw) : w.reset # Zero
    BY DEF Windows
  <2>2. QED  BY <2>1 DEF CollectGroupWindows
<1>3. windows # {}
  <2> SUFFICES ASSUME windows = {} PROVE FALSE
    OBVIOUS
  <2>1. r = FailedResult(cred, g, at)
    BY DEF ParseGroup
  <2>2. QED  BY <2>1 DEF FailedResult
<1>4. \E w \in PickEffectiveWindow(windows) : r.reset = w.reset
  <2>1. PICK w \in PickEffectiveWindow(windows) :
          r = [cred |-> cred, group |-> g, at |-> at, ready |-> TRUE,
               reset |-> w.reset, rem |-> w.remaining,
               sreset |-> ResetOf(windows, "five_hour"),
               srem |-> RemainingOf(windows, "five_hour"),
               lreset |-> ResetOf(windows, "weekly"),
               lrem |-> RemainingOf(windows, "weekly")]
    BY <1>3 DEF ParseGroup
  <2>2. QED  BY <2>1
<1> HIDE DEF windows
<1>5. PickEffectiveWindow(windows) \subseteq windows
  BY <1>1, <1>3, PickedWindow
<1>6. QED  BY <1>2, <1>4, <1>5

\* An exhausted window of a known kind shows in what the guard is told.
LEMMA ExhaustedPassed ==
    ASSUME NEW cred, NEW answer, AnswerType(answer), NEW g \in Groups, NEW at \in Nat,
           NEW r \in ParseGroup(cred, answer, g, at), r.ready,
           NEW e, e.rem = r.rem, e.srem = r.srem, e.lrem = r.lrem,
           e.reset = r.reset, e.sreset = r.sreset, e.lreset = r.lreset,
           NEW w \in CollectGroupWindows(answer, g), w.kind # "unknown", w.remaining = 0
    PROVE  GuardRemaining(e) = 0 /\ GuardReset(e) >= w.reset
<1> DEFINE windows == CollectGroupWindows(answer, g)
<1>1. windows \in SUBSET WindowType /\ IsFiniteSet(windows) /\ w \in windows
  BY CollectedTyped
<1> HIDE DEF windows
<1>2. PICK v \in PickEffectiveWindow(windows) :
          r = [cred |-> cred, group |-> g, at |-> at, ready |-> TRUE,
               reset |-> v.reset, rem |-> v.remaining,
               sreset |-> ResetOf(windows, "five_hour"),
               srem |-> RemainingOf(windows, "five_hour"),
               lreset |-> ResetOf(windows, "weekly"),
               lrem |-> RemainingOf(windows, "weekly")]
  BY <1>1 DEF ParseGroup, windows
<1>3. v \in WindowType /\ w \in WindowType
  BY <1>1, PickedWindow
<1>4. /\ v.reset \in Nat /\ v.remaining \in Nat /\ w.reset \in Nat
      /\ w.kind = "weekly" \/ w.kind = "five_hour"
  BY <1>3 DEF WindowType
<1>5. /\ e.rem = v.remaining /\ e.reset = v.reset
      /\ e.srem = RemainingOf(windows, "five_hour") /\ e.sreset = ResetOf(windows, "five_hour")
      /\ e.lrem = RemainingOf(windows, "weekly") /\ e.lreset = ResetOf(windows, "weekly")
  BY <1>2
<1>6. /\ e.srem \in Nat \cup {Missing} /\ e.sreset \in Nat
      /\ e.lrem \in Nat \cup {Missing} /\ e.lreset \in Nat
  BY <1>1, <1>5, KindMeasured
<1>7. \/ e.srem = 0 /\ e.sreset >= w.reset
      \/ e.lrem = 0 /\ e.lreset >= w.reset
  <2>1. w \in OfKind(windows, w.kind)
    BY <1>1 DEF OfKind
  <2>2. CASE w.kind = "weekly"
    BY <1>1, <1>5, <2>1, <2>2, KindMeasured
  <2>3. CASE w.kind = "five_hour"
    BY <1>1, <1>5, <2>1, <2>3, KindMeasured
  <2>4. QED  BY <1>4, <2>2, <2>3
<1>8. GuardRemaining(e) = 0
  <2>1. 0 \in Amounts(e)
    BY <1>7 DEF Amounts, Missing
  <2>2. Amounts(e) \subseteq Nat
    BY <1>4, <1>5, <1>6 DEF Amounts
  <2>3. \A other \in Amounts(e) : 0 <= other
    BY <2>2
  <2>4. \A n \in Amounts(e) : n <= 0 => n = 0
    BY <2>2
  <2>5. QED  BY <2>1, <2>3, <2>4 DEF GuardRemaining
<1>9. GuardReset(e) >= w.reset
  <2> DEFINE resets == {e.reset}
                         \cup (IF e.srem = 0 THEN {e.sreset} ELSE {})
                         \cup (IF e.lrem = 0 THEN {e.lreset} ELSE {})
  <2>1. resets \in SUBSET Nat /\ resets # {}
    BY <1>4, <1>5, <1>6
  <2>2. IsFiniteSet(resets)
    <3>1. resets \subseteq {e.reset, e.sreset, e.lreset}
      OBVIOUS
    <3>2. IsFiniteSet({e.reset, e.sreset, e.lreset})
      <4>1. IsFiniteSet({} \cup {e.reset})
        BY FS_EmptySet, FS_AddElement
      <4>2. IsFiniteSet(({} \cup {e.reset}) \cup {e.sreset})
        BY <4>1, FS_AddElement
      <4>3. IsFiniteSet((({} \cup {e.reset}) \cup {e.sreset}) \cup {e.lreset})
        BY <4>2, FS_AddElement
      <4>4. {e.reset, e.sreset, e.lreset} = (({} \cup {e.reset}) \cup {e.sreset}) \cup {e.lreset}
        OBVIOUS
      <4>5. QED  BY <4>3, <4>4
    <3> HIDE DEF resets
    <3>3. QED  BY <3>1, <3>2, FS_Subset
  <2>3. \E t \in resets : t >= w.reset
    BY <1>7
  <2> HIDE DEF resets
  <2>4. \E t \in resets : \A other \in resets : other <= t
    BY <2>1, <2>2, GreatestNatural
  <2>5. GuardReset(e) = CHOOSE t \in resets : \A other \in resets : other <= t
    BY DEF GuardReset, resets
  <2>6. GuardReset(e) \in resets /\ \A other \in resets : other <= GuardReset(e)
    BY <2>4, <2>5
  <2>7. QED  BY <1>4, <2>1, <2>3, <2>6
<1>10. QED  BY <1>8, <1>9

=============================================================================
