-------------------------- MODULE GuardEngineProofs --------------------------
(***************************************************************************)
(* The guard engine for every value of its constants.  Of its states:      *)
(* every one is well typed, a known exhausted quota blocks until its       *)
(* reset, and every block ends.  Of its steps: none shortens a hard block, *)
(* forgets, credits evidence to another credential, or lets somebody else  *)
(* settle a lease; and the index by name and the breakers agree, so that   *)
(* what is saved can be loaded.  The arguments about steps start from the  *)
(* ways in which one may change a breaker, EntryMoves.                     *)
(***************************************************************************)
EXTENDS GuardEngine, TLAPS

-----------------------------------------------------------------------------
(***************************************************************************)
(* The breaker transitions keep the shape of an entry.                     *)
(***************************************************************************)

LEMMA NewEntryType ==
    ASSUME NEW who \in Identity
    PROVE  /\ NewEntry(who) \in Entry
           /\ SameIdentity(NewEntry(who), who)
  BY DEF NewEntry, Entry, Identity, States, Reasons, Time, Never, SameIdentity

LEMMA OpenEntryType ==
    ASSUME NEW e \in Entry, NEW why \in Reasons, NEW until \in Time
    PROVE  /\ OpenEntry(e, why, until) \in Entry
           /\ SameIdentity(OpenEntry(e, why, until), e)
  BY DEF OpenEntry, Entry, States, Time, Never, SameIdentity

LEMMA CloseEntryType ==
    ASSUME NEW e \in Entry
    PROVE  /\ CloseEntry(e) \in Entry
           /\ SameIdentity(CloseEntry(e), e)
  BY DEF CloseEntry, Entry, States, Reasons, Time, Never, SameIdentity

LEMMA LaterType ==
    ASSUME NEW s \in Nat, NEW t \in Nat
    PROVE  Later(s, t) \in Nat /\ Later(s, t) >= s /\ Later(s, t) >= t
  BY DEF Later

LEMMA WithEvidenceType ==
    ASSUME NEW e \in Entry, NEW at \in Time, NEW zero \in BOOLEAN, NEW resetAt \in Time
    PROVE  /\ WithEvidence(e, at, zero, resetAt) \in Entry
           /\ SameIdentity(WithEvidence(e, at, zero, resetAt), e)
<1> DEFINE seen == [e EXCEPT !.evidenceAt = at, !.quotaAt = at]
<1>1. seen \in Entry /\ SameIdentity(seen, e)
  BY DEF Entry, SameIdentity
<1>2. /\ OpenEntry(seen, "quota_zero", resetAt) \in Entry
      /\ SameIdentity(OpenEntry(seen, "quota_zero", resetAt), seen)
  BY <1>1, OpenEntryType DEF Reasons
<1>3. CloseEntry(seen) \in Entry /\ SameIdentity(CloseEntry(seen), seen)
  BY <1>1, CloseEntryType
<1>4. WithEvidence(e, at, zero, resetAt) \in
          {seen, OpenEntry(seen, "quota_zero", resetAt), CloseEntry(seen)}
  BY DEF WithEvidence, ExhaustedUntil
<1>5. QED
  BY <1>1, <1>2, <1>3, <1>4 DEF SameIdentity

LEMMA FailureType ==
    ASSUME NEW e \in Entry, NEW n \in Nat, NEW t \in Time
    PROVE  /\ [e EXCEPT !.failures = n, !.failedAt = t, !.evidenceAt = t] \in Entry
           /\ SameIdentity([e EXCEPT !.failures = n, !.failedAt = t, !.evidenceAt = t], e)
  BY DEF Entry, SameIdentity

LEMMA WithUsageType ==
    ASSUME NEW e \in Entry, NEW u \in UsageRecord
    PROVE  /\ WithUsage(e, u) \in Entry
           /\ SameIdentity(WithUsage(e, u), e)
<1> USE ConfigAssumption DEF ConfigAssumption, Time
<1>1. u.at \in Nat /\ u.reset \in Nat /\ u.req \in Requests /\ u.kind \in Kinds
  BY DEF UsageRecord
<1>2. WithSuccess(e, u) \in Entry /\ SameIdentity(WithSuccess(e, u), e)
  <2>1. /\ [CloseEntry(e) EXCEPT !.evidenceAt = u.at] \in Entry
        /\ SameIdentity([CloseEntry(e) EXCEPT !.evidenceAt = u.at], e)
    BY <1>1, CloseEntryType DEF Entry, SameIdentity
  <2>2. /\ [e EXCEPT !.failures = 0, !.failedAt = Never] \in Entry
        /\ SameIdentity([e EXCEPT !.failures = 0, !.failedAt = Never], e)
    BY DEF Entry, SameIdentity, Never
  <2>3. WithSuccess(e, u) \in
            {e, [CloseEntry(e) EXCEPT !.evidenceAt = u.at],
                [e EXCEPT !.failures = 0, !.failedAt = Never]}
    BY DEF WithSuccess
  <2>4. QED
    BY <2>1, <2>2, <2>3 DEF SameIdentity
<1>3. WithExplicit429(e, u) \in Entry /\ SameIdentity(WithExplicit429(e, u), e)
  <2> DEFINE named == IF u.reset > u.at THEN u.reset ELSE u.at + MaxCooldown
             until == IF HardActive(e, u.at) THEN Later(e.recoverAt, named) ELSE named
             why   == IF HardActive(e, u.at) THEN e.reason ELSE "explicit_429"
             o     == OpenEntry(e, why, until)
  <2>1. e.recoverAt \in Nat /\ e.reason \in Reasons /\ e.failures \in Nat
    BY DEF Entry
  <2>2. named \in Nat
    BY <1>1
  <2>3. until \in Time
    BY <2>1, <2>2, LaterType
  <2>4. why \in Reasons
    BY <2>1 DEF Reasons
  <2>5. o \in Entry /\ SameIdentity(o, e)
    BY <2>3, <2>4, OpenEntryType
  <2>6. [o EXCEPT !.failures = e.failures + 1, !.failedAt = u.at, !.evidenceAt = u.at]
            \in Entry
    <3>1. e.failures + 1 \in Nat /\ u.at \in Time
      BY <1>1, <2>1
    <3> HIDE DEF o
    <3>2. QED
      BY <3>1, <2>5, FailureType
  <2>7. WithExplicit429(e, u) =
          [o EXCEPT !.failures = e.failures + 1, !.failedAt = u.at, !.evidenceAt = u.at]
    BY DEF WithExplicit429
  <2>8. QED
    BY <2>5, <2>6, <2>7 DEF SameIdentity, Entry
<1>4. WithGeneric429(e, u) \in Entry /\ SameIdentity(WithGeneric429(e, u), e)
  <2> DEFINE n       == Streak(e, u)
             counted == [e EXCEPT !.failures = n, !.failedAt = u.at, !.evidenceAt = u.at]
             until   == Later(u.at + GenericCooldown(e, n), u.reset)
  <2>1. n \in Nat
    BY DEF Streak, Entry
  <2>2. counted \in Entry /\ SameIdentity(counted, e)
    BY <1>1, <2>1, FailureType
  <2>3. GenericCooldown(e, n) \in Nat
    BY DEF GenericCooldown
  <2>4. until \in Time
    <3>1. u.at + GenericCooldown(e, n) \in Nat
      BY <1>1, <2>3
    <3>2. QED
      BY <1>1, <3>1, LaterType
  <2>5. /\ OpenEntry(counted, "generic_429", until) \in Entry
        /\ SameIdentity(OpenEntry(counted, "generic_429", until), counted)
    BY <2>2, <2>4, OpenEntryType DEF Reasons
  <2>6. WithGeneric429(e, u) \in {counted, OpenEntry(counted, "generic_429", until)}
    BY DEF WithGeneric429
  <2>7. QED
    BY <2>2, <2>5, <2>6 DEF SameIdentity
<1>5. WithUsage(e, u) \in
        {e, WithSuccess(e, u), WithExplicit429(e, u), WithGeneric429(e, u)}
  BY <1>1 DEF WithUsage, Kinds
<1>6. QED
  BY <1>2, <1>3, <1>4, <1>5 DEF SameIdentity

LEMMA LeasedType ==
    ASSUME NEW e \in Entry, NEW r \in Requests, NEW t \in Time
    PROVE  Leased(e, r, t) \in Entry /\ SameIdentity(Leased(e, r, t), e)
<1>1. t + HalfOpenLease \in Time
  BY ConfigAssumption DEF ConfigAssumption, Time
<1>2. QED
  BY <1>1 DEF Leased, Entry, States, SameIdentity

LEMMA ReleasedType ==
    ASSUME NEW e \in Entry
    PROVE  /\ Released(e) \in Entry /\ SameIdentity(Released(e), e)
           /\ Persisted(e) \in Entry /\ SameIdentity(Persisted(e), e)
  BY DEF Released, Persisted, Entry, States, Reasons, Time, Never, SameIdentity

-----------------------------------------------------------------------------
(***************************************************************************)
(* Type correctness.                                                       *)
(***************************************************************************)

LEMMA LookupFinds ==
    ASSUME TypeOK,
           NEW i \in AuthIndexes \cup {NoIndex}, NEW x \in AuthIDs \cup Others,
           NEW g \in Groups, Lookup(i, x, g) # NoEntry
    PROVE  /\ SlotOf(i, x) \in AuthIndexes
           /\ <<SlotOf(i, x), g>> \in Keys
           /\ Lookup(i, x, g) = entries[<<SlotOf(i, x), g>>]
           /\ Lookup(i, x, g) \in Entry
<1>1. SlotOf(i, x) \in AuthIndexes \cup {NoIndex}
  BY DEF SlotOf, TypeOK
<1>2. SlotOf(i, x) # NoIndex
  BY DEF Lookup
<1>3. <<SlotOf(i, x), g>> \in Keys
  BY <1>1, <1>2 DEF Keys
<1>4. Lookup(i, x, g) = entries[<<SlotOf(i, x), g>>]
  BY DEF Lookup
<1>5. entries[<<SlotOf(i, x), g>>] \in Entry \cup {NoEntry}
  BY <1>3 DEF TypeOK
<1>6. QED
  BY <1>1, <1>2, <1>3, <1>4, <1>5

LEMMA IndexOfType ==
    ASSUME NEW roster \in Rosters
    PROVE  IndexOf(roster) \in [AuthIDs -> AuthIndexes \cup {NoIndex}]
  BY DEF IndexOf

LEMMA ReconciledType ==
    ASSUME TypeOK, NEW roster \in Rosters
    PROVE  Reconciled(roster) \in [Keys -> Entry \cup {NoEntry}]
<1> SUFFICES ASSUME NEW k \in Keys
             PROVE  Reconciled(roster)[k] \in Entry \cup {NoEntry}
  BY DEF Reconciled
<1>1. roster[k[1]] \in Identity \cup {NoIdentity}
  BY DEF Keys, Rosters
<1>2. entries[k] \in Entry \cup {NoEntry}
  BY DEF TypeOK
<1>3. CASE roster[k[1]] = NoIdentity
  BY <1>3 DEF Reconciled
<1>4. CASE roster[k[1]] \in Identity
  <2>1. NewEntry(roster[k[1]]) \in Entry
    BY <1>4, NewEntryType
  <2>2. QED
    BY <1>2, <1>3, <2>1 DEF Reconciled
<1>5. QED
  BY <1>1, <1>3, <1>4

LEMMA CurrentIdentityType ==
    ASSUME TypeOK
    PROVE  [s \in AuthIndexes |-> CurrentIdentity(s)] \in Rosters
<1> SUFFICES ASSUME NEW s \in AuthIndexes
             PROVE  CurrentIdentity(s) \in Identity \cup {NoIdentity}
  BY DEF Rosters
<1> DEFINE held == {g \in Groups : entries[<<s, g>>] # NoEntry}
           g0   == CHOOSE g \in held : TRUE
<1>1. CASE held = {}
  BY <1>1 DEF CurrentIdentity
<1>2. CASE held # {}
  <2>1. g0 \in Groups /\ entries[<<s, g0>>] # NoEntry
    BY <1>2
  <2>2. CurrentIdentity(s) = [id |-> entries[<<s, g0>>].id, fp |-> entries[<<s, g0>>].fp]
    BY <1>2 DEF CurrentIdentity
  <2> HIDE DEF g0, held
  <2>3. <<s, g0>> \in Keys
    BY <2>1 DEF Keys
  <2>4. entries[<<s, g0>>] \in Entry
    BY <2>1, <2>3 DEF TypeOK
  <2>5. QED
    BY <2>2, <2>4 DEF Identity, Entry
<1>3. QED
  BY <1>1, <1>2

LEMMA ForgetType ==
    ASSUME TypeOK, ForgetReplaced
    PROVE  zeroUntil' \in [Keys -> Time]
  BY DEF ForgetReplaced, TypeOK, Time, Never

(***************************************************************************)
(* TypeOK is inductive: one step per action.                               *)
(***************************************************************************)
LEMMA InitType == Init => TypeOK
<1> SUFFICES ASSUME Init PROVE TypeOK
  OBVIOUS
<1>1. now \in Time /\ dirty \in BOOLEAN /\ reloads \in Nat
  BY DEF Init, Time
<1>2. entries \in [Keys -> Entry \cup {NoEntry}]
  BY DEF Init
<1>3. authByID \in [AuthIDs -> AuthIndexes \cup {NoIndex}]
  BY DEF Init
<1>4. cursors \in [Groups -> Nat] /\ attempts \in [Requests -> Nat]
  BY DEF Init
<1>5. dispatched \in [Requests -> Dispatch \cup {NoDispatch}]
  BY DEF Init
<1>6. usage \in SUBSET UsageRecord /\ probe \in ProbeRound \cup {NoProbe}
  BY DEF Init
<1>7. zeroUntil \in [Keys -> Time]
  BY DEF Init, Time, Never
<1>8. QED
  BY <1>1, <1>2, <1>3, <1>4, <1>5, <1>6, <1>7 DEF TypeOK

\* A pick in any mode: the chosen candidate, the entry it is found by, and
\* the lease it is due.
LEMMA PickType ==
    ASSUME TypeOK, NEW r \in Requests, NEW g \in Groups, NEW cands \in CandidateLists,
           NEW mode, Pick(r, g, cands, mode)
    PROVE  TypeOK'
<1> USE DEF engineVars, hostVars
<1>1. PICK n \in DOMAIN cands :
        LET x    == cands[n]
            e    == IF x \in Others THEN NoEntry ELSE Lookup(NoIndex, x, g)
            slot == IF e = NoEntry THEN NoIndex ELSE authByID[x]
            due  == Enforcing(mode) /\ e # NoEntry /\ LeaseDue(e, now)
        IN  /\ entries' = IF due
                  THEN [entries EXCEPT ![<<slot, g>>] = Leased(e, r, now)]
                  ELSE entries
            /\ dirty' = (dirty \/ due)
            /\ Sent(r, x, slot, g, due)
  BY DEF Pick
<1> DEFINE x    == cands[n]
           e    == IF x \in Others THEN NoEntry ELSE Lookup(NoIndex, x, g)
           slot == IF e = NoEntry THEN NoIndex ELSE authByID[x]
           due  == Enforcing(mode) /\ e # NoEntry /\ LeaseDue(e, now)
<1>2. x \in AuthIDs \cup Others
  <2>1. cands \in Seq(AuthIDs \cup Others)
    BY NullAssumption DEF NullAssumption
  <2>2. QED
    BY <2>1
<1>3. /\ entries' = IF due THEN [entries EXCEPT ![<<slot, g>>] = Leased(e, r, now)]
                    ELSE entries
      /\ dirty' = (dirty \/ due)
      /\ Sent(r, x, slot, g, due)
  BY <1>1
<1>4. /\ slot \in AuthIndexes \cup {NoIndex}
      /\ e # NoEntry => /\ <<slot, g>> \in Keys
                        /\ e \in Entry
                        /\ e = entries[<<slot, g>>]
  <2>1. CASE e = NoEntry
    BY <2>1
  <2>2. CASE e # NoEntry
    <3>1. x \in AuthIDs /\ x \notin Others /\ e = Lookup(NoIndex, x, g)
      BY <1>2, <2>2
    <3>2. slot = SlotOf(NoIndex, x)
      BY <2>2, <3>1 DEF SlotOf
    <3>3. QED
      BY <2>2, <3>1, <3>2, LookupFinds
  <2>3. QED
    BY <2>1, <2>2
<1>5. due \in BOOLEAN
  BY DEF LeaseDue
<1> HIDE DEF x, e, slot, due
<1>6. entries' \in [Keys -> Entry \cup {NoEntry}]
  <2>1. CASE due
    <3>1. e # NoEntry
      BY <2>1 DEF due
    <3>2. Leased(e, r, now) \in Entry
      BY <1>4, <3>1, LeasedType DEF TypeOK
    <3>3. QED
      BY <1>3, <2>1, <3>2 DEF TypeOK
  <2>2. CASE ~due
    BY <1>3, <2>2 DEF TypeOK
  <2>3. QED
    BY <2>1, <2>2
<1>7. dispatched' \in [Requests -> Dispatch \cup {NoDispatch}]
  <2>1. [id |-> x, index |-> slot, group |-> g, at |-> now, leased |-> due] \in Dispatch
    BY <1>2, <1>4, <1>5 DEF Dispatch, TypeOK
  <2>2. QED
    BY <1>3, <2>1 DEF Sent, TypeOK
<1>8. attempts' \in [Requests -> Nat]
  BY <1>3 DEF Sent, TypeOK
<1>9. cursors' \in [Groups -> Nat]
  BY DEF Pick, TypeOK
<1>10. dirty' \in BOOLEAN
  BY <1>3, <1>5 DEF TypeOK
<1>11. QED
  BY <1>6, <1>7, <1>8, <1>9, <1>10 DEF Pick, TypeOK

LEMMA NextType == TypeOK /\ [Next]_vars => TypeOK'
<1> SUFFICES ASSUME TypeOK, [Next]_vars
             PROVE  TypeOK'
  OBVIOUS
<1> USE DEF engineVars, hostVars
<1>1. CASE Tick
  BY <1>1 DEF Tick, TypeOK, Time
<1>2. ASSUME NEW roster \in HostRosters, ReplaceRoster(roster)
      PROVE  TypeOK'
  <2>1. roster \in Rosters
    BY InputAssumption DEF InputAssumption
  <2>2. entries' \in [Keys -> Entry \cup {NoEntry}]
    BY <1>2, <2>1, ReconciledType DEF ReplaceRoster
  <2>3. authByID' \in [AuthIDs -> AuthIndexes \cup {NoIndex}]
    BY <1>2, <2>1, IndexOfType DEF ReplaceRoster
  <2>4. zeroUntil' \in [Keys -> Time]
    BY <1>2, ForgetType DEF ReplaceRoster
  <2>5. dirty' \in BOOLEAN
    BY <1>2 DEF ReplaceRoster, MarksDirty, TypeOK
  <2>6. QED
    BY <1>2, <2>2, <2>3, <2>4, <2>5 DEF ReplaceRoster, TypeOK
<1>3. ASSUME NEW roster \in HostRosters, NEW i \in AuthIndexes,
             RegisterIdentity(i, roster[i])
      PROVE  TypeOK'
  <2> DEFINE who == roster[i]
  <2>1. who \in Identity
    BY <1>3, InputAssumption DEF InputAssumption, Rosters, RegisterIdentity
  <2>2. NewEntry(who) \in Entry
    BY <2>1, NewEntryType
  <2>3. entries' \in [Keys -> Entry \cup {NoEntry}]
    BY <1>3, <2>2 DEF RegisterIdentity, TypeOK
  <2>4. authByID' \in [AuthIDs -> AuthIndexes \cup {NoIndex}]
    BY <1>3 DEF RegisterIdentity, TypeOK
  <2>5. zeroUntil' \in [Keys -> Time]
    BY <1>3, ForgetType DEF RegisterIdentity
  <2>6. dirty' \in BOOLEAN
    BY <1>3 DEF RegisterIdentity, MarksDirty, TypeOK
  <2>7. QED
    BY <1>3, <2>3, <2>4, <2>5, <2>6 DEF RegisterIdentity, TypeOK
<1>4. ASSUME NEW r \in Requests, NEW g \in Groups, NEW cands \in CandidateLists,
             NEW mode \in Modes, Pick(r, g, cands, mode)
      PROVE  TypeOK'
  BY <1>4, PickType
<1>5. ASSUME NEW r \in Requests, NEW kind \in Outcomes, NEW reset \in ResetTimes(kind),
             Complete(r, kind, reset)
      PROVE  TypeOK'
  <2> DEFINE d == dispatched[r]
             u == [req |-> r, attempt |-> attempts[r], id |-> d.id, index |-> d.index,
                   group |-> d.group, kind |-> kind, leased |-> d.leased,
                   sentAt |-> d.at, at |-> now, reset |-> reset]
  <2>1. d \in Dispatch
    BY <1>5 DEF Complete, TypeOK
  <2>2. reset \in Time
    BY BoundAssumption DEF BoundAssumption, ResetTimes, Time, Never, TypeOK
  <2>3. u \in UsageRecord
    <3>1. kind \in Kinds
      BY InputAssumption DEF InputAssumption
    <3>2. QED
      BY <2>1, <2>2, <3>1 DEF UsageRecord, Dispatch, TypeOK
  <2>4. usage' = usage \cup {u}
    BY <1>5 DEF Complete
  <2>5. usage' \in SUBSET UsageRecord
    BY <2>3, <2>4 DEF TypeOK
  <2>6. attempts' \in [Requests -> Nat]
    BY <1>5, BoundAssumption DEF BoundAssumption, Complete, TypeOK
  <2>7. dispatched' \in [Requests -> Dispatch \cup {NoDispatch}]
    BY <1>5 DEF Complete, TypeOK
  <2>8. QED
    BY <1>5, <2>5, <2>6, <2>7 DEF Complete, TypeOK
<1>6. ASSUME NEW u \in usage, ObserveUsage(u)
      PROVE  TypeOK'
  <2> DEFINE e   == Lookup(u.index, u.id, u.group)
             key == <<SlotOf(u.index, u.id), u.group>>
  <2>1. u \in UsageRecord
    BY DEF TypeOK
  <2>2. entries' = IF e = NoEntry THEN entries
                   ELSE [entries EXCEPT ![key] = WithUsage(e, u)]
    BY <1>6 DEF ObserveUsage
  <2>3. e # NoEntry => e \in Entry
    BY <2>1, LookupFinds DEF UsageRecord
  <2>4. e # NoEntry => WithUsage(e, u) \in Entry
    BY <2>1, <2>3, WithUsageType
  <2>5. entries' \in [Keys -> Entry \cup {NoEntry}]
    <3> HIDE DEF e, key
    <3>1. QED
      BY <2>2, <2>4 DEF TypeOK
  <2>6. usage' \in SUBSET UsageRecord
    BY <1>6 DEF ObserveUsage, TypeOK
  <2>7. dirty' \in BOOLEAN
    BY <1>6 DEF ObserveUsage, TypeOK
  <2>8. QED
    BY <1>6, <2>5, <2>6, <2>7 DEF ObserveUsage, TypeOK
<1>7. CASE StartProbe
  <2>1. probe' \in ProbeRound
    BY <1>7, CurrentIdentityType DEF StartProbe, ProbeRound, TypeOK
  <2>2. QED
    BY <1>7, <2>1 DEF StartProbe, TypeOK
<1>8. ASSUME NEW k \in Keys, NEW zero \in BOOLEAN, NEW wait \in 0 .. MaxDelay,
             ApplyQuotaEvidence(k, zero, wait)
      PROVE  TypeOK'
  <2> DEFINE resetAt == IF wait = 0 THEN Never ELSE probe.at + wait
             e       == WithEvidence(entries[k], probe.at, zero, resetAt)
  <2>1. probe \in ProbeRound
    BY <1>8 DEF ApplyQuotaEvidence, TypeOK
  <2>2. probe.at \in Time /\ resetAt \in Time
    BY <2>1, BoundAssumption DEF BoundAssumption, ProbeRound, Time, Never
  <2>3. probe' \in ProbeRound
    BY <1>8, <2>1 DEF ApplyQuotaEvidence, ProbeRound
  <2>4. CASE Accepts(k, probe.who[k[1]], probe.at)
    <3>1. entries[k] \in Entry
      BY <2>4 DEF Accepts, TypeOK
    <3>2. e \in Entry
      BY <2>2, <3>1, WithEvidenceType
    <3>3. entries' = [entries EXCEPT ![k] = e]
      BY <1>8, <2>4 DEF ApplyQuotaEvidence
    <3>4. entries' \in [Keys -> Entry \cup {NoEntry}]
      <4> HIDE DEF e
      <4>1. QED
        BY <3>2, <3>3 DEF TypeOK
    <3>5. zeroUntil' \in [Keys -> Time]
      <4>1. zeroUntil' \in {[zeroUntil EXCEPT ![k] = resetAt],
                            [zeroUntil EXCEPT ![k] = Never], zeroUntil}
        BY <1>8, <2>4 DEF ApplyQuotaEvidence, TypeOK
      <4>2. QED
        BY <2>2, <4>1 DEF TypeOK, Time, Never
    <3>6. QED
      BY <1>8, <2>3, <3>4, <3>5 DEF ApplyQuotaEvidence, TypeOK
  <2>5. CASE ~Accepts(k, probe.who[k[1]], probe.at)
    <3>1. UNCHANGED <<entries, zeroUntil>>
      BY <1>8, <2>5 DEF ApplyQuotaEvidence
    <3>2. QED
      BY <1>8, <2>3, <3>1 DEF ApplyQuotaEvidence, TypeOK
  <2>6. QED
    BY <2>4, <2>5
<1>9. CASE EndProbe
  BY <1>9 DEF EndProbe, TypeOK
<1>10. ASSUME NEW k \in Keys, ManualHalfOpen(k)
       PROVE  TypeOK'
  <2>1. entries[k] \in Entry
    BY <1>10 DEF ManualHalfOpen, TypeOK
  <2>2. Released(entries[k]) \in Entry
    BY <2>1, ReleasedType
  <2>3. QED
    BY <1>10, <2>2 DEF ManualHalfOpen, TypeOK, Time, Never
<1>11. CASE Reload
  <2>1. \A k \in Keys : entries[k] # NoEntry => Persisted(entries[k]) \in Entry
    BY ReleasedType DEF TypeOK
  <2>2. entries' \in [Keys -> Entry \cup {NoEntry}]
    BY <1>11, <2>1 DEF Reload
  <2>3. authByID' \in [AuthIDs -> AuthIndexes \cup {NoIndex}]
    BY <1>11, CurrentIdentityType, IndexOfType DEF Reload
  <2>4. cursors' \in [Groups -> Nat] /\ reloads' \in Nat /\ dirty' \in BOOLEAN
    <3>1. cursors' \in [Groups -> Nat]
      <4>1. cursors' = [g \in Groups |-> 0]
        BY <1>11 DEF Reload
      <4>2. QED
        BY <4>1
    <3>2. reloads' \in Nat
      BY <1>11 DEF Reload, TypeOK
    <3>3. dirty' \in BOOLEAN
      BY <1>11 DEF Reload
    <3>4. QED
      BY <3>1, <3>2, <3>3
  <2>5. QED
    BY <1>11, <2>2, <2>3, <2>4 DEF Reload, TypeOK
<1>12. CASE UNCHANGED vars
  BY <1>12 DEF vars, TypeOK
<1>13. QED
  BY <1>1, <1>2, <1>3, <1>4, <1>5, <1>6, <1>7, <1>8, <1>9, <1>10, <1>11, <1>12 DEF Next

\* Every variable of the engine keeps its type.
THEOREM TypeCorrect == Spec => []TypeOK
<1>1. QED
  BY InitType, NextType, PTL DEF Spec

-----------------------------------------------------------------------------
(***************************************************************************)
(* Safety.                                                                 *)
(***************************************************************************)
\* What the host and the probe report lies in the past, and names resets at
\* most MaxDelay later.
ReportsPast ==
    /\ \A u \in usage : u.at <= now /\ u.reset <= u.at + MaxDelay
    /\ probe # NoProbe => probe.at <= now

\* The inductive invariant.
IInv == TypeOK /\ ReportsPast /\ KnownZeroBlocks /\ EveryBlockEnds

-----------------------------------------------------------------------------
(***************************************************************************)
(* What one transition of a breaker does to a running quota-zero block.    *)
(***************************************************************************)
LEMMA OpenEntryFields ==
    ASSUME NEW e \in Entry, NEW why, NEW until
    PROVE  /\ OpenEntry(e, why, until).state = "open"
           /\ OpenEntry(e, why, until).reason = why
           /\ OpenEntry(e, why, until).recoverAt = until
  BY DEF OpenEntry, Entry

LEMMA UsageKeepsZeroBlock ==
    ASSUME NEW e \in Entry, NEW u \in UsageRecord, NEW until \in Time,
           ZeroBlock(e, until), u.at < until
    PROVE  ZeroBlock(WithUsage(e, u), until)
<1>1. u.at \in Nat /\ u.reset \in Nat /\ e.recoverAt \in Nat
  BY DEF UsageRecord, Entry, Time
<1>2. HardActive(e, u.at)
  BY <1>1 DEF ZeroBlock, HardActive, Hard, Time
<1>3. WithSuccess(e, u) = e
  BY DEF WithSuccess, SettlesLease, ZeroBlock
<1>4. ZeroBlock(WithExplicit429(e, u), until)
  <2> DEFINE named == IF u.reset > u.at THEN u.reset ELSE u.at + MaxCooldown
  <2>1. named \in Nat
    BY <1>1, ConfigAssumption DEF ConfigAssumption
  <2>2. PICK t \in Nat : t = Later(e.recoverAt, named) /\ t >= e.recoverAt
    <3> HIDE DEF named
    <3>1. QED
      BY <1>1, <2>1, LaterType
  <2> DEFINE opened == OpenEntry(e, "quota_zero", t)
  <2>3. WithExplicit429(e, u) =
          [opened EXCEPT !.failures = e.failures + 1, !.failedAt = u.at, !.evidenceAt = u.at]
    <3>1. (IF HardActive(e, u.at) THEN e.reason ELSE "explicit_429") = "quota_zero"
      BY <1>2 DEF ZeroBlock
    <3>2. (IF HardActive(e, u.at) THEN Later(e.recoverAt, named) ELSE named) = t
      BY <1>2, <2>2
    <3>3. QED
      BY <3>1, <3>2, Zenon DEF WithExplicit429
  <2>4. opened \in Entry
    BY <2>2, OpenEntryType DEF Reasons, Time
  <2>5. opened.state = "open" /\ opened.reason = "quota_zero" /\ opened.recoverAt = t
    BY OpenEntryFields
  <2> HIDE DEF opened
  <2>6. /\ WithExplicit429(e, u).state = "open"
        /\ WithExplicit429(e, u).reason = "quota_zero"
        /\ WithExplicit429(e, u).recoverAt = t
    BY <2>3, <2>4, <2>5 DEF Entry
  <2>7. t >= until
    BY <1>1, <2>2 DEF ZeroBlock, Time
  <2>8. QED
    BY <2>6, <2>7 DEF ZeroBlock
<1>5. ZeroBlock(WithGeneric429(e, u), until)
  BY <1>2 DEF WithGeneric429, ZeroBlock, Entry
<1>6. QED
  BY <1>3, <1>4, <1>5 DEF WithUsage
  
LEMMA EvidenceSetsZeroBlock ==
    ASSUME NEW e \in Entry, NEW at \in Time, NEW zero \in BOOLEAN, NEW resetAt \in Time
    PROVE  /\ ExhaustedUntil(zero, at, resetAt) =>
                 ZeroBlock(WithEvidence(e, at, zero, resetAt), resetAt)
           /\ zero /\ ~ExhaustedUntil(zero, at, resetAt) =>
                 \A until \in Time : ZeroBlock(e, until) =>
                     ZeroBlock(WithEvidence(e, at, zero, resetAt), until)
<1> DEFINE seen == [e EXCEPT !.evidenceAt = at, !.quotaAt = at]
<1>1. seen \in Entry /\ seen.state = e.state /\ seen.reason = e.reason
      /\ seen.recoverAt = e.recoverAt
  BY DEF Entry
<1> HIDE DEF seen
<1>2. ASSUME ExhaustedUntil(zero, at, resetAt)
      PROVE  ZeroBlock(WithEvidence(e, at, zero, resetAt), resetAt)
  <2>1. WithEvidence(e, at, zero, resetAt) = OpenEntry(seen, "quota_zero", resetAt)
    BY <1>2 DEF WithEvidence, ExhaustedUntil, seen
  <2>2. QED
    BY <1>1, <2>1, OpenEntryFields DEF ZeroBlock, Time
<1>3. ASSUME zero, ~ExhaustedUntil(zero, at, resetAt)
      PROVE  WithEvidence(e, at, zero, resetAt) = seen
  BY <1>3 DEF WithEvidence, seen
<1>4. QED
  BY <1>1, <1>2, <1>3 DEF ZeroBlock

-----------------------------------------------------------------------------
(***************************************************************************)
(* What one transition of a breaker does to the end of its block.          *)
(***************************************************************************)
LEMMA OpenEnds ==
    ASSUME NEW e \in Entry, NEW why, NEW until \in Nat, NEW t \in Nat,
           until # 0, until <= t + Later(MaxCooldown, MaxDelay)
    PROVE  BlockEnds(OpenEntry(e, why, until), t)
<1>1. OpenEntry(e, why, until).state = "open" /\ OpenEntry(e, why, until).recoverAt = until
  BY OpenEntryFields
<1>2. QED
  BY <1>1 DEF BlockEnds, Never

LEMMA CloseEntryFields ==
    ASSUME NEW e \in Entry
    PROVE  CloseEntry(e).state = "closed"
  BY DEF CloseEntry, Entry

LEMMA UsageKeepsEnd ==
    ASSUME NEW e \in Entry, NEW u \in UsageRecord, NEW t \in Nat,
           BlockEnds(e, t), u.at <= t, u.reset <= u.at + MaxDelay
    PROVE  BlockEnds(WithUsage(e, u), t)
<1>1. u.at \in Nat /\ u.reset \in Nat /\ e.recoverAt \in Nat
  BY DEF UsageRecord, Entry, Time
<1>2. MaxCooldown \in Nat \ {0} /\ InitialCooldown \in Nat \ {0} /\ MaxDelay \in Nat
      /\ InitialCooldown <= MaxCooldown
  BY ConfigAssumption, BoundAssumption DEF ConfigAssumption, BoundAssumption
<1>3. PICK most \in Nat : most = Later(MaxCooldown, MaxDelay)
                          /\ most >= MaxCooldown /\ most >= MaxDelay
  BY <1>2, LaterType
<1>4. BlockEnds(WithSuccess(e, u), t)
  <2>1. CASE SettlesLease(e, u)
    <3>1. WithSuccess(e, u) = [CloseEntry(e) EXCEPT !.evidenceAt = u.at]
      BY <2>1 DEF WithSuccess
    <3>2. CloseEntry(e) \in Entry /\ CloseEntry(e).state = "closed"
      BY CloseEntryType, CloseEntryFields
    <3>3. WithSuccess(e, u).state = "closed"
      BY <3>1, <3>2 DEF Entry
    <3>4. QED
      BY <3>3 DEF BlockEnds
  <2>2. CASE ~SettlesLease(e, u) /\ e.state = "closed" /\ u.at >= e.failedAt
    <3>1. WithSuccess(e, u) = [e EXCEPT !.failures = 0, !.failedAt = Never]
      BY <2>2 DEF WithSuccess
    <3>2. WithSuccess(e, u).state = "closed"
      BY <2>2, <3>1 DEF Entry
    <3>3. QED
      BY <3>2 DEF BlockEnds
  <2>3. CASE ~SettlesLease(e, u) /\ ~(e.state = "closed" /\ u.at >= e.failedAt)
    BY <2>3 DEF WithSuccess
  <2>4. QED
    BY <2>1, <2>2, <2>3
<1>5. BlockEnds(WithExplicit429(e, u), t)
  <2> DEFINE named == IF u.reset > u.at THEN u.reset ELSE u.at + MaxCooldown
             held  == HardActive(e, u.at)
             until == IF held THEN Later(e.recoverAt, named) ELSE named
             why   == IF held THEN e.reason ELSE "explicit_429"
  <2>1. named \in Nat /\ named # 0 /\ named <= t + most
    BY <1>1, <1>2, <1>3
  <2>2. held => e.recoverAt <= t + most
    BY <1>3 DEF BlockEnds, HardActive
  <2>3. until \in Nat /\ until # 0 /\ until <= t + most
    <3> HIDE DEF named, held
    <3>1. QED
      BY <1>1, <2>1, <2>2 DEF Later
  <2> DEFINE opened == OpenEntry(e, why, until)
  <2>4. WithExplicit429(e, u) =
          [opened EXCEPT !.failures = e.failures + 1, !.failedAt = u.at, !.evidenceAt = u.at]
    BY Zenon DEF WithExplicit429
  <2>5. why \in Reasons
    BY DEF Reasons, Entry
  <2> HIDE DEF why, until
  <2>6. opened \in Entry /\ BlockEnds(opened, t)
    BY <1>3, <2>3, <2>5, OpenEnds, OpenEntryType DEF Time
  <2> HIDE DEF opened
  <2>7. /\ WithExplicit429(e, u).state = opened.state
        /\ WithExplicit429(e, u).recoverAt = opened.recoverAt
        /\ WithExplicit429(e, u).leaseUntil = opened.leaseUntil
    BY <2>4, <2>6 DEF Entry
  <2>8. QED
    BY <2>6, <2>7 DEF BlockEnds
<1>6. BlockEnds(WithGeneric429(e, u), t)
  <2> DEFINE n       == Streak(e, u)
             counted == [e EXCEPT !.failures = n, !.failedAt = u.at, !.evidenceAt = u.at]
             wait    == GenericCooldown(e, n)
             until   == Later(u.at + wait, u.reset)
  <2>1. wait \in Nat \ {0} /\ wait <= most
    BY <1>2, <1>3 DEF GenericCooldown
  <2>2. until \in Nat /\ until # 0 /\ until <= t + most
    <3> HIDE DEF wait
    <3>1. QED
      BY <1>1, <1>2, <1>3, <2>1 DEF Later
  <2>3. /\ counted.state = e.state
        /\ counted.recoverAt = e.recoverAt
        /\ counted.leaseUntil = e.leaseUntil
    BY DEF Entry
  <2>4. n \in Nat
    BY DEF Streak, Entry
  <2>5. counted \in Entry
    <3> HIDE DEF n
    <3>1. QED
      BY <1>1, <2>4 DEF Entry, Time
  <2>6. WithGeneric429(e, u) \in {counted, OpenEntry(counted, "generic_429", until)}
    BY DEF WithGeneric429
  <2> HIDE DEF counted, until
  <2>7. BlockEnds(counted, t)
    BY <2>3 DEF BlockEnds
  <2>8. BlockEnds(OpenEntry(counted, "generic_429", until), t)
    BY <1>3, <2>2, <2>5, OpenEnds
  <2>9. QED
    BY <2>6, <2>7, <2>8
<1>7. QED
  BY <1>4, <1>5, <1>6 DEF WithUsage

LEMMA EvidenceKeepsEnd ==
    ASSUME NEW e \in Entry, NEW at \in Nat, NEW zero \in BOOLEAN, NEW resetAt \in Nat,
           NEW t \in Nat, BlockEnds(e, t), at <= t, resetAt <= at + MaxDelay
    PROVE  BlockEnds(WithEvidence(e, at, zero, resetAt), t)
<1>1. MaxCooldown \in Nat /\ MaxDelay \in Nat
  BY ConfigAssumption, BoundAssumption DEF ConfigAssumption, BoundAssumption
<1>2. PICK most \in Nat : most = Later(MaxCooldown, MaxDelay) /\ most >= MaxDelay
  BY <1>1, LaterType
<1> DEFINE seen == [e EXCEPT !.evidenceAt = at, !.quotaAt = at]
<1>3. /\ seen \in Entry
      /\ seen.state = e.state /\ seen.recoverAt = e.recoverAt
      /\ seen.leaseUntil = e.leaseUntil
  BY DEF Entry, Time
<1> HIDE DEF seen
<1>4. BlockEnds(seen, t)
  BY <1>3 DEF BlockEnds
<1>5. CASE ExhaustedUntil(zero, at, resetAt)
  <2>1. WithEvidence(e, at, zero, resetAt) = OpenEntry(seen, "quota_zero", resetAt)
    BY <1>5 DEF WithEvidence, ExhaustedUntil, seen
  <2>2. resetAt # 0 /\ resetAt <= t + most
    BY <1>1, <1>2, <1>5 DEF ExhaustedUntil
  <2>3. QED
    BY <1>2, <1>3, <2>1, <2>2, OpenEnds
<1>6. CASE ~ExhaustedUntil(zero, at, resetAt) /\ ~zero /\ PositiveCloses(e)
  <2>1. WithEvidence(e, at, zero, resetAt) = CloseEntry(seen)
    BY <1>6 DEF WithEvidence, seen
  <2>2. QED
    BY <1>3, <2>1, CloseEntryFields DEF BlockEnds
<1>7. CASE ~ExhaustedUntil(zero, at, resetAt) /\ ~(~zero /\ PositiveCloses(e))
  <2>1. WithEvidence(e, at, zero, resetAt) = seen
    BY <1>7 DEF WithEvidence, seen
  <2>2. QED
    BY <1>4, <2>1
<1>8. QED
  BY <1>5, <1>6, <1>7

LEMMA LeaseEnds ==
    ASSUME NEW e \in Entry, NEW r \in Requests, NEW t \in Nat
    PROVE  BlockEnds(Leased(e, r, t), t)
<1>1. HalfOpenLease \in Nat
  BY ConfigAssumption DEF ConfigAssumption
<1>2. Leased(e, r, t).state = "half_open" /\ Leased(e, r, t).leaseUntil = t + HalfOpenLease
  BY DEF Leased, Entry
<1>3. t + HalfOpenLease <= t + HalfOpenLease
  BY <1>1
<1>4. QED
  BY <1>2, <1>3 DEF BlockEnds

LEMMA ReleaseEnds ==
    ASSUME NEW e \in Entry, NEW t \in Nat
    PROVE  BlockEnds(Released(e), t)
<1>1. HalfOpenLease \in Nat
  BY ConfigAssumption DEF ConfigAssumption
<1>2. Released(e).state = "half_open" /\ Released(e).leaseUntil = 0
  BY DEF Released, Entry, Never
<1>3. QED
  BY <1>1, <1>2 DEF BlockEnds

LEMMA BlockEndsLater ==
    ASSUME NEW e \in Entry, NEW t \in Nat, BlockEnds(e, t)
    PROVE  BlockEnds(e, t + 1)
<1>1. HalfOpenLease \in Nat /\ MaxCooldown \in Nat /\ MaxDelay \in Nat
  BY ConfigAssumption, BoundAssumption DEF ConfigAssumption, BoundAssumption
<1>2. PICK most \in Nat : most = Later(MaxCooldown, MaxDelay)
  BY <1>1, LaterType
<1>3. e.recoverAt \in Nat /\ e.leaseUntil \in Nat
  BY DEF Entry, Time
<1>4. QED
  BY <1>1, <1>2, <1>3 DEF BlockEnds

LEMMA PersistedEnds ==
    ASSUME NEW e \in Entry, NEW t \in Nat, BlockEnds(e, t)
    PROVE  BlockEnds(Persisted(e), t)
<1>1. /\ Persisted(e).state = e.state
      /\ Persisted(e).recoverAt = e.recoverAt
      /\ Persisted(e).leaseUntil = e.leaseUntil
  BY DEF Persisted, Entry
<1>2. QED
  BY <1>1 DEF BlockEnds

-----------------------------------------------------------------------------
(***************************************************************************)
(* The inductive step: what one entry and its known reset must satisfy     *)
(* after the step, for the actions that change the entry.                  *)
(***************************************************************************)
LEMMA InitInvariant == Init => IInv
<1> SUFFICES ASSUME Init PROVE IInv
  OBVIOUS
<1>1. TypeOK
  BY InitType
<1>2. ReportsPast
  BY DEF Init, ReportsPast
<1>3. KnownZeroBlocks
  <2>1. \A k \in Keys : zeroUntil[k] = 0 /\ now = 1
    BY DEF Init, Never
  <2>2. QED
    BY <2>1 DEF KnownZeroBlocks
<1>4. EveryBlockEnds
  BY DEF Init, EveryBlockEnds
<1>5. QED
  BY <1>1, <1>2, <1>3, <1>4 DEF IInv

\* A change of roster keeps an entry or starts a new one, and forgets what was
\* known of a credential it drops.
LEMMA RosterKeeps ==
    ASSUME IInv, UNCHANGED now, ForgetReplaced,
           NEW k \in Keys,
           \/ entries'[k] \in {entries[k], NoEntry}
           \/ /\ \E who \in Identity :
                    entries'[k] = NewEntry(who) /\ ~Keeps(k, who)
    PROVE  /\ now' < zeroUntil'[k] =>
                 entries'[k] # NoEntry /\ ZeroBlock(entries'[k], zeroUntil'[k])
           /\ entries'[k] # NoEntry => BlockEnds(entries'[k], now')
<1> DEFINE kept == /\ entries[k] # NoEntry
                   /\ entries'[k] # NoEntry
                   /\ SameIdentity(entries'[k], entries[k])
<1>1. zeroUntil'[k] = IF kept THEN zeroUntil[k] ELSE Never
  BY DEF ForgetReplaced
<1>2. now \in Nat
  BY DEF IInv, TypeOK, Time
<1>3. CASE entries'[k] = entries[k]
  <2>1. zeroUntil'[k] \in {zeroUntil[k], Never}
    BY <1>1
  <2>2. QED
    BY <1>2, <1>3, <2>1 DEF IInv, KnownZeroBlocks, EveryBlockEnds, Never
<1>4. CASE entries'[k] = NoEntry
  BY <1>1, <1>2, <1>4 DEF Never
<1>5. ASSUME NEW who \in Identity, entries'[k] = NewEntry(who), ~Keeps(k, who)
      PROVE  /\ zeroUntil'[k] = Never
             /\ BlockEnds(entries'[k], now')
  <2>1. entries'[k].id = who.id /\ entries'[k].fp = who.fp
    BY <1>5 DEF NewEntry
  <2>2. ~kept
    BY <1>5, <2>1 DEF Keeps, SameIdentity
  <2>3. entries'[k].state = "uninitialized"
    BY <1>5 DEF NewEntry
  <2>4. QED
    BY <1>1, <2>2, <2>3 DEF BlockEnds
<1>6. QED
  BY <1>2, <1>3, <1>4, <1>5 DEF Never

LEMMA PickLeases ==
    ASSUME TypeOK, TypeOK',
           NEW r \in Requests, NEW g \in Groups, NEW cands \in CandidateLists, NEW mode,
           Pick(r, g, cands, mode), NEW k \in Keys
    PROVE  \/ entries'[k] = entries[k]
           \/ /\ entries[k] \in Entry /\ entries[k] # NoEntry
              /\ LeaseDue(entries[k], now)
              /\ entries'[k] = Leased(entries[k], r, now)
              /\ entries'[k] # NoEntry
<1>1. PICK n \in DOMAIN cands :
        LET x    == cands[n]
            e    == IF x \in Others THEN NoEntry ELSE Lookup(NoIndex, x, g)
            slot == IF e = NoEntry THEN NoIndex ELSE authByID[x]
            due  == Enforcing(mode) /\ e # NoEntry /\ LeaseDue(e, now)
        IN  entries' = IF due THEN [entries EXCEPT ![<<slot, g>>] = Leased(e, r, now)]
                       ELSE entries
  BY DEF Pick
<1> DEFINE x    == cands[n]
           e    == Lookup(NoIndex, x, g)
           slot == authByID[x]
<1>2. CASE entries' = entries
  BY <1>2
<1>3. CASE entries' # entries
  <2>1. /\ x \notin Others /\ e # NoEntry /\ LeaseDue(e, now)
        /\ entries' = [entries EXCEPT ![<<slot, g>>] = Leased(e, r, now)]
    BY <1>1, <1>3
  <2>2. x \in AuthIDs
    <3>1. cands \in Seq(AuthIDs \cup Others)
      BY NullAssumption DEF NullAssumption
    <3>2. QED
      BY <2>1, <3>1
  <2>3. slot = SlotOf(NoIndex, x)
    BY <2>2 DEF SlotOf
  <2>4. <<slot, g>> \in Keys /\ e \in Entry /\ e = entries[<<slot, g>>]
    BY <2>1, <2>2, <2>3, LookupFinds
  <2>5. Leased(e, r, now) # NoEntry
    BY <2>4, LeasedType, NullAssumption DEF NullAssumption, TypeOK
  <2> HIDE DEF e, slot
  <2>6. CASE k = <<slot, g>>
    BY <2>1, <2>4, <2>5, <2>6 DEF TypeOK
  <2>7. CASE k # <<slot, g>>
    BY <2>1, <2>7 DEF TypeOK
  <2>8. QED
    BY <2>6, <2>7
<1>4. QED
  BY <1>2, <1>3

LEMMA UsageChanges ==
    ASSUME TypeOK, TypeOK', NEW u \in usage, ObserveUsage(u), NEW k \in Keys
    PROVE  \/ entries'[k] = entries[k]
           \/ /\ entries[k] # NoEntry
              /\ entries'[k] = WithUsage(entries[k], u)
              /\ entries'[k] # NoEntry
<1> DEFINE e   == Lookup(u.index, u.id, u.group)
           key == <<SlotOf(u.index, u.id), u.group>>
<1>1. u \in UsageRecord
  BY DEF TypeOK
<1>2. entries' = IF e = NoEntry THEN entries
                 ELSE [entries EXCEPT ![key] = WithUsage(e, u)]
  BY DEF ObserveUsage
<1>3. e # NoEntry => key \in Keys /\ e \in Entry /\ e = entries[key]
  BY <1>1, LookupFinds DEF UsageRecord
<1>4. e # NoEntry => WithUsage(e, u) # NoEntry
  BY <1>1, <1>3, WithUsageType, NullAssumption DEF NullAssumption
<1> HIDE DEF e, key
<1>5. CASE k = key
  BY <1>2, <1>3, <1>4, <1>5 DEF TypeOK
<1>6. CASE k # key
  BY <1>2, <1>6 DEF TypeOK
<1>7. QED
  BY <1>5, <1>6

\* A pick in any mode grants at most a lease that is due.
LEMMA PickInvariant ==
    ASSUME IInv, NEW r \in Requests, NEW g \in Groups, NEW cands \in CandidateLists,
           NEW mode, Pick(r, g, cands, mode)
    PROVE  IInv'
<1>a. TypeOK'
  BY PickType DEF IInv
<1>t. /\ now \in Nat
      /\ \A k \in Keys : zeroUntil[k] \in Nat
      /\ \A k \in Keys : entries[k] # NoEntry => entries[k] \in Entry
  BY DEF IInv, TypeOK, Time
<1>1. ReportsPast'
  BY DEF Pick, IInv, ReportsPast
<1>2. ASSUME NEW k \in Keys
      PROVE  \/ entries'[k] = entries[k]
             \/ /\ entries[k] \in Entry /\ LeaseDue(entries[k], now)
                /\ entries[k] # NoEntry
                /\ entries'[k] = Leased(entries[k], r, now)
                /\ entries'[k] # NoEntry
  BY <1>a, PickLeases DEF IInv
<1>3. now' = now /\ zeroUntil' = zeroUntil
  BY DEF Pick
<1>4. KnownZeroBlocks'
  <2>1. ASSUME NEW k \in Keys, now < zeroUntil[k]
        PROVE  ~LeaseDue(entries[k], now)
    <3>1. /\ entries[k] # NoEntry /\ entries[k].state = "open"
          /\ entries[k].recoverAt >= zeroUntil[k]
      BY <2>1 DEF IInv, KnownZeroBlocks, ZeroBlock
    <3>2. entries[k].recoverAt \in Nat
      BY <1>t, <3>1 DEF Entry, Time
    <3>3. QED
      BY <1>t, <2>1, <3>1, <3>2 DEF LeaseDue
  <2>2. QED
    BY <1>2, <1>3, <2>1 DEF IInv, KnownZeroBlocks
<1>5. EveryBlockEnds'
  BY <1>t, <1>2, <1>3, LeaseEnds DEF IInv, EveryBlockEnds
<1>6. QED
  BY <1>a, <1>1, <1>4, <1>5 DEF IInv

LEMMA NextInvariant == IInv /\ [Next]_vars => IInv'
<1> SUFFICES ASSUME IInv, [Next]_vars
             PROVE  IInv'
  OBVIOUS
<1> USE DEF engineVars, hostVars
<1>0. TypeOK'
  BY NextType DEF IInv
\* It remains to establish the three other conjuncts for each action.
<1> DEFINE Rest == ReportsPast' /\ KnownZeroBlocks' /\ EveryBlockEnds'
<1>t. /\ now \in Nat
      /\ \A k \in Keys : zeroUntil[k] \in Nat
      /\ \A k \in Keys : entries[k] # NoEntry => entries[k] \in Entry
  BY DEF IInv, TypeOK, Time
<1>1. ASSUME Tick PROVE Rest
  <2>1. ReportsPast'
    <3>1. \A u \in usage : u.at \in Nat
      BY DEF IInv, TypeOK, UsageRecord, Time
    <3>2. probe # NoProbe => probe.at \in Nat
      BY DEF IInv, TypeOK, ProbeRound, Time
    <3>3. QED
      BY <1>1, <1>t, <3>1, <3>2 DEF Tick, IInv, ReportsPast
  <2>2. KnownZeroBlocks'
    BY <1>1, <1>t DEF Tick, IInv, KnownZeroBlocks
  <2>3. EveryBlockEnds'
    <3>1. ASSUME NEW k \in Keys, entries[k] # NoEntry
          PROVE  BlockEnds(entries[k], now + 1)
      BY <1>t, <3>1, BlockEndsLater DEF IInv, EveryBlockEnds
    <3>2. QED
      BY <1>1, <3>1 DEF Tick, EveryBlockEnds
  <2>4. QED
    BY <2>1, <2>2, <2>3
<1>2. ASSUME NEW roster \in HostRosters, ReplaceRoster(roster)
      PROVE  Rest
  <2>1. ReportsPast'
    BY <1>2 DEF ReplaceRoster, IInv, ReportsPast
  <2>2. ASSUME NEW k \in Keys
        PROVE  /\ now' < zeroUntil'[k] =>
                     entries'[k] # NoEntry /\ ZeroBlock(entries'[k], zeroUntil'[k])
               /\ entries'[k] # NoEntry => BlockEnds(entries'[k], now')
    <3> DEFINE who == roster[k[1]]
    <3>1. who \in Identity \cup {NoIdentity}
      BY InputAssumption DEF InputAssumption, Rosters, Keys
    <3>2. entries'[k] = IF who = NoIdentity THEN NoEntry
                        ELSE IF Keeps(k, who) THEN entries[k] ELSE NewEntry(who)
      BY <1>2 DEF ReplaceRoster, Reconciled
    <3>3. \/ entries'[k] \in {entries[k], NoEntry}
          \/ \E x \in Identity : entries'[k] = NewEntry(x) /\ ~Keeps(k, x)
      BY <3>1, <3>2
    <3>4. UNCHANGED now /\ ForgetReplaced
      BY <1>2 DEF ReplaceRoster
    <3>5. QED
      BY <3>3, <3>4, RosterKeeps
  <2>3. QED
    BY <2>1, <2>2 DEF KnownZeroBlocks, EveryBlockEnds
<1>3. ASSUME NEW roster \in HostRosters, NEW i \in AuthIndexes,
             RegisterIdentity(i, roster[i])
      PROVE  Rest
  <2>1. ReportsPast'
    BY <1>3 DEF RegisterIdentity, IInv, ReportsPast
  <2>2. ASSUME NEW k \in Keys
        PROVE  /\ now' < zeroUntil'[k] =>
                     entries'[k] # NoEntry /\ ZeroBlock(entries'[k], zeroUntil'[k])
               /\ entries'[k] # NoEntry => BlockEnds(entries'[k], now')
    <3>1. roster[i] \in Identity
      BY <1>3, InputAssumption DEF InputAssumption, Rosters, RegisterIdentity
    <3>2. entries'[k] = IF k[1] = i /\ ~Keeps(k, roster[i]) THEN NewEntry(roster[i])
                        ELSE entries[k]
      BY <1>3 DEF RegisterIdentity
    <3>3. \/ entries'[k] \in {entries[k], NoEntry}
          \/ \E x \in Identity : entries'[k] = NewEntry(x) /\ ~Keeps(k, x)
      BY <3>1, <3>2
    <3>4. UNCHANGED now /\ ForgetReplaced
      BY <1>3 DEF RegisterIdentity
    <3>5. QED
      BY <3>3, <3>4, RosterKeeps
  <2>3. QED
    BY <2>1, <2>2 DEF KnownZeroBlocks, EveryBlockEnds
<1>4. ASSUME NEW r \in Requests, NEW g \in Groups, NEW cands \in CandidateLists,
             NEW mode \in Modes, Pick(r, g, cands, mode)
      PROVE  Rest
  BY <1>4, PickInvariant DEF IInv
<1>5. ASSUME NEW r \in Requests, NEW kind \in Outcomes, NEW reset \in ResetTimes(kind),
             Complete(r, kind, reset)
      PROVE  Rest
  <2> DEFINE d == dispatched[r]
             u == [req |-> r, attempt |-> attempts[r], id |-> d.id, index |-> d.index,
                   group |-> d.group, kind |-> kind, leased |-> d.leased,
                   sentAt |-> d.at, at |-> now, reset |-> reset]
  <2>1. reset \in Nat /\ reset <= now + MaxDelay
    BY <1>t, BoundAssumption DEF BoundAssumption, ResetTimes, Never
  <2>2. usage' = usage \cup {u}
    BY <1>5 DEF Complete
  <2>3. u.at = now /\ u.reset = reset
    OBVIOUS
  <2> HIDE DEF u
  <2>4. ReportsPast'
    BY <1>5, <1>t, <2>1, <2>2, <2>3 DEF Complete, IInv, ReportsPast
  <2>5. QED
    BY <1>5, <2>4 DEF Complete, IInv, KnownZeroBlocks, EveryBlockEnds
<1>6. ASSUME NEW u \in usage, ObserveUsage(u)
      PROVE  Rest
  <2>1. u \in UsageRecord /\ u.at <= now /\ u.reset <= u.at + MaxDelay
    BY DEF IInv, TypeOK, ReportsPast
  <2>2. ReportsPast'
    BY <1>6 DEF ObserveUsage, IInv, ReportsPast
  <2>3. ASSUME NEW k \in Keys
        PROVE  \/ entries'[k] = entries[k]
               \/ /\ entries[k] # NoEntry
                  /\ entries'[k] = WithUsage(entries[k], u)
                  /\ entries'[k] # NoEntry
    BY <1>0, <1>6, UsageChanges DEF IInv
  <2>4. now' = now /\ zeroUntil' = zeroUntil
    BY <1>6 DEF ObserveUsage
  <2>5. KnownZeroBlocks'
    <3>1. ASSUME NEW k \in Keys, now < zeroUntil[k]
          PROVE  ZeroBlock(WithUsage(entries[k], u), zeroUntil[k])
      <4>1. entries[k] \in Entry /\ ZeroBlock(entries[k], zeroUntil[k])
        BY <1>t, <3>1 DEF IInv, KnownZeroBlocks
      <4>2. u.at < zeroUntil[k] /\ zeroUntil[k] \in Time
        <5>1. u.at \in Nat
          BY <2>1 DEF UsageRecord, Time
        <5>2. QED
          BY <1>t, <2>1, <3>1, <5>1 DEF Time
      <4>3. QED
        BY <2>1, <4>1, <4>2, UsageKeepsZeroBlock
    <3>2. QED
      BY <2>3, <2>4, <3>1 DEF IInv, KnownZeroBlocks
  <2>6. EveryBlockEnds'
    <3>1. ASSUME NEW k \in Keys, entries[k] # NoEntry
          PROVE  BlockEnds(WithUsage(entries[k], u), now)
      BY <1>t, <2>1, <3>1, UsageKeepsEnd DEF IInv, EveryBlockEnds
    <3>2. QED
      BY <2>3, <2>4, <3>1 DEF IInv, EveryBlockEnds
  <2>7. QED
    BY <2>2, <2>5, <2>6
<1>7. ASSUME StartProbe PROVE Rest
  <2>1. ReportsPast'
    BY <1>7, <1>t DEF StartProbe, IInv, ReportsPast
  <2>2. QED
    BY <1>7, <2>1 DEF StartProbe, IInv, KnownZeroBlocks, EveryBlockEnds
<1>8. ASSUME NEW k \in Keys, NEW zero \in BOOLEAN, NEW wait \in 0 .. MaxDelay,
             ApplyQuotaEvidence(k, zero, wait)
      PROVE  Rest
  <2> DEFINE resetAt == IF wait = 0 THEN Never ELSE probe.at + wait
             known   == CASE ExhaustedUntil(zero, probe.at, resetAt) -> resetAt
                          [] ~zero -> Never
                          [] OTHER -> zeroUntil[k]
  <2>1. probe \in ProbeRound /\ probe.at \in Nat /\ probe.at <= now
    BY <1>8 DEF ApplyQuotaEvidence, IInv, TypeOK, ReportsPast, ProbeRound, Time
  <2>2. resetAt \in Nat /\ resetAt <= probe.at + MaxDelay
    BY <2>1, BoundAssumption DEF BoundAssumption, Never
  <2>3. ReportsPast'
    <3>1. probe'.at = probe.at /\ UNCHANGED <<now, usage>>
      BY <1>8, <2>1 DEF ApplyQuotaEvidence, ProbeRound
    <3>2. QED
      BY <2>1, <3>1 DEF IInv, ReportsPast
  <2>4. now' = now
    BY <1>8 DEF ApplyQuotaEvidence
  <2>5. CASE Accepts(k, probe.who[k[1]], probe.at)
    <3> DEFINE e == WithEvidence(entries[k], probe.at, zero, resetAt)
    <3>1. entries' = [entries EXCEPT ![k] = e] /\ zeroUntil' = [zeroUntil EXCEPT ![k] = known]
      BY <1>8, <2>5 DEF ApplyQuotaEvidence
    <3>2. entries[k] # NoEntry /\ entries[k] \in Entry
      BY <1>t, <2>5 DEF Accepts
    <3>3. e # NoEntry /\ BlockEnds(e, now)
      <4>1. e \in Entry
        BY <2>1, <2>2, <3>2, WithEvidenceType DEF Time
      <4>2. e # NoEntry
        BY <4>1, NullAssumption DEF NullAssumption
      <4>3. QED
        BY <1>t, <2>1, <2>2, <3>2, <4>2, EvidenceKeepsEnd DEF IInv, EveryBlockEnds
    <3>4. now < known => ZeroBlock(e, known)
      <4>1. CASE ExhaustedUntil(zero, probe.at, resetAt)
        <5>1. known = resetAt
          BY <4>1 DEF ExhaustedUntil
        <5>2. QED
          BY <2>1, <2>2, <3>2, <4>1, <5>1, EvidenceSetsZeroBlock DEF Time
      <4>2. CASE ~ExhaustedUntil(zero, probe.at, resetAt) /\ ~zero
        <5>1. known = 0
          BY <4>2 DEF Never
        <5>2. QED
          BY <1>t, <5>1
      <4>3. CASE ~ExhaustedUntil(zero, probe.at, resetAt) /\ zero
        <5>1. known = zeroUntil[k]
          BY <4>3
        <5>2. now < zeroUntil[k] => ZeroBlock(entries[k], zeroUntil[k])
          BY DEF IInv, KnownZeroBlocks
        <5>3. QED
          BY <1>t, <2>1, <2>2, <3>2, <4>3, <5>1, <5>2, EvidenceSetsZeroBlock DEF Time
      <4>4. QED
        BY <4>1, <4>2, <4>3
    <3> HIDE DEF e, known
    <3>5. entries'[k] = e /\ zeroUntil'[k] = known
      BY <3>1 DEF IInv, TypeOK
    <3>6. \A x \in Keys : x # k => entries'[x] = entries[x] /\ zeroUntil'[x] = zeroUntil[x]
      BY <3>1 DEF IInv, TypeOK
    <3>7. KnownZeroBlocks'
      BY <2>4, <3>3, <3>4, <3>5, <3>6 DEF IInv, KnownZeroBlocks
    <3>8. EveryBlockEnds'
      BY <2>4, <3>3, <3>5, <3>6 DEF IInv, EveryBlockEnds
    <3>9. QED
      BY <2>3, <3>7, <3>8
  <2>6. CASE ~Accepts(k, probe.who[k[1]], probe.at)
    <3>1. UNCHANGED <<entries, zeroUntil>>
      BY <1>8, <2>6 DEF ApplyQuotaEvidence
    <3>2. QED
      BY <2>3, <2>4, <3>1 DEF IInv, KnownZeroBlocks, EveryBlockEnds
  <2>7. QED
    BY <2>5, <2>6
<1>9. ASSUME EndProbe PROVE Rest
  BY <1>9 DEF EndProbe, IInv, ReportsPast, KnownZeroBlocks, EveryBlockEnds
<1>10. ASSUME NEW k \in Keys, ManualHalfOpen(k)
       PROVE  Rest
  <2>1. ReportsPast'
    BY <1>10 DEF ManualHalfOpen, IInv, ReportsPast
  <2>2. entries[k] # NoEntry /\ entries[k] \in Entry
    BY <1>10, <1>t DEF ManualHalfOpen
  <2>3. now' = now /\ entries'[k] = Released(entries[k]) /\ zeroUntil'[k] = 0
    BY <1>10 DEF ManualHalfOpen, IInv, TypeOK, Never
  <2>4. \A x \in Keys : x # k => entries'[x] = entries[x] /\ zeroUntil'[x] = zeroUntil[x]
    BY <1>10 DEF ManualHalfOpen, IInv, TypeOK
  <2>5. BlockEnds(Released(entries[k]), now)
    BY <1>t, <2>2, ReleaseEnds
  <2>6. KnownZeroBlocks'
    BY <1>t, <2>3, <2>4 DEF IInv, KnownZeroBlocks
  <2>7. EveryBlockEnds'
    BY <2>3, <2>4, <2>5 DEF IInv, EveryBlockEnds
  <2>8. QED
    BY <2>1, <2>6, <2>7
<1>11. ASSUME Reload PROVE Rest
  <2>1. ReportsPast'
    BY <1>11 DEF Reload, IInv, ReportsPast
  <2>2. now' = now /\ zeroUntil' = zeroUntil
    BY <1>11 DEF Reload
  <2>3. ASSUME NEW k \in Keys
        PROVE  entries'[k] = IF entries[k] = NoEntry THEN NoEntry ELSE Persisted(entries[k])
    BY <1>11 DEF Reload
  <2>4. ASSUME NEW k \in Keys, entries[k] # NoEntry
        PROVE  /\ Persisted(entries[k]) # NoEntry
               /\ BlockEnds(Persisted(entries[k]), now)
               /\ \A until : ZeroBlock(entries[k], until) => ZeroBlock(Persisted(entries[k]), until)
    <3>1. entries[k] \in Entry
      BY <1>t, <2>4
    <3>2. Persisted(entries[k]) # NoEntry
      BY <3>1, ReleasedType, NullAssumption DEF NullAssumption
    <3>3. BlockEnds(Persisted(entries[k]), now)
      BY <1>t, <2>4, <3>1, PersistedEnds DEF IInv, EveryBlockEnds
    <3>4. ASSUME NEW until, ZeroBlock(entries[k], until)
          PROVE  ZeroBlock(Persisted(entries[k]), until)
      BY <3>1, <3>4 DEF ZeroBlock, Persisted, Entry
    <3>5. QED
      BY <3>2, <3>3, <3>4
  <2>5. KnownZeroBlocks'
    BY <2>2, <2>3, <2>4 DEF IInv, KnownZeroBlocks
  <2>6. EveryBlockEnds'
    BY <2>2, <2>3, <2>4 DEF EveryBlockEnds
  <2>7. QED
    BY <2>1, <2>5, <2>6
<1>12. ASSUME UNCHANGED vars PROVE Rest
  BY <1>12 DEF vars, IInv, ReportsPast, KnownZeroBlocks, EveryBlockEnds
<1>13. QED
  BY <1>0, <1>1, <1>2, <1>3, <1>4, <1>5, <1>6, <1>7, <1>8, <1>9, <1>10, <1>11, <1>12
     DEF Next, IInv

\* A credential whose quota a probe found exhausted stays blocked until the
\* reset the probe named.
THEOREM KnownZeroBlocksAlways == Spec => []KnownZeroBlocks
<1>1. IInv => KnownZeroBlocks
  BY DEF IInv
<1>2. QED
  BY <1>1, InitInvariant, NextInvariant, PTL DEF Spec

\* No breaker stays open, and no lease runs, for ever.
THEOREM EveryBlockEndsAlways == Spec => []EveryBlockEnds
<1>1. IInv => EveryBlockEnds
  BY DEF IInv
<1>2. QED
  BY <1>1, InitInvariant, NextInvariant, PTL DEF Spec

-----------------------------------------------------------------------------
(***************************************************************************)
(* The transitions of one breaker, by the fields they change.              *)
(***************************************************************************)
LEMMA OpenEntryKeeps ==
    ASSUME NEW e \in Entry, NEW why, NEW until
    PROVE  /\ OpenEntry(e, why, until).evidenceAt = e.evidenceAt
           /\ OpenEntry(e, why, until).quotaAt = e.quotaAt
           /\ OpenEntry(e, why, until).owner = NoRequest
  BY DEF OpenEntry, Entry

LEMMA CloseEntryKeeps ==
    ASSUME NEW e \in Entry
    PROVE  /\ CloseEntry(e).evidenceAt = e.evidenceAt
           /\ CloseEntry(e).quotaAt = e.quotaAt
           /\ CloseEntry(e).owner = NoRequest
  BY DEF CloseEntry, Entry

\* The result of an explicit 429, field by field.
LEMMA Explicit429Fields ==
    ASSUME NEW e \in Entry, NEW u \in UsageRecord
    PROVE  LET named == IF u.reset > u.at THEN u.reset ELSE u.at + MaxCooldown
               held  == HardActive(e, u.at)
               o     == WithExplicit429(e, u)
           IN  /\ o.state = "open" /\ o.owner = NoRequest
               /\ o.recoverAt = IF held THEN Later(e.recoverAt, named) ELSE named
               /\ o.reason = IF held THEN e.reason ELSE "explicit_429"
               /\ o.evidenceAt = u.at /\ o.quotaAt = e.quotaAt
<1> DEFINE named  == IF u.reset > u.at THEN u.reset ELSE u.at + MaxCooldown
           until  == IF HardActive(e, u.at) THEN Later(e.recoverAt, named) ELSE named
           why    == IF HardActive(e, u.at) THEN e.reason ELSE "explicit_429"
           opened == OpenEntry(e, why, until)
<1>1. WithExplicit429(e, u) =
        [opened EXCEPT !.failures = e.failures + 1, !.failedAt = u.at, !.evidenceAt = u.at]
  BY Zenon DEF WithExplicit429
<1>2. opened \in Entry
  <2>1. u.at \in Nat /\ u.reset \in Nat /\ MaxCooldown \in Nat /\ e.recoverAt \in Nat
    BY ConfigAssumption DEF ConfigAssumption, UsageRecord, Entry, Time
  <2>2. named \in Nat
    BY <2>1
  <2>3. until \in Time
    <3> HIDE DEF named
    <3>1. QED  BY <2>1, <2>2 DEF Later, Time
  <2>4. why \in Reasons
    BY DEF Reasons, Entry
  <2> HIDE DEF until, why
  <2>5. QED  BY <2>3, <2>4, OpenEntryType
<1>3. /\ opened.state = "open" /\ opened.reason = why /\ opened.recoverAt = until
      /\ opened.owner = NoRequest /\ opened.quotaAt = e.quotaAt
  <2> HIDE DEF why, until
  <2>1. QED  BY OpenEntryFields, OpenEntryKeeps
<1> HIDE DEF opened, why, until
<1>4. /\ WithExplicit429(e, u).state = "open" /\ WithExplicit429(e, u).owner = NoRequest
      /\ WithExplicit429(e, u).recoverAt = until /\ WithExplicit429(e, u).reason = why
      /\ WithExplicit429(e, u).evidenceAt = u.at /\ WithExplicit429(e, u).quotaAt = e.quotaAt
  BY <1>1, <1>2, <1>3 DEF Entry
<1>5. QED  BY <1>4 DEF why, until

\* The result of a generic 429: counted only, or opened.
LEMMA Generic429Fields ==
    ASSUME NEW e \in Entry, NEW u \in UsageRecord
    PROVE  /\ WithGeneric429(e, u).evidenceAt = u.at
           /\ WithGeneric429(e, u).quotaAt = e.quotaAt
           /\ \/ /\ WithGeneric429(e, u).state = e.state
                 /\ WithGeneric429(e, u).recoverAt = e.recoverAt
                 /\ WithGeneric429(e, u).reason = e.reason
                 /\ WithGeneric429(e, u).owner = e.owner
                 /\ WithGeneric429(e, u).startedAt = e.startedAt
                 /\ HardActive(e, u.at) \/ ~Cooling(e)
              \/ ~HardActive(e, u.at) /\ WithGeneric429(e, u).state = "open"
<1> DEFINE n       == Streak(e, u)
           counted == [e EXCEPT !.failures = n, !.failedAt = u.at, !.evidenceAt = u.at]
           until   == Later(u.at + GenericCooldown(e, n), u.reset)
<1>1. counted \in Entry /\ counted.evidenceAt = u.at /\ counted.quotaAt = e.quotaAt
      /\ counted.state = e.state /\ counted.recoverAt = e.recoverAt
      /\ counted.reason = e.reason /\ counted.owner = e.owner
      /\ counted.startedAt = e.startedAt
  <2>1. n \in Nat /\ u.at \in Time
    BY DEF Streak, Entry, UsageRecord
  <2> HIDE DEF n
  <2>2. QED  BY <2>1 DEF Entry
<1>2. WithGeneric429(e, u) =
        IF HardActive(e, u.at) \/ (n < Threshold /\ ~Cooling(e))
          THEN counted ELSE OpenEntry(counted, "generic_429", until)
  BY Zenon DEF WithGeneric429
<1> HIDE DEF counted, until, n
<1>3. QED  BY <1>1, <1>2, OpenEntryFields, OpenEntryKeeps

\* The result of a success: a settled lease, a reset streak, or nothing.
LEMMA SuccessFields ==
    ASSUME NEW e \in Entry, NEW u \in UsageRecord
    PROVE  /\ WithSuccess(e, u).quotaAt = e.quotaAt
           /\ \/ /\ SettlesLease(e, u)
                 /\ WithSuccess(e, u).evidenceAt = u.at
                 /\ WithSuccess(e, u).owner = NoRequest
                 /\ WithSuccess(e, u).state = "closed"
              \/ /\ WithSuccess(e, u).evidenceAt = e.evidenceAt
                 /\ WithSuccess(e, u).state = e.state
                 /\ WithSuccess(e, u).owner = e.owner
                 /\ WithSuccess(e, u).startedAt = e.startedAt
                 /\ e.state # "closed" => WithSuccess(e, u) = e
<1>1. CASE SettlesLease(e, u)
  <2>1. WithSuccess(e, u) = [CloseEntry(e) EXCEPT !.evidenceAt = u.at]
    BY <1>1 DEF WithSuccess
  <2>2. CloseEntry(e) \in Entry /\ CloseEntry(e).state = "closed"
    BY CloseEntryType, CloseEntryFields
  <2>3. QED  BY <1>1, <2>1, <2>2, CloseEntryKeeps DEF Entry
<1>2. CASE ~SettlesLease(e, u) /\ e.state = "closed" /\ u.at >= e.failedAt
  <2>1. WithSuccess(e, u) = [e EXCEPT !.failures = 0, !.failedAt = Never]
    BY <1>2 DEF WithSuccess
  <2>2. QED  BY <1>2, <2>1 DEF Entry
<1>3. CASE ~SettlesLease(e, u) /\ ~(e.state = "closed" /\ u.at >= e.failedAt)
  BY <1>3 DEF WithSuccess
<1>4. QED  BY <1>1, <1>2, <1>3

\* What a delivered record does to what is known.
LEMMA UsageKnows ==
    ASSUME NEW e \in Entry, NEW u \in UsageRecord
    PROVE  /\ WithUsage(e, u).quotaAt = e.quotaAt
           /\ \/ WithUsage(e, u).evidenceAt = e.evidenceAt
              \/ WithUsage(e, u).evidenceAt = u.at /\ u.at >= e.evidenceAt
<1>1. u.at \in Nat /\ e.evidenceAt \in Nat
  BY DEF UsageRecord, Entry, Time
<1>2. CASE Superseded(e, u.at) \/ Fenced(e, u)
  BY <1>2 DEF WithUsage
<1>3. CASE ~Superseded(e, u.at) /\ ~Fenced(e, u)
  <2>1. u.at >= e.evidenceAt
    BY <1>1, <1>3 DEF Superseded
  <2>2. WithUsage(e, u) \in {e, WithSuccess(e, u), WithExplicit429(e, u), WithGeneric429(e, u)}
    BY <1>3 DEF WithUsage
  <2>3. QED  BY <2>1, <2>2, SuccessFields, Explicit429Fields, Generic429Fields
<1>4. QED  BY <1>2, <1>3

\* Quota evidence becomes what is known.
LEMMA EvidenceKnows ==
    ASSUME NEW e \in Entry, NEW at \in Time, NEW zero \in BOOLEAN, NEW resetAt \in Time
    PROVE  /\ WithEvidence(e, at, zero, resetAt).evidenceAt = at
           /\ WithEvidence(e, at, zero, resetAt).quotaAt = at
<1> DEFINE seen == [e EXCEPT !.evidenceAt = at, !.quotaAt = at]
<1>1. seen \in Entry /\ seen.evidenceAt = at /\ seen.quotaAt = at
  BY DEF Entry
<1>2. WithEvidence(e, at, zero, resetAt) \in
          {seen, OpenEntry(seen, "quota_zero", resetAt), CloseEntry(seen)}
  BY DEF WithEvidence, ExhaustedUntil
<1> HIDE DEF seen
<1>3. QED  BY <1>1, <1>2, OpenEntryKeeps, CloseEntryKeeps

\* Leases, releases and reloads leave it alone.
LEMMA LeasesKnow ==
    ASSUME NEW e \in Entry, NEW r, NEW t
    PROVE  /\ Leased(e, r, t).evidenceAt = e.evidenceAt /\ Leased(e, r, t).quotaAt = e.quotaAt
           /\ Released(e).evidenceAt = e.evidenceAt /\ Released(e).quotaAt = e.quotaAt
           /\ Persisted(e).evidenceAt = e.evidenceAt /\ Persisted(e).quotaAt = e.quotaAt
  BY DEF Leased, Released, Persisted, Entry

-----------------------------------------------------------------------------
(***************************************************************************)
(* The ways in which a step changes the breaker of k: the roster replaces  *)
(* it, or one transition moves it.                                         *)
(***************************************************************************)
Replaced(k) ==
    \/ entries'[k] = NoEntry
    \/ \E who \in Identity : entries'[k] = NewEntry(who) /\ ~Keeps(k, who)

\* Only a dispatch grants a lease.
Taken(k) ==
    \E r \in Requests :
        /\ attempts'[r] # attempts[r]
        /\ LeaseDue(entries[k], now)
        /\ entries'[k] = Leased(entries[k], r, now)

Turned(k) ==
    \/ \E u \in usage : entries'[k] = WithUsage(entries[k], u)
    \/ /\ probe # NoProbe /\ probe \in ProbeRound
       /\ Accepts(k, probe.who[k[1]], probe.at)
       /\ \E zero \in BOOLEAN, resetAt \in Time :
              entries'[k] = WithEvidence(entries[k], probe.at, zero, resetAt)
    \/ entries'[k] = Released(entries[k])
    \/ entries'[k] = Persisted(entries[k])

Moved(k) == Taken(k) \/ Turned(k)

Held(k) ==
    \/ entries'[k] = entries[k]
    \/ entries[k] \in Entry /\ entries[k] # NoEntry /\ Moved(k)

EntryMoves(k) == Replaced(k) \/ Held(k)

RosterChange ==
    \/ \E roster \in HostRosters : ReplaceRoster(roster)
    \/ \E roster \in HostRosters, i \in AuthIndexes : RegisterIdentity(i, roster[i])

LEMMA RosterStep ==
    ASSUME TypeOK, NEW roster \in Rosters, NEW k \in Keys,
           entries'[k] = Reconciled(roster)[k]
    PROVE  entries'[k] = entries[k] \/ Replaced(k)
<1>1. roster[k[1]] \in Identity \cup {NoIdentity}
  BY DEF Rosters, Keys
<1>2. QED  BY <1>1 DEF Reconciled, Replaced

\* Only the roster calls replace an entry.
LEMMA HeldStep ==
    ASSUME TypeOK, [Next]_vars, ~RosterChange, NEW k \in Keys
    PROVE  Held(k)
<1> USE DEF engineVars, hostVars
<1>0. TypeOK' /\ (entries[k] # NoEntry => entries[k] \in Entry)
  BY NextType DEF TypeOK
<1>1. CASE Tick \/ StartProbe \/ EndProbe \/ UNCHANGED vars
  BY <1>1 DEF Tick, StartProbe, EndProbe, vars, Held
<1>2. CASE \E r \in Requests, kind \in Outcomes : \E reset \in ResetTimes(kind) :
             Complete(r, kind, reset)
  BY <1>2 DEF Complete, Held
<1>3. CASE \E r \in Requests, g \in Groups, cands \in CandidateLists, mode \in Modes :
             Pick(r, g, cands, mode)
  <2>1. PICK r \in Requests, g \in Groups, cands \in CandidateLists, mode \in Modes :
             Pick(r, g, cands, mode)
    BY <1>3
  <2>2. attempts'[r] # attempts[r]
    BY <2>1 DEF Pick, Sent, TypeOK
  <2>3. QED  BY <1>0, <2>1, <2>2, PickLeases DEF Held, Moved, Taken
<1>4. CASE \E u \in usage : ObserveUsage(u)
  <2>1. PICK u \in usage : ObserveUsage(u)
    BY <1>4
  <2>2. QED  BY <1>0, <2>1, UsageChanges DEF Held, Moved, Turned
<1>5. CASE \E c \in Keys, zero \in BOOLEAN, wait \in 0 .. MaxDelay :
             ApplyQuotaEvidence(c, zero, wait)
  <2>1. PICK c \in Keys, zero \in BOOLEAN, wait \in 0 .. MaxDelay :
             ApplyQuotaEvidence(c, zero, wait)
    BY <1>5
  <2> DEFINE resetAt == IF wait = 0 THEN Never ELSE probe.at + wait
  <2>2. probe # NoProbe /\ probe \in ProbeRound
    BY <2>1 DEF ApplyQuotaEvidence, TypeOK
  <2>3. resetAt \in Time
    BY <2>2, BoundAssumption DEF BoundAssumption, ProbeRound, Time, Never
  <2>4. entries'[k] = entries[k] \/
        (k = c /\ Accepts(k, probe.who[k[1]], probe.at)
            /\ entries'[k] = WithEvidence(entries[k], probe.at, zero, resetAt))
    BY <2>1 DEF ApplyQuotaEvidence, TypeOK
  <2>5. CASE entries'[k] = entries[k]
    BY <2>5 DEF Held
  <2>6. CASE /\ k = c /\ Accepts(k, probe.who[k[1]], probe.at)
             /\ entries'[k] = WithEvidence(entries[k], probe.at, zero, resetAt)
    <3> HIDE DEF resetAt
    <3>1. entries[k] # NoEntry
      BY <2>6 DEF Accepts
    <3>2. Moved(k)
      BY <2>2, <2>3, <2>6 DEF Moved, Turned
    <3>3. QED  BY <1>0, <3>1, <3>2 DEF Held
  <2>7. QED  BY <2>4, <2>5, <2>6
<1>6. CASE \E c \in Keys : ManualHalfOpen(c)
  BY <1>0, <1>6 DEF ManualHalfOpen, Held, Moved, Turned, TypeOK
<1>7. CASE Reload
  <2>1. entries'[k] = IF entries[k] = NoEntry THEN NoEntry ELSE Persisted(entries[k])
    BY <1>7 DEF Reload
  <2>2. QED  BY <1>0, <2>1 DEF Held, Moved, Turned
<1>8. QED
  BY <1>1, <1>2, <1>3, <1>4, <1>5, <1>6, <1>7 DEF Next, RosterChange

LEMMA EntryStep ==
    ASSUME TypeOK, [Next]_vars, NEW k \in Keys
    PROVE  EntryMoves(k)
<1>1. CASE \E roster \in HostRosters : ReplaceRoster(roster)
  <2>1. PICK roster \in HostRosters : ReplaceRoster(roster)
    BY <1>1
  <2>2. roster \in Rosters
    BY InputAssumption DEF InputAssumption
  <2>3. entries'[k] = Reconciled(roster)[k]
    BY <2>1 DEF ReplaceRoster
  <2>4. QED  BY <2>2, <2>3, RosterStep DEF EntryMoves, Held
<1>2. CASE \E roster \in HostRosters, i \in AuthIndexes : RegisterIdentity(i, roster[i])
  <2>1. PICK roster \in HostRosters, i \in AuthIndexes : RegisterIdentity(i, roster[i])
    BY <1>2
  <2>2. roster[i] \in Identity
    BY <2>1, InputAssumption DEF InputAssumption, Rosters, RegisterIdentity
  <2>3. entries'[k] = IF k[1] = i /\ ~Keeps(k, roster[i]) THEN NewEntry(roster[i])
                      ELSE entries[k]
    BY <2>1 DEF RegisterIdentity
  <2>4. QED  BY <2>2, <2>3 DEF EntryMoves, Held, Replaced
<1>3. CASE ~RosterChange
  BY <1>3, HeldStep DEF Held, EntryMoves
<1>4. QED  BY <1>1, <1>2, <1>3 DEF RosterChange

\* A record leaves usage only when the engine observes it.
LEMMA DeliveredStep ==
    ASSUME [Next]_vars, NEW u \in Delivered
    PROVE  u \in usage /\ ObserveUsage(u)
<1>1. u \in usage /\ u \notin usage'
  BY DEF Delivered
<1>2. usage \subseteq usage' \/ \E w \in usage : ObserveUsage(w)
  <2>1. CASE RosterChange
    BY <2>1 DEF RosterChange, ReplaceRoster, RegisterIdentity, hostVars
  <2>2. CASE ~RosterChange
    BY <2>2 DEF RosterChange, Next, Tick, Pick, Complete, StartProbe,
           ApplyQuotaEvidence, EndProbe, ManualHalfOpen, Reload, vars, hostVars
  <2>3. QED  BY <2>1, <2>2
<1>3. PICK w \in usage : ObserveUsage(w)
  BY <1>1, <1>2
<1>4. u = w
  BY <1>1, <1>3 DEF ObserveUsage
<1>5. QED  BY <1>1, <1>3, <1>4

-----------------------------------------------------------------------------
(***************************************************************************)
(* Hard blocks.                                                            *)
(***************************************************************************)
LEMMA UsageKeepsHard ==
    ASSUME NEW e \in Entry, NEW u \in UsageRecord, HardActive(e, u.at)
    PROVE  /\ WithUsage(e, u).state = "open"
           /\ WithUsage(e, u).recoverAt >= e.recoverAt
           /\ WithUsage(e, u).reason \in Hard
<1>1. /\ e.state = "open" /\ e.reason \in Hard /\ e.recoverAt \in Nat
      /\ u.at \in Nat /\ u.reset \in Nat /\ MaxCooldown \in Nat
  BY ConfigAssumption DEF ConfigAssumption, HardActive, UsageRecord, Entry, Time
<1>2. WithSuccess(e, u) = e
  BY <1>1, SuccessFields DEF SettlesLease, WithSuccess
<1>3. /\ WithExplicit429(e, u).state = "open"
      /\ WithExplicit429(e, u).recoverAt >= e.recoverAt
      /\ WithExplicit429(e, u).reason \in Hard
  BY <1>1, Explicit429Fields DEF Later
<1>4. /\ WithGeneric429(e, u).state = "open"
      /\ WithGeneric429(e, u).recoverAt >= e.recoverAt
      /\ WithGeneric429(e, u).reason \in Hard
  BY <1>1, Generic429Fields
<1>5. WithUsage(e, u) \in {e, WithSuccess(e, u), WithExplicit429(e, u), WithGeneric429(e, u)}
  BY DEF WithUsage
<1>6. QED  BY <1>1, <1>2, <1>3, <1>4, <1>5

LEMMA StepKeepsHard ==
    ASSUME IInv, NEW u \in usage, ObserveUsage(u), NEW k \in Keys,
           entries[k] # NoEntry, HardActive(entries[k], now)
    PROVE  /\ entries'[k].state = "open"
           /\ entries'[k].recoverAt >= entries[k].recoverAt
           /\ entries'[k].reason \in Hard
<1>1. /\ entries[k] \in Entry /\ u \in UsageRecord /\ u.at <= now
      /\ now \in Nat /\ u.at \in Nat /\ entries[k].recoverAt \in Nat
  BY DEF IInv, TypeOK, ReportsPast, UsageRecord, Entry, Time
<1>2. HardActive(entries[k], u.at)
  BY <1>1 DEF HardActive
<1>3. TypeOK'
  BY NextType DEF IInv, Next
<1>4. entries'[k] = entries[k] \/ entries'[k] = WithUsage(entries[k], u)
  BY <1>3, UsageChanges DEF IInv
<1>5. QED  BY <1>1, <1>2, <1>4, UsageKeepsHard DEF HardActive

\* A 429 never brings forward the end of a quota or reset breaker that is still
\* running, nor makes it half-open or closed (observe.go, observe429Locked).
THEOREM HardNeverShortenedAlways == Spec => HardNeverShortened
<1>1. ASSUME IInv, [Next]_vars
      PROVE  [\A u \in Delivered : LET k == About(u) IN
                k \in Keys /\ entries[k] # NoEntry /\ HardActive(entries[k], now) =>
                  /\ entries'[k].state = "open"
                  /\ entries'[k].recoverAt >= entries[k].recoverAt
                  /\ entries'[k].reason \in Hard]_vars
  BY <1>1, DeliveredStep, StepKeepsHard
<1>2. QED  BY <1>1, InitInvariant, NextInvariant, PTL DEF Spec, HardNeverShortened

-----------------------------------------------------------------------------
(***************************************************************************)
(* What is known of a credential.                                          *)
(***************************************************************************)
\* Quota evidence is evidence.
QuotaKnown ==
    \A k \in Keys : entries[k] # NoEntry => entries[k].quotaAt <= entries[k].evidenceAt

LEMMA NewEntryBlank ==
    ASSUME NEW who
    PROVE  /\ NewEntry(who).id = who.id /\ NewEntry(who).fp = who.fp
           /\ NewEntry(who).quotaAt = 0 /\ NewEntry(who).evidenceAt = 0
           /\ NewEntry(who).state = "uninitialized" /\ NewEntry(who).owner = NoRequest
  BY DEF NewEntry, Never

LEMMA MovedKnows ==
    ASSUME TypeOK, NEW k \in Keys, entries[k] \in Entry, Moved(k)
    PROVE  /\ entries'[k] \in Entry /\ SameIdentity(entries'[k], entries[k])
           /\ \/ /\ entries'[k].quotaAt = entries[k].quotaAt
                 /\ entries'[k].evidenceAt >= entries[k].evidenceAt
              \/ /\ probe # NoProbe /\ probe \in ProbeRound
                 /\ Accepts(k, probe.who[k[1]], probe.at)
                 /\ entries'[k].quotaAt = probe.at
                 /\ entries'[k].evidenceAt = probe.at
<1> DEFINE e == entries[k]
<1>0. e.evidenceAt \in Nat /\ now \in Time
  BY DEF Entry, Time, TypeOK
<1>1. ASSUME NEW r \in Requests, entries'[k] = Leased(e, r, now)
      PROVE  entries'[k] \in Entry /\ SameIdentity(entries'[k], e) /\ entries'[k].quotaAt = e.quotaAt
             /\ entries'[k].evidenceAt >= e.evidenceAt
  BY <1>0, <1>1, LeasedType, LeasesKnow
<1>2. ASSUME NEW u \in usage, entries'[k] = WithUsage(e, u)
      PROVE  entries'[k] \in Entry /\ SameIdentity(entries'[k], e) /\ entries'[k].quotaAt = e.quotaAt
             /\ entries'[k].evidenceAt >= e.evidenceAt
  <2>1. u \in UsageRecord
    BY DEF TypeOK
  <2> HIDE DEF e
  <2>2. e \in Entry
    BY DEF e
  <2>3. QED  BY <1>0, <1>2, <2>1, <2>2, WithUsageType, UsageKnows
<1>3. ASSUME probe \in ProbeRound, NEW zero \in BOOLEAN, NEW resetAt \in Time,
             entries'[k] = WithEvidence(e, probe.at, zero, resetAt)
      PROVE  entries'[k] \in Entry /\ SameIdentity(entries'[k], e) /\ entries'[k].quotaAt = probe.at
             /\ entries'[k].evidenceAt = probe.at
  <2>1. probe.at \in Time
    BY <1>3 DEF ProbeRound
  <2>2. QED  BY <1>3, <2>1, WithEvidenceType, EvidenceKnows
<1>4. ASSUME entries'[k] \in {Released(e), Persisted(e)}
      PROVE  entries'[k] \in Entry /\ SameIdentity(entries'[k], e) /\ entries'[k].quotaAt = e.quotaAt
             /\ entries'[k].evidenceAt >= e.evidenceAt
  BY <1>0, <1>4, ReleasedType, LeasesKnow
<1> HIDE DEF e
<1>5. QED  BY <1>1, <1>2, <1>3, <1>4 DEF Moved, Taken, Turned, e

\* Quota evidence reaches only the credential that was probed, even when the
\* slot changed hands while the probe was under way (ApplyQuotaEvidence).
THEOREM EvidenceStaysWithCredentialAlways == Spec => EvidenceStaysWithCredential
<1>1. ASSUME TypeOK, [Next]_vars, NEW k \in Keys,
             entries'[k] # NoEntry, entries'[k].quotaAt # Never
      PROVE  \/ /\ entries[k] # NoEntry
                /\ SameIdentity(entries'[k], entries[k])
                /\ entries'[k].quotaAt = entries[k].quotaAt
             \/ /\ probe # NoProbe
                /\ SameIdentity(entries'[k], probe.who[k[1]])
                /\ entries'[k].quotaAt = probe.at
  <2>1. EntryMoves(k)
    BY <1>1, EntryStep
  <2>2. ~Replaced(k)
    BY <1>1, NewEntryBlank DEF Replaced, Never
  <2>3. CASE entries'[k] = entries[k]
    BY <1>1, <2>3 DEF SameIdentity
  <2>4. CASE entries[k] \in Entry /\ entries[k] # NoEntry /\ Moved(k)
    BY <1>1, <2>4, MovedKnows DEF Accepts, SameIdentity
  <2>5. QED  BY <2>1, <2>2, <2>3, <2>4 DEF EntryMoves, Held
<1>2. TypeOK /\ [Next]_vars =>
        [\A k \in Keys :
          entries'[k] # NoEntry /\ entries'[k].quotaAt # Never =>
            \/ /\ entries[k] # NoEntry
               /\ SameIdentity(entries'[k], entries[k])
               /\ entries'[k].quotaAt = entries[k].quotaAt
            \/ /\ probe # NoProbe
               /\ SameIdentity(entries'[k], probe.who[k[1]])
               /\ entries'[k].quotaAt = probe.at]_vars
  BY <1>1
<1>3. QED  BY <1>2, InitType, NextType, PTL DEF Spec, EvidenceStaysWithCredential

LEMMA QuotaKnownStep ==
    ASSUME TypeOK, QuotaKnown, [Next]_vars
    PROVE  QuotaKnown'
<1>1. SUFFICES ASSUME NEW k \in Keys, entries'[k] # NoEntry
               PROVE  entries'[k].quotaAt <= entries'[k].evidenceAt
  BY DEF QuotaKnown
<1>2. EntryMoves(k)
  BY EntryStep
<1>3. CASE entries'[k] = entries[k]
  BY <1>1, <1>3 DEF QuotaKnown
<1>4. CASE Replaced(k)
  BY <1>1, <1>4, NewEntryBlank DEF Replaced
<1>5. CASE entries[k] \in Entry /\ entries[k] # NoEntry /\ Moved(k)
  <2>1. entries[k].quotaAt \in Nat /\ entries[k].evidenceAt \in Nat
        /\ entries[k].quotaAt <= entries[k].evidenceAt
    BY <1>5 DEF QuotaKnown, Entry, Time
  <2>2. TypeOK'
    BY NextType
  <2>3. entries'[k].quotaAt \in Nat /\ entries'[k].evidenceAt \in Nat
    BY <1>1, <2>2 DEF TypeOK, Entry, Time
  <2>4. QED  BY <1>5, <2>1, <2>3, MovedKnows
<1>6. QED  BY <1>2, <1>3, <1>4, <1>5 DEF EntryMoves, Held

LEMMA KnowledgeStep ==
    ASSUME TypeOK, QuotaKnown, [Next]_vars, NEW k \in Keys,
           entries[k] # NoEntry, entries'[k] # NoEntry,
           SameIdentity(entries'[k], entries[k])
    PROVE  \/ entries'[k].evidenceAt > entries[k].evidenceAt
           \/ /\ entries'[k].evidenceAt = entries[k].evidenceAt
              /\ entries'[k].quotaAt >= entries[k].quotaAt
           \/ entries'[k] = NewEntry(entries[k])
<1>1. EntryMoves(k) /\ TypeOK'
  BY EntryStep, NextType
<1>2. /\ entries[k] \in Entry /\ entries'[k] \in Entry
      /\ entries[k].quotaAt \in Nat /\ entries[k].evidenceAt \in Nat
      /\ entries'[k].quotaAt \in Nat /\ entries'[k].evidenceAt \in Nat
      /\ entries[k].quotaAt <= entries[k].evidenceAt
  BY <1>1 DEF QuotaKnown, TypeOK, Entry, Time
<1>3. CASE entries'[k] = entries[k]
  BY <1>2, <1>3
<1>4. CASE Replaced(k)
  <2>1. PICK who \in Identity : entries'[k] = NewEntry(who)
    BY <1>4 DEF Replaced
  <2>2. QED  BY <2>1 DEF NewEntry, SameIdentity
<1>5. CASE Moved(k)
  <2>1. CASE /\ entries'[k].quotaAt = entries[k].quotaAt
             /\ entries'[k].evidenceAt >= entries[k].evidenceAt
    BY <1>2, <2>1
  <2>2. CASE /\ probe \in ProbeRound
             /\ Accepts(k, probe.who[k[1]], probe.at)
             /\ entries'[k].quotaAt = probe.at
             /\ entries'[k].evidenceAt = probe.at
    <3>1. probe.at \in Nat /\ probe.at >= entries[k].evidenceAt
      BY <1>2, <2>2 DEF Accepts, Superseded, ProbeRound, Time
    <3>2. QED  BY <1>2, <2>2, <3>1
  <2>3. QED  BY <1>2, <1>5, <2>1, <2>2, MovedKnows
<1>6. QED  BY <1>1, <1>3, <1>4, <1>5 DEF EntryMoves, Held

\* What is known of a credential is never replaced by older knowledge, however
\* late records and probe results arrive (observe.go).
THEOREM KnowledgeOnlyGrowsAlways == Spec => KnowledgeOnlyGrows
<1>1. Init => TypeOK /\ QuotaKnown
  BY InitType DEF Init, QuotaKnown
<1>2. TypeOK /\ QuotaKnown /\ [Next]_vars => (TypeOK /\ QuotaKnown)'
  BY NextType, QuotaKnownStep
<1>3. TypeOK /\ QuotaKnown /\ [Next]_vars =>
        [\A k \in Keys :
          entries[k] # NoEntry /\ entries'[k] # NoEntry
            /\ SameIdentity(entries'[k], entries[k]) =>
                \/ entries'[k].evidenceAt > entries[k].evidenceAt
                \/ /\ entries'[k].evidenceAt = entries[k].evidenceAt
                   /\ entries'[k].quotaAt >= entries[k].quotaAt
                \/ entries'[k] = NewEntry(entries[k])]_vars
  BY KnowledgeStep
<1>4. QED  BY <1>1, <1>2, <1>3, PTL DEF Spec, KnowledgeOnlyGrows

-----------------------------------------------------------------------------
(***************************************************************************)
(* The index by name.                                                      *)
(***************************************************************************)
\* A slot that the index names is one of the slots.
LEMMA IndexedKey ==
    ASSUME TypeOK, NEW a \in AuthIDs, NEW g \in Groups, authByID[a] # NoIndex
    PROVE  <<authByID[a], g>> \in Keys
  BY DEF TypeOK, Keys

\* A step that keeps the identities and the index.
LEMMA IndexKept ==
    ASSUME TypeOK, RosterIndexed, authByID' = authByID,
           \A k \in Keys : /\ entries'[k] = NoEntry <=> entries[k] = NoEntry
                           /\ entries[k] # NoEntry => SameIdentity(entries'[k], entries[k])
    PROVE  RosterIndexed'
<1>1. \A k \in Keys : entries'[k] # NoEntry => entries'[k].id = entries[k].id
                                               /\ entries'[k].fp = entries[k].fp
  BY DEF SameIdentity
<1>2. Loadable'
  BY <1>1 DEF RosterIndexed, Loadable, SameIdentity
<1>3. \A k \in Keys : entries'[k] # NoEntry => authByID'[entries'[k].id] = k[1]
  BY <1>1 DEF RosterIndexed
<1>4. ASSUME NEW a \in AuthIDs, NEW g \in Groups, authByID'[a] # NoIndex
      PROVE  entries'[<<authByID'[a], g>>] # NoEntry
             /\ entries'[<<authByID'[a], g>>].id = a
  BY <1>1, <1>4, IndexedKey DEF RosterIndexed
<1>5. QED  BY <1>2, <1>3, <1>4 DEF RosterIndexed

LEMMA IndexOfSlot ==
    ASSUME NEW roster \in Rosters, DistinctIDs(roster)
    PROVE  /\ \A i \in AuthIndexes : roster[i] # NoIdentity => IndexOf(roster)[roster[i].id] = i
           /\ \A a \in AuthIDs : IndexOf(roster)[a] # NoIndex =>
                 /\ IndexOf(roster)[a] \in AuthIndexes
                 /\ roster[IndexOf(roster)[a]] # NoIdentity
                 /\ roster[IndexOf(roster)[a]].id = a
<1> DEFINE at(a) == {i \in AuthIndexes : roster[i] # NoIdentity /\ roster[i].id = a}
           slot(a) == CHOOSE i \in AuthIndexes : roster[i] # NoIdentity /\ roster[i].id = a
<1>1. ASSUME NEW a \in AuthIDs
      PROVE  /\ at(a) # {} => slot(a) \in at(a) /\ IndexOf(roster)[a] = slot(a)
             /\ at(a) = {} => IndexOf(roster)[a] = NoIndex
  <2>1. at(a) # {} => slot(a) \in at(a)
    OBVIOUS
  <2>2. QED  BY <2>1 DEF IndexOf
<1>2. ASSUME NEW i \in AuthIndexes, roster[i] # NoIdentity
      PROVE  IndexOf(roster)[roster[i].id] = i
  <2>1. roster[i].id \in AuthIDs
    BY <1>2 DEF Rosters, Identity
  <2>2. i \in at(roster[i].id)
    BY <1>2
  <2>3. slot(roster[i].id) \in at(roster[i].id)
        /\ IndexOf(roster)[roster[i].id] = slot(roster[i].id)
    BY <1>1, <2>1, <2>2
  <2>4. QED  BY <1>2, <2>3 DEF DistinctIDs
<1>3. QED  BY <1>1, <1>2

\* A step that puts a roster of distinct names in force.
LEMMA RosterApplied ==
    ASSUME TypeOK, NEW roster \in Rosters, DistinctIDs(roster),
           authByID' = IndexOf(roster),
           \A k \in Keys : /\ entries'[k] = NoEntry <=> roster[k[1]] = NoIdentity
                           /\ entries'[k] # NoEntry => SameIdentity(entries'[k], roster[k[1]])
    PROVE  RosterIndexed'
<1>1. \A k \in Keys : k[1] \in AuthIndexes
  BY DEF Keys
<1>2. \A k \in Keys : entries'[k] # NoEntry =>
          /\ roster[k[1]] # NoIdentity
          /\ entries'[k].id = roster[k[1]].id /\ entries'[k].fp = roster[k[1]].fp
  BY DEF SameIdentity
<1>3. Loadable'
  BY <1>1, <1>2 DEF Loadable, DistinctIDs, SameIdentity
<1>4. \A k \in Keys : entries'[k] # NoEntry => authByID'[entries'[k].id] = k[1]
  BY <1>1, <1>2, IndexOfSlot
<1>5. ASSUME NEW a \in AuthIDs, NEW g \in Groups, authByID'[a] # NoIndex
      PROVE  entries'[<<authByID'[a], g>>] # NoEntry
             /\ entries'[<<authByID'[a], g>>].id = a
  <2> DEFINE i == authByID'[a]
  <2>1. i \in AuthIndexes /\ roster[i] # NoIdentity /\ roster[i].id = a
    BY <1>5, IndexOfSlot
  <2> HIDE DEF i
  <2>2. <<i, g>> \in Keys /\ <<i, g>>[1] = i
    BY <2>1 DEF Keys
  <2>3. QED  BY <1>2, <2>1, <2>2 DEF i
<1>6. QED  BY <1>3, <1>4, <1>5 DEF RosterIndexed

\* The roster that the breakers describe.
LEMMA CurrentRoster ==
    ASSUME TypeOK, RosterIndexed, NEW k \in Keys
    PROVE  /\ entries[k] = NoEntry <=> CurrentIdentity(k[1]) = NoIdentity
           /\ entries[k] # NoEntry => SameIdentity(entries[k], CurrentIdentity(k[1]))
<1> DEFINE i    == k[1]
           held == {g \in Groups : entries[<<i, g>>] # NoEntry}
           g0   == CHOOSE g \in held : TRUE
           e    == entries[<<i, g0>>]
<1>1. i \in AuthIndexes /\ k[2] \in Groups /\ k = <<i, k[2]>>
  BY DEF Keys
<1>2. CASE held = {}
  <2>1. entries[k] = NoEntry
    BY <1>1, <1>2
  <2>2. QED  BY <1>2, <2>1 DEF CurrentIdentity
<1>3. CASE held # {}
  <2>1. g0 \in Groups /\ e # NoEntry
    BY <1>3
  <2>2. CurrentIdentity(i) = [id |-> e.id, fp |-> e.fp]
    BY <1>3 DEF CurrentIdentity
  <2> HIDE DEF held, g0
  <2>3. <<i, g0>> \in Keys /\ <<i, g0>>[1] = i
    BY <1>1, <2>1 DEF Keys
  <2>4. e \in Entry
    BY <2>1, <2>3 DEF TypeOK
  <2>5. CurrentIdentity(i) # NoIdentity
    <3>1. CurrentIdentity(i) \in Identity
      BY <2>2, <2>4 DEF Entry, Identity
    <3>2. QED  BY <3>1, NullAssumption DEF NullAssumption
  <2>6. authByID[e.id] = i /\ e.id \in AuthIDs
    BY <2>1, <2>3, <2>4 DEF RosterIndexed, Entry
  <2>7. entries[k] # NoEntry
    <3>1. i # NoIndex
      BY <1>1, NullAssumption DEF NullAssumption
    <3>2. QED  BY <1>1, <2>6, <3>1 DEF RosterIndexed
  <2>8. SameIdentity(entries[k], e)
    BY <2>1, <2>3, <2>7 DEF RosterIndexed, Loadable
  <2>9. QED  BY <2>2, <2>5, <2>7, <2>8 DEF SameIdentity
<1>4. QED  BY <1>2, <1>3

LEMMA CurrentDistinct ==
    ASSUME TypeOK, RosterIndexed
    PROVE  DistinctIDs([i \in AuthIndexes |-> CurrentIdentity(i)])
<1> SUFFICES ASSUME NEW i \in AuthIndexes, NEW j \in AuthIndexes,
                    CurrentIdentity(i) # NoIdentity, CurrentIdentity(j) # NoIdentity,
                    CurrentIdentity(i).id = CurrentIdentity(j).id
             PROVE  i = j
  BY DEF DistinctIDs
<1>1. ASSUME NEW s \in AuthIndexes, CurrentIdentity(s) # NoIdentity
      PROVE  authByID[CurrentIdentity(s).id] = s
  <2>1. PICK g \in Groups : entries[<<s, g>>] # NoEntry
    BY <1>1 DEF CurrentIdentity
  <2>2. <<s, g>> \in Keys /\ <<s, g>>[1] = s
    BY DEF Keys
  <2>3. entries[<<s, g>>].id = CurrentIdentity(s).id
    BY <2>1, <2>2, CurrentRoster DEF SameIdentity
  <2>4. QED  BY <2>1, <2>2, <2>3 DEF RosterIndexed
<1>2. QED  BY <1>1

LEMMA ReconciledRoster ==
    ASSUME TypeOK, NEW roster \in Rosters, NEW k \in Keys
    PROVE  /\ Reconciled(roster)[k] = NoEntry <=> roster[k[1]] = NoIdentity
           /\ Reconciled(roster)[k] # NoEntry =>
                 SameIdentity(Reconciled(roster)[k], roster[k[1]])
<1>1. roster[k[1]] \in Identity \cup {NoIdentity}
  BY DEF Rosters, Keys
<1>2. CASE roster[k[1]] = NoIdentity
  BY <1>2 DEF Reconciled
<1>3. CASE roster[k[1]] # NoIdentity
  <2>1. NewEntry(roster[k[1]]) # NoEntry /\ SameIdentity(NewEntry(roster[k[1]]), roster[k[1]])
    BY <1>1, <1>3, NewEntryType, NullAssumption DEF NullAssumption
  <2>2. Reconciled(roster)[k] = IF Keeps(k, roster[k[1]]) THEN entries[k]
                                ELSE NewEntry(roster[k[1]])
    BY <1>3 DEF Reconciled
  <2>3. QED  BY <1>3, <2>1, <2>2 DEF Keeps
<1>4. QED  BY <1>2, <1>3

\* Registering one credential keeps the index if its name is free or its own.
LEMMA RegisterIndexed ==
    ASSUME TypeOK, RosterIndexed, NEW i \in AuthIndexes, NEW who \in Identity,
           RegisterIdentity(i, who)
    PROVE  RosterIndexed'
<1> USE NullAssumption DEF NullAssumption
<1>1. /\ who.id \in AuthIDs /\ authByID[who.id] \in {NoIndex, i}
      /\ \A k \in Keys : entries'[k] = IF k[1] = i /\ ~Keeps(k, who) THEN NewEntry(who)
                                       ELSE entries[k]
      /\ \A a \in AuthIDs : authByID'[a] = IF a = who.id THEN i
                                           ELSE IF authByID[a] = i THEN NoIndex ELSE authByID[a]
  BY DEF RegisterIdentity, Identity
<1>2. \A k \in Keys : k[1] = i => entries'[k] # NoEntry
                                  /\ entries'[k].id = who.id /\ entries'[k].fp = who.fp
  <2>1. NewEntry(who) # NoEntry
    BY NewEntryType
  <2>2. QED  BY <1>1, <2>1, NewEntryBlank DEF Keeps, SameIdentity
<1>3. ASSUME NEW k \in Keys, k[1] # i, entries'[k] # NoEntry
      PROVE  /\ entries'[k] = entries[k] /\ entries[k].id # who.id
             /\ entries[k].id \in AuthIDs /\ authByID'[entries[k].id] = k[1]
  <2>1. entries'[k] = entries[k] /\ entries[k] \in Entry
    BY <1>1, <1>3 DEF TypeOK
  <2>2. authByID[entries[k].id] = k[1] /\ k[1] \in AuthIndexes /\ entries[k].id \in AuthIDs
    BY <1>3, <2>1 DEF RosterIndexed, Keys, Entry
  <2>3. entries[k].id # who.id
    BY <1>1, <1>3, <2>2
  <2>4. QED  BY <1>1, <1>3, <2>1, <2>2, <2>3
<1>4. Loadable'
  <2> SUFFICES ASSUME NEW j \in Keys, NEW k \in Keys,
                      entries'[j] # NoEntry, entries'[k] # NoEntry
               PROVE  /\ j[1] = k[1] => SameIdentity(entries'[j], entries'[k])
                      /\ entries'[j].id = entries'[k].id => j[1] = k[1]
    BY DEF Loadable
  <2>1. CASE j[1] = i /\ k[1] = i
    BY <1>2, <2>1 DEF SameIdentity
  <2>2. CASE j[1] # i /\ k[1] # i
    BY <1>3, <2>2 DEF RosterIndexed, Loadable
  <2>3. CASE j[1] # i /\ k[1] = i
    BY <1>2, <1>3, <2>3
  <2>4. CASE j[1] = i /\ k[1] # i
    BY <1>2, <1>3, <2>4
  <2>5. QED  BY <2>1, <2>2, <2>3, <2>4
<1>5. \A k \in Keys : entries'[k] # NoEntry => authByID'[entries'[k].id] = k[1]
  BY <1>1, <1>2, <1>3
<1>6. ASSUME NEW a \in AuthIDs, NEW g \in Groups, authByID'[a] # NoIndex
      PROVE  entries'[<<authByID'[a], g>>] # NoEntry
             /\ entries'[<<authByID'[a], g>>].id = a
  <2>1. CASE a = who.id
    <3>1. <<i, g>> \in Keys /\ <<i, g>>[1] = i
      BY DEF Keys
    <3>2. QED  BY <1>1, <1>2, <2>1, <3>1
  <2>2. CASE a # who.id
    <3>1. authByID'[a] = authByID[a] /\ authByID[a] # i /\ authByID[a] # NoIndex
      BY <1>1, <1>6, <2>2
    <3>2. <<authByID[a], g>> \in Keys /\ <<authByID[a], g>>[1] # i
      BY <3>1, IndexedKey
    <3>3. entries[<<authByID[a], g>>] # NoEntry /\ entries[<<authByID[a], g>>].id = a
      BY <3>1 DEF RosterIndexed
    <3>4. QED  BY <1>1, <3>1, <3>2, <3>3
  <2>3. QED  BY <2>1, <2>2
<1>7. QED  BY <1>4, <1>5, <1>6 DEF RosterIndexed

LEMMA InitIndexed == Init => RosterIndexed
  BY DEF Init, RosterIndexed, Loadable

\* Saving and loading rebuilds the index from the breakers.
LEMMA ReloadIndexed ==
    ASSUME TypeOK, RosterIndexed, Reload
    PROVE  RosterIndexed'
<1> DEFINE roster == [i \in AuthIndexes |-> CurrentIdentity(i)]
<1>1. /\ roster \in Rosters /\ DistinctIDs(roster)
      /\ authByID' = IndexOf(roster)
  BY CurrentIdentityType, CurrentDistinct DEF Reload
<1>2. ASSUME NEW k \in Keys
      PROVE  /\ entries'[k] = NoEntry <=> roster[k[1]] = NoIdentity
             /\ entries'[k] # NoEntry => SameIdentity(entries'[k], roster[k[1]])
  <2>1. roster[k[1]] = CurrentIdentity(k[1])
    BY DEF Keys
  <2>2. entries'[k] = IF entries[k] = NoEntry THEN NoEntry ELSE Persisted(entries[k])
    BY DEF Reload
  <2>3. entries[k] # NoEntry =>
          Persisted(entries[k]) # NoEntry /\ SameIdentity(Persisted(entries[k]), entries[k])
    BY ReleasedType, NullAssumption DEF NullAssumption, TypeOK
  <2> HIDE DEF roster
  <2>4. QED  BY <2>1, <2>2, <2>3, CurrentRoster DEF SameIdentity
<1> HIDE DEF roster
<1>3. QED  BY <1>1, <1>2, RosterApplied

LEMMA IndexedStep == TypeOK /\ RosterIndexed /\ [Next]_vars => RosterIndexed'
<1> SUFFICES ASSUME TypeOK, RosterIndexed, [Next]_vars
             PROVE  RosterIndexed'
  OBVIOUS
<1>1. CASE \E roster \in HostRosters : ReplaceRoster(roster)
  <2>1. PICK roster \in HostRosters : ReplaceRoster(roster)
    BY <1>1
  <2>2. roster \in Rosters /\ DistinctIDs(roster) /\ authByID' = IndexOf(roster)
        /\ entries' = Reconciled(roster)
    BY <2>1, InputAssumption DEF InputAssumption, ReplaceRoster
  <2>3. QED  BY <2>2, ReconciledRoster, RosterApplied
<1>2. CASE \E roster \in HostRosters, i \in AuthIndexes : RegisterIdentity(i, roster[i])
  <2>1. PICK roster \in HostRosters, i \in AuthIndexes : RegisterIdentity(i, roster[i])
    BY <1>2
  <2>2. roster[i] \in Identity
    BY <2>1, InputAssumption DEF InputAssumption, Rosters, RegisterIdentity
  <2>3. QED  BY <2>1, <2>2, RegisterIndexed
<1>3. CASE Reload
  BY <1>3, ReloadIndexed
<1>4. CASE ~RosterChange /\ ~Reload
  <2>1. authByID' = authByID
    <3>1. CASE \E r \in Requests, g \in Groups, cands \in CandidateLists, mode \in Modes :
                  Pick(r, g, cands, mode)
      BY <3>1 DEF Pick
    <3>2. CASE \E r \in Requests, kind \in Outcomes : \E reset \in ResetTimes(kind) :
                  Complete(r, kind, reset)
      BY <3>2 DEF Complete, engineVars
    <3>3. CASE \E u \in usage : ObserveUsage(u)
      BY <3>3 DEF ObserveUsage
    <3>4. CASE \E k \in Keys, zero \in BOOLEAN, wait \in 0 .. MaxDelay :
                  ApplyQuotaEvidence(k, zero, wait)
      BY <3>4 DEF ApplyQuotaEvidence
    <3>5. CASE \/ Tick \/ StartProbe \/ EndProbe \/ UNCHANGED vars
               \/ \E k \in Keys : ManualHalfOpen(k)
      BY <3>5 DEF Tick, StartProbe, EndProbe, ManualHalfOpen, vars, engineVars
    <3>6. QED  BY <1>4, <3>1, <3>2, <3>3, <3>4, <3>5 DEF Next, RosterChange
  <2>2. ASSUME NEW k \in Keys
        PROVE  /\ entries'[k] = NoEntry <=> entries[k] = NoEntry
               /\ entries[k] # NoEntry => SameIdentity(entries'[k], entries[k])
    <3>1. Held(k)
      BY <1>4, HeldStep
    <3>2. CASE entries'[k] = entries[k]
      BY <3>2 DEF SameIdentity
    <3>3. CASE entries[k] \in Entry /\ entries[k] # NoEntry /\ Moved(k)
      BY <3>3, MovedKnows, NullAssumption DEF NullAssumption
    <3>4. QED  BY <3>1, <3>2, <3>3 DEF Held
  <2>3. QED  BY <2>1, <2>2, IndexKept
<1>5. QED  BY <1>1, <1>2, <1>3, <1>4 DEF RosterChange

\* The index by name and the breakers describe the same roster, so what is
\* saved passes the validation a load applies (engine.go, roster.go).
THEOREM RosterIndexedAlways == Spec => []RosterIndexed
<1>1. Init => TypeOK /\ RosterIndexed
  BY InitType, InitIndexed
<1>2. TypeOK /\ RosterIndexed /\ [Next]_vars => (TypeOK /\ RosterIndexed)'
  BY NextType, IndexedStep
<1>3. QED  BY <1>1, <1>2, PTL DEF Spec

-----------------------------------------------------------------------------
(***************************************************************************)
(* Recovery leases.  Whatever the owner of a lease has in flight or has    *)
(* reported for the leased credential was sent under that lease.           *)
(***************************************************************************)
Owned(k) ==
    entries[k] # NoEntry /\ entries[k].state = "half_open" /\ entries[k].owner # NoRequest

\* An attempt or a record that is about the breaker of k.
Concerns(d, k) == d.id = entries[k].id /\ d.group = k[2]

Knows(k) ==
    LET e == entries[k]
        d == dispatched[e.owner]
    IN  /\ d # NoDispatch /\ Concerns(d, k) => d.leased /\ d.at >= e.startedAt
        /\ \A u \in usage :
              u.req = e.owner /\ u.kind = "success" /\ Concerns(u, k) =>
                  u.leased /\ u.sentAt >= e.startedAt

OwnerKnows == \A k \in Keys : Owned(k) => Knows(k)

\* A request that succeeded is not dispatched again.
SuccessFinal == \A u \in usage : u.kind = "success" => attempts[u.req] >= MaxAttempts

\* A step that grants no lease leaves an owned breaker to its owner.
OwnerKept(k) ==
    Owned(k)' => /\ Owned(k)
                 /\ entries'[k].owner = entries[k].owner
                 /\ entries'[k].startedAt = entries[k].startedAt
                 /\ entries'[k].id = entries[k].id

LEMMA EvidenceKeepsOwner ==
    ASSUME NEW e \in Entry, NEW at \in Time, NEW zero \in BOOLEAN, NEW resetAt \in Time,
           WithEvidence(e, at, zero, resetAt).owner # NoRequest
    PROVE  /\ WithEvidence(e, at, zero, resetAt).owner = e.owner
           /\ WithEvidence(e, at, zero, resetAt).state = e.state
           /\ WithEvidence(e, at, zero, resetAt).startedAt = e.startedAt
<1> DEFINE seen == [e EXCEPT !.evidenceAt = at, !.quotaAt = at]
<1>1. seen \in Entry /\ seen.owner = e.owner /\ seen.state = e.state
      /\ seen.startedAt = e.startedAt
  BY DEF Entry
<1>2. WithEvidence(e, at, zero, resetAt) \in
          {seen, OpenEntry(seen, "quota_zero", resetAt), CloseEntry(seen)}
  BY DEF WithEvidence, ExhaustedUntil
<1> HIDE DEF seen
<1>3. QED  BY <1>1, <1>2, OpenEntryKeeps, CloseEntryKeeps

LEMMA UsageKeepsOwner ==
    ASSUME NEW e \in Entry, NEW u \in UsageRecord,
           WithUsage(e, u).owner # NoRequest, WithUsage(e, u).state = "half_open"
    PROVE  /\ WithUsage(e, u).owner = e.owner
           /\ e.state = "half_open"
           /\ WithUsage(e, u).startedAt = e.startedAt
<1>1. WithUsage(e, u) \in {e, WithSuccess(e, u), WithExplicit429(e, u), WithGeneric429(e, u)}
  BY DEF WithUsage
<1>2. QED  BY <1>1, SuccessFields, Explicit429Fields, Generic429Fields

LEMMA TurnedKeepsOwner ==
    ASSUME TypeOK, NEW k \in Keys, EntryMoves(k), ~Taken(k)
    PROVE  OwnerKept(k)
<1> SUFFICES ASSUME entries'[k] # NoEntry, entries'[k].state = "half_open",
                    entries'[k].owner # NoRequest, entries'[k] # entries[k]
             PROVE  /\ Owned(k)
                    /\ entries'[k].owner = entries[k].owner
                    /\ entries'[k].startedAt = entries[k].startedAt
                    /\ entries'[k].id = entries[k].id
  BY DEF OwnerKept, Owned
<1>1. ~Replaced(k)
  BY NewEntryBlank DEF Replaced
<1>2. entries[k] \in Entry /\ entries[k] # NoEntry /\ Turned(k) /\ Moved(k)
  BY <1>1 DEF EntryMoves, Held, Moved
<1>3. entries'[k].id = entries[k].id
  BY <1>2, MovedKnows DEF SameIdentity
<1>4. /\ Released(entries[k]).owner = NoRequest
      /\ Persisted(entries[k]).owner = NoRequest
  BY <1>2 DEF Released, Persisted, Entry
<1>5. ASSUME NEW u \in usage, entries'[k] = WithUsage(entries[k], u)
      PROVE  /\ entries'[k].owner = entries[k].owner /\ entries[k].state = "half_open"
             /\ entries'[k].startedAt = entries[k].startedAt
  BY <1>2, <1>5, UsageKeepsOwner DEF TypeOK
<1>6. ASSUME probe \in ProbeRound, NEW zero \in BOOLEAN, NEW resetAt \in Time,
             entries'[k] = WithEvidence(entries[k], probe.at, zero, resetAt)
      PROVE  /\ entries'[k].owner = entries[k].owner /\ entries[k].state = "half_open"
             /\ entries'[k].startedAt = entries[k].startedAt
  <2>1. probe.at \in Time
    BY <1>6 DEF ProbeRound
  <2>2. QED  BY <1>2, <1>6, <2>1, EvidenceKeepsOwner
<1>7. QED  BY <1>2, <1>3, <1>4, <1>5, <1>6 DEF Turned, Owned

\* A step that starts nothing, and records only what was in flight.
LEMMA OwnerKnowsKept ==
    ASSUME TypeOK, OwnerKnows, \A k \in Keys : OwnerKept(k),
           \A r \in Requests : dispatched'[r] \in {dispatched[r], NoDispatch},
           \A u \in usage' : u \in usage \/
               LET d == dispatched[u.req] IN
               /\ d # NoDispatch
               /\ u.id = d.id /\ u.group = d.group /\ u.leased = d.leased /\ u.sentAt = d.at
    PROVE  OwnerKnows'
<1> SUFFICES ASSUME NEW k \in Keys, Owned(k)'
             PROVE  Knows(k)'
  BY DEF OwnerKnows
<1> DEFINE e == entries[k]
           d == dispatched[e.owner]
<1>1. /\ Owned(k) /\ entries'[k].owner = e.owner /\ entries'[k].startedAt = e.startedAt
      /\ entries'[k].id = e.id /\ e.owner \in Requests
  BY DEF OwnerKept, Owned, TypeOK, Entry
<1>2. d # NoDispatch /\ Concerns(d, k) => d.leased /\ d.at >= e.startedAt
  BY <1>1 DEF OwnerKnows, Knows
<1>3. \A u \in usage : u.req = e.owner /\ u.kind = "success" /\ Concerns(u, k) =>
          u.leased /\ u.sentAt >= e.startedAt
  BY <1>1 DEF OwnerKnows, Knows
<1>4. \A u \in usage' : u.req = e.owner /\ u.kind = "success" /\ Concerns(u, k) =>
          u.leased /\ u.sentAt >= e.startedAt
  BY <1>2, <1>3 DEF Concerns
<1>5. dispatched'[e.owner] \in {d, NoDispatch}
  BY <1>1
<1> HIDE DEF e, d
<1>6. LET c == dispatched'[entries'[k].owner]
      IN  c # NoDispatch /\ c.id = entries'[k].id /\ c.group = k[2] =>
              c.leased /\ c.at >= entries'[k].startedAt
  BY <1>1, <1>2, <1>5 DEF Concerns, e
<1>7. \A u \in usage' :
          u.req = entries'[k].owner /\ u.kind = "success"
            /\ u.id = entries'[k].id /\ u.group = k[2] =>
              u.leased /\ u.sentAt >= entries'[k].startedAt
  BY <1>1, <1>4 DEF Concerns, e
<1>8. QED  BY <1>6, <1>7 DEF Knows, Concerns

\* The entry of a registered name is found by the name.
LEMMA LookupNamed ==
    ASSUME TypeOK, RosterIndexed, NEW k \in Keys, entries[k] # NoEntry
    PROVE  /\ entries[k].id \in AuthIDs /\ entries[k].id \notin Others
           /\ authByID[entries[k].id] = k[1]
           /\ Lookup(NoIndex, entries[k].id, k[2]) = entries[k]
<1>1. entries[k] \in Entry /\ k[1] \in AuthIndexes /\ k = <<k[1], k[2]>>
  BY DEF TypeOK, Keys
<1>2. entries[k].id \in AuthIDs /\ entries[k].id \notin Others /\ k[1] # NoIndex
  BY <1>1, NullAssumption DEF NullAssumption, Entry
<1>3. authByID[entries[k].id] = k[1]
  BY DEF RosterIndexed
<1>4. QED  BY <1>1, <1>2, <1>3 DEF Lookup, SlotOf

\* A pick that takes a lease, or one of another breaker.
LEMMA PickKnows ==
    ASSUME TypeOK, TypeOK', RosterIndexed, OwnerKnows, SuccessFinal,
           NEW r \in Requests, NEW g \in Groups, NEW cands \in CandidateLists, NEW mode,
           Pick(r, g, cands, mode), Enforcing(mode) \/ \A k \in Keys : ~Owned(k)
    PROVE  OwnerKnows'
<1> SUFFICES ASSUME NEW k \in Keys, Owned(k)'
             PROVE  Knows(k)'
  BY DEF OwnerKnows
<1>1. PICK n \in DOMAIN cands :
        LET x    == cands[n]
            e    == IF x \in Others THEN NoEntry ELSE Lookup(NoIndex, x, g)
            slot == IF e = NoEntry THEN NoIndex ELSE authByID[x]
            due  == Enforcing(mode) /\ e # NoEntry /\ LeaseDue(e, now)
        IN  /\ Enforcing(mode) => Chosen(cands, g, n)
            /\ entries' = IF due THEN [entries EXCEPT ![<<slot, g>>] = Leased(e, r, now)]
                          ELSE entries
            /\ Sent(r, x, slot, g, due)
  BY DEF Pick
<1> DEFINE x    == cands[n]
           e    == IF x \in Others THEN NoEntry ELSE Lookup(NoIndex, x, g)
           slot == IF e = NoEntry THEN NoIndex ELSE authByID[x]
           due  == Enforcing(mode) /\ e # NoEntry /\ LeaseDue(e, now)
           d    == [id |-> x, index |-> slot, group |-> g, at |-> now, leased |-> due]
<1>2. /\ Enforcing(mode) => Available(x, g)
      /\ entries' = IF due THEN [entries EXCEPT ![<<slot, g>>] = Leased(e, r, now)]
                    ELSE entries
      /\ dispatched' = [dispatched EXCEPT ![r] = d]
  BY <1>1 DEF Chosen, AvailableAt, Sent
<1>3. /\ usage' = usage /\ now \in Nat /\ attempts[r] < MaxAttempts
      /\ attempts[r] \in Nat /\ MaxAttempts \in Nat
  BY BoundAssumption DEF BoundAssumption, Pick, MayDispatch, TypeOK, Time
<1>4. \A u \in usage : ~(u.req = r /\ u.kind = "success")
  BY <1>3 DEF SuccessFinal
<1>5. dispatched'[r] = d /\ d.id = x /\ d.group = g /\ d.at = now /\ d.leased = due
  BY <1>2 DEF TypeOK
<1> HIDE DEF x, e, slot, due, d
<1>6. CASE entries'[k] # entries[k]
  <2>1. due
    BY <1>2, <1>6
  <2>2. entries[k] \in Entry /\ entries'[k] = Leased(entries[k], r, now)
    BY <1>6, PickLeases
  <2>3. entries'[k].owner = r /\ entries'[k].startedAt = now
    BY <2>2 DEF Leased, Entry
  <2>4. dispatched'[entries'[k].owner].leased /\ dispatched'[entries'[k].owner].at = now
    BY <1>5, <2>1, <2>3
  <2>5. QED  BY <1>3, <1>4, <2>3, <2>4 DEF Knows
<1>7. CASE entries'[k] = entries[k]
  <2>1. Owned(k) /\ Knows(k) /\ Enforcing(mode) /\ entries[k].owner \in Requests
    BY <1>7 DEF Owned, OwnerKnows, TypeOK, Entry
  <2>2. CASE entries[k].owner # r
    <3>1. dispatched'[entries'[k].owner] = dispatched[entries[k].owner]
      BY <1>2, <1>7, <2>1, <2>2 DEF TypeOK
    <3>2. QED  BY <1>3, <1>7, <2>1, <3>1 DEF Knows, Concerns
  <2>3. CASE entries[k].owner = r
    <3>1. ASSUME x = entries[k].id, g = k[2]
          PROVE  due /\ entries[k].startedAt = now
      <4>1. e = entries[k] /\ slot = k[1] /\ x \notin Others
        BY <2>1, <3>1, LookupNamed DEF Owned, e, slot
      <4>2. Lookup(NoIndex, x, g) = entries[k] /\ entries[k] # NoEntry
            /\ entries[k].state = "half_open"
        BY <2>1, <3>1, LookupNamed DEF Owned
      <4>3. due
        BY <1>2, <2>1, <4>1, <4>2 DEF Available, due
      <4>4. <<slot, g>> = k
        BY <3>1, <4>1 DEF Keys
      <4>5. entries'[k] = Leased(entries[k], r, now) /\ entries[k] \in Entry
        BY <1>2, <4>1, <4>2, <4>3, <4>4 DEF TypeOK
      <4>6. Leased(entries[k], r, now).startedAt = now
        BY <4>5 DEF Leased, Entry
      <4>7. QED  BY <1>7, <4>3, <4>5, <4>6
    <3>2. x = entries[k].id /\ g = k[2] => d.leased /\ d.at >= entries[k].startedAt
      BY <1>3, <1>5, <3>1
    <3>3. QED  BY <1>3, <1>4, <1>5, <1>7, <2>3, <3>2 DEF Knows, Concerns
  <2>4. QED  BY <2>2, <2>3
<1>8. QED  BY <1>6, <1>7

LEMMA CompleteKnows ==
    ASSUME TypeOK, OwnerKnows, SuccessFinal,
           NEW r \in Requests, NEW kind, NEW reset, Complete(r, kind, reset)
    PROVE  OwnerKnows' /\ SuccessFinal'
<1> DEFINE d == dispatched[r]
           u == [req |-> r, attempt |-> attempts[r], id |-> d.id, index |-> d.index,
                 group |-> d.group, kind |-> kind, leased |-> d.leased,
                 sentAt |-> d.at, at |-> now, reset |-> reset]
<1>1. /\ d # NoDispatch /\ usage' = usage \cup {u} /\ entries' = entries
      /\ dispatched' = [dispatched EXCEPT ![r] = NoDispatch]
      /\ attempts' = [attempts EXCEPT ![r] = IF kind = "success" THEN MaxAttempts ELSE @]
  BY DEF Complete, engineVars
<1>2. /\ u.req = r /\ u.id = d.id /\ u.group = d.group /\ u.leased = d.leased
      /\ u.sentAt = d.at /\ u.kind = kind
  OBVIOUS
<1> HIDE DEF d, u
<1>3. \A k \in Keys : OwnerKept(k)
  BY <1>1 DEF OwnerKept, Owned
<1>4. \A s \in Requests : dispatched'[s] \in {dispatched[s], NoDispatch}
  BY <1>1 DEF TypeOK
<1>5. \A w \in usage' : w \in usage \/
          LET c == dispatched[w.req] IN
          /\ c # NoDispatch
          /\ w.id = c.id /\ w.group = c.group /\ w.leased = c.leased /\ w.sentAt = c.at
  BY <1>1, <1>2 DEF d
<1>6. OwnerKnows'
  BY <1>3, <1>4, <1>5, OwnerKnowsKept
<1>7. ASSUME NEW w \in usage', w.kind = "success"
      PROVE  attempts'[w.req] >= MaxAttempts
  <2>1. \A s \in Requests : attempts[s] >= MaxAttempts => attempts'[s] >= MaxAttempts
    BY <1>1, BoundAssumption DEF BoundAssumption, TypeOK
  <2>2. CASE w \in usage
    BY <1>7, <2>1, <2>2 DEF SuccessFinal, TypeOK, UsageRecord
  <2>3. CASE w = u
    BY <1>1, <1>2, <1>7, <2>3, BoundAssumption DEF BoundAssumption, TypeOK
  <2>4. QED  BY <1>1, <2>2, <2>3
<1>8. QED  BY <1>6, <1>7 DEF SuccessFinal

\* Every other step: nothing is sent, and no record is added.
LEMMA QuietKnows ==
    ASSUME TypeOK, OwnerKnows, SuccessFinal, \A k \in Keys : EntryMoves(k),
           attempts' = attempts, usage' \subseteq usage,
           \A r \in Requests : dispatched'[r] \in {dispatched[r], NoDispatch}
    PROVE  OwnerKnows' /\ SuccessFinal'
<1>1. \A k \in Keys : OwnerKept(k)
  BY TurnedKeepsOwner DEF Taken
<1>2. QED  BY <1>1, OwnerKnowsKept DEF SuccessFinal

LEMMA OwnerKnowsStep ==
    ASSUME Modes \subseteq {"enforce"}, TypeOK, RosterIndexed, OwnerKnows, SuccessFinal,
           [Next]_vars
    PROVE  OwnerKnows' /\ SuccessFinal'
<1>0. TypeOK' /\ \A k \in Keys : EntryMoves(k)
  BY NextType, EntryStep
<1>1. CASE \E r \in Requests, g \in Groups, cands \in CandidateLists, mode \in Modes :
             Pick(r, g, cands, mode)
  <2>1. PICK r \in Requests, g \in Groups, cands \in CandidateLists, mode \in Modes :
             Pick(r, g, cands, mode)
    BY <1>1
  <2>2. Enforcing(mode)
    BY <2>1 DEF Enforcing
  <2>3. usage' = usage /\ attempts' = [attempts EXCEPT ![r] = @ + 1]
    BY <2>1 DEF Pick, Sent
  <2>4. SuccessFinal'
    BY <2>3, BoundAssumption DEF BoundAssumption, SuccessFinal, TypeOK, UsageRecord
  <2>5. QED  BY <1>0, <2>1, <2>2, <2>4, PickKnows
<1>2. CASE \E r \in Requests, kind \in Outcomes : \E reset \in ResetTimes(kind) :
             Complete(r, kind, reset)
  BY <1>2, CompleteKnows
<1>3. CASE \E u \in usage : ObserveUsage(u)
  <2>1. attempts' = attempts /\ usage' \subseteq usage /\ dispatched' = dispatched
    BY <1>3 DEF ObserveUsage
  <2>2. QED  BY <1>0, <2>1, QuietKnows
<1>4. CASE \/ RosterChange \/ Reload \/ Tick \/ StartProbe \/ EndProbe \/ UNCHANGED vars
           \/ \E k \in Keys : ManualHalfOpen(k)
           \/ \E k \in Keys, zero \in BOOLEAN, wait \in 0 .. MaxDelay :
                  ApplyQuotaEvidence(k, zero, wait)
  <2>1. attempts' = attempts /\ usage' = usage /\ dispatched' = dispatched
    BY <1>4 DEF RosterChange, ReplaceRoster, RegisterIdentity, Reload, Tick, StartProbe,
         EndProbe, ManualHalfOpen, ApplyQuotaEvidence, vars, hostVars
  <2>2. QED  BY <1>0, <2>1, QuietKnows
<1>5. QED  BY <1>1, <1>2, <1>3, <1>4 DEF Next, RosterChange

\* What the delivery of a record may do to a breaker whose lease is running.
LEMMA OwnerSettlesStep ==
    ASSUME TypeOK, TypeOK', OwnerKnows, NEW u \in usage, ObserveUsage(u),
           About(u) \in Keys, entries[About(u)] # NoEntry,
           entries[About(u)].state = "half_open"
    PROVE  LET k == About(u) IN
           /\ entries[k].owner \notin {NoRequest, u.req} => entries'[k] = entries[k]
           /\ entries'[k].state = "closed" => u.leased /\ u.sentAt >= entries[k].startedAt
<1> DEFINE k == About(u)
           e == entries[k]
<1>1. k \in Keys /\ e \in Entry /\ u \in UsageRecord /\ e.state = "half_open"
  BY DEF TypeOK
<1>2. entries'[k] = e \/ entries'[k] = WithUsage(e, u)
  BY UsageChanges
<1>3. e.owner \notin {NoRequest, u.req} => WithUsage(e, u) = e
  BY <1>1 DEF WithUsage, Fenced
<1>4. ASSUME entries'[k].state = "closed"
      PROVE  u.leased /\ u.sentAt >= e.startedAt
  <2>1. entries'[k] # e /\ WithUsage(e, u).state = "closed"
    BY <1>1, <1>2, <1>4
  <2>2. Lookup(u.index, u.id, u.group) # NoEntry
    BY <2>1 DEF ObserveUsage
  <2>3. e.id = u.id /\ k[2] = u.group
    BY <2>2 DEF Lookup, About
  <2> HIDE DEF e
  <2>4. u.kind = "success" /\ SettlesLease(e, u)
    <3>1. WithExplicit429(e, u).state # "closed" /\ WithGeneric429(e, u).state # "closed"
      BY <1>1, Explicit429Fields, Generic429Fields
    <3>2. WithUsage(e, u) = WithSuccess(e, u) /\ u.kind = "success"
      BY <1>1, <2>1, <3>1 DEF WithUsage
    <3>3. QED  BY <1>1, <2>1, <3>2, SuccessFields
  <2>5. Owned(k) /\ u.req = e.owner
    BY <1>1, <2>4 DEF SettlesLease, Owned, e
  <2>6. QED  BY <1>1, <2>3, <2>4, <2>5 DEF OwnerKnows, Knows, Concerns, e
<1> HIDE DEF e
<1>5. QED  BY <1>2, <1>3, <1>4 DEF e

\* While a request holds a recovery lease, the results of all other requests
\* leave the breaker as it is, and so does a success that was sent before the
\* lease began (observe.go, ObserveUsage).  This holds while the engine
\* enforces: a pick that only observes grants no lease.
THEOREM OnlyOwnerSettlesEnforcing ==
    ASSUME Modes \subseteq {"enforce"}
    PROVE  Spec => OnlyOwnerSettles
<1> DEFINE LInv == TypeOK /\ RosterIndexed /\ OwnerKnows /\ SuccessFinal
<1>1. Init => LInv
  BY InitType, InitIndexed DEF Init, OwnerKnows, Owned, SuccessFinal
<1>2. LInv /\ [Next]_vars => LInv'
  BY NextType, IndexedStep, OwnerKnowsStep
<1>3. LInv /\ [Next]_vars =>
        [\A u \in Delivered : LET k == About(u) IN
          k \in Keys /\ entries[k] # NoEntry /\ entries[k].state = "half_open" =>
            /\ entries[k].owner \notin {NoRequest, u.req} => entries'[k] = entries[k]
            /\ entries'[k].state = "closed" => u.leased /\ u.sentAt >= entries[k].startedAt]_vars
  BY NextType, DeliveredStep, OwnerSettlesStep
<1>4. QED  BY <1>1, <1>2, <1>3, PTL DEF Spec, OnlyOwnerSettles

=============================================================================
