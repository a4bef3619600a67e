-------------------------- MODULE AdmissionProofs --------------------------
(***************************************************************************)
(* Theorems about Admission for every value of its constants: the picks,   *)
(* the interceptor and the configuration calls around the engine keep the  *)
(* engine's invariants, and agree with each other.                         *)
(***************************************************************************)
EXTENDS Admission, GuardEngineProofs

-----------------------------------------------------------------------------
(***************************************************************************)
(* The steps of admission: a pick, an interception, a configuration call,  *)
(* or a step of the engine that is none of these.                          *)
(***************************************************************************)
Picked == \E r \in Requests, g \in Groups, cands \in CandidateLists : SchedulerPick(r, g, cands)
Intercepted == \E r \in Requests : Intercept(r)
Reconfigured ==
    \E m \in Modes, listed, dynamic \in BOOLEAN, roster \in HostRosters :
        Reconfigure(m, listed, roster, dynamic)
Completed ==
    \E r \in Requests, kind \in Outcomes : \E reset \in ResetTimes(kind) :
        Complete(r, kind, reset)

Quiet ==
    /\ attempts' = attempts
    /\ usage' \subseteq usage
    /\ dispatched' = dispatched

EngineStep ==
    /\ [Next]_vars
    /\ Completed \/ Quiet
    /\ UNCHANGED <<reloads, mode, inventory, pending>>
    /\ baseline => baseline'
    /\ baseline' \in BOOLEAN
    /\ probing' \in BOOLEAN
    /\ rounds' \in Nat
    /\ priorities' \in [AuthIndexes -> Int \cup {NoPriority}]

LEMMA PrioritisedType ==
    ASSUME NEW roster, Prioritised(roster)
    PROVE  priorities' \in [AuthIndexes -> Int \cup {NoPriority}]
<1>1. PICK p \in HostPriorities : priorities' =
        [s \in AuthIndexes |-> IF roster[s] = NoIdentity THEN NoPriority ELSE p[s]]
  BY DEF Prioritised
<1>2. p \in [AuthIndexes -> Int]
  BY PriorityAssumption DEF PriorityAssumption
<1>3. QED  BY <1>1, <1>2

LEMMA AdmissionCases ==
    ASSUME AdmissionTypeOK, [AdmissionNext]_admissionVars
    PROVE  Picked \/ Intercepted \/ Reconfigured \/ EngineStep
<1> USE DEF vars, engineVars, hostVars, guardVars, AdmissionTypeOK
<1>1. CASE UNCHANGED admissionVars
  BY <1>1 DEF admissionVars, EngineStep, Quiet
<1>2. CASE LetInProbe
  BY <1>2 DEF LetInProbe, EngineStep, Quiet
<1>3. ASSUME NEW roster \in HostRosters, UpdateRoster(roster)
      PROVE  EngineStep
  <2>1. Next /\ Quiet /\ reloads' = reloads
    BY <1>3 DEF UpdateRoster, ReplaceRoster, Next, Quiet
  <2>2. priorities' \in [AuthIndexes -> Int \cup {NoPriority}]
    BY <1>3, PrioritisedType DEF UpdateRoster
  <2>3. QED  BY <1>3, <2>1, <2>2 DEF UpdateRoster, EngineStep
<1>4. CASE Ask
  <2>1. Next /\ Quiet /\ reloads' = reloads
    BY <1>4 DEF Ask, StartProbe, Next, Quiet
  <2>2. QED  BY <1>4, <2>1 DEF Ask, EngineStep
<1>5. CASE FinishProbe
  <2>1. [Next]_vars /\ Quiet /\ reloads' = reloads
    BY <1>5 DEF FinishProbe, EndProbe, Next, Quiet
  <2>2. baseline' = baseline \/ baseline' = (baseline \/ BaselineFresh)
    BY <1>5 DEF FinishProbe
  <2>3. (baseline => baseline') /\ baseline' \in BOOLEAN
    BY <2>2 DEF AdmissionTypeOK
  <2>4. QED  BY <1>5, <2>1, <2>3 DEF FinishProbe, EngineStep
<1>6. CASE Other(Tick)
  <2>1. Next /\ Quiet /\ reloads' = reloads
    BY <1>6 DEF Other, Tick, Next, Quiet
  <2>2. QED  BY <1>6, <2>1 DEF Other, EngineStep
<1>7. ASSUME NEW r \in Requests \ pending, NEW kind \in Outcomes,
             NEW reset \in ResetTimes(kind), Other(Complete(r, kind, reset))
      PROVE  EngineStep
  <2>1. Next /\ Completed
    BY <1>7 DEF Other, Next, Completed
  <2>2. reloads' = reloads
    BY <1>7 DEF Other, Complete
  <2>3. QED  BY <1>7, <2>1, <2>2 DEF Other, EngineStep
<1>8. ASSUME NEW u \in usage, Other(ObserveUsage(u))
      PROVE  EngineStep
  <2>1. Next /\ Quiet /\ reloads' = reloads
    BY <1>8 DEF Other, ObserveUsage, Next, Quiet
  <2>2. QED  BY <1>8, <2>1 DEF Other, EngineStep
<1>9. ASSUME NEW k \in Keys, NEW zero \in BOOLEAN, NEW wait \in 0 .. MaxDelay,
             Other(ApplyQuotaEvidence(k, zero, wait))
      PROVE  EngineStep
  <2>1. Next
    BY <1>9 DEF Other, Next
  <2>2. Quiet /\ reloads' = reloads
    BY <1>9 DEF Other, ApplyQuotaEvidence, Quiet
  <2>3. QED  BY <1>9, <2>1, <2>2 DEF Other, EngineStep
<1>10. ASSUME NEW k \in Keys, Other(ManualHalfOpen(k))
       PROVE  EngineStep
  <2>1. Next /\ Quiet /\ reloads' = reloads
    BY <1>10 DEF Other, ManualHalfOpen, Next, Quiet
  <2>2. QED  BY <1>10, <2>1 DEF Other, EngineStep
<1>11. QED
  BY <1>1, <1>2, <1>3, <1>4, <1>5, <1>6, <1>7, <1>8, <1>9, <1>10
     DEF AdmissionNext, Picked, Intercepted, Reconfigured

-----------------------------------------------------------------------------
(***************************************************************************)
(* Type correctness and the engine's invariants.  IInv is the inductive    *)
(* invariant of GuardEngineProofs.                                         *)
(***************************************************************************)
LEMMA DivertedStep ==
    ASSUME TypeOK, NEW r \in Requests, NEW g \in Groups, NEW cands \in CandidateLists,
           Diverted(r, g, cands)
    PROVE  /\ TypeOK'
           /\ UNCHANGED <<now, entries, authByID, usage, probe, reloads, zeroUntil>>
           /\ attempts' = [attempts EXCEPT ![r] = @ + 1]
           /\ \E x \in Others :
                 dispatched' = [dispatched EXCEPT ![r] =
                     [id |-> x, index |-> NoIndex, group |-> g, at |-> now, leased |-> FALSE]]
<1>1. PICK n \in DOMAIN cands : cands[n] \in Others /\ Sent(r, cands[n], NoIndex, g, FALSE)
  BY DEF Diverted
<1> DEFINE d == [id |-> cands[n], index |-> NoIndex, group |-> g, at |-> now, leased |-> FALSE]
<1>2. d \in Dispatch
  BY <1>1 DEF Dispatch, TypeOK
<1>3. dispatched' = [dispatched EXCEPT ![r] = d] /\ attempts' = [attempts EXCEPT ![r] = @ + 1]
  BY <1>1 DEF Sent
<1>4. UNCHANGED <<now, engineVars, usage, probe, reloads, zeroUntil>>
  BY DEF Diverted
<1> HIDE DEF d
<1>5. TypeOK'
  BY <1>2, <1>3, <1>4 DEF TypeOK, engineVars
<1>6. QED  BY <1>1, <1>3, <1>4, <1>5 DEF d, engineVars

LEMMA PersistedNew ==
    ASSUME NEW who \in Identity
    PROVE  Persisted(NewEntry(who)) = NewEntry(who)
  BY DEF Persisted, NewEntry

\* What a configuration call does to the breaker of k.
LEMMA ReconfigureMoves ==
    ASSUME TypeOK, NEW m \in Modes, NEW listed \in BOOLEAN, NEW dynamic \in BOOLEAN,
           NEW roster \in HostRosters, Reconfigure(m, listed, roster, dynamic), NEW k \in Keys
    PROVE  /\ \/ entries'[k] = NoEntry
              \/ \E who \in Identity : entries'[k] = NewEntry(who) /\ ~Keeps(k, who)
              \/ /\ entries[k] \in Entry /\ entries[k] # NoEntry
                 /\ entries'[k] = Persisted(entries[k])
           /\ ~listed /\ entries[k] # NoEntry => entries'[k] = Persisted(entries[k])
           /\ entries'[k] # NoEntry => entries'[k] \in Entry /\ entries'[k].owner = NoRequest
<1> DEFINE kept == IF Reconciles(m, listed) THEN Reconciled(roster) ELSE entries
<1>1. entries'[k] = IF kept[k] = NoEntry THEN NoEntry ELSE Persisted(kept[k])
  BY DEF Reconfigure
<1>2. roster \in Rosters /\ roster[k[1]] \in Identity \cup {NoIdentity}
  BY InputAssumption DEF InputAssumption, Rosters, Keys
<1>3. \/ kept[k] = entries[k]
      \/ kept[k] = NoEntry
      \/ \E who \in Identity : kept[k] = NewEntry(who) /\ ~Keeps(k, who)
  BY <1>2 DEF Reconciled
<1>4. ~listed => kept[k] = entries[k]
  BY DEF Reconciles
<1>5. entries[k] # NoEntry => entries[k] \in Entry
  BY DEF TypeOK
<1>6. \A e \in Entry : Persisted(e) \in Entry /\ Persisted(e).owner = NoRequest
  BY ReleasedType DEF Persisted, Entry
<1>7. \A who \in Identity : NewEntry(who) \in Entry
  BY NewEntryType
<1> HIDE DEF kept
<1>8. QED  BY <1>1, <1>3, <1>4, <1>5, <1>6, <1>7, PersistedNew

LEMMA ReconfigureType ==
    ASSUME AdmissionTypeOK, NEW m \in Modes, NEW listed \in BOOLEAN, NEW dynamic \in BOOLEAN,
           NEW roster \in HostRosters, Reconfigure(m, listed, roster, dynamic)
    PROVE  AdmissionTypeOK'
<1>1. TypeOK /\ roster \in Rosters
  BY InputAssumption DEF InputAssumption, AdmissionTypeOK
<1>2. entries' \in [Keys -> Entry \cup {NoEntry}]
  <2>1. \A k \in Keys : entries'[k] \in Entry \cup {NoEntry}
    BY <1>1, ReconfigureMoves
  <2>2. entries' = [k \in Keys |-> entries'[k]]
    BY DEF Reconfigure
  <2>3. QED  BY <2>1, <2>2
<1>3. authByID' \in [AuthIDs -> AuthIndexes \cup {NoIndex}]
  BY <1>1, CurrentIdentityType, IndexOfType DEF Reconfigure
<1>4. zeroUntil' \in [Keys -> Time]
  BY <1>1, ForgetType DEF Reconfigure
<1>5. cursors' \in [Groups -> Nat] /\ reloads' \in Nat /\ dirty' \in BOOLEAN
  <2>1. cursors' = [g \in Groups |-> 0] /\ reloads' = reloads + 1
    BY DEF Reconfigure
  <2>2. dirty' \in BOOLEAN
    BY DEF Reconfigure
  <2>3. QED  BY <1>1, <2>1, <2>2 DEF TypeOK
<1>6. UNCHANGED <<now, dispatched, attempts, usage, probe, probing, rounds, pending>>
  BY DEF Reconfigure, hostVars
<1>7. TypeOK'
  BY <1>1, <1>2, <1>3, <1>4, <1>5, <1>6 DEF TypeOK
<1>8. mode' \in {"observe", "enforce"} /\ inventory' \in BOOLEAN /\ baseline' \in BOOLEAN
  BY InputAssumption DEF InputAssumption, Reconfigure
<1>9. priorities' \in [AuthIndexes -> Int \cup {NoPriority}]
  BY PrioritisedType DEF Reconfigure, AdmissionTypeOK
<1>10. QED  BY <1>6, <1>7, <1>8, <1>9 DEF AdmissionTypeOK

LEMMA AdmissionType == AdmissionTypeOK /\ [AdmissionNext]_admissionVars => AdmissionTypeOK'
<1> SUFFICES ASSUME AdmissionTypeOK, [AdmissionNext]_admissionVars
             PROVE  AdmissionTypeOK'
  OBVIOUS
<1> USE DEF AdmissionTypeOK
<1>1. ASSUME NEW r \in Requests, NEW g \in Groups, NEW cands \in CandidateLists,
             SchedulerPick(r, g, cands)
      PROVE  AdmissionTypeOK'
  <2>1. TypeOK'
    BY <1>1, PickType, DivertedStep DEF SchedulerPick
  <2>2. QED  BY <1>1, <2>1 DEF SchedulerPick, guardVars
<1>2. ASSUME NEW r \in Requests, Intercept(r)
      PROVE  AdmissionTypeOK'
  <2>1. dispatched' \in [Requests -> Dispatch \cup {NoDispatch}]
    BY <1>2 DEF Intercept, TypeOK
  <2>2. TypeOK'
    BY <1>2, <2>1 DEF Intercept, TypeOK, engineVars
  <2>3. QED  BY <1>2, <2>2 DEF Intercept, guardVars
<1>3. CASE Reconfigured
  BY <1>3, ReconfigureType DEF Reconfigured
<1>4. CASE EngineStep
  BY <1>4, NextType DEF EngineStep
<1>5. QED  BY <1>1, <1>2, <1>3, <1>4, AdmissionCases DEF Picked, Intercepted

LEMMA AdmissionInitType == AdmissionInit => AdmissionTypeOK
<1> SUFFICES ASSUME AdmissionInit PROVE AdmissionTypeOK
  OBVIOUS
<1>1. TypeOK
  BY InitType DEF AdmissionInit
<1>2. priorities \in [AuthIndexes -> Int \cup {NoPriority}]
  BY DEF AdmissionInit
<1>3. QED  BY <1>1, <1>2 DEF AdmissionInit, AdmissionTypeOK

\* Every variable of the engine and of the guard around it keeps its type.
THEOREM AdmissionTypeCorrect == AdmissionSpec => []AdmissionTypeOK
  BY AdmissionInitType, AdmissionType, PTL DEF AdmissionSpec

\* Configuration calls keep what the engine promises of each breaker.
LEMMA ReconfigureInvariant ==
    ASSUME AdmissionTypeOK, IInv, NEW m \in Modes, NEW listed \in BOOLEAN,
           NEW dynamic \in BOOLEAN, NEW roster \in HostRosters,
           Reconfigure(m, listed, roster, dynamic)
    PROVE  IInv'
<1>1. TypeOK' /\ UNCHANGED <<now, usage, probe>> /\ ForgetReplaced
  <2>1. TypeOK'
    BY ReconfigureType DEF AdmissionTypeOK
  <2>2. QED  BY <2>1 DEF Reconfigure, hostVars
<1>2. ReportsPast'
  BY <1>1 DEF IInv, ReportsPast
<1>3. ASSUME NEW k \in Keys
      PROVE  /\ now' < zeroUntil'[k] =>
                   entries'[k] # NoEntry /\ ZeroBlock(entries'[k], zeroUntil'[k])
             /\ entries'[k] # NoEntry => BlockEnds(entries'[k], now')
  <2>1. CASE \/ entries'[k] = NoEntry
             \/ \E who \in Identity : entries'[k] = NewEntry(who) /\ ~Keeps(k, who)
    BY <1>1, <2>1, RosterKeeps
  <2>2. CASE /\ entries[k] \in Entry /\ entries[k] # NoEntry
             /\ entries'[k] = Persisted(entries[k])
    <3>1. SameIdentity(Persisted(entries[k]), entries[k]) /\ Persisted(entries[k]) \in Entry
      BY <2>2, ReleasedType
    <3>2. entries'[k] # NoEntry
      BY <2>2, <3>1, NullAssumption DEF NullAssumption
    <3>3. zeroUntil'[k] = zeroUntil[k]
      BY <1>1, <2>2, <3>1, <3>2 DEF ForgetReplaced
    <3>4. /\ now < zeroUntil[k] => ZeroBlock(entries[k], zeroUntil[k])
          /\ BlockEnds(entries[k], now)
      BY <2>2 DEF IInv, KnownZeroBlocks, EveryBlockEnds
    <3>5. /\ now \in Nat
          /\ \A until : ZeroBlock(entries[k], until) => ZeroBlock(Persisted(entries[k]), until)
      BY <2>2 DEF ZeroBlock, Persisted, Entry, IInv, TypeOK, Time
    <3>6. BlockEnds(Persisted(entries[k]), now)
      BY <2>2, <3>4, <3>5, PersistedEnds
    <3>7. QED  BY <1>1, <2>2, <3>2, <3>3, <3>4, <3>5, <3>6
  <2>3. QED  BY <2>1, <2>2, ReconfigureMoves DEF AdmissionTypeOK
<1>4. QED  BY <1>1, <1>2, <1>3 DEF IInv, KnownZeroBlocks, EveryBlockEnds

LEMMA AdmissionInvariant ==
    AdmissionTypeOK /\ IInv /\ [AdmissionNext]_admissionVars => IInv'
<1> SUFFICES ASSUME AdmissionTypeOK, IInv, [AdmissionNext]_admissionVars
             PROVE  IInv'
  OBVIOUS
<1>1. ASSUME NEW r \in Requests, NEW g \in Groups, NEW cands \in CandidateLists,
             SchedulerPick(r, g, cands)
      PROVE  IInv'
  <2>1. CASE Pick(r, g, cands, mode)
    BY <2>1, PickInvariant
  <2>2. CASE Diverted(r, g, cands)
    <3>1. TypeOK' /\ UNCHANGED <<now, entries, usage, probe, zeroUntil>>
      BY <2>2, DivertedStep DEF IInv
    <3>2. QED  BY <3>1 DEF IInv, ReportsPast, KnownZeroBlocks, EveryBlockEnds
  <2>3. QED  BY <1>1, <2>1, <2>2 DEF SchedulerPick
<1>2. CASE Intercepted
  <2>1. TypeOK' /\ UNCHANGED <<now, entries, usage, probe, zeroUntil>>
    BY <1>2, AdmissionType DEF Intercepted, Intercept, engineVars, AdmissionTypeOK
  <2>2. QED  BY <2>1 DEF IInv, ReportsPast, KnownZeroBlocks, EveryBlockEnds
<1>3. CASE Reconfigured
  BY <1>3, ReconfigureInvariant DEF Reconfigured
<1>4. CASE EngineStep
  BY <1>4, NextInvariant DEF EngineStep
<1>5. QED  BY <1>1, <1>2, <1>3, <1>4, AdmissionCases DEF Picked

\* Behind the handlers, with configuration calls that load, reconcile and
\* switch the mode at any moment, a known exhausted quota still blocks until its
\* reset and every block ends (official_handlers.go, handleSchedulerPick).
THEOREM AdmissionKeepsBlocks == AdmissionSpec => [](KnownZeroBlocks /\ EveryBlockEnds)
<1>1. AdmissionInit => AdmissionTypeOK /\ IInv
  BY AdmissionInitType, InitInvariant DEF AdmissionInit
<1>2. AdmissionTypeOK /\ IInv /\ [AdmissionNext]_admissionVars => (AdmissionTypeOK /\ IInv)'
  BY AdmissionType, AdmissionInvariant
<1>3. IInv => KnownZeroBlocks /\ EveryBlockEnds
  BY DEF IInv
<1>4. QED  BY <1>1, <1>2, <1>3, PTL DEF AdmissionSpec

-----------------------------------------------------------------------------
(***************************************************************************)
(* Readiness and the configuration calls.                                  *)
(***************************************************************************)
LEMMA ReadyStep ==
    ASSUME AdmissionTypeOK, [AdmissionNext]_admissionVars, EnforcementReady, ~EnforcementReady'
    PROVE  reloads' # reloads /\ (~inventory' \/ ~UniformPriority')
<1>1. CASE Picked
  BY <1>1 DEF Picked, SchedulerPick, guardVars, EnforcementReady
<1>2. CASE Intercepted
  BY <1>2 DEF Intercepted, Intercept, guardVars, EnforcementReady
<1>3. CASE Reconfigured
  <2>1. PICK m \in Modes, listed \in BOOLEAN, dynamic \in BOOLEAN, roster \in HostRosters :
          Reconfigure(m, listed, roster, dynamic)
    BY <1>3 DEF Reconfigured
  <2>2. inventory' = listed /\ (Carried(listed) => baseline') /\ reloads' = reloads + 1
    BY <2>1 DEF Reconfigure
  <2>3. listed /\ UniformPriority' => Carried(listed)
    BY DEF Carried
  <2>4. reloads' # reloads
    BY <2>2 DEF AdmissionTypeOK, TypeOK
  <2>5. QED  BY <2>2, <2>3, <2>4 DEF EnforcementReady
<1>4. CASE EngineStep
  BY <1>4 DEF EngineStep, EnforcementReady
<1>5. QED  BY <1>1, <1>2, <1>3, <1>4, AdmissionCases

\* Enforcement that was ready stops being so only when a configuration call
\* finds the host's inventory incomplete or accounts of different priorities,
\* whatever probes, records and rosters do (official_guard.go, prepareGuard).
THEOREM ReadinessSticksAlways == AdmissionSpec => ReadinessSticks
<1>1. AdmissionTypeOK /\ [AdmissionNext]_admissionVars =>
        [EnforcementReady /\ ~EnforcementReady' =>
            reloads' # reloads /\ (~inventory' \/ ~UniformPriority')]_admissionVars
  BY ReadyStep
<1>2. QED  BY <1>1, AdmissionInitType, AdmissionType, PTL DEF AdmissionSpec, ReadinessSticks

\* A pick delivers no record and loads no state.
LEMMA PickedKeeps ==
    ASSUME Picked
    PROVE  usage' = usage /\ reloads' = reloads
<1>1. PICK r \in Requests, g \in Groups, cands \in CandidateLists : SchedulerPick(r, g, cands)
  BY DEF Picked
<1>2. Diverted(r, g, cands) \/ Pick(r, g, cands, mode)
  BY <1>1 DEF SchedulerPick
<1>3. CASE Diverted(r, g, cands)
  BY <1>3 DEF Diverted
<1>4. CASE Pick(r, g, cands, mode)
  BY <1>4 DEF Pick
<1>5. QED  BY <1>2, <1>3, <1>4

LEMMA ColdStartStep ==
    ASSUME AdmissionTypeOK, [AdmissionNext]_admissionVars, reloads' # reloads, ~inventory',
           NEW k \in Known
    PROVE  entries'[k] = Persisted(entries[k])
<1>1. ~Picked
  BY PickedKeeps
<1>2. ~Intercepted /\ ~EngineStep
  BY DEF Intercepted, Intercept, EngineStep
<1>3. Reconfigured
  BY <1>1, <1>2, AdmissionCases
<1>4. PICK m \in Modes, listed \in BOOLEAN, dynamic \in BOOLEAN, roster \in HostRosters :
        Reconfigure(m, listed, roster, dynamic)
  BY <1>3 DEF Reconfigured
<1>5. ~listed
  BY <1>4 DEF Reconfigure
<1>6. k \in Keys /\ entries[k] # NoEntry /\ TypeOK
  BY DEF Known, AdmissionTypeOK
<1>7. QED  BY <1>4, <1>5, <1>6, ReconfigureMoves

\* A configuration call that meets a host without its inventory keeps every
\* breaker: a cold start does not erase persisted state (official_guard.go).
THEOREM ColdStartKeepsBreakersAlways == AdmissionSpec => ColdStartKeepsBreakers
<1>1. AdmissionTypeOK /\ [AdmissionNext]_admissionVars =>
        [reloads' # reloads /\ ~inventory' =>
            \A k \in Known : entries'[k] = Persisted(entries[k])]_admissionVars
  BY ColdStartStep DEF admissionVars, vars
<1>2. QED
  BY <1>1, AdmissionInitType, AdmissionType, PTL DEF AdmissionSpec, ColdStartKeepsBreakers

-----------------------------------------------------------------------------
(***************************************************************************)
(* The pick and the interceptor agree.                                     *)
(***************************************************************************)
\* A breaker that a pick may take leaves the interceptor's gate open.
LEMMA TakenOpensGate ==
    ASSUME TypeOK', NEW k \in Keys, entries'[k] # NoEntry, now' = now,
           \/ entries'[k].state = "closed" /\ EvidenceFresh(entries'[k], now)
           \/ entries'[k].state = "uninitialized" /\ EvidenceFresh(entries'[k], now) /\ FailOpen
           \/ entries'[k].state = "half_open" /\ entries'[k].leaseUntil > now
    PROVE  ~Blocked(k[2])'
<1>1. k \in Trusted(k[2])'
  BY DEF Trusted, Known, Cooling, EvidenceFresh
<1>2. CASE entries'[k].state = "closed"
  BY <1>1, <1>2 DEF Blocked
<1>3. CASE entries'[k].state = "uninitialized" /\ FailOpen
  BY <1>1, <1>3 DEF Blocked, Cooling
<1>4. CASE entries'[k].state = "half_open" /\ entries'[k].leaseUntil > now
  BY <1>1, <1>4 DEF Blocked, LeaseRuns
<1>5. QED  BY <1>2, <1>3, <1>4

LEMMA PickOpensGate ==
    ASSUME TypeOK, NEW r \in Requests, NEW g \in Groups, NEW cands \in CandidateLists,
           Pick(r, g, cands, "enforce"), dispatched'[r].index # NoIndex
    PROVE  ~Blocked(g)' /\ dispatched'[r].group = g
<1>0. TypeOK' /\ now' = now /\ now \in Nat /\ HalfOpenLease \in Nat \ {0}
  BY PickType, ConfigAssumption DEF ConfigAssumption, Pick, TypeOK, Time
<1>1. PICK n \in DOMAIN cands :
        LET x    == cands[n]
            e    == IF x \in Others THEN NoEntry ELSE Lookup(NoIndex, x, g)
            slot == IF e = NoEntry THEN NoIndex ELSE authByID[x]
            due  == Enforcing("enforce") /\ e # NoEntry /\ LeaseDue(e, now)
        IN  /\ Enforcing("enforce") => Chosen(cands, g, n)
            /\ entries' = IF due THEN [entries EXCEPT ![<<slot, g>>] = Leased(e, r, now)]
                          ELSE entries
            /\ Sent(r, x, slot, g, due)
  BY DEF Pick
<1> DEFINE x    == cands[n]
           e    == IF x \in Others THEN NoEntry ELSE Lookup(NoIndex, x, g)
           slot == IF e = NoEntry THEN NoIndex ELSE authByID[x]
           due  == LeaseDue(e, now)
           k    == <<slot, g>>
<1>2. dispatched'[r].index = slot /\ dispatched'[r].group = g
  BY <1>1 DEF Sent, TypeOK
<1>3. e # NoEntry /\ x \notin Others /\ e = Lookup(NoIndex, x, g) /\ Available(x, g)
  BY <1>1, <1>2 DEF Enforcing, Chosen, AvailableAt
<1>4. entries' = IF due THEN [entries EXCEPT ![k] = Leased(e, r, now)] ELSE entries
  BY <1>1, <1>3 DEF Enforcing
<1>5. x \in AuthIDs
  <2>1. cands \in Seq(AuthIDs \cup Others)
    BY NullAssumption DEF NullAssumption
  <2>2. QED  BY <1>3, <2>1
<1>6. slot = SlotOf(NoIndex, x)
  BY <1>3, <1>5 DEF SlotOf
<1>7. k \in Keys /\ e \in Entry /\ e = entries[k]
  BY <1>3, <1>5, <1>6, LookupFinds
<1>8. k[2] = g
  OBVIOUS
<1> HIDE DEF x, e, slot, due, k
<1>9. CASE due
  <2>1. entries'[k] = Leased(e, r, now)
    BY <1>4, <1>7, <1>9 DEF TypeOK
  <2>2. entries'[k].state = "half_open" /\ entries'[k].leaseUntil = now + HalfOpenLease
    BY <1>7, <2>1 DEF Leased, Entry
  <2>3. entries'[k] # NoEntry
    BY <1>0, <1>7, <2>1, LeasedType, NullAssumption DEF NullAssumption, Time
  <2>4. entries'[k].leaseUntil > now
    BY <1>0, <2>2
  <2>5. QED  BY <1>0, <1>2, <1>7, <1>8, <2>2, <2>3, <2>4, TakenOpensGate
<1>10. CASE ~due
  <2>1. entries'[k] = e
    BY <1>4, <1>7, <1>10
  <2>2. \/ e.state = "closed" /\ EvidenceFresh(e, now)
        \/ e.state = "uninitialized" /\ EvidenceFresh(e, now) /\ FailOpen
    BY <1>3, <1>10 DEF Available, due
  <2>3. QED  BY <1>0, <1>2, <1>3, <1>7, <1>8, <2>1, <2>2, TakenOpensGate
<1>11. QED  BY <1>9, <1>10

LEMMA PickedStep ==
    ASSUME AdmissionTypeOK, [AdmissionNext]_admissionVars, NEW r \in pending' \ pending,
           mode = "enforce", dispatched'[r].index # NoIndex
    PROVE  ~Terminates(r)'
<1>1. ~Intercepted /\ ~Reconfigured /\ ~EngineStep
  BY DEF Intercepted, Intercept, Reconfigured, Reconfigure, EngineStep
<1>2. PICK s \in Requests, g \in Groups, cands \in CandidateLists : SchedulerPick(s, g, cands)
  BY <1>1, AdmissionCases DEF Picked
<1>3. s = r
  BY <1>2 DEF SchedulerPick
<1>4. ~Diverted(r, g, cands)
  BY <1>2, <1>3, DivertedStep DEF AdmissionTypeOK, TypeOK
<1>5. EnforcementReady /\ Pick(r, g, cands, "enforce")
  BY <1>2, <1>3, <1>4 DEF SchedulerPick
<1>6. EnforcementReady'
  BY <1>2, <1>5 DEF SchedulerPick, guardVars, EnforcementReady
<1>7. ~Blocked(g)' /\ dispatched'[r].group = g
  BY <1>3, <1>5, PickOpensGate DEF AdmissionTypeOK
<1>8. QED  BY <1>6, <1>7 DEF Terminates

\* The interceptor would not terminate, in the state it leaves behind, a request
\* that an enforcing pick has just given a credential of the roster: a recovery
\* request gets through its own lease (official_handlers.go, evaluateGuardGroup).
THEOREM PickedPassesAlways == AdmissionSpec => PickedPasses
<1>1. AdmissionTypeOK /\ [AdmissionNext]_admissionVars =>
        [\A r \in pending' \ pending :
          mode = "enforce" /\ dispatched'[r].index # NoIndex => ~Terminates(r)']_admissionVars
  BY PickedStep
<1>2. QED  BY <1>1, AdmissionInitType, AdmissionType, PTL DEF AdmissionSpec, PickedPasses

-----------------------------------------------------------------------------
(***************************************************************************)
(* The index by name, and the owners of leases, in both modes.             *)
(***************************************************************************)
\* A pick that observes grants no lease, and no lease outlives the
\* configuration call that changes the mode.
ObserveUnowned == mode = "observe" => \A k \in Keys : ~Owned(k)

LInv == RosterIndexed /\ OwnerKnows /\ SuccessFinal /\ ObserveUnowned

LEMMA ReconfigureIndexed ==
    ASSUME TypeOK, RosterIndexed, NEW m \in Modes, NEW listed \in BOOLEAN,
           NEW dynamic \in BOOLEAN, NEW roster \in HostRosters,
           Reconfigure(m, listed, roster, dynamic)
    PROVE  RosterIndexed'
<1> DEFINE current == [i \in AuthIndexes |-> CurrentIdentity(i)]
           named   == IF Reconciles(m, listed) THEN roster ELSE current
           kept    == IF Reconciles(m, listed) THEN Reconciled(roster) ELSE entries
<1>1. /\ named \in Rosters /\ DistinctIDs(named)
      /\ authByID' = IndexOf(named)
  <2>1. roster \in Rosters /\ current \in Rosters /\ DistinctIDs(current)
    BY InputAssumption, CurrentIdentityType, CurrentDistinct DEF InputAssumption
  <2>2. QED  BY <2>1 DEF Reconfigure
<1>2. ASSUME NEW k \in Keys
      PROVE  /\ entries'[k] = NoEntry <=> named[k[1]] = NoIdentity
             /\ entries'[k] # NoEntry => SameIdentity(entries'[k], named[k[1]])
  <2>1. entries'[k] = IF kept[k] = NoEntry THEN NoEntry ELSE Persisted(kept[k])
    BY DEF Reconfigure
  <2>2. /\ kept[k] = NoEntry <=> named[k[1]] = NoIdentity
        /\ kept[k] # NoEntry => SameIdentity(kept[k], named[k[1]])
    <3>1. CASE Reconciles(m, listed)
      BY <1>1, <3>1, ReconciledRoster
    <3>2. CASE ~Reconciles(m, listed)
      <4>1. named[k[1]] = CurrentIdentity(k[1])
        BY <3>2 DEF Keys
      <4>2. kept[k] = entries[k]
        BY <3>2
      <4> HIDE DEF named, kept
      <4>3. QED  BY <4>1, <4>2, CurrentRoster
    <3>3. QED  BY <3>1, <3>2
  <2>3. kept[k] # NoEntry => kept[k] \in Entry
    <3>1. Reconciled(roster)[k] \in Entry \cup {NoEntry}
      BY ReconciledType, InputAssumption DEF InputAssumption
    <3>2. QED  BY <3>1 DEF TypeOK
  <2> HIDE DEF kept, named
  <2>4. kept[k] # NoEntry =>
          Persisted(kept[k]) # NoEntry /\ SameIdentity(Persisted(kept[k]), kept[k])
    BY <2>3, ReleasedType, NullAssumption DEF NullAssumption
  <2>5. QED  BY <2>1, <2>2, <2>4 DEF SameIdentity
<1> HIDE DEF named
<1>3. QED  BY <1>1, <1>2, RosterApplied

LEMMA AdmissionLeases ==
    AdmissionTypeOK /\ LInv /\ [AdmissionNext]_admissionVars => LInv'
<1> SUFFICES ASSUME AdmissionTypeOK, LInv, [AdmissionNext]_admissionVars
             PROVE  LInv'
  OBVIOUS
<1>0. TypeOK /\ TypeOK' /\ mode \in {"observe", "enforce"}
  BY AdmissionType DEF AdmissionTypeOK
<1>1. ASSUME NEW r \in Requests, NEW g \in Groups, NEW cands \in CandidateLists,
             SchedulerPick(r, g, cands)
      PROVE  LInv'
  <2>1. mode' = mode
    BY <1>1 DEF SchedulerPick, guardVars
  <2>2. CASE Pick(r, g, cands, mode)
    <3>1. Enforcing(mode) \/ \A k \in Keys : ~Owned(k)
      BY <1>0 DEF LInv, ObserveUnowned, Enforcing
    <3>2. OwnerKnows'
      BY <1>0, <2>2, <3>1, PickKnows DEF LInv
    <3>3. usage' = usage /\ attempts' = [attempts EXCEPT ![r] = @ + 1] /\ authByID' = authByID
      BY <2>2 DEF Pick, Sent
    <3>4. SuccessFinal'
      BY <1>0, <3>3, BoundAssumption
         DEF BoundAssumption, LInv, SuccessFinal, TypeOK, UsageRecord
    <3>5. ObserveUnowned'
      <4>1. mode = "observe" => entries' = entries
        BY <2>2 DEF Pick, Enforcing
      <4>2. QED  BY <2>1, <4>1 DEF LInv, ObserveUnowned, Owned
    <3>6. RosterIndexed'
      <4>1. ASSUME NEW k \in Keys
            PROVE  /\ entries'[k] = NoEntry <=> entries[k] = NoEntry
                   /\ entries[k] # NoEntry => SameIdentity(entries'[k], entries[k])
        <5>1. CASE entries'[k] = entries[k]
          BY <5>1 DEF SameIdentity
        <5>2. CASE entries'[k] # entries[k]
          <6>1. entries[k] \in Entry /\ entries[k] # NoEntry
                /\ entries'[k] = Leased(entries[k], r, now) /\ entries'[k] # NoEntry
            BY <1>0, <2>2, <5>2, PickLeases
          <6>2. QED  BY <1>0, <6>1, LeasedType DEF TypeOK
        <5>3. QED  BY <5>1, <5>2
      <4>2. QED  BY <1>0, <3>3, <4>1, IndexKept DEF LInv
    <3>7. QED  BY <3>2, <3>4, <3>5, <3>6 DEF LInv
  <2>3. CASE Diverted(r, g, cands)
    <3>1. PICK x \in Others :
            dispatched' = [dispatched EXCEPT ![r] =
                [id |-> x, index |-> NoIndex, group |-> g, at |-> now, leased |-> FALSE]]
      BY <1>0, <2>3, DivertedStep
    <3>2. /\ entries' = entries /\ authByID' = authByID /\ usage' = usage
          /\ attempts' = [attempts EXCEPT ![r] = @ + 1]
      BY <1>0, <2>3, DivertedStep
    <3>3. SuccessFinal'
      BY <1>0, <3>2, BoundAssumption
         DEF BoundAssumption, LInv, SuccessFinal, TypeOK, UsageRecord
    <3>4. RosterIndexed' /\ ObserveUnowned'
      BY <2>1, <3>2 DEF LInv, RosterIndexed, Loadable, ObserveUnowned, Owned
    <3>5. ASSUME NEW k \in Keys, Owned(k)'
          PROVE  Knows(k)'
      <4>1. Owned(k) /\ Knows(k) /\ entries[k] \in Entry
        BY <1>0, <3>2, <3>5 DEF Owned, LInv, OwnerKnows, TypeOK
      <4>2. entries[k].id # x /\ entries[k].owner \in Requests
        BY <4>1, NullAssumption DEF NullAssumption, Entry, Owned
      <4>3. dispatched'[entries[k].owner] = dispatched[entries[k].owner]
            \/ dispatched'[entries[k].owner].id # entries[k].id
        BY <1>0, <3>1, <4>2 DEF TypeOK
      <4>4. QED  BY <3>2, <4>1, <4>3 DEF Knows, Concerns
    <3>6. QED  BY <3>3, <3>4, <3>5 DEF LInv, OwnerKnows
  <2>4. QED  BY <1>1, <2>2, <2>3 DEF SchedulerPick
<1>2. CASE Intercepted
  <2>1. /\ UNCHANGED <<engineVars, attempts, usage, guardVars>>
        /\ \A s \in Requests : dispatched'[s] \in {dispatched[s], NoDispatch}
    BY <1>0, <1>2 DEF Intercepted, Intercept, TypeOK
  <2>2. \A k \in Keys : EntryMoves(k)
    BY <2>1 DEF EntryMoves, Held, engineVars
  <2>3. OwnerKnows' /\ SuccessFinal'
    BY <1>0, <2>1, <2>2, QuietKnows DEF LInv
  <2>4. QED
    BY <2>1, <2>3 DEF LInv, RosterIndexed, Loadable, ObserveUnowned, Owned, engineVars, guardVars
<1>3. ASSUME NEW m \in Modes, NEW listed \in BOOLEAN, NEW dynamic \in BOOLEAN,
             NEW roster \in HostRosters, Reconfigure(m, listed, roster, dynamic)
      PROVE  LInv'
  <2>1. \A k \in Keys : ~Owned(k)'
    BY <1>0, <1>3, ReconfigureMoves DEF Owned
  <2>2. RosterIndexed'
    BY <1>0, <1>3, ReconfigureIndexed DEF LInv
  <2>3. SuccessFinal'
    BY <1>3 DEF Reconfigure, hostVars, LInv, SuccessFinal
  <2>4. QED  BY <2>1, <2>2, <2>3 DEF LInv, OwnerKnows, ObserveUnowned
<1>4. CASE EngineStep
  <2>1. [Next]_vars /\ mode' = mode /\ (Completed \/ Quiet)
    BY <1>4 DEF EngineStep
  <2>2. RosterIndexed' /\ \A k \in Keys : EntryMoves(k)
    BY <1>0, <2>1, IndexedStep, EntryStep DEF LInv
  <2>3. OwnerKnows' /\ SuccessFinal'
    <3>1. CASE Completed
      BY <1>0, <3>1, CompleteKnows DEF Completed, LInv
    <3>2. CASE Quiet
      BY <1>0, <2>2, <3>2, QuietKnows DEF Quiet, LInv
    <3>3. QED  BY <2>1, <3>1, <3>2
  <2>4. \A k \in Keys : Owned(k)' => Owned(k)
    <3>1. CASE Completed
      BY <3>1 DEF Completed, Complete, engineVars, Owned
    <3>2. CASE Quiet
      <4>1. \A k \in Keys : ~Taken(k)
        BY <3>2 DEF Quiet, Taken
      <4>2. QED  BY <1>0, <2>2, <4>1, TurnedKeepsOwner DEF OwnerKept
    <3>3. QED  BY <2>1, <3>1, <3>2
  <2>5. QED  BY <2>1, <2>2, <2>3, <2>4 DEF LInv, ObserveUnowned
<1>5. QED  BY <1>1, <1>2, <1>3, <1>4, AdmissionCases DEF Picked, Reconfigured

LEMMA AdmissionInitLeases == AdmissionInit => LInv
  BY InitIndexed DEF AdmissionInit, Init, LInv, OwnerKnows, Owned, SuccessFinal, ObserveUnowned

\* What the engine holds always passes the validation of the next load, so a
\* configuration call is never refused for it (store.go, validateDocument).
THEOREM AdmissionIndexed == AdmissionSpec => []RosterIndexed
<1>1. AdmissionInit => AdmissionTypeOK /\ LInv
  BY AdmissionInitType, AdmissionInitLeases
<1>2. AdmissionTypeOK /\ LInv /\ [AdmissionNext]_admissionVars => (AdmissionTypeOK /\ LInv)'
  BY AdmissionType, AdmissionLeases
<1>3. LInv => RosterIndexed
  BY DEF LInv
<1>4. QED  BY <1>1, <1>2, <1>3, PTL DEF AdmissionSpec

\* A record leaves usage only when the engine observes it.
LEMMA AdmissionDelivers ==
    ASSUME AdmissionTypeOK, [AdmissionNext]_admissionVars, NEW u \in Delivered
    PROVE  u \in usage /\ ObserveUsage(u)
<1>1. u \in usage /\ u \notin usage'
  BY DEF Delivered
<1>2. ~Picked /\ ~Intercepted /\ ~Reconfigured
  <2>1. ~Picked
    BY <1>1, PickedKeeps
  <2>2. ~Intercepted
    BY <1>1 DEF Intercepted, Intercept
  <2>3. ~Reconfigured
    BY <1>1 DEF Reconfigured, Reconfigure, hostVars
  <2>4. QED  BY <2>1, <2>2, <2>3
<1>3. EngineStep
  BY <1>2, AdmissionCases
<1>4. QED  BY <1>3, DeliveredStep DEF EngineStep

\* While a request holds a recovery lease nobody else settles it, in a program
\* whose mode may change at any configuration call (observe.go, ObserveUsage).
THEOREM OnlyOwnerSettlesAlways == AdmissionSpec => OnlyOwnerSettles
<1>1. AdmissionTypeOK /\ LInv /\ [AdmissionNext]_admissionVars =>
        [\A u \in Delivered : LET k == About(u) IN
          k \in Keys /\ entries[k] # NoEntry /\ entries[k].state = "half_open" =>
            /\ entries[k].owner \notin {NoRequest, u.req} => entries'[k] = entries[k]
            /\ entries'[k].state = "closed" => u.leased /\ u.sentAt >= entries[k].startedAt]_vars
  BY AdmissionType, AdmissionDelivers, OwnerSettlesStep DEF AdmissionTypeOK, LInv
<1>2. QED
  BY <1>1, AdmissionInitType, AdmissionType, AdmissionInitLeases, AdmissionLeases, PTL
     DEF AdmissionSpec, OnlyOwnerSettles

=============================================================================
