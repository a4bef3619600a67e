------------------------------ MODULE Admission ------------------------------
(***************************************************************************)
(* Admission of requests: the handlers of the scheduler pick and of the    *)
(* request interceptor around the engine, and the readiness of enforcement *)
(* that both of them look at.  A request is picked first and intercepted   *)
(* later; a configuration call, a roster update or a usage record may come *)
(* between.                                                                *)
(***************************************************************************)
EXTENDS GuardEngine, Integers

CONSTANTS
    HostPriorities,  \* priorities the host may give the accounts of the slots
    NoPriority,      \* of a slot without an account
    MaxRounds        \* bound on the probe rounds let in

ASSUME PriorityAssumption ==
    /\ HostPriorities \subseteq [AuthIndexes -> Int]
    /\ NoPriority \notin Int

ASSUME RoundAssumption == MaxRounds \in Nat

VARIABLES
    mode,       \* mode of the configuration in force
    inventory,  \* inventoryReady: the host had listed all its accounts
    baseline,   \* baselineReady: quota evidence was once complete
    probing,    \* a probe round has been let in
    rounds,     \* how many probe rounds were let in
    priorities, \* priority of the breakers of each slot
    pending     \* requests picked and not yet intercepted

guardVars == <<mode, inventory, baseline, probing, rounds, priorities>>
admissionVars == <<vars, guardVars, pending>>

\* A new runtime observes and knows nothing until the host registers it.
AdmissionInit ==
    /\ Init
    /\ mode = "observe"
    /\ inventory = FALSE
    /\ baseline = FALSE
    /\ probing = FALSE
    /\ rounds = 0
    /\ priorities = [s \in AuthIndexes |-> NoPriority]
    /\ pending = {}

-----------------------------------------------------------------------------
(***************************************************************************)
(* Readiness, and the priorities a breaker takes from the host's accounts. *)
(***************************************************************************)
Known == {k \in Keys : entries[k] # NoEntry}

UniformPriority == \A j, k \in Known : priorities[j[1]] = priorities[k[1]]

\* A roster gives every account in it its priority of the moment; one that
\* differs for a breaker that stays is a change to be saved.
Prioritised(roster) ==
    \E p \in HostPriorities : priorities' =
        [s \in AuthIndexes |-> IF roster[s] = NoIdentity THEN NoPriority ELSE p[s]]

Reprioritised == \E k \in Known : priorities'[k[1]] # priorities[k[1]]

\* Engine.Ready, with the inventory: every group has fresh evidence and all
\* accounts have one priority.
BaselineFresh ==
    /\ inventory
    /\ Known # {}
    /\ UniformPriority
    /\ \A g \in Groups : \E k \in Known : k[2] = g /\ EvidenceFresh(entries[k], now)

EnforcementReady == inventory /\ baseline

-----------------------------------------------------------------------------
(***************************************************************************)
(* handleSchedulerPick.  While enforcement is not ready the engine is not  *)
(* asked: the request goes to the first candidate of another provider, or  *)
(* is refused, which changes nothing.                                      *)
(***************************************************************************)
Diverted(r, g, cands) ==
    /\ MayDispatch(r)
    /\ \E n \in DOMAIN cands :
          /\ cands[n] \in Others
          /\ \A m \in 1 .. n - 1 : cands[m] \notin Others
          /\ Sent(r, cands[n], NoIndex, g, FALSE)
    /\ UNCHANGED <<now, engineVars, usage, probe, reloads, zeroUntil>>

SchedulerPick(r, g, cands) ==
    /\ IF mode = "enforce" /\ ~EnforcementReady
         THEN Diverted(r, g, cands)
         ELSE Pick(r, g, cands, mode)
    /\ pending' = pending \cup {r}
    /\ UNCHANGED guardVars

-----------------------------------------------------------------------------
(***************************************************************************)
(* handleRequestAfter: requests that go to an Antigravity credential are   *)
(* judged a second time, by their group.                                   *)
(***************************************************************************)
\* Closed and uninitialized breakers count only with fresh evidence.
Trusted(g) ==
    {k \in Known : k[2] = g /\ (Cooling(entries[k]) \/ EvidenceFresh(entries[k], now))}

\* A slip: a running recovery lease does not open the gate.
LeaseRuns_Ignored(e) == FALSE
LeaseRuns(e) == e.state = "half_open" /\ e.leaseUntil > now

\* evaluateGuardGroup.
Blocked(g) ==
    /\ \A k \in Trusted(g) : entries[k].state # "closed" /\ ~LeaseRuns(entries[k])
    /\ FailOpen => /\ Trusted(g) # {}
                   /\ \A k \in Trusted(g) : Cooling(entries[k])

Terminates(r) ==
    LET d == dispatched[r] IN
    /\ d.id \notin Others
    /\ mode = "enforce"
    /\ ~EnforcementReady \/ Blocked(d.group)

Intercept(r) ==
    /\ r \in pending
    /\ pending' = pending \ {r}
    /\ dispatched' = IF Terminates(r) THEN [dispatched EXCEPT ![r] = NoDispatch]
                     ELSE dispatched
    /\ UNCHANGED <<now, engineVars, attempts, usage, probe, reloads, zeroUntil, guardVars>>

-----------------------------------------------------------------------------
(***************************************************************************)
(* Register, Reconfigure and SetDynamicConfig (dynamic): the saved state   *)
(* is loaded and, to enforce, reconciled with the inventory if the host    *)
(* has listed it.  Calls that fail change nothing.                         *)
(***************************************************************************)
\* A slip: an inventory that is not complete is reconciled too.
Reconciles_Always(m, listed) == m = "enforce"
Reconciles(m, listed) == m = "enforce" /\ listed

\* A slip: every configuration starts without a baseline.
Carried_Never(listed) == FALSE

\* A baseline once reached is carried over to the next generation, if the
\* accounts of that one have one priority.
Carried(listed) == listed /\ EnforcementReady /\ UniformPriority'

Reconfigure(m, listed, roster, dynamic) ==
    LET kept == IF Reconciles(m, listed) THEN Reconciled(roster) ELSE entries IN
    /\ reloads < MaxReloads
    /\ Loadable
    /\ Reconciles(m, listed) => DistinctIDs(roster)
    /\ reloads' = reloads + 1
    /\ entries' = [k \in Keys |->
            IF kept[k] = NoEntry THEN NoEntry ELSE Persisted(kept[k])]
    /\ authByID' = IndexOf(IF Reconciles(m, listed) THEN roster
                           ELSE [i \in AuthIndexes |-> CurrentIdentity(i)])
    /\ cursors' = [g \in Groups |-> 0]
    /\ IF Reconciles(m, listed) THEN Prioritised(roster) ELSE UNCHANGED priorities
    /\ dirty' = (kept # entries \/ Reprioritised)
    /\ ForgetReplaced
    /\ mode' = m
    /\ inventory' = listed
    /\ UNCHANGED <<now, hostVars, probe, probing, rounds, pending>>
    /\ baseline' = (BaselineFresh' \/ Carried(listed))
    /\ dynamic /\ m = "enforce" => BaselineFresh'

-----------------------------------------------------------------------------
(***************************************************************************)
(* Probe rounds, of the worker or an operator, are let in only with the    *)
(* inventory; what they list, probe and find comes later, perhaps after a  *)
(* configuration call.  Usage records and releases are not held back.      *)
(***************************************************************************)
LetInProbe ==
    /\ inventory /\ ~probing /\ rounds < MaxRounds
    /\ probing' = TRUE
    /\ rounds' = rounds + 1
    /\ UNCHANGED <<vars, mode, inventory, baseline, priorities, pending>>

UpdateRoster(roster) ==
    /\ probing
    /\ ReplaceRoster(roster)
    /\ Prioritised(roster)
    /\ dirty' = (dirty \/ entries' # entries \/ Reprioritised)
    /\ UNCHANGED <<mode, inventory, baseline, probing, rounds, pending>>

Ask ==
    /\ probing
    /\ StartProbe
    /\ UNCHANGED <<guardVars, pending>>

\* applyGuardEvidence ends by promoting a guard whose evidence is complete; a
\* round that failed does not get there.
FinishProbe ==
    /\ probing
    /\ probing' = FALSE
    /\ \/ EndProbe /\ baseline' = (baseline \/ BaselineFresh)
       \/ EndProbe /\ baseline' = baseline
       \/ probe = NoProbe /\ UNCHANGED <<vars, baseline>>
    /\ UNCHANGED <<mode, inventory, rounds, priorities, pending>>

Other(step) == step /\ UNCHANGED <<guardVars, pending>>

AdmissionNext ==
    \/ \E r \in Requests, g \in Groups, cands \in CandidateLists : SchedulerPick(r, g, cands)
    \/ \E r \in Requests : Intercept(r)
    \/ \E m \in Modes, listed, dynamic \in BOOLEAN, roster \in HostRosters :
            Reconfigure(m, listed, roster, dynamic)
    \/ LetInProbe
    \/ \E roster \in HostRosters : UpdateRoster(roster)
    \/ Ask
    \/ FinishProbe
    \/ Other(Tick)
    \/ \E r \in Requests \ pending, kind \in Outcomes : \E reset \in ResetTimes(kind) :
            Other(Complete(r, kind, reset))
    \/ \E u \in usage : Other(ObserveUsage(u))
    \/ \E k \in Keys, zero \in BOOLEAN, wait \in 0 .. MaxDelay :
            Other(ApplyQuotaEvidence(k, zero, wait))
    \/ \E k \in Keys : Other(ManualHalfOpen(k))

AdmissionSpec == AdmissionInit /\ [][AdmissionNext]_admissionVars

-----------------------------------------------------------------------------
(***************************************************************************)
(* Properties.                                                             *)
(***************************************************************************)

\* The engine's variables and those of the guard have their types.
AdmissionTypeOK ==
    /\ TypeOK
    /\ mode \in {"observe", "enforce"}
    /\ inventory \in BOOLEAN
    /\ baseline \in BOOLEAN
    /\ probing \in BOOLEAN
    /\ rounds \in Nat
    /\ priorities \in [AuthIndexes -> Int \cup {NoPriority}]
    /\ pending \in SUBSET Requests

\* The two handlers agree: the interceptor would not terminate, in the state it
\* leaves behind, a request that an enforcing pick has just given a credential
\* of the roster.  A recovery request in particular gets through its own lease.
PickedPasses ==
    [][\A r \in pending' \ pending :
          mode = "enforce" /\ dispatched'[r].index # NoIndex => ~Terminates(r)']_admissionVars

\* Enforcement that was ready stops being so only when a configuration call
\* finds the host's inventory incomplete or accounts of different priorities:
\* evidence that ages, probes that fail, accounts that a probe round adds,
\* removes or gives another priority, and at a configuration call any accounts
\* of one priority, with or without evidence, do not disable it.
ReadinessSticks ==
    [][EnforcementReady /\ ~EnforcementReady' =>
          reloads' # reloads /\ (~inventory' \/ ~UniformPriority')]_admissionVars

\* A configuration call that meets a host without its inventory keeps every
\* breaker (README: a cold start does not erase persisted state).
ColdStartKeepsBreakers ==
    [][reloads' # reloads /\ ~inventory' =>
          \A k \in Known : entries'[k] = Persisted(entries[k])]_admissionVars

=============================================================================
