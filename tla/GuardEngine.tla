---------------------------- MODULE GuardEngine ----------------------------
(***************************************************************************)
(* The guard engine: the breakers of all credentials and model groups, the *)
(* roster they belong to, and the calls that change them.  Every engine    *)
(* method holds one mutex, so each is one action; what interleaves is the  *)
(* order of the calls: scheduler picks, usage records delivered late and   *)
(* out of order, evidence of a probe round that started earlier, roster    *)
(* replacements, operator releases and reloads of the saved state.         *)
(***************************************************************************)
EXTENDS Breaker, Sequences, FiniteSets

CONSTANTS
    AuthIndexes,     \* slots of the host's auth inventory
    Groups,          \* model groups
    Others,          \* candidates of other providers
    CandidateLists,  \* candidate sequences the host may offer to a pick
    HostRosters,     \* rosters the host may report
    Outcomes,        \* outcomes of requests that may occur
    Modes,           \* modes a pick may run in: "observe", "enforce"
    FailOpen,        \* unknown-auth policy: TRUE is fail_open
    NoEntry, NoIndex, NoIdentity, NoDispatch, NoProbe,
    MaxTime,         \* bound on the clock
    MaxDelay,        \* bound on how far ahead a reset time lies
    MaxAttempts,     \* bound on dispatches per request
    MaxReloads       \* bound on reloads

VARIABLES
    now,        \* the clock
    entries,    \* breaker of each <<auth index, group>>
    authByID,   \* slot of each registered AuthID
    cursors,    \* round-robin cursor of each group
    dirty,      \* there are changes the state file lacks
    dispatched, \* the attempt each request has in flight
    attempts,   \* how often each request was dispatched
    usage,      \* usage records not yet delivered
    probe,      \* the probe round in progress
    reloads,    \* how often the engine was reloaded
    zeroUntil   \* history: reset time of the last exhausted probe

vars == <<now, entries, authByID, cursors, dirty, dispatched, attempts, usage,
          probe, reloads, zeroUntil>>
engineVars == <<entries, authByID, cursors, dirty>>
hostVars   == <<dispatched, attempts, usage>>

Keys    == AuthIndexes \X Groups
Rosters == [AuthIndexes -> Identity \cup {NoIdentity}]

ASSUME NullAssumption ==
    /\ NoEntry \notin Entry
    /\ NoIndex \notin AuthIndexes
    /\ NoIdentity \notin Identity
    /\ Others \cap AuthIDs = {}
    /\ \A c \in CandidateLists : c \in Seq(AuthIDs \cup Others)
    /\ FailOpen \in BOOLEAN

ASSUME BoundAssumption ==
    /\ MaxTime \in Nat
    /\ MaxDelay \in Nat
    /\ MaxAttempts \in Nat
    /\ MaxReloads \in Nat

ASSUME InputAssumption ==
    /\ HostRosters \subseteq Rosters
    /\ Outcomes \subseteq Kinds
    /\ Modes \subseteq {"observe", "enforce"}

Dispatch ==
    [ id : AuthIDs \cup Others, index : AuthIndexes \cup {NoIndex},
      group : Groups, at : Time, leased : BOOLEAN ]

UsageRecord ==
    [ req : Requests, attempt : Nat, id : AuthIDs \cup Others,
      index : AuthIndexes \cup {NoIndex}, group : Groups, kind : Kinds,
      leased : BOOLEAN, sentAt : Time, at : Time, reset : Time ]

ProbeRound ==
    [ at : Time, who : Rosters, todo : SUBSET Keys ]

Init ==
    /\ now = 1
    /\ entries = [k \in Keys |-> NoEntry]
    /\ authByID = [a \in AuthIDs |-> NoIndex]
    /\ cursors = [g \in Groups |-> 0]
    /\ dirty = FALSE
    /\ dispatched = [r \in Requests |-> NoDispatch]
    /\ attempts = [r \in Requests |-> 0]
    /\ usage = {}
    /\ probe = NoProbe
    /\ reloads = 0
    /\ zeroUntil = [k \in Keys |-> Never]

-----------------------------------------------------------------------------
(***************************************************************************)
(* Roster.                                                                 *)
(***************************************************************************)
\* A slip: two slots of one name are let in.
DistinctIDs_Unchecked(roster) == TRUE

DistinctIDs(roster) ==
    \A i, j \in AuthIndexes :
        roster[i] # NoIdentity /\ roster[j] # NoIdentity /\ roster[i].id = roster[j].id
            => i = j

Keeps(k, who) == entries[k] # NoEntry /\ SameIdentity(entries[k], who)

Reconciled(roster) ==
    [k \in Keys |->
        LET who == roster[k[1]] IN
        IF who = NoIdentity THEN NoEntry
        ELSE IF Keeps(k, who) THEN entries[k] ELSE NewEntry(who)]

IndexOf(roster) ==
    [a \in AuthIDs |->
        IF \E i \in AuthIndexes : roster[i] # NoIdentity /\ roster[i].id = a
          THEN CHOOSE i \in AuthIndexes : roster[i] # NoIdentity /\ roster[i].id = a
          ELSE NoIndex]

\* What the engine knew of a credential is gone when its entry is.
ForgetReplaced ==
    zeroUntil' = [k \in Keys |->
        IF /\ entries[k] # NoEntry
           /\ entries'[k] # NoEntry
           /\ SameIdentity(entries'[k], entries[k])
          THEN zeroUntil[k] ELSE Never]

\* A breaker that stays may have another provider or priority, which an entry
\* does not show: that too is a change to be saved.
MarksDirty(slots) ==
    \/ dirty' = (dirty \/ entries' # entries)
    \/ /\ \E k \in Keys : k[1] \in slots /\ entries[k] # NoEntry /\ entries'[k] = entries[k]
       /\ dirty' = TRUE

ReplaceRoster(roster) ==
    /\ DistinctIDs(roster)
    /\ entries' = Reconciled(roster)
    /\ authByID' = IndexOf(roster)
    /\ MarksDirty(AuthIndexes)
    /\ ForgetReplaced
    /\ UNCHANGED <<now, cursors, hostVars, probe, reloads>>

RegisterIdentity(i, who) ==
    /\ who # NoIdentity
    /\ authByID[who.id] \in {NoIndex, i}
    /\ entries' = [k \in Keys |->
            IF k[1] = i /\ ~Keeps(k, who) THEN NewEntry(who) ELSE entries[k]]
    /\ authByID' = [a \in AuthIDs |->
            IF a = who.id THEN i
            ELSE IF authByID[a] = i THEN NoIndex ELSE authByID[a]]
    /\ MarksDirty({i})
    /\ ForgetReplaced
    /\ UNCHANGED <<now, cursors, hostVars, probe, reloads>>

\* lookupEntryLocked: by slot, or by name when the caller has no slot.
SlotOf(i, a) == IF i = NoIndex /\ a \in AuthIDs THEN authByID[a] ELSE i

Lookup(i, a, g) ==
    LET slot == SlotOf(i, a) IN
    IF slot = NoIndex THEN NoEntry
    ELSE IF entries[<<slot, g>>] = NoEntry THEN NoEntry
    ELSE IF entries[<<slot, g>>].id # a THEN NoEntry
    ELSE entries[<<slot, g>>]

-----------------------------------------------------------------------------
(***************************************************************************)
(* Scheduler picks.  The host offers candidates by name; the k-th          *)
(* available one is taken, k being the cursor modulo their number.         *)
(***************************************************************************)
Available(a, g) ==
    LET e == Lookup(NoIndex, a, g) IN
    \/ a \in Others
    \/ a \notin Others /\ e = NoEntry /\ FailOpen
    \/ /\ a \notin Others
       /\ e # NoEntry
       /\ \/ e.state = "closed" /\ EvidenceFresh(e, now)
          \/ e.state = "uninitialized" /\ EvidenceFresh(e, now) /\ FailOpen
          \/ LeaseDue(e, now)

AvailableAt(cands, g) == {n \in DOMAIN cands : Available(cands[n], g)}

Chosen(cands, g, n) ==
    LET avail == AvailableAt(cands, g) IN
    /\ n \in avail
    /\ Cardinality({m \in avail : m < n}) = cursors[g] % Cardinality(avail)

MayDispatch(r) == dispatched[r] = NoDispatch /\ attempts[r] < MaxAttempts

Sent(r, a, i, g, lease) ==
    /\ dispatched' = [dispatched EXCEPT ![r] =
            [id |-> a, index |-> i, group |-> g, at |-> now, leased |-> lease]]
    /\ attempts' = [attempts EXCEPT ![r] = @ + 1]

Enforcing(mode) == mode = "enforce"

\* An enforced pick moves the cursor and grants the lease the selected entry
\* needs.  In observe mode the host's own scheduler sends the request to any
\* candidate, and the pick changes nothing.
Pick(r, g, cands, mode) ==
    /\ MayDispatch(r)
    /\ \E n \in DOMAIN cands :
        LET a    == cands[n]
            e    == IF a \in Others THEN NoEntry ELSE Lookup(NoIndex, a, g)
            slot == IF e = NoEntry THEN NoIndex ELSE authByID[a]
            due  == Enforcing(mode) /\ e # NoEntry /\ LeaseDue(e, now)
        IN  /\ Enforcing(mode) => Chosen(cands, g, n)
            /\ entries' = IF due
                  THEN [entries EXCEPT ![<<slot, g>>] = Leased(e, r, now)]
                  ELSE entries
            /\ dirty' = (dirty \/ due)
            /\ Sent(r, a, slot, g, due)
    /\ cursors' = IF Enforcing(mode) THEN [cursors EXCEPT ![g] = @ + 1] ELSE cursors
    /\ UNCHANGED <<now, authByID, usage, probe, reloads, zeroUntil>>

-----------------------------------------------------------------------------
(***************************************************************************)
(* The host completes a request and delivers its usage record later, in    *)
(* any order, or never.  Only a failed attempt is retried.                 *)
(***************************************************************************)
ResetTimes(kind) ==
    IF kind \in {"explicit", "generic"} THEN {Never} \cup (now + 1 .. now + MaxDelay)
    ELSE {Never}

Complete(r, kind, reset) ==
    LET d == dispatched[r] IN
    /\ d # NoDispatch
    /\ reset \in ResetTimes(kind)
    /\ usage' = usage \cup
          {[req |-> r, attempt |-> attempts[r], id |-> d.id, index |-> d.index,
            group |-> d.group, kind |-> kind, leased |-> d.leased,
            sentAt |-> d.at, at |-> now, reset |-> reset]}
    /\ dispatched' = [dispatched EXCEPT ![r] = NoDispatch]
    /\ attempts' = [attempts EXCEPT ![r] = IF kind = "success" THEN MaxAttempts ELSE @]
    /\ UNCHANGED <<now, engineVars, probe, reloads, zeroUntil>>

ObserveUsage(u) ==
    LET e   == Lookup(u.index, u.id, u.group)
        key == <<SlotOf(u.index, u.id), u.group>>
    IN
    /\ usage' = usage \ {u}
    /\ entries' = IF e = NoEntry THEN entries
                  ELSE [entries EXCEPT ![key] = WithUsage(e, u)]
    /\ dirty' = (dirty \/ entries' # entries)
    /\ UNCHANGED <<now, authByID, cursors, dispatched, attempts, probe, reloads,
                   zeroUntil>>

-----------------------------------------------------------------------------
(***************************************************************************)
(* A probe round notes the time and the identities it probes, then applies *)
(* what it found to one entry after the other; a failed probe of an entry  *)
(* applies nothing.                                                        *)
(***************************************************************************)
CurrentIdentity(i) ==
    LET held == {g \in Groups : entries[<<i, g>>] # NoEntry} IN
    IF held = {} THEN NoIdentity
    ELSE LET e == entries[<<i, CHOOSE g \in held : TRUE>>] IN
         [id |-> e.id, fp |-> e.fp]

StartProbe ==
    /\ probe = NoProbe
    /\ \E k \in Keys : entries[k] # NoEntry
    /\ probe' = [at |-> now, who |-> [i \in AuthIndexes |-> CurrentIdentity(i)],
                 todo |-> {k \in Keys : entries[k] # NoEntry}]
    /\ UNCHANGED <<now, engineVars, hostVars, reloads, zeroUntil>>

\* A slip: only the slot is compared, not who holds it.
Accepts_AnyIdentity(k, who, at) ==
    entries[k] # NoEntry /\ ~Superseded(entries[k], at)

\* ApplyQuotaEvidence's early returns: no entry, another identity, older
\* than what is known.
Accepts(k, who, at) ==
    /\ entries[k] # NoEntry
    /\ SameIdentity(entries[k], who)
    /\ ~Superseded(entries[k], at)

ApplyQuotaEvidence(k, zero, wait) ==
    /\ probe # NoProbe
    /\ k \in probe.todo
    /\ probe.who[k[1]] # NoIdentity
    /\ probe' = [probe EXCEPT !.todo = @ \ {k}]
    /\ LET resetAt == IF wait = 0 THEN Never ELSE probe.at + wait IN
       IF Accepts(k, probe.who[k[1]], probe.at)
         THEN /\ entries' = [entries EXCEPT ![k] =
                                WithEvidence(@, probe.at, zero, resetAt)]
              /\ zeroUntil' = [zeroUntil EXCEPT ![k] =
                    CASE ExhaustedUntil(zero, probe.at, resetAt) -> resetAt
                      [] ~zero -> Never
                      [] OTHER -> @]
         ELSE UNCHANGED <<entries, zeroUntil>>
    /\ dirty' = (dirty \/ entries' # entries)
    /\ UNCHANGED <<now, authByID, cursors, hostVars, reloads>>

EndProbe ==
    /\ probe # NoProbe
    /\ probe' = NoProbe
    /\ UNCHANGED <<now, engineVars, hostVars, reloads, zeroUntil>>

-----------------------------------------------------------------------------
(***************************************************************************)
(* Operator release, reload of the saved state, and time.                  *)
(***************************************************************************)
ManualHalfOpen(k) ==
    /\ entries[k] # NoEntry
    /\ ManuallyReleasable(entries[k], now)
    /\ entries' = [entries EXCEPT ![k] = Released(@)]
    /\ dirty' = TRUE
    /\ zeroUntil' = [zeroUntil EXCEPT ![k] = Never]
    /\ UNCHANGED <<now, authByID, cursors, hostVars, probe, reloads>>

\* validateDocument: one identity per slot, one slot per name.
Loadable ==
    \A j, k \in Keys :
        entries[j] # NoEntry /\ entries[k] # NoEntry =>
            /\ j[1] = k[1] => SameIdentity(entries[j], entries[k])
            /\ entries[j].id = entries[k].id => j[1] = k[1]

\* A configuration change saves the engine and loads a new one from the file.
Reload ==
    /\ reloads < MaxReloads
    /\ Loadable
    /\ reloads' = reloads + 1
    /\ entries' = [k \in Keys |->
            IF entries[k] = NoEntry THEN NoEntry ELSE Persisted(entries[k])]
    /\ authByID' = IndexOf([i \in AuthIndexes |-> CurrentIdentity(i)])
    /\ cursors' = [g \in Groups |-> 0]
    /\ dirty' = FALSE
    /\ UNCHANGED <<now, hostVars, probe, zeroUntil>>

Tick ==
    /\ now < MaxTime
    /\ now' = now + 1
    /\ UNCHANGED <<engineVars, hostVars, probe, reloads, zeroUntil>>

Next ==
    \/ Tick
    \/ \E roster \in HostRosters : ReplaceRoster(roster)
    \/ \E roster \in HostRosters, i \in AuthIndexes : RegisterIdentity(i, roster[i])
    \/ \E r \in Requests, g \in Groups, cands \in CandidateLists, mode \in Modes :
            Pick(r, g, cands, mode)
    \/ \E r \in Requests, kind \in Outcomes : \E reset \in ResetTimes(kind) :
            Complete(r, kind, reset)
    \/ \E u \in usage : ObserveUsage(u)
    \/ StartProbe
    \/ \E k \in Keys, zero \in BOOLEAN, wait \in 0 .. MaxDelay :
            ApplyQuotaEvidence(k, zero, wait)
    \/ EndProbe
    \/ \E k \in Keys : ManualHalfOpen(k)
    \/ Reload

Spec == Init /\ [][Next]_vars

-----------------------------------------------------------------------------
(***************************************************************************)
(* Properties.                                                             *)
(***************************************************************************)

\* Every variable has its type.
TypeOK ==
    /\ now \in Time
    /\ entries \in [Keys -> Entry \cup {NoEntry}]
    /\ authByID \in [AuthIDs -> AuthIndexes \cup {NoIndex}]
    /\ cursors \in [Groups -> Nat]
    /\ dirty \in BOOLEAN
    /\ dispatched \in [Requests -> Dispatch \cup {NoDispatch}]
    /\ attempts \in [Requests -> Nat]
    /\ usage \in SUBSET UsageRecord
    /\ probe \in ProbeRound \cup {NoProbe}
    /\ reloads \in Nat
    /\ zeroUntil \in [Keys -> Time]

ZeroBlock(e, until) ==
    e.state = "open" /\ e.reason = "quota_zero" /\ e.recoverAt >= until

\* Until the reset time that the last accepted probe of a credential named for
\* an exhausted quota, its breaker stays open for that very reason and at least
\* that long, whatever 429s, late results, lease attempts and reloads happen;
\* only a positive probe, an operator or another credential ends it.
KnownZeroBlocks ==
    \A k \in Keys :
        now < zeroUntil[k] =>
            entries[k] # NoEntry /\ ZeroBlock(entries[k], zeroUntil[k])

BlockEnds(e, t) ==
    /\ e.state = "open" =>
          e.recoverAt # Never /\ e.recoverAt <= t + Later(MaxCooldown, MaxDelay)
    /\ e.state = "half_open" => e.leaseUntil <= t + HalfOpenLease

\* No breaker excludes its credential for ever: an open one has a recovery time
\* at most the longest cooldown or announced reset away, and a lease runs out.
EveryBlockEnds ==
    \A k \in Keys : entries[k] # NoEntry => BlockEnds(entries[k], now)

\* The index by name and the breakers describe the same roster, so what is
\* saved passes the validation a load applies.
RosterIndexed ==
    /\ Loadable
    /\ \A k \in Keys : entries[k] # NoEntry => authByID[entries[k].id] = k[1]
    /\ \A a \in AuthIDs, g \in Groups :
            authByID[a] # NoIndex =>
                entries[<<authByID[a], g>>] # NoEntry /\ entries[<<authByID[a], g>>].id = a

\* The records delivered by a step, and the breaker each of them is about.
Delivered == usage \ usage'
About(u) == <<SlotOf(u.index, u.id), u.group>>

\* While a request holds a recovery lease, the results of all other requests
\* leave the breaker as it is (README: a lease cannot be closed by an older
\* request), and so does a success that was sent before the lease began.
OnlyOwnerSettles ==
    [][\A u \in Delivered : LET k == About(u) IN
          k \in Keys /\ entries[k] # NoEntry /\ entries[k].state = "half_open" =>
            /\ entries[k].owner \notin {NoRequest, u.req} => entries'[k] = entries[k]
            /\ entries'[k].state = "closed" => u.leased /\ u.sentAt >= entries[k].startedAt
      ]_vars

\* A 429 never brings forward the end of a quota or reset breaker that is still
\* running, nor makes it half-open or closed.
HardNeverShortened ==
    [][\A u \in Delivered : LET k == About(u) IN
          k \in Keys /\ entries[k] # NoEntry /\ HardActive(entries[k], now) =>
            /\ entries'[k].state = "open"
            /\ entries'[k].recoverAt >= entries[k].recoverAt
            /\ entries'[k].reason \in Hard
      ]_vars

\* What is known of a credential is never replaced by older knowledge.
KnowledgeOnlyGrows ==
    [][\A k \in Keys :
          entries[k] # NoEntry /\ entries'[k] # NoEntry
            /\ SameIdentity(entries'[k], entries[k]) =>
                \/ entries'[k].evidenceAt > entries[k].evidenceAt
                \/ /\ entries'[k].evidenceAt = entries[k].evidenceAt
                   /\ entries'[k].quotaAt >= entries[k].quotaAt
                \/ entries'[k] = NewEntry(entries[k])
      ]_vars

\* Quota evidence reaches only the credential that was probed, even when the
\* slot changed hands while the probe was under way.
EvidenceStaysWithCredential ==
    [][\A k \in Keys :
          entries'[k] # NoEntry /\ entries'[k].quotaAt # Never =>
            \/ /\ entries[k] # NoEntry
               /\ SameIdentity(entries'[k], entries[k])
               /\ entries'[k].quotaAt = entries[k].quotaAt
            \/ /\ probe # NoProbe
               /\ SameIdentity(entries'[k], probe.who[k[1]])
               /\ entries'[k].quotaAt = probe.at
      ]_vars

(***************************************************************************)
(* What the documentation says and the code does not keep.                 *)
(***************************************************************************)

\* README: a new or replaced credential is excluded until its first successful
\* quota probe.
UnprobedNeverScheduled ==
    [][\A r \in Requests : LET d == dispatched'[r] IN
          dispatched[r] = NoDispatch /\ d # NoDispatch /\ d.index # NoIndex =>
            entries[<<d.index, d.group>>].quotaAt # Never
      ]_vars

\* README and CONTEXT: a generic 429 excludes a credential for at most the
\* maximum cooldown.
GenericAtMostMax ==
    \A k \in Keys :
        entries[k] # NoEntry /\ entries[k].state = "open"
            /\ entries[k].reason = "generic_429" =>
                entries[k].recoverAt <= entries[k].failedAt + MaxCooldown

\* README: the success of the request that holds the recovery lease closes the
\* breaker.
LeasedSuccessCloses ==
    [][\A u \in Delivered : LET k == About(u) IN
          /\ u.leased /\ u.kind = "success"
          /\ k \in Keys /\ entries[k] # NoEntry
          /\ entries[k].state = "half_open"
          /\ entries[k].startedAt = u.sentAt
          /\ ~Superseded(entries[k], u.at)
            => entries'[k].state = "closed"
      ]_vars

=============================================================================
