------------------------------ MODULE Planner -------------------------------
(***************************************************************************)
(* The priority planner: what priority and disabled flag each credential   *)
(* should have, from quota evidence and cooldowns.  Healthy credentials    *)
(* form a boosted and a regular tier; in a tier, those of about the same   *)
(* urgency share a priority.                                               *)
(*                                                                         *)
(* Urgency is exact: a fraction with the denominator 1000 * den.           *)
(***************************************************************************)
EXTENDS Evidence

MaxPriority == 999
MinPriority == 1
DepletedPriority == -1

Least(a, b) == IF a <= b THEN a ELSE b
Most(a, b) == IF a >= b THEN a ELSE b
Distance(a, b) == Most(a, b) - Least(a, b)

NormalizeStart(start, default) == IF start <= 0 THEN default ELSE Least(start, MaxPriority)
\* A slip: both tiers start from the boosted priority.
NormalizeOptions_Same(o) ==
    [o EXCEPT !.boost = NormalizeStart(o.boost, 999), !.normal = NormalizeStart(o.boost, 100),
              !.minChange = Most(@, 0)]
NormalizeOptions(o) ==
    [o EXCEPT !.boost = NormalizeStart(@, 999), !.normal = NormalizeStart(@, 100),
              !.minChange = Most(@, 0)]

-----------------------------------------------------------------------------
(***************************************************************************)
(* Metrics of one piece of evidence, in percent and hours.                 *)
(***************************************************************************)
R7d(e) == Most(IF e.lrem # Missing THEN e.lrem ELSE e.rem, 0)
R5h(e) == Most(IF e.srem # Missing THEN e.srem ELSE e.rem, 0)

HoursTo(reset, now) == Most(reset - now, 0)
T7d(e, now) == HoursTo(IF e.lreset # Zero THEN e.lreset ELSE e.reset, now)
T5h(e, now) == HoursTo(IF e.sreset # Zero THEN e.sreset ELSE e.reset, now)

\* T_7d <= T_required, the hours that burning R_7d takes.
IsBoostEligible(e, now) ==
    R7d(e) > 0 /\ T7d(e, now) * (IF e.rate <= 0 THEN DefaultCycleBurnRate ELSE e.rate)
                     <= 500 * R7d(e)

Urgency(e, now) ==
    LET den == Most(2 * T7d(e, now), 1) IN
    [den |-> den,
     num |-> 1344 * R7d(e) + den * (3 * Least(R7d(e), 100) + 2 * Least(R5h(e), 100)
                                     + 100 - 20 * Least(T5h(e, now), 5))]

IsWeeklyDepleted(e) == R7d(e) = 0
IsShortDepleted(e) == ~IsWeeklyDepleted(e) /\ e.srem # Missing /\ e.srem <= 0

MoreUrgent(u, v) == u.num * v.den > v.num * u.den
\* u and v differ by more than a tolerance in thousandths.
Apart(u, v, tolerance) ==
    \/ u.num * v.den - v.num * u.den > tolerance * u.den * v.den
    \/ v.num * u.den - u.num * v.den > tolerance * u.den * v.den

-----------------------------------------------------------------------------
(***************************************************************************)
(* Items.                                                                  *)
(***************************************************************************)
NoUrgency == [num |-> 0, den |-> 1]

Kept(c, host) ==
    [cred |-> c, host |-> host, priority |-> host.priority, disabled |-> host.disabled,
     reason |-> "keep current state", known |-> FALSE, fresh |-> FALSE, urgency |-> NoUrgency, t5 |-> 0]

StateOf(e, now) ==
    IF IsWeeklyDepleted(e) THEN "weekly depleted"
    ELSE IF IsShortDepleted(e) THEN "short window depleted"
    ELSE IF IsBoostEligible(e, now) THEN "boosted" ELSE "remaining positive"

Healthy == {"boosted", "remaining positive"}

Judged(c, host, state, e, isFresh, now) ==
    [cred |-> c, host |-> host,
     priority |-> IF state \in Healthy THEN host.priority ELSE DepletedPriority,
     disabled |-> state = "weekly depleted",
     reason |-> state, known |-> TRUE, fresh |-> isFresh,
     urgency |-> Urgency(e, now), t5 |-> T5h(e, now)]

\* The evidence to judge a credential by: fresh where there is some.
PlanItem(c, host, fresh, historical, o) ==
    LET judging == IF \E e \in fresh : e.cred = c THEN fresh ELSE historical IN
    IF host.disabled /\ o.ignoreDisabled
       THEN [Kept(c, host) EXCEPT !.reason = "disabled on host"]
    ELSE IF \A e \in judging : e.cred # c THEN Kept(c, host)
    ELSE LET e == CHOOSE q \in {q \in judging : q.cred = c} : TRUE
         IN Judged(c, host, StateOf(e, o.now), e, e \in fresh, o.now)

Cooling(item, o) ==
    item.reason \in Healthy /\ o.now < o.cooldowns[item.cred]

\* What CompareHealthyCandidates looks at, and how.
Standing(i) == [cred |-> i.cred, urgency |-> i.urgency, t5 |-> i.t5]
Before(i, j) ==
    \/ MoreUrgent(i.urgency, j.urgency)
    \/ /\ ~MoreUrgent(j.urgency, i.urgency)
       /\ i.t5 < j.t5 \/ (i.t5 = j.t5 /\ i.cred < j.cred)

\* Along a tier, the priority falls by one where the urgency has moved from
\* that of the cluster's first member by more than the tolerance.
\* A slip: each is compared with the one before it.
Cluster_Chained(cluster, item, tolerance) ==
    IF Apart(cluster.anchor, item.urgency, tolerance)
    THEN [priority |-> Most(cluster.priority - 1, MinPriority), anchor |-> item.urgency]
    ELSE [cluster EXCEPT !.anchor = item.urgency]
Cluster(cluster, item, tolerance) ==
    IF Apart(cluster.anchor, item.urgency, tolerance)
    THEN [priority |-> Most(cluster.priority - 1, MinPriority), anchor |-> item.urgency]
    ELSE cluster

\* A tier is a set of standings; a place in it is one in the sorted list.
Place(tier, s) == Cardinality({t \in tier : Before(t, s)}) + 1
AtPlace(tier, n) == CHOOSE s \in tier : Place(tier, s) = n

\* The cluster that each place falls into.
Clusters(tier, start, tolerance) ==
    LET cluster[n \in 1 .. Cardinality(tier)] ==
            IF n = 1 THEN [priority |-> start, anchor |-> AtPlace(tier, 1).urgency]
            ELSE Cluster(cluster[n - 1], AtPlace(tier, n), tolerance)
    IN cluster

TierPriority(tier, s, start, tolerance) ==
    Clusters(tier, start, tolerance)[Place(tier, s)].priority

Tier(items, reason, o) ==
    {Standing(i) : i \in {j \in items : j.reason = reason /\ ~Cooling(j, o)}}
Start(reason, o) == IF reason = "boosted" THEN o.boost ELSE o.normal

Positive(i, items, o) ==
    IF i.reason \notin Healthy THEN i
    ELSE IF Cooling(i, o)
    THEN [i EXCEPT !.priority = DepletedPriority, !.reason = "429 cooldown"]
    ELSE [i EXCEPT !.priority = TierPriority(Tier(items, i.reason, o), Standing(i),
                                             Start(i.reason, o), o.tolerance)]

PlanPositive(items, o) == {Positive(i, items, o) : i \in items}

\* A slip: what has not changed is written again when every change counts.
ShouldChange_Always(i, o) ==
    i.fresh /\ (\/ i.host.missing
                \/ i.disabled # i.host.disabled
                \/ Distance(i.priority, i.host.priority) >= o.minChange)
\* A slip: evidence of an earlier round is enough.
ShouldChange_Stale(i, o) ==
    i.known /\ (\/ i.host.missing
                \/ i.disabled # i.host.disabled
                \/ i.priority # i.host.priority)
ShouldChange(i, o) ==
    /\ i.fresh
    /\ \/ i.host.missing
       \/ i.disabled # i.host.disabled
       \/ /\ i.priority # i.host.priority
          /\ \/ i.priority = DepletedPriority /\ i.disabled
             \/ Distance(i.priority, i.host.priority) >= o.minChange

\* The order in which items and changes are listed is left out.
WithChanges(items, o) ==
    [items |-> items, changes |-> {i \in items : ShouldChange(i, o)}]

Planned(hosts, fresh, historical, o) ==
    LET items == {PlanItem(c, hosts[c], fresh, historical, o) : c \in DOMAIN hosts} IN
    WithChanges(PlanPositive(items, o), o)

\* PlanWithEvidence.  hosts gives each credential's current state.
Plan(hosts, fresh, historical, options) ==
    Planned(hosts, fresh, historical, NormalizeOptions(options))

ItemOf(plan, c) == CHOOSE i \in plan.items : i.cred = c

=============================================================================
