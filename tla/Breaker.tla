------------------------------ MODULE Breaker ------------------------------
(***************************************************************************)
(* One quota breaker: the record kept for a (credential, model group) pair *)
(* and the pure transitions that internal/guard makes on it under the      *)
(* engine's mutex.  Times are natural numbers; Never is Go's zero time.    *)
(* Fields that nothing but the status page reads (opened_at, reset_at,     *)
(* remaining_percent, the evidence source, provider, priority) are left    *)
(* out.                                                                    *)
(***************************************************************************)
EXTENDS Naturals

CONSTANTS
    AuthIDs,          \* credential names (AuthID)
    Fingerprints,     \* immutable account data behind a name
    Requests,         \* request IDs
    NoRequest,        \* the empty request ID
    Threshold,        \* generic 429s that open a breaker
    Window,           \* longest gap between two counted generic 429s
    InitialCooldown,  \* first generic cooldown
    MaxCooldown,      \* escalated cooldown; default of an explicit 429
    HalfOpenLease,    \* length of a recovery lease
    EvidenceMaxAge,   \* age at which quota evidence is stale
    FutureTolerance   \* how far ahead of the clock evidence may lie

\* What validateConfig accepts.
ASSUME ConfigAssumption ==
    /\ Threshold \in Nat \ {0}
    /\ Window \in Nat \ {0}
    /\ InitialCooldown \in Nat \ {0}
    /\ MaxCooldown \in Nat \ {0}
    /\ InitialCooldown <= MaxCooldown
    /\ HalfOpenLease \in Nat \ {0}
    /\ EvidenceMaxAge \in Nat \ {0}
    /\ FutureTolerance \in Nat

ASSUME RequestAssumption == NoRequest \notin Requests

Time  == Nat
Never == 0

States  == {"uninitialized", "closed", "open", "half_open"}
Reasons == {"none", "quota_zero", "explicit_429", "generic_429", "manual_probe"}
Hard    == {"quota_zero", "explicit_429"}

Entry ==
    [ id         : AuthIDs,
      fp         : Fingerprints,
      state      : States,
      reason     : Reasons,
      recoverAt  : Time,
      failures   : Nat,
      failedAt   : Time,
      startedAt  : Time,
      leaseUntil : Time,
      owner      : Requests \cup {NoRequest},
      evidenceAt : Time,
      quotaAt    : Time ]

Identity == [id : AuthIDs, fp : Fingerprints]

NewEntry(who) ==
    [ id |-> who.id, fp |-> who.fp, state |-> "uninitialized",
      reason |-> "none", recoverAt |-> Never, failures |-> 0,
      failedAt |-> Never, startedAt |-> Never, leaseUntil |-> Never,
      owner |-> NoRequest, evidenceAt |-> Never, quotaAt |-> Never ]

SameIdentity(e, who) == e.id = who.id /\ e.fp = who.fp

(***************************************************************************)
(* openLocked and closeLocked.                                             *)
(***************************************************************************)
OpenEntry(e, why, until) ==
    [e EXCEPT !.state = "open", !.reason = why, !.recoverAt = until,
              !.startedAt = Never, !.leaseUntil = Never, !.owner = NoRequest]

CloseEntry(e) ==
    [e EXCEPT !.state = "closed", !.reason = "none", !.recoverAt = Never,
              !.failures = 0, !.failedAt = Never,
              !.startedAt = Never, !.leaseUntil = Never, !.owner = NoRequest]

(***************************************************************************)
(* Quota evidence: a successful probe, observed at `at`, found the quota   *)
(* exhausted (zero) until resetAt, or positive.                            *)
(***************************************************************************)
\* A slip: the age of a report is not compared.
Superseded_Never(e, at) == FALSE
Superseded(e, at) == at < e.evidenceAt

ExhaustedUntil(zero, at, resetAt) == zero /\ resetAt > at

PositiveCloses(e) ==
    e.state = "uninitialized" \/ e.reason \in {"quota_zero", "manual_probe"}

WithEvidence(e, at, zero, resetAt) ==
    LET seen == [e EXCEPT !.evidenceAt = at, !.quotaAt = at] IN
    CASE ExhaustedUntil(zero, at, resetAt) -> OpenEntry(seen, "quota_zero", resetAt)
      [] ~zero /\ PositiveCloses(e)        -> CloseEntry(seen)
      [] OTHER                             -> seen

EvidenceFresh(e, at) ==
    /\ e.quotaAt # Never
    /\ at <= e.quotaAt + EvidenceMaxAge
    /\ e.quotaAt <= at + FutureTolerance

(***************************************************************************)
(* A usage record u: req the request that produced it, at its completion   *)
(* time, kind its outcome and reset the reset time its headers or body     *)
(* name (Never if none, otherwise after u.at).                             *)
(***************************************************************************)
Kinds == {"success", "explicit", "generic", "failure"}

\* A slip: any result settles a lease.
Fenced_Never(e, u) == FALSE

\* The lease belongs to another request, whose result alone may settle it.
Fenced(e, u) ==
    e.state = "half_open" /\ e.owner # NoRequest /\ u.req # e.owner

SettlesLease(e, u) ==
    /\ e.state = "half_open"
    /\ e.startedAt # Never
    /\ u.at >= e.startedAt
    /\ e.owner # NoRequest
    /\ u.req = e.owner

WithSuccess(e, u) ==
    CASE SettlesLease(e, u) -> [CloseEntry(e) EXCEPT !.evidenceAt = u.at]
      [] ~SettlesLease(e, u) /\ e.state = "closed" /\ u.at >= e.failedAt ->
            [e EXCEPT !.failures = 0, !.failedAt = Never]
      [] OTHER -> e

\* A slip: only explicit resets are kept, a quota breaker is not.
HardActive_ExplicitOnly(e, at) ==
    e.state = "open" /\ at < e.recoverAt /\ e.reason = "explicit_429"

\* A quota or reset breaker that has not reached its recovery time.
HardActive(e, at) ==
    e.state = "open" /\ at < e.recoverAt /\ e.reason \in Hard

Later(s, t) == IF s > t THEN s ELSE t

\* A slip: the latest 429 replaces a running block instead of extending it.
WithExplicit429_LatestWins(e, u) ==
    [OpenEntry(e, "explicit_429",
               IF u.reset > u.at THEN u.reset ELSE u.at + MaxCooldown) EXCEPT
        !.failures = e.failures + 1, !.failedAt = u.at, !.evidenceAt = u.at]

WithExplicit429(e, u) ==
    LET named  == IF u.reset > u.at THEN u.reset ELSE u.at + MaxCooldown
        until  == IF HardActive(e, u.at) THEN Later(e.recoverAt, named) ELSE named
        why    == IF HardActive(e, u.at) THEN e.reason ELSE "explicit_429"
    IN  [OpenEntry(e, why, until) EXCEPT
            !.failures = e.failures + 1, !.failedAt = u.at, !.evidenceAt = u.at]

\* The streak of generic 429s that u continues or starts.
Streak(e, u) ==
    IF e.failedAt = Never \/ u.at < e.failedAt \/ u.at > e.failedAt + Window
      THEN 1 ELSE e.failures + 1

Cooling(e) == e.state \in {"open", "half_open"}

GenericCooldown(e, n) ==
    IF Cooling(e) \/ n > Threshold THEN MaxCooldown ELSE InitialCooldown

\* A slip: the cooldown is dropped in favour of a reset time that may be missing.
WithGeneric429_ResetOnly(e, u) ==
    OpenEntry([e EXCEPT !.failures = Streak(e, u), !.failedAt = u.at, !.evidenceAt = u.at],
              "generic_429", u.reset)

WithGeneric429(e, u) ==
    LET n       == Streak(e, u)
        counted == [e EXCEPT !.failures = n, !.failedAt = u.at, !.evidenceAt = u.at]
        until   == Later(u.at + GenericCooldown(e, n), u.reset)
    IN  IF HardActive(e, u.at) \/ (n < Threshold /\ ~Cooling(e))
          THEN counted
          ELSE OpenEntry(counted, "generic_429", until)

WithUsage(e, u) ==
    IF Superseded(e, u.at) \/ Fenced(e, u) THEN e
    ELSE CASE u.kind = "success"  -> WithSuccess(e, u)
           [] u.kind = "explicit" -> WithExplicit429(e, u)
           [] u.kind = "generic"  -> WithGeneric429(e, u)
           [] OTHER               -> e

(***************************************************************************)
(* Scheduling: an entry whose recovery time or lease has run out is        *)
(* available again, and taking it grants a new lease.                      *)
(***************************************************************************)
LeaseDue(e, t) ==
    \/ e.state = "open" /\ e.recoverAt # Never /\ t >= e.recoverAt
    \/ e.state = "half_open" /\ (e.leaseUntil = Never \/ t >= e.leaseUntil)

\* A slip: the lease is noted under the credential instead of the request.
Leased_ByCredential(e, r, t) ==
    [e EXCEPT !.state = "half_open", !.startedAt = t,
              !.leaseUntil = t + HalfOpenLease, !.owner = e.id]

Leased(e, r, t) ==
    [e EXCEPT !.state = "half_open", !.startedAt = t,
              !.leaseUntil = t + HalfOpenLease, !.owner = r]

\* ManualHalfOpen: an operator releases a cooling entry for one probe.
ManuallyReleasable(e, t) ==
    \/ e.state = "open"
    \/ e.state = "half_open" /\ e.leaseUntil # Never /\ t >= e.leaseUntil

Released(e) ==
    [e EXCEPT !.state = "half_open", !.reason = "manual_probe",
              !.startedAt = Never, !.leaseUntil = Never, !.owner = NoRequest]

\* What a save and a load keep: every field but the unexported owner.
Persisted(e) == [e EXCEPT !.owner = NoRequest]

=============================================================================
