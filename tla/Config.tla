------------------------------- MODULE Config -------------------------------
(***************************************************************************)
(* The configuration: what the host's YAML, a management request and an    *)
(* older state cache may say, and how each becomes a configuration the     *)
(* guard may run with.  A duration counts half minutes; 0 is an omitted    *)
(* one, and a negative one any text that is no positive duration.  A path  *)
(* is the sequence of its parts.                                           *)
(***************************************************************************)
EXTENDS Integers, Sequences, SequencesExt

Minute == 2

Overlay(base, given) ==
    [f \in DOMAIN base |-> IF f \in DOMAIN given THEN given[f] ELSE base[f]]

-----------------------------------------------------------------------------
(***************************************************************************)
(* Texts.                                                                  *)
(***************************************************************************)
Lowered(text) == IF text = "Enforce" THEN "enforce" ELSE text

NoGroup == "no group"
ParseGroup(text) ==
    CASE text \in {"", "gemini"}                        -> "gemini"
      [] text \in {"claude_gpt", "claude-gpt", "claudegpt"} -> "claude_gpt"
      [] OTHER                                          -> NoGroup

Cleaned(path) == SelectSeq(path, LAMBDA part : part \notin {"", "."})

GuardStateDirectory == <<"data", "cpa-antigravity-quota-guard">>
SecretDirectories == {"auth", "auths", "credential", "credentials"}

\* validatePluginDataPath: a root, a drive or ".." is refused before the path
\* is cleaned.
ValidPluginPath(path) ==
    LET clean == Cleaned(path) IN
    /\ path # <<>>
    /\ Head(path) \notin {"/", "C:"}
    /\ \A k \in DOMAIN path : path[k] # ".."
    /\ IsStrictPrefix(GuardStateDirectory, clean)
    /\ \A k \in DOMAIN Front(clean) : clean[k] \notin SecretDirectories

\* Minutes after midnight; -1 is no time at all.
UnsetTime == -1
ValidTime(time) == time = UnsetTime \/ time \in 0 .. 24 * 60

-----------------------------------------------------------------------------
(***************************************************************************)
(* The guard's part.                                                       *)
(***************************************************************************)
ZeroGuard ==
    [mode |-> "", managedAuth |-> "", enforcedGroups |-> <<>>,
     requireUniformPriority |-> FALSE, probeInterval |-> 0, evidenceMaxAge |-> 0,
     threshold |-> 0, window |-> 0, initialCooldown |-> 0, maxCooldown |-> 0,
     halfOpenLease |-> 0, unknownAuthPolicy |-> "", unknownModelPolicy |-> "",
     statePath |-> <<>>]

\* The decoder accepts nothing else.
GuardConfigs ==
    [mode : STRING, managedAuth : STRING, enforcedGroups : Seq(STRING),
     requireUniformPriority : BOOLEAN, probeInterval : Int, evidenceMaxAge : Int,
     threshold : Int, window : Int, initialCooldown : Int, maxCooldown : Int,
     halfOpenLease : Int, unknownAuthPolicy : STRING, unknownModelPolicy : STRING,
     statePath : Seq(STRING)]

DefaultGuardStatePath == GuardStateDirectory \o <<"state.json">>
DefaultStateCachePath == GuardStateDirectory \o <<"quota-cache.json">>

DefaultGuard ==
    [mode |-> "observe", managedAuth |-> "all_antigravity",
     enforcedGroups |-> <<"gemini", "claude_gpt">>,
     requireUniformPriority |-> TRUE, probeInterval |-> 15 * Minute,
     evidenceMaxAge |-> 30 * Minute, threshold |-> 2, window |-> Minute,
     initialCooldown |-> 15 * Minute, maxCooldown |-> 30 * Minute,
     halfOpenLease |-> 1, unknownAuthPolicy |-> "fail_closed",
     unknownModelPolicy |-> "fail_closed", statePath |-> DefaultGuardStatePath]

GuardParsed(dyn) ==
    /\ \A k \in DOMAIN dyn.enforcedGroups :
         dyn.enforcedGroups[k] # "" /\ ParseGroup(dyn.enforcedGroups[k]) # NoGroup
    /\ dyn.probeInterval > 0 /\ dyn.evidenceMaxAge > 0
    /\ dyn.window > 0 /\ dyn.initialCooldown > 0 /\ dyn.maxCooldown > 0
    /\ dyn.halfOpenLease > 0

Canonical(dyn) ==
    [dyn EXCEPT !.mode = Lowered(@),
                !.enforcedGroups = [k \in DOMAIN @ |-> ParseGroup(@[k])]]

GuardValid(guard) ==
    /\ guard.mode \in {"observe", "enforce"}
    /\ guard.managedAuth = "all_antigravity"
    /\ guard.enforcedGroups # <<>>
    /\ \A k, l \in DOMAIN guard.enforcedGroups :
         guard.enforcedGroups[k] = guard.enforcedGroups[l] => k = l
    /\ guard.mode = "enforce" => guard.requireUniformPriority
    /\ guard.probeInterval >= Minute
    /\ guard.evidenceMaxAge >= guard.probeInterval
    /\ guard.threshold \in 1 .. 10
    /\ guard.window > 0 /\ guard.initialCooldown > 0
    /\ guard.maxCooldown >= guard.initialCooldown
    /\ guard.halfOpenLease > 0
    /\ guard.unknownAuthPolicy = "fail_closed"
    /\ guard.unknownModelPolicy = "fail_closed"
    /\ ValidPluginPath(guard.statePath)

ToConfigAccepts(dyn) == GuardParsed(dyn) /\ GuardValid(Canonical(dyn))

\* A part that says nothing at all stands for the default guard.
GivenGuard(dyn) == IF dyn.guard = ZeroGuard THEN DefaultGuard ELSE dyn.guard

-----------------------------------------------------------------------------
(***************************************************************************)
(* The whole configuration.                                                *)
(***************************************************************************)
DefaultRules == [boost |-> 999, normal |-> 100]

Default ==
    [enabled |-> TRUE, autoApply |-> FALSE, stateCachePath |-> DefaultStateCachePath,
     requiredSchedulerFor |-> {}, interval |-> 15 * Minute, modelGroup |-> "gemini",
     limits |-> [maxConcurrency |-> 6, minChange |-> 1, tolerancePercent |-> 5,
                 cooldownMinutes |-> 5, sampleCapacity |-> 6],
     ignoreDisabledHost |-> TRUE, rules |-> DefaultRules,
     schedule |-> [paused |-> FALSE, windowEnabled |-> FALSE,
                   start |-> 0, end |-> 23 * 60 + 59],
     guard |-> DefaultGuard]

HostOnly == {"enabled", "stateCachePath", "requiredSchedulerFor"}
Dynamic(cfg) == [f \in DOMAIN cfg \ HostOnly |-> cfg[f]]

DynamicConfigs ==
    [autoApply : BOOLEAN, interval : Int, modelGroup : STRING,
     limits : [maxConcurrency : Int, minChange : Int, tolerancePercent : Int,
               cooldownMinutes : Int, sampleCapacity : Int],
     ignoreDisabledHost : BOOLEAN, rules : [boost : Int, normal : Int],
     schedule : [paused : BOOLEAN, windowEnabled : BOOLEAN, start : Int, end : Int],
     guard : GuardConfigs]

Limits ==
    [maxConcurrency |-> 1 .. 32, minChange |-> 0 .. 100, tolerancePercent |-> 0 .. 50,
     cooldownMinutes |-> 1 .. 1440, sampleCapacity |-> 2 .. 30]

DynamicValid(dyn) ==
    /\ ~dyn.autoApply
    /\ dyn.interval >= Minute
    /\ ParseGroup(dyn.modelGroup) # NoGroup
    /\ \A f \in DOMAIN Limits : dyn.limits[f] \in Limits[f]
    /\ dyn.rules.boost \in 1 .. 999 /\ dyn.rules.normal \in 1 .. dyn.rules.boost
    /\ ValidTime(dyn.schedule.start) /\ ValidTime(dyn.schedule.end)
    /\ ToConfigAccepts(GivenGuard(dyn))

ApplyTo(dyn, base) ==
    [Overlay(base, dyn) EXCEPT !.modelGroup = ParseGroup(dyn.modelGroup),
                               !.guard = Canonical(GivenGuard(dyn))]

\* Config.Validate, which only the host's YAML goes through.
ConfigValid(cfg) ==
    /\ ~cfg.autoApply
    /\ ValidPluginPath(cfg.stateCachePath)
    /\ Cleaned(cfg.stateCachePath) # Cleaned(cfg.guard.statePath)
    /\ GuardValid(cfg.guard)

\* Startup YAML sets the guard's keys and those only the host may set.
LoadAccepts(yaml) ==
    /\ ~yaml.autoApply
    /\ ToConfigAccepts(Overlay(DefaultGuard, yaml.guard))
    /\ ConfigValid([Overlay(Default, yaml)
                      EXCEPT !.guard = Canonical(Overlay(DefaultGuard, yaml.guard))])
LoadBytes(yaml) ==
    [Overlay(Default, yaml) EXCEPT !.guard = Canonical(Overlay(DefaultGuard, yaml.guard))]

\* The defaults have their types and pass both checks.
ASSUME DefaultAssumption ==
    /\ Dynamic(Default) \in DynamicConfigs /\ {"observe", "enforce"} \subseteq STRING
    /\ ConfigValid(Default)
    /\ DynamicValid(Dynamic(Default))

(***************************************************************************)
(* Decoding a stored document: what it omits is the default.  The rules of *)
(* a document that says they are not enabled are dropped.                  *)
(***************************************************************************)
DecodedRules(given) ==
    IF "enabled" \in DOMAIN given /\ ~given.enabled THEN DefaultRules
    ELSE Overlay(DefaultRules, given)

Decoded(given) ==
    LET base == Dynamic(Default)
        part(f) == IF f \in DOMAIN given THEN given[f] ELSE <<>> IN
    [Overlay(base, given) EXCEPT !.limits = Overlay(base.limits, part("limits")),
                                 !.schedule = Overlay(base.schedule, part("schedule")),
                                 !.guard = Overlay(base.guard, part("guard")),
                                 !.rules = DecodedRules(part("rules"))]

=============================================================================
