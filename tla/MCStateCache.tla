---------------------------- MODULE MCStateCache ----------------------------
(***************************************************************************)
(* Instances of StateCache for TLC.                                        *)
(***************************************************************************)
EXTENDS StateCache

Document(dyn) == [kind |-> "document", rounds |-> {}, dynamic |-> dyn]

Enforcing == [DefaultGuard EXCEPT !.mode = "Enforce", !.threshold = 3,
                                  !.enforcedGroups = <<"claude-gpt", "gemini">>]

\* A document of an older version, without guard and with inactive rules; one
\* with a cooldown that the engine could not run with; text that is no document;
\* and no file.
Older   == [limits |-> [sampleCapacity |-> 12],
            rules |-> [enabled |-> FALSE, boost |-> 50, normal |-> 500]]
Unsound == [guard |-> [initialCooldown |-> 40 * Minute]]
AnyDocument ==
    {Missing, Garbage, Document(Older), Document(Unsound)}
NewInstallation == {Missing}

\* An enforcing update and one that names the cache; the empty update.
OnCache  == [DefaultGuard EXCEPT
               !.statePath = GuardStateDirectory \o <<".", "quota-cache.json">>]
AnyUpdate == {Enforcing, OnCache}
TwoUpdates == {ZeroGuard, [DefaultGuard EXCEPT !.threshold = 3]}

\* The host's: nothing; enforcing with the plugin's scheduler required; and the
\* guard's file on the cache.
Plain   == [autoApply |-> FALSE, guard |-> <<>>]
Strict  == [autoApply |-> FALSE, guard |-> [mode |-> "enforce"],
            requiredSchedulerFor |-> {"antigravity"}]
Clash   == [autoApply |-> FALSE, guard |-> [statePath |-> OnCache.statePath]]
AnyYaml == {Plain, Strict, Clash}
PlainYaml == {Plain}

=============================================================================
