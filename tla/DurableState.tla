---------------------------- MODULE DurableState ----------------------------
(***************************************************************************)
(* What the runtime promises about the breaker state, whatever generation  *)
(* of the engine is active: every accepted change stays in force until the *)
(* process dies, the state file only moves forward, and a restart resumes  *)
(* from the state file.                                                    *)
(***************************************************************************)
CONSTANT Changes   \* changes of breaker state

VARIABLES
    live,     \* changes in force
    stored    \* changes in the state file

Init == live = {} /\ stored = {}

Accept(c) == live' = live \cup {c} /\ stored' = stored

Store == live' = live /\ stored' \in SUBSET live /\ stored \subseteq stored'

Crash == live' = stored /\ stored' = stored

Next == (\E c \in Changes : Accept(c)) \/ Store \/ Crash

Spec == Init /\ [][Next]_<<live, stored>>

=============================================================================
