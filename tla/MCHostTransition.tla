-------------------------- MODULE MCHostTransition --------------------------
(***************************************************************************)
(* Instances of HostTransition for TLC.                                    *)
(***************************************************************************)
EXTENDS HostTransition, TLC

CONSTANTS a1, a2

SomePriorities == {1, -1}

\* Two credentials, one of them twice, or an intent without a credential.
Rounds == {<<a1, a2>>, <<a1, a1>>, <<NoCred, a1>>}

StartDocuments(c) ==
    {[id |-> c, priority |-> p, disabled |-> d, rest |-> 0] :
        p \in IF c = a1 THEN {None, 1} ELSE {1}, d \in {None, TRUE}}

=============================================================================
