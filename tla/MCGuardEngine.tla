--------------------------- MODULE MCGuardEngine ---------------------------
(***************************************************************************)
(* Instances of GuardEngine for TLC.                                       *)
(***************************************************************************)
EXTENDS GuardEngine, TLC

CONSTANTS a1, a2, i, j, f1, f2, r1, r2, r3, gemini

OneCandidate  == {<<a1>>}
MixedRoute    == {<<a1, "other">>}

FixedRoster   == {[s \in AuthIndexes |-> [id |-> a1, fp |-> f1]]}
AnyRoster     == Rosters

\* Slot i changes hands between two accounts of one name and a second name,
\* which may also move to slot j.
MovingRoster ==
    LET who(n, f) == [id |-> n, fp |-> f] IN
    {roster \in Rosters :
        /\ roster[i] \in {NoIdentity, who(a1, f1), who(a1, f2), who(a2, f1)}
        /\ roster[j] \in {NoIdentity, who(a2, f1)}}

RequestSymmetry == Permutations(Requests)

=============================================================================
