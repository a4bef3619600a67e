---------------------------- MODULE MCAdmission ----------------------------
(***************************************************************************)
(* Instances of Admission for TLC.                                         *)
(***************************************************************************)
EXTENDS Admission, TLC

CONSTANTS a1, a2, i, j, f1, r1, gemini

Candidates == {<<a1, "other">>}

\* The first account, alone or with the second, or no account.
Accounts ==
    {roster \in Rosters :
        /\ roster[i] \in {NoIdentity, [id |-> a1, fp |-> f1]}
        /\ roster[j] \in {NoIdentity, [id |-> a2, fp |-> f1]}
        /\ roster[i] = NoIdentity => roster[j] = NoIdentity}

\* Only whether two priorities differ matters.
OneOrTwo == {[s \in AuthIndexes |-> 1], [s \in AuthIndexes |-> IF s = i THEN 1 ELSE 2]}

=============================================================================
