----------------------------- MODULE QuotaReport -----------------------------
(***************************************************************************)
(* What a quota answer of the provider says of one model group, and what   *)
(* the guard makes of it.  An answer lists windows of named groups, and    *)
(* windows of single models and buckets; a window carries a raw remaining  *)
(* amount, in thousandths, and a reset time.  The name of a window says    *)
(* whether it mentions a week and which spans, a number and a unit; group  *)
(* names and formats are abstracted to what they are recognised as.        *)
(***************************************************************************)
EXTENDS Integers, FiniteSets

Groups == {"gemini", "claude_gpt"}

Zero == 0       \* the zero time, and a reset time that cannot be parsed
Missing == -1   \* a number that is not there

\* "7d", "5 days": any number of days.
HasDayToken(name) == \E span \in name.spans : span.unit = "d"

\* "5h", "5 hours": five hours exactly, not as the end of a word.
HasFiveHourToken(name) ==
    \E span \in name.spans : span.unit = "h" /\ span.number = 5 /\ ~span.inWord

\* A weekly name may also mention hours.
ClassifyWindow(name) ==
    IF name.week \/ HasDayToken(name) THEN "weekly"
    ELSE IF HasFiveHourToken(name) THEN "five_hour"
    ELSE "unknown"

\* Up to 1 an amount is a fraction, above it is a percentage.
RemainingPercent(raw) ==
    IF raw <= 0 THEN 0
    ELSE IF raw <= 1000 THEN (raw + 5) \div 10
    ELSE (raw + 500) \div 1000

\* Windows with a reset time and an amount.
Windows(raw) ==
    {[kind |-> ClassifyWindow(w.name), reset |-> w.reset, remaining |-> RemainingPercent(w.raw)] :
        w \in {v \in raw : v.reset # Zero /\ v.raw # Missing}}

\* An answer maps a group to the windows listed under its name, if it is
\* listed, and to those of its models and buckets.
CollectGroupWindows(answer, group) ==
    Windows(IF answer.named[group].listed THEN answer.named[group].windows
            ELSE answer.loose[group])

\* Windows as they are received.
ReportType(raw) == IsFiniteSet(raw) /\ \A w \in raw : w.reset \in Nat /\ w.raw \in Int

OfKind(windows, kind) == {w \in windows : w.kind = kind}

\* Of the windows of one kind the most exhausted one, the later reset first.
FirstWindow(windows, kind) ==
    CHOOSE w \in OfKind(windows, kind) :
        \A v \in OfKind(windows, kind) :
            \/ w.remaining < v.remaining
            \/ w.remaining = v.remaining /\ w.reset >= v.reset

\* The windows that may be taken as effective: Go visits models in any order,
\* which shows when none of them has a known kind.
PickEffectiveWindow(windows) ==
    LET weekly == OfKind(windows, "weekly")
        five == OfKind(windows, "five_hour")
    IN IF weekly # {} /\ (five = {} \/ FirstWindow(windows, "weekly").remaining <= 0)
          THEN {FirstWindow(windows, "weekly")}
       ELSE IF five # {} THEN {FirstWindow(windows, "five_hour")}
       ELSE windows

FailedResult(cred, group, at) ==
    [cred |-> cred, group |-> group, at |-> at, ready |-> FALSE,
     reset |-> Zero, rem |-> Missing, sreset |-> Zero, srem |-> Missing,
     lreset |-> Zero, lrem |-> Missing]

ResetOf(windows, kind) ==
    IF OfKind(windows, kind) = {} THEN Zero ELSE FirstWindow(windows, kind).reset
RemainingOf(windows, kind) ==
    IF OfKind(windows, kind) = {} THEN Missing ELSE FirstWindow(windows, kind).remaining

\* The results an answer may be parsed to.
ParseGroup(cred, answer, group, at) ==
    LET windows == CollectGroupWindows(answer, group) IN
    IF windows = {} THEN {FailedResult(cred, group, at)}
    ELSE {[cred |-> cred, group |-> group, at |-> at, ready |-> TRUE,
           reset |-> w.reset, rem |-> w.remaining,
           sreset |-> ResetOf(windows, "five_hour"),
           srem |-> RemainingOf(windows, "five_hour"),
           lreset |-> ResetOf(windows, "weekly"),
           lrem |-> RemainingOf(windows, "weekly")] : w \in PickEffectiveWindow(windows)}

-----------------------------------------------------------------------------
(***************************************************************************)
(* normalizedGuardQuota: the least amount, and the latest reset of what is *)
(* exhausted.                                                              *)
(***************************************************************************)
Amounts(e) == {e.rem, e.srem, e.lrem} \ {Missing}

GuardRemaining(e) == CHOOSE r \in Amounts(e) : \A other \in Amounts(e) : r <= other

\* A slip: the reset of the effective window is taken for all of them.
GuardReset_OfEffective(e) == e.reset
GuardReset(e) ==
    LET resets == {e.reset}
                    \cup (IF e.srem = 0 THEN {e.sreset} ELSE {})
                    \cup (IF e.lrem = 0 THEN {e.lreset} ELSE {})
    IN CHOOSE t \in resets : \A other \in resets : other <= t

=============================================================================
