--------------------------- MODULE HostTransition ---------------------------
(***************************************************************************)
(* Host transitions: the changes of a plan, or the intents of a cooldown   *)
(* or reset round, are carried out one after the other on the host's       *)
(* credential documents.  Each one reads the document, compares it with    *)
(* what was expected, replaces the whole document and reads it back.  The  *)
(* host, other writers and the caller's context act between the steps.     *)
(* The official runtime does not call this library.                        *)
(***************************************************************************)
EXTENDS Integers, Sequences, FiniteSets

CONSTANTS
    Creds,        \* credentials, one document each
    NoCred,       \* the credential of an intent without an auth index
    Priorities,   \* priorities a document or a plan may name
    None,         \* a field that a document does not have
    Keep,         \* a field that a target leaves alone
    Orders,       \* whose changes the enumerated rounds hold, in order
    Documents(_), \* documents a credential may start with
    MaxForeign,   \* bound on writes by others
    MaxFaults     \* bound on failing calls

ASSUME NullAssumption ==
    NoCred \notin Creds /\ None \notin Priorities /\ Keep \notin Priorities /\ Keep # None
ASSUME OrdersAssumption == Orders \subseteq Seq(Creds \cup {NoCred})
ASSUME BoundAssumption == MaxForeign \in Nat /\ MaxFaults \in Nat
ASSUME DepletedAssumption == -1 \in Priorities

VARIABLES
    host,       \* the documents
    kind,       \* "plan", "cooldown" or "reset"
    plan,       \* the changes, as planned
    details,    \* results so far, one per intent
    step,       \* where the current intent stands
    read,       \* the document it has read
    failed,     \* its replacement returned an error
    cancelled,  \* the caller's context
    track,      \* history of the current intent: its replacement reached the
                \* host; others wrote its document since the read; since the write
    foreign, faults

vars == <<host, kind, plan, details, step, read, failed, cancelled, track, foreign, faults>>

Document == [id : Creds, priority : Priorities \cup {None},
             disabled : BOOLEAN \cup {None}, rest : 0..MaxForeign]
ASSUME DocumentsAssumption == \A c \in Creds : Documents(c) \subseteq Document

Kinds == {"plan", "cooldown", "reset"}
Outcomes == {"no_change", "committed", "failed", "conflict", "uncertain"}

-----------------------------------------------------------------------------
(***************************************************************************)
(* Documents, expectations and targets.                                    *)
(***************************************************************************)
IsDisabled(doc) == doc.disabled = TRUE

\* What a credential of the inventory says of a document.
ExpectedState(c, doc) ==
    [id |-> c, priority |-> doc.priority, disabled |-> IsDisabled(doc)]

\* A slip: only the priority is compared.
ExpectedConflict_PriorityOnly(expected, doc) == expected.priority # doc.priority
ExpectedConflict(expected, doc) ==
    \/ expected.id # doc.id
    \/ expected.priority # doc.priority
    \/ expected.disabled # IsDisabled(doc)

Applied(target, doc) ==
    [doc EXCEPT !.priority = IF target.priority = Keep THEN @ ELSE target.priority,
                !.disabled = IF target.disabled = Keep THEN @ ELSE target.disabled]

Matches(doc, final) == doc.priority = final.priority /\ doc.disabled = final.disabled

SameDecisionState(doc, final) ==
    doc.priority = final.priority /\ IsDisabled(doc) = IsDisabled(final)

-----------------------------------------------------------------------------
(***************************************************************************)
(* Changes become intents.                                                 *)
(***************************************************************************)
Change(c, doc, p, d, fresh) ==
    [cred |-> c, was |-> ExpectedState(c, doc), priority |-> p, disabled |-> d, fresh |-> fresh]

Target(p, d) == [priority |-> p, disabled |-> d]

\* A slip: the change is written whole, also what it leaves as it is.
IntentTarget_Whole(change) ==
    CASE kind = "plan"     -> Target(change.priority, change.disabled)
      [] kind = "cooldown" -> Target(-1, FALSE)
      [] kind = "reset"    -> Target(None, FALSE)
IntentTarget(change) ==
    CASE kind = "plan"     -> Target(IF change.priority # change.was.priority
                                        THEN change.priority ELSE Keep,
                                     IF change.disabled # change.was.disabled
                                        THEN change.disabled ELSE Keep)
      [] kind = "cooldown" -> Target(-1, Keep)
      [] kind = "reset"    -> Target(None, Keep)

\* Only changes with fresh evidence become intents, in the order of the plan.
Active == {k \in DOMAIN plan : plan[k].fresh}
Rank(k) == Cardinality({j \in Active : j <= k})
Intent(n) == plan[CHOOSE k \in Active : Rank(k) = n]

\* Each intent has one result; Current is the first without.
Current == Intent(Len(details) + 1)
Pending == \E k \in Active : Rank(k) = Len(details) + 1

\* The result that belongs to the k-th change of the plan.
\* A slip: the position in the plan is used.
ActivePosition_Unskipped(k) == k
ActivePosition(k) == Cardinality({j \in 1..k : plan[j].fresh})

Skipped == [cred |-> NoCred, outcome |-> "skipped", wrote |-> FALSE,
            overtaken |-> FALSE, disturbed |-> FALSE, unread |-> FALSE]

Reported(k) ==
    IF ~plan[k].fresh THEN Skipped
    ELSE IF ActivePosition(k) \in DOMAIN details THEN details[ActivePosition(k)]
    ELSE [Skipped EXCEPT !.outcome = "failed"]

\* What a round comes to: the result of each change, the counters over them,
\* and the audit event of the changes that became intents.
Successful == {"no_change", "committed"}

ChangeResult(k) ==
    [cred |-> Reported(k).cred, status |-> Reported(k).outcome,
     success |-> Reported(k).outcome \in Successful]

Summary ==
    LET having(outcomes) == Cardinality({k \in DOMAIN plan : Reported(k).outcome \in outcomes})
    IN [attempted |-> having(Outcomes), succeeded |-> having({"committed"}),
        noChange |-> having({"no_change"}), skipped |-> having({"skipped", "no_change"}),
        failed |-> having({"failed"}), conflicts |-> having({"conflict"}),
        uncertain |-> having({"uncertain"})]

Event ==
    LET done == {k \in DOMAIN details : details[k].outcome \in Successful}
    IN [total |-> Cardinality(Active), fresh |-> Cardinality(done),
        skipped |-> Len(details) - Cardinality(done),
        changes |-> [k \in DOMAIN details |-> [cred |-> Intent(k).cred,
                                               outcome |-> details[k].outcome]]]

-----------------------------------------------------------------------------
Untracked == [wrote |-> FALSE, overtaken |-> FALSE, disturbed |-> FALSE]

NoDocument == [id |-> NoCred, priority |-> None, disabled |-> None, rest |-> 0]

DocumentOf(c) == IF c = NoCred THEN NoDocument ELSE host[c]

Changes(c) ==
    {Change(c, DocumentOf(c), p, d, fresh) : p \in Priorities, d \in BOOLEAN, fresh \in BOOLEAN}

Init ==
    /\ host \in {h \in [Creds -> UNION {Documents(c) : c \in Creds}] :
                    \A c \in Creds : h[c] \in Documents(c)}
    /\ kind \in Kinds
    /\ plan \in UNION {{s \in [1..Len(o) -> UNION {Changes(o[k]) : k \in 1..Len(o)}] :
                            \A k \in 1..Len(o) : s[k].cred = o[k]} : o \in Orders}
    /\ kind # "plan" => \A k \in DOMAIN plan : plan[k].fresh /\ plan[k].priority = -1
                                                 /\ ~plan[k].disabled
    /\ details = <<>>
    /\ step = "begin"
    /\ read = NoDocument
    /\ failed = FALSE
    /\ cancelled = FALSE
    /\ track = Untracked
    /\ foreign = 0
    /\ faults = 0

Fault == faults < MaxFaults /\ faults' = faults + 1
NoFault == UNCHANGED faults

\* A slip: the step is not reset for the next intent.
Answer_Stays(outcome, unread) ==
    /\ details' = Append(details,
          [cred |-> Current.cred, outcome |-> outcome, wrote |-> track.wrote,
           overtaken |-> track.overtaken, disturbed |-> track.disturbed, unread |-> unread])
    /\ read' = NoDocument
    /\ UNCHANGED <<step, failed, track>>

Answer(outcome, unread) ==
    /\ details' = Append(details,
          [cred |-> Current.cred, outcome |-> outcome, wrote |-> track.wrote,
           overtaken |-> track.overtaken, disturbed |-> track.disturbed, unread |-> unread])
    /\ step' = "begin"
    /\ read' = NoDocument
    /\ failed' = FALSE
    /\ track' = Untracked

\* The intent cannot be executed: no auth index, a cancelled context, a
\* document that cannot be read or decoded.
Refuse ==
    /\ Pending /\ step = "begin"
    /\ IF Current.cred = NoCred \/ cancelled THEN NoFault ELSE Fault
    /\ Answer("failed", FALSE)
    /\ UNCHANGED <<host, kind, plan, cancelled, foreign>>

\* GetAuth, the comparison with the expected state and the new document.
Read ==
    /\ Pending /\ step = "begin"
    /\ Current.cred # NoCred /\ ~cancelled
    /\ LET doc == host[Current.cred] IN
       IF ExpectedConflict(Current.was, doc) THEN Answer("conflict", FALSE)
       ELSE IF Applied(IntentTarget(Current), doc) = doc THEN Answer("no_change", FALSE)
       ELSE /\ read' = doc
            /\ step' = "replace"
            /\ UNCHANGED <<details, failed, track>>
    /\ UNCHANGED <<host, kind, plan, cancelled, foreign, faults>>

\* ReplaceAuth, whose error does not say whether the host has the document.
ReplaceReplies(reaches, error) ==
    /\ Pending /\ step = "replace"
    /\ cancelled => ~reaches /\ error
    /\ IF error /\ ~cancelled THEN Fault ELSE NoFault
    /\ reaches \/ error
    /\ host' = IF reaches THEN [host EXCEPT ![Current.cred] = Applied(IntentTarget(Current), read)]
               ELSE host
    /\ track' = [track EXCEPT !.wrote = reaches]
    /\ failed' = error
    /\ step' = "verify"
    /\ UNCHANGED <<kind, plan, details, read, cancelled, foreign>>

\* What the document read back tells.
\* A slip: an error of the replacement is believed.
Verdict_Believed(final) ==
    IF failed THEN "failed"
    ELSE IF Matches(Applied(IntentTarget(Current), read), final) THEN "committed" ELSE "uncertain"
Verdict(final) ==
    IF Matches(Applied(IntentTarget(Current), read), final) /\ Current.cred = final.id
       THEN "committed"
    ELSE IF failed /\ ~ExpectedConflict(Current.was, final) /\ SameDecisionState(final, read)
       THEN "failed"
    ELSE "uncertain"

\* The final read, detached from the caller's context.
Verify ==
    /\ Pending /\ step = "verify"
    /\ Answer(Verdict(host[Current.cred]), FALSE)
    /\ UNCHANGED <<host, kind, plan, cancelled, foreign, faults>>

VerifyUnreadable ==
    /\ Pending /\ step = "verify"
    /\ Fault
    /\ Answer("uncertain", TRUE)
    /\ UNCHANGED <<host, kind, plan, cancelled, foreign>>

\* The caller gives up.
Cancel ==
    /\ Pending /\ ~cancelled
    /\ cancelled' = TRUE
    /\ UNCHANGED <<host, kind, plan, details, step, read, failed, track, foreign, faults>>

\* The host or an operator refreshes, edits or exchanges a document.
Foreign(c) ==
    /\ Pending
    /\ foreign < MaxForeign
    /\ foreign' = foreign + 1
    /\ \/ host' = [host EXCEPT ![c].rest = foreign + 1]
       \/ \E p \in Priorities \cup {None} : host' = [host EXCEPT ![c].priority = p]
       \/ \E d \in BOOLEAN : host' = [host EXCEPT ![c].disabled = d]
       \/ \E other \in Creds : host' = [host EXCEPT ![c].id = other]
    /\ track' = IF Current.cred # c THEN track
                ELSE [track EXCEPT !.overtaken = @ \/ step = "replace",
                                   !.disturbed = @ \/ step = "verify"]
    /\ UNCHANGED <<kind, plan, details, step, read, failed, cancelled, faults>>

Next ==
    \/ Refuse
    \/ Read
    \/ \E reaches, error \in BOOLEAN : ReplaceReplies(reaches, error)
    \/ Verify
    \/ VerifyUnreadable
    \/ Cancel
    \/ \E c \in Creds : Foreign(c)

Spec == Init /\ [][Next]_vars

-----------------------------------------------------------------------------
(***************************************************************************)
(* Properties.                                                             *)
(***************************************************************************)

\* Every variable has its type, and no document is read twice for one intent.
TypeOK ==
    /\ host \in [Creds -> Document]
    /\ kind \in Kinds
    /\ details \in Seq([cred : Creds \cup {NoCred}, outcome : Outcomes, wrote : BOOLEAN,
                        overtaken : BOOLEAN, disturbed : BOOLEAN, unread : BOOLEAN])
    /\ Len(details) <= Cardinality(Active)
    /\ step \in {"begin", "replace", "verify"}
    /\ (read = NoDocument) = (step = "begin")
    /\ failed \in BOOLEAN /\ cancelled \in BOOLEAN
    /\ foreign \in 0..MaxForeign /\ faults \in 0..MaxFaults

\* A result that denies the change ("failed: did not commit", "conflict",
\* "no_change") means the host never got it, even when replies are lost or the
\* caller gives up; unless somebody undid it before it was read back.
DeniedNeverWrote ==
    \A k \in DOMAIN details :
        details[k].outcome \in {"failed", "conflict", "no_change"} /\ details[k].wrote
            => details[k].disturbed

\* With no other writer the results are exact: what is called committed has
\* reached the host and nothing else has, and a result is open only when the
\* host could not be read.
AloneIsExact ==
    foreign = 0 => \A k \in DOMAIN details :
        IF details[k].outcome = "uncertain" THEN details[k].unread
        ELSE details[k].wrote <=> details[k].outcome = "committed"

AsPlanned(c) ==
    /\ Current.was = ExpectedState(host[c].id, host[c])
    /\ host'[c].rest = host[c].rest
    /\ host'[c].id = host[c].id
    /\ kind # "plan" => host'[c].disabled = host[c].disabled
    /\ kind = "plan" /\ host'[c].disabled # host[c].disabled
         => Current.disabled # Current.was.disabled

\* A replacement changes a document only in the state the plan expected, and
\* only the field that differs from the plan: a credential's identity, tokens
\* and the other field are kept, unless another write falls between the read
\* and the replacement.
OthersKept ==
    [][\A c \in Creds :
        host'[c] # host[c] /\ foreign' = foreign /\ ~track.overtaken => AsPlanned(c)]_vars

\* When the round is over, each change of the plan is reported once, with the
\* result of its own credential, however many fail before it and however many
\* are skipped for lack of fresh evidence; and the counters, the audit event
\* and the changes tell the same story.
ReportAligned ==
    ~Pending =>
        /\ \A k \in DOMAIN plan :
             IF plan[k].fresh
             THEN ChangeResult(k).status \in Outcomes /\ ChangeResult(k).cred = plan[k].cred
             ELSE ChangeResult(k).status = "skipped" /\ ~ChangeResult(k).success
        /\ \A k \in DOMAIN plan : plan[k].fresh =>
             \E j \in DOMAIN Event.changes :
                 Event.changes[j] = [cred |-> plan[k].cred, outcome |-> ChangeResult(k).status]
        /\ Summary.attempted = Event.total
        /\ Summary.succeeded + Summary.noChange = Event.fresh
        /\ Summary.failed + Summary.conflicts + Summary.uncertain = Event.skipped
        /\ Cardinality({k \in DOMAIN plan : ChangeResult(k).success}) = Event.fresh

=============================================================================
