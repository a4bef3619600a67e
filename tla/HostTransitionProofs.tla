------------------------ MODULE HostTransitionProofs ------------------------
(***************************************************************************)
(* Proofs about HostTransition: what the results of a round say of the     *)
(* host, and what a replacement changes, for any documents, plans, writes  *)
(* of others and failing calls.  The argument is in Replacing and          *)
(* Verifying: unless somebody interferes, the document of the intent under *)
(* way is the one it has read until the replacement reaches the host, and  *)
(* the one it wants from then on, so that the final read decides.          *)
(***************************************************************************)
EXTENDS HostTransition, FiniteSetTheorems, TLAPS

Expected == [id : Creds \cup {NoCred}, priority : Priorities \cup {None}, disabled : BOOLEAN]

Targets == [priority : Priorities \cup {None, Keep}, disabled : BOOLEAN \cup {Keep}]

\* A change knows the credential whose state it expects.
PlannedChange ==
    {c \in [cred : Creds \cup {NoCred}, was : Expected, priority : Priorities,
            disabled : BOOLEAN, fresh : BOOLEAN] : c.was.id = c.cred}

PlanOK == plan \in Seq(PlannedChange)

\* The steps of an intent that has read its document.
Wanted == Applied(IntentTarget(Current), read)

Reading ==
    step # "begin" =>
        /\ Pending
        /\ Current.cred \in Creds
        /\ read \in Document
        /\ ~ExpectedConflict(Current.was, read)
        /\ Wanted # read

\* The history of the current intent.
TrackOK ==
    /\ track \in [wrote : BOOLEAN, overtaken : BOOLEAN, disturbed : BOOLEAN]
    /\ step = "begin" => track = Untracked
    /\ step # "verify" => track.disturbed = FALSE
    /\ foreign = 0 => track.overtaken = FALSE /\ track.disturbed = FALSE

\* Nobody has written between the read and the replacement.
Replacing ==
    step = "replace" =>
        /\ track.wrote = FALSE
        /\ track.overtaken = FALSE => host[Current.cred] = read

\* The replacement has replied.
Verifying ==
    step = "verify" =>
        /\ track.wrote = TRUE /\ track.disturbed = FALSE => host[Current.cred] = Wanted
        /\ track.wrote = FALSE => failed = TRUE
        /\ track.wrote = FALSE /\ track.overtaken = FALSE /\ track.disturbed = FALSE
             => host[Current.cred] = read

IInv ==
    /\ TypeOK /\ PlanOK /\ Reading /\ TrackOK /\ Replacing /\ Verifying
    /\ DeniedNeverWrote /\ AloneIsExact

-----------------------------------------------------------------------------
(***************************************************************************)
(* Documents and intents.                                                  *)
(***************************************************************************)
LEMMA AppliedFields ==
    ASSUME NEW doc \in Document, NEW target \in Targets
    PROVE  /\ Applied(target, doc) \in Document
           /\ Applied(target, doc).id = doc.id
           /\ Applied(target, doc).rest = doc.rest
           /\ Applied(target, doc).priority =
                IF target.priority = Keep THEN doc.priority ELSE target.priority
           /\ Applied(target, doc).disabled =
                IF target.disabled = Keep THEN doc.disabled ELSE target.disabled
  BY DEF Document, Targets, Applied

\* The intent under way is a change of the plan, and has no result yet.
LEMMA CurrentPlanned ==
    ASSUME PlanOK, Pending
    PROVE  Current \in PlannedChange
<1>1. PICK k \in Active : Rank(k) = Len(details) + 1
  BY DEF Pending
<1>2. (CHOOSE j \in Active : Rank(j) = Len(details) + 1) \in Active
  BY <1>1
<1>3. \A j \in Active : plan[j] \in PlannedChange
  BY DEF PlanOK, Active
<1>4. QED  BY <1>2, <1>3 DEF Current, Intent

LEMMA ResultMissing ==
    ASSUME PlanOK, Pending
    PROVE  Len(details) + 1 <= Cardinality(Active)
<1>1. PICK k \in Active : Rank(k) = Len(details) + 1
  BY DEF Pending
<1>2. IsFiniteSet(Active)
  <2>1. Active \subseteq 1 .. Len(plan) /\ Len(plan) \in Nat
    BY DEF PlanOK, Active
  <2>2. IsFiniteSet(1 .. Len(plan))
    BY <2>1, FS_Interval
  <2>3. QED  BY <2>1, <2>2, FS_Subset
<1>3. {j \in Active : j <= k} \subseteq Active
  OBVIOUS
<1>4. Cardinality({j \in Active : j <= k}) <= Cardinality(Active)
  BY <1>2, <1>3, FS_Subset
<1>5. QED  BY <1>1, <1>4 DEF Rank

\* The same, as functions of the plan and the results: while these stay, so do
\* the intent under way and what it wants.
ActiveIn(p) == {k \in DOMAIN p : p[k].fresh}
RankIn(p, k) == Cardinality({j \in ActiveIn(p) : j <= k})
CurrentIn(p, d) == p[CHOOSE k \in ActiveIn(p) : RankIn(p, k) = Len(d) + 1]
PendingIn(p, d) == \E k \in ActiveIn(p) : RankIn(p, k) = Len(d) + 1
TargetIn(knd, change) ==
    CASE knd = "plan"     -> Target(IF change.priority # change.was.priority
                                       THEN change.priority ELSE Keep,
                                    IF change.disabled # change.was.disabled
                                       THEN change.disabled ELSE Keep)
      [] knd = "cooldown" -> Target(-1, Keep)
      [] knd = "reset"    -> Target(None, Keep)

LEMMA SameIntent ==
    ASSUME UNCHANGED <<kind, plan, details>>
    PROVE  /\ Active' = Active /\ (Pending => Pending') /\ Current' = Current
           /\ IntentTarget(Current)' = IntentTarget(Current)
           /\ read' = read =>
                /\ Wanted' = Wanted
                /\ ExpectedConflict(Current.was, read)' = ExpectedConflict(Current.was, read)
<1>1. Active = ActiveIn(plan) /\ Active' = ActiveIn(plan')
  BY DEF Active, ActiveIn
<1>2. (Pending <=> PendingIn(plan, details)) /\ (Pending' <=> PendingIn(plan', details'))
  BY DEF Pending, Rank, Active, PendingIn, RankIn, ActiveIn
<1>3. Current = CurrentIn(plan, details)
  BY DEF Current, Intent, Rank, Active, CurrentIn, RankIn, ActiveIn
<1>4. Current' = CurrentIn(plan', details')
  BY DEF Current, Intent, Rank, Active, CurrentIn, RankIn, ActiveIn
<1>5. Current' = Current
  BY <1>3, <1>4
<1>6. IntentTarget(Current) = TargetIn(kind, Current)
  BY DEF IntentTarget, TargetIn
<1>7. IntentTarget(Current)' = TargetIn(kind', Current')
  BY DEF IntentTarget, TargetIn
<1>8. read' = read => Wanted' = Wanted
  BY <1>5, <1>6, <1>7 DEF Wanted, Applied
<1>9. read' = read =>
        ExpectedConflict(Current.was, read)' = ExpectedConflict(Current.was, read)
  BY <1>5 DEF ExpectedConflict, IsDisabled
<1>10. QED  BY <1>1, <1>2, <1>5, <1>6, <1>7, <1>8, <1>9

LEMMA TargetTyped ==
    ASSUME NEW change \in PlannedChange, kind \in Kinds
    PROVE  IntentTarget(change) \in Targets
<1>1. -1 \in Priorities
  BY DepletedAssumption
<1>2. change.priority \in Priorities /\ change.disabled \in BOOLEAN
  BY DEF PlannedChange
<1>3. \A p, d : p \in Priorities \cup {None, Keep} /\ d \in BOOLEAN \cup {Keep}
                => Target(p, d) \in Targets
  BY DEF Target, Targets
<1>4. CASE kind = "plan"
  <2>1. IntentTarget(change)
          = Target(IF change.priority # change.was.priority THEN change.priority ELSE Keep,
                   IF change.disabled # change.was.disabled THEN change.disabled ELSE Keep)
    BY <1>4 DEF IntentTarget
  <2>2. QED  BY <1>2, <1>3, <2>1
<1>5. CASE kind = "cooldown"
  <2>1. IntentTarget(change) = Target(-1, Keep)
    BY <1>5 DEF IntentTarget
  <2>2. QED  BY <1>1, <1>3, <2>1
<1>6. CASE kind = "reset"
  <2>1. IntentTarget(change) = Target(None, Keep)
    BY <1>6 DEF IntentTarget
  <2>2. QED  BY <1>3, <2>1
<1>7. QED  BY <1>4, <1>5, <1>6 DEF Kinds

-----------------------------------------------------------------------------
(***************************************************************************)
(* A result joins the report: the invariant is kept when the result agrees *)
(* with the history of its intent.                                         *)
(***************************************************************************)
Result == [cred : Creds \cup {NoCred}, outcome : Outcomes, wrote : BOOLEAN,
           overtaken : BOOLEAN, disturbed : BOOLEAN, unread : BOOLEAN]

Denies(result) ==
    result.outcome \in {"failed", "conflict", "no_change"} /\ result.wrote => result.disturbed

Exact(result) ==
    IF result.outcome = "uncertain" THEN result.unread
    ELSE result.wrote <=> result.outcome = "committed"

ResultOf(outcome, unread) ==
    [cred |-> Current.cred, outcome |-> outcome, wrote |-> track.wrote,
     overtaken |-> track.overtaken, disturbed |-> track.disturbed, unread |-> unread]

LEMMA AnswerKeeps ==
    ASSUME IInv, Pending, NEW outcome \in Outcomes, NEW unread \in BOOLEAN,
           Answer(outcome, unread), UNCHANGED <<host, kind, plan, foreign>>,
           cancelled' \in BOOLEAN, faults' \in 0 .. MaxFaults,
           Denies(ResultOf(outcome, unread)),
           foreign = 0 => Exact(ResultOf(outcome, unread))
    PROVE  IInv'
<1> DEFINE new == ResultOf(outcome, unread)
<1>1. details \in Seq(Result) /\ details' = Append(details, new)
  BY DEF IInv, TypeOK, Result, Answer, ResultOf
<1>2. new \in Result
  <2>1. Current.cred \in Creds \cup {NoCred}
    BY CurrentPlanned DEF IInv, PlannedChange
  <2>2. QED  BY <2>1 DEF ResultOf, Result, IInv, TrackOK
<1>3. /\ details' \in Seq(Result)
      /\ Len(details') = Len(details) + 1
      /\ DOMAIN details' = 1 .. Len(details) + 1
      /\ details'[Len(details) + 1] = new
      /\ \A k \in DOMAIN details : details'[k] = details[k]
      /\ DOMAIN details = 1 .. Len(details) /\ Len(details) \in Nat
  <2> HIDE DEF new
  <2>1. QED  BY <1>1, <1>2
<1>4. step' = "begin" /\ read' = NoDocument /\ failed' = FALSE /\ track' = Untracked
  BY DEF Answer
<1>5. TypeOK'
  <2>1. Len(details') <= Cardinality(Active')
    BY <1>3, ResultMissing DEF IInv, Active
  <2>2. QED  BY <1>3, <1>4, <2>1 DEF IInv, TypeOK, Result
<1>6. PlanOK' /\ Reading' /\ Replacing' /\ Verifying'
  BY <1>4 DEF IInv, PlanOK, Reading, Replacing, Verifying
<1>7. TrackOK'
  BY <1>4 DEF TrackOK, Untracked
<1>8. DeniedNeverWrote'
  <2>1. \A k \in DOMAIN details : Denies(details[k])
    BY DEF IInv, DeniedNeverWrote, Denies
  <2>2. \A k \in DOMAIN details' : Denies(details'[k])
    BY <1>3, <2>1
  <2>3. QED  BY <2>2 DEF DeniedNeverWrote, Denies
<1>9. AloneIsExact'
  <2>1. foreign = 0 => \A k \in DOMAIN details : Exact(details[k])
    BY DEF IInv, AloneIsExact, Exact
  <2>2. foreign' = 0 => \A k \in DOMAIN details' : Exact(details'[k])
    BY <1>3, <2>1
  <2>3. QED  BY <2>2 DEF AloneIsExact, Exact
<1>10. QED  BY <1>5, <1>6, <1>7, <1>8, <1>9 DEF IInv

-----------------------------------------------------------------------------
(***************************************************************************)
(* Every step preserves the invariant.                                     *)
(***************************************************************************)
LEMMA FaultTyped ==
    ASSUME TypeOK, Fault \/ NoFault
    PROVE  faults' \in 0 .. MaxFaults
  BY BoundAssumption DEF TypeOK, Fault, NoFault

LEMMA RefuseKeeps ==
    ASSUME IInv, Refuse
    PROVE  IInv'
<1>1. faults' \in 0 .. MaxFaults /\ cancelled' \in BOOLEAN
  BY FaultTyped DEF IInv, TypeOK, Refuse
<1>2. track = Untracked
  BY DEF IInv, TrackOK, Refuse
<1>3. Denies(ResultOf("failed", FALSE)) /\ Exact(ResultOf("failed", FALSE))
  BY <1>2 DEF Denies, Exact, ResultOf, Untracked
<1>4. Pending /\ Answer("failed", FALSE) /\ UNCHANGED <<host, kind, plan, foreign>>
  BY DEF Refuse
<1>5. QED  BY <1>1, <1>3, <1>4, AnswerKeeps DEF Outcomes

LEMMA ReadKeeps ==
    ASSUME IInv, Read
    PROVE  IInv'
<1> DEFINE doc == host[Current.cred]
<1>1. /\ Pending /\ step = "begin" /\ Current.cred \in Creds
      /\ UNCHANGED <<host, kind, plan, foreign, faults, cancelled>>
  <2>1. Current.cred \in Creds \cup {NoCred}
    BY CurrentPlanned DEF Read, IInv, PlannedChange
  <2>2. QED  BY <2>1 DEF Read
<1>2. track = Untracked
  BY <1>1 DEF IInv, TrackOK
<1>3. \A outcome \in {"conflict", "no_change"} :
        Denies(ResultOf(outcome, FALSE)) /\ Exact(ResultOf(outcome, FALSE))
  BY <1>2 DEF Denies, Exact, ResultOf, Untracked
<1>4. faults' \in 0 .. MaxFaults /\ cancelled' \in BOOLEAN
  BY <1>1 DEF IInv, TypeOK
<1>5. CASE \E outcome \in {"conflict", "no_change"} : Answer(outcome, FALSE)
  BY <1>1, <1>3, <1>4, <1>5, AnswerKeeps DEF Outcomes
<1>6. CASE /\ ~ExpectedConflict(Current.was, doc)
           /\ Applied(IntentTarget(Current), doc) # doc
           /\ read' = doc /\ step' = "replace" /\ UNCHANGED <<details, failed, track>>
  <2>1. doc \in Document /\ doc # NoDocument
    BY <1>1, NullAssumption DEF IInv, TypeOK, Document, NoDocument
  <2>2. Current' = Current /\ IntentTarget(Current)' = IntentTarget(Current)
          /\ Active' = Active /\ Pending'
    BY <1>1, <1>6, SameIntent
  <2>3. TypeOK'
    BY <1>1, <1>6, <2>1, <2>2 DEF IInv, TypeOK
  <2>4. Reading'
    <3>1. ExpectedConflict(Current.was, read)' = ExpectedConflict(Current.was, doc)
      BY <1>6, <2>2 DEF ExpectedConflict, IsDisabled
    <3>2. Wanted' = Applied(IntentTarget(Current), doc)
      BY <1>6, <2>2 DEF Wanted, Applied
    <3>3. QED  BY <1>1, <1>6, <2>1, <2>2, <3>1, <3>2 DEF Reading
  <2>5. TrackOK' /\ Verifying' /\ PlanOK' /\ DeniedNeverWrote' /\ AloneIsExact'
    BY <1>1, <1>2, <1>6
       DEF IInv, TrackOK, Verifying, PlanOK, DeniedNeverWrote, AloneIsExact, Untracked
  <2>6. Replacing'
    BY <1>1, <1>2, <1>6, <2>2 DEF Replacing, Untracked
  <2>7. QED  BY <2>3, <2>4, <2>5, <2>6 DEF IInv
<1>7. QED  BY <1>5, <1>6 DEF Read

LEMMA ReplaceKeeps ==
    ASSUME IInv, NEW reaches \in BOOLEAN, NEW error \in BOOLEAN, ReplaceReplies(reaches, error)
    PROVE  IInv'
<1>1. /\ Pending /\ step = "replace" /\ step' = "verify" /\ failed' = error
      /\ track' = [track EXCEPT !.wrote = reaches] /\ (reaches \/ error)
      /\ host' = IF reaches THEN [host EXCEPT ![Current.cred] = Wanted] ELSE host
      /\ UNCHANGED <<kind, plan, details, read, cancelled, foreign>>
  BY DEF ReplaceReplies, Wanted
<1>2. /\ Current.cred \in Creds /\ read \in Document /\ Wanted # read
      /\ ~ExpectedConflict(Current.was, read)
  BY <1>1 DEF IInv, Reading
<1>3. Wanted \in Document
  BY <1>1, <1>2, CurrentPlanned, TargetTyped, AppliedFields DEF IInv, TypeOK, Wanted
<1>4. /\ Current' = Current /\ Active' = Active /\ Pending' /\ Wanted' = Wanted
      /\ ExpectedConflict(Current.was, read)' = ExpectedConflict(Current.was, read)
  BY <1>1, SameIntent
<1>5. TypeOK'
  <2>1. faults' \in 0 .. MaxFaults
    BY FaultTyped DEF IInv, ReplaceReplies
  <2>2. host' \in [Creds -> Document]
    BY <1>1, <1>2, <1>3 DEF IInv, TypeOK
  <2>3. QED  BY <1>1, <1>4, <2>1, <2>2 DEF IInv, TypeOK
<1>6. Reading'
  BY <1>1, <1>2, <1>4 DEF Reading
<1>7. TrackOK' /\ Replacing' /\ PlanOK' /\ DeniedNeverWrote' /\ AloneIsExact'
  BY <1>1 DEF IInv, TrackOK, Replacing, PlanOK, DeniedNeverWrote, AloneIsExact
<1>8. Verifying'
  <2>1. track.wrote = FALSE /\ (track.overtaken = FALSE => host[Current.cred] = read)
    BY <1>1 DEF IInv, Replacing
  <2>2. /\ track'.wrote = reaches /\ track'.overtaken = track.overtaken
        /\ track'.disturbed = track.disturbed
    BY <1>1 DEF IInv, TrackOK
  <2>3. reaches = TRUE => host'[Current.cred] = Wanted
    BY <1>1, <1>2 DEF IInv, TypeOK
  <2>4. reaches = FALSE => host' = host /\ failed' = TRUE
    BY <1>1
  <2>5. Verifying' <=>
          /\ track'.wrote = TRUE /\ track'.disturbed = FALSE => host'[Current.cred] = Wanted
          /\ track'.wrote = FALSE => failed' = TRUE
          /\ track'.wrote = FALSE /\ track'.overtaken = FALSE /\ track'.disturbed = FALSE
               => host'[Current.cred] = read
    BY <1>1, <1>4 DEF Verifying
  <2>6. CASE reaches = TRUE
    BY <2>2, <2>3, <2>5, <2>6
  <2>7. CASE reaches = FALSE
    BY <2>1, <2>2, <2>4, <2>5, <2>7
  <2>8. QED  BY <2>6, <2>7
<1>9. QED  BY <1>5, <1>6, <1>7, <1>8 DEF IInv

\* The final read tells the truth: what is denied was not written, or was
\* disturbed; and alone the verdict is exact.
LEMMA VerdictTrue ==
    ASSUME IInv, Pending, step = "verify"
    PROVE  LET result == ResultOf(Verdict(host[Current.cred]), FALSE)
           IN Denies(result) /\ (foreign = 0 => Exact(result))
<1> DEFINE final == host[Current.cred]
           result == ResultOf(Verdict(final), FALSE)
<1>1. /\ Current.cred \in Creds /\ read \in Document /\ Wanted # read
      /\ ~ExpectedConflict(Current.was, read) /\ Current \in PlannedChange
  BY CurrentPlanned DEF IInv, Reading
<1>2. /\ Wanted \in Document /\ Wanted.id = read.id /\ Wanted.rest = read.rest
  BY <1>1, TargetTyped, AppliedFields DEF IInv, TypeOK, Wanted
<1>3. read.id = Current.cred
  BY <1>1 DEF ExpectedConflict, PlannedChange
<1>4. result.outcome = Verdict(final) /\ result.wrote = track.wrote
        /\ result.disturbed = track.disturbed
  BY DEF ResultOf
<1>5. track.wrote \in BOOLEAN /\ track.disturbed \in BOOLEAN /\ track.overtaken \in BOOLEAN
  BY DEF IInv, TrackOK
<1>6. final = Wanted => Verdict(final) = "committed"
  BY <1>2, <1>3 DEF Verdict, Matches, Wanted
<1>7. failed = TRUE /\ final = read => Verdict(final) = "failed"
  <2>1. ~Matches(Wanted, read)
    BY <1>1, <1>2 DEF Matches, Document
  <2>2. SameDecisionState(read, read)
    BY DEF SameDecisionState
  <2>3. QED  BY <1>1, <2>1, <2>2 DEF Verdict, Wanted
<1>8. Verdict(final) \in {"committed", "failed", "uncertain"}
  BY DEF Verdict
<1>9. track.wrote = TRUE /\ track.disturbed = FALSE => Verdict(final) = "committed"
  BY <1>6 DEF IInv, Verifying
<1>10. foreign = 0 /\ track.wrote = FALSE => Verdict(final) = "failed"
  BY <1>7 DEF IInv, Verifying, TrackOK
<1>11. foreign = 0 => track.disturbed = FALSE
  BY DEF IInv, TrackOK
<1> HIDE DEF final, result
<1>12. Denies(result)
  BY <1>4, <1>5, <1>8, <1>9 DEF Denies
<1>13. foreign = 0 => Exact(result)
  BY <1>4, <1>5, <1>9, <1>10, <1>11 DEF Exact
<1>14. QED  BY <1>12, <1>13 DEF final, result

LEMMA VerifyKeeps ==
    ASSUME IInv, Verify
    PROVE  IInv'
<1> DEFINE verdict == Verdict(host[Current.cred])
<1>1. /\ Pending /\ step = "verify" /\ Answer(verdict, FALSE)
      /\ UNCHANGED <<host, kind, plan, cancelled, foreign, faults>>
  BY DEF Verify
<1>2. verdict \in Outcomes
  BY DEF Verdict, Outcomes
<1>3. Denies(ResultOf(verdict, FALSE)) /\ (foreign = 0 => Exact(ResultOf(verdict, FALSE)))
  BY <1>1, VerdictTrue
<1>4. faults' \in 0 .. MaxFaults /\ cancelled' \in BOOLEAN
  BY <1>1 DEF IInv, TypeOK
<1> HIDE DEF verdict
<1>5. QED  BY <1>1, <1>2, <1>3, <1>4, AnswerKeeps

LEMMA VerifyUnreadableKeeps ==
    ASSUME IInv, VerifyUnreadable
    PROVE  IInv'
<1>1. faults' \in 0 .. MaxFaults /\ cancelled' \in BOOLEAN
  BY FaultTyped DEF IInv, TypeOK, VerifyUnreadable
<1>2. Denies(ResultOf("uncertain", TRUE)) /\ Exact(ResultOf("uncertain", TRUE))
  BY DEF Denies, Exact, ResultOf
<1>3. Pending /\ Answer("uncertain", TRUE) /\ UNCHANGED <<host, kind, plan, foreign>>
  BY DEF VerifyUnreadable
<1>4. QED  BY <1>1, <1>2, <1>3, AnswerKeeps DEF Outcomes

LEMMA CancelKeeps ==
    ASSUME IInv, Cancel \/ UNCHANGED vars
    PROVE  IInv'
<1>1. /\ UNCHANGED <<host, kind, plan, details, step, read, failed, track, foreign, faults>>
      /\ cancelled' \in BOOLEAN
  BY DEF IInv, TypeOK, Cancel, vars
<1>2. /\ Current' = Current /\ Active' = Active /\ (Pending => Pending') /\ Wanted' = Wanted
      /\ ExpectedConflict(Current.was, read)' = ExpectedConflict(Current.was, read)
  BY <1>1, SameIntent
<1>3. TypeOK' /\ PlanOK'
  BY <1>1, <1>2 DEF IInv, TypeOK, PlanOK
<1>4. Reading' /\ Replacing' /\ Verifying'
  BY <1>1, <1>2 DEF IInv, Reading, Replacing, Verifying
<1>5. TrackOK' /\ DeniedNeverWrote' /\ AloneIsExact'
  BY <1>1 DEF IInv, TrackOK, DeniedNeverWrote, AloneIsExact
<1>6. QED  BY <1>3, <1>4, <1>5 DEF IInv

LEMMA ForeignKeeps ==
    ASSUME IInv, NEW c \in Creds, Foreign(c)
    PROVE  IInv'
<1>1. /\ UNCHANGED <<kind, plan, details, step, read, failed, cancelled, faults>>
      /\ foreign < MaxForeign /\ foreign' = foreign + 1
      /\ track' = IF Current.cred # c THEN track
                  ELSE [track EXCEPT !.overtaken = @ \/ step = "replace",
                                     !.disturbed = @ \/ step = "verify"]
  BY DEF Foreign
<1>2. foreign \in Nat /\ foreign' # 0 /\ foreign' \in 0 .. MaxForeign
  BY <1>1, BoundAssumption DEF IInv, TypeOK
<1>3. /\ Current' = Current /\ Active' = Active /\ (Pending => Pending') /\ Wanted' = Wanted
      /\ ExpectedConflict(Current.was, read)' = ExpectedConflict(Current.was, read)
  BY <1>1, SameIntent
<1>4. host' \in [Creds -> Document] /\ \A b \in Creds \ {c} : host'[b] = host[b]
  <2>1. host \in [Creds -> Document] /\ foreign + 1 \in 0 .. MaxForeign
    BY <1>1, <1>2 DEF IInv, TypeOK
  <2>2. CASE host' = [host EXCEPT ![c].rest = foreign + 1]
    BY <2>1, <2>2 DEF Document
  <2>3. CASE \E p \in Priorities \cup {None} : host' = [host EXCEPT ![c].priority = p]
    BY <2>1, <2>3 DEF Document
  <2>4. CASE \E d \in BOOLEAN : host' = [host EXCEPT ![c].disabled = d]
    BY <2>1, <2>4 DEF Document
  <2>5. CASE \E other \in Creds : host' = [host EXCEPT ![c].id = other]
    BY <2>1, <2>5 DEF Document
  <2>6. QED  BY <2>2, <2>3, <2>4, <2>5 DEF Foreign
<1>5. TypeOK' /\ PlanOK' /\ Reading'
  BY <1>1, <1>2, <1>3, <1>4 DEF IInv, TypeOK, PlanOK, Reading
<1>6. DeniedNeverWrote' /\ AloneIsExact'
  BY <1>1, <1>2 DEF IInv, DeniedNeverWrote, AloneIsExact
<1>7. CASE Current.cred # c
  <2>1. track' = track /\ (step # "begin" => host'[Current.cred] = host[Current.cred])
    BY <1>1, <1>4, <1>7 DEF IInv, Reading
  <2>2. TrackOK' /\ Replacing' /\ Verifying'
    BY <1>1, <1>2, <1>3, <2>1 DEF IInv, TrackOK, Replacing, Verifying
  <2>3. QED  BY <1>5, <1>6, <2>2 DEF IInv
<1>8. CASE Current.cred = c
  <2>1. /\ track' \in [wrote : BOOLEAN, overtaken : BOOLEAN, disturbed : BOOLEAN]
        /\ track'.wrote = track.wrote
        /\ track'.overtaken = (track.overtaken \/ step = "replace")
        /\ track'.disturbed = (track.disturbed \/ step = "verify")
    BY <1>1, <1>8 DEF IInv, TrackOK
  <2>2. step = "begin" => track' = Untracked
    BY <1>1, <1>8 DEF IInv, TrackOK, Untracked
  <2>3. TrackOK'
    BY <1>1, <1>2, <2>1, <2>2 DEF IInv, TrackOK
  <2>4. Replacing'
    BY <1>1, <2>1 DEF IInv, Replacing
  <2>5. Verifying'
    BY <1>1, <2>1 DEF IInv, Verifying
  <2>6. QED  BY <1>5, <1>6, <2>3, <2>4, <2>5 DEF IInv
<1>9. QED  BY <1>7, <1>8

-----------------------------------------------------------------------------
(***************************************************************************)
(* The first state.                                                        *)
(***************************************************************************)
LEMMA InitPlanned ==
    ASSUME Init
    PROVE  PlanOK
<1>1. host \in [Creds -> Document]
  BY DocumentsAssumption DEF Init
<1>2. \A c \in Creds \cup {NoCred} : Changes(c) \subseteq PlannedChange
  <2> SUFFICES ASSUME NEW c \in Creds \cup {NoCred}, NEW change \in Changes(c)
               PROVE  change \in PlannedChange
    OBVIOUS
  <2>1. /\ DocumentOf(c).priority \in Priorities \cup {None}
        /\ IsDisabled(DocumentOf(c)) \in BOOLEAN
    BY <1>1 DEF DocumentOf, NoDocument, Document, IsDisabled
  <2>2. ExpectedState(c, DocumentOf(c)) \in Expected
          /\ ExpectedState(c, DocumentOf(c)).id = c
    BY <2>1 DEF ExpectedState, Expected
  <2>3. PICK p \in Priorities, d \in BOOLEAN, fresh \in BOOLEAN :
               change = Change(c, DocumentOf(c), p, d, fresh)
    BY DEF Changes
  <2>4. QED  BY <2>2, <2>3 DEF Change, PlannedChange
<1>3. PICK o \in Orders : plan \in [1 .. Len(o) -> UNION {Changes(o[k]) : k \in 1 .. Len(o)}]
  BY DEF Init
<1>4. Len(o) \in Nat /\ \A k \in 1 .. Len(o) : o[k] \in Creds \cup {NoCred}
  BY OrdersAssumption
<1>5. plan \in [1 .. Len(o) -> PlannedChange]
  BY <1>2, <1>3, <1>4
<1>6. QED  BY <1>4, <1>5 DEF PlanOK

LEMMA InitHolds ==
    ASSUME Init
    PROVE  IInv
<1>1. PlanOK
  BY InitPlanned
<1>2. host \in [Creds -> Document]
  BY DocumentsAssumption DEF Init
<1>3. TypeOK
  <2>1. 0 <= Cardinality(Active)
    <3>1. Active \subseteq 1 .. Len(plan) /\ Len(plan) \in Nat
      BY <1>1 DEF PlanOK, Active
    <3>2. IsFiniteSet(1 .. Len(plan))
      BY <3>1, FS_Interval
    <3>3. IsFiniteSet(Active)
      BY <3>1, <3>2, FS_Subset
    <3>4. QED  BY <3>3, FS_CardinalityType
  <2>2. details \in Seq(Result) /\ Len(details) <= Cardinality(Active)
    BY <2>1 DEF Init
  <2>3. read = NoDocument /\ step = "begin"
    BY DEF Init
  <2>4. foreign \in 0 .. MaxForeign /\ faults \in 0 .. MaxFaults
    BY BoundAssumption DEF Init
  <2>5. kind \in Kinds /\ failed \in BOOLEAN /\ cancelled \in BOOLEAN
    BY DEF Init
  <2>6. QED  BY <1>2, <2>2, <2>3, <2>4, <2>5 DEF TypeOK, Result
<1>4. Reading /\ Replacing /\ Verifying
  BY DEF Init, Reading, Replacing, Verifying
<1>5. TrackOK /\ DeniedNeverWrote /\ AloneIsExact
  BY DEF Init, TrackOK, Untracked, DeniedNeverWrote, AloneIsExact
<1>6. QED  BY <1>1, <1>3, <1>4, <1>5 DEF IInv

-----------------------------------------------------------------------------
LEMMA StepKeeps ==
    ASSUME IInv, [Next]_vars
    PROVE  IInv'
<1>1. CASE Refuse
  BY <1>1, RefuseKeeps
<1>2. CASE Read
  BY <1>2, ReadKeeps
<1>3. CASE \E reaches, error \in BOOLEAN : ReplaceReplies(reaches, error)
  BY <1>3, ReplaceKeeps
<1>4. CASE Verify
  BY <1>4, VerifyKeeps
<1>5. CASE VerifyUnreadable
  BY <1>5, VerifyUnreadableKeeps
<1>6. CASE Cancel \/ UNCHANGED vars
  BY <1>6, CancelKeeps
<1>7. CASE \E c \in Creds : Foreign(c)
  BY <1>7, ForeignKeeps
<1>8. QED  BY <1>1, <1>2, <1>3, <1>4, <1>5, <1>6, <1>7 DEF Next

\* The inductive invariant: how the document of the intent under way relates to
\* what executeOne (transition.go) has read and wants, at each of its steps.
THEOREM InvariantHolds == Spec => []IInv
<1>1. Init => IInv
  BY InitHolds
<1>2. IInv /\ [Next]_vars => IInv'
  BY StepKeeps
<1>3. QED  BY <1>1, <1>2, PTL DEF Spec

\* Every reachable state is well typed: a round has one result for each intent
\* at most, in whatever way its host calls end.
THEOREM TypeCorrect == Spec => []TypeOK
<1>1. IInv => TypeOK
  BY DEF IInv
<1>2. QED  BY <1>1, InvariantHolds, PTL

\* Results that deny a change ("failed", "conflict", "no_change") are never
\* given to one that reached the host, unless its document was written again
\* before it was read back (transition.go 289-338).
THEOREM DeniedNeverWroteAlways == Spec => []DeniedNeverWrote
<1>1. IInv => DeniedNeverWrote
  BY DEF IInv
<1>2. QED  BY <1>1, InvariantHolds, PTL

\* With no other writer "committed" is said of exactly what reached the host,
\* and "uncertain" only of what could not be read back.
THEOREM AloneIsExactAlways == Spec => []AloneIsExact
<1>1. IInv => AloneIsExact
  BY DEF IInv
<1>2. QED  BY <1>1, InvariantHolds, PTL

-----------------------------------------------------------------------------
(***************************************************************************)
(* What a replacement changes.                                             *)
(***************************************************************************)
Kept(c) ==
    host'[c] # host[c] /\ foreign' = foreign /\ ~track.overtaken => AsPlanned(c)

LEMMA ReplacementKeeps ==
    ASSUME IInv, NEW reaches \in BOOLEAN, NEW error \in BOOLEAN,
           ReplaceReplies(reaches, error), NEW c \in Creds,
           host'[c] # host[c], ~track.overtaken
    PROVE  AsPlanned(c)
<1> DEFINE target == IntentTarget(Current)
<1>1. Pending /\ step = "replace"
        /\ host' = IF reaches THEN [host EXCEPT ![Current.cred] = Wanted] ELSE host
  BY DEF ReplaceReplies, Wanted
<1>2. c = Current.cred /\ host'[c] = Wanted
  BY <1>1 DEF IInv, TypeOK
<1>3. /\ Current \in PlannedChange /\ read \in Document
      /\ ~ExpectedConflict(Current.was, read)
  BY <1>1, CurrentPlanned DEF IInv, Reading
<1>4. host[c] = read
  BY <1>1, <1>2 DEF IInv, Replacing, TrackOK
<1>5. /\ Wanted.id = read.id /\ Wanted.rest = read.rest
      /\ Wanted.disabled = IF target.disabled = Keep THEN read.disabled ELSE target.disabled
  BY <1>3, TargetTyped, AppliedFields DEF IInv, TypeOK, Wanted
<1>6. Current.was = ExpectedState(read.id, read)
  BY <1>3 DEF ExpectedConflict, ExpectedState, PlannedChange, Expected
<1>7. kind # "plan" => target.disabled = Keep
  BY DEF IntentTarget, Target, IInv, TypeOK, Kinds
<1>8. kind = "plan" /\ Current.disabled = Current.was.disabled => target.disabled = Keep
  BY DEF IntentTarget, Target
<1> HIDE DEF target
<1>9. QED  BY <1>2, <1>4, <1>5, <1>6, <1>7, <1>8 DEF AsPlanned

LEMMA StepKeepsOthers ==
    ASSUME IInv, [Next]_vars, NEW c \in Creds
    PROVE  Kept(c)
<1>1. CASE \E reaches, error \in BOOLEAN : ReplaceReplies(reaches, error)
  BY <1>1, ReplacementKeeps DEF Kept
<1>2. CASE \E other \in Creds : Foreign(other)
  <2>1. foreign' = foreign + 1 /\ foreign \in Nat
    BY <1>2, BoundAssumption DEF Foreign, IInv, TypeOK
  <2>2. QED  BY <2>1 DEF Kept
<1>3. CASE Refuse \/ Read \/ Verify \/ VerifyUnreadable \/ Cancel \/ UNCHANGED vars
  <2>1. host' = host
    BY <1>3 DEF Refuse, Read, Verify, VerifyUnreadable, Cancel, vars
  <2>2. QED  BY <2>1 DEF Kept
<1>4. QED  BY <1>1, <1>2, <1>3 DEF Next

\* A replacement finds the state the plan expected and keeps the identity, the
\* tokens and the field the plan leaves alone, unless another write falls
\* between the read and the replacement.
THEOREM OthersKeptAlways == Spec => OthersKept
<1>1. IInv /\ [Next]_vars => [\A c \in Creds : Kept(c)]_vars
  BY StepKeepsOthers
<1>2. OthersKept <=> [][\A c \in Creds : Kept(c)]_vars
  BY DEF OthersKept, Kept
<1>3. QED  BY <1>1, <1>2, InvariantHolds, PTL DEF Spec

-----------------------------------------------------------------------------
(***************************************************************************)
(* The report.  Ranks number the changes with fresh evidence without gaps, *)
(* so the round is over when each of them has its result, and the position *)
(* under which Reported looks is the one under which Answer has put it.    *)
(***************************************************************************)
Total == Cardinality(Active)

LEMMA ActiveFinite ==
    ASSUME PlanOK
    PROVE  /\ Len(plan) \in Nat /\ DOMAIN plan = 1 .. Len(plan)
           /\ Active \subseteq 1 .. Len(plan)
           /\ IsFiniteSet(Active) /\ Total \in Nat
<1>1. Len(plan) \in Nat /\ DOMAIN plan = 1 .. Len(plan) /\ Active \subseteq 1 .. Len(plan)
  BY DEF PlanOK, Active
<1>2. IsFiniteSet(1 .. Len(plan))
  BY <1>1, FS_Interval
<1>3. QED  BY <1>1, <1>2, FS_Subset, FS_CardinalityType DEF Total

LEMMA RankRange ==
    ASSUME PlanOK, NEW k \in Active
    PROVE  Rank(k) \in 1 .. Total
<1> DEFINE below == {j \in Active : j <= k}
<1>1. IsFiniteSet(Active) /\ Total \in Nat /\ k \in Int
  BY ActiveFinite
<1>2. below \in SUBSET Active /\ {k} \in SUBSET below
  BY <1>1
<1>3. IsFiniteSet(below) /\ Cardinality(below) <= Total
  BY <1>1, <1>2, FS_Subset DEF Total
<1>4. Cardinality({k}) <= Cardinality(below) /\ Cardinality({k}) = 1
  BY <1>2, <1>3, FS_Subset, FS_Singleton
<1>5. Cardinality(below) \in Nat
  BY <1>3, FS_CardinalityType
<1>6. QED  BY <1>1, <1>3, <1>4, <1>5 DEF Rank

LEMMA RankIncreases ==
    ASSUME PlanOK, NEW j \in Active, NEW k \in Active, j < k
    PROVE  Rank(j) < Rank(k)
<1> DEFINE upTo(n) == {i \in Active : i <= n}
<1>1. IsFiniteSet(Active) /\ Active \subseteq Nat
  BY ActiveFinite
<1>2. upTo(j) \in SUBSET upTo(k) /\ upTo(k) \in SUBSET Active /\ upTo(j) # upTo(k)
  <2>1. k \in upTo(k) /\ k \notin upTo(j)
    BY <1>1
  <2>2. \A i \in Active : i <= j => i <= k
    BY <1>1
  <2>3. upTo(j) \subseteq upTo(k) /\ upTo(k) \subseteq Active
    BY <2>2
  <2> HIDE DEF upTo
  <2>4. QED  BY <2>1, <2>3
<1>3. IsFiniteSet(upTo(k)) /\ IsFiniteSet(upTo(j))
  BY <1>1, <1>2, FS_Subset
<1>4. Cardinality(upTo(j)) <= Cardinality(upTo(k)) /\ Cardinality(upTo(j)) # Cardinality(upTo(k))
  BY <1>2, <1>3, FS_Subset
<1>5. Cardinality(upTo(j)) \in Nat /\ Cardinality(upTo(k)) \in Nat
  BY <1>3, FS_CardinalityType
<1>6. QED  BY <1>4, <1>5 DEF Rank

\* Every rank belongs to exactly one change.
LEMMA RankBijective ==
    ASSUME PlanOK
    PROVE  [k \in Active |-> Rank(k)] \in Bijection(Active, 1 .. Total)
<1> DEFINE rank == [k \in Active |-> Rank(k)]
<1>1. rank \in [Active -> 1 .. Total]
  BY RankRange
<1>2. \A j, k \in Active : rank[j] = rank[k] => j = k
  <2> SUFFICES ASSUME NEW j \in Active, NEW k \in Active, Rank(j) = Rank(k), j # k
               PROVE  FALSE
    OBVIOUS
  <2>1. j \in Int /\ k \in Int /\ Rank(j) \in Int /\ Rank(k) \in Int
    BY ActiveFinite, RankRange
  <2>2. CASE j < k
    BY <2>1, <2>2, RankIncreases
  <2>3. CASE k < j
    BY <2>1, <2>3, RankIncreases
  <2>4. QED  BY <2>1, <2>2, <2>3
<1>3. rank \in Injection(Active, 1 .. Total)
  BY <1>1, <1>2 DEF Injection, IsInjective
<1>4. IsFiniteSet(1 .. Total) /\ Cardinality(1 .. Total) = Total
  BY ActiveFinite, FS_Interval
<1>5. rank \in Surjection(Active, 1 .. Total)
  BY <1>3, <1>4, FS_Injection DEF Total
<1>6. QED  BY <1>3, <1>5 DEF Bijection

LEMMA IntentOfRank ==
    ASSUME PlanOK, NEW k \in Active
    PROVE  Intent(Rank(k)) = plan[k]
<1> DEFINE same == CHOOSE j \in Active : Rank(j) = Rank(k)
<1>1. same \in Active /\ Rank(same) = Rank(k)
  OBVIOUS
<1>2. same = k
  <2>1. [j \in Active |-> Rank(j)] \in Injection(Active, 1 .. Total)
    BY RankBijective DEF Bijection
  <2> HIDE DEF same
  <2>2. QED  BY <1>1, <2>1 DEF Injection, IsInjective
<1>3. QED  BY <1>2 DEF Intent

\* A round that is over has all its results.
LEMMA OverIsComplete ==
    ASSUME PlanOK, ~Pending, Len(details) \in Nat, Len(details) <= Total
    PROVE  Len(details) = Total
<1> SUFFICES ASSUME Len(details) < Total PROVE FALSE
  BY ActiveFinite
<1>1. Len(details) + 1 \in 1 .. Total
  BY ActiveFinite
<1>2. PICK k \in Active : [j \in Active |-> Rank(j)][k] = Len(details) + 1
  BY <1>1, RankBijective DEF Bijection, Surjection
<1>3. QED  BY <1>2 DEF Pending

LEMMA PositionIsRank ==
    ASSUME PlanOK, NEW k \in Active
    PROVE  ActivePosition(k) = Rank(k)
<1>1. {j \in 1 .. k : plan[j].fresh} = {j \in Active : j <= k}
  BY ActiveFinite DEF Active
<1>2. QED  BY <1>1 DEF ActivePosition, Rank

\* Results are given in the order of the intents.
InTurn == \A n \in DOMAIN details : details[n].cred = Intent(n).cred

IntentIn(p, n) == p[CHOOSE k \in ActiveIn(p) : RankIn(p, k) = n]

LEMMA StepKeepsTurn ==
    ASSUME IInv, InTurn, [Next]_vars
    PROVE  InTurn'
<1>1. plan' = plan
  BY DEF Next, vars, Refuse, Read, ReplaceReplies, Verify, VerifyUnreadable, Cancel, Foreign
<1>2. \A n : Intent(n) = IntentIn(plan, n)
  BY DEF Intent, Rank, Active, IntentIn, RankIn, ActiveIn
<1>3. \A n : Intent(n)' = IntentIn(plan', n)
  BY DEF Intent, Rank, Active, IntentIn, RankIn, ActiveIn
<1>4. \A n : Intent(n)' = Intent(n)
  BY <1>1, <1>2, <1>3
<1>5. details \in Seq(Result)
  BY DEF IInv, TypeOK, Result
<1>6. CASE details' = details
  BY <1>4, <1>6 DEF InTurn
<1>7. CASE \E outcome, unread : Answer(outcome, unread)
  <2>1. PICK outcome, unread : Answer(outcome, unread)
    BY <1>7
  <2> DEFINE new == ResultOf(outcome, unread)
  <2>2. details' = Append(details, new) /\ new.cred = Intent(Len(details) + 1).cred
    BY <2>1 DEF Answer, ResultOf, Current
  <2> HIDE DEF new
  <2>3. /\ DOMAIN details = 1 .. Len(details) /\ DOMAIN details' = 1 .. Len(details) + 1
        /\ Len(details) \in Nat
        /\ details'[Len(details) + 1] = new
        /\ \A n \in DOMAIN details : details'[n] = details[n]
    BY <1>5, <2>2
  <2>4. \A n \in DOMAIN details' : details'[n].cred = Intent(n).cred
    BY <2>2, <2>3 DEF InTurn
  <2>5. QED  BY <1>4, <2>4 DEF InTurn
<1> DEFINE given == \E outcome, unread : Answer(outcome, unread)
<1>8. details' = details \/ given
  <2>1. CASE Read
    BY <2>1 DEF Read
  <2>2. CASE Refuse \/ Verify \/ VerifyUnreadable
    BY <2>2 DEF Refuse, Verify, VerifyUnreadable
  <2>3. CASE \/ \E reaches, error \in BOOLEAN : ReplaceReplies(reaches, error)
             \/ Cancel
             \/ \E c \in Creds : Foreign(c)
             \/ UNCHANGED vars
    BY <2>3 DEF ReplaceReplies, Cancel, Foreign, vars
  <2> HIDE DEF given
  <2>4. QED  BY <2>1, <2>2, <2>3 DEF Next
<1>9. QED  BY <1>6, <1>7, <1>8

\* The counters: which changes of the plan each of them counts.
With(outcomes) == {k \in DOMAIN plan : Reported(k).outcome \in outcomes}

Successes == {n \in DOMAIN details : details[n].outcome \in Successful}

\* When the round is over, each fresh change has its own result.
LEMMA OwnResult ==
    ASSUME IInv, InTurn, ~Pending, NEW k \in DOMAIN plan
    PROVE  IF plan[k].fresh
           THEN /\ Rank(k) \in DOMAIN details
                /\ Reported(k) = details[Rank(k)]
                /\ details[Rank(k)] \in Result
                /\ details[Rank(k)].cred = plan[k].cred
                /\ Intent(Rank(k)).cred = plan[k].cred
           ELSE Reported(k) = Skipped
<1>1. CASE ~plan[k].fresh
  BY <1>1 DEF Reported
<1>2. CASE plan[k].fresh
  <2>1. PlanOK /\ k \in Active /\ details \in Seq(Result)
    BY <1>2 DEF IInv, TypeOK, Result, Active
  <2>2. Len(details) = Total
    BY <2>1, OverIsComplete DEF IInv, TypeOK, Total
  <2>3. DOMAIN details = 1 .. Total /\ Rank(k) \in 1 .. Total
    BY <2>1, <2>2, RankRange
  <2>4. Reported(k) = details[Rank(k)]
    <3>1. ActivePosition(k) = Rank(k)
      BY <2>1, PositionIsRank
    <3>2. QED  BY <1>2, <2>3, <3>1 DEF Reported
  <2>5. Intent(Rank(k)) = plan[k] /\ details[Rank(k)].cred = plan[k].cred
    BY <2>1, <2>3, IntentOfRank DEF InTurn
  <2>6. details[Rank(k)] \in Result
    <3>1. \A n \in DOMAIN details : details[n] \in Result
      BY <2>1
    <3>2. QED  BY <2>3, <3>1
  <2>7. QED  BY <1>2, <2>3, <2>4, <2>5, <2>6
<1>3. QED  BY <1>1, <1>2

LEMMA CountedOnce ==
    ASSUME IInv, InTurn, ~Pending
    PROVE  /\ With(Outcomes) = Active
           /\ Cardinality(With(Successful)) = Cardinality(Successes)
           /\ IsFiniteSet(With(Successful))
           /\ Len(details) = Total
<1>1. PlanOK /\ details \in Seq(Result)
  BY DEF IInv, TypeOK, Result
<1>2. Len(details) = Total /\ DOMAIN details = 1 .. Total
  BY <1>1, OverIsComplete DEF IInv, TypeOK, Total
<1>3. Skipped.outcome \notin Outcomes /\ Successful \subseteq Outcomes
  BY DEF Skipped, Outcomes, Successful
<1>4. With(Outcomes) = Active
  <2>1. ASSUME NEW k \in DOMAIN plan
        PROVE  Reported(k).outcome \in Outcomes <=> plan[k].fresh
    BY <1>3, OwnResult DEF Result, PlanOK
  <2>2. QED  BY <2>1 DEF With, Active
<1>5. With(Successful) = {k \in Active : details[Rank(k)].outcome \in Successful}
  <2>1. With(Successful) \subseteq Active
    BY <1>3, <1>4 DEF With
  <2>2. \A k \in Active : Reported(k) = details[Rank(k)]
    BY OwnResult DEF Active
  <2>3. Active \subseteq DOMAIN plan
    BY DEF Active
  <2>4. QED  BY <2>1, <2>2, <2>3 DEF With
<1>6. IsFiniteSet(With(Successful))
  BY <1>1, <1>5, ActiveFinite, FS_Subset
<1>7. [k \in With(Successful) |-> Rank(k)] \in Bijection(With(Successful), Successes)
  <2> DEFINE rank == [k \in Active |-> Rank(k)]
             some == [k \in With(Successful) |-> Rank(k)]
  <2>1. /\ rank \in [Active -> 1 .. Total]
        /\ \A j, k \in Active : rank[j] = rank[k] => j = k
        /\ \A n \in 1 .. Total : \E k \in Active : rank[k] = n
    BY <1>1, RankBijective DEF Bijection, Injection, Surjection, IsInjective
  <2>2. some \in [With(Successful) -> Successes]
    BY <1>2, <1>5, <2>1 DEF Successes
  <2>3. \A j, k \in With(Successful) : some[j] = some[k] => j = k
    BY <1>5, <2>1
  <2>4. \A n \in Successes : \E k \in With(Successful) : some[k] = n
    BY <1>2, <1>5, <2>1 DEF Successes
  <2>5. QED  BY <2>2, <2>3, <2>4 DEF Bijection, Injection, Surjection, IsInjective
<1>8. Cardinality(With(Successful)) = Cardinality(Successes)
  <2>1. ExistsBijection(With(Successful), Successes)
    BY <1>7 DEF ExistsBijection
  <2>2. QED  BY <1>6, <2>1, FS_Bijection
<1>9. QED  BY <1>2, <1>4, <1>6, <1>8

\* Two kinds of outcome that have nothing in common are counted apart.
LEMMA CountedApart ==
    ASSUME IsFiniteSet(DOMAIN plan), NEW A, NEW B, A \cap B = {}
    PROVE  /\ IsFiniteSet(With(A)) /\ Cardinality(With(A)) \in Nat
           /\ Cardinality(With(A \cup B)) = Cardinality(With(A)) + Cardinality(With(B))
<1>1. IsFiniteSet(With(A)) /\ IsFiniteSet(With(B))
  BY FS_Subset DEF With
<1>2. With(A) \cup With(B) = With(A \cup B) /\ With(A) \cap With(B) = {}
  BY DEF With
<1>3. Cardinality(With(A)) \in Nat /\ Cardinality(With(B)) \in Nat
  BY <1>1, FS_CardinalityType
<1>4. Cardinality(With(A) \cap With(B)) = 0
  BY <1>2, FS_EmptySet
<1>5. Cardinality(With(A) \cup With(B))
        = Cardinality(With(A)) + Cardinality(With(B)) - Cardinality(With(A) \cap With(B))
  BY <1>1, FS_Union
<1>6. Cardinality(With(A)) + Cardinality(With(B)) - 0 = Cardinality(With(A)) + Cardinality(With(B))
  BY <1>3
<1>7. QED  BY <1>1, <1>2, <1>3, <1>4, <1>5, <1>6

LEMMA OverIsAligned ==
    ASSUME IInv, InTurn, ~Pending
    PROVE  ReportAligned
<1> DEFINE having(outcomes) == Cardinality(With(outcomes))
<1>1. /\ With(Outcomes) = Active /\ Len(details) = Total /\ Total \in Nat
      /\ having(Successful) = Cardinality(Successes)
      /\ IsFiniteSet(DOMAIN plan) /\ PlanOK /\ details \in Seq(Result)
  <2>1. IsFiniteSet(DOMAIN plan) /\ Total \in Nat
    BY ActiveFinite, FS_Interval DEF IInv
  <2>2. QED  BY <2>1, CountedOnce DEF IInv, TypeOK, Result
<1>2. ASSUME NEW k \in DOMAIN plan
      PROVE  IF plan[k].fresh
             THEN ChangeResult(k).status \in Outcomes /\ ChangeResult(k).cred = plan[k].cred
             ELSE ChangeResult(k).status = "skipped" /\ ~ChangeResult(k).success
  <2>1. CASE plan[k].fresh
    BY <2>1, OwnResult DEF ChangeResult, Result
  <2>2. CASE ~plan[k].fresh
    <3>1. Reported(k) = Skipped
      BY <2>2, OwnResult
    <3>2. Skipped.outcome = "skipped" /\ "skipped" \notin Successful
      BY DEF Skipped, Successful
    <3>3. ChangeResult(k).status = "skipped"
      BY <3>1, <3>2 DEF ChangeResult
    <3>4. ChangeResult(k).success = ("skipped" \in Successful)
      BY <3>1, <3>2 DEF ChangeResult
    <3>5. QED  BY <2>2, <3>2, <3>3, <3>4
  <2>3. QED  BY <2>1, <2>2
<1>3. ASSUME NEW k \in DOMAIN plan, plan[k].fresh
      PROVE  \E j \in DOMAIN Event.changes :
               Event.changes[j] = [cred |-> plan[k].cred, outcome |-> ChangeResult(k).status]
  <2>1. Event.changes = [n \in DOMAIN details |-> [cred |-> Intent(n).cred,
                                                   outcome |-> details[n].outcome]]
    BY DEF Event
  <2>2. /\ Rank(k) \in DOMAIN details /\ Intent(Rank(k)).cred = plan[k].cred
        /\ details[Rank(k)].outcome = ChangeResult(k).status
    BY <1>3, OwnResult DEF ChangeResult
  <2>3. QED  BY <2>1, <2>2
<1>4. /\ Summary.attempted = having(Outcomes) /\ Summary.succeeded = having({"committed"})
      /\ Summary.noChange = having({"no_change"}) /\ Summary.failed = having({"failed"})
      /\ Summary.conflicts = having({"conflict"}) /\ Summary.uncertain = having({"uncertain"})
  BY DEF Summary, With
<1>5. /\ Event.total = Total /\ Event.fresh = Cardinality(Successes)
      /\ Event.skipped = Len(details) - Cardinality(Successes)
  BY DEF Event, Total, Successes
<1>6. Summary.attempted = Event.total
  BY <1>1, <1>4, <1>5 DEF Total
<1> DEFINE denied == {"failed"} \cup {"conflict"}
<1>7. /\ having(Successful) = having({"no_change"}) + having({"committed"})
      /\ having(denied) = having({"failed"}) + having({"conflict"})
      /\ having(denied \cup {"uncertain"}) = having(denied) + having({"uncertain"})
      /\ having(Outcomes) = having(Successful) + having(denied \cup {"uncertain"})
  <2>1. Successful = {"no_change"} \cup {"committed"} /\ {"no_change"} \cap {"committed"} = {}
    BY DEF Successful
  <2>2. {"failed"} \cap {"conflict"} = {} /\ denied \cap {"uncertain"} = {}
    OBVIOUS
  <2>3. /\ Outcomes = Successful \cup (denied \cup {"uncertain"})
        /\ Successful \cap (denied \cup {"uncertain"}) = {}
    BY DEF Outcomes, Successful
  <2> HIDE DEF denied
  <2>4. having(Successful) = having({"no_change"}) + having({"committed"})
    BY <1>1, <2>1, CountedApart
  <2>5. having(denied) = having({"failed"}) + having({"conflict"})
    BY <1>1, <2>2, CountedApart DEF denied
  <2>6. having(denied \cup {"uncertain"}) = having(denied) + having({"uncertain"})
    BY <1>1, <2>2, CountedApart
  <2>7. having(Outcomes) = having(Successful) + having(denied \cup {"uncertain"})
    BY <1>1, <2>3, CountedApart
  <2>8. QED  BY <2>4, <2>5, <2>6, <2>7
<1>8. /\ having({"no_change"}) \in Nat /\ having({"committed"}) \in Nat
      /\ having({"failed"}) \in Nat /\ having({"conflict"}) \in Nat
      /\ having({"uncertain"}) \in Nat
  <2>1. \A o : {o} \cap {} = {}
    OBVIOUS
  <2>2. QED  BY <1>1, <2>1, CountedApart
<1>9. having(Outcomes) = Total
  BY <1>1 DEF Total
<1>10. {k \in DOMAIN plan : ChangeResult(k).success} = With(Successful)
  BY DEF ChangeResult, With
<1>11. Cardinality({k \in DOMAIN plan : ChangeResult(k).success}) = Event.fresh
  BY <1>1, <1>5, <1>10
<1> HIDE DEF having, denied
<1>12. /\ Summary.succeeded + Summary.noChange = Event.fresh
       /\ Summary.failed + Summary.conflicts + Summary.uncertain = Event.skipped
  BY <1>1, <1>4, <1>5, <1>7, <1>8, <1>9
<1>13. QED  BY <1>2, <1>3, <1>6, <1>11, <1>12 DEF ReportAligned

\* When a round is over every change of the plan is reported with the result of
\* its own credential, whatever failed before it and whatever was skipped, and
\* the counters and the audit event (plan_execution.go) count the same results.
THEOREM ReportAlignedAlways == Spec => []ReportAligned
<1>1. Init => InTurn
  BY DEF Init, InTurn
<1>2. IInv /\ InTurn /\ [Next]_vars => InTurn'
  BY StepKeepsTurn
<1>3. IInv /\ InTurn => ReportAligned
  BY OverIsAligned DEF ReportAligned
<1>4. QED  BY <1>1, <1>2, <1>3, InvariantHolds, PTL DEF Spec

=============================================================================
