------------------------- MODULE MediaWorkflowProofs -------------------------
(***************************************************************************)
(* What a post shows was ruled on, the sweep can find every submission     *)
(* that has work left, and no row is checked off for a launch that did not *)
(* happen, for any number of consumers, replacements, claims, deliveries,  *)
(* author commands and faults.                                             *)
(*                                                                         *)
(* The first follows from the submission alone (SubmissionInv), the second *)
(* with the rows (LaunchInv).  The third needs the whole (WorkInv): every  *)
(* revision is counted, so there is an instance for it (RevisionsInv);     *)
(* messages and consumers point at rows there are (OutboxInv); an instance *)
(* never vanishes between its launch and the answer that is checked off    *)
(* (InstancesInv).                                                         *)
(***************************************************************************)
EXTENDS MediaWorkflow, SequenceTheorems, TLAPS

----------------------------------------------------------------------------
\* The submission alone.

Fields == {"status", "phase", "creation", "terms", "lyrics", "analysis", "bound", "decision",
           "ruled", "revision", "replaced", "aligning", "retryable"}

\* An analysis is of the current lyrics, a decision of the current creation
\* and analysis; what is asked of the author or decided has an analysis; only
\* a processing submission has a phase, and a published one was allowed.
SubmissionInv(s) ==
  /\ DOMAIN s = Fields
  /\ s.creation \in Nat /\ s.lyrics \in Nat /\ s.revision \in Nat
  /\ s.analysis # None => s.analysis = s.lyrics
  /\ s.phase # None => s.status = "processing"
  /\ s.phase = "decision" => s.analysis # None
  /\ s.status = "action_required" => s.analysis # None
  /\ s.decision # None =>
       s.decision.creation = s.creation /\ s.decision.lyrics = s.analysis /\ s.analysis # None
  /\ s.status = "published" => s.decision # None /\ s.decision.outcome = "allow"

ByAuthor(s, t) ==
  \/ MayBind(s) /\ (t = TermsBound(s) \/ t = LyricsBound(s))
  \/ MayBindReference(s) /\ t = ReferenceBound(s)
  \/ MayRetry(s) /\ t = RetryAuthorized(s)

ByModerator(s, t) ==
  \/ MayApprove(s) /\ t = Approved(s)
  \/ MayModeratorBlock(s) /\ t = Stopped(s)

ByWorkflow(s, t) ==
  \/ \E lyrics : MayAnalyse(s, lyrics) /\ t = Analysed(s, lyrics)
  \/ MayReview(s) /\ t = ReviewRequired(s)
  \/ \E creation : \E outcome \in Outcomes : MayRule(s, creation) /\ t = Ruled(s, outcome)
  \/ \E creation : MayPublish(s, creation) /\ t = Published(s)
  \/ \E revision : MayAlign(s, revision) /\ t = Aligned(s)
  \/ \E creation : \E retryable \in BOOLEAN : MayFail(s, creation) /\ t = Failed(s, retryable)

\* What any actor may do to the submission in one step.
Transition(s, t) ==
  t = s \/ ByAuthor(s, t) \/ ByModerator(s, t) \/ ByWorkflow(s, t) \/ t = Replaced(s)

LEMMA FinalizedInv == ASSUME NEW terms PROVE SubmissionInv(Finalized(terms))
BY NoneAssumption DEF SubmissionInv, Finalized, Fields

\* What the author does takes back the decision, and asks for one only of an
\* analysis that is still there.
LEMMA AuthorKeeps ==
  ASSUME NEW s, NEW t, SubmissionInv(s), ByAuthor(s, t)  PROVE  SubmissionInv(t)
<1> USE NoneAssumption DEF SubmissionInv, Fields, Reopened, Phases
<1>1. CASE t = TermsBound(s)  BY <1>1 DEF TermsBound
<1>2. CASE t = LyricsBound(s)  BY <1>2 DEF LyricsBound
<1>3. CASE MayBindReference(s) /\ t = ReferenceBound(s)
  BY <1>3 DEF MayBindReference, ReferenceBound
<1>4. CASE t = RetryAuthorized(s)  BY <1>4 DEF RetryAuthorized
<1> QED BY <1>1, <1>2, <1>3, <1>4 DEF ByAuthor

LEMMA ModeratorKeeps ==
  ASSUME NEW s, NEW t, SubmissionInv(s), ByModerator(s, t)  PROVE  SubmissionInv(t)
<1> USE NoneAssumption DEF SubmissionInv, Fields, Phases
<1>1. CASE MayApprove(s) /\ t = Approved(s)  BY <1>1 DEF MayApprove, Approved, Ruling
<1>2. CASE t = Stopped(s)  BY <1>2 DEF Stopped
<1> QED BY <1>1, <1>2 DEF ByModerator

LEMMA RulingKeeps ==
  ASSUME NEW s, NEW creation, NEW outcome, SubmissionInv(s), MayRule(s, creation)
  PROVE  SubmissionInv(Ruled(s, outcome))
<1> USE NoneAssumption DEF SubmissionInv, Fields, Phases, MayRule, Ruled, Ruling
<1>1. CASE outcome = "allow"  BY <1>1
<1>2. CASE outcome = "hold"  BY <1>2 DEF ReviewRequired
<1>3. CASE outcome = "block"  BY <1>3 DEF Stopped
<1>4. CASE outcome \notin {"allow", "hold", "block"}  BY <1>4
<1> QED BY <1>1, <1>2, <1>3, <1>4

\* The workflow's writes are fenced by the lyrics or the creation they read:
\* that is what keeps an analysis and a decision with what they are about.
LEMMA WorkflowKeeps ==
  ASSUME NEW s, NEW t, SubmissionInv(s), ByWorkflow(s, t)  PROVE  SubmissionInv(t)
<1>1. ASSUME NEW lyrics, MayAnalyse(s, lyrics) PROVE SubmissionInv(Analysed(s, lyrics))
  BY <1>1, NoneAssumption DEF SubmissionInv, Fields, MayAnalyse, Closed, Analysed
<1>2. SubmissionInv(ReviewRequired(s)) \/ ~MayReview(s)
  BY NoneAssumption DEF SubmissionInv, Fields, Phases, MayReview, ReviewRequired
<1>3. ASSUME NEW creation, MayPublish(s, creation) PROVE SubmissionInv(Published(s))
  BY <1>3, NoneAssumption DEF SubmissionInv, Fields, Phases, MayPublish, Published
<1>4. SubmissionInv(Aligned(s))
  BY DEF SubmissionInv, Fields, Aligned
<1>5. ASSUME NEW retryable PROVE SubmissionInv(Failed(s, retryable))
  BY NoneAssumption DEF SubmissionInv, Fields, Phases, Failed
<1> QED BY <1>1, <1>2, <1>3, <1>4, <1>5, RulingKeeps DEF ByWorkflow

LEMMA TransitionKeeps ==
  ASSUME NEW s, NEW t, SubmissionInv(s), Transition(s, t)  PROVE  SubmissionInv(t)
<1>1. SubmissionInv(Replaced(s))
  BY DEF SubmissionInv, Fields, Replaced
<1> QED BY <1>1, AuthorKeeps, ModeratorKeeps, WorkflowKeeps DEF Transition

----------------------------------------------------------------------------
\* The steps.

\* What a step of Next does to the submission: an author command is counted,
\* and a replacement is the sweep's, of the revision it read.
Replaces ==
  /\ sweep.pc = "act" /\ sweep.plan = "replace" /\ sub.revision = sweep.revision
  /\ sub' = Replaced(sub)

Uncommanded ==
  /\ acts' = acts
  /\ sub' = sub \/ ByModerator(sub, sub') \/ ByWorkflow(sub, sub') \/ Replaces

StepKind ==
  \/ acts < MaxActs /\ acts' = acts + 1 /\ sweep' = sweep /\ ByAuthor(sub, sub')
  \/ Uncommanded /\ (sweep' = sweep \/ sweep'.pc # "act" \/ SweepReads)

LEMMA StepKinds ==
  ASSUME [Next]_vars  PROVE  StepKind
<1>1. CASE UNCHANGED vars  BY <1>1 DEF vars, StepKind, Uncommanded
<1>2. CASE Dispatch \/ BecomesDue \/ LeaseEnds
  <2>1. sub' = sub /\ acts' = acts /\ sweep' = sweep
    BY <1>2 DEF Dispatch, BecomesDue, LeaseEnds
  <2> QED BY <2>1 DEF StepKind, Uncommanded
<1>3. ASSUME NEW c \in Consumers, Consume(c) \/ LaunchLost(c) \/ ConsumerCrashes(c)
      PROVE  StepKind
  <2>1. sub' = sub /\ acts' = acts /\ sweep' = sweep
    BY <1>3 DEF Consume, Acknowledge, Refuse, Claim, CheckRevision, Launch, LaunchRefused,
                Complete, Fail, LaunchLost, ConsumerCrashes
  <2> QED BY <2>1 DEF StepKind, Uncommanded
<1>4. ASSUME NEW r \in Revisions, Advance(r)
      PROVE  StepKind
  <2>1. sweep' = sweep /\ acts' = acts
    BY <1>4 DEF Advance, Load, CommitAnalysis, Decide, CommitDecision, Resume, Publish,
                CommitPublication, CommitAlignment, Wake
  <2>2. CASE Load(r) \/ Decide(r) \/ Resume(r) \/ Publish(r) \/ Wake(r)
    <3>1. sub' = sub  BY <2>2 DEF Load, Decide, Resume, Publish, Wake
    <3> QED BY <2>1, <3>1 DEF StepKind, Uncommanded
  <2>3. CASE CommitAnalysis(r)
    <3>1. sub' = sub \/ ByWorkflow(sub, sub')  BY <2>3 DEF CommitAnalysis, ByWorkflow
    <3> QED BY <2>1, <3>1 DEF StepKind, Uncommanded
  <2>4. CASE CommitDecision(r)
    <3>1. sub' = sub \/ ByWorkflow(sub, sub')
      BY <2>4, WorkflowAssumption DEF CommitDecision, ByWorkflow
    <3> QED BY <2>1, <3>1 DEF StepKind, Uncommanded
  <2>5. CASE CommitPublication(r)
    <3>1. sub' = sub \/ ByWorkflow(sub, sub')
      BY <2>5 DEF CommitPublication, PublishEffect, ByWorkflow
    <3> QED BY <2>1, <3>1 DEF StepKind, Uncommanded
  <2>6. CASE CommitAlignment(r)
    <3>1. sub' = sub \/ ByWorkflow(sub, sub')  BY <2>6 DEF CommitAlignment, ByWorkflow
    <3> QED BY <2>1, <3>1 DEF StepKind, Uncommanded
  <2> QED BY <1>4, <2>2, <2>3, <2>4, <2>5, <2>6 DEF Advance
<1>5. ASSUME NEW r \in Revisions, ProbeFails(r) \/ ProviderExhausted(r) \/ InstanceLost(r)
      PROVE  StepKind
  <2>1. sweep' = sweep /\ acts' = acts
    BY <1>5 DEF ProbeFails, ProviderExhausted, InstanceLost
  <2>2. sub' = sub \/ ByWorkflow(sub, sub')
    BY <1>5 DEF ProbeFails, ProviderExhausted, InstanceLost, ByWorkflow
  <2> QED BY <2>1, <2>2 DEF StepKind, Uncommanded
<1>6. CASE SweepLooks
  BY <1>6 DEF SweepLooks, Resting, StepKind, Uncommanded
<1>7. CASE SweepReads
  BY <1>7 DEF SweepReads, StepKind, Uncommanded
<1>8. CASE SweepActs
  <2>1. sweep'.pc # "act" /\ acts' = acts /\ sweep.pc = "act"
    BY <1>8 DEF SweepActs, Resting
  <2>2. sub' = sub \/ ByWorkflow(sub, sub') \/ Replaces
    BY <1>8 DEF SweepActs, StillHolds, Replace, Replaces, Converge, PublishEffect, ByWorkflow
  <2> QED BY <2>1, <2>2 DEF StepKind, Uncommanded
<1>9. CASE Author  BY <1>9 DEF Author, StepKind, ByAuthor
<1>10. CASE Moderator
  <2>1. acts' = acts /\ sweep' = sweep /\ ByModerator(sub, sub')
    BY <1>10 DEF Moderator, ByModerator
  <2> QED BY <2>1 DEF StepKind, Uncommanded
<1> QED
  BY <1>1, <1>2, <1>3, <1>4, <1>5, <1>6, <1>7, <1>8, <1>9, <1>10 DEF Next, Sweep

LEMMA StepIsTransition ==
  ASSUME [Next]_vars  PROVE  Transition(sub, sub')
BY StepKinds DEF StepKind, Uncommanded, Replaces, Transition

LEMMA SubmissionIsKept == Spec => []SubmissionInv(sub)
<1>1. Init => SubmissionInv(sub)  BY FinalizedInv DEF Init
<1>2. SubmissionInv(sub) /\ [Next]_vars => SubmissionInv(sub)'
  BY StepIsTransition, TransitionKeeps
<1> QED BY <1>1, <1>2, PTL DEF Spec

\* The decision behind a post allows exactly what the submission consists of,
\* however the author's commands, several instances and the sweep interleave
\* (the fences of acceptAnalysis, recordDecision and publish in
\* media-submission-repository.ts).
THEOREM PublishedIsAlwaysRuledOn == Spec => []PublishedIsRuledOn
<1>1. SubmissionInv(sub) => PublishedIsRuledOn
  BY DEF SubmissionInv, PublishedIsRuledOn
<1> QED BY <1>1, SubmissionIsKept, PTL

----------------------------------------------------------------------------
\* The outbox rows.

Keys == {"type", "revision"}

RowsInv(q) ==
  /\ \E S : q \in Seq(S)
  /\ \A i \in DOMAIN q : Keys \subseteq DOMAIN q[i]

\* What a step may do to the rows: work on one, or write another.
Touched(q, i, row) ==
  i \in DOMAIN q =>
    /\ Keys \subseteq DOMAIN row
    /\ row.type = q[i].type /\ row.revision = q[i].revision

RowStep(q, p) ==
  \/ p = q
  \/ \E i : \E row : Touched(q, i, row) /\ p = [q EXCEPT ![i] = row]
  \/ \E type : \E revision : p = Append(q, Row(type, revision))

\* A row is never taken away, nor made another's.
Kept(q, p) ==
  \A i \in DOMAIN q :
    i \in DOMAIN p /\ p[i].type = q[i].type /\ p[i].revision = q[i].revision

LEMMA RowIsKeyed ==
  ASSUME NEW type, NEW revision
  PROVE  /\ Keys \subseteq DOMAIN Row(type, revision)
         /\ Row(type, revision).type = type /\ Row(type, revision).revision = revision
BY DEF Keys, Row

LEMMA AppendKeeps ==
  ASSUME NEW q, RowsInv(q), NEW row, Keys \subseteq DOMAIN row
  PROVE  /\ RowsInv(Append(q, row)) /\ Kept(q, Append(q, row))
         /\ \E i \in DOMAIN Append(q, row) : Append(q, row)[i] = row
<1>1. PICK S : q \in Seq(S)  BY DEF RowsInv
<1>2. Append(q, row) \in Seq(S \cup {row})
  <2>1. q \in Seq(S \cup {row})  BY <1>1
  <2> QED BY <2>1
<1>3. /\ DOMAIN q = 1..Len(q) /\ Len(q) \in Nat
      /\ DOMAIN Append(q, row) = 1..(Len(q) + 1)
      /\ \A i \in 1..Len(q) : Append(q, row)[i] = q[i]
      /\ Append(q, row)[Len(q) + 1] = row
  BY <1>1
<1> QED BY <1>2, <1>3 DEF RowsInv, Kept

LEMMA RowStepKeeps ==
  ASSUME NEW q, NEW p, RowsInv(q), RowStep(q, p)  PROVE  RowsInv(p) /\ Kept(q, p)
<1>1. CASE p = q  BY <1>1 DEF Kept
<1>2. ASSUME NEW i, NEW row, Touched(q, i, row), p = [q EXCEPT ![i] = row]
      PROVE  RowsInv(p) /\ Kept(q, p)
  <2>1. PICK S : q \in Seq(S)  BY DEF RowsInv
  <2>2. p \in Seq(S \cup {row})
    <3>1. q \in [1..Len(q) -> S] /\ Len(q) \in Nat  BY <2>1
    <3>2. p \in [1..Len(q) -> S \cup {row}]  BY <1>2, <3>1
    <3> QED BY <3>1, <3>2, SeqDef
  <2>3. DOMAIN p = DOMAIN q /\ \A j \in DOMAIN q : p[j] = IF j = i THEN row ELSE q[j]
    BY <1>2
  <2> QED BY <1>2, <2>2, <2>3 DEF RowsInv, Kept, Touched
<1>3. ASSUME NEW type, NEW revision, p = Append(q, Row(type, revision))
      PROVE  RowsInv(p) /\ Kept(q, p)
  BY <1>3, RowIsKeyed, AppendKeeps
<1> QED BY <1>1, <1>2, <1>3 DEF RowStep

\* What the sweep looks for; a published submission without an alignment to
\* come needs none.
HasLaunch(s, q) ==
  \E i \in DOMAIN q : q[i].type \in Launches /\ q[i].revision = s.revision

Settled(s) == s.status = "published" /\ ~s.aligning

LaunchInv == SubmissionInv(sub) /\ RowsInv(rows) /\ (Settled(sub) \/ HasLaunch(sub, rows))

\* A step leaves the workflow revision alone, or settles the submission, or
\* writes a launch row for the revision it sets.
Launched(t, q, p) ==
  \E type \in Launches : p = Append(q, Row(type, t.revision))

RevisionStep(s, t, q, p) == t.revision = s.revision \/ Settled(t) \/ Launched(t, q, p)

LEMMA SettledStays ==
  ASSUME NEW s, NEW t, SubmissionInv(s), Transition(s, t), Settled(s)
  PROVE  Settled(t)
<1>1. s.status = "published" /\ s.phase = None /\ ~s.aligning
  BY DEF Settled, SubmissionInv
<1>2. ~ByAuthor(s, t) /\ ~ByModerator(s, t)
  BY <1>1, NoneAssumption DEF ByAuthor, ByModerator, MayBind, MayBindReference, MayRetry,
                               MayApprove, MayModeratorBlock, Phases
<1>3. ~ByWorkflow(s, t)
  BY <1>1 DEF ByWorkflow, MayAnalyse, Closed, MayReview, MayRule, MayPublish, MayAlign, MayFail
<1>4. Settled(Replaced(s))
  BY <1>1 DEF SubmissionInv, Fields, Settled, Replaced
<1> QED BY <1>2, <1>3, <1>4 DEF Transition

LEMMA LaunchKeeps ==
  ASSUME NEW s, NEW t, NEW q, NEW p,
         SubmissionInv(s), RowsInv(q), Settled(s) \/ HasLaunch(s, q),
         Transition(s, t), RowStep(q, p), RevisionStep(s, t, q, p)
  PROVE  Settled(t) \/ HasLaunch(t, p)
<1>1. ASSUME NEW type \in Launches, p = Append(q, Row(type, t.revision))
      PROVE  HasLaunch(t, p)
  BY <1>1, AppendKeeps, RowIsKeyed DEF HasLaunch
<1>2. CASE t.revision = s.revision /\ HasLaunch(s, q)
  BY <1>2, RowStepKeeps DEF Kept, HasLaunch
<1> QED BY <1>1, <1>2, SettledStays DEF RevisionStep, Launched

\* Author commands and moderators keep the revision, but for a retry, which
\* writes the launch row of its revision.
LEMMA AuthorSteps ==
  ASSUME SubmissionInv(sub), Author \/ Moderator
  PROVE  RowStep(rows, rows') /\ RevisionStep(sub, sub', rows, rows')
<1> USE DEF SubmissionInv, Fields
<1>1. /\ TermsBound(sub).revision = sub.revision /\ LyricsBound(sub).revision = sub.revision
      /\ ReferenceBound(sub).revision = sub.revision
  BY DEF TermsBound, LyricsBound, ReferenceBound, Reopened
<1>2. Approved(sub).revision = sub.revision /\ Stopped(sub).revision = sub.revision
  BY DEF Approved, Stopped
<1>3. RowStep(rows, rows')
  BY DEF Author, Moderator, Tells, RowStep
<1>4. RevisionStep(sub, sub', rows, rows')
  BY <1>1, <1>2 DEF Author, Moderator, Tells, RevisionStep, Launched, Launches
<1> QED BY <1>3, <1>4

\* A publication that still has to be aligned writes the alignment row.
LEMMA PublicationStep ==
  ASSUME SubmissionInv(sub), PublishEffect
  PROVE  RowStep(rows, rows') /\ RevisionStep(sub, sub', rows, rows')
<1>1. /\ Published(sub).revision = sub.revision + 1
      /\ Published(sub).status = "published" /\ Published(sub).aligning = (sub.lyrics > 0)
  BY DEF SubmissionInv, Fields, Published
<1>2. CASE sub.lyrics > 0
  BY <1>1, <1>2 DEF PublishEffect, RowStep, RevisionStep, Launched, Launches
<1>3. CASE ~(sub.lyrics > 0)
  BY <1>1, <1>3 DEF PublishEffect, RowStep, RevisionStep, Settled
<1> QED BY <1>2, <1>3

LEMMA SweepSteps ==
  ASSUME SubmissionInv(sub), Sweep
  PROVE  RowStep(rows, rows') /\ RevisionStep(sub, sub', rows, rows')
<1>1. CASE UNCHANGED <<sub, rows>>  BY <1>1 DEF RowStep, RevisionStep
<1>2. CASE Replace
  <2>1. sub'.revision = sub.revision + 1  BY <1>2 DEF SubmissionInv, Fields, Replace, Replaced
  <2> QED BY <1>2, <2>1 DEF Replace, RowStep, RevisionStep, Launched, Launches
<1>3. CASE Converge
  <2>1. Aligned(sub).revision = sub.revision /\ Failed(sub, FALSE).revision = sub.revision
    BY DEF SubmissionInv, Fields, Aligned, Failed
  <2> QED BY <1>3, <2>1, PublicationStep DEF Converge, RowStep, RevisionStep
<1> QED
  BY <1>1, <1>2, <1>3 DEF Sweep, SweepLooks, SweepReads, SweepActs, outbox

LEMMA WorkflowSteps ==
  ASSUME SubmissionInv(sub), NEW r \in Revisions,
         Advance(r) \/ ProbeFails(r) \/ ProviderExhausted(r) \/ InstanceLost(r)
  PROVE  RowStep(rows, rows') /\ RevisionStep(sub, sub', rows, rows')
<1>1. CASE UNCHANGED <<sub, rows>>  BY <1>1 DEF RowStep, RevisionStep
<1>2. CASE PublishEffect  BY <1>2, PublicationStep
<1>3. ASSUME NEW lyrics, NEW outcome, NEW retryable
      PROVE  /\ Analysed(sub, lyrics).revision = sub.revision
             /\ ReviewRequired(sub).revision = sub.revision
             /\ Ruled(sub, outcome).revision = sub.revision
             /\ Aligned(sub).revision = sub.revision
             /\ Failed(sub, retryable).revision = sub.revision
  BY DEF SubmissionInv, Fields, Analysed, ReviewRequired, Ruled, Stopped, Aligned, Failed
<1>4. CASE CommitAnalysis(r) \/ CommitDecision(r) \/ CommitAlignment(r)
           \/ ProbeFails(r) \/ ProviderExhausted(r)
  BY <1>3, <1>4 DEF CommitAnalysis, CommitDecision, CommitAlignment, ProbeFails,
                    ProviderExhausted, RowStep, RevisionStep, outbox
<1>5. CASE CommitPublication(r)
  BY <1>1, <1>2, <1>5 DEF CommitPublication
<1> QED
  BY <1>1, <1>4, <1>5 DEF Advance, Load, Decide, Resume, Publish, Wake, InstanceLost, outbox

\* A consumer works on a row, and never on its type or revision.
LEMMA ConsumerSteps ==
  ASSUME RowsInv(rows),
         \/ Dispatch \/ BecomesDue \/ LeaseEnds
         \/ \E c \in Consumers : Consume(c) \/ LaunchLost(c) \/ ConsumerCrashes(c)
  PROVE  RowStep(rows, rows') /\ sub' = sub
<1>1. ASSUME NEW i, NEW state, NEW attempts, NEW fence, NEW leased, NEW due
      PROVE  /\ Touched(rows, i, [rows[i] EXCEPT !.state = state, !.leased = leased])
             /\ Touched(rows, i, [rows[i] EXCEPT !.leased = leased])
             /\ Touched(rows, i, [rows[i] EXCEPT !.due = due])
             /\ Touched(rows, i, [rows[i] EXCEPT !.state = state, !.leased = leased, !.due = due,
                                                 !.fence = fence, !.attempts = attempts])
  BY DEF RowsInv, Touched, Keys
<1>2. CASE Dispatch \/ BecomesDue \/ LeaseEnds
  BY <1>1, <1>2 DEF Dispatch, BecomesDue, LeaseEnds, RowStep
<1>3. ASSUME NEW c \in Consumers, Claim(c)
      PROVE  RowStep(rows, rows') /\ sub' = sub
  BY <1>1, <1>3 DEF Claim, RowStep
<1>4. ASSUME NEW c \in Consumers, Complete(c) \/ Fail(c)
      PROVE  RowStep(rows, rows') /\ sub' = sub
  BY <1>1, <1>4 DEF Complete, Fail, RowStep
<1>5. ASSUME NEW c \in Consumers,
             \/ Acknowledge(c) \/ Refuse(c) \/ CheckRevision(c) \/ Launch(c) \/ LaunchRefused(c)
             \/ LaunchLost(c) \/ ConsumerCrashes(c)
      PROVE  RowStep(rows, rows') /\ sub' = sub
  BY <1>5 DEF Acknowledge, Refuse, CheckRevision, Launch, LaunchRefused, LaunchLost,
              ConsumerCrashes, RowStep
<1> QED BY <1>2, <1>3, <1>4, <1>5 DEF Consume

LEMMA LaunchIsKept == Spec => []LaunchInv
<1>1. Init => LaunchInv
  <2> SUFFICES ASSUME Init PROVE LaunchInv  OBVIOUS
  <2>1. SubmissionInv(sub) /\ sub.revision = 1 /\ sub.status = "processing"
    <3>1. PICK terms \in BOOLEAN : sub = Finalized(terms)  BY DEF Init
    <3>2. SubmissionInv(sub)  BY <3>1, FinalizedInv
    <3> QED BY <3>1, <3>2 DEF Finalized
  <2>2. rows = <<Row("analysis_launch", 1)>>  BY DEF Init
  <2>3. rows \in Seq({Row("analysis_launch", 1)}) /\ DOMAIN rows = {1}
        /\ rows[1] = Row("analysis_launch", 1)
    BY <2>2
  <2> QED BY <2>1, <2>3, RowIsKeyed DEF LaunchInv, RowsInv, HasLaunch, Launches
<1>2. LaunchInv /\ [Next]_vars => LaunchInv'
  <2> SUFFICES ASSUME LaunchInv, [Next]_vars PROVE LaunchInv'  OBVIOUS
  <2>1. SubmissionInv(sub) /\ RowsInv(rows) /\ Transition(sub, sub')
    BY StepIsTransition DEF LaunchInv
  <2>2. RowStep(rows, rows') /\ RevisionStep(sub, sub', rows, rows')
    <3>1. CASE UNCHANGED vars  BY <3>1 DEF vars, RowStep, RevisionStep
    <3>2. CASE Next
      BY <2>1, <3>2, ConsumerSteps, WorkflowSteps, SweepSteps, AuthorSteps
      DEF Next, RevisionStep
    <3> QED BY <3>1, <3>2
  <2>3. SubmissionInv(sub') /\ RowsInv(rows')  BY <2>1, <2>2, TransitionKeeps, RowStepKeeps
  <2>4. Settled(sub') \/ HasLaunch(sub', rows')  BY <2>1, <2>2, LaunchKeeps DEF LaunchInv
  <2> QED BY <2>3, <2>4 DEF LaunchInv
<1> QED BY <1>1, <1>2, PTL DEF Spec

\* No submission with work left can be forgotten by the sweep: a launch row of
\* its current revision is there, whoever set the revision last
\* (listWorkflowCandidates in media-processing-store.ts joins on it).
THEOREM LiveAlwaysHasALaunch == Spec => []LiveHasALaunch
<1>1. LaunchInv => LiveHasALaunch
  BY DEF LaunchInv, Settled, HasLaunch, LiveHasALaunch, Recoverable
<1> QED BY <1>1, LaunchIsKept, PTL
----------------------------------------------------------------------------
\* What a submission is made of, and how many revisions it can come to.

\* A ruling is of an analysis there is, an outcome one the domain knows.
LEMMA RulingTyped ==
  ASSUME NEW s \in Submissions, NEW outcome \in Outcomes, s.analysis # None
  PROVE  Ruling(s, outcome) \in Rulings
<1>1. s.creation \in Nat /\ s.analysis \in Nat  BY DEF Submissions
<1> QED BY <1>1 DEF Ruling, Rulings

LEMMA ReopenedTyped ==
  ASSUME NEW s \in Submissions, NEW phase \in Phases
  PROVE  Reopened(s, phase) \in Submissions
<1>1. s.creation + 1 \in Nat  BY DEF Submissions
<1> QED BY <1>1 DEF Submissions, Reopened, Statuses

LEMMA AuthorTyped ==
  ASSUME NEW s \in Submissions, NEW t, ByAuthor(s, t)  PROVE  t \in Submissions
<1>1. \A phase \in {"analysis", "decision"} : Reopened(s, phase) \in Submissions
  BY ReopenedTyped DEF Phases
<1>2. ASSUME NEW u \in Submissions
      PROVE  /\ [u EXCEPT !.terms = TRUE] \in Submissions
             /\ [u EXCEPT !.bound = TRUE] \in Submissions
             /\ [u EXCEPT !.revision = @ + 1] \in Submissions
             /\ [u EXCEPT !.lyrics = @ + 1, !.analysis = None] \in Submissions
  <2>1. u.revision + 1 \in Nat /\ u.lyrics + 1 \in Nat  BY DEF Submissions
  <2> QED BY <2>1 DEF Submissions
<1> QED
  BY <1>1, <1>2 DEF ByAuthor, TermsBound, LyricsBound, ReferenceBound, RetryAuthorized

LEMMA ModeratorTyped ==
  ASSUME NEW s \in Submissions, NEW t, ByModerator(s, t)  PROVE  t \in Submissions
<1>1. CASE MayApprove(s) /\ t = Approved(s)
  <2>1. Ruling(s, "allow") \in Rulings  BY <1>1, RulingTyped DEF MayApprove, Outcomes
  <2> QED BY <1>1, <2>1 DEF Approved, Submissions, Statuses, Phases
<1>2. CASE t = Stopped(s)  BY <1>2 DEF Stopped, Submissions, Statuses
<1> QED BY <1>1, <1>2 DEF ByModerator

LEMMA RuledTyped ==
  ASSUME NEW s \in Submissions, SubmissionInv(s), NEW creation, NEW outcome \in Outcomes,
         MayRule(s, creation)
  PROVE  Ruled(s, outcome) \in Submissions
<1> DEFINE r == Ruling(s, outcome)
           kept == [s EXCEPT !.ruled = @ \cup {r}]
<1>1. r \in Rulings  BY RulingTyped DEF MayRule, SubmissionInv
<1>2. kept \in Submissions  BY <1>1 DEF Submissions
<1>3. /\ [kept EXCEPT !.decision = r, !.phase = "publish"] \in Submissions
      /\ [ReviewRequired(kept) EXCEPT !.decision = r] \in Submissions
      /\ Stopped(kept) \in Submissions
      /\ [kept EXCEPT !.status = "action_required", !.phase = None, !.decision = None]
           \in Submissions
  <2> HIDE DEF r, kept
  <2> QED BY <1>1, <1>2 DEF Submissions, Statuses, Phases, ReviewRequired, Stopped
<1>4. Ruled(s, outcome) =
        CASE outcome = "allow" -> [kept EXCEPT !.decision = r, !.phase = "publish"]
          [] outcome = "hold" -> [ReviewRequired(kept) EXCEPT !.decision = r]
          [] outcome = "block" -> Stopped(kept)
          [] OTHER -> [kept EXCEPT !.status = "action_required", !.phase = None,
                                   !.decision = None]
  BY DEF Ruled
<1> HIDE DEF kept, r
<1>5. CASE outcome = "allow"  BY <1>3, <1>4, <1>5
<1>6. CASE outcome = "hold"  BY <1>3, <1>4, <1>6
<1>7. CASE outcome = "block"  BY <1>3, <1>4, <1>7
<1>8. CASE outcome \notin {"allow", "hold", "block"}  BY <1>3, <1>4, <1>8
<1> QED BY <1>5, <1>6, <1>7, <1>8

LEMMA WorkflowTyped ==
  ASSUME NEW s \in Submissions, SubmissionInv(s), NEW t, ByWorkflow(s, t)
  PROVE  t \in Submissions
<1>1. ASSUME NEW lyrics, MayAnalyse(s, lyrics) PROVE Analysed(s, lyrics) \in Submissions
  <2>1. lyrics \in Nat  BY <1>1 DEF MayAnalyse, Submissions
  <2> QED BY <2>1 DEF Analysed, Submissions, Statuses, Phases
<1>2. ReviewRequired(s) \in Submissions  BY DEF ReviewRequired, Submissions, Statuses
<1>3. Published(s) \in Submissions
  <2>1. s.revision + 1 \in Nat  BY DEF Submissions
  <2>2. (s.lyrics > 0) \in BOOLEAN  BY DEF Submissions
  <2>3. ASSUME NEW aligning \in BOOLEAN, NEW revision \in Nat
        PROVE  [s EXCEPT !.status = "published", !.phase = None, !.revision = revision,
                         !.aligning = aligning] \in Submissions
    BY DEF Submissions, Statuses
  <2> QED BY <2>1, <2>2, <2>3 DEF Published
<1>4. Aligned(s) \in Submissions  BY DEF Aligned, Submissions
<1>5. ASSUME NEW retryable \in BOOLEAN PROVE Failed(s, retryable) \in Submissions
  BY DEF Failed, Submissions, Statuses
<1> QED BY <1>1, <1>2, <1>3, <1>4, <1>5, RuledTyped DEF ByWorkflow

LEMMA TransitionTyped ==
  ASSUME NEW s \in Submissions, SubmissionInv(s), NEW t, Transition(s, t)
  PROVE  t \in Submissions
<1>1. Replaced(s) \in Submissions
  <2>1. s.revision + 1 \in Nat /\ s.replaced + 1 \in Nat  BY DEF Submissions
  <2> QED BY <2>1 DEF Replaced, Submissions
<1> QED BY <1>1, AuthorTyped, ModeratorTyped, WorkflowTyped DEF Transition

\* The post is worth one revision of its own.
Posted(s) == IF s.status = "published" THEN 1 ELSE 0

\* Everything that makes a revision is counted.  A replacement the sweep is
\* about to make is below the ceiling, unless the revision has moved on, which
\* its fence will see.
RevisionsInv ==
  /\ acts \in 0..MaxActs /\ sub.replaced <= MaxReplacements
  /\ sub.revision > 0 /\ sub.revision <= 1 + sub.replaced + acts + Posted(sub)
  /\ sweep.pc = "act" /\ sweep.plan = "replace" =>
       /\ sweep.revision \in 0..sub.revision
       /\ sweep.revision = sub.revision => sub.replaced < MaxReplacements

Same(s, t) == t.revision = s.revision /\ t.replaced = s.replaced

LEMMA AuthorCounts ==
  ASSUME NEW s \in Submissions, SubmissionInv(s), NEW t, ByAuthor(s, t)
  PROVE  /\ Posted(s) = 0 /\ Posted(t) = 0 /\ t.replaced = s.replaced
         /\ t.revision = s.revision \/ t.revision = s.revision + 1
<1>1. s.status # "published"
  BY NoneAssumption DEF ByAuthor, MayBind, MayBindReference, MayRetry, SubmissionInv, Phases
<1>2. t.status = "processing"
  BY DEF ByAuthor, SubmissionInv, Fields,
         TermsBound, LyricsBound, ReferenceBound, RetryAuthorized, Reopened
<1>3. /\ t.replaced = s.replaced
      /\ t.revision = s.revision \/ t.revision = s.revision + 1
  BY DEF ByAuthor, SubmissionInv, Fields,
     TermsBound, LyricsBound, ReferenceBound, RetryAuthorized, Reopened
<1> QED BY <1>1, <1>2, <1>3 DEF Posted

LEMMA ModeratorCounts ==
  ASSUME NEW s \in Submissions, SubmissionInv(s), NEW t, ByModerator(s, t)
  PROVE  Posted(s) = 0 /\ Posted(t) = 0 /\ Same(s, t)
BY DEF ByModerator, MayApprove, MayModeratorBlock, SubmissionInv, Fields, Approved, Stopped,
       Posted, Same

LEMMA WorkflowCounts ==
  ASSUME NEW s \in Submissions, SubmissionInv(s), NEW t, ByWorkflow(s, t)
  PROVE  \/ Same(s, t) /\ Posted(t) = Posted(s)
         \/ /\ Posted(s) = 0 /\ Posted(t) = 1
            /\ t.revision = s.revision + 1 /\ t.replaced = s.replaced
<1> USE DEF SubmissionInv, Fields, Same, Posted
<1>1. ASSUME NEW lyrics, MayAnalyse(s, lyrics)
      PROVE  LET u == Analysed(s, lyrics) IN Same(s, u) /\ Posted(u) = 0 /\ Posted(s) = 0
  BY <1>1 DEF MayAnalyse, Closed, Analysed
<1>2. ASSUME MayReview(s)
      PROVE  LET u == ReviewRequired(s) IN Same(s, u) /\ Posted(u) = 0 /\ Posted(s) = 0
  BY <1>2 DEF MayReview, ReviewRequired
<1>3. ASSUME NEW creation, NEW outcome \in Outcomes, MayRule(s, creation)
      PROVE  LET u == Ruled(s, outcome) IN Same(s, u) /\ Posted(u) = 0 /\ Posted(s) = 0
  BY <1>3 DEF MayRule, Ruled, ReviewRequired, Stopped, Outcomes
<1>4. ASSUME NEW creation, MayPublish(s, creation)
      PROVE  LET u == Published(s)
             IN /\ Posted(s) = 0 /\ Posted(u) = 1
                /\ u.revision = s.revision + 1 /\ u.replaced = s.replaced
  BY <1>4 DEF MayPublish, Published
<1>5. LET u == Aligned(s) IN Same(s, u) /\ Posted(u) = Posted(s)
  BY DEF Aligned
<1>6. ASSUME NEW creation, NEW retryable, MayFail(s, creation)
      PROVE  LET u == Failed(s, retryable) IN Same(s, u) /\ Posted(u) = 0 /\ Posted(s) = 0
  BY <1>6 DEF MayFail, Failed
<1> QED
  <2>1. CASE \E lyrics : MayAnalyse(s, lyrics) /\ t = Analysed(s, lyrics)  BY <2>1, <1>1
  <2>2. CASE MayReview(s) /\ t = ReviewRequired(s)  BY <2>2, <1>2
  <2>3. CASE \E creation : \E outcome \in Outcomes :
               MayRule(s, creation) /\ t = Ruled(s, outcome)
    BY <2>3, <1>3
  <2>4. CASE \E creation : MayPublish(s, creation) /\ t = Published(s)  BY <2>4, <1>4
  <2>5. CASE \E revision : MayAlign(s, revision) /\ t = Aligned(s)  BY <2>5, <1>5
  <2>6. CASE \E creation : \E retryable \in BOOLEAN :
               MayFail(s, creation) /\ t = Failed(s, retryable)
    BY <2>6, <1>6
  <2> QED BY <2>1, <2>2, <2>3, <2>4, <2>5, <2>6 DEF ByWorkflow

\* A step that is no command and no replacement keeps the revision and the
\* replacements, or publishes; whatever moves the revision moves it up.
LEMMA RevisionsKept ==
  ASSUME sub \in Submissions, SubmissionInv(sub), sub' \in Submissions, RevisionsInv, StepKind
  PROVE  RevisionsInv'
<1>1. /\ sub.revision \in Nat /\ sub.replaced \in Nat /\ acts \in Nat /\ MaxActs \in Nat
      /\ MaxReplacements \in Nat /\ Posted(sub) \in {0, 1} /\ Posted(sub') \in {0, 1}
      /\ sub'.revision \in Nat /\ sub'.replaced \in Nat
  BY WorkflowAssumption DEF Submissions, RevisionsInv, Posted
<1>2. CASE acts < MaxActs /\ acts' = acts + 1 /\ sweep' = sweep /\ ByAuthor(sub, sub')
  <2>1. /\ Posted(sub) = 0 /\ Posted(sub') = 0 /\ sub'.replaced = sub.replaced
        /\ sub'.revision = sub.revision \/ sub'.revision = sub.revision + 1
    BY <1>2, AuthorCounts
  <2>2. /\ acts' \in 0..MaxActs /\ sub'.replaced <= MaxReplacements
        /\ sub'.revision > 0 /\ sub'.revision <= 1 + sub'.replaced + acts' + Posted(sub')
    BY <1>1, <1>2, <2>1 DEF RevisionsInv
  <2>3. sweep'.pc = "act" /\ sweep'.plan = "replace" =>
          /\ sweep'.revision \in 0..sub'.revision
          /\ sweep'.revision = sub'.revision => sub'.replaced < MaxReplacements
    <3> SUFFICES ASSUME sweep.pc = "act", sweep.plan = "replace"
        PROVE  /\ sweep.revision \in 0..sub'.revision
               /\ sweep.revision = sub'.revision => sub'.replaced < MaxReplacements
      BY <1>2
    <3>1. sweep.revision \in 0..sub.revision
      BY DEF RevisionsInv
    <3>2. CASE sub'.revision = sub.revision  BY <2>1, <3>2 DEF RevisionsInv
    <3>3. CASE sub'.revision = sub.revision + 1
      BY <1>1, <3>1, <3>3
    <3> QED BY <2>1, <3>2, <3>3
  <2> QED BY <2>2, <2>3 DEF RevisionsInv
<1>3. CASE Uncommanded /\ (sweep' = sweep \/ sweep'.pc # "act" \/ SweepReads)
  <2>1. acts' = acts  BY <1>3 DEF Uncommanded
  <2>2. /\ acts' \in 0..MaxActs /\ sub'.replaced <= MaxReplacements
        /\ sub'.revision > 0 /\ sub'.revision <= 1 + sub'.replaced + acts' + Posted(sub')
        /\ sub'.revision > sub.revision \/ Same(sub, sub')
    <3>1. CASE Replaces
      <4>1. sub'.revision = sub.revision + 1 /\ sub'.replaced = sub.replaced + 1
            /\ Posted(sub') = Posted(sub)
        BY <3>1 DEF Replaces, Replaced, SubmissionInv, Fields, Posted
      <4>2. sub.replaced < MaxReplacements  BY <3>1 DEF Replaces, RevisionsInv
      <4> QED BY <1>1, <2>1, <4>1, <4>2 DEF RevisionsInv
    <3>2. CASE ~Replaces
      <4>1. \/ Same(sub, sub') /\ Posted(sub') = Posted(sub)
            \/ /\ Posted(sub) = 0 /\ Posted(sub') = 1
               /\ sub'.revision = sub.revision + 1 /\ sub'.replaced = sub.replaced
        BY <1>3, <3>2, ModeratorCounts, WorkflowCounts DEF Uncommanded, Same
      <4> QED BY <1>1, <2>1, <4>1 DEF RevisionsInv, Same
    <3> QED BY <3>1, <3>2
  <2>3. CASE sweep' = sweep
    <3>1. ASSUME sweep.pc = "act", sweep.plan = "replace"
          PROVE  /\ sweep.revision \in 0..sub'.revision
                 /\ sweep.revision = sub'.revision => sub'.replaced < MaxReplacements
      BY <1>1, <2>2, <3>1 DEF RevisionsInv, Same
    <3> QED BY <2>2, <2>3, <3>1 DEF RevisionsInv
  <2>4. CASE sweep'.pc # "act"  BY <2>2, <2>4 DEF RevisionsInv
  <2>5. CASE SweepReads
    <3>1. sub' = sub  BY <2>5 DEF SweepReads
    <3>2. sweep'.pc = "act" /\ sweep'.plan = "replace" =>
            sweep'.revision = sub.revision /\ sub.replaced < MaxReplacements
      BY <2>5 DEF SweepReads, Plan, Resting
    <3> QED BY <1>1, <2>2, <3>1, <3>2 DEF RevisionsInv
  <2> QED BY <1>3, <2>3, <2>4, <2>5
<1> QED BY <1>2, <1>3 DEF StepKind

\* There is an instance for every revision a submission can come to.
LEMMA RevisionIsCounted ==
  ASSUME sub \in Submissions, RevisionsInv  PROVE  sub.revision \in Revisions
<1>1. /\ sub.revision \in Nat /\ sub.replaced \in Nat /\ acts \in Nat /\ MaxActs \in Nat
      /\ MaxReplacements \in Nat /\ Posted(sub) \in {0, 1} /\ MaxRevision \in Nat
  BY WorkflowAssumption DEF Submissions, RevisionsInv, Posted
<1> QED BY <1>1, WorkflowAssumption DEF RevisionsInv, Revisions

----------------------------------------------------------------------------
\* Rows, messages, consumers and instances.

Events == Launches \cup Wakeups

GoodRow(row) ==
  /\ row \in OutboxRows /\ row.revision \in Revisions
  /\ row.leased => row.state = "running"
  /\ row.due => row.state = "failed"

Messages == [row : DOMAIN rows, tries : 0..MaxDeliveries - 1]

Tasks ==
  [pc : {"idle", "check", "launch", "complete", "fail"}, row : Nat,
   tries : 0..MaxDeliveries - 1, fence : Nat]

\* A consumer has nothing to do, or works on a row there is.
GoodTask(task) == task \in Tasks /\ (task = Free \/ task.row \in DOMAIN rows)

OutboxInv ==
  /\ rows \in Seq(OutboxRows) /\ \A i \in DOMAIN rows : GoodRow(rows[i])
  /\ queue \subseteq Messages
  /\ con \in [Consumers -> Tasks] /\ \A c \in Consumers : GoodTask(con[c])

Stages ==
  {"absent", "lost", "over", "load", "wait", "analyse", "decide", "ruling", "resume",
   "publish", "publication", "align"}

Notes == [creation : Nat, lyrics : Nat]

Instances == [pc : Stages, event : Events \cup {None}, read : Notes \cup {None}]

IsLaunched(i) == inst[rows[i].revision].pc # "absent"

\* A launch leaves an instance behind, which a consumer then checks off: from
\* the answer of the call to the last retry, the instance is not absent.
InstancesInv ==
  /\ inst \in [Revisions -> Instances]
  /\ inbox \in [Revisions -> SUBSET Events]
  /\ \A i \in DOMAIN rows : rows[i].state = "delivered" => IsLaunched(i)
  /\ \A c \in Consumers : con[c].pc = "complete" => IsLaunched(con[c].row)

WorkInv ==
  /\ SubmissionInv(sub) /\ sub \in Submissions
  /\ RevisionsInv /\ OutboxInv /\ InstancesInv

LEMMA BusyHasARow ==
  ASSUME OutboxInv, NEW c \in Consumers, con[c].pc # "idle"
  PROVE  /\ con[c] \in Tasks /\ con[c].row \in DOMAIN rows
         /\ GoodRow(rows[con[c].row])
BY DEF OutboxInv, GoodTask, Free

\* An instance there is never becomes one there is not.
Started(to) == to \in Instances /\ to.pc # "absent"

LEMMA FreshIsStarted ==
  /\ Started(Over) /\ Started(Lost)
  /\ \A event \in Events : Started(Pass(event)) /\ Started(Waiting(event))
BY DEF Started, Instances, Stages, Over, Lost, Pass, Waiting

LEMMA MovedIsStarted ==
  ASSUME inst \in [Revisions -> Instances], sub \in Submissions, NEW r \in Revisions,
         NEW pc \in Stages \ {"absent"}
  PROVE  Started(At(r, pc)) /\ Started(Reads(r, pc))
<1>1. inst[r] \in Instances  OBVIOUS
<1>2. [creation |-> sub.creation, lyrics |-> sub.lyrics] \in Notes
  BY DEF Submissions, Notes
<1>3. Started(At(r, pc))  BY <1>1 DEF Started, At, Instances
<1>4. Started(Reads(r, pc))
  BY <1>1, <1>2 DEF Started, Reads, Instances
<1> QED BY <1>3, <1>4

LEMMA ResumedIsStarted ==
  ASSUME inst \in [Revisions -> Instances], sub \in Submissions, NEW r \in Revisions
  PROVE  Started(Resumed(r))
<1>1. Started(At(r, "load")) /\ Started(At(r, "publish"))  BY MovedIsStarted DEF Stages
<1>2. Started(Waiting("decision_wakeup")) /\ Started(Waiting("publication")) /\ Started(Over)
  BY FreshIsStarted DEF Events, Wakeups
<1> QED BY <1>1, <1>2 DEF Resumed

LEMMA LoadedIsStarted ==
  ASSUME inst \in [Revisions -> Instances], sub \in Submissions, NEW r \in Revisions
  PROVE  Started(Loaded(r))
<1>1. /\ Started(At(r, "align")) /\ Started(At(r, "publish")) /\ Started(At(r, "decide"))
      /\ Started(Reads(r, "analyse"))
  BY MovedIsStarted DEF Stages
<1>2. Started(Over) /\ Started(Resumed(r))  BY FreshIsStarted, ResumedIsStarted
<1> QED BY <1>1, <1>2 DEF Loaded

\* What a step may do to the instances and what they hold.
InstMove ==
  /\ \/ inst' = inst
     \/ \E r \in Revisions : \E to : Started(to) /\ Goes(r, to)
  /\ inbox' \in [Revisions -> SUBSET Events]

LEMMA InstKept ==
  ASSUME inst \in [Revisions -> Instances], InstMove
  PROVE  /\ inst' \in [Revisions -> Instances]
         /\ \A r \in Revisions : inst[r].pc # "absent" => inst'[r].pc # "absent"
BY DEF InstMove, Goes, Started

\* The instance of a launch is there when the call has taken effect.
LEMMA LaunchMoves ==
  ASSUME InstancesInv, NEW row, GoodRow(row), LaunchEffect(row)
  PROVE  InstMove /\ inst'[row.revision].pc # "absent"
<1>1. row.type \in Events /\ row.revision \in Revisions
  BY DEF GoodRow, OutboxRows, Events
<1>2. CASE Creatable(row.revision) /\ inst' = [inst EXCEPT ![row.revision] = Pass(row.type)]
           /\ UNCHANGED inbox
  <2>1. Started(Pass(row.type))  BY <1>1, FreshIsStarted
  <2>2. inst'[row.revision] = Pass(row.type)  BY <1>1, <1>2 DEF InstancesInv
  <2> QED BY <1>1, <1>2, <2>1, <2>2 DEF InstMove, InstancesInv, Started, Goes
<1>3. CASE ~Creatable(row.revision) /\ UNCHANGED inst
           /\ inbox' = IF row.type = "analysis_launch" THEN inbox
                       ELSE [inbox EXCEPT ![row.revision] = @ \cup {row.type}]
  <2>1. inst'[row.revision].pc # "absent"  BY <1>3 DEF Creatable
  <2>2. inbox' \in [Revisions -> SUBSET Events]
    <3>1. inbox[row.revision] \cup {row.type} \in SUBSET Events  BY <1>1 DEF InstancesInv
    <3> QED BY <1>1, <1>3, <3>1 DEF InstancesInv
  <2> QED BY <1>3, <2>1, <2>2 DEF InstMove
<1> QED BY <1>2, <1>3 DEF LaunchEffect

LEMMA ConsumerLaunches ==
  ASSUME OutboxInv, InstancesInv, NEW c \in Consumers,
         Launch(c) \/ LaunchLost(c)
  PROVE  InstMove /\ (Launch(c) => inst'[rows[con[c].row].revision].pc # "absent")
<1>1. GoodRow(rows[con[c].row])  BY BusyHasARow DEF Launch, LaunchLost
<1>2. CASE LaunchEffect(rows[con[c].row])  BY <1>1, <1>2, LaunchMoves
<1>3. CASE UNCHANGED workflow /\ LaunchLost(c) /\ ~LaunchEffect(rows[con[c].row])
  <2>1. ~Launch(c)  BY <1>3 DEF Launch
  <2> QED BY <1>3, <2>1 DEF workflow, InstMove, InstancesInv
<1> QED BY <1>2, <1>3 DEF Launch, LaunchLost

LEMMA InstanceMoves ==
  ASSUME WorkInv, NEW r \in Revisions,
         Advance(r) \/ ProbeFails(r) \/ ProviderExhausted(r) \/ InstanceLost(r)
  PROVE  InstMove
<1>1. inst \in [Revisions -> Instances] /\ inbox \in [Revisions -> SUBSET Events]
      /\ sub \in Submissions
  BY DEF WorkInv, InstancesInv
<1>2. \A pc \in Stages \ {"absent"} : Started(At(r, pc)) /\ Started(Reads(r, pc))
  BY <1>1, MovedIsStarted
<1>3. /\ Started(Waiting("decision_wakeup")) /\ Started(Waiting("publication"))
      /\ Started(Over) /\ Started(Lost)
  BY FreshIsStarted DEF Events, Wakeups
<1>4. CASE Load(r)
  BY <1>1, <1>4, LoadedIsStarted DEF Load, InstMove
<1>5. CASE Resume(r)
  BY <1>1, <1>5, ResumedIsStarted DEF Resume, InstMove
<1>6. CASE CommitAnalysis(r)
  <2>1. Started(At(r, "decide")) /\ Started(At(r, "load")) /\ Started(Over)
    BY <1>2, <1>3 DEF Stages
  <2>2. \E to : Started(to) /\ Goes(r, to)  BY <1>6, <2>1 DEF CommitAnalysis
  <2> QED BY <1>1, <1>6, <2>2 DEF CommitAnalysis, InstMove
<1>7. CASE Decide(r)
  <2>1. Started(At(r, "load")) /\ Started(Reads(r, "ruling")) /\ Started(Waiting("decision_wakeup"))
    BY <1>2, <1>3 DEF Stages
  <2> QED BY <1>1, <1>7, <2>1 DEF Decide, InstMove
<1>8. CASE CommitDecision(r)
  <2>1. Started(At(r, "resume")) /\ Started(Over)  BY <1>2, <1>3 DEF Stages
  <2>2. \E to : Started(to) /\ Goes(r, to)  BY <1>8, <2>1 DEF CommitDecision
  <2> QED BY <1>1, <1>8, <2>2 DEF CommitDecision, InstMove
<1>9. CASE Publish(r)
  <2>1. Started(Reads(r, "publication")) /\ Started(Over)  BY <1>2, <1>3 DEF Stages
  <2> QED BY <1>1, <1>9, <2>1 DEF Publish, InstMove
<1>10. CASE CommitPublication(r)
  <2>1. Started(At(r, "load")) /\ Started(Over)  BY <1>2, <1>3 DEF Stages
  <2>2. \E to : Started(to) /\ Goes(r, to)  BY <1>10, <2>1 DEF CommitPublication
  <2> QED BY <1>1, <1>10, <2>2 DEF CommitPublication, InstMove
<1>11. CASE CommitAlignment(r)
  BY <1>1, <1>3, <1>11 DEF CommitAlignment, InstMove
<1>12. CASE Wake(r)
  <2>1. inst[r].event \in Events  BY <1>1, <1>12 DEF Wake
  <2>2. Started(Pass(inst[r].event))  BY <2>1, FreshIsStarted
  <2>3. inbox' \in [Revisions -> SUBSET Events]  BY <1>1, <1>12 DEF Wake
  <2> QED BY <1>12, <2>2, <2>3 DEF Wake, InstMove
<1>13. CASE ProbeFails(r)  BY <1>1, <1>3, <1>13 DEF ProbeFails, InstMove
<1>14. CASE ProviderExhausted(r)
  <2>1. \E to : Started(to) /\ Goes(r, to)  BY <1>3, <1>14 DEF ProviderExhausted
  <2> QED BY <1>1, <1>14, <2>1 DEF ProviderExhausted, InstMove
<1>15. CASE InstanceLost(r)
  <2>1. \E to : Started(to) /\ Goes(r, to)  BY <1>3, <1>15 DEF InstanceLost
  <2>2. inbox' \in [Revisions -> SUBSET Events]  BY <1>1, <1>15 DEF InstanceLost
  <2> QED BY <2>1, <2>2 DEF InstMove
<1> QED
  BY <1>4, <1>5, <1>6, <1>7, <1>8, <1>9, <1>10, <1>11, <1>12, <1>13, <1>14, <1>15 DEF Advance

LEMMA StepMovesInstances ==
  ASSUME WorkInv, [Next]_vars  PROVE  InstMove
<1>1. ASSUME UNCHANGED workflow PROVE InstMove
  BY <1>1 DEF workflow, InstMove, WorkInv, InstancesInv
<1>2. CASE UNCHANGED vars  BY <1>1, <1>2 DEF vars, workflow
<1>3. CASE Dispatch \/ BecomesDue \/ LeaseEnds
  BY <1>1, <1>3 DEF Dispatch, BecomesDue, LeaseEnds
<1>4. ASSUME NEW c \in Consumers, Consume(c) \/ LaunchLost(c) \/ ConsumerCrashes(c)
      PROVE  InstMove
  <2>1. CASE Launch(c) \/ LaunchLost(c)  BY <2>1, ConsumerLaunches DEF WorkInv
  <2>2. CASE ~(Launch(c) \/ LaunchLost(c))
    BY <1>1, <1>4, <2>2 DEF Consume, Acknowledge, Refuse, Claim, CheckRevision, LaunchRefused,
                            Complete, Fail, ConsumerCrashes
  <2> QED BY <2>1, <2>2
<1>5. ASSUME NEW r \in Revisions,
             Advance(r) \/ ProbeFails(r) \/ ProviderExhausted(r) \/ InstanceLost(r)
      PROVE  InstMove
  BY <1>5, InstanceMoves
<1>6. CASE Sweep \/ Author \/ Moderator
  BY <1>1, <1>6 DEF Sweep, SweepLooks, SweepReads, SweepActs, Author, Moderator
<1> QED BY <1>2, <1>3, <1>4, <1>5, <1>6 DEF Next

----------------------------------------------------------------------------
\* The rows, the messages and the consumers.

Checks(i) == \E c \in Consumers : con[c].pc = "complete" /\ con[c].row = i

\* A row stays a row of its revision, and only a consumer whose launch took
\* effect makes it delivered.
Worked(i, row) ==
  /\ i \in DOMAIN rows /\ GoodRow(row) /\ row.revision = rows[i].revision
  /\ row.state = "delivered" => rows[i].state = "delivered" \/ Checks(i)

RowMove ==
  \/ rows' = rows
  \/ \E i : \E row : Worked(i, row) /\ rows' = [rows EXCEPT ![i] = row]
  \/ \E type \in Events : rows' = Append(rows, Row(type, sub'.revision))

LEMMA RowIsGood ==
  ASSUME NEW type \in Events, NEW revision \in Revisions
  PROVE  GoodRow(Row(type, revision)) /\ Row(type, revision).state = "pending"
<1>1. 0 \in 0..MaxAttempts  BY WorkflowAssumption
<1> QED BY <1>1 DEF GoodRow, Row, OutboxRows, Events, Revisions

LEMMA RowsKept ==
  ASSUME OutboxInv, RowMove, sub'.revision \in Revisions
  PROVE  /\ rows' \in Seq(OutboxRows) /\ DOMAIN rows \subseteq DOMAIN rows'
         /\ \A i \in DOMAIN rows' : GoodRow(rows'[i])
         /\ \A i \in DOMAIN rows : rows'[i].revision = rows[i].revision
         /\ \A i \in DOMAIN rows' : rows'[i].state = "delivered" =>
              i \in DOMAIN rows /\ (rows[i].state = "delivered" \/ Checks(i))
<1>1. CASE rows' = rows  BY <1>1 DEF OutboxInv
<1>2. ASSUME NEW i, NEW row, Worked(i, row), rows' = [rows EXCEPT ![i] = row]
      PROVE  /\ rows' \in Seq(OutboxRows) /\ DOMAIN rows \subseteq DOMAIN rows'
             /\ \A j \in DOMAIN rows' : GoodRow(rows'[j])
             /\ \A j \in DOMAIN rows : rows'[j].revision = rows[j].revision
             /\ \A j \in DOMAIN rows' : rows'[j].state = "delivered" =>
                  j \in DOMAIN rows /\ (rows[j].state = "delivered" \/ Checks(j))
  <2>1. rows \in Seq(OutboxRows) /\ row \in OutboxRows
    BY <1>2 DEF OutboxInv, Worked, GoodRow
  <2>2. rows' \in Seq(OutboxRows)
    <3>1. rows \in [1..Len(rows) -> OutboxRows] /\ Len(rows) \in Nat  BY <2>1
    <3>2. rows' \in [1..Len(rows) -> OutboxRows]  BY <1>2, <2>1, <3>1
    <3> QED BY <3>1, <3>2, SeqDef
  <2>3. DOMAIN rows' = DOMAIN rows
        /\ \A j \in DOMAIN rows : rows'[j] = IF j = i THEN row ELSE rows[j]
    BY <1>2
  <2> QED BY <1>2, <2>2, <2>3 DEF OutboxInv, Worked
<1>3. ASSUME NEW type \in Events, rows' = Append(rows, Row(type, sub'.revision))
      PROVE  /\ rows' \in Seq(OutboxRows) /\ DOMAIN rows \subseteq DOMAIN rows'
             /\ \A i \in DOMAIN rows' : GoodRow(rows'[i])
             /\ \A i \in DOMAIN rows : rows'[i].revision = rows[i].revision
             /\ \A i \in DOMAIN rows' : rows'[i].state = "delivered" =>
                  i \in DOMAIN rows /\ (rows[i].state = "delivered" \/ Checks(i))
  <2> DEFINE row == Row(type, sub'.revision)
  <2>1. GoodRow(row) /\ row.state = "pending" /\ row \in OutboxRows  BY RowIsGood DEF GoodRow
  <2>2. rows \in Seq(OutboxRows)  BY DEF OutboxInv
  <2>3. rows' = Append(rows, row)  BY <1>3
  <2> HIDE DEF row
  <2>4. /\ rows' \in Seq(OutboxRows)
        /\ DOMAIN rows = 1..Len(rows) /\ Len(rows) \in Nat
        /\ DOMAIN rows' = 1..(Len(rows) + 1)
        /\ \A i \in 1..Len(rows) : rows'[i] = rows[i]
        /\ rows'[Len(rows) + 1] = row
    BY <2>1, <2>2, <2>3
  <2> QED BY <2>1, <2>4 DEF OutboxInv
<1> QED BY <1>1, <1>2, <1>3 DEF RowMove

\* A consumer takes up a row that is eligible, and drops it delivered, failed
\* or exhausted.
LEMMA ClaimedIsGood ==
  ASSUME OutboxInv, NEW m \in queue, Eligible(rows[m.row])
  PROVE  LET row == rows[m.row]
             claimed == [row EXCEPT !.state = "running", !.leased = TRUE, !.due = FALSE,
                           !.fence = @ + 1,
                           !.attempts = IF @ < MaxAttempts THEN @ + 1 ELSE @]
         IN Worked(m.row, claimed)
<1> DEFINE row == rows[m.row]
           attempts == IF row.attempts < MaxAttempts THEN row.attempts + 1 ELSE row.attempts
           fence == row.fence + 1
           claimed == [row EXCEPT !.state = "running", !.leased = TRUE, !.due = FALSE,
                                  !.fence = fence, !.attempts = attempts]
<1>1. m.row \in DOMAIN rows  BY DEF OutboxInv, Messages
<1>2. GoodRow(row) /\ row \in OutboxRows  BY <1>1 DEF OutboxInv, GoodRow
<1>3. attempts \in 0..MaxAttempts /\ fence \in Nat
  BY <1>2, WorkflowAssumption DEF OutboxRows
<1> HIDE DEF row, attempts, fence
<1>4. claimed \in OutboxRows /\ claimed.revision = row.revision
      /\ claimed.state = "running" /\ claimed.due = FALSE
  BY <1>2, <1>3 DEF OutboxRows
<1>5. Worked(m.row, claimed)
  BY <1>1, <1>2, <1>4 DEF Worked, GoodRow, row
<1> QED BY <1>5 DEF row, attempts, fence

LEMMA DroppedIsGood ==
  ASSUME OutboxInv, NEW c \in Consumers, con[c].pc # "idle",
         Holds(c, rows[con[c].row]), NEW state \in {"exhausted", "failed", "delivered"},
         state = "delivered" => con[c].pc = "complete"
  PROVE  Worked(con[c].row, [rows[con[c].row] EXCEPT !.state = state, !.leased = FALSE])
<1> DEFINE row == rows[con[c].row]
<1>1. GoodRow(row) /\ con[c].row \in DOMAIN rows  BY BusyHasARow
<1>2. row.state = "running"  BY DEF Holds
<1>3. row.due = FALSE  BY <1>1, <1>2 DEF GoodRow, OutboxRows
<1>4. [row EXCEPT !.state = state, !.leased = FALSE] \in OutboxRows
  BY <1>1 DEF GoodRow, OutboxRows
<1>5. state = "delivered" => Checks(con[c].row)  BY DEF Checks
<1> QED BY <1>1, <1>3, <1>4, <1>5 DEF GoodRow, Worked, OutboxRows

LEMMA ConsumerMovesRows ==
  ASSUME OutboxInv, NEW c \in Consumers, Consume(c) \/ LaunchLost(c) \/ ConsumerCrashes(c)
  PROVE  RowMove
<1>1. CASE Claim(c)
  BY <1>1, ClaimedIsGood DEF Claim, RowMove
<1>2. CASE Complete(c)
  BY <1>2, DroppedIsGood DEF Complete, RowMove
<1>3. CASE Fail(c)
  BY <1>3, DroppedIsGood DEF Fail, RowMove
<1> QED
  BY <1>1, <1>2, <1>3 DEF Consume, Acknowledge, Refuse, CheckRevision, Launch, LaunchRefused,
                          LaunchLost, ConsumerCrashes, RowMove

\* A row is written for the revision the submission comes to have.
LEMMA PublicationWrites ==
  ASSUME SubmissionInv(sub), PublishEffect  PROVE  RowMove
<1>1. sub'.revision = sub.revision + 1
  BY DEF PublishEffect, Published, SubmissionInv, Fields
<1>2. "alignment" \in Events  BY DEF Events, Launches
<1> QED BY <1>1, <1>2 DEF PublishEffect, RowMove

LEMMA CommandWrites ==
  ASSUME SubmissionInv(sub), Author \/ Moderator  PROVE  RowMove
<1> USE DEF SubmissionInv, Fields
<1>1. /\ TermsBound(sub).revision = sub.revision /\ LyricsBound(sub).revision = sub.revision
      /\ ReferenceBound(sub).revision = sub.revision /\ Approved(sub).revision = sub.revision
  BY DEF TermsBound, LyricsBound, ReferenceBound, Reopened, Approved
<1>2. {"decision_wakeup", "analysis_launch", "publication"} \subseteq Events
  BY DEF Events, Launches, Wakeups
<1>3. CASE Author
  BY <1>1, <1>2, <1>3 DEF Author, Tells, RowMove
<1>4. CASE Moderator
  BY <1>1, <1>2, <1>4 DEF Moderator, Tells, RowMove
<1> QED BY <1>3, <1>4

LEMMA SweepWrites ==
  ASSUME SubmissionInv(sub), Sweep  PROVE  RowMove
<1>1. CASE UNCHANGED rows  BY <1>1 DEF RowMove
<1>2. CASE Replace
  <2>1. sub'.revision = sub.revision + 1
    BY <1>2 DEF Replace, Replaced, SubmissionInv, Fields
  <2>2. "workflow_replacement" \in Events  BY DEF Events, Launches
  <2> QED BY <1>2, <2>1, <2>2 DEF Replace, RowMove
<1>3. CASE PublishEffect  BY <1>3, PublicationWrites
<1> QED BY <1>1, <1>2, <1>3 DEF Sweep, SweepLooks, SweepReads, SweepActs, Converge, outbox

LEMMA StepMovesRows ==
  ASSUME SubmissionInv(sub), OutboxInv, [Next]_vars  PROVE  RowMove
<1>1. CASE UNCHANGED rows  BY <1>1 DEF RowMove
<1>2. CASE UNCHANGED vars  BY <1>2 DEF vars, RowMove
<1>3. CASE Dispatch \/ BecomesDue \/ LeaseEnds
  <2>1. CASE BecomesDue
    <3>1. PICK i \in DOMAIN rows : /\ rows[i].state = "failed"
                                   /\ rows' = [rows EXCEPT ![i] = [@ EXCEPT !.due = TRUE]]
      BY <2>1 DEF BecomesDue
    <3>2. Worked(i, [rows[i] EXCEPT !.due = TRUE])
      BY <3>1 DEF OutboxInv, GoodRow, Worked, OutboxRows
    <3> QED BY <3>1, <3>2 DEF RowMove
  <2>2. CASE LeaseEnds
    <3>1. PICK i \in DOMAIN rows : /\ rows[i].state = "running"
                                   /\ rows' = [rows EXCEPT ![i] = [@ EXCEPT !.leased = FALSE]]
      BY <2>2 DEF LeaseEnds
    <3>2. Worked(i, [rows[i] EXCEPT !.leased = FALSE])
      BY <3>1 DEF OutboxInv, GoodRow, Worked, OutboxRows
    <3> QED BY <3>1, <3>2 DEF RowMove
  <2> QED BY <1>1, <1>3, <2>1, <2>2 DEF Dispatch
<1>4. ASSUME NEW c \in Consumers, Consume(c) \/ LaunchLost(c) \/ ConsumerCrashes(c)
      PROVE  RowMove
  BY <1>4, ConsumerMovesRows
<1>5. ASSUME NEW r \in Revisions,
             Advance(r) \/ ProbeFails(r) \/ ProviderExhausted(r) \/ InstanceLost(r)
      PROVE  RowMove
  <2>1. CASE CommitPublication(r)
    BY <1>1, <2>1, PublicationWrites DEF CommitPublication
  <2>2. CASE ~CommitPublication(r)
    BY <1>1, <1>5, <2>2 DEF Advance, Load, CommitAnalysis, Decide, CommitDecision, Resume,
                            Publish, CommitAlignment, Wake, ProbeFails, ProviderExhausted,
                            InstanceLost, outbox
  <2> QED BY <2>1, <2>2
<1> QED BY <1>2, <1>3, <1>4, <1>5, SweepWrites, CommandWrites DEF Next

\* What a step may do to the consumers: give one a task, which is checking off
\* only when the instance is there.
Proper(task) ==
  GoodTask(task) /\ (task.pc = "complete" => inst'[rows[task.row].revision].pc # "absent")

ConMove ==
  /\ con' = con \/ \E c \in Consumers : \E task : Proper(task) /\ con' = [con EXCEPT ![c] = task]
  /\ queue' \subseteq Messages

LEMMA FreeIsProper == Proper(Free)
<1>1. 0 \in 0..MaxDeliveries - 1  BY WorkflowAssumption
<1> QED BY <1>1 DEF Proper, GoodTask, Tasks, Free

LEMMA NextTaskIsProper ==
  ASSUME OutboxInv, NEW c \in Consumers, con[c].pc # "idle",
         NEW pc \in {"launch", "fail", "complete"},
         pc = "complete" => inst'[rows[con[c].row].revision].pc # "absent"
  PROVE  Proper([con[c] EXCEPT !.pc = pc])
<1>1. con[c] \in Tasks /\ con[c].row \in DOMAIN rows  BY BusyHasARow
<1>2. [con[c] EXCEPT !.pc = pc] \in Tasks  BY <1>1 DEF Tasks
<1> QED BY <1>1, <1>2 DEF Proper, GoodTask, Tasks

LEMMA GivenBackIsAMessage ==
  ASSUME NEW row \in DOMAIN rows, NEW tries \in 0..MaxDeliveries - 1
  PROVE  GivenBack(row, tries) \subseteq Messages
<1>1. tries + 1 < MaxDeliveries => tries + 1 \in 0..MaxDeliveries - 1  BY WorkflowAssumption
<1> QED BY <1>1 DEF GivenBack, Messages

LEMMA ConsumerMoves ==
  ASSUME OutboxInv, InstancesInv, NEW c \in Consumers,
         Consume(c) \/ LaunchLost(c) \/ ConsumerCrashes(c)
  PROVE  ConMove
<1>1. queue \subseteq Messages /\ con \in [Consumers -> Tasks]  BY DEF OutboxInv
<1>2. CASE Acknowledge(c) \/ Refuse(c)
  <2>1. \A m \in queue : GivenBack(m.row, m.tries) \subseteq Messages
    BY <1>1, GivenBackIsAMessage DEF Messages
  <2> QED BY <1>1, <1>2, <2>1 DEF Acknowledge, Refuse, ConMove
<1>3. CASE Claim(c)
  <2>1. PICK m \in queue :
          /\ con' = [con EXCEPT ![c] = [pc |-> "check", row |-> m.row, tries |-> m.tries,
                                        fence |-> rows[m.row].fence + 1]]
          /\ queue' = queue \ {m}
    BY <1>3 DEF Claim
  <2>2. m.row \in DOMAIN rows /\ m.tries \in 0..MaxDeliveries - 1 /\ m.row \in Nat
    BY <1>1 DEF Messages, OutboxInv
  <2>3. rows[m.row].fence + 1 \in Nat
    BY <2>2 DEF OutboxInv, GoodRow, OutboxRows
  <2>4. Proper([pc |-> "check", row |-> m.row, tries |-> m.tries,
                fence |-> rows[m.row].fence + 1])
    BY <2>2, <2>3 DEF Proper, GoodTask, Tasks
  <2> QED BY <1>1, <2>1, <2>4 DEF ConMove
<1>4. CASE CheckRevision(c)
  <2>1. con[c].pc = "check"  BY <1>4 DEF CheckRevision
  <2>2. Proper([con[c] EXCEPT !.pc = "launch"]) /\ Proper([con[c] EXCEPT !.pc = "fail"])
    BY <2>1, NextTaskIsProper
  <2> QED BY <1>1, <1>4, <2>2 DEF CheckRevision, ConMove
<1>5. CASE Launch(c)
  <2>1. con[c].pc = "launch" /\ inst'[rows[con[c].row].revision].pc # "absent"
    BY <1>5, ConsumerLaunches DEF Launch
  <2>2. Proper([con[c] EXCEPT !.pc = "complete"])  BY <2>1, NextTaskIsProper
  <2> QED BY <1>1, <1>5, <2>2 DEF Launch, ConMove
<1>6. CASE LaunchRefused(c) \/ LaunchLost(c)
  <2>1. con[c].pc = "launch"  BY <1>6 DEF LaunchRefused, LaunchLost
  <2>2. Proper([con[c] EXCEPT !.pc = "fail"])  BY <2>1, NextTaskIsProper
  <2> QED BY <1>1, <1>6, <2>2 DEF LaunchRefused, LaunchLost, ConMove
<1>7. CASE Complete(c)
  <2>1. con[c].pc = "complete"  BY <1>7 DEF Complete
  <2>2. Proper([con[c] EXCEPT !.pc = "fail"]) /\ Proper(Free)
    BY <2>1, NextTaskIsProper, FreeIsProper
  <2> QED BY <1>1, <1>7, <2>2 DEF Complete, ConMove
<1>8. CASE Fail(c) \/ ConsumerCrashes(c)
  <2>1. con[c].pc # "idle"  BY <1>8 DEF Fail, ConsumerCrashes
  <2>2. GivenBack(con[c].row, con[c].tries) \subseteq Messages
    BY <2>1, BusyHasARow, GivenBackIsAMessage DEF Tasks
  <2> QED BY <1>1, <1>8, <2>2, FreeIsProper DEF Fail, ConsumerCrashes, ConMove
<1> QED BY <1>2, <1>3, <1>4, <1>5, <1>6, <1>7, <1>8 DEF Consume

LEMMA StepMovesConsumers ==
  ASSUME WorkInv, [Next]_vars  PROVE  ConMove
<1>1. OutboxInv /\ InstancesInv /\ queue \subseteq Messages  BY DEF WorkInv, OutboxInv
<1>2. ASSUME UNCHANGED <<queue, con>> PROVE ConMove  BY <1>1, <1>2 DEF ConMove
<1>3. CASE UNCHANGED vars  BY <1>2, <1>3 DEF vars
<1>4. CASE Dispatch
  <2>1. PICK i \in DOMAIN rows : queue' = queue \cup {[row |-> i, tries |-> 0]} /\ con' = con
    BY <1>4 DEF Dispatch
  <2>2. 0 \in 0..MaxDeliveries - 1  BY WorkflowAssumption
  <2> QED BY <1>1, <2>1, <2>2 DEF ConMove, Messages
<1>5. CASE BecomesDue \/ LeaseEnds  BY <1>2, <1>5 DEF BecomesDue, LeaseEnds
<1>6. ASSUME NEW c \in Consumers, Consume(c) \/ LaunchLost(c) \/ ConsumerCrashes(c)
      PROVE  ConMove
  BY <1>1, <1>6, ConsumerMoves
<1>7. ASSUME NEW r \in Revisions,
             Advance(r) \/ ProbeFails(r) \/ ProviderExhausted(r) \/ InstanceLost(r)
      PROVE  ConMove
  BY <1>2, <1>7 DEF Advance, Load, CommitAnalysis, Decide, CommitDecision, Resume, Publish,
       CommitPublication, CommitAlignment, Wake, ProbeFails, ProviderExhausted, InstanceLost,
       outbox
<1>8. CASE Sweep \/ Author \/ Moderator
  BY <1>2, <1>8 DEF Sweep, SweepLooks, SweepReads, SweepActs, Author, Moderator, outbox
<1> QED BY <1>3, <1>4, <1>5, <1>6, <1>7, <1>8 DEF Next

----------------------------------------------------------------------------
\* The invariant is kept.

LEMMA InitWork == Init => WorkInv
<1> SUFFICES ASSUME Init PROVE WorkInv  OBVIOUS
<1>1. PICK terms \in BOOLEAN : sub = Finalized(terms)  BY DEF Init
<1>2. SubmissionInv(sub) /\ sub \in Submissions
  BY <1>1, FinalizedInv DEF Finalized, Submissions, Statuses, Phases
<1>3. /\ sub.revision = 1 /\ sub.replaced = 0 /\ sub.status = "processing"
      /\ acts = 0 /\ sweep.pc = "idle"
  BY <1>1 DEF Init, Finalized, Resting
<1>4. RevisionsInv  BY <1>3, WorkflowAssumption DEF RevisionsInv, Posted
<1>5. 1 \in Revisions  BY <1>2, <1>3, <1>4, RevisionIsCounted
<1>6. GoodRow(Row("analysis_launch", 1)) /\ Row("analysis_launch", 1).state = "pending"
  BY <1>5, RowIsGood DEF Events, Launches
<1>7. OutboxInv
  <2>1. rows = <<Row("analysis_launch", 1)>>  BY DEF Init
  <2>2. rows \in Seq(OutboxRows) /\ DOMAIN rows = {1} /\ rows[1] = Row("analysis_launch", 1)
    BY <1>6, <2>1 DEF GoodRow
  <2>3. Free \in Tasks  BY FreeIsProper DEF Proper, GoodTask
  <2> QED BY <1>6, <2>2, <2>3 DEF Init, OutboxInv, GoodTask
<1>8. InstancesInv
  <2>1. Absent \in Instances  BY DEF Absent, Instances, Stages
  <2>2. \A i \in DOMAIN rows : rows[i].state = "pending"  BY <1>6 DEF Init
  <2>3. \A c \in Consumers : con[c].pc = "idle"  BY DEF Init, Free
  <2> QED BY <2>1, <2>2, <2>3 DEF Init, InstancesInv
<1> QED BY <1>2, <1>4, <1>7, <1>8 DEF WorkInv

LEMMA WorkIsKept ==
  ASSUME WorkInv, [Next]_vars  PROVE  WorkInv'
<1>1. /\ SubmissionInv(sub) /\ sub \in Submissions
      /\ RevisionsInv /\ OutboxInv /\ InstancesInv
  BY DEF WorkInv
<1>2. Transition(sub, sub') /\ StepKind  BY StepIsTransition, StepKinds
<1>3. SubmissionInv(sub') /\ sub' \in Submissions
  BY <1>1, <1>2, TransitionKeeps, TransitionTyped
<1>4. RevisionsInv'  BY <1>1, <1>2, <1>3, RevisionsKept
<1>5. sub'.revision \in Revisions
  <2>1. (sub \in Submissions /\ RevisionsInv => sub.revision \in Revisions)'
    BY RevisionIsCounted, PTL
  <2> QED BY <1>3, <1>4, <2>1 DEF Revisions
<1>6. RowMove /\ ConMove /\ InstMove
  BY <1>1, StepMovesRows, StepMovesConsumers, StepMovesInstances
<1>7. /\ rows' \in Seq(OutboxRows) /\ DOMAIN rows \subseteq DOMAIN rows'
      /\ \A i \in DOMAIN rows' : GoodRow(rows'[i])
      /\ \A i \in DOMAIN rows : rows'[i].revision = rows[i].revision
      /\ \A i \in DOMAIN rows' : rows'[i].state = "delivered" =>
           i \in DOMAIN rows /\ (rows[i].state = "delivered" \/ Checks(i))
  BY <1>1, <1>5, <1>6, RowsKept
<1>8. /\ con' \in [Consumers -> Tasks]
      /\ \A c \in Consumers : GoodTask(con'[c]) /\ (con'[c] = con[c] \/ Proper(con'[c]))
  BY <1>1, <1>6 DEF ConMove, OutboxInv, Proper, GoodTask
<1>9. OutboxInv'
  <2>1. Messages \subseteq Messages'  BY <1>7 DEF Messages
  <2>2. \A i \in DOMAIN rows' : GoodRow(rows[i])'  BY <1>7 DEF GoodRow, OutboxRows, Revisions
  <2>3. \A c \in Consumers : GoodTask(con[c])'
    BY <1>7, <1>8 DEF GoodTask, Tasks, Free
  <2> QED BY <1>6, <1>7, <1>8, <2>1, <2>2, <2>3 DEF OutboxInv, ConMove
<1>10. InstancesInv'
  <2>1. inst' \in [Revisions -> Instances] /\ inbox' \in [Revisions -> SUBSET Events]
        /\ \A r \in Revisions : inst[r].pc # "absent" => inst'[r].pc # "absent"
    BY <1>1, <1>6, InstKept DEF InstancesInv, InstMove
  <2>2. \A i \in DOMAIN rows : IsLaunched(i) => IsLaunched(i)'
    BY <1>1, <1>7, <2>1 DEF IsLaunched, OutboxInv, GoodRow
  <2>3. \A i \in DOMAIN rows' : rows'[i].state = "delivered" => IsLaunched(i)'
    BY <1>1, <1>7, <2>2 DEF InstancesInv, Checks
  <2>4. ASSUME NEW c \in Consumers, con'[c].pc = "complete"
        PROVE  IsLaunched(con[c].row)'
    <3>1. CASE con'[c] = con[c]
      <4>1. con[c].pc = "complete" /\ con[c].row \in DOMAIN rows /\ IsLaunched(con[c].row)
        BY <1>1, <2>4, <3>1, BusyHasARow DEF InstancesInv
      <4> QED BY <2>2, <3>1, <4>1
    <3>2. CASE Proper(con'[c])
      <4>1. /\ inst'[rows[con'[c].row].revision].pc # "absent"
            /\ con'[c].row \in DOMAIN rows
        BY <2>4, <3>2 DEF Proper, GoodTask, Free
      <4> QED BY <1>7, <4>1 DEF IsLaunched
    <3> QED BY <1>8, <3>1, <3>2
  <2> QED BY <2>1, <2>3, <2>4 DEF InstancesInv, Revisions, Instances, Stages, Notes, Events
<1> QED BY <1>3, <1>4, <1>9, <1>10 DEF WorkInv

LEMMA WorkAlways == Spec => []WorkInv
BY InitWork, WorkIsKept, PTL DEF Spec

\* Rows, messages, consumers and instances agree on which rows there are,
\* whatever is lost, repeated or claimed twice (media-outbox-repository.ts,
\* processing-queue.ts).
THEOREM TypeCorrect == Spec => []TypeOK
<1>1. WorkInv => TypeOK
  BY DEF WorkInv, OutboxInv, InstancesInv, GoodRow, GoodTask, Messages, Events, TypeOK,
         Launches, Wakeups
<1> QED BY <1>1, WorkAlways, PTL

\* No row is checked off for a launch that did not happen: not by a consumer
\* that lost its lease, nor after an answer that was lost
\* (consumeMediaProcessingQueueMessage in processing-queue.ts).
THEOREM DeliveredIsAlwaysLaunched == Spec => []DeliveredIsLaunched
<1>1. WorkInv => DeliveredIsLaunched
  BY DEF WorkInv, InstancesInv, IsLaunched, DeliveredIsLaunched
<1> QED BY <1>1, WorkAlways, PTL
==============================================================================
