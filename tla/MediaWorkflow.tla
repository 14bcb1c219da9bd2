---------------------------- MODULE MediaWorkflow ----------------------------
(***************************************************************************)
(* What carries one song submission from its sealed upload to a post: the  *)
(* outbox rows in PostgreSQL (media-outbox-repository.ts), the dispatcher  *)
(* that sends them to a Queue (media-outbox-dispatch.ts), the consumers    *)
(* that create or notify a Workflow instance per row (processing-queue.ts),*)
(* the instances (processing-workflow.ts under the runner of               *)
(* media-processor-worker/src/index.ts), the sweep that replaces lost ones *)
(* (media-workflow-sweep.ts), and the author and the moderators whose      *)
(* commands (submission-service.ts) race with all of them.                 *)
(*                                                                         *)
(* Every transaction is a step; an instance or a consumer does nothing     *)
(* else between two of them.  The Queue delivers at least once and in any  *)
(* order; a message runs out after MaxDeliveries.  A Workflow instance has *)
(* the id of its workflow revision, is created at most once, and keeps the *)
(* events sent to it until it waits for their type.                        *)
(***************************************************************************)
EXTENDS MediaSubmission, Sequences, FiniteSets

CONSTANTS
  MaxRevision,      \* workflow revisions
  Consumers,        \* Queue consumers that may overlap
  MaxAttempts,      \* claims of an outbox row (the code's 3)
  MaxDeliveries,    \* deliveries of one Queue message (the code's 4)
  MaxReplacements,  \* SONG_WORKFLOW_MAX_REPLACEMENTS (the code's 3)
  Verdicts,         \* what the providers' evidence may amount to
  MaxActs,          \* author commands
  MaxFaults,        \* crashes, lost calls, failing providers, lost instances
  MaxUpsets         \* author commands and faults together

ASSUME WorkflowAssumption ==
  /\ MaxAttempts \in Nat \ {0} /\ MaxDeliveries \in Nat \ {0}
  /\ MaxReplacements \in Nat /\ MaxActs \in Nat /\ MaxFaults \in Nat
  /\ MaxUpsets \in Nat
  /\ Verdicts \subseteq Outcomes
  \* the first, one for each replacement and each retry, and that of the post
  /\ MaxRevision \in Nat /\ MaxRevision >= 2 + MaxReplacements + MaxActs

VARIABLES
  sub,       \* the submission row
  rows,      \* its outbox rows, in the order they were written
  queue,     \* Queue messages: the row and how often it was delivered
  con,       \* what each consumer is doing
  inst,      \* the Workflow instance of each revision
  inbox,     \* the events an instance holds and has not waited for
  sweep,     \* what the sweep found and means to do
  acts,
  faults

outbox == <<rows, queue, con>>
workflow == <<inst, inbox>>
vars == <<sub, rows, queue, con, inst, inbox, sweep, acts, faults>>

Revisions == 1..MaxRevision
Launches == {"analysis_launch", "workflow_replacement", "alignment"}
Wakeups == {"decision_wakeup", "publication"}

OutboxRows ==
  [type : Launches \cup Wakeups, revision : Nat,
   state : {"pending", "running", "failed", "delivered", "exhausted"},
   attempts : 0..MaxAttempts, fence : Nat, leased : BOOLEAN, due : BOOLEAN]

Row(type, revision) ==
  [type |-> type, revision |-> revision, state |-> "pending",
   attempts |-> 0, fence |-> 0, leased |-> FALSE, due |-> FALSE]

Free == [pc |-> "idle", row |-> 0, tries |-> 0, fence |-> 0]

\* An instance about to run a pass for an event; one that waits for an event;
\* one between a read and the write it fences with what it read.
Pass(event) == [pc |-> "load", event |-> event, read |-> None]
Waiting(event) == [pc |-> "wait", event |-> event, read |-> None]
Absent == [pc |-> "absent", event |-> None, read |-> None]
Lost == [pc |-> "lost", event |-> None, read |-> None]
Over == [pc |-> "over", event |-> None, read |-> None]

Resting == [pc |-> "idle", plan |-> None, revision |-> 0, creation |-> 0]

Init ==
  /\ \E terms \in BOOLEAN : sub = Finalized(terms)
  /\ rows = <<Row("analysis_launch", 1)>>
  /\ queue = {}
  /\ con = [c \in Consumers |-> Free]
  /\ inst = [r \in Revisions |-> Absent]
  /\ inbox = [r \in Revisions |-> {}]
  /\ sweep = Resting
  /\ acts = 0
  /\ faults = 0

Upset == acts + faults < MaxUpsets

Fault == Upset /\ faults < MaxFaults /\ faults' = faults + 1

----------------------------------------------------------------------------
\* The outbox rows and their dispatch to the Queue.

\* A failed row whose backoff has passed, or a running one whose lease has.
Eligible(row) ==
  \/ row.state = "pending"
  \/ row.state = "failed" /\ row.due
  \/ row.state = "running" /\ ~row.leased

\* Sending is repeated as long as the row is listed; equal messages are one.
Dispatch ==
  \E i \in DOMAIN rows :
    /\ rows[i].attempts < MaxAttempts /\ Eligible(rows[i])
    /\ [row |-> i, tries |-> 0] \notin queue
    /\ queue' = queue \cup {[row |-> i, tries |-> 0]}
    /\ UNCHANGED <<sub, rows, con, workflow, sweep, acts, faults>>

BecomesDue ==
  \E i \in DOMAIN rows :
    /\ rows[i].state = "failed" /\ ~rows[i].due
    /\ rows' = [rows EXCEPT ![i].due = TRUE]
    /\ UNCHANGED <<sub, queue, con, workflow, sweep, acts, faults>>

Holds(c, row) ==
  /\ row.state = "running" /\ row.leased
  /\ row.fence = con[c].fence

\* The lease of a consumer that is gone runs out; one that still works may be
\* slower than its lease, which is a fault.
LeaseEnds ==
  \E i \in DOMAIN rows :
    /\ rows[i].state = "running" /\ rows[i].leased
    /\ IF \E c \in Consumers : con[c].pc # "idle" /\ con[c].row = i /\ Holds(c, rows[i])
         THEN Fault
         ELSE UNCHANGED faults
    /\ rows' = [rows EXCEPT ![i].leased = FALSE]
    /\ UNCHANGED <<sub, queue, con, workflow, sweep, acts>>

----------------------------------------------------------------------------
\* A Queue consumer (consumeMediaProcessingQueueMessage).

\* Both dispositions retry and dlq give the message back to the Queue.
GivenBack(row, tries) ==
  IF tries + 1 < MaxDeliveries THEN {[row |-> row, tries |-> tries + 1]} ELSE {}

Acknowledge(c) ==
  \E m \in queue :
    /\ con[c].pc = "idle" /\ rows[m.row].state = "delivered"
    /\ queue' = queue \ {m}
    /\ UNCHANGED <<sub, rows, con, workflow, sweep, acts, faults>>

\* The row is exhausted, not due, or another consumer holds its lease.
Refuse(c) ==
  \E m \in queue :
    /\ con[c].pc = "idle" /\ rows[m.row].state # "delivered" /\ ~Eligible(rows[m.row])
    /\ queue' = (queue \ {m}) \cup GivenBack(m.row, m.tries)
    /\ UNCHANGED <<sub, rows, con, workflow, sweep, acts, faults>>

\* Mutant: the count of claims is not capped.
Claim_Uncapped(c) ==
  \E m \in queue :
    LET row == rows[m.row] IN
    /\ con[c].pc = "idle" /\ Eligible(row)
    /\ rows' = [rows EXCEPT ![m.row] =
                  [row EXCEPT !.state = "running", !.leased = TRUE, !.due = FALSE,
                              !.fence = @ + 1, !.attempts = @ + 1]]
    /\ con' = [con EXCEPT ![c] = [pc |-> "check", row |-> m.row, tries |-> m.tries,
                                  fence |-> row.fence + 1]]
    /\ queue' = queue \ {m}
    /\ UNCHANGED <<sub, workflow, sweep, acts, faults>>

\* A running row whose lease has passed is claimed however often it was.
Claim(c) ==
  \E m \in queue :
    LET row == rows[m.row] IN
    /\ con[c].pc = "idle" /\ Eligible(row)
    /\ rows' = [rows EXCEPT ![m.row] =
                  [row EXCEPT !.state = "running", !.leased = TRUE, !.due = FALSE,
                              !.fence = @ + 1,
                              !.attempts = IF @ < MaxAttempts THEN @ + 1 ELSE @]]
    /\ con' = [con EXCEPT ![c] = [pc |-> "check", row |-> m.row, tries |-> m.tries,
                                  fence |-> row.fence + 1]]
    /\ queue' = queue \ {m}
    /\ UNCHANGED <<sub, workflow, sweep, acts, faults>>

CheckRevision(c) ==
  /\ con[c].pc = "check"
  /\ con' = [con EXCEPT ![c].pc =
               IF sub.revision = rows[con[c].row].revision THEN "launch" ELSE "fail"]
  /\ UNCHANGED <<sub, rows, queue, workflow, sweep, acts, faults>>

\* workflow.create makes the instance that is not there; an instance that is
\* there is sent the event, but for an analysis launch.
Creatable(r) == inst[r].pc \in {"absent", "lost"}

LaunchEffect(row) ==
  \/ /\ Creatable(row.revision)
     /\ inst' = [inst EXCEPT ![row.revision] = Pass(row.type)]
     /\ UNCHANGED inbox
  \/ /\ ~Creatable(row.revision)
     /\ row.type = "analysis_launch" \/ inst[row.revision].pc # "over"
     /\ inbox' = IF row.type = "analysis_launch" THEN inbox
                 ELSE [inbox EXCEPT ![row.revision] = @ \cup {row.type}]
     /\ UNCHANGED inst

Launch(c) ==
  /\ con[c].pc = "launch"
  /\ LaunchEffect(rows[con[c].row])
  /\ con' = [con EXCEPT ![c].pc = "complete"]
  /\ UNCHANGED <<sub, rows, queue, sweep, acts, faults>>

\* An event for an instance that is over is refused.
LaunchRefused(c) ==
  LET row == rows[con[c].row] IN
  /\ con[c].pc = "launch"
  /\ row.type # "analysis_launch" /\ inst[row.revision].pc = "over"
  /\ con' = [con EXCEPT ![c].pc = "fail"]
  /\ UNCHANGED <<sub, rows, queue, workflow, sweep, acts, faults>>

\* Mutant: a call without an answer is taken for one that succeeded.
LaunchLost_Completes(c) ==
  /\ Fault
  /\ con[c].pc = "launch"
  /\ LaunchEffect(rows[con[c].row]) \/ UNCHANGED workflow
  /\ con' = [con EXCEPT ![c].pc = "complete"]
  /\ UNCHANGED <<sub, rows, queue, sweep, acts>>

\* The call fails, or takes effect and its answer is lost.
LaunchLost(c) ==
  /\ Fault
  /\ con[c].pc = "launch"
  /\ LaunchEffect(rows[con[c].row]) \/ UNCHANGED workflow
  /\ con' = [con EXCEPT ![c].pc = "fail"]
  /\ UNCHANGED <<sub, rows, queue, sweep, acts>>

Complete(c) ==
  LET i == con[c].row IN
  /\ con[c].pc = "complete"
  /\ IF Holds(c, rows[i])
       THEN /\ rows' = [rows EXCEPT ![i] = [@ EXCEPT !.state = "delivered", !.leased = FALSE]]
            /\ con' = [con EXCEPT ![c] = Free]
       ELSE /\ con' = [con EXCEPT ![c].pc = "fail"]
            /\ UNCHANGED rows
  /\ UNCHANGED <<sub, queue, workflow, sweep, acts, faults>>

\* markFailed is fenced like markDelivered: a consumer that lost its claim only
\* gives its message back.
Fail(c) ==
  LET i == con[c].row
      over == rows[i].attempts >= MaxAttempts
  IN
  /\ con[c].pc = "fail"
  /\ rows' = IF Holds(c, rows[i])
               THEN [rows EXCEPT ![i] =
                       [@ EXCEPT !.state = IF over THEN "exhausted" ELSE "failed",
                                 !.leased = FALSE]]
               ELSE rows
  /\ queue' = queue \cup GivenBack(i, con[c].tries)
  /\ con' = [con EXCEPT ![c] = Free]
  /\ UNCHANGED <<sub, workflow, sweep, acts, faults>>

ConsumerCrashes(c) ==
  /\ Fault
  /\ con[c].pc # "idle"
  /\ queue' = queue \cup GivenBack(con[c].row, con[c].tries)
  /\ con' = [con EXCEPT ![c] = Free]
  /\ UNCHANGED <<sub, rows, workflow, sweep, acts>>

Consume(c) ==
  \/ Acknowledge(c) \/ Refuse(c) \/ Claim(c) \/ CheckRevision(c)
  \/ Launch(c) \/ LaunchRefused(c) \/ Complete(c) \/ Fail(c)

----------------------------------------------------------------------------
\* A Workflow instance: passes of runMediaProcessingWorkflow, and the runner's
\* waits between them.

Goes(r, to) == inst' = [inst EXCEPT ![r] = to]
At(r, pc) == [inst[r] EXCEPT !.pc = pc, !.read = None]
Reads(r, pc) ==
  [inst[r] EXCEPT !.pc = pc, !.read = [creation |-> sub.creation, lyrics |-> sub.lyrics]]

\* resumeCommittedDecision and the wait the runner derives from its outcome.
Resumed(r) ==
  CASE sub.status = "action_required" -> Waiting("decision_wakeup")
    [] sub.status = "manual_review" -> Waiting("publication")
    [] sub.status = "blocked" -> Over
    [] OTHER -> IF sub.decision = None THEN At(r, "load") ELSE At(r, "publish")

Loaded(r) ==
  LET event == inst[r].event
      aligns == \/ event = "alignment"
                \/ event = "workflow_replacement" /\ sub.status = "published" /\ sub.lyrics > 0
      ruledOn == sub.status \in {"action_required", "manual_review"} \/ sub.decision # None
  IN CASE sub.revision # r \/ sub.status \in {"blocked", "failed"} -> Over
       [] aligns -> At(r, "align")
       [] event = "publication" -> At(r, "publish")
       [] sub.status = "published" -> Over
       [] ruledOn -> Resumed(r)
       [] sub.analysis = None -> Reads(r, "analyse")
       [] OTHER -> At(r, "decide")

Load(r) ==
  /\ inst[r].pc = "load"
  /\ Goes(r, Loaded(r))
  /\ UNCHANGED <<sub, outbox, inbox, sweep, acts, faults>>

\* The evidence is built from what was read; what is committed meanwhile by
\* another instance is kept.
CommitAnalysis(r) ==
  /\ inst[r].pc = "analyse"
  /\ IF sub.analysis # None
       THEN UNCHANGED sub /\ Goes(r, At(r, "decide"))
     ELSE IF MayAnalyse(sub, inst[r].read.lyrics)
       THEN sub' = Analysed(sub, inst[r].read.lyrics) /\ Goes(r, At(r, "decide"))
     ELSE UNCHANGED sub /\ Goes(r, IF Closed(sub) THEN Over ELSE At(r, "load"))
  /\ UNCHANGED <<outbox, inbox, sweep, acts, faults>>

\* The probe or the transform fails: a failure the author may retry, unless
\* the submission moved on, which ends the instance with an error.
ProbeFails(r) ==
  /\ Fault
  /\ inst[r].pc = "analyse"
  /\ sub' = IF MayFail(sub, inst[r].read.creation) THEN Failed(sub, TRUE) ELSE sub
  /\ Goes(r, Over)
  /\ UNCHANGED <<outbox, inbox, sweep, acts>>

\* A provider has no attempts left: a review without an analysis.
ProviderExhausted(r) ==
  /\ Fault
  /\ inst[r].pc = "analyse"
  /\ IF MayReview(sub)
       THEN sub' = ReviewRequired(sub) /\ Goes(r, Waiting("publication"))
       ELSE UNCHANGED sub /\ Goes(r, Over)
  /\ UNCHANGED <<outbox, inbox, sweep, acts>>

Decide(r) ==
  /\ inst[r].pc = "decide"
  /\ Goes(r, IF sub.analysis = None THEN At(r, "load")
             ELSE IF ~sub.terms THEN Waiting("decision_wakeup")
             ELSE Reads(r, "ruling"))
  /\ UNCHANGED <<sub, outbox, inbox, sweep, acts, faults>>

\* The command's key is the creation: a second ruling of one is a replay.  A
\* ruling for a creation that is over is rejected, and the runner takes the
\* rejection for an error no retry can mend.
CommitDecision(r) ==
  LET creation == inst[r].read.creation IN
  /\ inst[r].pc = "ruling"
  /\ \E outcome \in Verdicts :
       /\ outcome = "reference" => ~sub.bound
       /\ IF \E past \in sub.ruled : past.creation = creation
            THEN UNCHANGED sub /\ Goes(r, At(r, "resume"))
          ELSE IF MayRule(sub, creation)
            THEN sub' = Ruled(sub, outcome) /\ Goes(r, At(r, "resume"))
          ELSE UNCHANGED sub /\ Goes(r, Over)
  /\ UNCHANGED <<outbox, inbox, sweep, acts, faults>>

Resume(r) ==
  /\ inst[r].pc = "resume"
  /\ Goes(r, Resumed(r))
  /\ UNCHANGED <<sub, outbox, inbox, sweep, acts, faults>>

Publish(r) ==
  /\ inst[r].pc = "publish"
  /\ Goes(r, IF sub.status = "processing" /\ sub.phase = "publish"
               THEN Reads(r, "publication") ELSE Over)
  /\ UNCHANGED <<sub, outbox, inbox, sweep, acts, faults>>

\* Mutant: the alignment row is left to another transaction.
PublishEffect_NoRow == sub' = Published(sub) /\ UNCHANGED rows

\* The post, the next revision and, for lyrics, the alignment row are one
\* transaction.
PublishEffect ==
  /\ sub' = Published(sub)
  /\ rows' = IF sub.lyrics > 0
               THEN Append(rows, Row("alignment", sub.revision + 1)) ELSE rows

CommitPublication(r) ==
  /\ inst[r].pc = "publication"
  /\ IF MayPublish(sub, inst[r].read.creation)
       THEN PublishEffect /\ Goes(r, Over)
       ELSE UNCHANGED <<sub, rows>> /\ Goes(r, At(r, "load"))
  /\ UNCHANGED <<queue, con, inbox, sweep, acts, faults>>

CommitAlignment(r) ==
  /\ inst[r].pc = "align"
  /\ sub' = IF sub.status = "published" /\ MayAlign(sub, r) THEN Aligned(sub) ELSE sub
  /\ Goes(r, Over)
  /\ UNCHANGED <<outbox, inbox, sweep, acts, faults>>

Wake(r) ==
  /\ inst[r].pc = "wait" /\ inst[r].event \in inbox[r]
  /\ Goes(r, Pass(inst[r].event))
  /\ inbox' = [inbox EXCEPT ![r] = @ \ {inst[r].event}]
  /\ UNCHANGED <<sub, outbox, sweep, acts, faults>>

\* The platform loses the instance, or ends it with an error.
InstanceLost(r) ==
  /\ Fault
  /\ inst[r].pc \notin {"absent", "over", "lost"}
  /\ \/ Goes(r, Lost) /\ inbox' = [inbox EXCEPT ![r] = {}]
     \/ Goes(r, Over) /\ UNCHANGED inbox
  /\ UNCHANGED <<sub, outbox, sweep, acts>>

Advance(r) ==
  \/ Load(r) \/ CommitAnalysis(r) \/ Decide(r) \/ CommitDecision(r) \/ Resume(r)
  \/ Publish(r) \/ CommitPublication(r) \/ CommitAlignment(r) \/ Wake(r)

----------------------------------------------------------------------------
\* The sweep over submissions that are live, or published and not aligned.

Recoverable(s) ==
  s.status \in {"processing", "action_required", "manual_review"} \/ s.aligning

\* Mutant: a launch row that used up its claims is not looked at.
Swept_Delivered(i) ==
  /\ rows[i].type \in Launches /\ rows[i].revision = sub.revision
  /\ rows[i].state = "delivered"

Swept(i) ==
  /\ rows[i].type \in Launches /\ rows[i].revision = sub.revision
  /\ rows[i].state \in {"delivered", "exhausted"}

\* An instance that was never created is missing like one that was lost.
SweepLooks ==
  /\ sweep.pc = "idle"
  /\ Recoverable(sub) /\ \E i \in DOMAIN rows : Swept(i)
  /\ inst[sub.revision].pc \in {"absent", "lost", "over"}
  /\ sweep' = [Resting EXCEPT !.pc = IF inst[sub.revision].pc = "over" THEN "finished"
                                                                    ELSE "missing",
                              !.revision = sub.revision]
  /\ UNCHANGED <<sub, outbox, workflow, acts, faults>>

\* A wait needs a fresh instance; a finished one converges through what it
\* committed, or the submission fails for an operator to look at.
Plan ==
  CASE sweep.pc = "missing" \/ sub.status \in {"action_required", "manual_review"} ->
         IF sub.replaced < MaxReplacements THEN "replace" ELSE None
    [] sub.status = "published" -> "align"
    [] sub.phase = "publish" /\ sub.decision # None -> "publish"
    [] OTHER -> "escalate"

SweepReads ==
  /\ sweep.pc \in {"missing", "finished"}
  /\ LET stale == sub.revision # sweep.revision \/ sub.status \in {"blocked", "failed"}
     IN sweep' = IF stale \/ Plan = None THEN Resting
                 ELSE [pc |-> "act", plan |-> Plan, revision |-> sub.revision,
                       creation |-> sub.creation]
  /\ UNCHANGED <<sub, outbox, workflow, acts, faults>>

\* Each act is fenced by what it changes, not by what the sweep found.
StillHolds ==
  CASE sweep.plan = "replace" -> sub.revision = sweep.revision
    [] sweep.plan = "align" -> MayAlign(sub, sweep.revision)
    [] sweep.plan = "publish" -> MayPublish(sub, sweep.creation)
    [] OTHER -> MayFail(sub, sweep.creation)

Replace ==
  /\ sweep.plan = "replace"
  /\ sub' = Replaced(sub)
  /\ rows' = Append(rows, Row("workflow_replacement", sub.revision + 1))

Converge ==
  \/ sweep.plan = "align" /\ sub' = Aligned(sub) /\ UNCHANGED rows
  \/ sweep.plan = "publish" /\ PublishEffect
  \/ sweep.plan = "escalate" /\ sub' = Failed(sub, FALSE) /\ UNCHANGED rows

SweepActs ==
  /\ sweep.pc = "act"
  /\ IF StillHolds THEN Replace \/ Converge ELSE UNCHANGED <<sub, rows>>
  /\ sweep' = Resting
  /\ UNCHANGED <<queue, con, workflow, acts, faults>>

Sweep == SweepLooks \/ SweepReads \/ SweepActs

----------------------------------------------------------------------------
\* The author and the moderators.  Every command that may concern a running
\* workflow leaves a row for it in the same transaction.

Tells(type, s) == rows' = Append(rows, Row(type, s.revision))

Author ==
  /\ Upset /\ acts < MaxActs /\ acts' = acts + 1
  /\ \/ MayBind(sub) /\ sub' = TermsBound(sub) /\ Tells("decision_wakeup", sub)
     \/ MayBind(sub) /\ sub' = LyricsBound(sub) /\ Tells("decision_wakeup", sub)
     \/ MayBindReference(sub) /\ sub' = ReferenceBound(sub) /\ Tells("decision_wakeup", sub)
     \/ MayRetry(sub) /\ sub' = RetryAuthorized(sub)
          /\ Tells("analysis_launch", RetryAuthorized(sub))
  /\ UNCHANGED <<queue, con, workflow, sweep, faults>>

Moderator ==
  /\ \/ MayApprove(sub) /\ sub' = Approved(sub) /\ Tells("publication", sub)
     \/ MayModeratorBlock(sub) /\ sub' = Stopped(sub) /\ UNCHANGED rows
  /\ UNCHANGED <<queue, con, workflow, sweep, acts, faults>>

----------------------------------------------------------------------------
Next ==
  \/ Dispatch \/ BecomesDue \/ LeaseEnds
  \/ \E c \in Consumers : Consume(c) \/ LaunchLost(c) \/ ConsumerCrashes(c)
  \/ \E r \in Revisions :
       Advance(r) \/ ProbeFails(r) \/ ProviderExhausted(r) \/ InstanceLost(r)
  \/ Sweep \/ Author \/ Moderator

Spec == Init /\ [][Next]_vars

TimePasses == BecomesDue \/ (LeaseEnds /\ UNCHANGED faults)

\* Cron runs the dispatcher and the sweep every minute, the Queue delivers what
\* it holds, leases and backoffs are times, and the platform runs instances.
\* The author and the moderators owe nothing, and no fault has to happen.
Fairness ==
  /\ WF_vars(Dispatch) /\ WF_vars(TimePasses)
  /\ \A c \in Consumers : WF_vars(Consume(c))
  /\ \A r \in Revisions : WF_vars(Advance(r))
  /\ WF_vars(Sweep)

FairSpec == Spec /\ Fairness

----------------------------------------------------------------------------
\* The rows, the queue and the consumers agree on which rows there are; a lease
\* is held on running rows only and a backoff waited for by failed ones.
TypeOK ==
  /\ sub \in Submissions
  /\ rows \in Seq(OutboxRows)
  /\ \A i \in DOMAIN rows :
       /\ rows[i].leased => rows[i].state = "running"
       /\ rows[i].due => rows[i].state = "failed"
  /\ queue \subseteq [row : DOMAIN rows, tries : 0..MaxDeliveries - 1]
  /\ \A c \in Consumers : con[c] = Free \/ con[c].row \in DOMAIN rows
  /\ \A r \in Revisions : inbox[r] \subseteq Launches \cup Wakeups

\* What a post shows was ruled on: the decision that published it allows the
\* very terms and lyrics the submission has, and was made on an analysis of
\* those lyrics, whatever the author bound while the workflow was deciding and
\* whichever of two instances or the sweep committed the post.
PublishedIsRuledOn ==
  sub.status = "published" =>
    /\ sub.decision # None /\ sub.decision.outcome = "allow"
    /\ sub.decision.creation = sub.creation
    /\ sub.decision.lyrics = sub.lyrics /\ sub.analysis = sub.lyrics

\* A row that is delivered has its instance: no crash, lost answer or expired
\* lease makes a consumer check off a launch that did not happen.
DeliveredIsLaunched ==
  \A i \in DOMAIN rows :
    rows[i].state = "delivered" => inst[rows[i].revision].pc # "absent"

\* A submission with work left always has a launch row for its current
\* revision: what the sweep looks for, so nothing can be forgotten by it.
LiveHasALaunch ==
  Recoverable(sub) =>
    \E i \in DOMAIN rows : rows[i].type \in Launches /\ rows[i].revision = sub.revision

----------------------------------------------------------------------------
\* The author has given what is needed and nobody else is asked.
Working == (sub.status = "processing" /\ sub.terms) \/ sub.aligning

\* What may keep such a submission from moving.
Awaits(event) ==
  inst[sub.revision].pc = "wait" /\ inst[sub.revision].event = event

\* The author changed a submission under review: its instance waits for the
\* moderators, who have nothing left to review.
ReviewSuperseded ==
  Awaits("publication") /\ sub.status = "processing" /\ sub.phase # "publish"

\* The last claim of a row was lost and so were its messages: it is running
\* for ever, and not listed again.
ClaimAbandoned(i) ==
  /\ rows[i].revision = sub.revision
  /\ rows[i].state = "running" /\ rows[i].attempts = MaxAttempts
  /\ ~ \E m \in queue : m.row = i
  /\ ~ \E c \in Consumers : con[c].pc # "idle" /\ con[c].row = i

\* The instance waits for an event whose row has used up its deliveries.
WakeupExhausted(i) ==
  /\ rows[i].revision = sub.revision /\ rows[i].state = "exhausted"
  /\ rows[i].type \in Wakeups /\ Awaits(rows[i].type)

\* An operator's turn: every automatic replacement is spent.
CeilingReached ==
  sub.replaced = MaxReplacements /\ inst[sub.revision].pc \in {"absent", "lost"}

Stranded ==
  \/ ReviewSuperseded \/ CeilingReached
  \/ \E i \in DOMAIN rows : ClaimAbandoned(i) \/ WakeupExhausted(i)

\* Whatever is lost, crashes or answers late, a submission that waits for
\* nobody is carried on until it is published and aligned, held, blocked or
\* failed, but for the four ways to strand it named above.
EveryWorkEnds == Working ~> (~Working \/ Stranded)

----------------------------------------------------------------------------
\* Binding terms to a held submission supersedes the review and has it decided
\* again.
AuthorIsHeard ==
  (sub.status = "processing" /\ sub.terms) ~> sub.status # "processing"
==============================================================================
