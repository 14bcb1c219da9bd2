--------------------------- MODULE MediaSubmission ---------------------------
(***************************************************************************)
(* The transitions of one song submission from its sealed upload on, as    *)
(* transitionMediaSubmission (packages/domain/src/media-submission.ts)     *)
(* defines them and media-submission-repository.ts commits them: a guard   *)
(* (May...) and the next record of each.  A submission is a row that every *)
(* transaction locks, so each transition is atomic.                        *)
(*                                                                         *)
(* creation counts the author's changes and retries, revision the workflow *)
(* instances.  An analysis is the lyrics revision it was made for (0: no   *)
(* lyrics), a decision the creation and the analysis it rules on.          *)
(***************************************************************************)
EXTENDS Naturals

CONSTANT None

Outcomes == {"allow", "hold", "block", "reference"}
Statuses == {"processing", "action_required", "manual_review",
             "published", "blocked", "failed"}
Phases == {"analysis", "decision", "publish"}

ASSUME NoneAssumption == None \notin Nat /\ None \notin Phases

Rulings == [outcome : Outcomes, creation : Nat, lyrics : Nat]

Submissions ==
  [status : Statuses, phase : Phases \cup {None}, creation : Nat, terms : BOOLEAN, lyrics : Nat,
   analysis : Nat \cup {None}, bound : BOOLEAN, decision : Rulings \cup {None},
   ruled : SUBSET Rulings, revision : Nat, replaced : Nat, aligning : BOOLEAN,
   retryable : BOOLEAN]

\* The upload is sealed and the first workflow revision is the current one.
\* Terms may have been bound while the upload was awaited, lyrics may not.
Finalized(terms) ==
  [status |-> "processing", phase |-> "analysis", creation |-> 1, terms |-> terms,
   lyrics |-> 0, analysis |-> None, bound |-> FALSE, decision |-> None, ruled |-> {},
   revision |-> 1, replaced |-> 0, aligning |-> FALSE, retryable |-> FALSE]

\* No transition leaves these: a failed submission is not among them.
Closed(s) == s.status \in {"published", "blocked"}

----------------------------------------------------------------------------
\* The author.

MayBind(s) ==
  \/ s.phase \in {"analysis", "decision"}
  \/ s.status \in {"action_required", "manual_review"}

Reopened(s, phase) ==
  [s EXCEPT !.creation = @ + 1, !.status = "processing", !.phase = phase,
            !.decision = None, !.retryable = FALSE]

TermsBound(s) ==
  [Reopened(s, IF s.analysis = None THEN "analysis" ELSE "decision") EXCEPT !.terms = TRUE]

LyricsBound(s) ==
  [Reopened(s, "analysis") EXCEPT !.lyrics = @ + 1, !.analysis = None]

MayBindReference(s) == s.status = "action_required"

ReferenceBound(s) ==
  [Reopened(s, IF s.terms THEN "decision" ELSE "analysis") EXCEPT !.bound = TRUE]

\* failure.lastSafePhase is the phase at the failure; every retryable failure
\* is recorded while the analysis is being built.
MayRetry(s) == s.status = "failed" /\ s.retryable

RetryAuthorized(s) == [Reopened(s, "analysis") EXCEPT !.revision = @ + 1]

----------------------------------------------------------------------------
\* A moderator.

Ruling(s, outcome) ==
  [outcome |-> outcome, creation |-> s.creation, lyrics |-> s.analysis]

MayApprove(s) == s.status = "manual_review" /\ s.analysis # None

Approved(s) ==
  [s EXCEPT !.decision = Ruling(s, "allow"), !.status = "processing", !.phase = "publish"]

MayModeratorBlock(s) == s.status = "manual_review"

Stopped(s) == [s EXCEPT !.status = "blocked", !.phase = None]

----------------------------------------------------------------------------
\* The workflow.

\* Mutant: the evidence is taken for whatever lyrics there are by now.
MayAnalyse_AnyLyrics(s, lyrics) == ~Closed(s)

\* An analysis is fenced by the lyrics it read; the status is not looked at,
\* beyond that the submission is not closed.
MayAnalyse(s, lyrics) == ~Closed(s) /\ s.lyrics = lyrics

Analysed(s, lyrics) ==
  [s EXCEPT !.analysis = lyrics, !.decision = None, !.status = "processing",
            !.phase = IF s.terms THEN "decision" ELSE "analysis", !.retryable = FALSE]

MayReview(s) == s.status = "processing" /\ s.phase \in {"analysis", "decision"}

ReviewRequired(s) == [s EXCEPT !.status = "manual_review", !.phase = None]

MayRule(s, creation) ==
  /\ s.creation = creation
  /\ s.status = "processing" /\ s.phase = "decision"

Ruled(s, outcome) ==
  LET r == Ruling(s, outcome)
      kept == [s EXCEPT !.ruled = @ \cup {r}]
  IN CASE outcome = "allow" -> [kept EXCEPT !.decision = r, !.phase = "publish"]
       [] outcome = "hold" -> [ReviewRequired(kept) EXCEPT !.decision = r]
       [] outcome = "block" -> Stopped(kept)
       [] OTHER -> [kept EXCEPT !.status = "action_required", !.phase = None,
                                !.decision = None]

MayPublish(s, creation) ==
  /\ s.creation = creation
  /\ s.status = "processing" /\ s.phase = "publish"
  /\ s.decision # None /\ s.decision.outcome = "allow"

\* With lyrics the post still waits for its alignment, under the next revision.
Published(s) ==
  [s EXCEPT !.status = "published", !.phase = None, !.revision = @ + 1,
            !.aligning = s.lyrics > 0]

MayAlign(s, revision) == s.aligning /\ s.revision = revision

Aligned(s) == [s EXCEPT !.aligning = FALSE]

MayFail(s, creation) == s.creation = creation /\ s.status = "processing"

Failed(s, retryable) ==
  [s EXCEPT !.status = "failed", !.phase = None, !.decision = None, !.retryable = retryable]

Replaced(s) == [s EXCEPT !.revision = @ + 1, !.replaced = @ + 1]
==============================================================================
