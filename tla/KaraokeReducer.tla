---------------------------- MODULE KaraokeReducer ----------------------------
(***************************************************************************)
(* The pure reducer of a karaoke session                                   *)
(* (application/src/karaoke-runtime/session.ts).  A line of the song is    *)
(* named by the song time it ends at.  The score of a line is abstracted   *)
(* to the reason it was finalized for: "covered" stands for both           *)
(* "line_end" and "asr_final", the two reasons given to a line that the    *)
(* recognized audio covers; the recognized words themselves are left out.  *)
(* Every operator returns the next session state; Asks gives the lines of  *)
(* the "request_stt_commit" effect.                                        *)
(***************************************************************************)
EXTENDS Naturals, FiniteSets

CONSTANTS
  Lines,     \* the end times of the lines of the song
  Grace      \* KARAOKE_FINALIZE_GRACE_MS, in song time

ASSUME ReducerAssumption == Lines \subseteq Nat /\ Grace \in Nat

Statuses == {"idle", "recording", "paused", "finalizing", "finalized", "aborted"}
Reasons  == {"covered", "timeout", "provider_failed", "session_end"}

NoCommit == [id |-> 0, gen |-> 0, frontier |-> 0, lines |-> {}]

SessionStates ==
  [status    : Statuses,
   time      : Nat,                          \* currentTimeMs
   score     : [Lines -> Reasons \cup {"none"}],
   watermark : Nat,                          \* sttWatermarkMs
   pending   : [id : Nat, gen : Nat, frontier : Nat, lines : SUBSET Lines]]

InitialSession ==
  [status |-> "idle", time |-> 0, score |-> [l \in Lines |-> "none"],
   watermark |-> 0, pending |-> NoCommit]

Terminal(s) == s.status \in {"finalized", "aborted"}

Later(a, b)   == IF a >= b THEN a ELSE b
Earlier(a, b) == IF a <= b THEN a ELSE b

-----------------------------------------------------------------------------
(* The second gate: a due line is finalized when the watermark covers it,  *)
(* or when the song went Grace past its end without coverage.              *)
Due(s) == {l \in Lines : l <= s.time /\ s.score[l] = "none"}

GateReason(s, l) ==
  IF l <= s.watermark THEN "covered"
  ELSE IF s.time - l >= Grace THEN "timeout" ELSE "none"

FinalizeDueLines(s) ==
  [s EXCEPT !.score = [l \in Lines |-> IF l \in Due(s) THEN GateReason(s, l)
                                                       ELSE s.score[l]]]

(* What finalizeDueLines left undecided is what it asks a commit for. *)
Asks(s) == IF Terminal(s) THEN {} ELSE Due(s)

-----------------------------------------------------------------------------
Start(s, t) ==
  IF Terminal(s) THEN s ELSE [s EXCEPT !.time = t, !.status = "recording"]

SyncStatus(s, playing) ==
  CASE s.status = "finalizing"                -> "finalizing"
    [] playing /\ s.status # "idle"           -> "recording"
    [] ~playing /\ s.status = "recording"     -> "paused"
    [] OTHER                                  -> s.status

PlaybackSync(s, t, playing) ==
  LET synced == [s EXCEPT !.time = t, !.status = SyncStatus(s, playing)]
  IN  IF Terminal(s) THEN s
      ELSE IF playing THEN FinalizeDueLines(synced) ELSE synced

Pause(s, t) ==
  IF Terminal(s) THEN s
  ELSE [s EXCEPT !.time = t,
                 !.status = IF @ = "recording" THEN "paused" ELSE @]

Resume(s, t) ==
  IF Terminal(s) THEN s
  ELSE [s EXCEPT !.time = t,
                 !.status = IF @ \in {"paused", "idle"} THEN "recording" ELSE @]

(* A seek releases the lines after it and rewinds the watermark; a commit *)
(* whose frontier lies after it is dropped.                               *)
Seek(s, t) ==
  IF Terminal(s) THEN s
  ELSE [s EXCEPT !.time = t,
                 !.score = [l \in Lines |-> IF l <= t THEN s.score[l] ELSE "none"],
                 !.watermark = Earlier(@, t),
                 !.pending = IF @.frontier > t THEN NoCommit ELSE @]

Matches_AnyPending(s, ack) == s.pending # NoCommit

Matches(s, ack) == /\ s.pending # NoCommit
                   /\ s.pending.id = ack.id
                   /\ s.pending.gen = ack.gen

(* stt_final with commit metadata *)
Acknowledged(s, ack) ==
  IF Terminal(s) \/ ~Matches(s, ack) THEN s
  ELSE FinalizeDueLines([s EXCEPT !.pending = NoCommit,
                                  !.watermark = Later(@, s.pending.frontier)])

(* stt_final without commit metadata: the watermark stays *)
UncorrelatedFinal(s) == IF Terminal(s) THEN s ELSE FinalizeDueLines(s)

LineBoundary(s, t) ==
  IF Terminal(s) THEN s ELSE FinalizeDueLines([s EXCEPT !.time = t])

Summarized(s) ==
  [s EXCEPT !.status = "finalized",
            !.score = [l \in Lines |-> IF s.score[l] = "none" THEN "session_end"
                                                             ELSE s.score[l]]]

Finish(s, t) ==
  LET finishing == [s EXCEPT !.time = t, !.status = "finalizing"]
  IN  IF Terminal(s) THEN s
      ELSE IF s.pending # NoCommit THEN finishing ELSE Summarized(finishing)

CommitSent(s, commit) == IF Terminal(s) THEN s ELSE [s EXCEPT !.pending = commit]

(* commit_failed: the lines are those of the matched pending commit *)
CommitFailed(s, commit, reason) ==
  IF Terminal(s) \/ ~Matches(s, commit) THEN s
  ELSE [s EXCEPT !.pending = NoCommit,
                 !.score = [l \in Lines |->
                              IF l \in s.pending.lines /\ s.score[l] = "none"
                              THEN reason ELSE s.score[l]]]

Abort(s) == IF Terminal(s) THEN s ELSE [s EXCEPT !.status = "aborted"]
=============================================================================
