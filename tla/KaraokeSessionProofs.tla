------------------------ MODULE KaraokeSessionProofs ------------------------
(***************************************************************************)
(* A karaoke session holds one provider stream, scores a line only for     *)
(* audio whose commit was answered, and never leaves a commit to nobody.   *)
(***************************************************************************)
EXTENDS KaraokeSession, SequenceTheorems, FiniteSetTheorems, WellFoundedInduction, TLAPS

-----------------------------------------------------------------------------
(* Numbers.                                                                *)

Below == {p \in Nat \X Nat : p[1] < p[2]}

LEMMA BelowIsWellFounded == IsWellFoundedOn(Below, Nat)
<1>1. Below = OpToRel(<, Nat)  BY Zenon DEF Below, OpToRel
<1> QED BY <1>1, NatLessThanWellFounded

(* A set of numbers that is not empty has a least one. *)
LEMMA LeastOf ==
  ASSUME NEW T, T \subseteq Nat, T # {}  PROVE  \E x \in T : \A y \in T : x <= y
<1>1. PICK x \in T : \A y \in T : <<y, x>> \notin Below
  BY BelowIsWellFounded, WFMin
<1>2. ASSUME NEW y \in T PROVE x <= y
  <2>1. <<y, x>> \in Nat \X Nat /\ <<y, x>> \notin Below  BY <1>1
  <2>2. ~(y < x)  BY <2>1 DEF Below
  <2> QED BY <2>2
<1> QED BY <1>2

-----------------------------------------------------------------------------
(* The reducer: every operator keeps the session sound.                    *)

Scores == Reasons \cup {"none"}

(* Nothing is left to decide in a session that was summed up. *)
Whole(s) ==
  s.status = "finalized" => s.pending = NoCommit /\ \A l \in Lines : s.score[l] # "none"

Sound(s) == s \in SessionStates /\ Whole(s)

(* A step that says nothing about commits; a session that is over stays as it is. *)
Plain(s, t) ==
  /\ Sound(t) /\ t.pending = s.pending /\ t.watermark = s.watermark
  /\ Terminal(s) => t = s

LEMMA NoCommitTyped ==
  NoCommit \in [id : Nat, gen : Nat, frontier : Nat, lines : SUBSET Lines]
BY DEF NoCommit

LEMMA SessionFields ==
  ASSUME NEW s \in SessionStates
  PROVE  /\ s.status \in Statuses /\ s.time \in Nat /\ s.watermark \in Nat
         /\ s.score \in [Lines -> Scores]
         /\ s.pending \in [id : Nat, gen : Nat, frontier : Nat, lines : SUBSET Lines]
BY DEF SessionStates, Scores

(* A due line that the watermark covers, or that is too old, is scored; a  *)
(* line that has a score keeps it.                                          *)
LEMMA FinalizeSound ==
  ASSUME NEW s \in SessionStates
  PROVE  LET t == FinalizeDueLines(s)
         IN  /\ t \in SessionStates /\ t.status = s.status /\ t.time = s.time
             /\ t.watermark = s.watermark /\ t.pending = s.pending
             /\ \A l \in Lines : s.score[l] # "none" => t.score[l] # "none"
<1> DEFINE score == [l \in Lines |-> IF l \in Due(s) THEN GateReason(s, l) ELSE s.score[l]]
<1>1. \A l \in Lines : GateReason(s, l) \in Scores
  BY DEF GateReason, Scores, Reasons
<1>2. score \in [Lines -> Scores]  BY <1>1, SessionFields
<1>3. \A l \in Lines : s.score[l] # "none" => score[l] # "none"
  BY DEF Due
<1>4. FinalizeDueLines(s) = [s EXCEPT !.score = score]  BY DEF FinalizeDueLines
<1> HIDE DEF score
<1> QED BY <1>2, <1>3, <1>4 DEF SessionStates, Scores

LEMMA StartPlain ==
  ASSUME NEW s, Sound(s), NEW t \in Nat  PROVE  Plain(s, Start(s, t))
BY DEF Sound, Whole, Plain, Start, Terminal, SessionStates, Statuses

LEMMA PausePlain ==
  ASSUME NEW s, Sound(s), NEW t \in Nat
  PROVE  Plain(s, Pause(s, t)) /\ Plain(s, Resume(s, t))
<1>1. Plain(s, Pause(s, t))
  BY DEF Sound, Whole, Plain, Pause, Terminal, SessionStates, Statuses
<1>2. Plain(s, Resume(s, t))
  BY DEF Sound, Whole, Plain, Resume, Terminal, SessionStates, Statuses
<1> QED BY <1>1, <1>2

LEMMA FinalizedPlain ==
  ASSUME NEW s, Sound(s), NEW u \in SessionStates, ~Terminal(s), u.status # "finalized",
         u.pending = s.pending, u.watermark = s.watermark
  PROVE  Plain(s, u) /\ Plain(s, FinalizeDueLines(u))
BY FinalizeSound DEF Plain, Sound, Whole

LEMMA SyncPlain ==
  ASSUME NEW s, Sound(s), NEW t \in Nat, NEW playing \in BOOLEAN
  PROVE  Plain(s, PlaybackSync(s, t, playing))
<1> DEFINE synced == [s EXCEPT !.time = t, !.status = SyncStatus(s, playing)]
<1>1. CASE Terminal(s)  BY <1>1 DEF PlaybackSync, Plain
<1>2. CASE ~Terminal(s)
  <2>1. SyncStatus(s, playing) \in Statuses \ {"finalized"}
    BY <1>2 DEF SyncStatus, Sound, SessionStates, Statuses, Terminal
  <2>2. /\ synced \in SessionStates /\ synced.status # "finalized"
        /\ synced.pending = s.pending /\ synced.watermark = s.watermark
    BY <2>1 DEF Sound, SessionStates
  <2>3. Plain(s, synced) /\ Plain(s, FinalizeDueLines(synced))
    BY <1>2, <2>2, FinalizedPlain
  <2> QED BY <1>2, <2>3 DEF PlaybackSync
<1> QED BY <1>1, <1>2

LEMMA BoundaryPlain ==
  ASSUME NEW s, Sound(s), NEW t \in Nat  PROVE  Plain(s, LineBoundary(s, t))
<1>1. CASE Terminal(s)  BY <1>1 DEF LineBoundary, Plain
<1>2. CASE ~Terminal(s)
  <2> DEFINE u == [s EXCEPT !.time = t]
  <2>1. /\ u \in SessionStates /\ u.status # "finalized"
        /\ u.pending = s.pending /\ u.watermark = s.watermark
    BY <1>2 DEF Sound, SessionStates, Terminal
  <2> QED BY <1>2, <2>1, FinalizedPlain DEF LineBoundary
<1> QED BY <1>1, <1>2

LEMMA UncorrelatedPlain ==
  ASSUME NEW s, Sound(s)  PROVE  Plain(s, UncorrelatedFinal(s))
<1>1. CASE Terminal(s)  BY <1>1 DEF UncorrelatedFinal, Plain
<1>2. CASE ~Terminal(s)
  BY <1>2, FinalizedPlain DEF UncorrelatedFinal, Sound, Terminal
<1> QED BY <1>1, <1>2

LEMMA AbortPlain ==
  ASSUME NEW s, Sound(s)  PROVE  Plain(s, Abort(s)) /\ Terminal(Abort(s))
BY DEF Sound, Whole, Plain, Abort, Terminal, SessionStates, Statuses

(* A seek drops a commit only for audio after it. *)
LEMMA SeekSound ==
  ASSUME NEW s, Sound(s), NEW t \in Nat
  PROVE  LET u == Seek(s, t)
         IN  /\ Sound(u) /\ u.watermark <= s.watermark /\ (Terminal(s) => u = s)
             /\ u.pending # s.pending => u.pending = NoCommit /\ u.time < s.pending.frontier
<1>1. CASE Terminal(s)  BY <1>1, SessionFields DEF Seek, Sound
<1>2. CASE ~Terminal(s)
  <2> DEFINE score == [l \in Lines |-> IF l <= t THEN s.score[l] ELSE "none"]
             watermark == Earlier(s.watermark, t)
             pending == IF s.pending.frontier > t THEN NoCommit ELSE s.pending
  <2>1. s \in SessionStates /\ s.status \notin {"finalized", "aborted"}
    BY <1>2 DEF Sound, Terminal
  <2>2. score \in [Lines -> Scores]  BY <2>1, SessionFields DEF Scores
  <2>3. watermark \in Nat /\ watermark <= s.watermark
    BY <2>1, SessionFields DEF Earlier
  <2>4. /\ pending \in [id : Nat, gen : Nat, frontier : Nat, lines : SUBSET Lines]
        /\ pending # s.pending => pending = NoCommit /\ t < s.pending.frontier
    BY <2>1, SessionFields, NoCommitTyped
  <2>5. Seek(s, t) = [s EXCEPT !.time = t, !.score = score, !.watermark = watermark,
                               !.pending = pending]
    BY <1>2 DEF Seek
  <2> HIDE DEF score, watermark, pending
  <2>6. /\ Seek(s, t) \in SessionStates /\ Seek(s, t).status = s.status
        /\ Seek(s, t).watermark = watermark /\ Seek(s, t).pending = pending
        /\ Seek(s, t).time = t
    BY <2>1, <2>2, <2>3, <2>4, <2>5 DEF SessionStates, Scores
  <2> QED BY <1>2, <2>1, <2>3, <2>4, <2>6 DEF Sound, Whole
<1> QED BY <1>1, <1>2

(* An answer moves the watermark, and takes the commit away, only when it  *)
(* is the answer of the commit that is pending.                            *)
LEMMA AcknowledgedSound ==
  ASSUME NEW s, Sound(s), NEW ack
  PROVE  LET u == Acknowledged(s, ack)
         IN  /\ Sound(u) /\ (Terminal(s) \/ ~Matches(s, ack) => u = s)
             /\ ~Terminal(s) /\ Matches(s, ack) => u.pending = NoCommit /\ ~Terminal(u)
<1>1. CASE Terminal(s) \/ ~Matches(s, ack)  BY <1>1 DEF Acknowledged
<1>2. CASE ~(Terminal(s) \/ ~Matches(s, ack))
  <2> DEFINE watermark == Later(s.watermark, s.pending.frontier)
             v == [s EXCEPT !.pending = NoCommit, !.watermark = watermark]
  <2>1. s \in SessionStates /\ s.status \notin {"finalized", "aborted"}
    BY <1>2 DEF Sound, Terminal
  <2>2. watermark \in Nat  BY <2>1, SessionFields DEF Later
  <2>3. Acknowledged(s, ack) = FinalizeDueLines(v)  BY <1>2 DEF Acknowledged
  <2> HIDE DEF watermark
  <2>4. v \in SessionStates /\ v.status = s.status /\ v.pending = NoCommit
    BY <2>1, <2>2, NoCommitTyped DEF SessionStates
  <2> QED BY <1>2, <2>1, <2>3, <2>4, FinalizeSound DEF Sound, Whole, Terminal
<1> QED BY <1>1, <1>2

LEMMA FailedSound ==
  ASSUME NEW s, Sound(s), NEW commit, NEW reason \in Reasons
  PROVE  LET u == CommitFailed(s, commit, reason)
         IN  /\ Sound(u) /\ u.watermark = s.watermark /\ u.status = s.status
             /\ Terminal(s) \/ ~Matches(s, commit) => u = s
             /\ ~Terminal(s) /\ Matches(s, commit) => u.pending = NoCommit
<1>1. CASE Terminal(s) \/ ~Matches(s, commit)  BY <1>1 DEF CommitFailed
<1>2. CASE ~(Terminal(s) \/ ~Matches(s, commit))
  <2> DEFINE score == [l \in Lines |-> IF l \in s.pending.lines /\ s.score[l] = "none"
                                       THEN reason ELSE s.score[l]]
  <2>1. s \in SessionStates /\ s.status \notin {"finalized", "aborted"}
    BY <1>2 DEF Sound, Terminal
  <2>2. score \in [Lines -> Scores]  BY <2>1, SessionFields DEF Scores
  <2>3. CommitFailed(s, commit, reason) = [s EXCEPT !.pending = NoCommit, !.score = score]
    BY <1>2 DEF CommitFailed
  <2> HIDE DEF score
  <2>4. /\ CommitFailed(s, commit, reason) \in SessionStates
        /\ CommitFailed(s, commit, reason).status = s.status
        /\ CommitFailed(s, commit, reason).watermark = s.watermark
        /\ CommitFailed(s, commit, reason).pending = NoCommit
    BY <2>1, <2>2, <2>3, NoCommitTyped DEF SessionStates, Scores
  <2> QED BY <1>2, <2>1, <2>4 DEF Sound, Whole
<1> QED BY <1>1, <1>2

(* A finish sums the session up, unless a commit is still pending. *)
LEMMA FinishSound ==
  ASSUME NEW s, Sound(s), NEW t \in Nat
  PROVE  /\ Plain(s, Finish(s, t))
         /\ s.pending # NoCommit => Terminal(Finish(s, t)) = Terminal(s)
         /\ s.pending = NoCommit => Terminal(Finish(s, t))
         /\ ~Terminal(s) /\ s.pending = NoCommit => Finish(s, t).status = "finalized"
<1>1. CASE Terminal(s)  BY <1>1 DEF Finish, Plain
<1>2. CASE ~Terminal(s)
  <2> DEFINE finishing == [s EXCEPT !.time = t, !.status = "finalizing"]
             score == [l \in Lines |-> IF finishing.score[l] = "none" THEN "session_end"
                                                                    ELSE finishing.score[l]]
  <2>1. s \in SessionStates  BY DEF Sound
  <2>2. /\ finishing \in SessionStates /\ finishing.status = "finalizing"
        /\ finishing.pending = s.pending /\ finishing.watermark = s.watermark
    BY <2>1 DEF SessionStates, Statuses
  <2>3. CASE s.pending # NoCommit
    <3>1. Finish(s, t) = finishing  BY <1>2, <2>3 DEF Finish
    <3> HIDE DEF finishing
    <3> QED BY <1>2, <2>2, <2>3, <3>1 DEF Plain, Sound, Whole, Terminal
  <2>4. CASE s.pending = NoCommit
    <3>1. Finish(s, t) = [finishing EXCEPT !.status = "finalized", !.score = score]
      BY <1>2, <2>4 DEF Finish, Summarized
    <3> HIDE DEF finishing
    <3>2. score \in [Lines -> Scores] /\ \A l \in Lines : score[l] # "none"
      BY <2>2, SessionFields DEF Scores, Reasons
    <3> HIDE DEF score
    <3>3. /\ Finish(s, t) \in SessionStates /\ Finish(s, t).status = "finalized"
          /\ Finish(s, t).pending = s.pending /\ Finish(s, t).watermark = s.watermark
          /\ Finish(s, t).score = score
      BY <2>2, <3>1, <3>2 DEF SessionStates, Statuses, Scores
    <3> QED BY <1>2, <2>4, <3>2, <3>3 DEF Plain, Sound, Whole, Terminal
  <2> QED BY <2>3, <2>4
<1> QED BY <1>1, <1>2

(* What a commit that is sent sets. *)
LEMMA SentSound ==
  ASSUME NEW s, Sound(s), ~Terminal(s),
         NEW commit \in [id : Nat, gen : Nat, frontier : Nat, lines : SUBSET Lines]
  PROVE  LET u == CommitSent(s, commit)
         IN  /\ Sound(u) /\ u.pending = commit /\ u.watermark = s.watermark
             /\ u.status = s.status
BY DEF CommitSent, Sound, Whole, Terminal, SessionStates

-----------------------------------------------------------------------------
(* What the variables hold.                                                *)

Handles == [id : Nat, gen : Nat, frontier : Nat, lines : {{}}]

Tasks ==
  {ScheduleTask(lines) : lines \in SUBSET Lines}
  \cup {MessageTask(seq, ack) : seq \in Nat, ack \in Handles}
  \cup {TimeoutTask(ack) : ack \in Handles}
  \cup {FinishTask(t) : t \in Times}
  \cup {ReconnectTask, TerminalTask}

Outcomes == {"none", "completed", "failed", "abandoned"}

SessionTyped == Sound(hs) /\ (outbox = "completed" => hs.status = "finalized")

(* Audio counts towards a commit only while one is within the bound. *)
AdapterTyped ==
  /\ stream \in Streams
  /\ attempt \in 0..MaxAttempts /\ commits \in 0..MaxCommits
  /\ timer \in Handles /\ (timer = NoCommit \/ timer.id \in 1..commits)
  /\ buffer \in Times /\ (buffer # 0 => Reconnecting)
  /\ stream.audio \/ buffer # 0 => commits < MaxCommits

HostTyped ==
  /\ {up, started, finished} \subseteq BOOLEAN
  /\ outbox \in Outcomes /\ draining \in {"no", "chain", "client"}
  /\ lastStt \in Nat /\ (finishAt = {} \/ \E t \in Times : finishAt = {t})

ProviderTyped ==
  /\ dials \in Nat /\ dial \in [Dialers -> Nat] /\ \A d \in Dialers : dial[d] <= dials
  /\ live \subseteq 1..dials /\ owed \subseteq (1..dials) \X (1..commits)
  /\ answered \subseteq 1..commits /\ fired \subseteq 1..commits
  /\ drops \in 0..MaxDrops /\ evictions \in 0..MaxEvictions

Typed ==
  /\ SessionTyped /\ AdapterTyped /\ HostTyped /\ ProviderTyped
  /\ chain \in Seq(Tasks)

LEMMA TaskIsTyped ==
  ASSUME NEW k \in Tasks
  PROVE  /\ k.kind \in {"schedule", "message", "timeout", "finish", "reconnect", "terminal"}
         /\ k.kind = "schedule" => k.lines \in SUBSET Lines
         /\ k.kind = "message" => k.seq \in Nat /\ k.ack \in Handles
         /\ k.kind = "timeout" => k.ack \in Handles
         /\ k.kind = "finish" => k.time \in Times
<1>1. CASE k \in {ScheduleTask(lines) : lines \in SUBSET Lines}  BY <1>1 DEF ScheduleTask
<1>2. CASE k \in {MessageTask(seq, ack) : seq \in Nat, ack \in Handles}
  BY <1>2 DEF MessageTask
<1>3. CASE k \in {TimeoutTask(ack) : ack \in Handles}  BY <1>3 DEF TimeoutTask
<1>4. CASE k \in {FinishTask(t) : t \in Times}  BY <1>4 DEF FinishTask
<1>5. CASE k \in {ReconnectTask, TerminalTask}  BY <1>5 DEF ReconnectTask, TerminalTask
<1> QED BY <1>1, <1>2, <1>3, <1>4, <1>5 DEF Tasks

LEMMA HeadIsATask ==
  ASSUME chain \in Seq(Tasks), chain # <<>>
  PROVE  Head(chain) \in Tasks /\ Tail(chain) \in Seq(Tasks)
OBVIOUS

LEMMA AskIsTyped ==
  ASSUME NEW s  PROVE  AskTask(s) \in Seq(Tasks)
<1>1. Asks(s) \in SUBSET Lines  BY DEF Asks, Due
<1>2. ScheduleTask(Asks(s)) \in Tasks  BY <1>1 DEF Tasks
<1> QED BY <1>2 DEF AskTask

LEMMA TasksExist ==
  /\ \A seq \in Nat : \A ack \in Handles : MessageTask(seq, ack) \in Tasks
  /\ \A ack \in Handles : TimeoutTask(ack) \in Tasks
  /\ \A t \in Times : FinishTask(t) \in Tasks
  /\ ReconnectTask \in Tasks /\ TerminalTask \in Tasks
BY DEF Tasks

LEMMA NoCommitIsAHandle == NoCommit \in Handles
BY DEF NoCommit, Handles

(* The adapter's methods. *)
LEMMA StreamFields ==
  ASSUME NEW a \in Streams
  PROVE  /\ a.gen \in Nat /\ a.sock \in Nat /\ a.closed \in BOOLEAN /\ a.closing \in BOOLEAN
         /\ a.emitting \in BOOLEAN /\ a.inFlight \in Handles /\ a.audio \in BOOLEAN
         /\ a.frontier \in Nat /\ a.seq \in Nat
BY DEF Streams, Handles

LEMMA AdapterMethods ==
  ASSUME NEW a \in Streams, NEW n \in Nat
  PROVE  /\ NewAdapter \in Streams
         /\ \A seq \in Nat : Fresh(a, n, seq) \in Streams
         /\ Heard(a, n) \in Streams /\ Handle(a, n) \in Handles /\ Committed(a, n) \in Streams
         /\ TakenFor(a) \in Handles /\ Answered(a) \in Streams
         /\ Draining(a) \in Streams /\ Shut(a) \in Streams
         /\ Dropped(a) \in Streams /\ Terminated(a) \in Streams
         /\ [a EXCEPT !.sock = n] \in Streams
<1> USE NoCommitIsAHandle DEF Handles
<1>1. NewAdapter \in Streams /\ \A seq \in Nat : Fresh(a, n, seq) \in Streams
  BY StreamFields DEF NewAdapter, Fresh, Streams
<1>2. Heard(a, n) \in Streams
  <2>1. Later(a.frontier, n) \in Nat  BY StreamFields DEF Later
  <2> QED BY <2>1 DEF Heard, Streams
<1>3. Handle(a, n) \in Handles  BY StreamFields DEF Handle
<1>4. Committed(a, n) \in Streams  BY <1>3 DEF Committed, Streams
<1>5. TakenFor(a) \in Handles  BY StreamFields DEF TakenFor
<1>6. Answered(a) \in Streams
  <2>1. a.seq + 1 \in Nat  BY StreamFields
  <2> QED BY <2>1 DEF Answered, Streams
<1>7. Draining(a) \in Streams /\ Shut(a) \in Streams  BY DEF Draining, Shut, Streams
<1>8. Dropped(a) \in Streams /\ Terminated(a) \in Streams /\ [a EXCEPT !.sock = n] \in Streams
  BY DEF Dropped, Terminated, Streams
<1> QED BY <1>1, <1>2, <1>3, <1>4, <1>5, <1>6, <1>7, <1>8

(* Only Heard gives audio; what is new or committed has none. *)
LEMMA AudioMoves ==
  ASSUME NEW a \in Streams, NEW n
  PROVE  /\ ~NewAdapter.audio /\ (\A seq : ~Fresh(a, n, seq).audio) /\ ~Committed(a, n).audio
         /\ Answered(a).audio = a.audio /\ Draining(a).audio = a.audio
         /\ Shut(a).audio = a.audio /\ Dropped(a).audio = a.audio
         /\ Terminated(a).audio = a.audio /\ [a EXCEPT !.sock = n].audio = a.audio
BY DEF NewAdapter, Fresh, Committed, Answered, Draining, Shut, Dropped, Terminated, Streams

(* What closing the stream may do. *)
ClosingMove(who, reason) ==
  /\ stream' \in {stream, Draining(stream), Shut(stream)}
  /\ live' \in {live, live \ {stream.sock}}
  /\ started' \in {started, FALSE} /\ draining' \in {draining, who}
  /\ outbox' \in {outbox, reason}

LEMMA ClosingMoves ==
  ASSUME NEW who, NEW reason, CloseStream(who, reason) \/ KeepStream
  PROVE  ClosingMove(who, reason)
<1>1. CASE KeepStream  BY <1>1 DEF KeepStream, ClosingMove
<1>2. CASE CloseStream(who, reason)  BY <1>2 DEF CloseStream, ClosingMove
<1> QED BY <1>1, <1>2

LEMMA ResolveMoves ==
  ASSUME NEW s, Sound(s), HostTyped, Resolve(s)
  PROVE  /\ Sound(hs') /\ hs'.pending = s.pending /\ hs'.watermark = s.watermark
         /\ Terminal(s) => hs' = s
         /\ (outbox' # outbox) => hs'.status = "finalized"
         /\ ClosingMove("chain", "completed")
         /\ finishAt' \in {finishAt, {}}
         /\ draining' # draining \/ started' # started \/ stream' # stream \/ live' # live
              => Terminal(hs')
<1> DEFINE finishing == finishAt # {} /\ s.pending = NoCommit
<1>1. CASE finishing
  <2>1. PICK t \in Times : finishAt = {t}  BY <1>1 DEF HostTyped
  <2>2. (CHOOSE u \in finishAt : TRUE) = t /\ t \in Nat  BY <2>1 DEF Times
  <2>3. hs' = Finish(s, t) /\ finishAt' = {}  BY <1>1, <2>2 DEF Resolve
  <2>4. /\ Plain(s, hs') /\ Terminal(hs')
        /\ ~Terminal(s) => hs'.status = "finalized"
    BY <1>1, <2>2, <2>3, FinishSound
  <2>5. IF ~Terminal(s) THEN CloseStream("chain", "completed") ELSE KeepStream
    BY <1>1 DEF Resolve
  <2>6. ClosingMove("chain", "completed") /\ (outbox' # outbox => ~Terminal(s))
    BY <2>5, ClosingMoves DEF KeepStream
  <2> QED BY <2>3, <2>4, <2>6 DEF Plain
<1>2. CASE ~finishing
  <2>1. hs' = s /\ finishAt' = finishAt /\ KeepStream  BY <1>2 DEF Resolve
  <2> QED BY <2>1, ClosingMoves DEF KeepStream
<1> QED BY <1>1, <1>2

-----------------------------------------------------------------------------
(* The session, action by action.                                          *)

(* A session that is over stays as it is, and only a finalized one becomes *)
(* completed.                                                              *)
SessionMove ==
  /\ Sound(hs') /\ (Terminal(hs) => hs' = hs)
  /\ outbox' = "completed" => outbox = "completed" \/ hs'.status = "finalized"
  /\ outbox # "none" => hs' = hs

LEMMA PlainMove ==
  ASSUME Plain(hs, hs'), outbox = "none", outbox' # "completed"
  PROVE  SessionMove
BY DEF Plain, SessionMove

LEMMA OrphanedSound ==
  ASSUME NEW s, Sound(s), NEW gen
  PROVE  LET u == Orphaned(s, gen)
         IN  /\ Sound(u) /\ (Terminal(s) => u = s)
             /\ u.watermark = s.watermark /\ u.status = s.status
             /\ u.pending # s.pending => u.pending = NoCommit /\ s.pending.gen # gen
             /\ ~Terminal(s) /\ s.pending.gen # gen => u.pending = NoCommit
<1>1. CASE s.pending = NoCommit \/ s.pending.gen = gen
  BY <1>1 DEF Orphaned
<1>2. CASE ~(s.pending = NoCommit \/ s.pending.gen = gen)
  <2>1. Orphaned(s, gen) = CommitFailed(s, s.pending, "provider_failed")
    BY <1>2 DEF Orphaned
  <2>2. Matches(s, s.pending)  BY <1>2 DEF Matches
  <2>3. "provider_failed" \in Reasons  BY DEF Reasons
  <2> QED BY <1>2, <2>1, <2>2, <2>3, FailedSound
<1> QED BY <1>1, <1>2

LEMMA ReducedSound ==
  ASSUME Sound(hs), NEW m
  PROVE  Sound(Reduced(m)) /\ (Terminal(hs) => Reduced(m) = hs)
BY AcknowledgedSound, UncorrelatedPlain DEF Reduced, Plain

LEMMA SentTyped ==
  ASSUME Typed, NEW lines \in SUBSET Lines, NEW commit \in Handles
  PROVE  [commit EXCEPT !.lines = lines]
           \in [id : Nat, gen : Nat, frontier : Nat, lines : SUBSET Lines]
BY DEF Handles

LEMMA CommitIsTyped ==
  ASSUME Typed
  PROVE  Handle(stream, commits + 1) \in Handles /\ commits + 1 \in Nat
<1>1. commits + 1 \in Nat /\ stream \in Streams
  BY SessionAssumption DEF Typed, AdapterTyped
<1> QED BY <1>1, AdapterMethods

(* Of what the client sends only a seek concerns commits. *)
LEMMA ClientPlain ==
  ASSUME Typed, Client  PROVE  Plain(hs, hs') \/ \E t \in Times : ClientSeek(t)
<1>1. Sound(hs) /\ Times \subseteq Nat  BY DEF Typed, SessionTyped, Times
<1>2. ASSUME NEW t \in Times,
             \/ ClientStart(t) \/ ClientPause(t) \/ ClientResume(t) \/ ClientFinish(t)
             \/ ClientBoundary(t) \/ AudioFrame(t)
      PROVE  Plain(hs, hs')
  <2>1. Plain(hs, hs)  BY <1>1 DEF Plain
  <2>2. CASE ClientStart(t)  BY <1>1, <2>2, StartPlain DEF ClientStart
  <2>3. CASE ClientPause(t)  BY <1>1, <2>3, PausePlain DEF ClientPause
  <2>4. CASE ClientResume(t)  BY <1>1, <2>4, PausePlain DEF ClientResume
  <2>5. CASE ClientBoundary(t)  BY <1>1, <2>5, BoundaryPlain DEF ClientBoundary
  <2>6. CASE ClientFinish(t) \/ AudioFrame(t)
    BY <2>1, <2>6 DEF ClientFinish, AudioFrame
  <2> QED BY <1>2, <2>2, <2>3, <2>4, <2>5, <2>6
<1>3. ASSUME NEW t \in Times, NEW playing \in BOOLEAN, ClientSync(t, playing)
      PROVE  Plain(hs, hs')
  BY <1>1, <1>3, SyncPlain DEF ClientSync
<1>4. CASE ClientAbort  BY <1>1, <1>4, AbortPlain DEF ClientAbort
<1> QED BY <1>2, <1>3, <1>4 DEF Client

LEMMA ClientMovesSession ==
  ASSUME Typed, Client  PROVE  SessionMove
<1>1. Sound(hs) /\ Times \subseteq Nat  BY DEF Typed, SessionTyped, Times
<1>2. outbox = "none"
  BY DEF Client, ClientStart, ClientPause, ClientResume, ClientSeek, ClientFinish,
         ClientBoundary, ClientSync, ClientAbort, AudioFrame, ClientMay, Quiet, Running
<1>3. outbox' = outbox
  <2>1. CASE ClientAbort  BY <1>2, <2>1, ClosingMoves DEF ClientAbort, ClosingMove
  <2>2. CASE ~ClientAbort
    BY <2>2 DEF Client, ClientStart, ClientPause, ClientResume, ClientSeek, ClientFinish,
                ClientBoundary, ClientSync, AudioFrame, durable
  <2> QED BY <2>1, <2>2
<1>4. ASSUME NEW t \in Times, ClientSeek(t)
      PROVE  SessionMove
  BY <1>1, <1>2, <1>3, <1>4, SeekSound DEF ClientSeek, SessionMove
<1> QED BY <1>2, <1>3, <1>4, ClientPlain, PlainMove

LEMMA TaskMovesSession ==
  ASSUME Typed, RunTask  PROVE  SessionMove
<1>1. Sound(hs) /\ HostTyped /\ Times \subseteq Nat /\ chain \in Seq(Tasks)
  BY DEF Typed, SessionTyped, Times
<1>2. outbox = "none" /\ chain # <<>>
  BY DEF RunTask, RunSchedule, RunMessage, RunTimeout, RunFinish, RunReconnect, RunTerminal,
         Begin, Running
<1>3. Head(chain) \in Tasks  BY <1>1, <1>2, HeadIsATask
<1>4. CASE RunSchedule
  <2>1. Head(chain).lines \in SUBSET Lines  BY <1>3, <1>4, TaskIsTyped DEF RunSchedule, Begin
  <2>2. Sound(Sent(Head(chain).lines)) \/ Terminal(hs)
    BY <1>1, <2>1, CommitIsTyped, SentTyped, SentSound DEF Sent
  <2> QED BY <1>1, <1>2, <1>4, <2>2 DEF RunSchedule, SessionMove, Terminal, durable
<1>5. CASE RunMessage
  <2> DEFINE m == Head(chain)
  <2>1. Sound(Reduced(m)) /\ (Terminal(hs) => Reduced(m) = hs)  BY <1>1, ReducedSound
  <2>2. (Resolve(Reduced(m))) \/ (hs' = Reduced(m) /\ KeepStream)
    BY <1>5 DEF RunMessage
  <2>3. CASE Resolve(Reduced(m))
    BY <1>1, <1>2, <2>1, <2>3, ResolveMoves DEF SessionMove
  <2>4. CASE hs' = Reduced(m) /\ KeepStream
    BY <1>2, <2>1, <2>4 DEF SessionMove, KeepStream
  <2> QED BY <2>2, <2>3, <2>4
<1>6. CASE RunTimeout
  <2> DEFINE s == CommitFailed(hs, Head(chain).ack, "timeout")
  <2>1. "timeout" \in Reasons  BY DEF Reasons
  <2>2. Sound(s) /\ (Terminal(hs) => s = hs)  BY <1>1, <2>1, FailedSound
  <2>3. CASE Resolve(s)
    BY <1>1, <1>2, <2>2, <2>3, ResolveMoves DEF SessionMove
  <2>4. CASE hs' = hs /\ KeepStream
    BY <1>1, <1>2, <2>4 DEF SessionMove, KeepStream
  <2> QED BY <1>6, <2>3, <2>4 DEF RunTimeout
<1>7. CASE RunFinish
  <2> DEFINE t == Head(chain).time
  <2>1. t \in Nat  BY <1>1, <1>3, <1>7, TaskIsTyped DEF RunFinish, Begin
  <2>2. CASE Terminal(hs)
    BY <1>1, <1>2, <1>7, <2>2 DEF RunFinish, KeepStream, SessionMove
  <2>3. CASE ~Terminal(hs) /\ hs.pending = NoCommit /\ CanCommit(stream)
    <3>1. {} \in SUBSET Lines  OBVIOUS
    <3>2. Sound(Sent({}))
      BY <1>1, <2>3, <3>1, CommitIsTyped, SentTyped, SentSound DEF Sent
    <3>3. hs' = Finish(Sent({}), t) /\ outbox' = outbox  BY <1>7, <2>3 DEF RunFinish
    <3> QED BY <1>2, <2>1, <2>3, <3>2, <3>3, FinishSound DEF SessionMove, Plain
  <2>4. CASE ~Terminal(hs) /\ ~(hs.pending = NoCommit /\ CanCommit(stream))
    <3>1. hs' = Finish(hs, t)
          /\ IF hs.pending # NoCommit THEN KeepStream ELSE CloseStream("chain", "completed")
      BY <1>7, <2>4 DEF RunFinish
    <3>2. outbox' = "completed" => hs.pending = NoCommit
      BY <1>2, <3>1 DEF KeepStream
    <3> QED BY <1>1, <1>2, <2>1, <2>4, <3>1, <3>2, FinishSound DEF SessionMove, Plain
  <2> QED BY <2>2, <2>3, <2>4
<1>8. CASE RunReconnect
  BY <1>1, <1>2, <1>8 DEF RunReconnect, SessionMove, durable
<1>9. CASE RunTerminal
  <2>1. outbox' \in {"none", "failed"}
    BY <1>2, <1>9, ClosingMoves DEF RunTerminal, KeepStream, ClosingMove
  <2>2. Plain(hs, hs')
    BY <1>1, <1>9, AbortPlain DEF RunTerminal, Plain
  <2> QED BY <1>2, <2>1, <2>2, PlainMove
<1> QED BY <1>4, <1>5, <1>6, <1>7, <1>8, <1>9 DEF RunTask

LEMMA AwaitMovesSession ==
  ASSUME Typed, DialEnds \/ TimerFires \/ BackoffEnds \/ DrainEnds \/ Restore
  PROVE  SessionMove
<1>1. Sound(hs)  BY DEF Typed, SessionTyped
<1>2. outbox = "none"
  BY DEF DialEnds, StartConnected, RestoreConnected, Reconnected, RedialFails, DialFails,
         TimerFires, BackoffEnds, DrainEnds, Restore, Quiet, Running
<1>3. ASSUME UNCHANGED hs, outbox' = outbox PROVE SessionMove
  BY <1>1, <1>2, <1>3 DEF SessionMove
<1>4. ASSUME NEW gen, hs' = Orphaned(hs, gen), outbox' = outbox PROVE SessionMove
  BY <1>1, <1>2, <1>4, OrphanedSound DEF SessionMove
<1>5. CASE StartConnected \/ TimerFires
  BY <1>3, <1>5 DEF StartConnected, TimerFires, Attached, durable
<1>6. CASE RestoreConnected \/ Reconnected
  BY <1>4, <1>6 DEF RestoreConnected, Reconnected, Attached, durable
<1>7. CASE BackoffEnds
  BY <1>3, <1>4, <1>7 DEF BackoffEnds, durable
<1>8. CASE Restore
  BY <1>3, <1>4, <1>8 DEF Restore
<1>9. CASE RedialFails \/ \E who \in Dialers : DialFails(who)
  <2>1. hs' = hs \/ hs' = Abort(hs)  BY <1>9 DEF RedialFails, DialFails
  <2>2. Plain(hs, hs')  BY <1>1, <2>1, AbortPlain DEF Plain
  <2>3. outbox' \in {outbox, "failed"}  BY <1>9 DEF RedialFails, DialFails
  <2> QED BY <1>2, <2>2, <2>3, PlainMove
<1>10. CASE DrainEnds
  <2>1. hs' = hs  BY <1>10 DEF DrainEnds
  <2>2. outbox' = "completed" => outbox = "completed" \/ hs.status = "finalized"
    BY <1>10 DEF DrainEnds
  <2> QED BY <1>1, <2>1, <2>2 DEF SessionMove
<1> QED BY <1>5, <1>6, <1>7, <1>8, <1>9, <1>10 DEF DialEnds

LEMMA StepMovesSession ==
  ASSUME Typed, [Next]_vars  PROVE  SessionMove
<1>1. Sound(hs)  BY DEF Typed, SessionTyped
<1>2. CASE UNCHANGED vars
  BY <1>1, <1>2 DEF vars, SessionMove, durable
<1>3. CASE Provider \/ Evict \/ Expire \/ Over
  <2>1. hs' = hs /\ (outbox' = outbox \/ outbox' = "abandoned")
    BY <1>3 DEF Provider, ProviderAnswers, ProviderCloses, ProviderErrors, ProviderTerminates,
                Evict, Expire, Over, durable, vars
  <2> QED BY <1>1, <2>1 DEF SessionMove
<1> QED BY <1>2, <1>3, ClientMovesSession, TaskMovesSession, AwaitMovesSession DEF Next

-----------------------------------------------------------------------------
(* The adapter, the bound of the commits and the timer.                    *)

NoMoreAudio == ~stream'.audio \/ stream'.audio = stream.audio

LEMMA TimerKept ==
  ASSUME Typed, timer' \in {timer, NoCommit}
  PROVE  timer' \in Handles /\ (timer' = NoCommit \/ timer'.id \in 1..commits)
BY NoCommitIsAHandle DEF Typed, AdapterTyped

LEMMA AdapterKept ==
  ASSUME Typed, stream' \in Streams, commits' = commits, NoMoreAudio,
         attempt' = attempt, buffer' = buffer, timer' \in {timer, NoCommit}
  PROVE  AdapterTyped'
BY TimerKept DEF Typed, AdapterTyped, Reconnecting, NoMoreAudio

LEMMA AdapterReset ==
  ASSUME Typed, stream' \in Streams, commits' = commits, NoMoreAudio,
         attempt' \in 0..MaxAttempts, buffer' = 0, timer' \in {timer, NoCommit}
  PROVE  AdapterTyped'
<1>1. 0 \in Times  BY SessionAssumption DEF Times
<1> QED BY <1>1, TimerKept DEF Typed, AdapterTyped, Reconnecting, NoMoreAudio

LEMMA ClosingKeepsAdapter ==
  ASSUME Typed, NEW who, NEW reason, ClosingMove(who, reason)
  PROVE  stream' \in Streams /\ NoMoreAudio
<1>1. stream \in Streams  BY DEF Typed, AdapterTyped
<1>2. Draining(stream) \in Streams /\ Shut(stream) \in Streams
  BY <1>1, AdapterMethods
<1>3. stream'.audio = stream.audio  BY <1>1, AudioMoves DEF ClosingMove
<1> QED BY <1>1, <1>2, <1>3 DEF ClosingMove, NoMoreAudio

LEMMA FreshHasNoAudio ==
  ASSUME Typed, NEW who, DialOut(who)
  PROVE  stream' \in Streams /\ NoMoreAudio
<1>1. stream \in Streams /\ dials + 1 \in Nat /\ lastStt \in Nat
  BY DEF Typed, AdapterTyped, ProviderTyped, HostTyped
<1> QED BY <1>1, AdapterMethods, AudioMoves DEF DialOut, NoMoreAudio

(* A commit takes the audio that was counted, so it is within the bound. *)
LEMMA CommitKeepsAdapter ==
  ASSUME Typed, Commit, CanCommit(stream), ~Reconnecting, UNCHANGED <<attempt, buffer>>
  PROVE  AdapterTyped'
<1>1. stream \in Streams /\ commits < MaxCommits /\ commits \in Nat /\ buffer = 0
  BY DEF Typed, AdapterTyped, CanCommit
<1>2. commits' = commits + 1 /\ commits' \in 0..MaxCommits /\ commits + 1 \in Nat
  BY <1>1, SessionAssumption DEF Commit
<1>3. stream' \in Streams /\ ~stream'.audio
  BY <1>1, <1>2, AdapterMethods, AudioMoves DEF Commit
<1>4. timer' \in Handles /\ timer'.id = commits'
  BY <1>1, <1>2, AdapterMethods DEF Commit, Handle
<1>5. timer'.id \in 1..commits'
  <2>1. commits' \in 1..commits'  BY <1>1, <1>2
  <2> QED BY <2>1, <1>4
<1> QED BY <1>1, <1>2, <1>3, <1>4, <1>5 DEF Typed, AdapterTyped, Reconnecting

LEMMA ReplayKeepsAdapter ==
  ASSUME Typed, NEW a \in Streams, a.audio = stream.audio, stream' = Replayed(a),
         commits' = commits, attempt' = 0, buffer' = 0, timer' = timer
  PROVE  AdapterTyped'
<1>1. buffer \in Nat /\ 0 \in Times /\ 0 \in 0..MaxAttempts
  BY SessionAssumption DEF Typed, AdapterTyped, Times
<1>2. stream' \in Streams  BY <1>1, AdapterMethods DEF Replayed
<1>3. stream'.audio => stream.audio \/ buffer # 0  BY DEF Replayed
<1> QED BY <1>1, <1>2, <1>3 DEF Typed, AdapterTyped, Reconnecting

LEMMA ClientMovesAdapter ==
  ASSUME Typed, Client  PROVE  AdapterTyped'
<1>1. stream \in Streams  BY DEF Typed, AdapterTyped
<1>2. ASSUME NEW t \in Times,
             \/ ClientStart(t) \/ ClientPause(t) \/ ClientResume(t) \/ ClientFinish(t)
             \/ ClientBoundary(t) \/ ClientSeek(t)
             \/ \E playing \in BOOLEAN : ClientSync(t, playing)
      PROVE  AdapterTyped'
  <2>1. commits' = commits /\ attempt' = attempt /\ buffer' = buffer
        /\ timer' \in {timer, NoCommit}
    BY <1>2 DEF ClientStart, ClientPause, ClientResume, ClientFinish, ClientBoundary,
                ClientSeek, ClientSync, host, provider
  <2>2. (\E who : DialOut(who)) \/ stream' = stream
    BY <1>2 DEF ClientStart, ClientPause, ClientResume, ClientFinish, ClientBoundary,
                ClientSeek, ClientSync, host, provider
  <2>3. stream' \in Streams /\ NoMoreAudio
    BY <1>1, <2>2, FreshHasNoAudio DEF NoMoreAudio
  <2> QED BY <2>1, <2>3, AdapterKept
<1>3. ASSUME NEW t \in Times, AudioFrame(t)
      PROVE  AdapterTyped'
  <2>1. commits < MaxCommits /\ commits' = commits /\ attempt' = attempt /\ timer' = timer
    BY <1>3 DEF AudioFrame, provider
  <2>2. Later(buffer, t) \in Times /\ t \in Nat
    BY DEF Typed, AdapterTyped, Later, Times
  <2>3. Heard(stream, t) \in Streams  BY <1>1, <2>2, AdapterMethods
  <2>4. stream' \in Streams /\ buffer' \in Times /\ (buffer' # 0 => Reconnecting)
    BY <1>1, <1>3, <2>2, <2>3 DEF AudioFrame, Typed, AdapterTyped
  <2> QED BY <2>1, <2>4 DEF Typed, AdapterTyped, Reconnecting
<1>4. CASE ClientAbort
  <2>1. stream' \in Streams /\ NoMoreAudio
    BY <1>4, ClosingMoves, ClosingKeepsAdapter DEF ClientAbort
  <2> QED BY <1>4, <2>1, AdapterKept DEF ClientAbort
<1> QED BY <1>2, <1>3, <1>4 DEF Client

LEMMA TaskMovesAdapter ==
  ASSUME Typed, RunTask  PROVE  AdapterTyped'
<1>1. stream \in Streams /\ ~Reconnecting
  BY DEF Typed, AdapterTyped, RunTask, RunSchedule, RunMessage, RunTimeout, RunFinish,
         RunReconnect, RunTerminal, Begin, Blocked
<1>2. Sound(hs) /\ HostTyped  BY DEF Typed, SessionTyped
<1>3. CASE RunSchedule
  <2>1. attempt' = attempt /\ buffer' = buffer  BY <1>3 DEF RunSchedule
  <2>2. CASE Commit /\ CanCommit(stream)  BY <1>1, <2>1, <2>2, CommitKeepsAdapter
  <2>3. CASE UNCHANGED <<stream, commits, timer>>
    BY <1>1, <2>1, <2>3, AdapterKept DEF NoMoreAudio
  <2> QED BY <1>3, <2>2, <2>3 DEF RunSchedule
<1>4. CASE RunMessage
  <2>1. commits' = commits /\ attempt' = attempt /\ buffer' = buffer
        /\ timer' \in {timer, NoCommit}
    BY <1>4 DEF RunMessage
  <2>2. Resolve(Reduced(Head(chain))) \/ KeepStream  BY <1>4 DEF RunMessage
  <2>3. Sound(Reduced(Head(chain)))  BY <1>2, ReducedSound
  <2>4. ClosingMove("chain", "completed")
    BY <1>2, <2>2, <2>3, ResolveMoves, ClosingMoves
  <2>5. stream' \in Streams /\ NoMoreAudio  BY <2>4, ClosingKeepsAdapter
  <2> QED BY <2>1, <2>5, AdapterKept
<1>5. CASE RunTimeout
  <2>1. commits' = commits /\ attempt' = attempt /\ buffer' = buffer /\ timer' = timer
    BY <1>5 DEF RunTimeout
  <2>2. "timeout" \in Reasons  BY DEF Reasons
  <2>3. Sound(CommitFailed(hs, Head(chain).ack, "timeout"))  BY <1>2, <2>2, FailedSound
  <2>4. Resolve(CommitFailed(hs, Head(chain).ack, "timeout")) \/ KeepStream
    BY <1>5 DEF RunTimeout
  <2>5. ClosingMove("chain", "completed")
    BY <1>2, <2>3, <2>4, ResolveMoves, ClosingMoves
  <2>6. stream' \in Streams /\ NoMoreAudio  BY <2>5, ClosingKeepsAdapter
  <2> QED BY <2>1, <2>6, AdapterKept
<1>6. CASE RunFinish
  <2>1. attempt' = attempt /\ buffer' = buffer  BY <1>6 DEF RunFinish
  <2>2. CASE Commit /\ CanCommit(stream)  BY <1>1, <2>1, <2>2, CommitKeepsAdapter
  <2>3. CASE UNCHANGED <<commits, timer>> /\ (KeepStream \/ CloseStream("chain", "completed"))
    <3>1. stream' \in Streams /\ NoMoreAudio
      BY <2>3, ClosingMoves, ClosingKeepsAdapter
    <3> QED BY <2>1, <2>3, <3>1, AdapterKept DEF KeepStream
  <2> QED BY <1>6, <2>2, <2>3 DEF RunFinish
<1>7. CASE RunReconnect
  <2>1. attempt' \in {attempt, 1} /\ buffer = 0 /\ 1 \in 0..MaxAttempts
    BY <1>1, <1>7, SessionAssumption DEF RunReconnect, Typed, AdapterTyped
  <2>2. buffer' = 0 /\ attempt' \in 0..MaxAttempts
    BY <1>7, <2>1 DEF RunReconnect, Typed, AdapterTyped
  <2> QED BY <1>1, <1>7, <2>2, AdapterReset DEF RunReconnect, provider, NoMoreAudio
<1>8. CASE RunTerminal
  <2>1. CloseStream("chain", "failed") \/ KeepStream  BY <1>8 DEF RunTerminal
  <2>2. stream' \in Streams /\ NoMoreAudio
    BY <2>1, ClosingMoves, ClosingKeepsAdapter
  <2> QED BY <1>8, <2>2, AdapterKept DEF RunTerminal
<1> QED BY <1>3, <1>4, <1>5, <1>6, <1>7, <1>8 DEF RunTask

LEMMA AwaitMovesAdapter ==
  ASSUME Typed, DialEnds \/ TimerFires \/ BackoffEnds \/ DrainEnds \/ Restore
  PROVE  AdapterTyped'
<1>1. stream \in Streams /\ 0 \in 0..MaxAttempts
  BY SessionAssumption DEF Typed, AdapterTyped
<1>2. CASE StartConnected \/ RestoreConnected
  <2>1. PICK who \in Dialers : stream' = [stream EXCEPT !.sock = dial[who]]
    BY <1>2 DEF StartConnected, RestoreConnected, Dialers
  <2>2. dial[who] \in Nat  BY DEF Typed, ProviderTyped
  <2>3. stream' \in Streams /\ NoMoreAudio
    BY <1>1, <2>1, <2>2, AdapterMethods, AudioMoves DEF NoMoreAudio
  <2> QED BY <1>2, <2>3, AdapterKept DEF StartConnected, RestoreConnected, Attached
<1>3. CASE Reconnected
  <2> DEFINE a == [stream EXCEPT !.sock = dial["chain"]]
  <2>1. dial["chain"] \in Nat  BY DEF Typed, ProviderTyped, Dialers
  <2>2. a \in Streams /\ a.audio = stream.audio
    BY <1>1, <2>1, AdapterMethods, AudioMoves
  <2> QED BY <1>3, <2>2, ReplayKeepsAdapter DEF Reconnected, Attached
<1>4. CASE TimerFires
  BY <1>1, <1>4, AdapterKept DEF TimerFires, provider, NoMoreAudio
<1>5. CASE BackoffEnds
  <2>1. timer' = timer /\ commits' = commits  BY <1>5 DEF BackoffEnds
  <2>2. CASE attempt' = 0 /\ buffer' = 0 /\ stream' = stream
    BY <1>1, <2>1, <2>2, AdapterReset DEF NoMoreAudio
  <2>3. CASE DialOut("chain") /\ UNCHANGED <<attempt, buffer>>
    BY <2>1, <2>3, FreshHasNoAudio, AdapterKept
  <2>4. CASE stream' = Replayed(stream) /\ attempt' = 0 /\ buffer' = 0
    BY <1>1, <2>1, <2>4, ReplayKeepsAdapter
  <2> QED BY <1>5, <2>2, <2>3, <2>4 DEF BackoffEnds
<1>6. CASE RedialFails
  <2>1. stream' = stream /\ timer' = timer /\ commits' = commits
    BY <1>6 DEF RedialFails, provider
  <2>2. CASE attempt < MaxAttempts /\ attempt' = attempt + 1 /\ buffer' = buffer
    <3>1. attempt' \in 0..MaxAttempts /\ attempt' # 0
      BY <2>2, SessionAssumption DEF Typed, AdapterTyped
    <3> QED BY <2>1, <2>2, <3>1 DEF Typed, AdapterTyped, Reconnecting
  <2>3. CASE attempt' = 0 /\ buffer' = 0
    BY <1>1, <2>1, <2>3, AdapterReset DEF NoMoreAudio
  <2> QED BY <1>6, <2>2, <2>3 DEF RedialFails
<1>7. CASE \E who \in Dialers : DialFails(who)
  BY <1>1, <1>7, AdapterKept DEF DialFails, provider, NoMoreAudio
<1>8. CASE DrainEnds
  <2>1. stream' \in Streams /\ NoMoreAudio
    BY <1>1, <1>8, AdapterMethods, AudioMoves DEF DrainEnds, NoMoreAudio
  <2> QED BY <1>8, <2>1, AdapterKept DEF DrainEnds
<1>9. CASE Restore
  <2>1. DialOut("restore") \/ stream' = stream  BY <1>9 DEF Restore
  <2>2. stream' \in Streams /\ NoMoreAudio
    BY <1>1, <2>1, FreshHasNoAudio DEF NoMoreAudio
  <2> QED BY <1>9, <2>2, AdapterKept DEF Restore
<1> QED BY <1>2, <1>3, <1>4, <1>5, <1>6, <1>7, <1>8, <1>9 DEF DialEnds

LEMMA ProviderMovesAdapter ==
  ASSUME Typed, Provider \/ Evict \/ Expire  PROVE  AdapterTyped'
<1>1. stream \in Streams /\ 0 \in 0..MaxAttempts
  BY SessionAssumption DEF Typed, AdapterTyped
<1>2. CASE Provider
  <2>1. UNCHANGED <<commits, attempt, buffer, timer>>
    BY <1>2 DEF Provider, ProviderAnswers, ProviderCloses, ProviderErrors, ProviderTerminates,
                host, provider
  <2>2. stream' \in {stream, Answered(stream), Dropped(stream), Terminated(stream)}
    BY <1>2 DEF Provider, ProviderAnswers, ProviderCloses, ProviderErrors, ProviderTerminates,
                SocketDropped
  <2>3. stream' \in Streams /\ NoMoreAudio
    BY <1>1, <2>2, AdapterMethods, AudioMoves DEF NoMoreAudio
  <2> QED BY <2>1, <2>3, AdapterKept
<1>3. CASE Evict \/ Expire
  <2>1. stream' = NewAdapter /\ timer' = NoCommit /\ attempt' = 0 /\ buffer' = 0
        /\ commits' = commits
    BY <1>3 DEF Evict, Expire, Forget
  <2>2. stream' \in Streams /\ NoMoreAudio
    BY <1>1, <2>1, AdapterMethods, AudioMoves DEF NoMoreAudio
  <2> QED BY <1>1, <2>1, <2>2, AdapterReset
<1> QED BY <1>2, <1>3

LEMMA StepMovesAdapter ==
  ASSUME Typed, [Next]_vars  PROVE  AdapterTyped'
<1>1. CASE UNCHANGED vars
  <2>1. UNCHANGED <<stream, attempt, commits, timer, buffer>>
    BY <1>1 DEF vars, host, provider
  <2> QED BY <2>1 DEF Typed, AdapterTyped, Reconnecting
<1> QED
  BY <1>1, ClientMovesAdapter, TaskMovesAdapter, AwaitMovesAdapter, ProviderMovesAdapter
  DEF Next, Over

-----------------------------------------------------------------------------
(* The host's own variables, the tasks, and the provider's side.           *)

LEMMA HeadIsTyped ==
  ASSUME Typed, NEW kind, Begin(kind)
  PROVE  Head(chain) \in Tasks /\ Head(chain).kind = kind /\ Tail(chain) \in Seq(Tasks)
         /\ chain # <<>>
<1>1. chain \in Seq(Tasks) /\ chain # <<>> /\ Head(chain).kind = kind
  BY DEF Typed, Begin
<1> QED BY <1>1, HeadIsATask

LEMMA ClosingKeepsHost ==
  ASSUME HostTyped, ClosingMove("chain", "completed") \/ ClosingMove("client", "none")
                    \/ ClosingMove("chain", "failed")
  PROVE  /\ started' \in BOOLEAN /\ draining' \in {"no", "chain", "client"}
         /\ outbox' \in Outcomes
BY DEF HostTyped, ClosingMove, Outcomes

LEMMA ClientMovesHost ==
  ASSUME Typed, Client  PROVE  HostTyped'
<1>1. HostTyped  BY DEF Typed
<1>2. lastStt' = lastStt /\ finishAt' = finishAt /\ finished' \in BOOLEAN /\ up' \in BOOLEAN
  BY <1>1 DEF HostTyped, Client, ClientStart, ClientPause, ClientResume, ClientSeek,
       ClientFinish, ClientBoundary, ClientSync, ClientAbort, AudioFrame, durable, host, history
<1>3. /\ started' \in BOOLEAN /\ draining' \in {"no", "chain", "client"}
      /\ outbox' \in Outcomes
  <2>1. CASE ClientAbort
    BY <1>1, <2>1, ClosingMoves, ClosingKeepsHost DEF ClientAbort
  <2>2. CASE ~ClientAbort
    BY <1>1, <2>2 DEF HostTyped, Client, ClientStart, ClientPause, ClientResume, ClientSeek,
         ClientFinish, ClientBoundary, ClientSync, AudioFrame, DialOut, durable, host
  <2> QED BY <2>1, <2>2
<1> QED BY <1>1, <1>2, <1>3 DEF HostTyped

LEMMA TaskMovesHost ==
  ASSUME Typed, RunTask  PROVE  HostTyped'
<1>1. HostTyped /\ Sound(hs)  BY DEF Typed, SessionTyped
<1>2. up' = up /\ finished' = finished
  BY DEF RunTask, RunSchedule, RunMessage, RunTimeout, RunFinish, RunReconnect, RunTerminal,
         durable, history
<1>3. CASE RunMessage
  <2> DEFINE m == Head(chain)
  <2>1. m.seq \in Nat  BY <1>3, HeadIsTyped, TaskIsTyped DEF RunMessage
  <2>2. lastStt' \in Nat  BY <1>1, <1>3, <2>1 DEF RunMessage, HostTyped
  <2>3. Sound(Reduced(m))  BY <1>1, ReducedSound
  <2>4. Resolve(Reduced(m)) \/ (KeepStream /\ finishAt' = finishAt)  BY <1>3 DEF RunMessage
  <2>5. ClosingMove("chain", "completed") /\ finishAt' \in {finishAt, {}}
    BY <1>1, <2>3, <2>4, ResolveMoves, ClosingMoves
  <2> QED BY <1>1, <1>2, <2>2, <2>5, ClosingKeepsHost DEF HostTyped
<1>4. CASE RunTimeout
  <2> DEFINE s == CommitFailed(hs, Head(chain).ack, "timeout")
  <2>1. "timeout" \in Reasons  BY DEF Reasons
  <2>2. Sound(s)  BY <1>1, <2>1, FailedSound
  <2>3. Resolve(s) \/ (KeepStream /\ finishAt' = finishAt)  BY <1>4 DEF RunTimeout
  <2>4. ClosingMove("chain", "completed") /\ finishAt' \in {finishAt, {}}
    BY <1>1, <2>2, <2>3, ResolveMoves, ClosingMoves
  <2> QED BY <1>1, <1>2, <1>4, <2>4, ClosingKeepsHost DEF HostTyped, RunTimeout
<1>5. CASE RunFinish
  <2>1. Head(chain).time \in Times  BY <1>5, HeadIsTyped, TaskIsTyped DEF RunFinish
  <2>2. lastStt' = lastStt /\ (finishAt' = finishAt \/ finishAt' = {Head(chain).time})
    BY <1>5 DEF RunFinish
  <2>3. KeepStream \/ CloseStream("chain", "completed")
        \/ UNCHANGED <<started, draining, outbox>>
    BY <1>5 DEF RunFinish
  <2>4. /\ started' \in BOOLEAN /\ draining' \in {"no", "chain", "client"}
        /\ outbox' \in Outcomes
    BY <1>1, <2>3, ClosingMoves, ClosingKeepsHost DEF HostTyped
  <2> QED BY <1>1, <1>2, <2>1, <2>2, <2>4 DEF HostTyped
<1>6. CASE RunTerminal
  <2>1. CloseStream("chain", "failed") \/ KeepStream  BY <1>6 DEF RunTerminal
  <2>2. ClosingMove("chain", "failed")  BY <2>1, ClosingMoves
  <2> QED BY <1>1, <1>2, <1>6, <2>2, ClosingKeepsHost DEF HostTyped, RunTerminal
<1>7. CASE RunSchedule \/ RunReconnect
  BY <1>1, <1>2, <1>7 DEF RunSchedule, RunReconnect, HostTyped, durable
<1> QED BY <1>3, <1>4, <1>5, <1>6, <1>7 DEF RunTask

LEMMA AwaitMovesHost ==
  ASSUME Typed, DialEnds \/ TimerFires \/ BackoffEnds \/ DrainEnds \/ Restore
  PROVE  HostTyped'
<1>1. HostTyped  BY DEF Typed
<1>2. CASE DialEnds
  BY <1>1, <1>2 DEF DialEnds, StartConnected, RestoreConnected, Reconnected, RedialFails,
       DialFails, Attached, HostTyped, Outcomes, durable, history
<1>3. CASE TimerFires  BY <1>1, <1>3 DEF TimerFires, HostTyped, durable
<1>4. CASE BackoffEnds
  BY <1>1, <1>4 DEF BackoffEnds, DialOut, HostTyped, durable, history
<1>5. CASE DrainEnds
  BY <1>1, <1>5 DEF DrainEnds, HostTyped, Outcomes, history
<1>6. CASE Restore
  BY <1>1, <1>6 DEF Restore, DialOut, HostTyped, history
<1> QED BY <1>2, <1>3, <1>4, <1>5, <1>6

LEMMA StepMovesHost ==
  ASSUME Typed, [Next]_vars  PROVE  HostTyped'
<1>1. HostTyped  BY DEF Typed
<1>2. CASE UNCHANGED vars
  BY <1>1, <1>2 DEF vars, durable, host, history, HostTyped
<1>3. CASE Provider
  BY <1>1, <1>3 DEF Provider, ProviderAnswers, ProviderCloses, ProviderErrors,
       ProviderTerminates, durable, host, history, HostTyped
<1>4. CASE Evict \/ Expire
  BY <1>1, <1>4 DEF Evict, Expire, Forget, HostTyped, Outcomes, history
<1> QED BY <1>2, <1>3, <1>4, ClientMovesHost, TaskMovesHost, AwaitMovesHost DEF Next, Over

LEMMA StepMovesChain ==
  ASSUME Typed, [Next]_vars  PROVE  chain' \in Seq(Tasks)
<1>1. chain \in Seq(Tasks) /\ stream \in Streams /\ timer \in Handles
  BY DEF Typed, AdapterTyped
<1>2. ASSUME chain' = chain PROVE chain' \in Seq(Tasks)  BY <1>1, <1>2
<1>3. CASE UNCHANGED vars  BY <1>2, <1>3 DEF vars
<1>4. CASE Client
  <2>1. CASE \E t \in Times : \/ ClientBoundary(t)
                              \/ \E playing \in BOOLEAN : ClientSync(t, playing)
    <3>1. chain' \in {chain, chain \o AskTask(hs')}
      BY <2>1 DEF ClientBoundary, ClientSync
    <3>2. AskTask(hs)' \in Seq(Tasks)  BY AskIsTyped
    <3>3. chain \o AskTask(hs') \in Seq(Tasks)  BY <1>1, <3>2
    <3> QED BY <1>1, <3>1, <3>3
  <2>2. CASE \E t \in Times : ClientFinish(t)
    BY <1>1, <2>2, TasksExist DEF ClientFinish
  <2>3. CASE ~(\E t \in Times : \/ ClientBoundary(t) \/ ClientFinish(t)
                                \/ \E playing \in BOOLEAN : ClientSync(t, playing))
    BY <1>2, <1>4, <2>3 DEF Client, ClientStart, ClientPause, ClientResume, ClientSeek,
                            ClientAbort, AudioFrame
  <2> QED BY <2>1, <2>2, <2>3
<1>5. CASE RunTask
  <2>1. PICK kind : Begin(kind)
    BY <1>5 DEF RunTask, RunSchedule, RunMessage, RunTimeout, RunFinish, RunReconnect,
                RunTerminal
  <2>2. Tail(chain) \in Seq(Tasks)  BY <2>1, HeadIsTyped
  <2>3. CASE RunMessage
    <3>1. \E tasks \in Seq(Tasks) : chain' = Tail(chain) \o tasks
      <4>1. <<>> \in Seq(Tasks) /\ AskTask(Reduced(Head(chain))) \in Seq(Tasks)
        BY AskIsTyped
      <4> QED BY <2>3, <4>1 DEF RunMessage
    <3> QED BY <2>2, <3>1
  <2>4. CASE ~RunMessage
    BY <1>5, <2>2, <2>4 DEF RunTask, RunSchedule, RunTimeout, RunFinish, RunReconnect,
                            RunTerminal
  <2> QED BY <2>3, <2>4
<1>6. CASE TimerFires  BY <1>1, <1>6, TasksExist DEF TimerFires
<1>7. CASE DialEnds \/ BackoffEnds \/ DrainEnds \/ Restore
  BY <1>2, <1>7 DEF DialEnds, StartConnected, RestoreConnected, Reconnected, RedialFails,
       DialFails, Attached, BackoffEnds, DrainEnds, Restore
<1>8. CASE Provider
  <2>1. TakenFor(stream) \in Handles /\ stream.seq + 1 \in Nat
    <3>1. 0 \in Nat /\ stream.seq \in Nat  BY <1>1, StreamFields
    <3>2. TakenFor(stream) \in Handles  BY <1>1, <3>1, AdapterMethods
    <3> QED BY <3>1, <3>2
  <2>2. \/ chain' = chain
        \/ \E k \in Tasks : chain' = Append(chain, k)
    BY <1>8, <2>1, TasksExist DEF Provider, ProviderAnswers, ProviderCloses, ProviderErrors,
         ProviderTerminates, SocketDropped
  <2> QED BY <1>1, <2>2
<1>9. CASE Evict \/ Expire
  <2>1. chain' = <<>>  BY <1>9 DEF Evict, Expire, Forget
  <2> QED BY <2>1
<1> QED BY <1>2, <1>3, <1>4, <1>5, <1>6, <1>7, <1>8, <1>9 DEF Next, Over, vars

-----------------------------------------------------------------------------
(* The provider's sockets, what it owes and the history.                   *)

(* The answer the provider owes longest on a socket, and the handler's whole *)
(* effect on what is owed.                                                   *)
LEMMA LeastDue ==
  ASSUME Typed, NEW socket, {o \in owed : o[1] = socket} # {}
  PROVE  LET due    == {o \in owed : o[1] = socket}
             answer == CHOOSE o \in due : \A p \in due : o[2] <= p[2]
         IN  answer \in due
<1> DEFINE due == {o \in owed : o[1] = socket}
           ids == {o[2] : o \in due}
<1>1. due \subseteq (1..dials) \X (1..commits) /\ dials \in Nat /\ commits \in Nat
  BY DEF Typed, ProviderTyped, AdapterTyped
<1>2. ids \subseteq Nat /\ ids # {}  BY <1>1
<1>3. PICK x \in ids : \A y \in ids : x <= y
  <2> HIDE DEF ids
  <2> QED BY <1>2, LeastOf
<1>4. \E o \in due : \A p \in due : o[2] <= p[2]  BY <1>3
<1> QED BY <1>4

LEMMA ProviderKept ==
  ASSUME Typed, dials' = dials, commits' = commits,
         dial' \in [Dialers -> Nat], \A d \in Dialers : dial'[d] <= dials,
         live' \subseteq 1..dials, owed' \subseteq owed,
         answered' = answered, fired' = fired, UNCHANGED <<drops, evictions>>
  PROVE  ProviderTyped'
BY DEF Typed, ProviderTyped

LEMMA DialedProvider ==
  ASSUME Typed, NEW who \in Dialers, DialOut(who),
         UNCHANGED <<live, owed, commits, answered, fired, drops, evictions>>
  PROVE  ProviderTyped'
<1>1. dials \in Nat /\ dials' = dials + 1 /\ 1..dials \subseteq 1..dials'
  BY DEF Typed, ProviderTyped, DialOut
<1>2. dial' \in [Dialers -> Nat] /\ \A d \in Dialers : dial'[d] <= dials'
  BY <1>1 DEF Typed, ProviderTyped, DialOut
<1>3. (1..dials) \X (1..commits) \subseteq (1..dials') \X (1..commits)
  BY <1>1
<1> QED BY <1>1, <1>2, <1>3 DEF Typed, ProviderTyped

LEMMA CommittedProvider ==
  ASSUME Typed, Commit, UNCHANGED <<dials, dial, live, answered, fired, drops, evictions>>
  PROVE  ProviderTyped'
<1>1. commits \in Nat /\ commits' = commits + 1 /\ 1..commits \subseteq 1..commits'
      /\ commits + 1 \in 1..commits'
  BY SessionAssumption DEF Typed, AdapterTyped, Commit
<1>2. owed \subseteq (1..dials) \X (1..commits')
  BY <1>1 DEF Typed, ProviderTyped
<1>3. stream.sock \in live => <<stream.sock, commits + 1>> \in (1..dials) \X (1..commits')
  BY <1>1 DEF Typed, ProviderTyped
<1>4. owed' \subseteq (1..dials) \X (1..commits')
  BY <1>2, <1>3 DEF Commit
<1> QED BY <1>1, <1>4 DEF Typed, ProviderTyped

LEMMA ClosingKeepsProvider ==
  ASSUME Typed, NEW who, NEW reason, ClosingMove(who, reason), dials' = dials,
         dial' = dial, commits' = commits, owed' = owed,
         answered' = answered, fired' = fired, UNCHANGED <<drops, evictions>>
  PROVE  ProviderTyped'
BY ProviderKept DEF Typed, ProviderTyped, ClosingMove

LEMMA ClientMovesProvider ==
  ASSUME Typed, Client  PROVE  ProviderTyped'
<1>1. ASSUME UNCHANGED <<dials, dial, live, owed, commits, answered, fired, drops, evictions>>
      PROVE  ProviderTyped'
  BY <1>1, ProviderKept DEF Typed, ProviderTyped
<1>2. CASE ClientAbort
  BY <1>2, ClosingMoves, ClosingKeepsProvider DEF ClientAbort, history
<1>3. CASE ~ClientAbort
  <2>1. (\E who \in Dialers : DialOut(who)) \/ UNCHANGED <<dials, dial>>
    BY <1>3 DEF Client, ClientStart, ClientPause, ClientResume, ClientSeek, ClientFinish,
         ClientBoundary, ClientSync, AudioFrame, host, provider, Dialers
  <2>2. UNCHANGED <<live, owed, commits, answered, fired, drops, evictions>>
    BY <1>3 DEF Client, ClientStart, ClientPause, ClientResume, ClientSeek, ClientFinish,
         ClientBoundary, ClientSync, AudioFrame, durable, provider, history
  <2> QED BY <1>1, <2>1, <2>2, DialedProvider
<1> QED BY <1>2, <1>3

LEMMA TaskMovesProvider ==
  ASSUME Typed, RunTask  PROVE  ProviderTyped'
<1>1. HostTyped /\ Sound(hs) BY DEF Typed, SessionTyped
<1>2. UNCHANGED <<dials, dial, drops, evictions, answered, fired>>
  BY DEF RunTask, RunSchedule, RunMessage, RunTimeout, RunFinish, RunReconnect, RunTerminal,
         durable, history, provider
<1>3. CASE RunSchedule \/ RunReconnect
  BY <1>2, <1>3, CommittedProvider, ProviderKept
     DEF RunSchedule, RunReconnect, provider, Typed, ProviderTyped
<1>4. CASE RunMessage
  <2>1. Sound(Reduced(Head(chain)))  BY <1>1, ReducedSound
  <2>2. Resolve(Reduced(Head(chain))) \/ KeepStream  BY <1>4 DEF RunMessage
  <2>3. ClosingMove("chain", "completed")
    BY <1>1, <2>1, <2>2, ResolveMoves, ClosingMoves
  <2> QED BY <1>2, <1>4, <2>3, ClosingKeepsProvider DEF RunMessage
<1>5. CASE RunTimeout
  <2> DEFINE s == CommitFailed(hs, Head(chain).ack, "timeout")
  <2>1. "timeout" \in Reasons  BY DEF Reasons
  <2>2. Sound(s)  BY <1>1, <2>1, FailedSound
  <2>3. Resolve(s) \/ KeepStream  BY <1>5 DEF RunTimeout
  <2>4. ClosingMove("chain", "completed")
    BY <1>1, <2>2, <2>3, ResolveMoves, ClosingMoves
  <2> QED BY <1>2, <1>5, <2>4, ClosingKeepsProvider DEF RunTimeout
<1>6. CASE RunFinish
  <2>1. CASE Commit /\ UNCHANGED live  BY <1>2, <2>1, CommittedProvider
  <2>2. CASE UNCHANGED <<commits, owed>> /\ (KeepStream \/ CloseStream("chain", "completed"))
    BY <1>2, <2>2, ClosingMoves, ClosingKeepsProvider
  <2> QED BY <1>6, <2>1, <2>2 DEF RunFinish
<1>7. CASE RunTerminal
  <2>1. ClosingMove("chain", "failed")
    BY <1>7, ClosingMoves DEF RunTerminal
  <2> QED BY <1>2, <1>7, <2>1, ClosingKeepsProvider DEF RunTerminal
<1> QED BY <1>3, <1>4, <1>5, <1>6, <1>7 DEF RunTask

LEMMA AttachedProvider ==
  ASSUME Typed, NEW who \in Dialers, Attached(who), answered' = answered, fired' = fired
  PROVE  ProviderTyped'
<1>1. dial[who] \in 1..dials  BY DEF Attached, Typed, ProviderTyped
<1>2. dial' \in [Dialers -> Nat] /\ \A d \in Dialers : dial'[d] <= dials
  BY DEF Attached, Typed, ProviderTyped
<1>3. live' \subseteq 1..dials  BY <1>1 DEF Attached, Typed, ProviderTyped
<1> QED BY <1>2, <1>3, ProviderKept DEF Attached, durable, Typed

LEMMA FailedDial ==
  ASSUME Typed, NEW who \in Dialers, dial' = [dial EXCEPT ![who] = 0],
         UNCHANGED <<dials, live, owed, commits, answered, fired, drops, evictions>>
  PROVE  ProviderTyped'
<1>1. dial' \in [Dialers -> Nat] /\ \A d \in Dialers : dial'[d] <= dials
  BY DEF Typed, ProviderTyped
<1> QED BY <1>1, ProviderKept DEF Typed, ProviderTyped

LEMMA AwaitMovesProvider ==
  ASSUME Typed, DialEnds \/ TimerFires \/ BackoffEnds \/ DrainEnds \/ Restore
  PROVE  ProviderTyped'
<1>1. CASE StartConnected \/ RestoreConnected \/ Reconnected
  <2>1. \E who \in Dialers : Attached(who)
    BY <1>1 DEF StartConnected, RestoreConnected, Reconnected, Dialers
  <2>2. answered' = answered /\ fired' = fired
    BY <2>1 DEF Attached, history
  <2> QED BY <2>1, <2>2, AttachedProvider
<1>2. CASE RedialFails \/ \E who \in Dialers : DialFails(who)
  <2>1. \E who \in Dialers : dial' = [dial EXCEPT ![who] = 0]
    BY <1>2 DEF RedialFails, DialFails, Dialers
  <2>2. UNCHANGED <<dials, live, owed, commits, answered, fired, drops, evictions>>
    BY <1>2 DEF RedialFails, DialFails, provider, history
  <2> QED BY <2>1, <2>2, FailedDial
<1>3. CASE TimerFires
  <2>1. timer.id \in 1..commits  BY <1>3 DEF TimerFires, Typed, AdapterTyped
  <2> QED BY <1>3, <2>1 DEF TimerFires, provider, durable, Typed, ProviderTyped
<1>4. CASE BackoffEnds \/ Restore
  <2>1. (\E who \in Dialers : DialOut(who)) \/ UNCHANGED <<dials, dial>>
    BY <1>4 DEF BackoffEnds, Restore, Dialers
  <2>2. UNCHANGED <<live, owed, commits, answered, fired, drops, evictions>>
    BY <1>4 DEF BackoffEnds, Restore, durable, history
  <2> QED BY <2>1, <2>2, DialedProvider, ProviderKept DEF Typed, ProviderTyped
<1>5. CASE DrainEnds
  BY <1>5, ProviderKept DEF DrainEnds, history, Typed, ProviderTyped
<1> QED BY <1>1, <1>2, <1>3, <1>4, <1>5 DEF DialEnds

LEMMA ProviderMovesProvider ==
  ASSUME Typed, Provider  PROVE  ProviderTyped'
<1>1. PICK socket \in live : \/ ProviderAnswers(socket) \/ ProviderCloses(socket)
                             \/ ProviderErrors(socket) \/ ProviderTerminates(socket)
  BY DEF Provider
<1>2. CASE ProviderAnswers(socket)
  <2> DEFINE due    == {o \in owed : o[1] = socket}
             answer == CHOOSE o \in due : \A p \in due : o[2] <= p[2]
  <2>1. answer \in due  BY <1>2, LeastDue DEF ProviderAnswers
  <2>2. answer[2] \in 1..commits  BY <2>1 DEF Typed, ProviderTyped
  <2>3. owed' \subseteq owed /\ answered' = answered \cup {answer[2]}
    BY <1>2 DEF ProviderAnswers
  <2>4. UNCHANGED <<dials, dial, live, commits, fired, drops, evictions>>
    BY <1>2 DEF ProviderAnswers, host, durable
  <2> HIDE DEF answer
  <2> QED BY <2>2, <2>3, <2>4 DEF Typed, ProviderTyped
<1>3. CASE ~ProviderAnswers(socket)
  <2>1. drops < MaxDrops /\ drops' = drops + 1 /\ live' \subseteq live
    BY <1>1, <1>3 DEF ProviderCloses, ProviderErrors, ProviderTerminates
  <2>2. UNCHANGED <<dials, dial, owed, commits, answered, fired, evictions>>
    BY <1>1, <1>3 DEF ProviderCloses, ProviderErrors, ProviderTerminates, host, durable, history
  <2>3. drops' \in 0..MaxDrops  BY <2>1, SessionAssumption DEF Typed, ProviderTyped
  <2> QED BY <2>1, <2>2, <2>3 DEF Typed, ProviderTyped
<1> QED BY <1>2, <1>3

LEMMA ForgottenProvider ==
  ASSUME Typed, Forget, UNCHANGED <<dials, commits, drops, answered, fired>>,
         evictions' \in 0..MaxEvictions
  PROVE  ProviderTyped'
<1>1. dials \in Nat /\ dial' \in [Dialers -> Nat] /\ \A d \in Dialers : dial'[d] <= dials
  BY DEF Typed, ProviderTyped, Forget
<1> QED BY <1>1 DEF Typed, ProviderTyped, Forget

LEMMA StepMovesProvider ==
  ASSUME Typed, [Next]_vars  PROVE  ProviderTyped'
<1>1. CASE UNCHANGED vars
  BY <1>1, ProviderKept DEF vars, durable, host, provider, history, Typed, ProviderTyped
<1>2. CASE Evict
  <2>1. evictions' \in 0..MaxEvictions
    BY <1>2, SessionAssumption DEF Evict, Typed, ProviderTyped
  <2> QED BY <1>2, <2>1, ForgottenProvider DEF Evict, history
<1>3. CASE Expire
  BY <1>3, ForgottenProvider DEF Expire, history, Typed, ProviderTyped
<1> QED BY <1>1, <1>2, <1>3, ClientMovesProvider, TaskMovesProvider, AwaitMovesProvider,
           ProviderMovesProvider DEF Next, Over

-----------------------------------------------------------------------------
LEMMA InitTyped ==
  ASSUME Init  PROVE  Typed
<1>1. 0 \in Times /\ 0 \in 0..MaxCommits /\ 0 \in 0..MaxAttempts /\ 0 \in 0..MaxDrops
      /\ 0 \in 0..MaxEvictions
  BY SessionAssumption DEF Times
<1>2. SessionTyped
  <2>1. InitialSession \in SessionStates
    BY NoCommitTyped DEF InitialSession, SessionStates, Statuses
  <2> QED BY <2>1 DEF Init, SessionTyped, Sound, Whole, InitialSession
<1>3. AdapterTyped
  <2>1. NewAdapter \in Streams /\ ~NewAdapter.audio
    BY NoCommitIsAHandle DEF NewAdapter, Streams, Handles
  <2> QED BY <1>1, <2>1, NoCommitIsAHandle DEF Init, AdapterTyped
<1>4. HostTyped  BY DEF Init, HostTyped, Outcomes
<1>5. ProviderTyped  BY <1>1 DEF Init, ProviderTyped
<1>6. chain \in Seq(Tasks)  BY EmptySeq DEF Init
<1> QED BY <1>2, <1>3, <1>4, <1>5, <1>6 DEF Typed

LEMMA StepTyped ==
  ASSUME Typed, [Next]_vars  PROVE  Typed'
<1>1. SessionTyped'
  <2>1. SessionMove /\ SessionTyped  BY StepMovesSession DEF Typed
  <2> QED BY <2>1 DEF SessionMove, SessionTyped
<1> QED BY <1>1, StepMovesAdapter, StepMovesHost, StepMovesProvider, StepMovesChain DEF Typed

LEMMA AlwaysTyped == Spec => []Typed
<1>1. Init => Typed  BY InitTyped
<1>2. Typed /\ [Next]_vars => Typed'  BY StepTyped
<1> QED BY <1>1, <1>2, PTL DEF Spec

(* The variables of a session, its host and its adapter keep their values' *)
(* shapes: a finish waits for at most one time, and every commit that is   *)
(* owed, answered or timed was sent (session-host.ts, session.ts).         *)
THEOREM TypeCorrect == Spec => []TypeOK
<1>1. ASSUME Typed PROVE TypeOK
  <2>1. finishAt \subseteq Times /\ Cardinality(finishAt) <= 1
    <3>1. CASE finishAt = {}  BY <3>1, FS_EmptySet
    <3>2. CASE \E t \in Times : finishAt = {t}  BY <3>2, FS_Singleton
    <3> QED BY <1>1, <3>1, <3>2 DEF Typed, HostTyped
  <2>2. timer.id \in 0..commits
    <3>1. commits \in Nat  BY <1>1, SessionAssumption DEF Typed, AdapterTyped
    <3> QED BY <1>1, <3>1 DEF Typed, AdapterTyped, NoCommit
  <2> QED BY <1>1, <2>1, <2>2 DEF TypeOK, Typed, SessionTyped, Sound, AdapterTyped, HostTyped,
                                  ProviderTyped, Outcomes
<1> QED BY <1>1, AlwaysTyped, PTL

(* A session that is recorded as completed was summed up: every line has a *)
(* score and no commit is left unanswered, whatever crossed its finish     *)
(* (maybeFinishAfterResolve and closeStt of session-host.ts).              *)
THEOREM CompletedIsAlwaysWhole == Spec => []CompletedIsWhole
<1>1. ASSUME Typed PROVE CompletedIsWhole
  BY <1>1 DEF Typed, SessionTyped, Sound, Whole, CompletedIsWhole
<1> QED BY <1>1, AlwaysTyped, PTL

-----------------------------------------------------------------------------
(* One provider stream: the connections of the host.                       *)

Unconnected == live = {} /\ \A d \in Dialers : dial[d] = 0

(* At most one socket, or one connection under way, and never both. *)
OneLink ==
  /\ \A s, t \in live : s = t
  /\ \A d, e \in Dialers : dial[d] # 0 /\ dial[e] # 0 => d = e
  /\ \A d \in Dialers : dial[d] # 0 => live = {}
  /\ live \subseteq {stream.sock}
  /\ dial["chain"] # 0 => Reconnecting

(* A session that goes on without sttStarted has no connection, nor has an *)
(* object whose host is gone; only the stream of a session that is over is *)
(* drained.                                                                *)
Ends ==
  /\ ~started /\ ~Terminal(hs) => Unconnected
  /\ draining # "no" => Terminal(hs)
  /\ ~up => /\ Unconnected /\ stream = NewAdapter /\ chain = <<>> /\ ~Reconnecting
            /\ ~started

Conn == OneLink /\ Ends

LEMMA ConnKept ==
  ASSUME Conn, SessionMove, up, up', dial' = dial, live' \subseteq live,
         live' \subseteq {stream'.sock}, ~Reconnecting' => ~Reconnecting \/ dial["chain"] = 0,
         ~started' => ~started \/ Terminal(hs)' \/ Unconnected',
         draining' # "no" => draining # "no" \/ Terminal(hs)'
  PROVE  Conn'
<1>1. OneLink'  BY DEF Conn, OneLink
<1>2. Terminal(hs) => Terminal(hs)'  BY DEF SessionMove, Terminal
<1>3. Unconnected => Unconnected'  BY DEF Unconnected
<1>4. Ends'  BY <1>2, <1>3 DEF Conn, Ends
<1> QED BY <1>1, <1>4 DEF Conn

LEMMA ConnDialed ==
  ASSUME Typed, Conn, SessionMove, NEW who \in Dialers, DialOut(who), Unconnected,
         up', live' = live, draining' = draining, attempt' = attempt,
         who = "chain" => Reconnecting
  PROVE  Conn'
<1>1. /\ dials + 1 # 0 /\ \A d \in Dialers : dial'[d] # 0 => d = who
      /\ stream'.sock = stream.sock /\ started'
  BY DEF DialOut, Unconnected, Typed, ProviderTyped, AdapterTyped, Fresh, NewAdapter
<1>2. OneLink'  BY <1>1 DEF Conn, OneLink, Unconnected, Reconnecting, Dialers
<1>3. Terminal(hs) => Terminal(hs)'  BY DEF SessionMove, Terminal
<1>4. Ends'  BY <1>1, <1>3 DEF Conn, Ends
<1> QED BY <1>2, <1>4 DEF Conn

LEMMA ConnAttached ==
  ASSUME Typed, Conn, SessionMove, NEW who \in Dialers, Attached(who),
         stream'.sock = dial[who], up,
         Reconnecting => Reconnecting' \/ who = "chain"
  PROVE  Conn'
<1>1. /\ live = {} /\ live' = {dial[who]} /\ \A d \in Dialers : dial'[d] = 0
      /\ "chain" \in Dialers
  BY DEF Attached, Conn, OneLink, Typed, ProviderTyped, Dialers
<1>2. OneLink'  BY <1>1 DEF OneLink
<1>3. started \/ Terminal(hs)  BY DEF Conn, Ends, Unconnected, Attached
<1>4. Ends'  BY <1>3 DEF Attached, durable, SessionMove, Conn, Ends, Terminal
<1> QED BY <1>2, <1>4 DEF Conn

LEMMA ConnRefused ==
  ASSUME Typed, Conn, SessionMove, NEW who \in Dialers, dial[who] # 0,
         dial' = [dial EXCEPT ![who] = 0], live' = live, stream' = stream, up, up',
         draining' = draining
  PROVE  Conn'
<1>1. Unconnected' /\ "chain" \in Dialers
  BY DEF Unconnected, Conn, OneLink, Typed, ProviderTyped, Dialers
<1>2. OneLink'  BY <1>1 DEF OneLink, Unconnected
<1>3. Ends'  BY <1>1 DEF SessionMove, Conn, Ends, Terminal
<1> QED BY <1>2, <1>3 DEF Conn

LEMMA ConnForgotten ==
  ASSUME SessionMove, Forget  PROVE  Conn' /\ Unconnected'
<1>1. Unconnected' /\ ~Reconnecting' /\ "chain" \in Dialers
  BY DEF Forget, Unconnected, Reconnecting, Dialers
<1>2. OneLink'  BY <1>1 DEF OneLink, Unconnected
<1>3. Ends'  BY <1>1 DEF Forget, Ends
<1> QED BY <1>1, <1>2, <1>3 DEF Conn

(* Closing the stream of a session that this ends. *)
LEMMA ConnClosed ==
  ASSUME Typed, Conn, SessionMove, NEW who, NEW reason,
         (CloseStream(who, reason) /\ Terminal(hs)') \/ KeepStream,
         up, up', dial' = dial, attempt' = attempt
  PROVE  Conn'
<1>1. live' \subseteq live /\ live' \subseteq {stream'.sock}
  <2>1. CASE KeepStream  BY <2>1 DEF KeepStream, Conn, OneLink
  <2>2. CASE CloseStream(who, reason)
    BY <2>2 DEF CloseStream, Conn, OneLink, Draining, Shut, Typed, AdapterTyped, Streams
  <2> QED BY <2>1, <2>2
<1>2. /\ ~started' => ~started \/ Terminal(hs)'
      /\ draining' # "no" => draining # "no" \/ Terminal(hs)'
  BY DEF KeepStream
<1> QED BY <1>1, <1>2, ConnKept DEF Reconnecting

LEMMA ClientConn ==
  ASSUME Typed, Conn, SessionMove, Client  PROVE  Conn'
<1>1. up /\ up' = up
  BY DEF Client, ClientStart, ClientPause, ClientResume, ClientSeek, ClientFinish,
         ClientBoundary, ClientSync, ClientAbort, AudioFrame, ClientMay, Quiet, Running, durable
<1>2. CASE ClientAbort
  <2>1. Terminal(hs)'
    BY <1>2, AbortPlain DEF ClientAbort, Typed, SessionTyped, Terminal
  <2> QED BY <1>1, <1>2, <2>1, ConnClosed DEF ClientAbort
<1>3. ASSUME NEW t \in Times, ClientStart(t), ~started  PROVE  Conn'
  <2>1. Unconnected  BY <1>3 DEF ClientStart, ClientMay, Conn, Ends
  <2> QED BY <1>1, <1>3, <2>1, ConnDialed DEF ClientStart, Dialers
<1>4. ASSUME UNCHANGED <<dial, live, attempt, draining, started>>, stream'.sock = stream.sock
      PROVE  Conn'
  BY <1>1, <1>4, ConnKept DEF Conn, OneLink, Reconnecting
<1>5. ASSUME NEW t \in Times,
             \/ (ClientStart(t) /\ started) \/ ClientPause(t) \/ ClientResume(t) \/ ClientSeek(t)
             \/ ClientFinish(t) \/ ClientBoundary(t) \/ AudioFrame(t)
             \/ \E playing \in BOOLEAN : ClientSync(t, playing)
      PROVE  Conn'
  <2>1. UNCHANGED <<dial, live, attempt, draining, started>>
    BY <1>5 DEF ClientStart, ClientPause, ClientResume, ClientSeek, ClientFinish,
                ClientBoundary, AudioFrame, ClientSync, host, provider
  <2>2. stream' \in {stream, Heard(stream, t)}
    BY <1>5 DEF ClientStart, ClientPause, ClientResume, ClientSeek, ClientFinish,
                ClientBoundary, AudioFrame, ClientSync
  <2>3. stream'.sock = stream.sock  BY <2>2 DEF Heard, Typed, AdapterTyped, Streams
  <2> QED BY <1>4, <2>1, <2>3
<1> QED BY <1>2, <1>3, <1>5 DEF Client

(* A message or a lost stream that waits in the chain of a session that   *)
(* goes on is alone there: what follows it runs at once.                   *)
Urgent(c) == \E i \in DOMAIN c : c[i].kind \in {"message", "reconnect"}

Lone ==
  ~Terminal(hs) /\ Urgent(chain) =>
    /\ Len(chain) = 1 /\ ~Reconnecting
    /\ chain[1].kind = "reconnect" => Unconnected

LEMMA ResolveCloses ==
  ASSUME Typed, NEW s, Sound(s), Resolve(s)
  PROVE  (CloseStream("chain", "completed") /\ Terminal(hs)') \/ KeepStream
<1> DEFINE finishing == finishAt # {} /\ s.pending = NoCommit
<1>1. CASE finishing
  <2>1. PICK t \in Times : finishAt = {t}  BY <1>1 DEF Typed, HostTyped
  <2>2. (CHOOSE u \in finishAt : TRUE) = t /\ t \in Nat  BY <2>1 DEF Times
  <2>3. hs' = Finish(s, t)  BY <1>1, <2>2 DEF Resolve
  <2>4. Terminal(hs')  BY <1>1, <2>2, <2>3, FinishSound
  <2>5. CloseStream("chain", "completed") \/ KeepStream  BY DEF Resolve
  <2> QED BY <2>4, <2>5 DEF Terminal
<1>2. CASE ~finishing  BY <1>2 DEF Resolve
<1> QED BY <1>1, <1>2

LEMMA TaskConn ==
  ASSUME Typed, Conn, Lone, SessionMove, RunTask  PROVE  Conn'
<1>1. up /\ up' = up /\ dial' = dial
  BY DEF RunTask, RunSchedule, RunMessage, RunTimeout, RunFinish, RunReconnect, RunTerminal,
         Begin, Running, durable, provider
<1>2. Sound(hs)  BY DEF Typed, SessionTyped
<1>3. ASSUME Commit \/ stream' = stream, UNCHANGED <<live, started, draining, attempt>>
      PROVE  Conn'
  <2>1. stream'.sock = stream.sock
    BY <1>3 DEF Commit, Committed, Typed, AdapterTyped, Streams
  <2> QED BY <1>1, <1>3, <2>1, ConnKept DEF Conn, OneLink, Reconnecting
<1>4. ASSUME (CloseStream("chain", "completed") /\ Terminal(hs)') \/ KeepStream,
             attempt' = attempt
      PROVE  Conn'
  BY <1>1, <1>4, ConnClosed
<1>5. CASE RunSchedule  BY <1>3, <1>5 DEF RunSchedule
<1>6. CASE RunMessage
  <2>1. Sound(Reduced(Head(chain)))  BY <1>2, ReducedSound
  <2>2. Resolve(Reduced(Head(chain))) \/ KeepStream  BY <1>6 DEF RunMessage
  <2> QED BY <1>4, <1>6, <2>1, <2>2, ResolveCloses DEF RunMessage
<1>7. CASE RunTimeout
  <2> DEFINE s == CommitFailed(hs, Head(chain).ack, "timeout")
  <2>1. "timeout" \in Reasons  BY DEF Reasons
  <2>2. Sound(s)  BY <1>2, <2>1, FailedSound
  <2>3. Resolve(s) \/ KeepStream  BY <1>7 DEF RunTimeout
  <2> QED BY <1>4, <1>7, <2>2, <2>3, ResolveCloses DEF RunTimeout
<1>8. CASE RunFinish
  <2> DEFINE t == Head(chain).time
  <2>1. t \in Nat  BY <1>8, HeadIsTyped, TaskIsTyped DEF RunFinish, Times
  <2>2. CASE Commit /\ UNCHANGED <<live, started, draining>>
    BY <1>3, <1>8, <2>2 DEF RunFinish
  <2>3. CASE hs.pending = NoCommit /\ hs' = Finish(hs, t) /\ CloseStream("chain", "completed")
    <3>1. Terminal(hs')  BY <1>2, <2>1, <2>3, FinishSound
    <3> QED BY <1>4, <1>8, <2>3, <3>1 DEF RunFinish, Terminal
  <2>4. CASE KeepStream  BY <1>4, <1>8, <2>4 DEF RunFinish
  <2> QED BY <1>8, <2>2, <2>3, <2>4 DEF RunFinish
<1>9. CASE RunReconnect
  <2>1. UNCHANGED <<hs, stream, live, draining>>  BY <1>9 DEF RunReconnect, provider
  <2>2. CASE hs.status = "recording"
    <3>1. chain \in Seq(Tasks) /\ chain # <<>> /\ chain[1].kind = "reconnect"
      BY <1>9 DEF RunReconnect, Begin, Typed
    <3>2. Urgent(chain) /\ ~Terminal(hs)
      <4>1. 1 \in DOMAIN chain  BY <3>1
      <4> QED BY <2>2, <3>1, <4>1 DEF Urgent, Terminal
    <3>3. Unconnected  BY <3>1, <3>2 DEF Lone
    <3>4. Unconnected' /\ dial["chain"] = 0
      BY <1>1, <2>1, <3>3 DEF Unconnected, Dialers
    <3> QED BY <1>1, <2>1, <3>4, ConnKept DEF Conn, OneLink
  <2>3. CASE hs.status # "recording"
    BY <1>3, <1>9, <2>1, <2>3 DEF RunReconnect
  <2> QED BY <2>2, <2>3
<1>10. CASE RunTerminal
  <2>1. CASE hs.status = "recording"
    <3>1. Terminal(hs')  BY <1>2, <1>10, <2>1, AbortPlain DEF RunTerminal
    <3> QED BY <1>1, <1>10, <2>1, <3>1, ConnClosed DEF RunTerminal, Terminal
  <2>2. CASE hs.status # "recording"
    BY <1>4, <1>10, <2>2 DEF RunTerminal
  <2> QED BY <2>1, <2>2
<1> QED BY <1>5, <1>6, <1>7, <1>8, <1>9, <1>10 DEF RunTask

LEMMA AwaitConn ==
  ASSUME Typed, Conn, SessionMove, DialEnds \/ TimerFires \/ BackoffEnds \/ DrainEnds \/ Restore
  PROVE  Conn'
<1>1. stream \in Streams  BY DEF Typed, AdapterTyped
<1>2. CASE StartConnected
  <2>1. stream'.sock = dial["start"]  BY <1>1, <1>2 DEF StartConnected, Streams
  <2> QED BY <1>2, <2>1, ConnAttached DEF StartConnected, Quiet, Running, Dialers, Reconnecting
<1>3. CASE RestoreConnected
  <2>1. stream'.sock = dial["restore"]  BY <1>1, <1>3 DEF RestoreConnected, Streams
  <2> QED BY <1>3, <2>1, ConnAttached DEF RestoreConnected, Quiet, Running, Dialers, Reconnecting
<1>4. CASE Reconnected
  <2>1. stream'.sock = dial["chain"]
    BY <1>1, <1>4 DEF Reconnected, Replayed, Heard, Streams
  <2> QED BY <1>4, <2>1, ConnAttached DEF Reconnected, Running, Dialers, Reconnecting
<1>5. CASE RedialFails \/ \E who \in Dialers : DialFails(who)
  <2>1. \E who \in Dialers : dial[who] # 0 /\ dial' = [dial EXCEPT ![who] = 0]
    BY <1>5 DEF RedialFails, DialFails, Dialers
  <2>2. live' = live /\ stream' = stream /\ up /\ up' /\ draining' = draining
    BY <1>5 DEF RedialFails, DialFails, provider, Quiet, Running
  <2> QED BY <2>1, <2>2, ConnRefused
<1>6. CASE TimerFires
  BY <1>6, ConnKept DEF TimerFires, Quiet, Running, durable, provider, Conn, OneLink, Reconnecting
<1>7. CASE BackoffEnds
  <2>1. up /\ up' /\ live' = live /\ draining' = draining /\ Reconnecting /\ dial["chain"] = 0
    BY <1>7 DEF BackoffEnds, Running, durable
  <2>2. CASE hs.status = "recording" /\ ~started
    <3>1. Unconnected  BY <2>2 DEF Conn, Ends, Terminal
    <3> QED BY <1>7, <2>1, <2>2, <3>1, ConnDialed DEF BackoffEnds, Dialers
  <2>3. CASE ~(hs.status = "recording" /\ ~started)
    <3>1. dial' = dial /\ started' = started /\ stream' \in {stream, Replayed(stream)}
      BY <1>7, <2>3 DEF BackoffEnds
    <3>2. stream'.sock = stream.sock  BY <1>1, <3>1 DEF Replayed, Heard, Streams
    <3> QED BY <2>1, <3>1, <3>2, ConnKept DEF Conn, OneLink
  <2> QED BY <2>2, <2>3
<1>8. CASE DrainEnds
  <2>1. live' \subseteq live /\ live' \subseteq {stream'.sock}
    BY <1>1, <1>8 DEF DrainEnds, Shut, Streams, Conn, OneLink
  <2>2. Terminal(hs) /\ hs' = hs  BY <1>8 DEF DrainEnds, Conn, Ends
  <2>3. up /\ up' /\ dial' = dial /\ attempt' = attempt
    BY <1>8 DEF DrainEnds, Quiet, Running
  <2> QED BY <2>1, <2>2, <2>3, ConnKept DEF Reconnecting, Terminal
<1>9. CASE Restore
  <2>1. /\ up' /\ live' = live /\ draining' = draining /\ attempt' = attempt /\ Unconnected
    BY <1>9 DEF Restore, Conn, Ends
  <2>2. CASE DialOut("restore")  BY <2>1, <2>2, ConnDialed DEF Dialers
  <2>3. CASE UNCHANGED <<dial, stream, started>>
    <3>1. Unconnected'  BY <2>1, <2>3 DEF Unconnected
    <3>2. OneLink'  BY <2>1, <2>3 DEF Conn, OneLink, Reconnecting
    <3>3. Ends'  BY <2>1, <3>1 DEF Conn, Ends, SessionMove, Terminal
    <3> QED BY <3>2, <3>3 DEF Conn
  <2> QED BY <1>9, <2>2, <2>3 DEF Restore
<1> QED BY <1>2, <1>3, <1>4, <1>5, <1>6, <1>7, <1>8, <1>9 DEF DialEnds

LEMMA ProviderConn ==
  ASSUME Typed, Conn, SessionMove, Provider  PROVE  Conn'
<1>1. PICK socket \in live : \/ ProviderAnswers(socket) \/ ProviderCloses(socket)
                             \/ ProviderErrors(socket) \/ ProviderTerminates(socket)
  BY DEF Provider
<1>2. stream \in Streams  BY DEF Typed, AdapterTyped
<1>3. up /\ UNCHANGED <<up, dial, started, draining, attempt>>
  BY <1>1 DEF ProviderAnswers, ProviderCloses, ProviderErrors, ProviderTerminates, durable,
              host, Quiet, Running
<1>4. live' \subseteq live
  BY <1>1 DEF ProviderAnswers, ProviderCloses, ProviderErrors, ProviderTerminates
<1>5. live' \subseteq {stream'.sock}
  <2>1. CASE ProviderTerminates(socket)
    BY <1>2, <2>1 DEF ProviderTerminates, Terminated, Conn, OneLink, Streams
  <2>2. CASE ~ProviderTerminates(socket)
    <3>1. stream' \in {stream, Answered(stream), Dropped(stream)}
      BY <1>1, <2>2 DEF ProviderAnswers, ProviderCloses, ProviderErrors, SocketDropped
    <3>2. stream'.sock = stream.sock  BY <1>2, <3>1 DEF Answered, Dropped, Streams
    <3> QED BY <1>4, <3>2 DEF Conn, OneLink
  <2> QED BY <2>1, <2>2
<1> QED BY <1>3, <1>4, <1>5, ConnKept DEF Reconnecting

LEMMA StepConn ==
  ASSUME Typed, Conn, Lone, [Next]_vars  PROVE  Conn'
<1>1. SessionMove  BY StepMovesSession
<1>2. CASE UNCHANGED vars
  BY <1>2 DEF vars, durable, host, provider, Conn, OneLink, Ends, Unconnected, Reconnecting,
              Terminal
<1>3. CASE Evict \/ Expire  BY <1>1, <1>3, ConnForgotten DEF Evict, Expire
<1> QED BY <1>1, <1>2, <1>3, ClientConn, TaskConn, AwaitConn, ProviderConn DEF Next, Over

-----------------------------------------------------------------------------
(* The kinds of steps, seen from the adapter and the provider.             *)

(* The adapter b holds the commit and the sequence of a, and speaks only if *)
(* a does.                                                                 *)
Same(a, b) ==
  /\ b.inFlight = a.inFlight /\ b.seq = a.seq /\ b.gen \in {a.gen, 0}
  /\ b.emitting => a.emitting

Held(a, b) == Same(a, b) /\ b.sock \in {a.sock, 0}

Dialing ==
  /\ \E who \in Dialers : DialOut(who)
  /\ Unconnected /\ UNCHANGED <<live, owed, commits, lastStt>>
  /\ dial'["restore"] # 0 => stream.sock = 0

Sending ==
  /\ Commit /\ CanCommit(stream) /\ ~Reconnecting
  /\ UNCHANGED <<live, dials, dial, attempt>>

Answering == \E socket \in live : ProviderAnswers(socket) /\ stream.emitting

Forgetting == Forget /\ UNCHANGED <<dials, commits>>

Attaching == (\E who \in Dialers : Attached(who)) /\ Same(stream, stream') /\ dials' = dials

Calm ==
  /\ Held(stream, stream') /\ owed' \subseteq owed /\ live' \subseteq live
  /\ \A d \in Dialers : dial'[d] \in {0, dial[d]}
  /\ dials' = dials /\ commits' = commits
  /\ Reconnecting' => Reconnecting \/ live = {}

LEMMA MethodsSame ==
  ASSUME NEW a \in Streams, NEW n, NEW t
  PROVE  /\ Held(a, a) /\ Held(a, Heard(a, t)) /\ Held(a, Draining(a)) /\ Held(a, Shut(a))
         /\ Held(a, Dropped(a)) /\ Held(a, Terminated(a)) /\ Held(a, Replayed(a))
         /\ Same(a, [a EXCEPT !.sock = n]) /\ Same(a, Replayed([a EXCEPT !.sock = n]))
BY DEF Held, Same, Heard, Draining, Shut, Dropped, Terminated, Replayed, Streams

LEMMA CalmStream ==
  ASSUME Typed, NEW who, NEW reason, CloseStream(who, reason) \/ KeepStream
  PROVE  Held(stream, stream') /\ live' \subseteq live
<1>1. stream \in Streams  BY DEF Typed, AdapterTyped
<1>2. stream' \in {stream, Draining(stream), Shut(stream)} /\ live' \subseteq live
  BY ClosingMoves DEF ClosingMove
<1> QED BY <1>1, <1>2, MethodsSame

LEMMA ClientKinds ==
  ASSUME Typed, Conn, Client  PROVE  Dialing \/ Calm
<1>1. stream \in Streams  BY DEF Typed, AdapterTyped
<1>2. CASE ClientAbort
  <2>1. Held(stream, stream') /\ live' \subseteq live
    BY <1>2, CalmStream DEF ClientAbort
  <2> QED BY <1>2, <2>1 DEF ClientAbort, Calm, Reconnecting
<1>3. ASSUME NEW t \in Times, ClientStart(t), ~started  PROVE  Dialing
  <2>1. Unconnected  BY <1>3 DEF ClientStart, ClientMay, Conn, Ends
  <2>2. dial'["restore"] = 0
    BY <1>3, <2>1 DEF ClientStart, DialOut, Unconnected, Dialers, Typed, ProviderTyped
  <2> QED BY <1>3, <2>1, <2>2 DEF ClientStart, Dialing, Dialers
<1>4. ASSUME NEW t \in Times,
             \/ (ClientStart(t) /\ started) \/ ClientPause(t) \/ ClientResume(t) \/ ClientSeek(t)
             \/ ClientFinish(t) \/ ClientBoundary(t) \/ AudioFrame(t)
             \/ \E playing \in BOOLEAN : ClientSync(t, playing)
      PROVE  Calm
  <2>1. UNCHANGED <<dials, dial, live, owed, commits, attempt>>
    BY <1>4 DEF ClientStart, ClientPause, ClientResume, ClientSeek, ClientFinish,
                ClientBoundary, AudioFrame, ClientSync, host, provider
  <2>2. stream' \in {stream, Heard(stream, t)}
    BY <1>4 DEF ClientStart, ClientPause, ClientResume, ClientSeek, ClientFinish,
                ClientBoundary, AudioFrame, ClientSync
  <2>3. Held(stream, stream')  BY <1>1, <2>2, MethodsSame
  <2> QED BY <2>1, <2>3 DEF Calm, Reconnecting
<1> QED BY <1>2, <1>3, <1>4 DEF Client

LEMMA TaskKinds ==
  ASSUME Typed, Lone, RunTask
  PROVE  (Sending /\ hs.pending = NoCommit) \/ Calm
<1>1. stream \in Streams /\ HostTyped /\ Sound(hs)
  BY DEF Typed, AdapterTyped, SessionTyped
<1>2. dials' = dials /\ dial' = dial /\ ~Reconnecting
  BY DEF RunTask, RunSchedule, RunMessage, RunTimeout, RunFinish, RunReconnect, RunTerminal,
         Begin, Blocked, provider
<1>3. ASSUME Held(stream, stream'), live' \subseteq live, UNCHANGED <<owed, commits, attempt>>
      PROVE  Calm
  BY <1>2, <1>3 DEF Calm, Reconnecting
<1>4. CASE RunSchedule
  <2>1. live' = live /\ attempt' = attempt  BY <1>4 DEF RunSchedule
  <2>2. CASE Commit /\ CanCommit(stream) /\ hs.pending = NoCommit
    BY <1>2, <2>1, <2>2 DEF Sending
  <2>3. CASE UNCHANGED <<stream, commits, owed>>
    BY <1>1, <1>3, <2>1, <2>3, MethodsSame
  <2> QED BY <1>4, <2>2, <2>3 DEF RunSchedule
<1>5. CASE RunMessage
  <2>1. Sound(Reduced(Head(chain)))  BY <1>1, ReducedSound
  <2>2. Resolve(Reduced(Head(chain))) \/ KeepStream  BY <1>5 DEF RunMessage
  <2>3. CloseStream("chain", "completed") \/ KeepStream  BY <2>1, <2>2, ResolveCloses
  <2> QED BY <1>3, <1>5, <2>3, CalmStream DEF RunMessage
<1>6. CASE RunTimeout
  <2> DEFINE s == CommitFailed(hs, Head(chain).ack, "timeout")
  <2>1. "timeout" \in Reasons  BY DEF Reasons
  <2>2. Sound(s)  BY <1>1, <2>1, FailedSound
  <2>3. Resolve(s) \/ KeepStream  BY <1>6 DEF RunTimeout
  <2>4. CloseStream("chain", "completed") \/ KeepStream  BY <2>2, <2>3, ResolveCloses
  <2> QED BY <1>3, <1>6, <2>4, CalmStream DEF RunTimeout
<1>7. CASE RunFinish
  <2>1. attempt' = attempt  BY <1>7 DEF RunFinish
  <2>2. CASE Commit /\ CanCommit(stream) /\ hs.pending = NoCommit /\ UNCHANGED live
    BY <1>2, <2>1, <2>2 DEF Sending
  <2>3. CASE UNCHANGED <<commits, owed>> /\ (CloseStream("chain", "completed") \/ KeepStream)
    BY <1>3, <2>1, <2>3, CalmStream
  <2> QED BY <1>7, <2>2, <2>3 DEF RunFinish
<1>8. CASE RunReconnect
  <2>1. UNCHANGED <<stream, live, owed, commits>>  BY <1>8 DEF RunReconnect, provider
  <2>2. Held(stream, stream')  BY <1>1, <2>1, MethodsSame
  <2>3. CASE hs.status = "recording"
    <3>1. chain \in Seq(Tasks) /\ chain # <<>> /\ chain[1].kind = "reconnect"
      BY <1>8 DEF RunReconnect, Begin, Typed
    <3>2. 1 \in DOMAIN chain  BY <3>1
    <3>3. Unconnected  BY <2>3, <3>1, <3>2 DEF Lone, Urgent, Terminal
    <3> QED BY <1>2, <2>1, <2>2, <3>3 DEF Calm, Unconnected
  <2>4. CASE hs.status # "recording"  BY <1>3, <1>8, <2>1, <2>2, <2>4 DEF RunReconnect
  <2> QED BY <2>3, <2>4
<1>9. CASE RunTerminal
  <2>1. CloseStream("chain", "failed") \/ KeepStream  BY <1>9 DEF RunTerminal
  <2> QED BY <1>3, <1>9, <2>1, CalmStream DEF RunTerminal
<1> QED BY <1>4, <1>5, <1>6, <1>7, <1>8, <1>9 DEF RunTask

LEMMA AwaitKinds ==
  ASSUME Typed, Conn, DialEnds \/ TimerFires \/ BackoffEnds \/ DrainEnds \/ Restore
  PROVE  Dialing \/ Attaching \/ Calm
<1>1. stream \in Streams  BY DEF Typed, AdapterTyped
<1>2. CASE StartConnected \/ RestoreConnected \/ Reconnected
  <2>1. (\E who \in Dialers : Attached(who)) /\ dials' = dials
    BY <1>2 DEF StartConnected, RestoreConnected, Reconnected, Attached, Dialers
  <2>2. \E n : stream' \in {[stream EXCEPT !.sock = n], Replayed([stream EXCEPT !.sock = n])}
    BY <1>2 DEF StartConnected, RestoreConnected, Reconnected
  <2>3. Same(stream, stream')  BY <1>1, <2>2, MethodsSame
  <2> QED BY <2>1, <2>3 DEF Attaching
<1>3. CASE RedialFails \/ \E who \in Dialers : DialFails(who)
  <2>1. \E who \in Dialers : dial[who] # 0 /\ dial' = [dial EXCEPT ![who] = 0]
    BY <1>3 DEF RedialFails, DialFails, Dialers
  <2>2. UNCHANGED <<stream, dials, live, owed, commits>>
    BY <1>3 DEF RedialFails, DialFails, provider
  <2>3. live = {} /\ \A d \in Dialers : dial'[d] \in {0, dial[d]}
    BY <2>1 DEF Conn, OneLink, Typed, ProviderTyped
  <2>4. Held(stream, stream')  BY <1>1, <2>2, MethodsSame
  <2> QED BY <2>2, <2>3, <2>4 DEF Calm
<1>4. CASE TimerFires
  <2>1. UNCHANGED <<stream, dials, dial, live, owed, commits, attempt>>
    BY <1>4 DEF TimerFires, provider
  <2>2. Held(stream, stream')  BY <1>1, <2>1, MethodsSame
  <2> QED BY <2>1, <2>2 DEF Calm, Reconnecting
<1>5. CASE BackoffEnds
  <2>1. Reconnecting /\ UNCHANGED <<live, owed, commits>>  BY <1>5 DEF BackoffEnds
  <2>2. CASE hs.status = "recording" /\ ~started
    <3>1. Unconnected  BY <2>2 DEF Conn, Ends, Terminal
    <3>2. dial'["restore"] = 0
      BY <1>5, <2>2, <3>1 DEF BackoffEnds, DialOut, Unconnected, Dialers, Typed, ProviderTyped
    <3> QED BY <1>5, <2>1, <2>2, <3>1, <3>2 DEF BackoffEnds, Dialing, Dialers
  <2>3. CASE ~(hs.status = "recording" /\ ~started)
    <3>1. dials' = dials /\ dial' = dial /\ stream' \in {stream, Replayed(stream)}
      BY <1>5, <2>3 DEF BackoffEnds
    <3>2. Held(stream, stream')  BY <1>1, <3>1, MethodsSame
    <3> QED BY <2>1, <3>1, <3>2 DEF Calm
  <2> QED BY <2>2, <2>3
<1>6. CASE DrainEnds
  <2>1. Held(stream, stream')  BY <1>1, <1>6, MethodsSame DEF DrainEnds
  <2> QED BY <1>6, <2>1 DEF DrainEnds, Calm, Reconnecting
<1>7. CASE Restore
  <2>1. Unconnected /\ stream.sock = 0 /\ UNCHANGED <<live, owed, commits, attempt, lastStt>>
    BY <1>7 DEF Restore, Conn, Ends, NewAdapter
  <2>2. CASE DialOut("restore")  BY <2>1, <2>2 DEF Dialing, Dialers
  <2>3. CASE UNCHANGED <<dials, dial, stream, started>>
    <3>1. Held(stream, stream')  BY <1>1, <2>3, MethodsSame
    <3> QED BY <2>1, <2>3, <3>1 DEF Calm, Reconnecting
  <2> QED BY <1>7, <2>2, <2>3 DEF Restore
<1> QED BY <1>2, <1>3, <1>4, <1>5, <1>6, <1>7 DEF DialEnds

LEMMA ProviderKinds ==
  ASSUME Typed, Provider  PROVE  Answering \/ Calm
<1>1. PICK socket \in live : \/ ProviderAnswers(socket) \/ ProviderCloses(socket)
                             \/ ProviderErrors(socket) \/ ProviderTerminates(socket)
  BY DEF Provider
<1>2. stream \in Streams  BY DEF Typed, AdapterTyped
<1>3. owed' \subseteq owed /\ live' \subseteq live
      /\ UNCHANGED <<dials, dial, commits, attempt>>
  BY <1>1 DEF ProviderAnswers, ProviderCloses, ProviderErrors, ProviderTerminates, host
<1>4. CASE ProviderAnswers(socket)
  <2>1. CASE stream.emitting  BY <1>4, <2>1 DEF Answering
  <2>2. CASE ~stream.emitting
    <3>1. Held(stream, stream')  BY <1>2, <1>4, <2>2, MethodsSame DEF ProviderAnswers
    <3> QED BY <1>3, <3>1 DEF Calm, Reconnecting
  <2> QED BY <2>1, <2>2
<1>5. CASE ~ProviderAnswers(socket)
  <2>1. stream' \in {Dropped(stream), Terminated(stream)}
    BY <1>1, <1>5 DEF ProviderCloses, ProviderErrors, ProviderTerminates, SocketDropped
  <2>2. Held(stream, stream')  BY <1>2, <2>1, MethodsSame
  <2> QED BY <1>3, <2>2 DEF Calm, Reconnecting
<1> QED BY <1>4, <1>5

LEMMA StepKinds ==
  ASSUME Typed, Conn, Lone, [Next]_vars
  PROVE  \/ Dialing \/ Answering \/ Forgetting \/ Attaching \/ Calm
         \/ Sending /\ hs.pending = NoCommit
<1>1. CASE UNCHANGED vars
  <2>1. stream \in Streams /\ UNCHANGED <<stream, dials, dial, live, owed, commits, attempt>>
    BY <1>1 DEF vars, host, provider, Typed, AdapterTyped
  <2>2. Held(stream, stream')  BY <2>1, MethodsSame
  <2> QED BY <2>1, <2>2 DEF Calm, Reconnecting
<1>2. CASE Evict \/ Expire  BY <1>2 DEF Evict, Expire, Forgetting
<1> QED BY <1>1, <1>2, ClientKinds, TaskKinds, AwaitKinds, ProviderKinds DEF Next, Over

-----------------------------------------------------------------------------
(* What the provider owes on the live socket is the commit in flight.      *)

OwedInv ==
  \A o \in owed :
    /\ \A d \in Dialers : dial[d] # o[1]
    /\ o[1] \in live => /\ ~Reconnecting /\ stream.inFlight # NoCommit
                        /\ stream.inFlight.id = o[2]

LEMMA StepOwed ==
  ASSUME Typed, Conn, Lone, OwedInv, [Next]_vars  PROVE  OwedInv'
<1>1. /\ owed \subseteq (1..dials) \X (1..commits) /\ dials \in Nat /\ commits \in Nat
      /\ live \subseteq 1..dials /\ stream \in Streams
  BY DEF Typed, ProviderTyped, AdapterTyped
<1>2. CASE Dialing
  <2>1. \A d \in Dialers : dial'[d] \in {0, dials + 1}
    BY <1>2 DEF Dialing, DialOut, Unconnected, Typed, ProviderTyped
  <2>2. live' = {} /\ owed' = owed  BY <1>2 DEF Dialing, Unconnected
  <2>3. \A o \in owed : o[1] \in 1..dials  BY <1>1
  <2> QED BY <1>1, <2>1, <2>2, <2>3 DEF OwedInv
<1>3. CASE Sending
  <2>1. ASSUME NEW o \in owed, o[1] \in live PROVE FALSE
    BY <1>3, <2>1 DEF Sending, CanCommit, OwedInv
  <2>2. /\ stream'.inFlight.id = commits + 1 /\ stream'.inFlight # NoCommit
        /\ dial' = dial /\ live' = live /\ ~Reconnecting'
    BY <1>1, <1>3 DEF Sending, Commit, Committed, Handle, NoCommit, Reconnecting, Streams
  <2>3. \A o \in owed' : o \in owed \/ (o = <<stream.sock, commits + 1>> /\ stream.sock \in live)
    BY <1>3 DEF Sending, Commit
  <2>4. ASSUME stream.sock \in live PROVE \A d \in Dialers : dial[d] # stream.sock
    BY <1>1, <2>4 DEF Conn, OneLink
  <2> QED BY <2>1, <2>2, <2>3, <2>4 DEF OwedInv
<1>4. CASE Answering
  <2>1. PICK socket \in live : ProviderAnswers(socket) /\ stream.emitting
    BY <1>4 DEF Answering
  <2> DEFINE due    == {o \in owed : o[1] = socket}
             answer == CHOOSE o \in due : \A p \in due : o[2] <= p[2]
  <2>2. answer \in due  BY <2>1, LeastDue DEF ProviderAnswers
  <2>3. owed' = owed \ {answer} /\ live' = live /\ dial' = dial
    BY <2>1 DEF ProviderAnswers, host
  <2> HIDE DEF answer
  <2>4. ASSUME NEW o \in owed', o[1] \in live PROVE FALSE
    <3>1. o[1] = answer[1] /\ o[2] = answer[2]
      BY <2>1, <2>2, <2>3, <2>4 DEF OwedInv, Conn, OneLink
    <3>2. o = answer  BY <1>1, <2>2, <2>3, <3>1
    <3> QED BY <2>3, <3>2
  <2> QED BY <2>3, <2>4 DEF OwedInv
<1>5. CASE Forgetting  BY <1>5 DEF Forgetting, Forget, OwedInv
<1>6. CASE Attaching
  <2>1. PICK who \in Dialers : Attached(who)  BY <1>6 DEF Attaching
  <2>2. /\ owed' = owed /\ live' = {dial[who]}
        /\ \A d \in Dialers : dial'[d] = 0
    BY <2>1 DEF Attached, Conn, OneLink, Typed, ProviderTyped
  <2>3. \A o \in owed : o[1] # 0 /\ o[1] # dial[who]  BY <1>1 DEF OwedInv
  <2> QED BY <2>2, <2>3 DEF OwedInv
<1>7. CASE Calm
  <2>1. \A o \in owed : o[1] # 0  BY <1>1
  <2> QED BY <1>7, <2>1 DEF Calm, Held, Same, OwedInv
<1> QED BY <1>2, <1>3, <1>4, <1>5, <1>6, <1>7, StepKinds

-----------------------------------------------------------------------------
(* An urgent task is alone.                                                *)

LEMMA UrgentAppend ==
  ASSUME NEW c \in Seq(Tasks), NEW k \in Tasks, k.kind \notin {"message", "reconnect"},
         Urgent(Append(c, k))
  PROVE  Urgent(c)
<1>1. PICK i \in DOMAIN Append(c, k) : Append(c, k)[i].kind \in {"message", "reconnect"}
  BY DEF Urgent
<1>2. i \in 1..(Len(c) + 1) /\ (i \in 1..Len(c) \/ i = Len(c) + 1)  BY <1>1
<1>3. CASE i \in 1..Len(c)
  <2>1. Append(c, k)[i] = c[i] /\ i \in DOMAIN c  BY <1>3
  <2> QED BY <1>1, <2>1 DEF Urgent
<1>4. CASE i = Len(c) + 1
  <2>1. Append(c, k)[i] = k  BY <1>4
  <2> QED BY <1>1, <2>1
<1> QED BY <1>2, <1>3, <1>4

LEMMA UrgentAsk ==
  ASSUME NEW c \in Seq(Tasks), NEW s, Urgent(c \o AskTask(s))
  PROVE  Urgent(c)
<1>1. CASE AskTask(s) = <<>>
  <2>1. c \o <<>> = c  OBVIOUS
  <2> QED BY <1>1, <2>1
<1>2. CASE AskTask(s) # <<>>
  <2> DEFINE k == ScheduleTask(Asks(s))
  <2>1. AskTask(s) = <<k>> /\ k.kind = "schedule"  BY <1>2 DEF AskTask, ScheduleTask
  <2>2. k \in Tasks
    <3>1. Asks(s) \in SUBSET Lines  BY DEF Asks, Due
    <3> QED BY <3>1 DEF Tasks
  <2> HIDE DEF k
  <2>3. c \o <<k>> = Append(c, k)  BY <2>2
  <2> QED BY <2>1, <2>2, <2>3, UrgentAppend
<1> QED BY <1>1, <1>2

LEMMA UrgentTail ==
  ASSUME NEW c \in Seq(Tasks), c # <<>>, Urgent(Tail(c))
  PROVE  Urgent(c) /\ Len(c) # 1
<1>1. PICK i \in DOMAIN Tail(c) : Tail(c)[i].kind \in {"message", "reconnect"}
  BY DEF Urgent
<1>2. i \in 1..(Len(c) - 1) /\ Len(c) \in Nat  BY <1>1
<1>3. i + 1 \in DOMAIN c /\ Tail(c)[i] = c[i + 1]  BY <1>2
<1>4. Urgent(c)  BY <1>1, <1>3 DEF Urgent
<1>5. Len(c) # 1
  <2>1. Len(c) = 1 => 1..(Len(c) - 1) = {}  OBVIOUS
  <2> QED BY <1>2, <2>1
<1> QED BY <1>4, <1>5

LEMMA NotUrgent == ~Urgent(<<>>)
BY DEF Urgent

(* Nothing but the urgent task runs before it has. *)
LEMMA CalmChain ==
  ASSUME Typed, Conn, Lone, ~Terminal(hs), Quiet \/ Reconnecting
  PROVE  ~Urgent(chain)
<1>1. draining # "chain"  BY DEF Conn, Ends
<1> QED BY <1>1, NotUrgent DEF Lone, Quiet, Blocked

LEMMA ClientLone ==
  ASSUME Typed, Conn, Lone, Client, ~Terminal(hs)  PROVE  ~Urgent(chain')
<1>1. ~Urgent(chain) /\ chain \in Seq(Tasks)
  <2>1. Quiet
    BY DEF Client, ClientStart, ClientPause, ClientResume, ClientSeek, ClientFinish,
           ClientBoundary, ClientSync, ClientAbort, AudioFrame, ClientMay
  <2> QED BY <2>1, CalmChain DEF Typed
<1>2. CASE \E t \in Times : \/ ClientBoundary(t)
                            \/ \E playing \in BOOLEAN : ClientSync(t, playing)
  <2>1. chain' \in {chain, chain \o AskTask(hs')}
    BY <1>2 DEF ClientBoundary, ClientSync
  <2>2. Urgent(chain \o AskTask(hs')) => Urgent(chain)  BY <1>1, UrgentAsk
  <2> QED BY <1>1, <2>1, <2>2
<1>3. CASE \E t \in Times : ClientFinish(t)
  <2>1. PICK t \in Times : chain' = Append(chain, FinishTask(t))  BY <1>3 DEF ClientFinish
  <2>2. FinishTask(t) \in Tasks /\ FinishTask(t).kind \notin {"message", "reconnect"}
    BY TasksExist DEF FinishTask
  <2> QED BY <1>1, <2>1, <2>2, UrgentAppend
<1>4. CASE ~(\E t \in Times : \/ ClientBoundary(t) \/ ClientFinish(t)
                              \/ \E playing \in BOOLEAN : ClientSync(t, playing))
  <2>1. chain' = chain
    BY <1>4 DEF Client, ClientStart, ClientPause, ClientResume, ClientSeek, ClientAbort,
                AudioFrame
  <2> QED BY <1>1, <2>1
<1> QED BY <1>2, <1>3, <1>4

LEMMA TaskLone ==
  ASSUME Typed, Conn, Lone, RunTask, ~Terminal(hs)  PROVE  ~Urgent(chain')
<1>1. PICK kind : Begin(kind)
  BY DEF RunTask, RunSchedule, RunMessage, RunTimeout, RunFinish, RunReconnect, RunTerminal
<1>2. Tail(chain) \in Seq(Tasks) /\ chain # <<>> /\ chain \in Seq(Tasks)
  BY <1>1, HeadIsTyped DEF Typed
<1>3. ~Urgent(Tail(chain))  BY <1>2, UrgentTail DEF Lone
<1>4. CASE RunMessage
  <2>1. chain' = Tail(chain) \o <<>> \/ \E s : chain' = Tail(chain) \o AskTask(s)
    BY <1>4 DEF RunMessage
  <2>2. Tail(chain) \o <<>> = Tail(chain)  BY <1>2
  <2> QED BY <1>2, <1>3, <2>1, <2>2, UrgentAsk
<1>5. CASE ~RunMessage
  <2>1. chain' = Tail(chain)
    BY <1>5 DEF RunTask, RunSchedule, RunTimeout, RunFinish, RunReconnect, RunTerminal
  <2> QED BY <1>3, <2>1
<1> QED BY <1>4, <1>5

LEMMA AwaitLone ==
  ASSUME Typed, Conn, Lone, ~Terminal(hs),
         DialEnds \/ TimerFires \/ BackoffEnds \/ DrainEnds \/ Restore
  PROVE  ~Urgent(chain')
<1>1. ~Urgent(chain) /\ chain \in Seq(Tasks)
  <2>1. Quiet \/ Reconnecting \/ chain = <<>>
    <3>1. CASE Reconnected \/ RedialFails
      BY <3>1 DEF Reconnected, RedialFails, Attached, Conn, OneLink
    <3>2. CASE Restore  BY <3>2 DEF Restore, Conn, Ends
    <3>3. CASE ~(Reconnected \/ RedialFails \/ Restore)
      BY <3>3 DEF DialEnds, StartConnected, RestoreConnected, DialFails, TimerFires,
                  BackoffEnds, DrainEnds
    <3> QED BY <3>1, <3>2, <3>3
  <2> QED BY <2>1, CalmChain, NotUrgent DEF Typed
<1>2. CASE TimerFires
  <2>1. timer \in Handles  BY DEF Typed, AdapterTyped
  <2>2. TimeoutTask(timer) \in Tasks /\ TimeoutTask(timer).kind \notin {"message", "reconnect"}
    BY <2>1, TasksExist DEF TimeoutTask
  <2>3. chain' = Append(chain, TimeoutTask(timer))  BY <1>2 DEF TimerFires
  <2> QED BY <1>1, <2>2, <2>3, UrgentAppend
<1>3. CASE ~TimerFires
  <2>1. chain' = chain
    BY <1>3 DEF DialEnds, StartConnected, RestoreConnected, Reconnected, RedialFails,
         DialFails, Attached, BackoffEnds, DrainEnds, Restore
  <2> QED BY <1>1, <2>1
<1> QED BY <1>2, <1>3

LEMMA ProviderLone ==
  ASSUME Typed, Conn, Lone, OwedInv, Provider, ~LateSpeech  PROVE  Lone'
<1> SUFFICES ASSUME ~Terminal(hs)', Urgent(chain)'  PROVE Lone'
  BY DEF Lone
<1>1. PICK socket \in live : \/ ProviderAnswers(socket) \/ ProviderCloses(socket)
                             \/ ProviderErrors(socket) \/ ProviderTerminates(socket)
  BY DEF Provider
<1>2. Quiet /\ hs' = hs /\ dial' = dial /\ attempt' = attempt
  BY <1>1 DEF ProviderAnswers, ProviderCloses, ProviderErrors, ProviderTerminates, host
<1>3. ~Terminal(hs) /\ draining # "chain"  BY <1>2 DEF Terminal, Conn, Ends
<1>4. ~Urgent(chain) /\ chain \in Seq(Tasks)  BY <1>2, <1>3, CalmChain DEF Typed
<1>5. ASSUME ~Reconnecting PROVE chain = <<>>  BY <1>2, <1>3, <1>5 DEF Quiet, Blocked
<1>6. CASE ProviderAnswers(socket)
  <2> DEFINE k == MessageTask(stream.seq + 1, TakenFor(stream))
  <2>1. k.kind = "message"  BY DEF MessageTask
  <2>2. ~Reconnecting  BY <1>6 DEF ProviderAnswers, OwedInv
  <2>3. chain' = Append(<<>>, k)
    BY <1>4, <1>5, <1>6, <2>2 DEF ProviderAnswers
  <2> HIDE DEF k
  <2>4. Len(chain') = 1 /\ chain'[1] = k  BY <2>3
  <2> QED BY <1>2, <2>1, <2>2, <2>4 DEF Lone, Reconnecting
<1>7. CASE ProviderCloses(socket) \/ ProviderErrors(socket)
  <2>1. ~Reconnecting /\ chain' = Append(<<>>, ReconnectTask)
    BY <1>4, <1>5, <1>7 DEF ProviderCloses, ProviderErrors, SocketDropped
  <2>2. Len(chain') = 1  BY <2>1
  <2>3. live' = {}  BY <1>7 DEF ProviderCloses, ProviderErrors, Conn, OneLink
  <2>4. Unconnected'  BY <1>2, <2>3 DEF Unconnected, Conn, OneLink
  <2> QED BY <1>2, <2>1, <2>2, <2>4 DEF Lone, Reconnecting
<1>8. CASE ProviderTerminates(socket)
  <2>1. TerminalTask \in Tasks /\ TerminalTask.kind \notin {"message", "reconnect"}
    BY TasksExist DEF TerminalTask
  <2>2. chain' \in {chain, Append(chain, TerminalTask)}  BY <1>8 DEF ProviderTerminates
  <2>3. ~Urgent(chain')  BY <1>4, <2>1, <2>2, UrgentAppend
  <2> QED BY <2>3
<1> QED BY <1>1, <1>6, <1>7, <1>8

LEMMA StepLone ==
  ASSUME Typed, Conn, Lone, OwedInv, [Next]_vars, ~LateSpeech  PROVE  Lone'
<1>1. CASE UNCHANGED vars
  BY <1>1 DEF vars, host, provider, Lone, Unconnected, Urgent, Reconnecting, Terminal
<1>2. CASE Evict \/ Expire
  <2>1. chain' = <<>>  BY <1>2 DEF Evict, Expire, Forget
  <2> QED BY <2>1, NotUrgent DEF Lone, Urgent
<1>3. CASE Client \/ RunTask \/ DialEnds \/ TimerFires \/ BackoffEnds \/ DrainEnds \/ Restore
  <2>1. Terminal(hs) => Terminal(hs)'  BY StepMovesSession DEF SessionMove, Terminal
  <2>2. ~Terminal(hs) => ~Urgent(chain')
    BY <1>3, ClientLone, TaskLone, AwaitLone
  <2> QED BY <2>1, <2>2 DEF Lone, Urgent
<1> QED BY <1>1, <1>2, <1>3, ProviderLone DEF Next, Over

-----------------------------------------------------------------------------
Linked == Typed /\ Conn /\ Lone /\ OwedInv

LEMMA AlwaysLinked == ASSUME ~LateSpeech PROVE Spec => []Linked
<1>1. Init => Linked
  <2>1. ASSUME Init PROVE Conn /\ Lone /\ OwedInv
    <3>1. Unconnected /\ ~Reconnecting /\ up /\ draining = "no" /\ chain = <<>> /\ owed = {}
      BY <2>1 DEF Init, Unconnected, Reconnecting
    <3>2. OneLink  BY <3>1 DEF OneLink, Unconnected, Dialers
    <3>3. Ends  BY <3>1 DEF Ends
    <3> QED BY <3>1, <3>2, <3>3, NotUrgent DEF Conn, Lone, OwedInv
  <2> QED BY <2>1, InitTyped DEF Linked
<1>2. Linked /\ [Next]_vars => Linked'
  BY StepTyped, StepConn, StepLone, StepOwed DEF Linked
<1> QED BY <1>1, <1>2, PTL DEF Spec

(* The host holds one provider stream at a time, in whatever order start,  *)
(* restore and reconnect ask for one, as long as a stream that reported a  *)
(* retryable error says nothing more (startStt and reconnectStt of         *)
(* session-host.ts).                                                       *)
THEOREM OneStreamAlways == ASSUME ~LateSpeech PROVE Spec => []OneStream
<1>1. ASSUME Linked PROVE OneStream
  <2> DEFINE dialing == {d \in Dialers : dial[d] # 0}
  <2>1. Conn  BY <1>1 DEF Linked
  <2>2. CASE live # {}
    <3>1. PICK s : live = {s}  BY <2>1, <2>2 DEF Conn, OneLink
    <3>2. dialing = {}  BY <2>1, <2>2 DEF Conn, OneLink
    <3>3. Cardinality(live) = 1 /\ Cardinality(dialing) = 0
      BY <3>1, <3>2, FS_Singleton, FS_EmptySet
    <3> QED BY <3>3 DEF OneStream
  <2>3. CASE live = {} /\ dialing # {}
    <3>1. PICK d : dialing = {d}  BY <2>1, <2>3 DEF Conn, OneLink
    <3>2. Cardinality(live) = 0 /\ Cardinality(dialing) = 1
      BY <2>3, <3>1, FS_Singleton, FS_EmptySet
    <3> QED BY <3>2 DEF OneStream
  <2>4. CASE live = {} /\ dialing = {}
    <3>1. Cardinality(live) = 0 /\ Cardinality(dialing) = 0
      BY <2>4, FS_EmptySet
    <3> QED BY <3>1 DEF OneStream
  <2> QED BY <2>2, <2>3, <2>4
<1> QED BY <1>1, AlwaysLinked, PTL

-----------------------------------------------------------------------------
(* How a pending commit ends.                                              *)

Queued(c) == {c[i] : i \in DOMAIN c}

Sends ==
  /\ Commit /\ CanCommit(stream) /\ hs.pending = NoCommit
  /\ hs'.pending.id = commits + 1 /\ hs'.pending.gen = stream.gen

ByAnswer == \E k \in Queued(chain) : k.kind = "message" /\ Matches(hs, k.ack) /\ Admitted(k)
ByTimer  == \E k \in Queued(chain) : k.kind = "timeout" /\ Matches(hs, k.ack)
ByStream == hs.pending.gen # stream'.gen
BySeek   == hs'.time < hs.pending.frontier

PendingMove ==
  \/ Sends /\ hs'.watermark = hs.watermark
  \/ /\ commits' = commits /\ hs'.pending \in {hs.pending, NoCommit}
     /\ hs'.pending # hs.pending => ByAnswer \/ ByTimer \/ ByStream \/ BySeek
     /\ hs'.watermark > hs.watermark => ByAnswer

LEMMA PendingKept ==
  ASSUME Typed, commits' = commits, hs'.pending = hs.pending, hs'.watermark = hs.watermark
  PROVE  PendingMove
<1>1. hs.watermark \in Nat  BY SessionFields DEF Typed, SessionTyped, Sound
<1>2. ~(hs'.watermark > hs.watermark)  BY <1>1
<1> QED BY <1>2 DEF PendingMove

LEMMA HeadIsQueued ==
  ASSUME Typed, NEW kind, Begin(kind)
  PROVE  Head(chain) \in Queued(chain) /\ Head(chain).kind = kind
<1>1. chain \in Seq(Tasks) /\ chain # <<>> /\ Head(chain).kind = kind
  BY DEF Typed, Begin
<1>2. 1 \in DOMAIN chain /\ Head(chain) = chain[1]  BY <1>1
<1> QED BY <1>1, <1>2 DEF Queued

LEMMA OrphanedPending ==
  ASSUME Typed, commits' = commits, NEW gen, stream'.gen = gen, hs' = Orphaned(hs, gen)
  PROVE  PendingMove
<1>1. Sound(hs) /\ hs.watermark \in Nat
  BY SessionFields DEF Typed, SessionTyped, Sound
<1>2. /\ hs'.watermark = hs.watermark
      /\ hs'.pending # hs.pending => hs'.pending = NoCommit /\ hs.pending.gen # gen
  BY <1>1, OrphanedSound
<1> QED BY <1>1, <1>2 DEF PendingMove, ByStream

LEMMA ClientPending ==
  ASSUME Typed, Client  PROVE  PendingMove
<1>1. Sound(hs) /\ Times \subseteq Nat /\ hs.watermark \in Nat
  BY SessionFields DEF Typed, SessionTyped, Sound, Times
<1>2. commits' = commits
  BY DEF Client, ClientStart, ClientPause, ClientResume, ClientSeek, ClientFinish,
         ClientBoundary, ClientSync, ClientAbort, AudioFrame, provider
<1>3. CASE Plain(hs, hs')  BY <1>2, <1>3, PendingKept DEF Plain
<1>4. ASSUME NEW t \in Times, ClientSeek(t)  PROVE  PendingMove
  <2>1. /\ hs'.watermark <= hs.watermark /\ hs'.watermark \in Nat
        /\ hs'.pending # hs.pending =>
             hs'.pending = NoCommit /\ hs'.time < hs.pending.frontier
    BY <1>1, <1>4, SeekSound, SessionFields DEF ClientSeek, Sound
  <2>2. ~(hs'.watermark > hs.watermark)  BY <1>1, <2>1
  <2> QED BY <1>2, <2>1, <2>2 DEF PendingMove, BySeek
<1> QED BY <1>3, <1>4, ClientPlain

LEMMA SentPending ==
  ASSUME Typed, ~Terminal(hs), NEW lines \in SUBSET Lines
  PROVE  /\ Sent(lines).pending.id = commits + 1 /\ Sent(lines).pending.gen = stream.gen
         /\ Sent(lines).watermark = hs.watermark /\ Sound(Sent(lines))
<1>1. Sound(hs) /\ commits + 1 \in Nat /\ Handle(stream, commits + 1) \in Handles
  BY CommitIsTyped DEF Typed, SessionTyped
<1> DEFINE commit == [Handle(stream, commits + 1) EXCEPT !.lines = lines]
<1>2. commit \in [id : Nat, gen : Nat, frontier : Nat, lines : SUBSET Lines]
  BY <1>1, SentTyped
<1>3. commit.id = commits + 1 /\ commit.gen = stream.gen  BY DEF Handle
<1> HIDE DEF commit
<1>4. Sent(lines) = CommitSent(hs, commit)  BY DEF Sent, commit
<1> QED BY <1>1, <1>2, <1>3, <1>4, SentSound

LEMMA TaskPending ==
  ASSUME Typed, RunTask  PROVE  PendingMove
<1>1. Sound(hs) /\ hs.watermark \in Nat
  BY SessionFields DEF Typed, SessionTyped, Sound
<1>2. CASE RunSchedule
  <2>1. CASE Commit /\ CanCommit(stream) /\ hs.pending = NoCommit
             /\ hs' = Sent(Head(chain).lines) /\ ~Terminal(hs)
    <3>1. Head(chain).lines \in SUBSET Lines
      BY <1>2, HeadIsTyped, TaskIsTyped DEF RunSchedule
    <3>2. Sends /\ hs'.watermark = hs.watermark  BY <2>1, <3>1, SentPending DEF Sends
    <3> QED BY <3>2 DEF PendingMove
  <2>2. CASE UNCHANGED <<hs, commits>>  BY <2>2, PendingKept
  <2> QED BY <1>2, <2>1, <2>2 DEF RunSchedule, Terminal
<1>3. CASE RunMessage
  <2> DEFINE m == Head(chain)
  <2>1. commits' = commits /\ Begin("message")  BY <1>3 DEF RunMessage
  <2>2. m \in Queued(chain) /\ m.kind = "message"  BY <2>1, HeadIsQueued
  <2>3. Sound(Reduced(m))  BY <1>1, ReducedSound
  <2>4. hs'.pending = Reduced(m).pending /\ hs'.watermark = Reduced(m).watermark
    BY <1>3, <2>3, ResolveMoves DEF RunMessage, Typed
  <2>5. CASE Admitted(m) /\ Matches(hs, m.ack) /\ ~Terminal(hs) /\ m.ack # NoCommit
    <3>1. Reduced(m) = Acknowledged(hs, m.ack)  BY <2>5 DEF Reduced
    <3>2. hs'.pending = NoCommit  BY <1>1, <2>4, <2>5, <3>1, AcknowledgedSound
    <3>3. ByAnswer  BY <2>2, <2>5 DEF ByAnswer
    <3> QED BY <2>1, <3>2, <3>3 DEF PendingMove
  <2>6. CASE ~(Admitted(m) /\ Matches(hs, m.ack) /\ ~Terminal(hs) /\ m.ack # NoCommit)
    <3>1. Reduced(m).pending = hs.pending /\ Reduced(m).watermark = hs.watermark
      BY <1>1, <2>6, AcknowledgedSound, UncorrelatedPlain DEF Reduced, Plain
    <3> QED BY <2>1, <2>4, <3>1, PendingKept
  <2> QED BY <2>5, <2>6
<1>4. CASE RunTimeout
  <2> DEFINE commit == Head(chain).ack
             s == CommitFailed(hs, commit, "timeout")
  <2>1. commits' = commits /\ Begin("timeout")  BY <1>4 DEF RunTimeout
  <2>2. Head(chain) \in Queued(chain) /\ Head(chain).kind = "timeout"  BY <2>1, HeadIsQueued
  <2>3. "timeout" \in Reasons  BY DEF Reasons
  <2>4. Sound(s) /\ s.watermark = hs.watermark /\ s.pending \in {hs.pending, NoCommit}
    BY <1>1, <2>3, FailedSound
  <2>5. CASE Matches(hs, commit)
    <3>1. hs'.pending = s.pending /\ hs'.watermark = s.watermark
      BY <1>4, <2>4, <2>5, ResolveMoves DEF RunTimeout, Typed
    <3>2. ByTimer  BY <2>2, <2>5 DEF ByTimer
    <3>3. ~(hs'.watermark > hs.watermark)  BY <1>1, <2>4, <3>1
    <3> QED BY <2>1, <2>4, <3>1, <3>2, <3>3 DEF PendingMove
  <2>6. CASE ~Matches(hs, commit)
    BY <1>4, <2>1, <2>6, PendingKept DEF RunTimeout
  <2> QED BY <2>5, <2>6
<1>5. CASE RunFinish
  <2> DEFINE t == Head(chain).time
  <2>1. t \in Nat  BY <1>5, HeadIsTyped, TaskIsTyped DEF RunFinish, Times
  <2>2. CASE ~Terminal(hs) /\ hs.pending = NoCommit /\ CanCommit(stream)
    <3>1. {} \in SUBSET Lines  OBVIOUS
    <3>2. Commit /\ hs' = Finish(Sent({}), t)  BY <1>5, <2>2 DEF RunFinish
    <3>3. /\ Sound(Sent({})) /\ Sent({}).pending.id = commits + 1
          /\ Sent({}).pending.gen = stream.gen /\ Sent({}).watermark = hs.watermark
      BY <2>2, <3>1, SentPending
    <3>4. hs'.pending = Sent({}).pending /\ hs'.watermark = Sent({}).watermark
      BY <2>1, <3>2, <3>3, FinishSound DEF Plain
    <3> QED BY <2>2, <3>2, <3>3, <3>4 DEF PendingMove, Sends
  <2>3. CASE Terminal(hs) \/ ~(hs.pending = NoCommit /\ CanCommit(stream))
    <3>1. commits' = commits /\ (hs' = hs \/ hs' = Finish(hs, t))
      BY <1>5, <2>3 DEF RunFinish
    <3>2. hs'.pending = hs.pending /\ hs'.watermark = hs.watermark
      <4>1. CASE hs' = hs  BY <4>1
      <4>2. CASE hs' = Finish(hs, t)  BY <1>1, <2>1, <4>2, FinishSound DEF Plain
      <4> QED BY <3>1, <4>1, <4>2
    <3> QED BY <3>1, <3>2, PendingKept
  <2> QED BY <2>2, <2>3
<1>6. CASE RunReconnect  BY <1>6, PendingKept DEF RunReconnect, provider
<1>7. CASE RunTerminal
  <2>1. hs'.pending = hs.pending /\ hs'.watermark = hs.watermark /\ commits' = commits
    BY <1>1, <1>7, AbortPlain DEF RunTerminal, Plain
  <2> QED BY <2>1, PendingKept
<1> QED BY <1>2, <1>3, <1>4, <1>5, <1>6, <1>7 DEF RunTask

LEMMA AwaitPending ==
  ASSUME Typed, Conn, DialEnds \/ TimerFires \/ BackoffEnds \/ DrainEnds \/ Restore
  PROVE  PendingMove
<1>1. commits' = commits /\ stream \in Streams /\ Sound(hs)
  BY DEF DialEnds, StartConnected, RestoreConnected, Reconnected, RedialFails, DialFails,
         Attached, TimerFires, BackoffEnds, DrainEnds, Restore, provider, Typed, AdapterTyped,
         SessionTyped
<1>2. CASE RestoreConnected
  BY <1>1, <1>2, OrphanedPending DEF RestoreConnected, Streams
<1>3. CASE Reconnected
  <2>1. stream'.gen = stream.gen
    BY <1>1, <1>3 DEF Reconnected, Replayed, Heard, Streams
  <2> QED BY <1>1, <1>3, <2>1, OrphanedPending DEF Reconnected
<1>4. CASE BackoffEnds
  <2>1. CASE hs' = hs  BY <1>1, <2>1, PendingKept
  <2>2. CASE hs' = Orphaned(hs, stream.gen) /\ stream' = Replayed(stream)
    <3>1. stream'.gen = stream.gen  BY <1>1, <2>2 DEF Replayed, Heard, Streams
    <3> QED BY <1>1, <2>2, <3>1, OrphanedPending
  <2> QED BY <1>4, <2>1, <2>2 DEF BackoffEnds
<1>5. CASE Restore
  <2>1. CASE hs' = hs  BY <1>1, <2>1, PendingKept
  <2>2. CASE hs' = Orphaned(hs, 0) /\ stream' = stream
    <3>1. stream'.gen = 0  BY <1>5, <2>2 DEF Restore, Conn, Ends, NewAdapter
    <3> QED BY <1>1, <2>2, <3>1, OrphanedPending
  <2> QED BY <1>5, <2>1, <2>2 DEF Restore
<1>6. CASE RedialFails \/ \E who \in Dialers : DialFails(who)
  <2>1. hs' = hs \/ hs' = Abort(hs)  BY <1>6 DEF RedialFails, DialFails
  <2>2. hs'.pending = hs.pending /\ hs'.watermark = hs.watermark
    BY <1>1, <2>1, AbortPlain DEF Plain
  <2> QED BY <1>1, <2>2, PendingKept
<1>7. CASE StartConnected \/ TimerFires \/ DrainEnds
  BY <1>1, <1>7, PendingKept DEF StartConnected, TimerFires, DrainEnds
<1> QED BY <1>2, <1>3, <1>4, <1>5, <1>6, <1>7 DEF DialEnds

LEMMA StepPending ==
  ASSUME Typed, Conn, [Next]_vars  PROVE  PendingMove
<1>1. CASE UNCHANGED vars \/ Provider \/ Evict \/ Expire
  <2>1. hs' = hs /\ commits' = commits
    BY <1>1 DEF vars, provider, Provider, ProviderAnswers, ProviderCloses, ProviderErrors,
                ProviderTerminates, Evict, Expire
  <2> QED BY <2>1, PendingKept
<1> QED BY <1>1, ClientPending, TaskPending, AwaitPending DEF Next, Over

-----------------------------------------------------------------------------
(* The tasks of the chain, one step later.                                 *)

LEMMA QueuedAppend ==
  ASSUME NEW c \in Seq(Tasks), NEW k \in Tasks
  PROVE  Queued(Append(c, k)) = Queued(c) \cup {k}
<1>1. DOMAIN Append(c, k) = 1..(Len(c) + 1) /\ DOMAIN c = 1..Len(c) /\ Len(c) \in Nat
  OBVIOUS
<1>2. \A i \in 1..Len(c) : Append(c, k)[i] = c[i]  OBVIOUS
<1>3. Append(c, k)[Len(c) + 1] = k  OBVIOUS
<1>4. 1..(Len(c) + 1) = 1..Len(c) \cup {Len(c) + 1}  BY <1>1
<1> QED BY <1>1, <1>2, <1>3, <1>4 DEF Queued

LEMMA QueuedTail ==
  ASSUME NEW c \in Seq(Tasks), c # <<>>
  PROVE  Queued(c) = {Head(c)} \cup Queued(Tail(c))
<1>1. /\ DOMAIN c = 1..Len(c) /\ DOMAIN Tail(c) = 1..(Len(c) - 1)
      /\ Len(c) \in Nat \ {0} /\ Head(c) = c[1]
  OBVIOUS
<1>2. \A i \in 1..(Len(c) - 1) : Tail(c)[i] = c[i + 1] /\ i + 1 \in 1..Len(c)  BY <1>1
<1>3. \A i \in 1..Len(c) : i = 1 \/ (i - 1 \in 1..(Len(c) - 1) /\ c[i] = Tail(c)[i - 1])
  BY <1>1, <1>2
<1>4. ASSUME NEW k \in Queued(c)  PROVE k \in {Head(c)} \cup Queued(Tail(c))
  <2>1. PICK i \in 1..Len(c) : k = c[i]  BY <1>1 DEF Queued
  <2>2. CASE i = 1  BY <1>1, <2>1, <2>2
  <2>3. CASE i # 1  BY <1>1, <1>3, <2>1, <2>3 DEF Queued
  <2> QED BY <2>2, <2>3
<1>5. ASSUME NEW k \in Queued(Tail(c))  PROVE k \in Queued(c)
  <2>1. PICK i \in 1..(Len(c) - 1) : k = Tail(c)[i]  BY <1>1 DEF Queued
  <2>2. k = c[i + 1] /\ i + 1 \in 1..Len(c)  BY <1>2, <2>1
  <2> QED BY <1>1, <2>2 DEF Queued
<1>6. Head(c) \in Queued(c)
  <2>1. 1 \in 1..Len(c)  BY <1>1
  <2> QED BY <1>1, <2>1 DEF Queued
<1> QED BY <1>4, <1>5, <1>6

LEMMA QueuedAsk ==
  ASSUME NEW c \in Seq(Tasks), NEW s
  PROVE  /\ Queued(c) \subseteq Queued(c \o AskTask(s))
         /\ \A k \in Queued(c \o AskTask(s)) : k \in Queued(c) \/ k.kind = "schedule"
<1>1. CASE AskTask(s) = <<>>
  <2>1. c \o <<>> = c  OBVIOUS
  <2> QED BY <1>1, <2>1
<1>2. CASE AskTask(s) # <<>>
  <2> DEFINE k == ScheduleTask(Asks(s))
  <2>1. AskTask(s) = <<k>> /\ k.kind = "schedule"  BY <1>2 DEF AskTask, ScheduleTask
  <2>2. k \in Tasks
    <3>1. Asks(s) \in SUBSET Lines  BY DEF Asks, Due
    <3> QED BY <3>1 DEF Tasks
  <2> HIDE DEF k
  <2>3. c \o <<k>> = Append(c, k)  BY <2>2
  <2>4. Queued(c \o AskTask(s)) = Queued(c) \cup {k}  BY <2>1, <2>2, <2>3, QueuedAppend
  <2> QED BY <2>1, <2>4
<1> QED BY <1>1, <1>2

LEMMA QueuedNone == Queued(<<>>) = {}
BY DEF Queued

(* The tasks the host adds, and the two it leaves out: what it has run, and *)
(* what it forgets.                                                        *)
Added(k) ==
  \/ k \in Queued(chain) \/ k.kind \notin {"message", "timeout"}
  \/ TimerFires /\ k = TimeoutTask(timer)
  \/ Answering /\ k = MessageTask(stream.seq + 1, TakenFor(stream))

Left(k) == k \in Queued(chain') \/ (RunTimeout /\ k = Head(chain)) \/ ~up'

QueueMove ==
  /\ \A k \in Queued(chain') : Added(k)
  /\ \A k \in Queued(chain) : k.kind = "timeout" => Left(k)

LEMMA QueueKept ==
  ASSUME chain' = chain  PROVE  QueueMove
BY DEF QueueMove, Added, Left

LEMMA QueueAsked ==
  ASSUME Typed, NEW s, chain' = chain \o AskTask(s)  PROVE  QueueMove
<1>1. chain \in Seq(Tasks)  BY DEF Typed
<1>2. /\ Queued(chain) \subseteq Queued(chain')
      /\ \A k \in Queued(chain') : k \in Queued(chain) \/ k.kind = "schedule"
  BY <1>1, QueuedAsk
<1> QED BY <1>2 DEF QueueMove, Added, Left

LEMMA QueueAppended ==
  ASSUME Typed, NEW k \in Tasks, Added(k), chain' = Append(chain, k)  PROVE  QueueMove
<1>1. chain \in Seq(Tasks)  BY DEF Typed
<1>2. Queued(chain') = Queued(chain) \cup {k}  BY <1>1, QueuedAppend
<1> QED BY <1>2 DEF QueueMove, Added, Left

LEMMA ClientQueue ==
  ASSUME Typed, Client  PROVE  QueueMove
<1>1. CASE \E t \in Times : \/ ClientBoundary(t)
                            \/ \E playing \in BOOLEAN : ClientSync(t, playing)
  <2>1. chain' = chain \/ \E s : chain' = chain \o AskTask(s)
    BY <1>1 DEF ClientBoundary, ClientSync
  <2> QED BY <2>1, QueueKept, QueueAsked
<1>2. CASE \E t \in Times : ClientFinish(t)
  <2>1. PICK t \in Times : chain' = Append(chain, FinishTask(t))  BY <1>2 DEF ClientFinish
  <2>2. FinishTask(t) \in Tasks /\ FinishTask(t).kind = "finish"
    BY TasksExist DEF FinishTask
  <2>3. Added(FinishTask(t))  BY <2>2 DEF Added
  <2> QED BY <2>1, <2>2, <2>3, QueueAppended
<1>3. CASE ~(\E t \in Times : \/ ClientBoundary(t) \/ ClientFinish(t)
                              \/ \E playing \in BOOLEAN : ClientSync(t, playing))
  <2>1. chain' = chain
    BY <1>3 DEF Client, ClientStart, ClientPause, ClientResume, ClientSeek, ClientAbort,
                AudioFrame
  <2> QED BY <2>1, QueueKept
<1> QED BY <1>1, <1>2, <1>3

LEMMA TaskQueue ==
  ASSUME Typed, RunTask  PROVE  QueueMove
<1>1. PICK kind : Begin(kind) /\ (kind = "timeout" => RunTimeout)
  <2>1. CASE RunTimeout  BY <2>1 DEF RunTimeout
  <2>2. CASE ~RunTimeout
    <3>1. \E kind \in {"schedule", "message", "finish", "reconnect", "terminal"} : Begin(kind)
      BY <2>2 DEF RunTask, RunSchedule, RunMessage, RunFinish, RunReconnect, RunTerminal
    <3> QED BY <3>1
  <2> QED BY <2>1, <2>2
<1>2. /\ Tail(chain) \in Seq(Tasks) /\ chain # <<>> /\ chain \in Seq(Tasks)
      /\ Head(chain).kind = kind
  BY <1>1, HeadIsTyped DEF Typed
<1>3. Queued(chain) = {Head(chain)} \cup Queued(Tail(chain))  BY <1>2, QueuedTail
<1>4. /\ Queued(Tail(chain)) \subseteq Queued(chain')
      /\ \A k \in Queued(chain') : k \in Queued(Tail(chain)) \/ k.kind = "schedule"
  <2>1. CASE RunMessage
    <3>1. chain' = Tail(chain) \o <<>> \/ \E s : chain' = Tail(chain) \o AskTask(s)
      BY <2>1 DEF RunMessage
    <3>2. Tail(chain) \o <<>> = Tail(chain)  BY <1>2
    <3> QED BY <1>2, <3>1, <3>2, QueuedAsk
  <2>2. CASE ~RunMessage
    <3>1. chain' = Tail(chain)
      BY <2>2 DEF RunTask, RunSchedule, RunTimeout, RunFinish, RunReconnect, RunTerminal
    <3> QED BY <3>1
  <2> QED BY <2>1, <2>2
<1> QED BY <1>1, <1>2, <1>3, <1>4 DEF QueueMove, Added, Left

LEMMA ProviderQueue ==
  ASSUME Typed, Provider  PROVE  QueueMove
<1>1. PICK socket \in live : \/ ProviderAnswers(socket) \/ ProviderCloses(socket)
                             \/ ProviderErrors(socket) \/ ProviderTerminates(socket)
  BY DEF Provider
<1>2. CASE chain' = chain  BY <1>2, QueueKept
<1>3. CASE ProviderAnswers(socket) /\ chain' # chain
  <2> DEFINE k == MessageTask(stream.seq + 1, TakenFor(stream))
  <2>1. Answering /\ chain' = Append(chain, k)  BY <1>3 DEF ProviderAnswers, Answering
  <2>2. k \in Tasks
    <3>1. stream \in Streams /\ 0 \in Nat  BY DEF Typed, AdapterTyped
    <3>2. stream.seq \in Nat  BY <3>1, StreamFields
    <3>3. TakenFor(stream) \in Handles  BY <3>1, AdapterMethods
    <3> QED BY <3>2, <3>3, TasksExist
  <2>3. Added(k)  BY <2>1 DEF Added
  <2> HIDE DEF k
  <2> QED BY <2>1, <2>2, <2>3, QueueAppended
<1>4. CASE ~ProviderAnswers(socket) /\ chain' # chain
  <2>1. PICK k \in {ReconnectTask, TerminalTask} : chain' = Append(chain, k)
    BY <1>1, <1>4 DEF ProviderCloses, ProviderErrors, ProviderTerminates, SocketDropped
  <2>2. k \in Tasks /\ k.kind \in {"reconnect", "terminal"}
    BY <2>1, TasksExist DEF ReconnectTask, TerminalTask
  <2>3. Added(k)  BY <2>2 DEF Added
  <2> QED BY <2>1, <2>2, <2>3, QueueAppended
<1> QED BY <1>2, <1>3, <1>4

LEMMA StepQueue ==
  ASSUME Typed, [Next]_vars  PROVE  QueueMove
<1>1. CASE TimerFires
  <2>1. timer \in Handles  BY DEF Typed, AdapterTyped
  <2>2. TimeoutTask(timer) \in Tasks /\ Added(TimeoutTask(timer))
    BY <1>1, <2>1, TasksExist DEF Added
  <2>3. chain' = Append(chain, TimeoutTask(timer))  BY <1>1 DEF TimerFires
  <2> QED BY <2>2, <2>3, QueueAppended
<1>2. CASE Evict \/ Expire
  <2>1. chain' = <<>> /\ ~up'  BY <1>2 DEF Evict, Expire, Forget
  <2> QED BY <2>1, QueuedNone DEF QueueMove, Left
<1>3. CASE DialEnds \/ BackoffEnds \/ DrainEnds \/ Restore \/ UNCHANGED vars
  <2>1. chain' = chain
    BY <1>3 DEF DialEnds, StartConnected, RestoreConnected, Reconnected, RedialFails,
       DialFails, Attached, BackoffEnds, DrainEnds, Restore, vars
  <2> QED BY <2>1, QueueKept
<1> QED BY <1>1, <1>2, <1>3, ClientQueue, TaskQueue, ProviderQueue DEF Next, Over

-----------------------------------------------------------------------------
(* The commits that the session, the timer, the adapter and the chain name. *)

(* h names no commit, or one that was sent, by a stream that was dialed, and *)
(* the stream of the pending commit p if it names that one.                 *)
Known(h, sent, dialed, p) ==
  h = NoCommit \/ (/\ h.id \in 1..sent /\ h.gen \in 1..dialed
                   /\ h.id = p.id => h.gen = p.gen)

CommitsInv ==
  /\ Known(hs.pending, commits, dials, hs.pending)
  /\ Known(timer, commits, dials, hs.pending)
  /\ Known(stream.inFlight, commits, dials, hs.pending)
  /\ hs.pending # NoCommit /\ stream.inFlight # NoCommit =>
       hs.pending.id = stream.inFlight.id
  /\ stream.gen <= dials
  /\ dial["restore"] # 0 => /\ stream.sock = 0
                            /\ hs.pending # NoCommit => hs.pending.gen # stream.gen

TimeoutsInv ==
  \A k \in Queued(chain) : k.kind = "timeout" =>
    k.ack # NoCommit /\ Known(k.ack, commits, dials, hs.pending) /\ k.ack.id \in fired

LEMMA KnownKept ==
  ASSUME NEW c \in Nat, NEW d \in Nat, NEW c1 \in Nat, NEW d1 \in Nat, NEW p, NEW p1, NEW h,
         Known(h, c, d, p), c1 >= c, d1 >= d,
         p1 = p \/ p1 = NoCommit \/ p1.id = c + 1
  PROVE  Known(h, c1, d1, p1)
<1>1. CASE h = NoCommit  BY <1>1 DEF Known
<1>2. CASE h # NoCommit
  <2>1. h.id \in 1..c /\ h.gen \in 1..d /\ (h.id = p.id => h.gen = p.gen)
    BY <1>2 DEF Known
  <2>2. h.id \in 1..c1 /\ h.gen \in 1..d1 /\ h.id # 0 /\ h.id # c + 1  BY <2>1
  <2>3. h.id = p1.id => h.gen = p1.gen  BY <2>1, <2>2 DEF NoCommit
  <2> QED BY <2>2, <2>3 DEF Known
<1> QED BY <1>1, <1>2

LEMMA StepTimer ==
  ASSUME [Next]_vars
  PROVE  timer' \in {timer, NoCommit} \/ Commit
<1>1. CASE Client
  BY <1>1 DEF Client, ClientStart, ClientPause, ClientResume, ClientSeek, ClientFinish,
       ClientBoundary, ClientSync, ClientAbort, AudioFrame, host
<1>2. CASE RunTask
  BY <1>2 DEF RunTask, RunSchedule, RunMessage, RunTimeout, RunFinish, RunReconnect, RunTerminal
<1>3. CASE DialEnds \/ TimerFires \/ BackoffEnds \/ DrainEnds \/ Restore
  BY <1>3 DEF DialEnds, StartConnected, RestoreConnected, Reconnected, RedialFails, DialFails,
       Attached, TimerFires, BackoffEnds, DrainEnds, Restore
<1>4. CASE Provider \/ UNCHANGED vars
  BY <1>4 DEF Provider, ProviderAnswers, ProviderCloses, ProviderErrors, ProviderTerminates,
       vars, host
<1>5. CASE Evict \/ Expire  BY <1>5 DEF Evict, Expire, Forget
<1> QED BY <1>1, <1>2, <1>3, <1>4, <1>5 DEF Next, Over

LEMMA StepFired ==
  ASSUME [Next]_vars
  PROVE  fired' = fired \/ (TimerFires /\ fired' = fired \cup {timer.id})
<1>1. CASE Client
  BY <1>1 DEF Client, ClientStart, ClientPause, ClientResume, ClientSeek, ClientFinish,
       ClientBoundary, ClientSync, ClientAbort, AudioFrame, history
<1>2. CASE RunTask
  BY <1>2 DEF RunTask, RunSchedule, RunMessage, RunTimeout, RunFinish, RunReconnect,
              RunTerminal, history
<1>3. CASE DialEnds \/ TimerFires \/ BackoffEnds \/ DrainEnds \/ Restore
  BY <1>3 DEF DialEnds, StartConnected, RestoreConnected, Reconnected, RedialFails, DialFails,
       Attached, TimerFires, BackoffEnds, DrainEnds, Restore, history
<1>4. CASE Provider \/ UNCHANGED vars \/ Evict \/ Expire
  BY <1>4 DEF Provider, ProviderAnswers, ProviderCloses, ProviderErrors, ProviderTerminates,
       Evict, Expire, vars, history
<1> QED BY <1>1, <1>2, <1>3, <1>4 DEF Next, Over

(* The counters a step may raise, and the pending commit it may set. *)
LEMMA StepCounters ==
  ASSUME Typed, Conn, Lone, [Next]_vars
  PROVE  /\ {commits, commits', dials, dials'} \subseteq Nat
         /\ commits' >= commits /\ dials' >= dials
         /\ hs'.pending = hs.pending \/ hs'.pending = NoCommit
              \/ (Sends /\ hs'.pending.id = commits + 1)
         /\ ~Dialing => dials' = dials
         /\ Sends => Sending
         /\ Sending => Sends
<1>1. commits \in Nat /\ dials \in Nat
  BY SessionAssumption DEF Typed, AdapterTyped, ProviderTyped
<1>2. PendingMove  BY StepPending
<1>3. CASE Dialing
  <2>1. dials' = dials + 1 /\ commits' = commits  BY <1>3 DEF Dialing, DialOut
  <2> QED BY <1>1, <1>2, <1>3, <2>1 DEF PendingMove, Sends, Sending, Commit
<1>4. CASE Sending
  <2>1. dials' = dials /\ commits' = commits + 1  BY <1>4 DEF Sending, Commit
  <2> QED BY <1>1, <1>2, <1>4, <2>1 DEF PendingMove, Sends
<1>5. CASE ~Dialing /\ ~Sending
  <2>1. dials' = dials /\ commits' = commits
    BY <1>5, StepKinds DEF Answering, ProviderAnswers, Forgetting, Attaching, Attached, Calm
  <2> QED BY <1>1, <1>2, <1>5, <2>1 DEF PendingMove, Sends, Commit
<1> QED BY <1>3, <1>4, <1>5

LEMMA SentHandle ==
  ASSUME Typed, CommitsInv, Sends
  PROVE  /\ timer'.id = commits + 1 /\ stream'.inFlight = timer' /\ timer' # NoCommit
         /\ stream'.gen = stream.gen /\ commits' = commits + 1
         /\ \A d1 \in Nat : d1 >= dials =>
              /\ Known(timer', commits', d1, hs'.pending)
              /\ Known(hs'.pending, commits', d1, hs'.pending)
<1>1. /\ commits \in Nat /\ dials \in Nat /\ stream \in Streams /\ stream.gen \in Nat
      /\ stream.gen # 0 /\ stream.gen <= dials
  BY SessionAssumption, StreamFields
     DEF Typed, AdapterTyped, ProviderTyped, CommitsInv, Sends, CanCommit
<1>2. /\ timer' = Handle(stream, commits + 1) /\ stream' = Committed(stream, commits + 1)
      /\ commits' = commits + 1
  BY DEF Sends, Commit
<1>3. timer'.id = commits + 1 /\ timer'.gen = stream.gen  BY <1>2 DEF Handle
<1>4. stream'.inFlight = timer' /\ stream'.gen = stream.gen
  BY <1>1, <1>2 DEF Committed, Streams
<1>5. timer' # NoCommit  BY <1>1, <1>3 DEF NoCommit
<1>6. hs'.pending.id = commits + 1 /\ hs'.pending.gen = stream.gen  BY DEF Sends
<1>7. ASSUME NEW d1 \in Nat, d1 >= dials
      PROVE  commits + 1 \in 1..commits' /\ stream.gen \in 1..d1
  BY <1>1, <1>2, <1>7
<1> QED BY <1>2, <1>3, <1>4, <1>5, <1>6, <1>7 DEF Known

LEMMA StepCommits ==
  ASSUME Typed, Conn, Lone, CommitsInv, [Next]_vars  PROVE  CommitsInv'
<1>1. /\ {commits, commits', dials, dials'} \subseteq Nat
      /\ commits' >= commits /\ dials' >= dials
      /\ hs'.pending = hs.pending \/ hs'.pending = NoCommit
           \/ (Sends /\ hs'.pending.id = commits + 1)
      /\ stream \in Streams
  BY StepCounters DEF Typed, AdapterTyped
<1>2. ASSUME NEW h, Known(h, commits, dials, hs.pending)
      PROVE  Known(h, commits', dials', hs'.pending)
  BY <1>1, <1>2, KnownKept
<1>3. Known(NoCommit, commits', dials', hs'.pending)  BY DEF Known
<1>4. CASE Sends
  <2>1. dials' = dials /\ dial' = dial /\ Sending
    BY <1>1, <1>4, StepCounters DEF Sending
  <2>2. dial["restore"] = 0
    BY <1>4 DEF Sends, CanCommit, CommitsInv
  <2>3. Known(timer', commits', dials', hs'.pending)
        /\ Known(hs'.pending, commits', dials', hs'.pending)
    BY <1>1, <1>4, SentHandle
  <2>4. /\ stream'.inFlight = timer' /\ stream'.gen = stream.gen
        /\ hs'.pending.id = stream'.inFlight.id
    BY <1>4, SentHandle DEF Sends
  <2> QED BY <2>1, <2>2, <2>3, <2>4 DEF CommitsInv
<1>5. CASE ~Sends
  <2>1. hs'.pending \in {hs.pending, NoCommit} /\ commits' = commits
    BY <1>5, StepPending DEF PendingMove
  <2>2. Known(hs'.pending, commits', dials', hs'.pending)
    BY <1>2, <1>3, <2>1 DEF CommitsInv
  <2>3. Known(timer', commits', dials', hs'.pending)
    <3>1. timer' \in {timer, NoCommit}
      <4>1. ~Commit  BY <1>1, <2>1 DEF Commit
      <4> QED BY <4>1, StepTimer
    <3> QED BY <1>2, <1>3, <3>1 DEF CommitsInv
  <2>4. /\ stream'.inFlight \in {stream.inFlight, NoCommit} /\ stream'.gen <= dials'
        /\ dial'["restore"] # 0 =>
             /\ stream'.sock = 0
             /\ hs'.pending # NoCommit => hs'.pending.gen # stream'.gen
    <3>1. hs'.pending # NoCommit => hs'.pending.gen \in 1..dials
      BY <2>1 DEF CommitsInv, Known
    <3>2. stream.gen \in Nat /\ "restore" \in Dialers
      BY <1>1, StreamFields DEF Dialers
    <3>3. CASE Dialing
      <4>1. stream' = Fresh(stream, dials + 1, lastStt) /\ dials' = dials + 1
        BY <3>3 DEF Dialing, DialOut
      <4>2. /\ stream'.inFlight = NoCommit /\ stream'.gen = dials + 1
            /\ stream'.sock = stream.sock
        BY <4>1 DEF Fresh, NewAdapter
      <4>3. dial'["restore"] # 0 => stream'.sock = 0  BY <3>3, <4>2 DEF Dialing
      <4> QED BY <1>1, <3>1, <4>1, <4>2, <4>3
    <3>4. CASE Answering
      <4>1. stream' = Answered(stream) /\ dials' = dials /\ dial' = dial /\ live # {}
        BY <3>4 DEF Answering, ProviderAnswers, host
      <4>2. stream'.inFlight = NoCommit /\ stream'.gen = stream.gen
        BY <1>1, <4>1 DEF Answered, Streams
      <4>3. dial["restore"] = 0  BY <3>2, <4>1 DEF Conn, OneLink
      <4> QED BY <4>1, <4>2, <4>3 DEF CommitsInv
    <3>5. CASE Forgetting
      <4>1. stream'.inFlight = NoCommit /\ stream'.gen = 0 /\ dial'["restore"] = 0
        BY <3>2, <3>5 DEF Forgetting, Forget, NewAdapter
      <4> QED BY <1>1, <4>1
    <3>6. CASE Attaching
      <4>1. dial'["restore"] = 0
        BY <3>2, <3>6 DEF Attaching, Attached, Conn, OneLink, Typed, ProviderTyped
      <4>2. stream'.inFlight = stream.inFlight /\ stream'.gen <= dials /\ dials' = dials
        BY <1>1, <3>2, <3>6 DEF Attaching, Same, CommitsInv
      <4> QED BY <4>1, <4>2
    <3>7. CASE Calm
      <4>1. /\ stream'.inFlight = stream.inFlight /\ stream'.gen \in {stream.gen, 0}
            /\ stream'.sock \in {stream.sock, 0} /\ dials' = dials
            /\ dial'["restore"] # 0 => dial["restore"] # 0
        BY <3>2, <3>7 DEF Calm, Held, Same
      <4>2. stream'.gen <= dials'  BY <1>1, <3>2, <4>1 DEF CommitsInv
      <4>3. dial'["restore"] # 0 => stream'.sock = 0  BY <4>1 DEF CommitsInv
      <4>4. dial'["restore"] # 0 /\ hs'.pending # NoCommit => hs'.pending.gen # stream'.gen
        BY <2>1, <3>1, <4>1 DEF CommitsInv
      <4> QED BY <4>1, <4>2, <4>3, <4>4
    <3>8. ~Sending  BY <1>5, StepCounters
    <3> QED BY <3>3, <3>4, <3>5, <3>6, <3>7, <3>8, StepKinds
  <2>5. Known(stream'.inFlight, commits', dials', hs'.pending)
    BY <1>2, <1>3, <2>4 DEF CommitsInv
  <2>6. hs'.pending # NoCommit /\ stream'.inFlight # NoCommit =>
          hs'.pending.id = stream'.inFlight.id
    BY <2>1, <2>4 DEF CommitsInv
  <2> QED BY <2>2, <2>3, <2>4, <2>5, <2>6 DEF CommitsInv
<1> QED BY <1>4, <1>5

LEMMA StepTimeouts ==
  ASSUME Typed, Conn, Lone, CommitsInv, TimeoutsInv, [Next]_vars  PROVE  TimeoutsInv'
<1>1. /\ {commits, commits', dials, dials'} \subseteq Nat
      /\ commits' >= commits /\ dials' >= dials
      /\ hs'.pending = hs.pending \/ hs'.pending = NoCommit
           \/ (Sends /\ hs'.pending.id = commits + 1)
  BY StepCounters
<1>2. ASSUME NEW h, Known(h, commits, dials, hs.pending)
      PROVE  Known(h, commits', dials', hs'.pending)
  BY <1>1, <1>2, KnownKept
<1>3. ASSUME NEW k \in Queued(chain'), k.kind = "timeout"
      PROVE  k.ack # NoCommit /\ Known(k.ack, commits', dials', hs'.pending)
             /\ k.ack.id \in fired'
  <2>1. Added(k)  BY StepQueue DEF QueueMove
  <2>2. CASE k \in Queued(chain)
    BY <1>2, <1>3, <2>2, StepFired DEF TimeoutsInv
  <2>3. CASE TimerFires /\ k = TimeoutTask(timer)
    <3>1. k.ack = timer /\ timer # NoCommit /\ fired' = fired \cup {timer.id}
      BY <2>3 DEF TimerFires, TimeoutTask
    <3> QED BY <1>2, <3>1 DEF CommitsInv
  <2>4. k # MessageTask(stream.seq + 1, TakenFor(stream))  BY <1>3 DEF MessageTask
  <2> QED BY <1>3, <2>1, <2>2, <2>3, <2>4 DEF Added
<1> QED BY <1>3 DEF TimeoutsInv

-----------------------------------------------------------------------------
(* The answer that waits in the chain is that of the pending commit.       *)

MessagesInv ==
  ~Terminal(hs) =>
    /\ stream.emitting => lastStt <= stream.seq
    /\ \A k \in Queued(chain) : k.kind = "message" =>
         /\ k.ack = NoCommit \/ k.ack.id \in answered
         /\ k.ack # NoCommit /\ hs.pending # NoCommit => Matches(hs, k.ack) /\ Admitted(k)
         /\ stream.emitting => k.seq <= stream.seq

LEMMA MessageIsUrgent ==
  ASSUME NEW c, NEW k \in Queued(c), k.kind = "message"  PROVE  Urgent(c)
BY DEF Queued, Urgent

LEMMA StepLastStt ==
  ASSUME [Next]_vars
  PROVE  lastStt' = lastStt \/ (RunMessage /\ lastStt' = Head(chain).seq)
<1>1. CASE Client
  BY <1>1 DEF Client, ClientStart, ClientPause, ClientResume, ClientSeek, ClientFinish,
       ClientBoundary, ClientSync, ClientAbort, AudioFrame, host
<1>2. CASE RunTask
  BY <1>2 DEF RunTask, RunSchedule, RunMessage, RunTimeout, RunFinish, RunReconnect, RunTerminal
<1>3. CASE DialEnds \/ TimerFires \/ BackoffEnds \/ DrainEnds \/ Restore
  BY <1>3 DEF DialEnds, StartConnected, RestoreConnected, Reconnected, RedialFails, DialFails,
       Attached, TimerFires, BackoffEnds, DrainEnds, Restore
<1>4. CASE Provider \/ UNCHANGED vars \/ Evict \/ Expire
  BY <1>4 DEF Provider, ProviderAnswers, ProviderCloses, ProviderErrors, ProviderTerminates,
       Evict, Expire, vars, host
<1> QED BY <1>1, <1>2, <1>3, <1>4 DEF Next, Over

LEMMA StepSequence ==
  ASSUME Typed, Conn, Lone, MessagesInv, [Next]_vars, ~Terminal(hs)
  PROVE  stream'.emitting => lastStt' <= stream'.seq
<1>1. stream \in Streams /\ stream.seq \in Nat /\ lastStt \in Nat
  BY StreamFields DEF Typed, AdapterTyped, HostTyped
<1>2. ASSUME stream.emitting PROVE lastStt' <= stream.seq
  <2>1. CASE lastStt' = lastStt  BY <1>2, <2>1 DEF MessagesInv
  <2>2. CASE RunMessage /\ lastStt' = Head(chain).seq
    <3>1. Head(chain) \in Queued(chain) /\ Head(chain).kind = "message"
      BY <2>2, HeadIsQueued DEF RunMessage
    <3> QED BY <1>2, <2>2, <3>1 DEF MessagesInv
  <2> QED BY <2>1, <2>2, StepLastStt
<1>3. lastStt' \in Nat  BY StepMovesHost DEF HostTyped
<1>4. CASE Dialing
  <2>1. stream'.seq = lastStt /\ lastStt' = lastStt
    BY <1>4 DEF Dialing, DialOut, Fresh, NewAdapter
  <2> QED BY <1>1, <2>1
<1>5. CASE Sending
  BY <1>1, <1>2, <1>5 DEF Sending, Commit, Committed, Streams
<1>6. CASE Answering
  <2>1. stream'.seq = stream.seq + 1 /\ stream.emitting
    BY <1>1, <1>6 DEF Answering, ProviderAnswers, Answered, Streams
  <2> QED BY <1>1, <1>2, <1>3, <2>1
<1>7. CASE Forgetting  BY <1>7 DEF Forgetting, Forget, NewAdapter
<1>8. CASE Attaching \/ Calm
  BY <1>2, <1>8 DEF Attaching, Calm, Held, Same
<1> QED BY <1>4, <1>5, <1>6, <1>7, <1>8, StepKinds

LEMMA AnswerIsPending ==
  ASSUME Typed, Conn, Lone, OwedInv, CommitsInv, MessagesInv, ~Terminal(hs),
         [Next]_vars, Answering,
         NEW k, k = MessageTask(stream.seq + 1, TakenFor(stream))
  PROVE  /\ k.ack = NoCommit \/ k.ack.id \in answered'
         /\ k.ack # NoCommit /\ hs'.pending # NoCommit => Matches(hs', k.ack) /\ k.seq > lastStt'
         /\ stream'.emitting => k.seq <= stream'.seq
<1>1. stream \in Streams /\ stream.seq \in Nat /\ lastStt \in Nat
  BY StreamFields DEF Typed, AdapterTyped, HostTyped
<1>2. PICK socket \in live : ProviderAnswers(socket) /\ stream.emitting
  BY DEF Answering
<1> DEFINE due    == {o \in owed : o[1] = socket}
           answer == CHOOSE o \in due : \A p \in due : o[2] <= p[2]
<1>3. answer \in due  BY <1>2, LeastDue DEF ProviderAnswers
<1>4. /\ answered' = answered \cup {answer[2]} /\ hs' = hs /\ lastStt' = lastStt
      /\ stream' = Answered(stream)
  BY <1>2 DEF ProviderAnswers, host
<1> HIDE DEF answer
<1>5. stream.inFlight # NoCommit /\ stream.inFlight.id = answer[2]
  BY <1>2, <1>3 DEF OwedInv
<1>6. k.ack \in {NoCommit, stream.inFlight} /\ k.seq = stream.seq + 1
  BY DEF MessageTask, TakenFor
<1>7. k.ack = NoCommit \/ k.ack.id \in answered'  BY <1>4, <1>5, <1>6
<1>8. ASSUME k.ack # NoCommit, hs.pending # NoCommit  PROVE Matches(hs, k.ack)
  <2>1. k.ack = stream.inFlight  BY <1>6, <1>8
  <2>2. hs.pending.id = stream.inFlight.id  BY <1>5, <1>8 DEF CommitsInv
  <2>3. hs.pending.gen = stream.inFlight.gen  BY <1>5, <2>2 DEF CommitsInv, Known
  <2> QED BY <1>8, <2>1, <2>2, <2>3 DEF Matches
<1>9. k.seq > lastStt'
  <2>1. lastStt <= stream.seq  BY <1>2 DEF MessagesInv
  <2> QED BY <1>1, <1>4, <1>6, <2>1
<1>10. k.seq <= stream'.seq
  <2>1. stream'.seq = stream.seq + 1  BY <1>1, <1>4 DEF Answered, Streams
  <2> QED BY <1>1, <1>6, <2>1
<1> QED BY <1>4, <1>7, <1>8, <1>9, <1>10

LEMMA StepMessages ==
  ASSUME Typed, Conn, Lone, OwedInv, CommitsInv, MessagesInv, [Next]_vars, ~LateSpeech
  PROVE  MessagesInv'
<1> SUFFICES ASSUME ~Terminal(hs)' PROVE MessagesInv'
  BY DEF MessagesInv
<1>1. ~Terminal(hs)  BY StepMovesSession DEF SessionMove, Terminal
<1>2. stream'.emitting => lastStt' <= stream'.seq  BY <1>1, StepSequence
<1>3. CASE UNCHANGED vars
  <2>1. UNCHANGED <<hs, stream, lastStt, chain, answered>>  BY <1>3 DEF vars, host, history
  <2> QED BY <2>1 DEF MessagesInv, Matches, Admitted, Queued, Terminal
<1>4. CASE Provider
  <2>1. Quiet
    BY <1>4 DEF Provider, ProviderAnswers, ProviderCloses, ProviderErrors, ProviderTerminates
  <2>2. ~Urgent(chain)  BY <1>1, <2>1, CalmChain
  <2>3. ASSUME NEW k \in Queued(chain'), k.kind = "message"
        PROVE  /\ k.ack = NoCommit \/ k.ack.id \in answered'
               /\ k.ack # NoCommit /\ hs'.pending # NoCommit =>
                    Matches(hs', k.ack) /\ k.seq > lastStt'
               /\ stream'.emitting => k.seq <= stream'.seq
    <3>1. Added(k)  BY StepQueue DEF QueueMove
    <3>2. k \notin Queued(chain)  BY <2>2, <2>3, MessageIsUrgent
    <3>3. k # TimeoutTask(timer)  BY <2>3 DEF TimeoutTask
    <3>4. Answering /\ k = MessageTask(stream.seq + 1, TakenFor(stream))
      BY <2>3, <3>1, <3>2, <3>3 DEF Added
    <3> QED BY <1>1, <3>4, AnswerIsPending
  <2> QED BY <1>2, <2>3 DEF MessagesInv, Admitted, Matches, Queued
<1>5. CASE Client \/ RunTask \/ DialEnds \/ TimerFires \/ BackoffEnds \/ DrainEnds
           \/ Restore \/ Evict \/ Expire
  <2>1. ~Urgent(chain')
    <3>1. CASE Evict \/ Expire  BY <3>1, NotUrgent DEF Evict, Expire, Forget
    <3>2. CASE ~(Evict \/ Expire)  BY <1>1, <1>5, <3>2, ClientLone, TaskLone, AwaitLone
    <3> QED BY <3>1, <3>2
  <2>2. \A k \in Queued(chain') : k.kind # "message"  BY <2>1, MessageIsUrgent
  <2> QED BY <1>2, <2>2 DEF MessagesInv, Queued
<1> QED BY <1>3, <1>4, <1>5 DEF Next, Over

-----------------------------------------------------------------------------
(* What resolves the pending commit of a session that goes on.             *)

TimeoutQueued(c, id) == \E k \in Queued(c) : k.kind = "timeout" /\ k.ack.id = id

ResolvedInv ==
  Running /\ ~Terminal(hs) /\ hs.pending # NoCommit =>
    \/ timer.id = hs.pending.id
    \/ TimeoutQueued(chain, hs.pending.id)
    \/ dial["restore"] # 0

(* What may take away the timer. *)
LEMMA StepDisarms ==
  ASSUME Typed, [Next]_vars
  PROVE  \/ timer' = timer \/ Commit \/ ~up' \/ TimerFires
         \/ hs'.pending = NoCommit
         \/ RunMessage /\ Head(chain).ack # NoCommit
<1>1. CASE Client
  <2>1. ASSUME NEW t \in Times, ClientSeek(t)
        PROVE  timer' = timer \/ hs'.pending = NoCommit
    BY <2>1 DEF ClientSeek
  <2>2. CASE ~\E t \in Times : ClientSeek(t)
    BY <1>1, <2>2 DEF Client, ClientStart, ClientPause, ClientResume, ClientFinish,
         ClientBoundary, ClientSync, ClientAbort, AudioFrame, host
  <2> QED BY <2>1, <2>2
<1>2. CASE RunTask
  BY <1>2 DEF RunTask, RunSchedule, RunMessage, RunTimeout, RunFinish, RunReconnect, RunTerminal
<1>3. CASE DialEnds \/ TimerFires \/ BackoffEnds \/ DrainEnds \/ Restore
  BY <1>3 DEF DialEnds, StartConnected, RestoreConnected, Reconnected, RedialFails, DialFails,
       Attached, BackoffEnds, DrainEnds, Restore
<1>4. CASE Provider \/ UNCHANGED vars
  BY <1>4 DEF Provider, ProviderAnswers, ProviderCloses, ProviderErrors, ProviderTerminates,
       vars, host
<1>5. CASE Evict \/ Expire  BY <1>5 DEF Evict, Expire, Forget
<1> QED BY <1>1, <1>2, <1>3, <1>4, <1>5 DEF Next, Over

(* What may end the connection that a restore asked for. *)
LEMMA StepRestoring ==
  ASSUME Typed, Conn, Lone, [Next]_vars, dial["restore"] # 0
  PROVE  dial'["restore"] # 0 \/ RestoreConnected \/ ~up' \/ \E who \in Dialers : DialFails(who)
<1>1. "restore" \in Dialers /\ dial["start"] = 0 /\ dial["chain"] = 0
  BY DEF Dialers, Conn, OneLink
<1>2. CASE UNCHANGED vars \/ Client \/ RunTask \/ Provider \/ Evict \/ Expire
  <2>1. dial' = dial \/ Dialing \/ ~up'
    <3>1. CASE Client
      BY <3>1, <1>1 DEF Client, ClientStart, ClientPause, ClientResume, ClientSeek,
         ClientFinish, ClientBoundary, ClientSync, ClientAbort, AudioFrame, host, ClientMay,
         Conn, Ends, Unconnected
    <3>2. CASE ~Client
      BY <1>2, <3>2 DEF vars, host, provider, RunTask, RunSchedule, RunMessage, RunTimeout,
         RunFinish, RunReconnect, RunTerminal, Provider, ProviderAnswers, ProviderCloses,
         ProviderErrors, ProviderTerminates, Evict, Expire, Forget
    <3> QED BY <3>1, <3>2
  <2> QED BY <1>1, <2>1 DEF Dialing, Unconnected
<1>3. CASE StartConnected \/ Reconnected \/ RedialFails
  BY <1>1, <1>3 DEF StartConnected, Reconnected, RedialFails, Attached
<1>4. CASE TimerFires \/ DrainEnds
  BY <1>4 DEF TimerFires, DrainEnds, provider
<1>5. CASE BackoffEnds
  <2>1. dial' = dial \/ (~started /\ ~Terminal(hs))
    BY <1>5 DEF BackoffEnds, Terminal
  <2> QED BY <1>1, <2>1 DEF Conn, Ends, Unconnected
<1>6. CASE Restore
  BY <1>1, <1>6 DEF Restore, Conn, Ends, Unconnected
<1> QED BY <1>2, <1>3, <1>4, <1>5, <1>6 DEF Next, DialEnds, Over

(* A host that begins to run was restored. *)
LEMMA StepRuns ==
  ASSUME [Next]_vars, Running', ~Running  PROVE Restore
<1>1. ~Client /\ ~RunTask
  BY DEF Client, ClientStart, ClientPause, ClientResume, ClientSeek, ClientFinish,
     ClientBoundary, ClientSync, ClientAbort, AudioFrame, ClientMay, Quiet, RunTask,
     RunSchedule, RunMessage, RunTimeout, RunFinish, RunReconnect, RunTerminal, Begin
<1>2. ~DialEnds /\ ~TimerFires /\ ~BackoffEnds /\ ~DrainEnds /\ ~Provider
  BY DEF DialEnds, StartConnected, RestoreConnected, Reconnected, RedialFails, DialFails,
     TimerFires, BackoffEnds, DrainEnds, Quiet, Provider, ProviderAnswers, ProviderCloses,
     ProviderErrors, ProviderTerminates
<1>3. ~Evict /\ ~Expire /\ ~UNCHANGED vars
  BY DEF Evict, Expire, Forget, Running, vars, durable
<1> QED BY <1>1, <1>2, <1>3 DEF Next, Over

LEMMA RestoreResolves ==
  ASSUME Typed, Conn, CommitsInv, Restore, ~Terminal(hs), hs.pending # NoCommit
  PROVE  dial'["restore"] # 0 \/ hs'.pending = NoCommit
<1>1. dials + 1 # 0 /\ "restore" \in Dialers
  BY DEF Typed, ProviderTyped, Dialers
<1>2. CASE DialOut("restore")
  BY <1>1, <1>2 DEF DialOut, Typed, ProviderTyped
<1>3. CASE hs' = Orphaned(hs, 0)
  <2>1. hs.pending.gen # 0  BY DEF CommitsInv, Known
  <2> QED BY <1>3, <2>1, OrphanedSound DEF Typed, SessionTyped
<1> QED BY <1>2, <1>3 DEF Restore

LEMMA StepResolved ==
  ASSUME Typed, Conn, Lone, CommitsInv, TimeoutsInv, MessagesInv, ResolvedInv, [Next]_vars
  PROVE  ResolvedInv'
<1> SUFFICES ASSUME Running', ~Terminal(hs)', (hs.pending # NoCommit)'
             PROVE  \/ timer'.id = hs'.pending.id
                    \/ TimeoutQueued(chain', hs'.pending.id)
                    \/ dial'["restore"] # 0
  BY DEF ResolvedInv, TimeoutQueued, Queued
<1>1. up' /\ hs'.pending # NoCommit /\ ~Terminal(hs) /\ Sound(hs)
  BY StepMovesSession DEF Running, SessionMove, Terminal, Typed, SessionTyped
<1>2. CASE Sends  BY <1>2, SentHandle DEF Sends
<1>3. CASE ~Sends
  <2>1. hs'.pending = hs.pending /\ commits' = commits /\ hs.pending # NoCommit
    BY <1>1, <1>3, StepPending DEF PendingMove
  <2>2. ~Commit
    <3>1. commits \in Nat  BY SessionAssumption DEF Typed, AdapterTyped
    <3> QED BY <2>1, <3>1 DEF Commit
  <2>3. CASE ~Running
    BY <1>1, <2>1, <2>3, StepRuns, RestoreResolves
  <2>4. CASE Running /\ timer.id = hs.pending.id
    <3>1. CASE timer' = timer  BY <2>1, <2>4, <3>1
    <3>2. CASE TimerFires
      <4> DEFINE k == TimeoutTask(timer)
      <4>1. timer \in Handles /\ chain \in Seq(Tasks) /\ chain' = Append(chain, k)
        BY <3>2 DEF TimerFires, Typed, AdapterTyped
      <4>2. k \in Tasks /\ k.kind = "timeout" /\ k.ack.id = hs.pending.id
        BY <2>4, <4>1, TasksExist DEF TimeoutTask
      <4> HIDE DEF k
      <4>3. k \in Queued(chain')  BY <4>1, <4>2, QueuedAppend
      <4> QED BY <2>1, <4>2, <4>3 DEF TimeoutQueued
    <3>3. CASE RunMessage /\ Head(chain).ack # NoCommit
      <4> DEFINE m == Head(chain)
      <4>1. m \in Queued(chain) /\ m.kind = "message"
        BY <3>3, HeadIsQueued DEF RunMessage
      <4>2. Matches(hs, m.ack) /\ Admitted(m)
        BY <1>1, <2>1, <3>3, <4>1 DEF MessagesInv
      <4>3. Reduced(m) = Acknowledged(hs, m.ack)  BY <3>3, <4>2 DEF Reduced
      <4>4. Reduced(m).pending = NoCommit /\ Sound(Reduced(m))
        BY <1>1, <4>2, <4>3, AcknowledgedSound
      <4>5. hs'.pending = NoCommit
        BY <3>3, <4>4, ResolveMoves DEF RunMessage, Typed
      <4> QED BY <1>1, <4>5
    <3> QED BY <1>1, <2>2, <3>1, <3>2, <3>3, StepDisarms
  <2>5. CASE TimeoutQueued(chain, hs.pending.id)
    <3>1. PICK k \in Queued(chain) : k.kind = "timeout" /\ k.ack.id = hs.pending.id
      BY <2>5 DEF TimeoutQueued
    <3>2. Left(k)  BY <3>1, StepQueue DEF QueueMove
    <3>3. CASE k \in Queued(chain')  BY <2>1, <3>1, <3>3 DEF TimeoutQueued
    <3>4. CASE RunTimeout /\ k = Head(chain)
      <4> DEFINE s == CommitFailed(hs, k.ack, "timeout")
      <4>1. Matches(hs, k.ack)
        BY <2>1, <3>1 DEF TimeoutsInv, Known, Matches
      <4>2. "timeout" \in Reasons  BY DEF Reasons
      <4>3. Sound(s) /\ s.pending = NoCommit  BY <1>1, <4>1, <4>2, FailedSound
      <4>4. Resolve(s)  BY <3>4, <4>1 DEF RunTimeout
      <4>5. hs'.pending = NoCommit  BY <4>3, <4>4, ResolveMoves DEF Typed
      <4> QED BY <1>1, <4>5
    <3> QED BY <1>1, <3>2, <3>3, <3>4 DEF Left
  <2>6. CASE dial["restore"] # 0
    <3>1. CASE RestoreConnected
      <4>1. hs' = Orphaned(hs, stream.gen) /\ hs.pending.gen # stream.gen
        BY <2>1, <2>6, <3>1 DEF RestoreConnected, CommitsInv
      <4>2. hs'.pending = NoCommit  BY <1>1, <4>1, OrphanedSound
      <4> QED BY <1>1, <4>2
    <3>2. CASE \E who \in Dialers : DialFails(who)
      <4>1. hs' = Abort(hs)  BY <3>2 DEF DialFails
      <4>2. Terminal(hs')  BY <1>1, <4>1, AbortPlain
      <4> QED BY <4>2 DEF Terminal
    <3> QED BY <1>1, <2>6, <3>1, <3>2, StepRestoring
  <2> QED BY <1>1, <2>1, <2>3, <2>4, <2>5, <2>6 DEF ResolvedInv
<1> QED BY <1>2, <1>3

-----------------------------------------------------------------------------
(* The whole invariant. *)
Followed == Linked /\ CommitsInv /\ TimeoutsInv /\ MessagesInv /\ ResolvedInv

LEMMA InitFollowed == ASSUME Init PROVE CommitsInv /\ TimeoutsInv /\ MessagesInv /\ ResolvedInv
<1>1. /\ hs.pending = NoCommit /\ timer = NoCommit /\ stream.inFlight = NoCommit
      /\ stream.gen = 0 /\ dials = 0 /\ dial["restore"] = 0 /\ ~stream.emitting
      /\ chain = <<>>
  BY DEF Init, InitialSession, NewAdapter, Dialers
<1>2. CommitsInv  BY <1>1 DEF CommitsInv, Known
<1>3. TimeoutsInv /\ MessagesInv /\ ResolvedInv
  BY <1>1, QueuedNone DEF TimeoutsInv, MessagesInv, ResolvedInv
<1> QED BY <1>2, <1>3

LEMMA AlwaysFollowed == ASSUME ~LateSpeech PROVE Spec => []Followed
<1>1. Init => CommitsInv /\ TimeoutsInv /\ MessagesInv /\ ResolvedInv  BY InitFollowed
<1>2. Followed /\ [Next]_vars
        => (CommitsInv /\ TimeoutsInv /\ MessagesInv /\ ResolvedInv)'
  BY StepCommits, StepTimeouts, StepMessages, StepResolved DEF Followed, Linked
<1>3. Spec => []Linked  BY AlwaysLinked
<1>4. Spec => [](CommitsInv /\ TimeoutsInv /\ MessagesInv /\ ResolvedInv)
  <2>1. Linked /\ (CommitsInv /\ TimeoutsInv /\ MessagesInv /\ ResolvedInv) /\ [Next]_vars
          => (CommitsInv /\ TimeoutsInv /\ MessagesInv /\ ResolvedInv)'
    BY <1>2 DEF Followed
  <2> QED BY <1>1, <1>3, <2>1, PTL DEF Spec
<1> QED BY <1>3, <1>4, PTL DEF Followed

(* While a commit is pending, its timer is armed, its timeout is queued or  *)
(* the restore that fails it is under way: nothing else would retry it, and *)
(* no other commit is asked for meanwhile (applyCommitSent, the commit      *)
(* timer and invalidateOrphanedPendingCommit of session-host.ts).           *)
THEOREM PendingIsAlwaysResolved == ASSUME ~LateSpeech PROVE Spec => []PendingIsResolved
<1>1. ASSUME Followed PROVE PendingIsResolved
  <2> SUFFICES ASSUME TimeoutQueued(chain, hs.pending.id)
               PROVE  \E i \in 1..Len(chain) : /\ chain[i].kind = "timeout"
                                               /\ chain[i].ack.id = hs.pending.id
    BY <1>1 DEF Followed, ResolvedInv, PendingIsResolved
  <2>1. chain \in Seq(Tasks)  BY <1>1 DEF Followed, Linked, Typed
  <2>2. DOMAIN chain = 1..Len(chain)  BY <2>1
  <2> QED BY <2>2 DEF TimeoutQueued, Queued
<1> QED BY <1>1, AlwaysFollowed, PTL

LEMMA AnswerCounts ==
  ASSUME Followed, ByAnswer, ~Terminal(hs)  PROVE  hs.pending.id \in answered
<1>1. PICK k \in Queued(chain) : k.kind = "message" /\ Matches(hs, k.ack)
  BY DEF ByAnswer
<1>2. hs.pending # NoCommit /\ hs.pending.id = k.ack.id  BY <1>1 DEF Matches
<1>3. hs.pending.id # 0  BY <1>2 DEF Followed, CommitsInv, Known
<1>4. k.ack # NoCommit  BY <1>2, <1>3 DEF NoCommit
<1> QED BY <1>1, <1>2, <1>4 DEF Followed, MessagesInv

(* The watermark moves only for a commit the provider answered: a line is  *)
(* never scored as covered by audio nobody recognized (stt_final in        *)
(* session.ts, handleMessage in elevenlabs-karaoke-stt.ts).                *)
THEOREM CoverageIsAlwaysAnswered == ASSUME ~LateSpeech PROVE Spec => CoverageIsAnswered
<1>1. ASSUME Followed, [Next]_vars, hs'.watermark > hs.watermark
      PROVE  hs.pending.id \in answered
  <2>1. Typed /\ Conn  BY <1>1 DEF Followed, Linked
  <2>2. hs.watermark \in Nat  BY <2>1, SessionFields DEF Typed, SessionTyped, Sound
  <2>3. hs' # hs /\ hs'.watermark # hs.watermark  BY <1>1, <2>2
  <2>4. ~Terminal(hs)  BY <1>1, <2>1, <2>3, StepMovesSession DEF SessionMove
  <2>5. ByAnswer  BY <1>1, <2>1, <2>3, StepPending DEF PendingMove
  <2> QED BY <1>1, <2>4, <2>5, AnswerCounts
<1>2. Spec => []Followed  BY AlwaysFollowed
<1> QED BY <1>1, <1>2, PTL DEF Spec, CoverageIsAnswered

(* A pending commit is given up only for its own answer, its own timer, the *)
(* loss of its stream or a seek behind it (commit_failed and playback_seek  *)
(* in session.ts, invalidateOrphanedPendingCommit in session-host.ts).      *)
THEOREM CommitsAlwaysEndForAReason == ASSUME ~LateSpeech PROVE Spec => CommitsEndForAReason
<1>1. ASSUME Followed, [Next]_vars, hs.pending # NoCommit, hs'.pending # hs.pending
      PROVE  \/ hs.pending.id \in answered \cup fired
             \/ hs.pending.gen # stream'.gen
             \/ hs'.time < hs.pending.frontier
  <2>1. Typed /\ Conn  BY <1>1 DEF Followed, Linked
  <2>2. ~Terminal(hs)  BY <1>1, <2>1, StepMovesSession DEF SessionMove
  <2>3. ByAnswer \/ ByTimer \/ ByStream \/ BySeek
    BY <1>1, <2>1, StepPending DEF PendingMove, Sends
  <2>4. CASE ByAnswer  BY <1>1, <2>2, <2>4, AnswerCounts
  <2>5. CASE ByTimer
    BY <1>1, <2>5 DEF ByTimer, Matches, Followed, TimeoutsInv
  <2>6. CASE ByStream \/ BySeek  BY <2>6 DEF ByStream, BySeek
  <2> QED BY <2>3, <2>4, <2>5, <2>6
<1>2. Spec => []Followed  BY AlwaysFollowed
<1> QED BY <1>1, <1>2, PTL DEF Spec, CommitsEndForAReason
=============================================================================
