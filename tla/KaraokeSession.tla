---------------------------- MODULE KaraokeSession ----------------------------
(***************************************************************************)
(* A karaoke session while it runs: the session host                       *)
(* (application/src/karaoke-runtime/session-host.ts) with the reducer, the *)
(* speech-to-text adapter, the provider behind it, the client and the      *)
(* Durable Object that persists and restores it                            *)
(* (platform-cf/src/karaoke-attempt-do.ts).                                *)
(*                                                                         *)
(* The host runs in one JavaScript thread.  A client message, a provider   *)
(* message or a timer is handled only when the commit chain has nothing it *)
(* can run: it is empty, or its task waits for the network or for a timer. *)
(* Awaits of storage do not interleave, since the object's input gate is   *)
(* closed meanwhile; every await of the network splits an action in two.   *)
(***************************************************************************)
EXTENDS KaraokeSttStream, Sequences

CONSTANTS
  MaxSong,         \* bound: the song's last position
  MaxCommits,      \* bound: explicit commits of the session
  MaxDrops,        \* bound: provider connections lost
  MaxEvictions,    \* bound: losses of the object's memory
  MaxQueue,        \* bound: tasks that wait while the client sends more
  MaxAttempts,     \* MAX_RECONNECT_ATTEMPTS
  LateSpeech,      \* does a stream still speak after a retryable error?
  StrayEvents,     \* does the client start or seek after its finish?
  LateExpiry       \* does the session expire only when nothing is under way?

ASSUME SessionAssumption ==
  /\ {MaxSong, MaxCommits, MaxDrops, MaxEvictions, MaxQueue} \subseteq Nat
  /\ MaxAttempts \in Nat \ {0}
  /\ {LateSpeech, StrayEvents, LateExpiry} \subseteq BOOLEAN

Times   == 0..MaxSong
Dialers == {"start", "restore", "chain"}

VARIABLES
  hs,         \* the session state, persisted by every step that changes it
  outbox,     \* the completion reason of the outbox row, or "none"
  up,         \* is the host in memory?
  started,    \* sttStarted
  chain,      \* the tasks of commitChain that have not begun
  attempt,    \* the attempt of the reconnect under way, 0 for none
  dial,       \* for each place that awaits adapter.start: its generation, or 0
  draining,   \* who awaits adapter.close: "no", "chain" or "client"
  finishAt,   \* pendingFinish: {} or its time
  timer,      \* the commit whose timer is armed, or NoCommit
  buffer,     \* the end of the audio in reconnectBuffer, 0 when it is empty
  lastStt,    \* lastSttSequence
  stream,     \* the adapter
  live,       \* the sockets that can still deliver to the adapter
  owed,       \* <<socket, commit>>: commits the provider has not answered
  dials, commits, drops, evictions,
  finished,   \* the client has sent its finish
  answered,   \* history: the commits the provider answered
  fired       \* history: the commits whose timer fired

durable  == <<outbox, up, evictions>>
host     == <<started, attempt, dial, draining, finishAt, timer, buffer, lastStt>>
provider == <<live, owed, dials, commits, drops>>
history  == <<finished, answered, fired>>
vars     == <<hs, chain, stream, durable, host, provider, history>>

Reconnecting == attempt # 0
Blocked      == Reconnecting \/ draining = "chain"
Running      == up /\ outbox = "none"
Quiet        == Running /\ (chain = <<>> \/ Blocked)

-----------------------------------------------------------------------------
(* Tasks of the chain *)
ScheduleTask(lines)   == [kind |-> "schedule", lines |-> lines]
MessageTask(seq, ack) == [kind |-> "message", seq |-> seq, ack |-> ack]
TimeoutTask(commit)   == [kind |-> "timeout", ack |-> commit]
FinishTask(t)         == [kind |-> "finish", time |-> t]
ReconnectTask         == [kind |-> "reconnect"]
TerminalTask          == [kind |-> "terminal"]

AskTask(s)  == IF Asks(s) = {} THEN <<>> ELSE <<ScheduleTask(Asks(s))>>
Begin(kind) == /\ Running /\ ~Blocked /\ chain # <<>>
               /\ Head(chain).kind = kind

(* startStt up to adapter.start's await of the network *)
DialOut(who) ==
  /\ dials' = dials + 1
  /\ dial' = [dial EXCEPT ![who] = dials + 1]
  /\ stream' = Fresh(stream, dials + 1, lastStt)
  /\ started' = TRUE

(* The effect close_stt_stream and what follows it; the outbox gets reason *)
(* at once unless the adapter has a commit to drain.                       *)
CloseStream(who, reason) ==
  \/ /\ started /\ MustDrain(stream)
     /\ stream' = Draining(stream)
     /\ draining' = who
     /\ UNCHANGED <<live, started, outbox>>
  \/ /\ started /\ ~MustDrain(stream)
     /\ stream' = Shut(stream)
     /\ live' = live \ {stream.sock}
     /\ started' = FALSE
     /\ outbox' = reason
     /\ UNCHANGED draining
  \/ /\ ~started
     /\ outbox' = reason
     /\ UNCHANGED <<stream, live, started, draining>>

KeepStream == UNCHANGED <<stream, live, started, draining, outbox>>

-----------------------------------------------------------------------------
(* The client.  Its clock moves backwards only by a seek. *)
ClientMay  == Quiet /\ ~Terminal(hs) /\ Len(chain) < MaxQueue
Ahead(t)   == t >= hs.time
MayStray   == StrayEvents \/ ~finished

ClientStart_NotChecked(t) ==
  /\ ClientMay /\ Ahead(t) /\ MayStray
  /\ hs' = Start(hs, t)
  /\ DialOut("start")
  /\ UNCHANGED <<chain, durable, attempt, draining, finishAt, timer, buffer, lastStt,
                 live, owed, commits, drops, history>>

ClientStart(t) ==
  /\ ClientMay /\ Ahead(t) /\ MayStray
  /\ hs' = Start(hs, t)
  /\ IF started THEN UNCHANGED <<stream, dials, dial, started>>
                ELSE DialOut("start")
  /\ UNCHANGED <<chain, durable, attempt, draining, finishAt, timer, buffer, lastStt,
                 live, owed, commits, drops, history>>

ClientSync(t, playing) ==
  /\ ClientMay /\ Ahead(t)
  /\ hs' = PlaybackSync(hs, t, playing)
  /\ chain' = IF playing THEN chain \o AskTask(hs') ELSE chain
  /\ UNCHANGED <<stream, durable, host, provider, history>>

ClientBoundary(t) ==
  /\ ClientMay /\ Ahead(t)
  /\ hs' = LineBoundary(hs, t)
  /\ chain' = chain \o AskTask(hs')
  /\ UNCHANGED <<stream, durable, host, provider, history>>

ClientPause(t) ==
  /\ ClientMay /\ Ahead(t)
  /\ hs' = Pause(hs, t)
  /\ UNCHANGED <<chain, stream, durable, host, provider, history>>

ClientResume(t) ==
  /\ ClientMay /\ Ahead(t)
  /\ hs' = Resume(hs, t)
  /\ UNCHANGED <<chain, stream, durable, host, provider, history>>

ClientSeek(t) ==
  /\ ClientMay /\ MayStray
  /\ hs' = Seek(hs, t)
  /\ timer' = IF hs'.pending = NoCommit THEN NoCommit ELSE timer
  /\ UNCHANGED <<chain, stream, durable, started, attempt, dial, draining, finishAt,
                 buffer, lastStt, provider, history>>

ClientFinish(t) ==
  /\ ClientMay /\ Ahead(t) /\ ~finished
  /\ chain' = Append(chain, FinishTask(t))
  /\ finished' = TRUE
  /\ UNCHANGED <<hs, stream, durable, host, provider, answered, fired>>

(* An abort of the client leaves the outbox to the expiry alarm. *)
ClientAbort ==
  /\ ClientMay
  /\ hs' = Abort(hs)
  /\ CloseStream("client", "none")
  /\ UNCHANGED <<chain, up, evictions, attempt, dial, finishAt, timer, buffer, lastStt,
                 owed, dials, commits, drops, history>>

(* A frame ends near the song's position; the client's audio may lag it.   *)
(* Audio is sent only while a further commit is within the bound.           *)
AudioFrame(t) ==
  /\ Quiet /\ hs.status = "recording" /\ commits < MaxCommits
  /\ t + 1 >= hs.time /\ t <= hs.time + 1
  /\ IF Reconnecting
     THEN buffer' = Later(buffer, t) /\ UNCHANGED stream
     ELSE stream' = Heard(stream, t) /\ UNCHANGED buffer
  /\ UNCHANGED <<hs, chain, durable, started, attempt, dial, draining, finishAt, timer,
                 lastStt, provider, history>>

-----------------------------------------------------------------------------
(* The commit chain *)
Commit ==     \* adapter.commit() granted, then applyCommitSent
  LET id == commits + 1
  IN  /\ commits' = id
      /\ stream' = Committed(stream, id)
      /\ owed' = IF stream.sock \in live THEN owed \cup {<<stream.sock, id>>} ELSE owed
      /\ timer' = Handle(stream, id)

Sent(lines) == CommitSent(hs, [Handle(stream, commits + 1) EXCEPT !.lines = lines])

RunSchedule ==
  /\ Begin("schedule")
  /\ IF hs.pending = NoCommit /\ hs.status \in {"recording", "finalizing"} /\ CanCommit(stream)
     THEN /\ Commit
          /\ hs' = Sent(Head(chain).lines)
     ELSE UNCHANGED <<hs, stream, commits, owed, timer>>
  /\ chain' = Tail(chain)
  /\ UNCHANGED <<durable, started, attempt, dial, draining, finishAt, buffer, lastStt,
                 live, dials, drops, history>>

Resolve_NoFinish(s) == hs' = s /\ UNCHANGED finishAt /\ KeepStream

(* maybeFinishAfterResolve, from the state s the resolution left *)
Resolve(s) ==
  LET finishing == finishAt # {} /\ s.pending = NoCommit
  IN  /\ finishAt' = IF finishing THEN {} ELSE finishAt
      /\ hs' = IF finishing THEN Finish(s, CHOOSE t \in finishAt : TRUE) ELSE s
      /\ IF finishing /\ ~Terminal(s) THEN CloseStream("chain", "completed")
                                      ELSE KeepStream

(* handleSttEvent: the sequence guard, then the reducer *)
Admitted(m) == m.seq > lastStt

Reduced(m) == IF ~Admitted(m) THEN hs
              ELSE IF m.ack = NoCommit THEN UncorrelatedFinal(hs)
              ELSE Acknowledged(hs, m.ack)

(* processAdapterMessage: a message the guard or the reducer refuses still *)
(* clears the commit timer.                                                *)
RunMessage ==
  /\ Begin("message")
  /\ LET m     == Head(chain)
         gated == Admitted(m) /\ (m.ack = NoCommit \/ Matches(hs, m.ack))
     IN  /\ lastStt' = IF Admitted(m) THEN m.seq ELSE lastStt
         /\ chain' = Tail(chain) \o (IF gated THEN AskTask(Reduced(m)) ELSE <<>>)
         /\ IF m.ack # NoCommit
            THEN timer' = NoCommit /\ Resolve(Reduced(m))
            ELSE hs' = Reduced(m) /\ UNCHANGED <<timer, finishAt>> /\ KeepStream
  /\ UNCHANGED <<up, evictions, attempt, dial, buffer, owed, dials, commits, drops, history>>

RunTimeout ==
  /\ Begin("timeout")
  /\ LET commit == Head(chain).ack
     IN  IF Matches(hs, commit)
         THEN Resolve(CommitFailed(hs, commit, "timeout"))
         ELSE UNCHANGED <<hs, finishAt>> /\ KeepStream
  /\ chain' = Tail(chain)
  /\ UNCHANGED <<up, evictions, attempt, dial, timer, buffer, lastStt,
                 owed, dials, commits, drops, history>>

RunFinish_NoWait ==
  /\ Begin("finish")
  /\ chain' = Tail(chain)
  /\ LET t == Head(chain).time
     IN  IF Terminal(hs)
         THEN UNCHANGED <<hs, commits, owed, timer, finishAt>> /\ KeepStream
         ELSE IF hs.pending = NoCommit /\ CanCommit(stream)
         THEN /\ Commit
              /\ hs' = Finish(Sent({}), t)
              /\ finishAt' = {t}
              /\ UNCHANGED <<live, started, draining, outbox>>
         ELSE /\ hs' = Finish(hs, t)
              /\ UNCHANGED <<commits, owed, timer>>
              /\ UNCHANGED finishAt /\ CloseStream("chain", "completed")
  /\ UNCHANGED <<up, evictions, attempt, dial, buffer, lastStt, dials, drops, history>>

(* beginFinish: commit the tail first, unless a commit is in flight *)
RunFinish ==
  /\ Begin("finish")
  /\ chain' = Tail(chain)
  /\ LET t == Head(chain).time
     IN  IF Terminal(hs)
         THEN UNCHANGED <<hs, commits, owed, timer, finishAt>> /\ KeepStream
         ELSE IF hs.pending = NoCommit /\ CanCommit(stream)
         THEN /\ Commit
              /\ hs' = Finish(Sent({}), t)
              /\ finishAt' = {t}
              /\ UNCHANGED <<live, started, draining, outbox>>
         ELSE /\ hs' = Finish(hs, t)
              /\ UNCHANGED <<commits, owed, timer>>
              /\ IF hs.pending # NoCommit
                 THEN finishAt' = {t} /\ KeepStream
                 ELSE UNCHANGED finishAt /\ CloseStream("chain", "completed")
  /\ UNCHANGED <<up, evictions, attempt, dial, buffer, lastStt, dials, drops, history>>

RunReconnect ==
  /\ Begin("reconnect")
  /\ chain' = Tail(chain)
  /\ IF hs.status = "recording" THEN attempt' = 1 /\ started' = FALSE
                                ELSE UNCHANGED <<attempt, started>>
  /\ UNCHANGED <<hs, stream, durable, dial, draining, finishAt, timer, buffer, lastStt,
                 provider, history>>

RunTerminal ==
  /\ Begin("terminal")
  /\ chain' = Tail(chain)
  /\ IF hs.status = "recording"
     THEN hs' = Abort(hs) /\ CloseStream("chain", "failed")
     ELSE UNCHANGED hs /\ KeepStream
  /\ UNCHANGED <<up, evictions, attempt, dial, finishAt, timer, buffer, lastStt,
                 owed, dials, commits, drops, history>>

-----------------------------------------------------------------------------
(* Ends of the awaits of the network and of the timers *)
TimerFires ==
  /\ Quiet /\ timer # NoCommit
  /\ chain' = Append(chain, TimeoutTask(timer))
  /\ timer' = NoCommit
  /\ fired' = fired \cup {timer.id}
  /\ UNCHANGED <<hs, stream, durable, started, attempt, dial, draining, finishAt, buffer,
                 lastStt, provider, finished, answered>>

(* invalidateOrphanedPendingCommit *)
Orphaned(s, gen) ==
  IF s.pending = NoCommit \/ s.pending.gen = gen THEN s
  ELSE CommitFailed(s, s.pending, "provider_failed")

(* flushReconnectBuffer *)
Replayed(a) == IF buffer = 0 THEN a ELSE Heard(a, buffer)

(* reconnectStt after a backoff: it gives up when the song is not playing, *)
(* and takes a stream the client started meanwhile for its own.            *)
BackoffEnds ==
  /\ Running /\ Reconnecting /\ dial["chain"] = 0
  /\ \/ /\ hs.status # "recording"
        /\ attempt' = 0 /\ buffer' = 0
        /\ UNCHANGED <<hs, dials, dial, stream, started>>
     \/ /\ hs.status = "recording" /\ ~started
        /\ DialOut("chain")
        /\ UNCHANGED <<hs, attempt, buffer>>
     \/ /\ hs.status = "recording" /\ started
        /\ hs' = Orphaned(hs, stream.gen)
        /\ stream' = Replayed(stream)
        /\ attempt' = 0 /\ buffer' = 0
        /\ UNCHANGED <<dials, dial, started>>
  /\ UNCHANGED <<chain, durable, draining, finishAt, timer, lastStt,
                 live, owed, commits, drops, history>>

Attached(who) ==
  /\ dial[who] # 0
  /\ dial' = [dial EXCEPT ![who] = 0]
  /\ live' = live \cup {dial[who]}
  /\ UNCHANGED <<chain, durable, started, draining, finishAt, timer, lastStt,
                 owed, dials, commits, drops, history>>

StartConnected ==
  /\ Quiet /\ Attached("start")
  /\ stream' = [stream EXCEPT !.sock = dial["start"]]
  /\ UNCHANGED <<hs, attempt, buffer>>

RestoreConnected_KeepsPending ==
  /\ Quiet /\ Attached("restore")
  /\ stream' = [stream EXCEPT !.sock = dial["restore"]]
  /\ UNCHANGED <<hs, attempt, buffer>>

RestoreConnected ==
  /\ Quiet /\ Attached("restore")
  /\ stream' = [stream EXCEPT !.sock = dial["restore"]]
  /\ hs' = Orphaned(hs, stream.gen)
  /\ UNCHANGED <<attempt, buffer>>

Reconnected ==
  /\ Running /\ Attached("chain")
  /\ stream' = Replayed([stream EXCEPT !.sock = dial["chain"]])
  /\ hs' = Orphaned(hs, stream.gen)
  /\ attempt' = 0 /\ buffer' = 0

(* A dial of start or restore that fails aborts the session. *)
DialFails(who) ==
  /\ Quiet /\ who # "chain" /\ dial[who] # 0
  /\ dial' = [dial EXCEPT ![who] = 0]
  /\ started' = FALSE
  /\ hs' = Abort(hs)
  /\ outbox' = IF hs'.status = "aborted" THEN "failed" ELSE outbox
  /\ UNCHANGED <<chain, stream, up, evictions, attempt, draining, finishAt, timer, buffer,
                 lastStt, provider, history>>

RedialFails_OneMore ==
  /\ Running /\ dial["chain"] # 0
  /\ dial' = [dial EXCEPT !["chain"] = 0]
  /\ started' = FALSE
  /\ IF attempt <= MaxAttempts
     THEN attempt' = attempt + 1 /\ UNCHANGED <<hs, outbox, buffer>>
     ELSE /\ attempt' = 0 /\ buffer' = 0
          /\ hs' = Abort(hs)
          /\ outbox' = IF hs'.status = "aborted" THEN "failed" ELSE outbox
  /\ UNCHANGED <<chain, stream, up, evictions, draining, finishAt, timer, lastStt,
                 provider, history>>

RedialFails ==
  /\ Running /\ dial["chain"] # 0
  /\ dial' = [dial EXCEPT !["chain"] = 0]
  /\ started' = FALSE
  /\ IF attempt < MaxAttempts
     THEN attempt' = attempt + 1 /\ UNCHANGED <<hs, outbox, buffer>>
     ELSE /\ attempt' = 0 /\ buffer' = 0
          /\ hs' = Abort(hs)
          /\ outbox' = IF hs'.status = "aborted" THEN "failed" ELSE outbox
  /\ UNCHANGED <<chain, stream, up, evictions, draining, finishAt, timer, lastStt,
                 provider, history>>

(* adapter.close goes on: the commit was answered or the drain timed out *)
DrainEnds ==
  /\ Quiet /\ draining # "no"
  /\ stream' = Shut(stream)
  /\ live' = live \ {stream.sock}
  /\ started' = FALSE
  /\ draining' = "no"
  /\ outbox' = CASE draining = "client"        -> outbox
                 [] hs.status = "finalized"    -> "completed"
                 [] OTHER                      -> "failed"
  /\ UNCHANGED <<hs, chain, up, evictions, attempt, dial, finishAt, timer, buffer, lastStt,
                 owed, dials, commits, drops, history>>

-----------------------------------------------------------------------------
(* The provider.  Its messages reach the adapter while it has an emitter.   *)
(* A socket that reported a retryable error is not closed by the adapter;   *)
(* with LateSpeech it still delivers.                                       *)
ProviderAnswers(socket) ==
  LET due    == {o \in owed : o[1] = socket}
      answer == CHOOSE o \in due : \A p \in due : o[2] <= p[2]
  IN  /\ Quiet /\ socket \in live /\ due # {}
      /\ owed' = owed \ {answer}
      /\ answered' = answered \cup {answer[2]}
      /\ IF stream.emitting
         THEN /\ stream' = Answered(stream)
              /\ chain' = Append(chain, MessageTask(stream.seq + 1, TakenFor(stream)))
         ELSE UNCHANGED <<stream, chain>>
      /\ UNCHANGED <<hs, durable, host, live, dials, commits, drops, finished, fired>>

(* socketDropped, then onSttUnexpectedClose *)
SocketDropped ==
  /\ stream' = Dropped(stream)
  /\ chain' = IF Drops(stream) /\ ~Reconnecting /\ hs.status = "recording"
              THEN Append(chain, ReconnectTask) ELSE chain

ProviderCloses(socket) ==
  /\ Quiet /\ socket \in live /\ drops < MaxDrops
  /\ drops' = drops + 1
  /\ live' = live \ {socket}
  /\ SocketDropped
  /\ UNCHANGED <<hs, durable, host, owed, dials, commits, history>>

ProviderErrors(socket) ==
  /\ Quiet /\ socket \in live /\ stream.emitting /\ drops < MaxDrops
  /\ drops' = drops + 1
  /\ live' = IF LateSpeech THEN live ELSE live \ {socket}
  /\ SocketDropped
  /\ UNCHANGED <<hs, durable, host, owed, dials, commits, history>>

ProviderTerminates(socket) ==
  /\ Quiet /\ socket \in live /\ stream.emitting /\ drops < MaxDrops
  /\ drops' = drops + 1
  /\ stream' = Terminated(stream)
  /\ live' = live \ {stream.sock}
  /\ chain' = IF hs.status = "recording" THEN Append(chain, TerminalTask) ELSE chain
  /\ UNCHANGED <<hs, durable, host, owed, dials, commits, history>>

-----------------------------------------------------------------------------
(* The Durable Object *)
Forget ==            \* the object's memory and its connections are gone
  /\ up' = FALSE
  /\ started' = FALSE /\ chain' = <<>> /\ attempt' = 0
  /\ dial' = [d \in Dialers |-> 0]
  /\ draining' = "no" /\ finishAt' = {} /\ timer' = NoCommit /\ buffer' = 0
  /\ stream' = NewAdapter /\ live' = {} /\ owed' = {}

Evict ==
  /\ Quiet /\ evictions < MaxEvictions
  /\ evictions' = evictions + 1
  /\ Forget
  /\ UNCHANGED <<hs, outbox, lastStt, dials, commits, drops, history>>

(* ensureHost on the next message of the client *)
Restore ==
  /\ ~up /\ outbox = "none"
  /\ up' = TRUE
  /\ IF hs.status = "recording"
     THEN DialOut("restore") /\ UNCHANGED hs
     ELSE hs' = Orphaned(hs, 0) /\ UNCHANGED <<dials, dial, stream, started>>
  /\ UNCHANGED <<chain, outbox, evictions, attempt, draining, finishAt, timer, buffer,
                 lastStt, live, owed, commits, drops, history>>

UnderWay == \/ chain # <<>> \/ Blocked \/ draining # "no" \/ timer # NoCommit
            \/ \E d \in Dialers : dial[d] # 0

(* The alarm at the session's expiry finds no outbox row.  The object drops *)
(* its host; what that host still does has no effect any more.              *)
Expire ==
  /\ outbox = "none"
  /\ up => Quiet
  /\ LateExpiry => ~UnderWay
  /\ outbox' = "abandoned"
  /\ Forget
  /\ UNCHANGED <<hs, evictions, lastStt, dials, commits, drops, history>>

Over == outbox # "none" /\ UNCHANGED vars

-----------------------------------------------------------------------------
Init ==
  /\ hs = InitialSession /\ outbox = "none" /\ up = TRUE
  /\ started = FALSE /\ chain = <<>> /\ attempt = 0
  /\ dial = [d \in Dialers |-> 0]
  /\ draining = "no" /\ finishAt = {} /\ timer = NoCommit /\ buffer = 0 /\ lastStt = 0
  /\ stream = NewAdapter /\ live = {} /\ owed = {}
  /\ dials = 0 /\ commits = 0 /\ drops = 0 /\ evictions = 0
  /\ finished = FALSE /\ answered = {} /\ fired = {}

Client ==
  \/ \E t \in Times : \/ ClientStart(t) \/ ClientPause(t) \/ ClientResume(t)
                      \/ ClientSeek(t) \/ ClientFinish(t) \/ ClientBoundary(t)
                      \/ AudioFrame(t)
                      \/ \E playing \in BOOLEAN : ClientSync(t, playing)
  \/ ClientAbort

RunTask == \/ RunSchedule \/ RunMessage \/ RunTimeout \/ RunFinish
           \/ RunReconnect \/ RunTerminal

DialEnds == \/ StartConnected \/ RestoreConnected \/ Reconnected \/ RedialFails
            \/ \E who \in Dialers : DialFails(who)

Provider == \E socket \in live : \/ ProviderAnswers(socket) \/ ProviderCloses(socket)
                                 \/ ProviderErrors(socket) \/ ProviderTerminates(socket)

Next == \/ Client \/ RunTask \/ DialEnds \/ TimerFires \/ BackoffEnds \/ DrainEnds
        \/ Provider \/ Evict \/ Restore \/ Expire \/ Over

Spec == Init /\ [][Next]_vars

(* The event loop runs what is queued, every due timer is served in turn,   *)
(* a request to the network returns or fails, and the alarm that initialize *)
(* set fires.  The client and the provider owe nothing.                     *)
Fairness == /\ WF_vars(RunTask) /\ WF_vars(BackoffEnds)
            /\ SF_vars(TimerFires) /\ SF_vars(DialEnds) /\ SF_vars(DrainEnds)
            /\ SF_vars(Expire)

FairSpec == Spec /\ Fairness

-----------------------------------------------------------------------------
(* The values of the variables. *)
TypeOK ==
  /\ hs \in SessionStates /\ stream \in Streams
  /\ outbox \in {"none", "completed", "failed", "abandoned"}
  /\ {up, started, finished} \subseteq BOOLEAN
  /\ attempt \in 0..MaxAttempts /\ dial \in [Dialers -> Nat]
  /\ draining \in {"no", "chain", "client"}
  /\ finishAt \subseteq Times /\ Cardinality(finishAt) <= 1
  /\ timer.id \in 0..commits /\ buffer \in Times /\ lastStt \in Nat
  /\ live \subseteq 1..dials /\ owed \subseteq (1..dials) \X (1..commits)
  /\ commits \in 0..MaxCommits /\ drops \in 0..MaxDrops /\ evictions \in 0..MaxEvictions
  /\ answered \subseteq 1..commits /\ fired \subseteq 1..commits

(* The watermark moves only over audio whose commit the provider answered:  *)
(* a late, duplicated or misplaced answer never vouches for lines that were *)
(* not recognized (session.ts stt_final, adapter handleMessage).            *)
CoverageIsAnswered ==
  [][hs'.watermark > hs.watermark => hs.pending.id \in answered]_vars

(* A pending commit ends because it was answered, because its own timer     *)
(* fired, because its stream is gone or because a seek went behind it;      *)
(* never by the timer or the failure of another commit.                     *)
CommitsEndForAReason ==
  [][hs.pending # NoCommit /\ hs'.pending # hs.pending =>
       \/ hs.pending.id \in answered \cup fired
       \/ hs.pending.gen # stream'.gen
       \/ hs'.time < hs.pending.frontier]_vars

(* While a commit is pending something is under way that resolves it: its   *)
(* timer, its queued timeout, or the restore that will fail it.  Nothing    *)
(* else retries it, and a commit is never asked for while one is pending.   *)
PendingIsResolved ==
  (Running /\ ~Terminal(hs) /\ hs.pending # NoCommit) =>
    \/ timer.id = hs.pending.id
    \/ \E i \in 1..Len(chain) : /\ chain[i].kind = "timeout"
                                /\ chain[i].ack.id = hs.pending.id
    \/ dial["restore"] # 0

(* The session holds at most one provider stream, whatever the order of     *)
(* start, restore and reconnect.                                            *)
OneStream == Cardinality(live) + Cardinality({d \in Dialers : dial[d] # 0}) <= 1

(* A completed session has a score for every line and drained its commits.  *)
CompletedIsWhole ==
  outbox = "completed" => /\ hs.status = "finalized"
                          /\ hs.pending = NoCommit
                          /\ \A l \in Lines : hs.score[l] # "none"

(* A finish is followed by its summary, or by a failure or an abort: the    *)
(* commit it waits for is always resolved and the finish taken up again; it *)
(* is never left to the expiry alarm, which scores the session zero.        *)
FinishCompletes ==
  hs.status = "finalizing" ~> (outbox \in {"completed", "failed"} \/ hs.status = "aborted")
=============================================================================
