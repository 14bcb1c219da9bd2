------------------------- MODULE KaraokeFinalization -------------------------
(***************************************************************************)
(* From the end of a karaoke session to its rows in Postgres: the outbox   *)
(* and the alarm of the session's Durable Object                           *)
(* (packages/platform-cf/src/karaoke-attempt-do.ts), its retries           *)
(* (karaoke-finalization-retry.ts), the two transactions it drives         *)
(* (karaoke-repository.ts) and the recovery sweep of the jobs worker       *)
(* (karaoke-finalization-recovery.ts).                                     *)
(*                                                                         *)
(* Times are counted down: a tick is the base delay of a retry, left[s] is *)
(* what the object's clock has to run before it reads expiresAt, a wait or *)
(* an alarm of 0 is due.  The object's clock is Skew ticks behind the one  *)
(* of the API and of Postgres.  All the sessions were reserved at once.    *)
(***************************************************************************)
EXTENDS Integers, FiniteSets

CONSTANTS
  Sessions,      \* session ids, numbers, in the order of session_id
  Lost,          \* sessions whose initialize call never reached the object
  MayRevoke,     \* sessions whose account may lose its access to the song
  Lifetime,      \* expires_at - created_at, and MAX_SESSION_MS
  Skew,          \* lag of the object's clock
  MaxDelay,      \* KARAOKE_FINALIZATION_RETRY_MAX_MS
  AttemptLimit,  \* KARAOKE_FINALIZATION_LOCAL_ATTEMPT_LIMIT
  Exhaustion,    \* KARAOKE_FINALIZATION_RECOVERY_ENABLED of the object
  Sweeping,      \* and of the jobs worker
  BatchLimit,    \* KARAOKE_FINALIZATION_RECOVERY_BATCH_LIMIT
  MaxCrashes     \* bound: losses of an object's memory

ASSUME FinalizationAssumption ==
  /\ Sessions \subseteq Nat /\ IsFiniteSet(Sessions)
  /\ {Lost, MayRevoke} \subseteq SUBSET Sessions
  /\ {Skew, MaxCrashes} \subseteq Nat
  /\ {Lifetime, MaxDelay, AttemptLimit, BatchLimit} \subseteq Nat \ {0}
  /\ {Exhaustion, Sweeping} \subseteq BOOLEAN

Axes    == {"score", "recording"}
Reasons == {"completed", "failed", "abandoned"}
Axis    == [state : {"pending", "stored", "exhausted"},
            attempts : 0..AttemptLimit, wait : 0..MaxDelay]
Fresh   == [state |-> "pending", attempts |-> 0, wait |-> 0]

Earlier(a, b) == IF a <= b THEN a ELSE b

(* An alarm lies within the lifetime or a retry's delay; Never is no alarm. *)
Never == Lifetime + MaxDelay + 1

VARIABLES
  known,     \* does the object hold its karaoke_session row?
  host,      \* does a session host run, which may still end the session?
  left,      \* until the object's clock reads expiresAt
  reason,    \* completionReason of the outbox row, "none" without a row
  axis,      \* its two axes
  alarm,     \* the alarm of the object, or Never
  handler,   \* what the alarm handler waits for, or "idle"
  archive,   \* recording axis pending and due when flushOutbox read the row
  txn,       \* the latest transaction sent to Postgres for an axis
  attempt,   \* completion_reason of the karaoke_attempts row, or "none"
  recording, \* has the karaoke_recordings row left the state pending?
  access,    \* is the account still entitled to the song?
  batch,     \* candidates the sweep under way has still to redrive
  crashes

outbox   == <<reason, axis>>
postgres == <<txn, attempt, recording, access>>
vars     == <<known, host, left, outbox, alarm, handler, archive, postgres,
              batch, crashes>>

TypeOK ==
  /\ known \in [Sessions -> BOOLEAN] /\ host \in [Sessions -> BOOLEAN]
  /\ left \in [Sessions -> 0..(Lifetime + Skew)]
  /\ reason \in [Sessions -> Reasons \cup {"none"}]
  /\ axis \in [Sessions -> [Axes -> Axis]]
  /\ alarm \in [Sessions -> 0..Never]
  /\ handler \in [Sessions -> Axes \cup {"idle", "archiving"}]
  /\ archive \in [Sessions -> BOOLEAN]
  /\ txn \in [Sessions -> [Axes -> {"none", "sent", "done"}]]
  /\ attempt \in [Sessions -> Reasons \cup {"none"}]
  /\ recording \in [Sessions -> {"pending", "reconciled"}]
  /\ access \in [Sessions -> BOOLEAN]
  /\ batch \subseteq Sessions /\ crashes \in 0..MaxCrashes

Init ==
  /\ known = [s \in Sessions |-> FALSE] /\ host = [s \in Sessions |-> FALSE]
  /\ left = [s \in Sessions |-> Lifetime + Skew]
  /\ reason = [s \in Sessions |-> "none"]
  /\ axis = [s \in Sessions |-> [a \in Axes |-> Fresh]]
  /\ alarm = [s \in Sessions |-> Never]
  /\ handler = [s \in Sessions |-> "idle"]
  /\ archive = [s \in Sessions |-> FALSE]
  /\ txn = [s \in Sessions |-> [a \in Axes |-> "none"]]
  /\ attempt = [s \in Sessions |-> "none"]
  /\ recording = [s \in Sessions |-> "pending"]
  /\ access = [s \in Sessions |-> TRUE]
  /\ batch = {} /\ crashes = 0

-----------------------------------------------------------------------------
(* Retries *)
RetryDelay_Uncapped(attempts) == 2 ^ (attempts - 1)

RetryDelay(attempts) ==
  IF 2 ^ (attempts - 1) \in 0..MaxDelay THEN 2 ^ (attempts - 1) ELSE MaxDelay

(* karaokeFinalizationFailureTransition; the count is not followed beyond   *)
(* the limit, where it makes no difference any more.                        *)
Failed(x, retain) ==
  LET attempts == Earlier(x.attempts + 1, AttemptLimit)
  IN  IF Exhaustion /\ ~retain /\ attempts >= AttemptLimit
      THEN [state |-> "exhausted", attempts |-> attempts, wait |-> 0]
      ELSE [state |-> "pending", attempts |-> attempts, wait |-> RetryDelay(attempts)]

Stored(x) == [x EXCEPT !.state = "stored"]

PendingWaits(axes) == {axes[a].wait : a \in {b \in Axes : axes[b].state = "pending"}}
Settled(axes)      == \A a \in Axes : axes[a].state = "stored"
Due(x)             == x.state = "pending" /\ x.wait = 0

Scheduled_Latest(axes, current) ==
  IF PendingWaits(axes) = {} THEN current
  ELSE CHOOSE w \in PendingWaits(axes) : \A v \in PendingWaits(axes) : v <= w

(* scheduleOutboxAlarm: the alarm it leaves *)
Scheduled(axes, current) ==
  IF PendingWaits(axes) = {} THEN current
  ELSE CHOOSE w \in PendingWaits(axes) : \A v \in PendingWaits(axes) : w <= v

-----------------------------------------------------------------------------
(* The object *)
Initialize(s) ==
  /\ s \notin Lost /\ ~known[s]
  /\ known' = [known EXCEPT ![s] = TRUE]
  /\ host' = [host EXCEPT ![s] = TRUE]
  /\ alarm' = [alarm EXCEPT ![s] = Earlier(left[s], Lifetime)]
  /\ UNCHANGED <<left, outbox, handler, archive, postgres, batch, crashes>>

(* ensureHost, on a message or a connection of the client *)
HostReturns(s) ==
  /\ known[s] /\ reason[s] = "none" /\ ~host[s]
  /\ host' = [host EXCEPT ![s] = TRUE]
  /\ UNCHANGED <<known, left, outbox, alarm, handler, archive, postgres, batch, crashes>>

FirstReason_Latest(s, r) == r

FirstReason(s, r) == IF reason[s] = "none" THEN r ELSE reason[s]

(* enqueueFinalization by a host, also by one the alarm already dropped *)
HostEnds(s, r) ==
  /\ host[s]
  /\ host' = [host EXCEPT ![s] = FALSE]
  /\ reason' = [reason EXCEPT ![s] = FirstReason(s, r)]
  /\ alarm' = [alarm EXCEPT ![s] = 0]
  /\ UNCHANGED <<known, left, axis, handler, archive, postgres, batch, crashes>>

(* flushOutbox is through; current is the alarm it leaves when all is stored *)
Leave(s, axes, current) ==
  /\ handler' = [handler EXCEPT ![s] = "idle"]
  /\ alarm' = [alarm EXCEPT ![s] = IF Settled(axes) THEN current
                                   ELSE Scheduled(axes, current)]

(* The alarm handler up to its first await of Postgres *)
AlarmFires(s) ==
  /\ alarm[s] = 0 /\ handler[s] = "idle"
  /\ LET expires == reason[s] = "none" /\ left[s] = 0
         current == IF expires THEN 0 ELSE Never
     IN  /\ reason' = [reason EXCEPT ![s] = IF expires THEN "abandoned" ELSE @]
         /\ IF reason'[s] = "none"
            THEN /\ alarm' = [alarm EXCEPT ![s] = Never]
                 /\ UNCHANGED <<handler, archive, txn>>
            ELSE /\ archive' = [archive EXCEPT ![s] = Due(axis[s]["recording"])]
                 /\ \/ /\ Due(axis[s]["score"])
                       /\ handler' = [handler EXCEPT ![s] = "score"]
                       /\ txn' = [txn EXCEPT ![s] = [@ EXCEPT !["score"] = "sent"]]
                       /\ alarm' = [alarm EXCEPT ![s] = current]
                    \/ /\ ~Due(axis[s]["score"]) /\ archive'[s]
                       /\ handler' = [handler EXCEPT ![s] = "archiving"]
                       /\ alarm' = [alarm EXCEPT ![s] = current]
                       /\ UNCHANGED txn
                    \/ /\ ~Due(axis[s]["score"]) /\ ~archive'[s]
                       /\ Leave(s, axis[s], current)
                       /\ UNCHANGED txn
  /\ UNCHANGED <<known, host, left, axis, attempt, recording, access, batch, crashes>>

(* The answer to a transaction is taken or lost with its caller. *)
Over(t) == IF t = "done" THEN "none" ELSE t

(* The awaits of axis a are over and it became x; the recording is next,    *)
(* by what flushOutbox read when it began.                                  *)
Continue(s, a, x) ==
  /\ axis' = [axis EXCEPT ![s] = [@ EXCEPT ![a] = x]]
  /\ txn' = [txn EXCEPT ![s] = [@ EXCEPT ![a] = Over(txn[s][a])]]
  /\ IF a = "score" /\ archive[s]
     THEN handler' = [handler EXCEPT ![s] = "archiving"] /\ UNCHANGED alarm
     ELSE Leave(s, [axis[s] EXCEPT ![a] = x], alarm[s])
  /\ UNCHANGED <<known, host, left, reason, archive, attempt, recording, access,
                 batch, crashes>>

ArchiveFinished(s) ==
  /\ handler[s] = "archiving"
  /\ handler' = [handler EXCEPT ![s] = "recording"]
  /\ txn' = [txn EXCEPT ![s] = [@ EXCEPT !["recording"] = "sent"]]
  /\ UNCHANGED <<known, host, left, outbox, alarm, archive, attempt, recording, access,
                 batch, crashes>>

Acknowledged_Unasked(s, a) ==
  /\ handler[s] = a
  /\ Continue(s, a, Stored(axis[s][a]))

Acknowledged(s, a) ==
  /\ handler[s] = a /\ txn[s][a] = "done"
  /\ Continue(s, a, Stored(axis[s][a]))

At(s, a) == handler[s] = a \/ (a = "recording" /\ handler[s] = "archiving")

(* A failure that says nothing of the operation: the axis is retained.      *)
Unanswered(s, a) ==
  /\ At(s, a)
  /\ Continue(s, a, Failed(axis[s][a], TRUE))

(* The transaction finds the account no longer entitled to the song, or the *)
(* archive cannot be opened.                                                *)
Refused(s, a) ==
  /\ \/ a = "score" /\ handler[s] = "score" /\ txn[s]["score"] = "sent" /\ ~access[s]
     \/ a = "recording" /\ handler[s] = "archiving"
  /\ Continue(s, a, Failed(axis[s][a], FALSE))

(* The object loses its memory.  An alarm whose handler was cut off fires   *)
(* again, unless the handler had set another one.                           *)
Crash(s) ==
  /\ known[s] /\ crashes < MaxCrashes /\ (host[s] \/ handler[s] # "idle")
  /\ crashes' = crashes + 1
  /\ host' = [host EXCEPT ![s] = FALSE]
  /\ handler' = [handler EXCEPT ![s] = "idle"]
  /\ alarm' = [alarm EXCEPT ![s] = IF handler[s] # "idle" /\ @ = Never THEN 0 ELSE @]
  /\ txn' = [txn EXCEPT ![s] = [a \in Axes |-> Over(txn[s][a])]]
  /\ UNCHANGED <<known, left, outbox, archive, attempt, recording, access, batch>>

-----------------------------------------------------------------------------
(* Postgres.  A transaction may commit after its caller stopped waiting.    *)
Committed(s, a) == IF handler[s] = a THEN "done" ELSE "none"

FinalizeAttempt(s) ==
  /\ txn[s]["score"] = "sent" /\ access[s]
  /\ attempt' = [attempt EXCEPT ![s] = IF @ = "none" THEN reason[s] ELSE @]
  /\ txn' = [txn EXCEPT ![s] = [@ EXCEPT !["score"] = Committed(s, "score")]]
  /\ UNCHANGED <<known, host, left, outbox, alarm, handler, archive, recording, access,
                 batch, crashes>>

ReconcileRecording(s) ==
  /\ txn[s]["recording"] = "sent"
  /\ recording' = [recording EXCEPT ![s] = "reconciled"]
  /\ txn' = [txn EXCEPT ![s] = [@ EXCEPT !["recording"] = Committed(s, "recording")]]
  /\ UNCHANGED <<known, host, left, outbox, alarm, handler, archive, attempt, access,
                 batch, crashes>>

Revoke(s) ==
  /\ s \in MayRevoke /\ access[s]
  /\ access' = [access EXCEPT ![s] = FALSE]
  /\ UNCHANGED <<known, host, left, outbox, alarm, handler, archive, txn, attempt,
                 recording, batch, crashes>>

-----------------------------------------------------------------------------
(* The recovery sweep.  karaoke_sessions.status is "completed" as soon as   *)
(* the attempt row exists.                                                  *)
Expired(s)    == attempt[s] = "none" /\ left[s] <= Skew
Unrecorded(s) == attempt[s] # "none" /\ recording[s] = "pending"
Candidates    == {s \in Sessions : Expired(s) \/ Unrecorded(s)}

(* ORDER BY due_at, kind_order, session_id: a recording is due since its    *)
(* session was created.                                                     *)
Before(s, t) == \/ Unrecorded(s) /\ ~Unrecorded(t)
                \/ (Unrecorded(s) <=> Unrecorded(t)) /\ s < t

FirstCandidates ==
  {s \in Candidates : Cardinality({t \in Candidates : Before(t, s)}) < BatchLimit}

SweepStarts ==
  /\ Sweeping /\ batch = {}
  /\ batch' = FirstCandidates
  /\ UNCHANGED <<known, host, left, outbox, alarm, handler, archive, postgres, crashes>>

Rearmed_StaysExhausted(x) ==
  IF x.state = "exhausted" THEN [x EXCEPT !.attempts = 0, !.wait = 0] ELSE x

Rearmed_Again(x) == IF x.state # "pending" THEN Fresh ELSE x

Rearmed(x) == IF x.state = "exhausted" THEN Fresh ELSE x

Redrive_Missing(s) ==
  /\ s \in batch
  /\ batch' = batch \ {s}
  /\ axis' = [axis EXCEPT ![s] = [a \in Axes |-> Rearmed(axis[s][a])]]
  /\ alarm' = [alarm EXCEPT ![s] = IF reason[s] = "none" THEN 0 ELSE Scheduled(axis'[s], @)]
  /\ UNCHANGED <<known, host, left, reason, handler, archive, postgres, crashes>>

(* redriveFinalization *)
Redrive(s) ==
  /\ s \in batch
  /\ batch' = batch \ {s}
  /\ axis' = [axis EXCEPT ![s] = [a \in Axes |-> Rearmed(axis[s][a])]]
  /\ alarm' = [alarm EXCEPT ![s] = IF ~known[s] THEN @
                                  ELSE IF reason[s] = "none" THEN 0
                                  ELSE Scheduled(axis'[s], @)]
  /\ UNCHANGED <<known, host, left, reason, handler, archive, postgres, crashes>>

(* The call on the object fails, and the sweep goes on. *)
RedriveFails(s) ==
  /\ s \in batch
  /\ batch' = batch \ {s}
  /\ UNCHANGED <<known, host, left, outbox, alarm, handler, archive, postgres, crashes>>

(* The job's timeout *)
SweepStops ==
  /\ batch # {}
  /\ batch' = {}
  /\ UNCHANGED <<known, host, left, outbox, alarm, handler, archive, postgres, crashes>>

-----------------------------------------------------------------------------
Less(n) == IF n > 0 THEN n - 1 ELSE 0

Tick ==
  /\ \E s \in Sessions : \/ left[s] > 0 \/ alarm[s] \notin {0, Never}
                         \/ \E a \in Axes : axis[s][a].wait > 0
  /\ left' = [s \in Sessions |-> Less(left[s])]
  /\ alarm' = [s \in Sessions |-> IF alarm[s] = Never THEN Never ELSE Less(alarm[s])]
  /\ axis' = [s \in Sessions |-> [a \in Axes |->
                [state |-> axis[s][a].state, attempts |-> axis[s][a].attempts,
                 wait |-> Less(axis[s][a].wait)]]]
  /\ UNCHANGED <<known, host, reason, handler, archive, postgres, batch, crashes>>

Object(s) ==
  \/ Initialize(s) \/ HostReturns(s) \/ HostEnds(s, "completed") \/ HostEnds(s, "failed")
  \/ AlarmFires(s) \/ ArchiveFinished(s) \/ Crash(s)
  \/ \E a \in Axes : Acknowledged(s, a) \/ Unanswered(s, a) \/ Refused(s, a)

Database(s) == FinalizeAttempt(s) \/ ReconcileRecording(s) \/ Revoke(s)

Sweep == SweepStarts \/ SweepStops \/ \E s \in Sessions : Redrive(s) \/ RedriveFails(s)

Next == Tick \/ Sweep \/ \E s \in Sessions : Object(s) \/ Database(s)

Spec == Init /\ [][Next]_vars

(* Time passes, cron starts the sweep, a set alarm fires; a request that is *)
(* repeated for ever is at times served and answered.                       *)
Fairness ==
  /\ WF_vars(Tick) /\ WF_vars(SweepStarts)
  /\ \A s \in Sessions :
       /\ WF_vars(AlarmFires(s))
       /\ SF_vars(Redrive(s))
       /\ SF_vars(FinalizeAttempt(s)) /\ SF_vars(ArchiveFinished(s))
       /\ SF_vars(ReconcileRecording(s))
       /\ SF_vars(\E a \in Axes : Acknowledged(s, a))
       /\ WF_vars(\E a \in Axes : Unanswered(s, a))

FairSpec == Spec /\ Fairness

-----------------------------------------------------------------------------
(* The attempt Postgres records ended for the first reason the object gave, *)
(* however late another ending or the expiry arrives, however often the     *)
(* transaction is sent: a learner's completed attempt is never replaced by  *)
(* an abandoned one, nor the reverse.                                       *)
KeepsTheReason ==
  \A s \in Sessions : /\ reason[s] # "none" => reason'[s] = reason[s]
                      /\ attempt'[s] \in {"none", reason'[s]}

AttemptKeepsTheReason == [][KeepsTheReason]_vars

Pending(s)   == \E a \in Axes : axis[s][a].state = "pending"
InPostgres(s, a) == IF a = "score" THEN attempt[s] # "none" ELSE recording[s] # "pending"

(* An axis counts as stored only when Postgres has it: a retry, a late      *)
(* commit or a crash between the commit and its answer never hides a row    *)
(* that is missing.                                                         *)
StoredIsInPostgres ==
  \A s \in Sessions : \A a \in Axes : axis[s][a].state = "stored" => InPostgres(s, a)

(* An outbox with a pending axis is never asleep: the alarm handler runs,   *)
(* or the alarm is set and comes no later than the first retry is due.      *)
(* The alarm is the only thing that wakes the object by itself, and redrive,*)
(* a late ending, the flush and a crash all write it.                       *)
PendingHasAlarm ==
  \A s \in Sessions :
    reason[s] # "none" /\ Pending(s) /\ handler[s] = "idle" =>
      /\ alarm[s] # Never
      /\ \A a \in Axes : axis[s][a].state = "pending" => alarm[s] <= axis[s][a].wait

(* What keeps the two invariants inductive: an object without its row does  *)
(* nothing, only what an outbox holds is sent, and an answer comes from a   *)
(* row that exists; a request for the score is made of an axis that is due; *)
(* an alarm set while the handler runs comes early enough too.              *)
OnlyKnown ==
  \A s \in Sessions :
    /\ host[s] \/ alarm[s] # Never \/ reason[s] # "none" => known[s]
    /\ handler[s] # "idle" \/ (\E a \in Axes : txn[s][a] # "none") => reason[s] # "none"

AnswersAreInPostgres ==
  \A s \in Sessions :
    /\ attempt[s] \in {"none", reason[s]}
    /\ \A a \in Axes : txn[s][a] = "done" => InPostgres(s, a)

WokenInTime ==
  \A s \in Sessions :
    /\ handler[s] = "score" => Due(axis[s]["score"])
    /\ reason[s] # "none" /\ (handler[s] = "idle" \/ alarm[s] # Never) =>
         \A a \in Axes : axis[s][a].state = "pending" => alarm[s] <= axis[s][a].wait

FinalizationInv == /\ TypeOK /\ OnlyKnown /\ AnswersAreInPostgres
                   /\ StoredIsInPostgres /\ WokenInTime

(* An object, its alarm, the transactions and the sweep together implement  *)
(* SessionOutcome: one outcome for good, recorded under its own reason, and *)
(* no step, not even a redrive or a failure that is counted while another   *)
(* half is awaited, takes back what the object knows to be stored.          *)
Outcome == INSTANCE SessionOutcome WITH
  outcome    <- reason,
  recorded   <- attempt,
  reconciled <- {s \in Sessions : recording[s] = "reconciled"},
  believed   <- {p \in Sessions \X Axes : axis[p[1]][p[2]].state = "stored"}

ImplementsSessionOutcome == Outcome!Spec

(* Every session that reached its object ends with an attempt and a         *)
(* reconciled recording in Postgres, through exhausted retries, crashes and *)
(* a clock that runs behind, as long as the account keeps its access.       *)
EveryAttemptIsRecorded ==
  \A s \in Sessions \ MayRevoke :
    known[s] ~> (attempt[s] # "none" /\ recording[s] # "pending")
=============================================================================
