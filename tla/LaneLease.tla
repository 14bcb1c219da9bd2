------------------------------ MODULE LaneLease ------------------------------
(***************************************************************************)
(* The scheduled-lane lease of the jobs worker: the Durable Object that    *)
(* arbitrates one lane (packages/platform-cf/src/cron-lock-do.ts, pure     *)
(* decision in cron-lock.ts) and the ticks that run jobs under it          *)
(* (apps/jobs-worker/src/index.ts, runScheduledEffect and its helpers).    *)
(*                                                                         *)
(* A runner is ONE cron tick for the lane: its owner string is a fresh     *)
(* UUID, so a runner never fires twice.  Every call on the object is       *)
(* request, execution, reply; a caller that stops waiting does not undo    *)
(* the execution.  The object never reads a clock: it compares the times   *)
(* its callers send, the event's scheduledTime for an acquisition and      *)
(* Date.now() for a renewal.                                               *)
(***************************************************************************)
EXTENDS Integers, FiniteSets

CONSTANTS
  Runners,        \* cron ticks, each with its own owner UUID
  None,           \* the owner of a lease row that does not exist
  TTL,            \* LANE_LEASE_TTL_MS
  RenewInterval,  \* sleep between renewals
  RenewDeadline,  \* how long a renewal is awaited
  MaxLag,         \* latest the grant of a tick arrives after its scheduledTime
  MaxStall,       \* latest a due timer or settled promise is handled
  Period,         \* scheduledTime is a multiple of this
  JobsPerTick,    \* due jobs of the lane
  MaxTime         \* bound on the clock

ASSUME LaneAssumption ==
  /\ None \notin Runners
  /\ {TTL, RenewInterval, RenewDeadline, Period, JobsPerTick} \subseteq Nat \ {0}
  /\ {MaxLag, MaxStall, MaxTime} \subseteq Nat

VARIABLES
  now,         \* real time, the same for every isolate
  lease,       \* the row of table lease (owner None: no row)
  fence,       \* the row of table lease_fence, which release leaves alone
  pc,          \* where each tick is in runScheduledEffect
  sched,       \* its event.scheduledTime
  call,        \* its outstanding call on the object
  held,        \* state.currentLease.generation
  renewal,     \* its renewal fiber
  timer,       \* when that fiber's sleep or deadline is due
  leaseLost,   \* state.leaseLost
  releaseSafe, \* state.releaseSafe
  jobsLeft     \* jobs of the for loop not yet settled

vars == <<now, lease, fence, pc, sched, call, held, renewal, timer,
          leaseLost, releaseSafe, jobsLeft>>

runnerState == <<sched, held, renewal, timer, leaseLost, releaseSafe, jobsLeft>>

Lease   == [owner : Runners \cup {None}, expiresAt : Nat, generation : Nat]
NoLease == [owner |-> None, expiresAt |-> 0, generation |-> 0]

Call    == [op : {"none", "acquire", "renew", "release"},
            phase : {"none", "sent", "answered"},
            stamp : Nat, token : Nat, grant : Nat]
NoCall  == [op |-> "none", phase |-> "none", stamp |-> 0, token |-> 0, grant |-> 0]

Request(op, stamp, token) ==
  [op |-> op, phase |-> "sent", stamp |-> stamp, token |-> token, grant |-> 0]

(* The one invariant that only says which values the variables take.       *)
TypeOK ==
  /\ now \in Nat
  /\ lease \in Lease
  /\ fence \in Nat
  /\ pc \in [Runners -> {"idle", "acquiring", "running", "draining", "releasing", "done"}]
  /\ sched \in [Runners -> Nat]
  /\ call \in [Runners -> Call]
  /\ held \in [Runners -> Nat]
  /\ renewal \in [Runners -> {"off", "sleeping", "waiting"}]
  /\ timer \in [Runners -> Nat]
  /\ leaseLost \in [Runners -> BOOLEAN]
  /\ releaseSafe \in [Runners -> BOOLEAN]
  /\ jobsLeft \in [Runners -> Nat]

Init ==
  /\ now = 0
  /\ lease = NoLease
  /\ fence = 0
  /\ pc = [r \in Runners |-> "idle"]
  /\ sched = [r \in Runners |-> 0]
  /\ call = [r \in Runners |-> NoCall]
  /\ held = [r \in Runners |-> 0]
  /\ renewal = [r \in Runners |-> "off"]
  /\ timer = [r \in Runners |-> 0]
  /\ leaseLost = [r \in Runners |-> FALSE]
  /\ releaseSafe = [r \in Runners |-> TRUE]
  /\ jobsLeft = [r \in Runners |-> 0]

-----------------------------------------------------------------------------
(* The object.  Each method runs without interleaving.                     *)

\* Mutant: the expiry is compared the wrong way round.
HeldByOther_Swapped(owner, stamp) ==
  lease.owner # None /\ lease.expiresAt < stamp /\ lease.owner # owner

HeldByOther(owner, stamp) ==
  lease.owner # None /\ lease.expiresAt > stamp /\ lease.owner # owner

\* Mutant: the generation of evaluateFencedLease, which forgets released rows.
NextGeneration_FromRow == lease.generation + 1

NextGeneration == fence + 1

HoldsExactly(owner, token) ==
  lease.owner = owner /\ lease.generation = token

(* The reply to runner r: the generation granted, or 0 for null / false.   *)
Reply(r, grant) ==
  call' = [call EXCEPT ![r] = [@ EXCEPT !.phase = "answered", !.grant = grant]]

(* evaluateFencedLease and the two upserts of tryAcquireWithFence.         *)
TryAcquireWithFence(r, stamp) ==
  IF HeldByOther(r, stamp)
  THEN /\ Reply(r, 0)
       /\ UNCHANGED <<lease, fence>>
  ELSE /\ fence' = NextGeneration
       /\ lease' = [owner |-> r, expiresAt |-> stamp + TTL, generation |-> NextGeneration]
       /\ Reply(r, NextGeneration)

DoAcquire(r) ==
  /\ call[r].op = "acquire" /\ call[r].phase = "sent"
  /\ TryAcquireWithFence(r, call[r].stamp)
  /\ UNCHANGED <<now, pc, runnerState>>

DoRenew(r) ==
  /\ call[r].op = "renew" /\ call[r].phase = "sent"
  /\ IF HoldsExactly(r, call[r].token)
     THEN TryAcquireWithFence(r, call[r].stamp)
     ELSE Reply(r, 0) /\ UNCHANGED <<lease, fence>>
  /\ UNCHANGED <<now, pc, runnerState>>

DoRelease(r) ==
  /\ call[r].op = "release" /\ call[r].phase = "sent"
  /\ IF HoldsExactly(r, call[r].token)
     THEN lease' = NoLease /\ Reply(r, call[r].token)
     ELSE Reply(r, 0) /\ UNCHANGED lease
  /\ UNCHANGED <<now, fence, pc, runnerState>>

-----------------------------------------------------------------------------
(* The tick.                                                               *)

(* The cron event: acquireLaneLease sends the event's scheduledTime.       *)
Fire(r, stamp) ==
  /\ pc[r] = "idle"
  /\ stamp \in Nat /\ stamp <= now /\ now <= stamp + MaxLag
  /\ stamp % Period = 0
  /\ pc' = [pc EXCEPT ![r] = "acquiring"]
  /\ sched' = [sched EXCEPT ![r] = stamp]
  /\ call' = [call EXCEPT ![r] = Request("acquire", stamp, 0)]
  /\ UNCHANGED <<now, lease, fence, held, renewal, timer, leaseLost, releaseSafe, jobsLeft>>

\* Mutant: renews once per TTL instead of once per interval.
Sleep_WholeTTL(r) ==
  /\ renewal' = [renewal EXCEPT ![r] = "sleeping"]
  /\ timer' = [timer EXCEPT ![r] = now + TTL]

Sleep(r) ==
  /\ renewal' = [renewal EXCEPT ![r] = "sleeping"]
  /\ timer' = [timer EXCEPT ![r] = now + RenewInterval]

(* The grant arrives: the renewal fiber is forked and the jobs start.      *)
Granted(r) ==
  /\ pc[r] = "acquiring" /\ call[r].phase = "answered" /\ call[r].grant # 0
  /\ pc' = [pc EXCEPT ![r] = "running"]
  /\ held' = [held EXCEPT ![r] = call[r].grant]
  /\ call' = [call EXCEPT ![r] = NoCall]
  /\ jobsLeft' = [jobsLeft EXCEPT ![r] = JobsPerTick]
  /\ Sleep(r)
  /\ UNCHANGED <<now, lease, fence, sched, leaseLost, releaseSafe>>

(* Denied, or the call failed: the tick runs nothing.  A failed call may   *)
(* still be executed by the object.                                        *)
NotGranted(r) ==
  /\ pc[r] = "acquiring"
  /\ \/ call[r].phase = "answered" /\ call[r].grant = 0
     \/ call[r].phase \in {"sent", "answered"}
  /\ pc' = [pc EXCEPT ![r] = "done"]
  /\ UNCHANGED <<now, lease, fence, call, runnerState>>

(* The isolate dies: timers, jobs and the tick's state are gone; a call    *)
(* already on its way is not.                                              *)
Crash(r) ==
  /\ pc[r] \in {"running", "draining", "releasing"}
  /\ pc' = [pc EXCEPT ![r] = "done"]
  /\ renewal' = [renewal EXCEPT ![r] = "off"]
  /\ UNCHANGED <<now, lease, fence, call, sched, held, timer, leaseLost, releaseSafe, jobsLeft>>

(* renewLaneLease: the sleep is over, the renewal is sent with Date.now().  *)
SendRenewal(r) ==
  /\ pc[r] = "running" /\ renewal[r] = "sleeping" /\ now >= timer[r]
  /\ renewal' = [renewal EXCEPT ![r] = "waiting"]
  /\ timer' = [timer EXCEPT ![r] = now + RenewDeadline]
  /\ call' = [call EXCEPT ![r] = Request("renew", now, held[r])]
  /\ UNCHANGED <<now, lease, fence, pc, sched, held, leaseLost, releaseSafe, jobsLeft>>

(* A renewal renewed: the fiber sleeps again, unless it is being drained.  *)
Renewed(r) ==
  /\ renewal[r] = "waiting" /\ call[r].phase = "answered" /\ call[r].grant # 0
  /\ held' = [held EXCEPT ![r] = call[r].grant]
  /\ call' = [call EXCEPT ![r] = NoCall]
  /\ IF pc[r] = "running"
     THEN Sleep(r)
     ELSE renewal' = [renewal EXCEPT ![r] = "off"] /\ UNCHANGED timer
  /\ UNCHANGED <<now, lease, fence, pc, sched, leaseLost, releaseSafe, jobsLeft>>

(* null, a failed call or the deadline: state.leaseLost, and the Deferred  *)
(* that every job races with fails.  The call is no longer awaited, but    *)
(* may still be executed.                                                  *)
RenewalFails(r) ==
  /\ renewal[r] = "waiting"
  /\ \/ call[r].phase = "answered" /\ call[r].grant = 0
     \/ call[r].phase \in {"sent", "answered"}
     \/ now >= timer[r]
  /\ renewal' = [renewal EXCEPT ![r] = "off"]
  /\ leaseLost' = [leaseLost EXCEPT ![r] = TRUE]
  /\ UNCHANGED <<now, lease, fence, pc, sched, call, held, timer, releaseSafe, jobsLeft>>

\* Mutant: an awaited renewal is interrupted too, not drained.
CloseScope_NoDrain(r) ==
  /\ pc' = [pc EXCEPT ![r] = "draining"]
  /\ jobsLeft' = [jobsLeft EXCEPT ![r] = 0]
  /\ renewal' = [renewal EXCEPT ![r] = "off"]

(* The scope closes: a sleeping renewal fiber is interrupted at once, one  *)
(* that awaits the object is uninterruptible.                              *)
CloseScope(r) ==
  /\ pc' = [pc EXCEPT ![r] = "draining"]
  /\ jobsLeft' = [jobsLeft EXCEPT ![r] = 0]
  /\ renewal' = [renewal EXCEPT ![r] = IF @ = "sleeping" THEN "off" ELSE @]

\* Mutant: the loop does not stop after the last job.
JobSettles_NoEnd(r) ==
  /\ pc[r] = "running"
  /\ jobsLeft' = [jobsLeft EXCEPT ![r] = @ - 1]
  /\ UNCHANGED <<now, lease, fence, pc, call, sched, held, renewal, timer, leaseLost, releaseSafe>>

(* A job succeeds, fails, or times out with its adapter proven stopped (or *)
(* no proof required): the loop goes on to the next one.                   *)
JobSettles(r) ==
  /\ pc[r] = "running"
  /\ IF jobsLeft[r] > 1
     THEN jobsLeft' = [jobsLeft EXCEPT ![r] = @ - 1] /\ UNCHANGED <<pc, renewal>>
     ELSE CloseScope(r)
  /\ UNCHANGED <<now, lease, fence, call, sched, held, timer, leaseLost, releaseSafe>>

(* The job is interrupted by the loss of the lease, or it timed out while  *)
(* its adapter may still be writing (LaneAdapterSafetyUnproven).           *)
JobUnsafe(r) ==
  /\ pc[r] = "running"
  /\ CloseScope(r)
  /\ releaseSafe' = [releaseSafe EXCEPT ![r] = FALSE]
  /\ UNCHANGED <<now, lease, fence, call, sched, held, timer, leaseLost>>

\* Mutant: releases although a timed-out adapter may still be writing.
ReleaseLane_Unproven(r) ==
  /\ pc[r] = "draining" /\ renewal[r] = "off" /\ ~leaseLost[r]
  /\ pc' = [pc EXCEPT ![r] = "releasing"]
  /\ call' = [call EXCEPT ![r] = Request("release", 0, held[r])]
  /\ UNCHANGED <<now, lease, fence, runnerState>>

ReleaseLane(r) ==
  /\ pc[r] = "draining" /\ renewal[r] = "off"
  /\ releaseSafe[r] /\ ~leaseLost[r]
  /\ pc' = [pc EXCEPT ![r] = "releasing"]
  /\ call' = [call EXCEPT ![r] = Request("release", 0, held[r])]
  /\ UNCHANGED <<now, lease, fence, runnerState>>

(* The lease is left to expire.                                            *)
KeepLease(r) ==
  /\ pc[r] = "draining" /\ renewal[r] = "off"
  /\ ~releaseSafe[r] \/ leaseLost[r]
  /\ pc' = [pc EXCEPT ![r] = "done"]
  /\ UNCHANGED <<now, lease, fence, call, runnerState>>

ReleaseReturns(r) ==
  /\ pc[r] = "releasing" /\ call[r].phase \in {"sent", "answered"}
  /\ pc' = [pc EXCEPT ![r] = "done"]
  /\ UNCHANGED <<now, lease, fence, call, runnerState>>

(* Time passes, but no tick is kept waiting beyond the bounds that the     *)
(* platform is trusted with.                                               *)
Tick ==
  /\ now < MaxTime
  /\ \A r \in Runners :
       /\ pc[r] = "acquiring" => now < sched[r] + MaxLag
       /\ pc[r] = "running" \/ renewal[r] = "waiting" => now < timer[r] + MaxStall
  /\ now' = now + 1
  /\ UNCHANGED <<lease, fence, pc, call, runnerState>>

Next ==
  \/ Tick
  \/ \E r \in Runners :
       \/ \E lag \in 0..MaxLag : Fire(r, now - lag)
       \/ DoAcquire(r) \/ DoRenew(r) \/ DoRelease(r)
       \/ Granted(r) \/ NotGranted(r) \/ Crash(r)
       \/ SendRenewal(r) \/ Renewed(r) \/ RenewalFails(r)
       \/ JobSettles(r) \/ JobUnsafe(r)
       \/ ReleaseLane(r) \/ KeepLease(r) \/ ReleaseReturns(r)

Spec == Init /\ [][Next]_vars

-----------------------------------------------------------------------------
(* Safety.                                                                 *)

(* "Only ONE scheduled batch runs at a time per lane across the            *)
(* deployment" (cron-lock-do.ts:15): two ticks never run jobs together,    *)
(* whatever the object's replies, deadlines, crashes and late executions.  *)
MutualExclusion ==
  \A r, s \in Runners : pc[r] = "running" /\ pc[s] = "running" => r = s

(* "A late runner cannot reuse an older token" (cron-lock.ts): no tick     *)
(* ever holds a generation that is the current one of somebody else's      *)
(* lease, releases included.                                               *)
TokensAreUnique ==
  \A r \in Runners :
    lease.owner # None /\ held[r] = lease.generation => lease.owner = r

(* Draining the renewal "so release always uses the generation that the    *)
(* DO actually stored": a tick that releases and still owns the row        *)
(* presents the row's token, so the row goes.                              *)
ReleasePresentsTheStoredToken ==
  \A r \in Runners :
    pc[r] = "releasing" /\ lease.owner = r => HoldsExactly(r, held[r])

(* A row never changes hands while it covers its owner: another tick gets  *)
(* the lane only from a row that expired at the time it sent, or after the *)
(* owner's own exact release.  In particular the lane of a job whose       *)
(* adapter may still be writing, or of a crashed tick, is not handed over  *)
(* before its lease runs out.                                              *)
HandoverOnlyAfterExpiryOrRelease ==
  [][ lease.owner # None /\ lease'.owner # lease.owner =>
        \/ lease'.owner = None /\ pc[lease.owner] \in {"releasing", "done"}
             /\ releaseSafe[lease.owner] /\ ~leaseLost[lease.owner]
        \/ lease'.owner # None /\ lease'.expiresAt >= lease.expiresAt + TTL ]_vars

-----------------------------------------------------------------------------
(* The inductive invariant behind mutual exclusion.                        *)

(* What the configuration must satisfy: a renewal answered at its deadline *)
(* leaves time for one more sleep and deadline, and so does a grant that   *)
(* arrives as late as it may.                                              *)
Margins ==
  /\ RenewInterval + 2 * RenewDeadline + 3 * MaxStall < TTL
  /\ MaxLag + RenewInterval + RenewDeadline + 2 * MaxStall < TTL

(* The latest moment at which r can still be running jobs.                 *)
StopBy(r) ==
  IF renewal[r] = "sleeping"
  THEN timer[r] + RenewDeadline + 2 * MaxStall
  ELSE timer[r] + MaxStall

(* A running tick owns the row until after it must have stopped.  A        *)
(* renewal it sent, awaited or given up, was sent a deadline before its    *)
(* timer, and its grant is the row.                                        *)
RunningCovered(r) ==
  pc[r] = "running" =>
    /\ lease.owner = r
    /\ now <= timer[r] + MaxStall
    /\ StopBy(r) < lease.expiresAt
    /\ renewal[r] = "sleeping" => call[r].op = "none"
    /\ renewal[r] # "sleeping" =>
         /\ call[r].op = "renew"
         /\ timer[r] = call[r].stamp + RenewDeadline
         /\ call[r].phase = "answered" /\ call[r].grant # 0 =>
              lease.expiresAt = call[r].stamp + TTL

(* A grant on its way is the row, and arrives in time.                     *)
GrantCovered(r) ==
  pc[r] = "acquiring" =>
    /\ call[r].op = "acquire"
    /\ call[r].stamp = sched[r]
    /\ now <= sched[r] + MaxLag
    /\ call[r].phase = "answered" /\ call[r].grant # 0 =>
         lease.owner = r /\ lease.expiresAt = sched[r] + TTL

(* The renewal fiber lives in the scope of a run.                          *)
RenewalScoped(r) ==
  renewal[r] # "off" =>
    \/ pc[r] = "running"
    \/ pc[r] = "draining" /\ renewal[r] = "waiting"

(* Clocks sent never run ahead.                                            *)
StampPast(r) == call[r].stamp <= now /\ sched[r] <= now

LaneInv ==
  /\ TypeOK
  /\ \A r \in Runners :
       RunningCovered(r) /\ GrantCovered(r) /\ RenewalScoped(r) /\ StampPast(r)
=============================================================================
