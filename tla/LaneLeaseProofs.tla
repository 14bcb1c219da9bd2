--------------------------- MODULE LaneLeaseProofs ---------------------------
(* Theorems about LaneLease, for every number of ticks and every timing.   *)
EXTENDS LaneLease, TLAPS

LEMMA TypeInit == ASSUME LaneAssumption PROVE Init => TypeOK
BY DEF LaneAssumption, Init, TypeOK, Lease, NoLease, Call, NoCall

(* What is known of one call.                                              *)
LEMMA CallFields ==
  ASSUME TypeOK, NEW r \in Runners
  PROVE  call[r] \in Call /\ call[r].stamp \in Nat /\ call[r].token \in Nat /\ call[r].grant \in Nat
BY DEF TypeOK, Call

(* What the object's reply does to the calls.                              *)
LEMMA ReplyTyped ==
  ASSUME TypeOK, NEW r \in Runners, NEW grant \in Nat, Reply(r, grant)
  PROVE  /\ call' \in [Runners -> Call]
         /\ call'[r].phase = "answered" /\ call'[r].grant = grant
         /\ call'[r].op = call[r].op /\ call'[r].stamp = call[r].stamp
         /\ call'[r].token = call[r].token
         /\ \A s \in Runners \ {r} : call'[s] = call[s]
<1>1. call[r] \in Call /\ call \in [Runners -> Call] BY DEF TypeOK
<1> DEFINE answer == [call[r] EXCEPT !.phase = "answered", !.grant = grant]
<1>2. answer \in Call BY <1>1 DEF Call
<1>3. /\ answer.phase = "answered" /\ answer.grant = grant
      /\ answer.op = call[r].op /\ answer.stamp = call[r].stamp
      /\ answer.token = call[r].token
  BY <1>1 DEF Call
<1>4. call' = [call EXCEPT ![r] = answer] BY DEF Reply
<1> HIDE DEF answer
<1>5. call'[r] = answer BY <1>1, <1>4
<1> QED BY <1>1, <1>2, <1>3, <1>4, <1>5

LEMMA TypeStep == ASSUME LaneAssumption, TypeOK, [Next]_vars PROVE TypeOK'
<1> USE LaneAssumption DEF LaneAssumption, TypeOK, Lease, runnerState
<1>1. CASE Tick BY <1>1 DEF Tick
<1>2. ASSUME NEW r \in Runners, NEW lag \in 0..MaxLag, Fire(r, now - lag) PROVE TypeOK'
  BY <1>2 DEF Fire, Request, Call
<1>3. ASSUME NEW r \in Runners, DoAcquire(r) PROVE TypeOK'
  <2>1. call' \in [Runners -> Call]
    BY <1>3, CallFields, ReplyTyped DEF DoAcquire, TryAcquireWithFence, NextGeneration
  <2> QED BY <1>3, <2>1, CallFields DEF DoAcquire, TryAcquireWithFence, NextGeneration
<1>4. ASSUME NEW r \in Runners, DoRenew(r) PROVE TypeOK'
  <2>1. call' \in [Runners -> Call]
    BY <1>4, CallFields, ReplyTyped DEF DoRenew, TryAcquireWithFence, NextGeneration
  <2> QED BY <1>4, <2>1, CallFields DEF DoRenew, TryAcquireWithFence, NextGeneration
<1>5. ASSUME NEW r \in Runners, DoRelease(r) PROVE TypeOK'
  <2>1. call' \in [Runners -> Call]
    BY <1>5, CallFields, ReplyTyped DEF DoRelease
  <2> QED BY <1>5, <2>1 DEF DoRelease, NoLease
<1>6. ASSUME NEW r \in Runners, Granted(r) PROVE TypeOK'
  BY <1>6 DEF Granted, Sleep, NoCall, Call
<1>7. ASSUME NEW r \in Runners, NotGranted(r) PROVE TypeOK'
  BY <1>7 DEF NotGranted
<1>8. ASSUME NEW r \in Runners, Crash(r) PROVE TypeOK'
  BY <1>8 DEF Crash
<1>9. ASSUME NEW r \in Runners, SendRenewal(r) PROVE TypeOK'
  BY <1>9 DEF SendRenewal, Request, Call
<1>10. ASSUME NEW r \in Runners, Renewed(r) PROVE TypeOK'
  <2>1. held' \in [Runners -> Nat] /\ call' \in [Runners -> Call]
    BY <1>10, CallFields DEF Renewed, NoCall, Call
  <2>2. CASE pc[r] = "running" BY <1>10, <2>1, <2>2 DEF Renewed, Sleep
  <2>3. CASE pc[r] # "running" BY <1>10, <2>1, <2>3 DEF Renewed
  <2> QED BY <2>2, <2>3
<1>11. ASSUME NEW r \in Runners, RenewalFails(r) PROVE TypeOK'
  BY <1>11 DEF RenewalFails
<1>12. ASSUME NEW r \in Runners, JobSettles(r) PROVE TypeOK'
  <2>1. CASE jobsLeft[r] > 1 BY <1>12, <2>1 DEF JobSettles
  <2>2. CASE ~(jobsLeft[r] > 1) BY <1>12, <2>2 DEF JobSettles, CloseScope
  <2> QED BY <2>1, <2>2
<1>13. ASSUME NEW r \in Runners, JobUnsafe(r) PROVE TypeOK'
  BY <1>13 DEF JobUnsafe, CloseScope
<1>14. ASSUME NEW r \in Runners, ReleaseLane(r) PROVE TypeOK'
  BY <1>14 DEF ReleaseLane, Request, Call
<1>15. ASSUME NEW r \in Runners, KeepLease(r) \/ ReleaseReturns(r) PROVE TypeOK'
  BY <1>15 DEF KeepLease, ReleaseReturns
<1>16. CASE UNCHANGED vars BY <1>16 DEF vars
<1> QED BY <1>1, <1>2, <1>3, <1>4, <1>5, <1>6, <1>7, <1>8, <1>9, <1>10, <1>11,
           <1>12, <1>13, <1>14, <1>15, <1>16 DEF Next

(* Every reachable state is well typed.                                    *)
THEOREM TypeCorrect == ASSUME LaneAssumption PROVE Spec => []TypeOK
BY TypeInit, TypeStep, PTL DEF Spec

-----------------------------------------------------------------------------

(* A running tick, or one whose grant is on its way, owns a row that has   *)
(* not expired for anybody whose call is in flight.                        *)
LEMMA CoveredIsHeld ==
  ASSUME LaneAssumption, Margins, LaneInv, NEW r \in Runners, NEW s \in Runners, r # s,
         \/ pc[s] = "running"
         \/ pc[s] = "acquiring" /\ call[s].phase = "answered" /\ call[s].grant # 0
  PROVE  lease.owner = s /\ HeldByOther(r, call[r].stamp) /\ ~ HoldsExactly(r, call[r].token)
<1> USE LaneAssumption DEF LaneAssumption
<1>1. /\ call[r].stamp \in Nat /\ call[r].stamp <= now /\ now \in Nat
      /\ lease.expiresAt \in Nat /\ timer[s] \in Nat /\ sched[s] \in Nat
  BY CallFields DEF LaneInv, StampPast, TypeOK, Lease
<1>2. s # None OBVIOUS
<1>3. CASE pc[s] = "running"
  <2>1. lease.owner = s /\ now < lease.expiresAt
    BY <1>1, <1>3 DEF LaneInv, RunningCovered, StopBy
  <2> QED BY <1>1, <1>2, <2>1 DEF HeldByOther, HoldsExactly
<1>4. CASE pc[s] = "acquiring" /\ call[s].phase = "answered" /\ call[s].grant # 0
  <2>1. lease.owner = s /\ now < lease.expiresAt
    BY <1>1, <1>4 DEF LaneInv, GrantCovered, Margins
  <2> QED BY <1>1, <1>2, <2>1 DEF HeldByOther, HoldsExactly
<1> QED BY <1>3, <1>4

LEMMA LaneInvInit == ASSUME LaneAssumption PROVE Init => LaneInv
BY TypeInit DEF LaneAssumption, Init, LaneInv, RunningCovered, GrantCovered,
                RenewalScoped, StampPast, NoCall

(* An execution by the object answers r's call and leaves the ticks alone. *)
LEMMA ObjectAnswers ==
  ASSUME TypeOK, NEW r \in Runners, DoAcquire(r) \/ DoRenew(r) \/ DoRelease(r)
  PROVE  /\ UNCHANGED <<now, pc, sched, held, renewal, timer, leaseLost, releaseSafe, jobsLeft>>
         /\ call[r].phase = "sent" /\ call'[r].phase = "answered"
         /\ call'[r].op = call[r].op /\ call'[r].stamp = call[r].stamp
         /\ \A s \in Runners \ {r} : call'[s] = call[s]
<1>1. fence + 1 \in Nat /\ call[r].token \in Nat BY CallFields DEF TypeOK
<1>2. PICK g \in Nat : Reply(r, g)
  BY <1>1 DEF DoAcquire, DoRenew, DoRelease, TryAcquireWithFence, NextGeneration
<1> QED BY <1>2, ReplyTyped DEF DoAcquire, DoRenew, DoRelease, runnerState

(* It moves the row only when no other tick is covered by it.              *)
LEMMA ObjectRespectsCover ==
  ASSUME LaneAssumption, Margins, LaneInv, NEW r \in Runners, NEW s \in Runners, r # s,
         DoAcquire(r) \/ DoRenew(r) \/ DoRelease(r),
         \/ pc[s] = "running"
         \/ pc[s] = "acquiring" /\ call[s].phase = "answered" /\ call[s].grant # 0
  PROVE  lease' = lease
BY CoveredIsHeld DEF DoAcquire, DoRenew, DoRelease, TryAcquireWithFence

(* What it does to the row when r's own tick depends on it.                *)
LEMMA ObjectServesCaller ==
  ASSUME LaneAssumption, Margins, LaneInv, NEW r \in Runners,
         DoAcquire(r) \/ DoRenew(r) \/ DoRelease(r)
  PROVE  /\ call[r].op \in {"acquire", "renew"} /\ call'[r].grant # 0 =>
              lease'.owner = r /\ lease'.expiresAt = call[r].stamp + TTL
         /\ call[r].op = "renew" /\ lease.owner = r /\ call'[r].grant = 0 => lease' = lease
<1>1. TypeOK BY DEF LaneInv
<1>2. fence + 1 \in Nat /\ call[r].token \in Nat BY <1>1, CallFields DEF TypeOK
<1>3. \A g \in Nat : Reply(r, g) => call'[r].grant = g BY <1>1, ReplyTyped
<1>4. ASSUME TryAcquireWithFence(r, call[r].stamp)
      PROVE  /\ call'[r].grant # 0 =>
                  lease'.owner = r /\ lease'.expiresAt = call[r].stamp + TTL
             /\ call'[r].grant = 0 => lease' = lease
  <2>1. CASE HeldByOther(r, call[r].stamp)
    BY <1>3, <1>4, <2>1 DEF TryAcquireWithFence
  <2>2. CASE ~ HeldByOther(r, call[r].stamp)
    BY <1>1, <1>2, <1>3, <1>4, <2>2 DEF TryAcquireWithFence, NextGeneration, TypeOK
  <2> QED BY <2>1, <2>2
<1>5. CASE DoAcquire(r) BY <1>4, <1>5 DEF DoAcquire
<1>6. CASE DoRenew(r) BY <1>3, <1>4, <1>6 DEF DoRenew
<1>7. CASE DoRelease(r) BY <1>7 DEF DoRelease
<1> QED BY <1>5, <1>6, <1>7

LEMMA ObjectStep ==
  ASSUME LaneAssumption, Margins, LaneInv, TypeOK', NEW r \in Runners,
         DoAcquire(r) \/ DoRenew(r) \/ DoRelease(r)
  PROVE  LaneInv'
<1> USE LaneAssumption DEF LaneAssumption
<1>1. TypeOK BY DEF LaneInv
<1>2. /\ UNCHANGED <<now, pc, sched, held, renewal, timer, leaseLost, releaseSafe, jobsLeft>>
      /\ call[r].phase = "sent" /\ call'[r].phase = "answered"
      /\ call'[r].op = call[r].op /\ call'[r].stamp = call[r].stamp
      /\ \A s \in Runners \ {r} : call'[s] = call[s]
  BY <1>1, ObjectAnswers
<1> SUFFICES ASSUME NEW s \in Runners
             PROVE  RunningCovered(s)' /\ GrantCovered(s)' /\ RenewalScoped(s)' /\ StampPast(s)'
  BY DEF LaneInv
<1>3. RunningCovered(s) /\ GrantCovered(s) /\ RenewalScoped(s) /\ StampPast(s) BY DEF LaneInv
<1>4. RenewalScoped(s)' /\ StampPast(s)' BY <1>2, <1>3 DEF RenewalScoped, StampPast
<1>5. CASE s # r
  <2>1. RunningCovered(s)'
    BY <1>2, <1>3, <1>5, ObjectRespectsCover DEF RunningCovered, StopBy
  <2>2. GrantCovered(s)'
    BY <1>2, <1>3, <1>5, ObjectRespectsCover DEF GrantCovered
  <2> QED BY <1>4, <2>1, <2>2
<1>6. CASE s = r
  <2>1. GrantCovered(r)'
    BY <1>2, <1>3, <1>6, ObjectServesCaller DEF GrantCovered
  <2>2. ASSUME pc[r] = "running" PROVE RunningCovered(r)'
    <3>1. call[r].op = "renew" /\ lease.owner = r /\ timer[r] = call[r].stamp + RenewDeadline
          /\ renewal[r] # "sleeping" /\ now <= timer[r] + MaxStall /\ StopBy(r) < lease.expiresAt
      BY <1>2, <1>3, <1>6, <2>2 DEF RunningCovered, DoAcquire, DoRenew, DoRelease
    <3>2. timer[r] \in Nat /\ call[r].stamp \in Nat BY <1>1, CallFields DEF TypeOK
    <3>3. call[r].stamp + RenewDeadline + MaxStall < call[r].stamp + TTL BY <3>2 DEF Margins
    <3>4. StopBy(r)' = timer[r] + MaxStall /\ StopBy(r) = timer[r] + MaxStall
      BY <1>2, <3>1 DEF StopBy
    <3>5. lease'.owner = r /\ StopBy(r)' < lease'.expiresAt
          /\ (call'[r].grant # 0 => lease'.expiresAt = call[r].stamp + TTL)
      BY <3>1, <3>3, <3>4, ObjectServesCaller
    <3> QED BY <1>2, <3>1, <3>5 DEF RunningCovered
  <2>3. RunningCovered(r)' BY <1>2, <2>2 DEF RunningCovered
  <2> QED BY <1>4, <1>6, <2>1, <2>3
<1> QED BY <1>5, <1>6

(* Time moves only while every covered tick is in time.                    *)
LEMMA TickStep ==
  ASSUME LaneAssumption, LaneInv, TypeOK', Tick PROVE LaneInv'
<1> USE LaneAssumption DEF LaneAssumption
<1> SUFFICES ASSUME NEW s \in Runners
             PROVE  RunningCovered(s)' /\ GrantCovered(s)' /\ RenewalScoped(s)' /\ StampPast(s)'
  BY DEF LaneInv
<1>1. RunningCovered(s) /\ GrantCovered(s) /\ RenewalScoped(s) /\ StampPast(s) BY DEF LaneInv
<1>2. /\ now \in Nat /\ sched[s] \in Nat /\ timer[s] \in Nat /\ call[s].stamp \in Nat
  BY CallFields DEF LaneInv, TypeOK
<1>3. StopBy(s)' = StopBy(s) BY DEF Tick, runnerState, StopBy
<1>4. RunningCovered(s)' BY <1>1, <1>2, <1>3 DEF Tick, runnerState, RunningCovered
<1>5. GrantCovered(s)' BY <1>1, <1>2 DEF Tick, runnerState, GrantCovered
<1>6. RenewalScoped(s)' /\ StampPast(s)'
  BY <1>1, <1>2 DEF Tick, runnerState, RenewalScoped, StampPast
<1> QED BY <1>4, <1>5, <1>6

(* A step of tick r that leaves the clock and the row alone disturbs only  *)
(* what is said of r.                                                      *)
LEMMA OthersUndisturbed ==
  ASSUME LaneInv, NEW r \in Runners, NEW s \in Runners, r # s,
         UNCHANGED <<now, lease>>,
         UNCHANGED <<pc[s], sched[s], call[s], renewal[s], timer[s]>>
  PROVE  RunningCovered(s)' /\ GrantCovered(s)' /\ RenewalScoped(s)' /\ StampPast(s)'
BY DEF LaneInv, RunningCovered, GrantCovered, RenewalScoped, StampPast, StopBy

(* The steps of tick r itself.                                             *)
LEMMA RunnerStep ==
  ASSUME LaneAssumption, Margins, LaneInv, TypeOK', NEW r \in Runners,
         \/ \E lag \in 0..MaxLag : Fire(r, now - lag)
         \/ Granted(r) \/ NotGranted(r) \/ Crash(r)
         \/ SendRenewal(r) \/ Renewed(r) \/ RenewalFails(r)
         \/ JobSettles(r) \/ JobUnsafe(r)
         \/ ReleaseLane(r) \/ KeepLease(r) \/ ReleaseReturns(r)
  PROVE  LaneInv'
<1> USE LaneAssumption DEF LaneAssumption
<1>0. TypeOK BY DEF LaneInv
<1>1. /\ now \in Nat /\ sched[r] \in Nat /\ timer[r] \in Nat /\ call[r].stamp \in Nat
      /\ lease.expiresAt \in Nat
  BY <1>0, CallFields DEF TypeOK, Lease
<1>2. RunningCovered(r) /\ GrantCovered(r) /\ RenewalScoped(r) /\ StampPast(r) BY DEF LaneInv
<1>3. /\ pc \in [Runners -> {"idle", "acquiring", "running", "draining", "releasing", "done"}]
      /\ sched \in [Runners -> Nat] /\ call \in [Runners -> Call]
      /\ renewal \in [Runners -> {"off", "sleeping", "waiting"}] /\ timer \in [Runners -> Nat]
  BY <1>0 DEF TypeOK
<1> DEFINE mine == RunningCovered(r)' /\ GrantCovered(r)' /\ RenewalScoped(r)' /\ StampPast(r)'
<1> DEFINE frame == /\ UNCHANGED <<now, lease>>
                    /\ \A s \in Runners \ {r} :
                         UNCHANGED <<pc[s], sched[s], call[s], renewal[s], timer[s]>>
<1>4. SUFFICES mine /\ frame
  BY OthersUndisturbed DEF LaneInv
<1>5. ASSUME NEW lag \in 0..MaxLag, Fire(r, now - lag) PROVE mine /\ frame
  <2>1. frame BY <1>3, <1>5 DEF Fire
  <2>2. mine
    BY <1>1, <1>2, <1>3, <1>5
    DEF Fire, Request, RunningCovered, GrantCovered, RenewalScoped, StampPast
  <2> QED BY <2>1, <2>2
<1>6. CASE Granted(r)
  <2>1. frame BY <1>3, <1>6 DEF Granted, Sleep
  <2>2. /\ pc'[r] = "running" /\ renewal'[r] = "sleeping" /\ timer'[r] = now + RenewInterval
        /\ call'[r] = NoCall /\ UNCHANGED <<now, lease, sched>>
    BY <1>3, <1>6 DEF Granted, Sleep
  <2>3. lease.owner = r /\ lease.expiresAt = sched[r] + TTL /\ now <= sched[r] + MaxLag
    BY <1>2, <1>6 DEF Granted, GrantCovered
  <2>4. StopBy(r)' < lease.expiresAt BY <1>1, <2>2, <2>3 DEF StopBy, Margins
  <2>5. mine
    BY <1>1, <1>2, <2>2, <2>3, <2>4
    DEF RunningCovered, GrantCovered, RenewalScoped, StampPast, NoCall
  <2> QED BY <2>1, <2>5
<1>7. CASE NotGranted(r)
  BY <1>2, <1>3, <1>7
  DEF NotGranted, runnerState, RunningCovered, GrantCovered, RenewalScoped, StampPast
<1>8. CASE Crash(r)
  BY <1>2, <1>3, <1>8 DEF Crash, RunningCovered, GrantCovered, RenewalScoped, StampPast
<1>9. CASE SendRenewal(r)
  <2>1. frame BY <1>3, <1>9 DEF SendRenewal
  <2>2. /\ pc[r] = "running" /\ renewal[r] = "sleeping" /\ now >= timer[r]
        /\ renewal'[r] = "waiting" /\ timer'[r] = now + RenewDeadline
        /\ call'[r] = Request("renew", now, held[r])
        /\ UNCHANGED <<now, lease, pc, sched>>
    BY <1>3, <1>9 DEF SendRenewal
  <2>3. StopBy(r)' < lease.expiresAt
    BY <1>1, <1>2, <2>2 DEF StopBy, RunningCovered
  <2>4. mine
    BY <1>1, <1>2, <2>2, <2>3
    DEF RunningCovered, GrantCovered, RenewalScoped, StampPast, Request
  <2> QED BY <2>1, <2>4
<1>10. CASE Renewed(r)
  <2>1. frame BY <1>3, <1>10 DEF Renewed, Sleep
  <2>2. CASE pc[r] = "running"
    <3>1. /\ renewal[r] = "waiting" /\ call[r].phase = "answered" /\ call[r].grant # 0
          /\ renewal'[r] = "sleeping" /\ timer'[r] = now + RenewInterval
          /\ call'[r] = NoCall /\ UNCHANGED <<now, lease, pc, sched>>
      BY <1>3, <1>10, <2>2 DEF Renewed, Sleep
    <3>2. StopBy(r)' < lease.expiresAt
      BY <1>1, <1>2, <2>2, <3>1 DEF StopBy, RunningCovered, Margins
    <3> QED BY <1>1, <1>2, <2>1, <2>2, <3>1, <3>2
            DEF RunningCovered, GrantCovered, RenewalScoped, StampPast, NoCall
  <2>3. CASE pc[r] # "running"
    BY <1>1, <1>2, <1>3, <1>10, <2>1, <2>3
    DEF Renewed, RunningCovered, GrantCovered, RenewalScoped, StampPast, NoCall
  <2> QED BY <2>2, <2>3
<1>11. CASE RenewalFails(r)
  BY <1>1, <1>2, <1>3, <1>11
  DEF RenewalFails, RunningCovered, GrantCovered, RenewalScoped, StampPast, StopBy
<1>12. CASE JobSettles(r)
  BY <1>2, <1>3, <1>12
  DEF JobSettles, CloseScope, RunningCovered, GrantCovered, RenewalScoped, StampPast, StopBy
<1>13. CASE JobUnsafe(r)
  BY <1>2, <1>3, <1>13
  DEF JobUnsafe, CloseScope, RunningCovered, GrantCovered, RenewalScoped, StampPast
<1>14. CASE ReleaseLane(r)
  BY <1>1, <1>2, <1>3, <1>14
  DEF ReleaseLane, runnerState, Request, RunningCovered, GrantCovered, RenewalScoped, StampPast
<1>15. CASE KeepLease(r) \/ ReleaseReturns(r)
  BY <1>2, <1>3, <1>15
  DEF KeepLease, ReleaseReturns, runnerState, RunningCovered, GrantCovered, RenewalScoped, StampPast
<1> QED BY <1>5, <1>6, <1>7, <1>8, <1>9, <1>10, <1>11, <1>12, <1>13, <1>14, <1>15

LEMMA LaneInvKept == ASSUME LaneAssumption, Margins, LaneInv, [Next]_vars PROVE LaneInv'
<1>1. TypeOK' BY TypeStep DEF LaneInv
<1>2. CASE UNCHANGED vars
  BY <1>1, <1>2
  DEF vars, LaneInv, RunningCovered, GrantCovered, RenewalScoped, StampPast, StopBy
<1> QED BY <1>1, <1>2, ObjectStep, TickStep, RunnerStep DEF Next

(* The inductive invariant of the margins holds in every reachable state.  *)
THEOREM LaneInvHolds == ASSUME LaneAssumption, Margins PROVE Spec => []LaneInv
BY LaneInvKept, LaneInvInit, PTL DEF Spec

(* Two ticks never run jobs of one lane together, when a renewal answered  *)
(* at its deadline and a grant as late as it may be both leave room for    *)
(* one more sleep and deadline before the row expires.                     *)
THEOREM LaneExclusion ==
  ASSUME LaneAssumption, Margins PROVE Spec => []MutualExclusion
<1>1. LaneInv => MutualExclusion
  BY DEF LaneInv, RunningCovered, MutualExclusion
<1> QED BY <1>1, LaneInvHolds, PTL

-----------------------------------------------------------------------------
(* Tokens, whatever the timing: the margins play no part from here on.     *)

(* Which call a tick has outstanding, by where it is.                      *)
CallScoped(r) ==
  /\ pc[r] = "idle" => call[r].op = "none"
  /\ pc[r] = "acquiring" => call[r].op = "acquire"
  /\ renewal[r] = "waiting" => call[r].op = "renew" /\ call[r].token = held[r]
  /\ renewal[r] # "off" => pc[r] \in {"running", "draining"}
  /\ pc[r] \in {"running", "draining"} /\ renewal[r] # "waiting" /\ ~leaseLost[r] =>
       call[r].op = "none"
  /\ pc[r] = "releasing" => call[r].op = "release" /\ call[r].token = held[r]
  /\ call[r].op = "release" =>
       /\ pc[r] \in {"releasing", "done"} /\ renewal[r] = "off"
       /\ releaseSafe[r] /\ ~leaseLost[r]

(* The tokens a tick holds or is being given were issued, and the row's is *)
(* its own.                                                                *)
TokensIssued(r) ==
  /\ held[r] <= fence /\ call[r].token <= fence /\ call[r].grant <= fence
  /\ lease.owner # None =>
       /\ held[r] = lease.generation => lease.owner = r
       /\ call[r].grant = lease.generation => lease.owner = r

(* A tick that owns the row knows its token, or is about to learn it.      *)
OwnerKnows(r) ==
  lease.owner = r =>
    /\ pc[r] # "idle"
    /\ pc[r] = "acquiring" => call[r].phase = "answered" /\ call[r].grant = lease.generation
    /\ pc[r] \in {"running", "draining"} /\ ~leaseLost[r] =>
         IF renewal[r] # "waiting" THEN held[r] = lease.generation
         ELSE IF call[r].phase = "sent" THEN held[r] = lease.generation
         ELSE call[r].grant # 0 => call[r].grant = lease.generation
    /\ pc[r] = "releasing" => held[r] = lease.generation

TokenInv ==
  /\ TypeOK
  /\ lease.owner # None => lease.generation \in 1..fence
  /\ \A r \in Runners : CallScoped(r) /\ TokensIssued(r) /\ OwnerKnows(r)

LEMMA TokenInvInit == ASSUME LaneAssumption, Init PROVE TokenInv
BY TypeInit DEF LaneAssumption, Init, TokenInv, CallScoped, TokensIssued, OwnerKnows, NoCall, NoLease

LEMMA Tokens ==
  ASSUME LaneAssumption, TypeOK
  PROVE  /\ fence \in Nat /\ lease \in Lease /\ lease.generation \in Nat /\ None \notin Runners
         /\ \A r \in Runners : held[r] \in Nat /\ call[r].token \in Nat /\ call[r].grant \in Nat
BY CallFields DEF LaneAssumption, TypeOK, Lease

(* The object executes r's call.  A new row gets a token above all others. *)
LEMMA ObjectKeepsTokens ==
  ASSUME LaneAssumption, TokenInv, TypeOK', NEW r \in Runners,
         DoAcquire(r) \/ DoRenew(r) \/ DoRelease(r)
  PROVE  TokenInv'
<1>1. TypeOK BY DEF TokenInv
<1>2. /\ UNCHANGED <<pc, held, renewal, leaseLost, releaseSafe>>
      /\ call[r].phase = "sent" /\ call'[r].phase = "answered" /\ call'[r].op = call[r].op
      /\ call'[r].token = call[r].token
      /\ \A s \in Runners \ {r} : call'[s] = call[s]
  <2>1. fence + 1 \in Nat /\ call[r].token \in Nat BY <1>1, Tokens
  <2>2. PICK g \in Nat : Reply(r, g)
    BY <2>1 DEF DoAcquire, DoRenew, DoRelease, TryAcquireWithFence, NextGeneration
  <2> QED BY <1>1, <2>2, ReplyTyped DEF DoAcquire, DoRenew, DoRelease, runnerState
<1> DEFINE refused == /\ UNCHANGED <<lease, fence>> /\ call'[r].grant = 0
                      /\ lease.owner = r =>
                           call[r].op # "acquire" /\ call[r].token # lease.generation
           granted == /\ fence' = fence + 1 /\ call'[r].grant = fence + 1
                      /\ lease'.owner = r /\ lease'.generation = fence + 1
                      /\ call[r].op \in {"acquire", "renew"}
           released == /\ fence' = fence /\ call'[r].grant = call[r].token
                       /\ lease'.owner = None
<1>3. /\ fence \in Nat /\ fence' \in Nat /\ lease.generation \in Nat /\ None \notin Runners
      /\ \A s \in Runners : held[s] \in Nat /\ call[s].token \in Nat /\ call[s].grant \in Nat
  BY <1>1, Tokens DEF TypeOK
<1>4. refused \/ granted \/ released
  <2>1. \A g \in Nat : Reply(r, g) => call'[r].grant = g BY <1>1, ReplyTyped
  <2>2. ASSUME TryAcquireWithFence(r, call[r].stamp), call[r].op \in {"acquire", "renew"}
        PROVE  refused \/ granted
    <3>1. CASE HeldByOther(r, call[r].stamp)
      BY <2>1, <2>2, <3>1 DEF TryAcquireWithFence, HeldByOther
    <3>2. CASE ~HeldByOther(r, call[r].stamp)
      BY <1>3, <2>1, <2>2, <3>2 DEF TryAcquireWithFence, NextGeneration
    <3> QED BY <3>1, <3>2
  <2>3. CASE DoAcquire(r) BY <2>2, <2>3 DEF DoAcquire
  <2>4. CASE DoRenew(r) BY <2>1, <2>2, <2>4 DEF DoRenew, HoldsExactly
  <2>5. CASE DoRelease(r) BY <1>3, <2>1, <2>5 DEF DoRelease, HoldsExactly, NoLease
  <2> QED BY <2>3, <2>4, <2>5
<1>5. lease'.owner # None => lease'.generation \in 1..fence'
  BY <1>3, <1>4 DEF TokenInv
<1>6. ASSUME NEW s \in Runners PROVE CallScoped(s)' /\ TokensIssued(s)' /\ OwnerKnows(s)'
  <2>1. CallScoped(s) /\ TokensIssued(s) /\ OwnerKnows(s) /\ TokensIssued(r)
        /\ (lease.owner # None => lease.generation \in 1..fence)
    BY DEF TokenInv
  <2>2. CallScoped(s)'
    <3>1. call'[s].op = call[s].op /\ call'[s].token = call[s].token BY <1>2
    <3> QED BY <1>2, <2>1, <3>1 DEF CallScoped
  <2>3. CASE refused
    <3>1. TokensIssued(s)'
      <4>1. CASE s = r BY <1>2, <1>3, <2>1, <2>3, <4>1 DEF TokensIssued
      <4>2. CASE s # r BY <1>2, <2>1, <2>3, <4>2 DEF TokensIssued
      <4> QED BY <4>1, <4>2
    <3>2. OwnerKnows(s)'
      <4>1. CASE s = r BY <1>2, <2>1, <2>3, <4>1 DEF OwnerKnows, CallScoped
      <4>2. CASE s # r BY <1>2, <2>1, <2>3, <4>2 DEF OwnerKnows
      <4> QED BY <4>1, <4>2
    <3> QED BY <2>2, <3>1, <3>2
  <2>4. CASE granted
    <3>1. TokensIssued(s)'
      <4>1. CASE s = r BY <1>2, <1>3, <2>1, <2>4, <4>1 DEF TokensIssued
      <4>2. CASE s # r BY <1>2, <1>3, <2>1, <2>4, <4>2 DEF TokensIssued
      <4> QED BY <4>1, <4>2
    <3>2. OwnerKnows(s)'
      BY <1>2, <2>1, <2>4 DEF OwnerKnows, CallScoped
    <3> QED BY <2>2, <3>1, <3>2
  <2>5. CASE released
    <3>1. TokensIssued(s)'
      BY <1>2, <2>1, <2>5 DEF TokensIssued
    <3>2. OwnerKnows(s)' BY <1>3, <2>5 DEF OwnerKnows
    <3> QED BY <2>2, <3>1, <3>2
  <2> QED BY <1>4, <2>3, <2>4, <2>5
<1> QED BY <1>5, <1>6 DEF TokenInv

(* A step of tick r leaves the row and the other ticks alone.              *)
LEMMA RunnerKeepsTokens ==
  ASSUME LaneAssumption, TokenInv, TypeOK', NEW r \in Runners,
         \/ \E lag \in 0..MaxLag : Fire(r, now - lag)
         \/ Granted(r) \/ NotGranted(r) \/ Crash(r)
         \/ SendRenewal(r) \/ Renewed(r) \/ RenewalFails(r)
         \/ JobSettles(r) \/ JobUnsafe(r)
         \/ ReleaseLane(r) \/ KeepLease(r) \/ ReleaseReturns(r)
  PROVE  TokenInv'
<1>1. /\ TypeOK /\ CallScoped(r) /\ TokensIssued(r) /\ OwnerKnows(r)
      /\ (lease.owner # None => lease.generation \in 1..fence)
  BY DEF TokenInv
<1>2. /\ fence \in Nat /\ lease.generation \in Nat /\ None \notin Runners
      /\ held[r] \in Nat /\ call[r].token \in Nat /\ call[r].grant \in Nat
  BY <1>1, Tokens
<1>3. /\ pc \in [Runners -> {"idle", "acquiring", "running", "draining", "releasing", "done"}]
      /\ call \in [Runners -> Call] /\ held \in [Runners -> Nat]
      /\ renewal \in [Runners -> {"off", "sleeping", "waiting"}]
      /\ leaseLost \in [Runners -> BOOLEAN] /\ releaseSafe \in [Runners -> BOOLEAN]
  BY <1>1 DEF TypeOK
<1> DEFINE mine == CallScoped(r)' /\ TokensIssued(r)' /\ OwnerKnows(r)'
           frame == /\ UNCHANGED <<lease, fence>>
                    /\ \A s \in Runners \ {r} :
                         UNCHANGED <<pc[s], call[s], held[s], renewal[s], leaseLost[s],
                                     releaseSafe[s]>>
<1>4. SUFFICES mine /\ frame
  <2>1. ASSUME frame, NEW s \in Runners, s # r
        PROVE  CallScoped(s)' /\ TokensIssued(s)' /\ OwnerKnows(s)'
    <3>1. CallScoped(s) /\ TokensIssued(s) /\ OwnerKnows(s) BY DEF TokenInv
    <3> QED BY <2>1, <3>1 DEF CallScoped, TokensIssued, OwnerKnows
  <2> QED BY <1>1, <2>1 DEF TokenInv
<1>5. ASSUME NEW lag \in 0..MaxLag, Fire(r, now - lag) PROVE mine /\ frame
  <2>1. frame BY <1>3, <1>5 DEF Fire
  <2>2. call'[r] = Request("acquire", now - lag, 0) /\ pc'[r] = "acquiring" BY <1>3, <1>5 DEF Fire
  <2>3. call'[r].op = "acquire" /\ call'[r].token = 0 /\ call'[r].grant = 0
    BY <2>2 DEF Request
  <2> QED BY <1>1, <1>2, <1>5, <2>1, <2>2, <2>3 DEF Fire, CallScoped, TokensIssued, OwnerKnows
<1>6. CASE Granted(r)
  <2>1. frame BY <1>3, <1>6 DEF Granted, Sleep
  <2>2. /\ pc'[r] = "running" /\ renewal'[r] = "sleeping" /\ held'[r] = call[r].grant
        /\ call'[r] = NoCall
    BY <1>3, <1>6 DEF Granted, Sleep
  <2>3. call'[r].op = "none" /\ call'[r].token = 0 /\ call'[r].grant = 0 BY <2>2 DEF NoCall
  <2> QED BY <1>1, <1>2, <1>6, <2>1, <2>2, <2>3 DEF Granted, CallScoped, TokensIssued, OwnerKnows
<1>7. CASE NotGranted(r) \/ Crash(r) \/ KeepLease(r) \/ ReleaseReturns(r)
  <2>1. /\ frame /\ pc'[r] = "done" /\ renewal'[r] = "off"
        /\ UNCHANGED <<call, held, leaseLost, releaseSafe>>
    BY <1>1, <1>3, <1>7 DEF NotGranted, Crash, KeepLease, ReleaseReturns, runnerState, CallScoped
  <2> QED BY <1>1, <2>1 DEF CallScoped, TokensIssued, OwnerKnows
<1>8. CASE SendRenewal(r)
  <2>1. frame BY <1>3, <1>8 DEF SendRenewal
  <2>2. renewal'[r] = "waiting" /\ call'[r] = Request("renew", now, held[r])
    BY <1>3, <1>8 DEF SendRenewal
  <2>3. /\ call'[r].op = "renew" /\ call'[r].token = held[r] /\ call'[r].grant = 0
        /\ call'[r].phase = "sent"
    BY <2>2 DEF Request
  <2> QED BY <1>1, <1>2, <1>8, <2>1, <2>2, <2>3
          DEF SendRenewal, CallScoped, TokensIssued, OwnerKnows
<1>9. CASE Renewed(r)
  <2>1. frame BY <1>3, <1>9 DEF Renewed, Sleep
  <2>2. /\ renewal'[r] \in {"sleeping", "off"} /\ held'[r] = call[r].grant /\ call'[r] = NoCall
    BY <1>3, <1>9 DEF Renewed, Sleep
  <2>3. call'[r].op = "none" /\ call'[r].token = 0 /\ call'[r].grant = 0 BY <2>2 DEF NoCall
  <2> QED BY <1>1, <1>2, <1>9, <2>1, <2>2, <2>3 DEF Renewed, CallScoped, TokensIssued, OwnerKnows
<1>10. CASE RenewalFails(r)
  <2>1. frame /\ renewal'[r] = "off" /\ leaseLost'[r] BY <1>3, <1>10 DEF RenewalFails
  <2> QED BY <1>1, <1>10, <2>1 DEF RenewalFails, CallScoped, TokensIssued, OwnerKnows
<1>11. ASSUME pc[r] = "running", CloseScope(r),
              \A s \in Runners \ {r} : releaseSafe'[s] = releaseSafe[s],
              UNCHANGED <<lease, fence, call, held, leaseLost>>
       PROVE  mine /\ frame
  <2>1. /\ frame /\ pc'[r] = "draining"
        /\ renewal'[r] = IF renewal[r] = "sleeping" THEN "off" ELSE renewal[r]
    BY <1>3, <1>11 DEF CloseScope
  <2> QED BY <1>1, <1>11, <2>1 DEF CallScoped, TokensIssued, OwnerKnows
<1>12. CASE JobSettles(r) \/ JobUnsafe(r)
  <2>1. CASE JobSettles(r) /\ jobsLeft[r] > 1
    BY <1>1, <2>1 DEF JobSettles, CallScoped, TokensIssued, OwnerKnows
  <2>2. CASE JobSettles(r) /\ ~(jobsLeft[r] > 1) BY <1>11, <2>2 DEF JobSettles
  <2>3. CASE JobUnsafe(r) BY <1>3, <1>11, <2>3 DEF JobUnsafe
  <2> QED BY <1>12, <2>1, <2>2, <2>3
<1>13. CASE ReleaseLane(r)
  <2>1. frame BY <1>3, <1>13 DEF ReleaseLane, runnerState
  <2>2. pc'[r] = "releasing" /\ call'[r] = Request("release", 0, held[r])
    BY <1>3, <1>13 DEF ReleaseLane
  <2>3. call'[r].op = "release" /\ call'[r].token = held[r] /\ call'[r].grant = 0
    BY <2>2 DEF Request
  <2> QED BY <1>1, <1>2, <1>13, <2>1, <2>2, <2>3
          DEF ReleaseLane, runnerState, CallScoped, TokensIssued, OwnerKnows
<1> QED BY <1>5, <1>6, <1>7, <1>8, <1>9, <1>10, <1>12, <1>13

LEMMA TokenInvKept == ASSUME LaneAssumption, TokenInv, [Next]_vars PROVE TokenInv'
<1>1. TypeOK' BY TypeStep DEF TokenInv
<1>2. CASE Tick \/ UNCHANGED vars
  BY <1>1, <1>2 DEF Tick, vars, runnerState, TokenInv, CallScoped, TokensIssued, OwnerKnows
<1> QED BY <1>1, <1>2, ObjectKeepsTokens, RunnerKeepsTokens DEF Next

LEMMA TokenInvHolds == ASSUME LaneAssumption PROVE Spec => []TokenInv
BY TokenInvInit, TokenInvKept, PTL DEF Spec

(* No tick ever holds the current token of another's lease, whatever was   *)
(* released, lost or executed late, and under any timing.                  *)
THEOREM TokensAreAlwaysUnique == ASSUME LaneAssumption PROVE Spec => []TokensAreUnique
<1>1. TokenInv => TokensAreUnique BY DEF TokenInv, TokensIssued, TokensAreUnique
<1> QED BY <1>1, TokenInvHolds, PTL

(* A tick that releases and still owns the row presents the row's token.   *)
THEOREM ReleaseAlwaysPresentsTheToken ==
  ASSUME LaneAssumption PROVE Spec => []ReleasePresentsTheStoredToken
<1>1. TokenInv => ReleasePresentsTheStoredToken
  BY DEF TokenInv, OwnerKnows, HoldsExactly, ReleasePresentsTheStoredToken
<1> QED BY <1>1, TokenInvHolds, PTL

(* The lane passes on only from an expired row, or after its owner's own   *)
(* release, under any timing.                                              *)
THEOREM HandoverIsAlwaysEarned ==
  ASSUME LaneAssumption PROVE Spec => HandoverOnlyAfterExpiryOrRelease
<1> DEFINE Earned == lease.owner # None /\ lease'.owner # lease.owner =>
             \/ lease'.owner = None /\ pc[lease.owner] \in {"releasing", "done"}
                  /\ releaseSafe[lease.owner] /\ ~leaseLost[lease.owner]
             \/ lease'.owner # None /\ lease'.expiresAt >= lease.expiresAt + TTL
<1>1. ASSUME TokenInv, [Next]_vars PROVE Earned
  <2>1. TypeOK /\ lease.expiresAt \in Nat /\ TTL \in Nat /\ None \notin Runners
        /\ \A r \in Runners : call[r].stamp \in Nat
    BY <1>1, CallFields DEF TokenInv, TypeOK, Lease, LaneAssumption
  <2>2. ASSUME NEW r \in Runners, TryAcquireWithFence(r, call[r].stamp) PROVE Earned
    <3>1. CASE HeldByOther(r, call[r].stamp) BY <2>2, <3>1 DEF TryAcquireWithFence
    <3>2. CASE ~HeldByOther(r, call[r].stamp)
      <4>1. lease'.owner = r /\ lease'.expiresAt = call[r].stamp + TTL
        BY <2>2, <3>2 DEF TryAcquireWithFence
      <4>2. lease.owner # None /\ lease.owner # r => lease.expiresAt <= call[r].stamp
        BY <2>1, <3>2 DEF HeldByOther
      <4> QED BY <2>1, <4>1, <4>2
    <3> QED BY <3>1, <3>2
  <2>3. ASSUME NEW r \in Runners, DoAcquire(r) \/ DoRenew(r) PROVE Earned
    BY <2>2, <2>3 DEF DoAcquire, DoRenew
  <2>4. ASSUME NEW r \in Runners, DoRelease(r) PROVE Earned
    <3>1. lease' = lease \/ (lease.owner = r /\ lease'.owner = None)
      BY <2>4 DEF DoRelease, HoldsExactly, NoLease
    <3>2. pc[r] \in {"releasing", "done"} /\ releaseSafe[r] /\ ~leaseLost[r]
      BY <1>1, <2>4 DEF DoRelease, TokenInv, CallScoped
    <3> QED BY <3>1, <3>2
  <2>5. ASSUME NEW r \in Runners,
               \/ \E lag \in 0..MaxLag : Fire(r, now - lag)
               \/ Granted(r) \/ NotGranted(r) \/ Crash(r)
               \/ SendRenewal(r) \/ Renewed(r) \/ RenewalFails(r)
               \/ JobSettles(r) \/ JobUnsafe(r)
               \/ ReleaseLane(r) \/ KeepLease(r) \/ ReleaseReturns(r)
        PROVE  lease' = lease
    BY <2>5 DEF Fire, Granted, NotGranted, Crash, SendRenewal, Renewed, RenewalFails,
       JobSettles, JobUnsafe, ReleaseLane, KeepLease, ReleaseReturns
  <2>6. CASE Tick \/ UNCHANGED vars BY <2>6 DEF Tick, vars
  <2> QED BY <1>1, <2>3, <2>4, <2>5, <2>6 DEF Next
<1>2. TokenInv /\ [Next]_vars => [Earned]_vars BY <1>1
<1>3. Spec => [][Earned]_vars BY <1>2, TokenInvHolds, PTL DEF Spec
<1> QED BY <1>3 DEF HandoverOnlyAfterExpiryOrRelease
=============================================================================
