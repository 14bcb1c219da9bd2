---------------------- MODULE KaraokeFinalizationProofs ----------------------
(* Theorems about KaraokeFinalization, for every number of sessions, every  *)
(* retry policy, clock lag and number of crashes.                           *)
EXTENDS KaraokeFinalization, TLAPS

LEMMA Times ==
  ASSUME FinalizationAssumption
  PROVE  /\ Never \in Nat /\ MaxDelay \in Nat /\ Lifetime \in Nat /\ Skew \in Nat
         /\ AttemptLimit \in Nat \ {0} /\ MaxDelay < Never /\ Lifetime < Never
BY DEF FinalizationAssumption, Never

LEMMA AxisFields ==
  ASSUME NEW x \in Axis
  PROVE  /\ x.state \in {"pending", "stored", "exhausted"}
         /\ x.attempts \in 0..AttemptLimit /\ x.wait \in 0..MaxDelay
BY DEF Axis

LEMMA FailedAxis ==
  ASSUME FinalizationAssumption, NEW x \in Axis, NEW retain \in BOOLEAN
  PROVE  Failed(x, retain) \in Axis /\ Failed(x, retain).state # "stored"
<1>1. Earlier(x.attempts + 1, AttemptLimit) \in 0..AttemptLimit
  BY Times, AxisFields DEF Earlier
<1>2. RetryDelay(Earlier(x.attempts + 1, AttemptLimit)) \in 0..MaxDelay
  BY Times DEF RetryDelay
<1> HIDE DEF Earlier
<1>3. 0 \in 0..MaxDelay BY Times
<1> QED BY <1>1, <1>2, <1>3 DEF Failed, Axis

LEMMA StoredAxis ==
  ASSUME NEW x \in Axis PROVE Stored(x) \in Axis /\ Stored(x).state = "stored"
BY DEF Stored, Axis

LEMMA RearmedAxis ==
  ASSUME FinalizationAssumption, NEW x \in Axis
  PROVE  /\ Rearmed(x) \in Axis
         /\ Rearmed(x).state = "stored" => x.state = "stored"
         /\ x.state = "pending" => Rearmed(x) = x
<1>1. Fresh \in Axis BY Times DEF Fresh, Axis
<1> QED BY <1>1, AxisFields DEF Rearmed, Fresh

LEMMA LessBound == ASSUME NEW m \in Nat, NEW n \in 0..m PROVE Less(n) \in 0..m /\ Less(n) <= n
BY DEF Less

(* The alarm that scheduleOutboxAlarm leaves is never later than a retry.  *)
LEMMA ScheduledFirst ==
  ASSUME FinalizationAssumption, NEW axes \in [Axes -> Axis], NEW current \in 0..Never
  PROVE  /\ Scheduled(axes, current) \in 0..Never
         /\ \A a \in Axes : axes[a].state = "pending" => Scheduled(axes, current) <= axes[a].wait
<1> DEFINE W == PendingWaits(axes)
<1>1. \A a \in Axes : axes[a].wait \in 0..MaxDelay BY AxisFields
<1>2. W \subseteq 0..MaxDelay BY <1>1 DEF PendingWaits
<1>3. \A a \in Axes : axes[a].state = "pending" => axes[a].wait \in W BY DEF PendingWaits
<1>4. CASE W = {} BY <1>3, <1>4 DEF Scheduled
<1>5. CASE W # {}
  <2>1. \E w \in W : \A v \in W : w <= v
    <3> DEFINE p == axes["score"].wait  q == axes["recording"].wait
    <3>1. \A v \in W : v = p \/ v = q BY DEF PendingWaits, Axes
    <3>2. p \in Int /\ q \in Int BY <1>1, Times DEF Axes
    <3> HIDE DEF W, p, q
    <3>3. CASE p \in W /\ q \in W
      <4>1. CASE p <= q BY <3>1, <3>2, <3>3, <4>1
      <4>2. CASE q <= p BY <3>1, <3>2, <3>3, <4>2
      <4> QED BY <3>2, <4>1, <4>2
    <3>4. CASE p \in W /\ q \notin W BY <3>1, <3>2, <3>4
    <3>5. CASE p \notin W BY <1>5, <3>1, <3>2, <3>5
    <3> QED BY <3>3, <3>4, <3>5
  <2>2. Scheduled(axes, current) = CHOOSE w \in W : \A v \in W : w <= v
    BY <1>5 DEF Scheduled
  <2> HIDE DEF W
  <2>3. Scheduled(axes, current) \in W /\ \A v \in W : Scheduled(axes, current) <= v
    BY <2>1, <2>2
  <2> DEFINE first == Scheduled(axes, current)
  <2> HIDE DEF first
  <2>4. first \in 0..MaxDelay BY <1>2, <2>3 DEF first
  <2>5. first \in 0..Never BY <2>4, Times
  <2>6. \A a \in Axes : axes[a].state = "pending" => first <= axes[a].wait
    BY <1>3, <2>3 DEF first
  <2> QED BY <2>5, <2>6 DEF first
<1> QED BY <1>4, <1>5

-----------------------------------------------------------------------------
LEMMA TypeInit == ASSUME FinalizationAssumption PROVE Init => TypeOK
<1>1. Fresh \in Axis BY Times DEF Fresh, Axis
<1>2. Never \in 0..Never /\ Lifetime + Skew \in 0..(Lifetime + Skew) BY Times
<1>3. 0 \in 0..MaxCrashes BY DEF FinalizationAssumption
<1> QED BY <1>1, <1>2, <1>3 DEF Init, TypeOK, Axes

(* The variables of a session are typed. *)
LEMMA SessionTyped ==
  ASSUME TypeOK, NEW s \in Sessions
  PROVE  /\ left[s] \in 0..(Lifetime + Skew) /\ alarm[s] \in 0..Never
         /\ axis[s] \in [Axes -> Axis] /\ \A a \in Axes : axis[s][a] \in Axis
         /\ txn[s] \in [Axes -> {"none", "sent", "done"}]
         /\ reason[s] \in Reasons \cup {"none"}
BY DEF TypeOK

LEMMA LeaveTyped ==
  ASSUME FinalizationAssumption, TypeOK, NEW s \in Sessions, NEW axes \in [Axes -> Axis],
         NEW current \in 0..Never, Leave(s, axes, current)
  PROVE  handler' \in [Sessions -> Axes \cup {"idle", "archiving"}] /\ alarm' \in [Sessions -> 0..Never]
BY ScheduledFirst DEF Leave, TypeOK

LEMMA ContinueTyped ==
  ASSUME FinalizationAssumption, TypeOK, NEW s \in Sessions, NEW a \in Axes, NEW x \in Axis,
         Continue(s, a, x)
  PROVE  TypeOK'
<1> DEFINE after == [axis[s] EXCEPT ![a] = x]
<1>1. after \in [Axes -> Axis] BY SessionTyped
<1>2. axis' = [axis EXCEPT ![s] = after] BY DEF Continue
<1>3. axis' \in [Sessions -> [Axes -> Axis]] BY <1>1, <1>2 DEF TypeOK
<1>4. txn' \in [Sessions -> [Axes -> {"none", "sent", "done"}]]
  <2> DEFINE sent == [txn[s] EXCEPT ![a] = Over(txn[s][a])]
  <2>1. Over(txn[s][a]) \in {"none", "sent", "done"} BY SessionTyped DEF Over
  <2>2. sent \in [Axes -> {"none", "sent", "done"}] BY <2>1, SessionTyped
  <2>3. txn' = [txn EXCEPT ![s] = sent] BY DEF Continue
  <2> HIDE DEF sent
  <2> QED BY <2>2, <2>3 DEF TypeOK
<1>5. /\ handler' \in [Sessions -> Axes \cup {"idle", "archiving"}]
      /\ alarm' \in [Sessions -> 0..Never]
  <2>1. CASE a = "score" /\ archive[s] BY <2>1 DEF Continue, TypeOK
  <2>2. CASE ~(a = "score" /\ archive[s])
    <3>1. Leave(s, after, alarm[s]) BY <2>2 DEF Continue
    <3> QED BY <1>1, <3>1, LeaveTyped, SessionTyped
  <2> QED BY <2>1, <2>2
<1> QED BY <1>3, <1>4, <1>5 DEF Continue, TypeOK

LEMMA TypeStep == ASSUME FinalizationAssumption, TypeOK, [Next]_vars PROVE TypeOK'
<1> USE DEF outbox, postgres
<1>1. CASE Tick
  <2>1. \A s \in Sessions : Less(left[s]) \in 0..(Lifetime + Skew) /\ Less(alarm[s]) \in 0..Never
    BY SessionTyped, Times, LessBound
  <2>2. \A s \in Sessions : \A a \in Axes : Less(axis[s][a].wait) \in 0..MaxDelay
    BY SessionTyped, AxisFields, Times, LessBound
  <2>3. axis' \in [Sessions -> [Axes -> Axis]]
    BY <1>1, <2>2, SessionTyped, AxisFields DEF Tick, Axis
  <2>4. Never \in 0..Never BY Times
  <2> QED BY <1>1, <2>1, <2>3, <2>4 DEF Tick, TypeOK
<1>2. CASE Sweep
  <2>1. CASE SweepStarts BY <2>1 DEF SweepStarts, TypeOK, FirstCandidates, Candidates
  <2>2. CASE SweepStops BY <2>2 DEF SweepStops, TypeOK
  <2>3. ASSUME NEW s \in Sessions, RedriveFails(s) PROVE TypeOK'
    BY <2>3 DEF RedriveFails, TypeOK
  <2>4. ASSUME NEW s \in Sessions, Redrive(s) PROVE TypeOK'
    <3> DEFINE after == [a \in Axes |-> Rearmed(axis[s][a])]
    <3>1. after \in [Axes -> Axis] BY SessionTyped, RearmedAxis
    <3>2. axis' = [axis EXCEPT ![s] = after] BY <2>4 DEF Redrive
    <3>3. axis' \in [Sessions -> [Axes -> Axis]] /\ axis'[s] = after
      BY <3>1, <3>2 DEF TypeOK
    <3>4. Scheduled(axis'[s], alarm[s]) \in 0..Never
      BY <3>1, <3>3, ScheduledFirst, SessionTyped
    <3>5. alarm' \in [Sessions -> 0..Never]
      BY <2>4, <3>4, Times DEF Redrive, TypeOK
    <3> QED BY <2>4, <3>3, <3>5 DEF Redrive, TypeOK
  <2> QED BY <1>2, <2>1, <2>2, <2>3, <2>4 DEF Sweep
<1>3. ASSUME NEW s \in Sessions, Object(s) PROVE TypeOK'
  <2>1. CASE Initialize(s)
    <3>1. Earlier(left[s], Lifetime) \in 0..Never BY SessionTyped, Times DEF Earlier
    <3> QED BY <2>1, <3>1 DEF Initialize, TypeOK
  <2>2. CASE HostReturns(s) BY <2>2 DEF HostReturns, TypeOK
  <2>3. ASSUME NEW r \in Reasons, HostEnds(s, r) PROVE TypeOK'
    <3>1. FirstReason(s, r) \in Reasons \cup {"none"} BY SessionTyped DEF FirstReason
    <3> QED BY <2>3, <3>1, Times DEF HostEnds, TypeOK
  <2>4. CASE AlarmFires(s)
    <3>1. /\ reason' \in [Sessions -> Reasons \cup {"none"}]
          /\ txn' \in [Sessions -> [Axes -> {"none", "sent", "done"}]]
      BY <2>4, SessionTyped DEF AlarmFires, TypeOK, Reasons, Axes
    <3>3. archive' \in [Sessions -> BOOLEAN]
      <4>1. Due(axis[s]["recording"]) \in BOOLEAN BY DEF Due
      <4>2. \/ UNCHANGED archive
            \/ archive' = [archive EXCEPT ![s] = Due(axis[s]["recording"])]
        BY <2>4 DEF AlarmFires
      <4> QED BY <4>1, <4>2 DEF TypeOK
    <3>2. /\ handler' \in [Sessions -> Axes \cup {"idle", "archiving"}]
          /\ alarm' \in [Sessions -> 0..Never]
      <4>1. 0 \in 0..Never /\ Never \in 0..Never BY Times
      <4>2. ASSUME NEW current \in 0..Never, Leave(s, axis[s], current)
            PROVE  /\ handler' \in [Sessions -> Axes \cup {"idle", "archiving"}]
                   /\ alarm' \in [Sessions -> 0..Never]
        BY <4>2, SessionTyped, LeaveTyped
      <4> QED BY <2>4, <4>1, <4>2 DEF AlarmFires, TypeOK, Axes
    <3> QED BY <2>4, <3>1, <3>2, <3>3 DEF AlarmFires, TypeOK
  <2>5. CASE ArchiveFinished(s) BY <2>5, SessionTyped DEF ArchiveFinished, TypeOK, Axes
  <2>6. CASE Crash(s)
    <3>1. crashes' \in 0..MaxCrashes BY <2>6 DEF Crash, TypeOK, FinalizationAssumption
    <3>2. \A a \in Axes : Over(txn[s][a]) \in {"none", "sent", "done"}
      BY SessionTyped DEF Over
    <3>3. txn' \in [Sessions -> [Axes -> {"none", "sent", "done"}]]
      BY <2>6, <3>2 DEF Crash, TypeOK
    <3>4. alarm' \in [Sessions -> 0..Never] BY <2>6, Times DEF Crash, TypeOK
    <3> QED BY <2>6, <3>1, <3>3, <3>4 DEF Crash, TypeOK
  <2>7. ASSUME NEW a \in Axes, Acknowledged(s, a) PROVE TypeOK'
    BY <2>7, ContinueTyped, StoredAxis, SessionTyped DEF Acknowledged
  <2>8. ASSUME NEW a \in Axes, Unanswered(s, a) PROVE TypeOK'
    BY <2>8, ContinueTyped, FailedAxis, SessionTyped DEF Unanswered
  <2>9. ASSUME NEW a \in Axes, Refused(s, a) PROVE TypeOK'
    BY <2>9, ContinueTyped, FailedAxis, SessionTyped DEF Refused
  <2> QED BY <1>3, <2>1, <2>2, <2>3, <2>4, <2>5, <2>6, <2>7, <2>8, <2>9 DEF Object, Reasons
<1>4. ASSUME NEW s \in Sessions, Database(s) PROVE TypeOK'
  <2>1. CASE FinalizeAttempt(s)
    BY <2>1, SessionTyped DEF FinalizeAttempt, TypeOK, Committed
  <2>2. CASE ReconcileRecording(s)
    BY <2>2, SessionTyped DEF ReconcileRecording, TypeOK, Committed
  <2>3. CASE Revoke(s) BY <2>3 DEF Revoke, TypeOK
  <2> QED BY <1>4, <2>1, <2>2, <2>3 DEF Database
<1>5. CASE UNCHANGED vars BY <1>5 DEF vars, TypeOK
<1> QED BY <1>1, <1>2, <1>3, <1>4, <1>5 DEF Next

(* Every reachable state is well typed. *)
THEOREM TypeCorrect == ASSUME FinalizationAssumption PROVE Spec => []TypeOK
BY TypeInit, TypeStep, PTL DEF Spec

-----------------------------------------------------------------------------
(* The invariant of one session; a step is a step of one session, of time   *)
(* or of the sweep.                                                         *)
KnownAt(s) ==
  /\ host[s] \/ alarm[s] # Never \/ reason[s] # "none" => known[s]
  /\ handler[s] # "idle" \/ (\E a \in Axes : txn[s][a] # "none") => reason[s] # "none"

AnswersAt(s) ==
  /\ attempt[s] \in {"none", reason[s]}
  /\ \A a \in Axes : txn[s][a] = "done" => InPostgres(s, a)

StoredAt(s) == \A a \in Axes : axis[s][a].state = "stored" => InPostgres(s, a)

EarlyEnough(s) ==
  \A a \in Axes : axis[s][a].state = "pending" => alarm[s] <= axis[s][a].wait

WokenAt(s) ==
  /\ handler[s] = "score" => Due(axis[s]["score"])
  /\ reason[s] # "none" /\ (handler[s] = "idle" \/ alarm[s] # Never) => EarlyEnough(s)

SessionInv(s) == KnownAt(s) /\ AnswersAt(s) /\ StoredAt(s) /\ WokenAt(s)

LEMMA BySession == FinalizationInv <=> TypeOK /\ \A s \in Sessions : SessionInv(s)
BY DEF FinalizationInv, SessionInv, OnlyKnown, AnswersAreInPostgres, StoredIsInPostgres,
       WokenInTime, KnownAt, AnswersAt, StoredAt, WokenAt, EarlyEnough

LEMMA Others ==
  ASSUME TypeOK, NEW s \in Sessions, NEW t \in Sessions, t # s,
         Object(s) \/ Database(s) \/ Redrive(s), SessionInv(t)
  PROVE  SessionInv(t)'
<1>1. ASSUME NEW a \in Axes, NEW x, Continue(s, a, x) PROVE SessionInv(t)'
  <2>1. /\ known'[t] = known[t] /\ host'[t] = host[t] /\ reason'[t] = reason[t]
        /\ axis'[t] = axis[t] /\ alarm'[t] = alarm[t] /\ handler'[t] = handler[t]
        /\ txn'[t] = txn[t] /\ attempt'[t] = attempt[t] /\ recording'[t] = recording[t]
    BY <1>1 DEF Continue, Leave, TypeOK
  <2> QED BY <2>1 DEF SessionInv, KnownAt, AnswersAt, StoredAt, WokenAt, EarlyEnough, InPostgres
<1>2. CASE \/ Initialize(s) \/ HostReturns(s) \/ HostEnds(s, "completed") \/ HostEnds(s, "failed")
           \/ AlarmFires(s) \/ ArchiveFinished(s) \/ Crash(s) \/ Database(s) \/ Redrive(s)
  <2>1. /\ known'[t] = known[t] /\ host'[t] = host[t] /\ reason'[t] = reason[t]
        /\ axis'[t] = axis[t] /\ alarm'[t] = alarm[t] /\ handler'[t] = handler[t]
        /\ txn'[t] = txn[t] /\ attempt'[t] = attempt[t] /\ recording'[t] = recording[t]
    BY <1>2 DEF TypeOK, Initialize, HostReturns, HostEnds, AlarmFires, Leave, ArchiveFinished,
                Crash, Database, FinalizeAttempt, ReconcileRecording, Revoke, Redrive,
                outbox, postgres
  <2> QED BY <2>1 DEF SessionInv, KnownAt, AnswersAt, StoredAt, WokenAt, EarlyEnough, InPostgres
<1> QED BY <1>1, <1>2 DEF Object, Acknowledged, Unanswered, Refused

(* What each end of an await keeps: an axis becomes stored only with its    *)
(* row, and the alarm left behind is early enough.                          *)
LEMMA ContinueKeeps ==
  ASSUME FinalizationAssumption, TypeOK, NEW s \in Sessions, SessionInv(s),
         NEW a \in Axes, At(s, a), NEW x \in Axis, x.state = "stored" => InPostgres(s, a),
         Continue(s, a, x)
  PROVE  SessionInv(s)'
<1> DEFINE after == [axis[s] EXCEPT ![a] = x]
<1>1. /\ after \in [Axes -> Axis] /\ after[a] = x
      /\ \A b \in Axes \ {a} : after[b] = axis[s][b]
  BY SessionTyped
<1>2. axis'[s] = after BY DEF Continue, TypeOK
<1> HIDE DEF after
<1>3. /\ known'[s] = known[s] /\ host'[s] = host[s] /\ reason'[s] = reason[s]
      /\ attempt'[s] = attempt[s] /\ recording'[s] = recording[s]
  BY DEF Continue
<1>4. reason[s] # "none" /\ known[s] BY DEF SessionInv, KnownAt, At, Axes
<1>5. \A b \in Axes : InPostgres(s, b)' <=> InPostgres(s, b) BY <1>3 DEF InPostgres
<1>6. KnownAt(s)' BY <1>3, <1>4 DEF KnownAt
<1>7. AnswersAt(s)'
  <2>1. \A b \in Axes : txn'[s][b] = "done" => txn[s][b] = "done"
    BY SessionTyped DEF Continue, TypeOK, Over
  <2> QED BY <1>3, <1>5, <2>1 DEF SessionInv, AnswersAt
<1>8. StoredAt(s)' BY <1>1, <1>2, <1>5 DEF SessionInv, StoredAt
<1>9. WokenAt(s)'
  <2>1. CASE a = "score" /\ archive[s]
    <3>1. handler'[s] = "archiving" /\ alarm'[s] = alarm[s] BY <2>1 DEF Continue, TypeOK
    <3>2. ASSUME alarm[s] # Never PROVE EarlyEnough(s)'
      <4>1. handler[s] = "score" BY <2>1 DEF At
      <4>2. EarlyEnough(s) /\ Due(axis[s]["score"]) BY <1>4, <3>2, <4>1 DEF SessionInv, WokenAt
      <4>3. alarm[s] = 0 BY <4>2, SessionTyped DEF EarlyEnough, Due, Axes
      <4>4. x.wait \in Nat BY AxisFields, Times
      <4> QED BY <1>1, <1>2, <3>1, <4>2, <4>3, <4>4 DEF EarlyEnough
    <3> QED BY <3>1, <3>2 DEF WokenAt
  <2>2. CASE ~(a = "score" /\ archive[s])
    <3>1. Leave(s, after, alarm[s]) BY <2>2 DEF Continue, after
    <3>2. handler'[s] = "idle" BY <3>1 DEF Leave, TypeOK
    <3>3. CASE Settled(after)
      BY <1>2, <3>2, <3>3 DEF WokenAt, EarlyEnough, Settled
    <3>4. CASE ~Settled(after)
      <4>1. alarm'[s] = Scheduled(after, alarm[s]) BY <3>1, <3>4 DEF Leave, TypeOK
      <4>2. EarlyEnough(s)' BY <1>1, <1>2, <4>1, ScheduledFirst, SessionTyped DEF EarlyEnough
      <4> QED BY <3>2, <4>2 DEF WokenAt
    <3> QED BY <3>3, <3>4
  <2> QED BY <2>1, <2>2
<1> QED BY <1>6, <1>7, <1>8, <1>9 DEF SessionInv

LEMMA ObjectKeeps ==
  ASSUME FinalizationAssumption, TypeOK, NEW s \in Sessions, SessionInv(s), Object(s)
  PROVE  SessionInv(s)'
<1> USE DEF SessionInv, outbox, postgres
<1>1. CASE Initialize(s)
  <2>1. reason[s] = "none" BY <1>1 DEF Initialize, KnownAt
  <2> QED BY <1>1, <2>1 DEF Initialize, TypeOK, KnownAt, AnswersAt, StoredAt, WokenAt, EarlyEnough,
                            InPostgres
<1>2. CASE HostReturns(s)
  BY <1>2 DEF HostReturns, TypeOK, KnownAt, AnswersAt, StoredAt, WokenAt, EarlyEnough, InPostgres
<1>3. ASSUME NEW r \in Reasons, HostEnds(s, r) PROVE SessionInv(s)'
  <2>1. /\ reason'[s] = FirstReason(s, r) /\ alarm'[s] = 0
        /\ axis' = axis /\ handler' = handler /\ txn' = txn /\ known' = known
        /\ attempt' = attempt /\ recording' = recording
    BY <1>3 DEF HostEnds, TypeOK
  <2>2. known[s] BY <1>3 DEF HostEnds, KnownAt
  <2>3. reason'[s] # "none" /\ (reason[s] # "none" => reason'[s] = reason[s])
    BY <2>1 DEF FirstReason, Reasons
  <2>4. \A a \in Axes : axis[s][a].wait \in Nat BY SessionTyped, AxisFields, Times
  <2> QED BY <2>1, <2>2, <2>3, <2>4
          DEF KnownAt, AnswersAt, StoredAt, WokenAt, EarlyEnough, InPostgres
<1>4. CASE AlarmFires(s)
  <2>1. /\ known' = known /\ axis' = axis /\ attempt' = attempt /\ recording' = recording
        /\ known[s] /\ alarm[s] # Never
        /\ reason[s] # "none" => reason'[s] = reason[s]
    BY <1>4, Times DEF AlarmFires, KnownAt, TypeOK
  <2>2. CASE reason'[s] = "none"
    <3>1. handler' = handler /\ txn' = txn /\ reason[s] = "none"
      BY <1>4, <2>2 DEF AlarmFires, TypeOK
    <3> QED BY <1>4, <2>1, <2>2, <3>1
            DEF AlarmFires, KnownAt, AnswersAt, StoredAt, WokenAt, EarlyEnough, InPostgres
  <2>3. CASE reason'[s] # "none"
    <3>1. \A a \in Axes : txn'[s][a] = "done" => txn[s][a] = "done"
      BY <1>4, <2>3, SessionTyped DEF AlarmFires, TypeOK
    <3>2. KnownAt(s)' /\ AnswersAt(s)' /\ StoredAt(s)'
      BY <2>1, <2>3, <3>1 DEF KnownAt, AnswersAt, StoredAt, InPostgres
    <3>3. WokenAt(s)'
      <4>1. PICK current \in {0, Never} :
              \/ /\ handler'[s] \in {"score", "archiving"} /\ alarm'[s] = current
                 /\ handler'[s] = "score" => Due(axis[s]["score"])
              \/ Leave(s, axis[s], current)
        BY <1>4, <2>3 DEF AlarmFires, TypeOK
      <4>2. \A a \in Axes : axis[s][a].wait \in Nat BY SessionTyped, AxisFields, Times
      <4>3. CASE Leave(s, axis[s], current)
        <5>1. handler'[s] = "idle" /\ axis[s] \in [Axes -> Axis] BY <4>3 DEF Leave, TypeOK
        <5>2. EarlyEnough(s)'
          <6>1. CASE Settled(axis[s]) BY <2>1, <6>1 DEF EarlyEnough, Settled
          <6>2. CASE ~Settled(axis[s])
            <7>1. alarm'[s] = Scheduled(axis[s], current) BY <4>3, <6>2 DEF Leave, TypeOK
            <7>2. current \in 0..Never BY Times
            <7> QED BY <2>1, <5>1, <7>1, <7>2, ScheduledFirst DEF EarlyEnough
          <6> QED BY <6>1, <6>2
        <5> QED BY <5>1, <5>2 DEF WokenAt
      <4>4. CASE ~Leave(s, axis[s], current)
        BY <2>1, <4>1, <4>2, <4>4 DEF WokenAt, EarlyEnough
      <4> QED BY <4>3, <4>4
    <3> QED BY <3>2, <3>3
  <2> QED BY <2>2, <2>3
<1>5. CASE ArchiveFinished(s)
  <2>1. reason[s] # "none" BY <1>5 DEF ArchiveFinished, KnownAt
  <2>2. \A a \in Axes : txn'[s][a] = "done" => txn[s][a] = "done"
    BY <1>5, SessionTyped DEF ArchiveFinished, TypeOK
  <2> QED BY <1>5, <2>1, <2>2 DEF ArchiveFinished, TypeOK, KnownAt, AnswersAt, StoredAt, WokenAt,
                                  EarlyEnough, InPostgres
<1>6. CASE Crash(s)
  <2>1. /\ known' = known /\ axis' = axis /\ attempt' = attempt /\ recording' = recording
        /\ reason' = reason /\ known[s] /\ handler'[s] = "idle"
    BY <1>6 DEF Crash, TypeOK
  <2>2. \A a \in Axes : txn'[s][a] # "done" /\ (txn'[s][a] # "none" => txn[s][a] # "none")
    BY <1>6, SessionTyped DEF Crash, TypeOK, Over
  <2>3. EarlyEnough(s)' \/ reason[s] = "none"
    <3>1. \A a \in Axes : axis[s][a].wait \in Nat BY SessionTyped, AxisFields, Times
    <3>2. CASE handler[s] # "idle" /\ alarm[s] = Never
      <4>1. alarm'[s] = 0 BY <1>6, <3>2 DEF Crash, TypeOK
      <4> QED BY <2>1, <3>1, <4>1 DEF EarlyEnough
    <3>3. CASE ~(handler[s] # "idle" /\ alarm[s] = Never)
      <4>1. alarm'[s] = alarm[s] BY <1>6, <3>3 DEF Crash, TypeOK
      <4> QED BY <2>1, <3>3, <4>1 DEF EarlyEnough, WokenAt
    <3> QED BY <3>2, <3>3
  <2> QED BY <2>1, <2>2, <2>3 DEF KnownAt, AnswersAt, StoredAt, WokenAt, InPostgres
<1>7. ASSUME NEW a \in Axes, Acknowledged(s, a) PROVE SessionInv(s)'
  BY <1>7, ContinueKeeps, StoredAxis, SessionTyped DEF Acknowledged, At, AnswersAt
<1>8. ASSUME NEW a \in Axes, Unanswered(s, a) PROVE SessionInv(s)'
  BY <1>8, ContinueKeeps, FailedAxis, SessionTyped DEF Unanswered
<1>9. ASSUME NEW a \in Axes, Refused(s, a) PROVE SessionInv(s)'
  BY <1>9, ContinueKeeps, FailedAxis, SessionTyped DEF Refused, At
<1> QED BY <1>1, <1>2, <1>3, <1>4, <1>5, <1>6, <1>7, <1>8, <1>9 DEF Object, Reasons

LEMMA DatabaseKeeps ==
  ASSUME TypeOK, NEW s \in Sessions, SessionInv(s), Database(s)
  PROVE  SessionInv(s)'
<1> USE DEF SessionInv, outbox, postgres
<1>1. CASE FinalizeAttempt(s)
  <2>1. /\ known' = known /\ host' = host /\ reason' = reason /\ axis' = axis
        /\ alarm' = alarm /\ handler' = handler /\ recording' = recording
    BY <1>1 DEF FinalizeAttempt
  <2>2. reason[s] # "none" BY <1>1 DEF FinalizeAttempt, KnownAt, Axes
  <2>3. attempt'[s] = reason[s]
    BY <1>1 DEF FinalizeAttempt, TypeOK, AnswersAt
  <2>4. \A a \in Axes : txn'[s][a] = "done" => txn[s][a] = "done" \/ a = "score"
    BY <1>1, SessionTyped DEF FinalizeAttempt, TypeOK
  <2>5. KnownAt(s)' BY <2>1, <2>2 DEF KnownAt
  <2>6. \A a \in Axes : InPostgres(s, a) \/ a = "score" => InPostgres(s, a)'
    BY <2>1, <2>2, <2>3 DEF InPostgres
  <2>7. AnswersAt(s)' /\ StoredAt(s)'
    BY <2>1, <2>3, <2>4, <2>6 DEF AnswersAt, StoredAt
  <2>8. WokenAt(s)' BY <2>1 DEF WokenAt, EarlyEnough
  <2> QED BY <2>5, <2>7, <2>8
<1>2. CASE ReconcileRecording(s)
  <2>1. /\ known' = known /\ host' = host /\ reason' = reason /\ axis' = axis
        /\ alarm' = alarm /\ handler' = handler /\ attempt' = attempt
        /\ recording'[s] = "reconciled"
    BY <1>2 DEF ReconcileRecording, TypeOK
  <2>2. reason[s] # "none" BY <1>2 DEF ReconcileRecording, KnownAt, Axes
  <2>3. \A a \in Axes : txn'[s][a] = "done" => txn[s][a] = "done" \/ a = "recording"
    BY <1>2, SessionTyped DEF ReconcileRecording, TypeOK
  <2>4. \A a \in Axes : InPostgres(s, a) \/ a = "recording" => InPostgres(s, a)'
    BY <2>1 DEF InPostgres
  <2>5. KnownAt(s)' BY <2>1, <2>2 DEF KnownAt
  <2>6. AnswersAt(s)' /\ StoredAt(s)'
    BY <2>1, <2>3, <2>4 DEF AnswersAt, StoredAt
  <2>7. WokenAt(s)' BY <2>1 DEF WokenAt, EarlyEnough
  <2> QED BY <2>5, <2>6, <2>7
<1>3. CASE Revoke(s)
  BY <1>3 DEF Revoke, KnownAt, AnswersAt, StoredAt, WokenAt, EarlyEnough, InPostgres
<1> QED BY <1>1, <1>2, <1>3 DEF Database

(* The sweep may overwrite the alarm, never with a later one than the       *)
(* outbox needs, and only an exhausted axis is changed.                     *)
LEMMA RedriveKeeps ==
  ASSUME FinalizationAssumption, TypeOK, NEW s \in Sessions, SessionInv(s), Redrive(s)
  PROVE  SessionInv(s)'
<1> USE DEF SessionInv, outbox, postgres
<1> DEFINE after == [a \in Axes |-> Rearmed(axis[s][a])]
<1>1. after \in [Axes -> Axis] BY SessionTyped, RearmedAxis
<1>2. axis'[s] = after BY DEF Redrive, TypeOK
<1>3. \A a \in Axes : /\ after[a].state = "stored" => axis[s][a].state = "stored"
                      /\ axis[s][a].state = "pending" => after[a] = axis[s][a]
  BY SessionTyped, RearmedAxis
<1> HIDE DEF after
<1>4. /\ known' = known /\ host' = host /\ reason' = reason /\ handler' = handler
      /\ txn' = txn /\ attempt' = attempt /\ recording' = recording
  BY DEF Redrive
<1>5. KnownAt(s)'
  <2>1. CASE known[s] BY <1>4, <2>1 DEF KnownAt
  <2>2. CASE ~known[s]
    <3>1. alarm' = [alarm EXCEPT ![s] = alarm[s]] BY <2>2 DEF Redrive
    <3>2. alarm'[s] = alarm[s] BY <3>1 DEF TypeOK
    <3> QED BY <1>4, <2>2, <3>2 DEF KnownAt
  <2> QED BY <2>1, <2>2
<1>6. AnswersAt(s)' BY <1>4 DEF AnswersAt, InPostgres
<1>7. StoredAt(s)' BY <1>2, <1>3, <1>4 DEF StoredAt, InPostgres
<1>8. WokenAt(s)'
  <2>1. handler'[s] = "score" => Due(axis'[s]["score"])
    BY <1>2, <1>3, <1>4 DEF WokenAt, Due, Axes
  <2>2. ASSUME reason[s] # "none" PROVE EarlyEnough(s)'
    <3>1. known[s] BY <2>2 DEF KnownAt
    <3>2. alarm' = [alarm EXCEPT ![s] = Scheduled(axis'[s], alarm[s])]
      BY <2>2, <3>1 DEF Redrive
    <3>3. alarm'[s] = Scheduled(after, alarm[s]) BY <1>2, <3>2 DEF TypeOK
    <3>4. alarm[s] \in 0..Never BY SessionTyped
    <3>5. \A a \in Axes : after[a].state = "pending" => alarm'[s] <= after[a].wait
      BY <1>1, <3>3, <3>4, ScheduledFirst
    <3> QED BY <1>2, <3>5 DEF EarlyEnough
  <2> QED BY <1>4, <2>1, <2>2 DEF WokenAt
<1> QED BY <1>5, <1>6, <1>7, <1>8

(* The alarm and the retries run down together. *)
LEMMA TickKeeps ==
  ASSUME FinalizationAssumption, TypeOK, NEW s \in Sessions, SessionInv(s), Tick
  PROVE  SessionInv(s)'
<1> USE DEF SessionInv, outbox, postgres
<1>1. /\ known' = known /\ host' = host /\ reason' = reason /\ handler' = handler
      /\ txn' = txn /\ attempt' = attempt /\ recording' = recording
  BY DEF Tick
<1>2. \A a \in Axes : /\ axis'[s][a].state = axis[s][a].state
                      /\ axis'[s][a].wait = Less(axis[s][a].wait)
  BY DEF Tick
<1>3. alarm'[s] = IF alarm[s] = Never THEN Never ELSE Less(alarm[s]) BY DEF Tick
<1>4. alarm[s] \in Nat /\ \A a \in Axes : axis[s][a].wait \in Nat
  <2>1. alarm[s] \in 0..Never /\ \A a \in Axes : axis[s][a] \in Axis BY SessionTyped
  <2> QED BY <2>1, AxisFields, Times
<1>5. alarm'[s] # Never => alarm[s] # Never BY <1>3
<1>6. KnownAt(s)' BY <1>1, <1>5 DEF KnownAt
<1>7. AnswersAt(s)' /\ StoredAt(s)' BY <1>1, <1>2 DEF AnswersAt, StoredAt, InPostgres
<1>8. WokenAt(s)'
  <2>1. handler'[s] = "score" => Due(axis'[s]["score"])
    BY <1>1, <1>2 DEF WokenAt, Due, Less, Axes
  <2>2. ASSUME EarlyEnough(s) PROVE EarlyEnough(s)'
    <3> SUFFICES ASSUME NEW a \in Axes, axis[s][a].state = "pending"
                 PROVE  alarm'[s] <= axis'[s][a].wait
      BY <1>2 DEF EarlyEnough
    <3>1. alarm[s] <= axis[s][a].wait BY <2>2 DEF EarlyEnough
    <3>2. axis[s][a].wait < Never BY SessionTyped, AxisFields, Times
    <3>3. alarm'[s] = Less(alarm[s]) BY <1>3, <1>4, <3>1, <3>2, Times
    <3>4. axis'[s][a].wait = Less(axis[s][a].wait) BY <1>2
    <3> QED BY <1>4, <3>1, <3>3, <3>4 DEF Less
  <2> QED BY <1>1, <1>5, <2>1, <2>2 DEF WokenAt
<1> QED BY <1>6, <1>7, <1>8

LEMMA InvInit == ASSUME FinalizationAssumption PROVE Init => FinalizationInv
<1> SUFFICES ASSUME Init PROVE FinalizationInv OBVIOUS
<1>1. TypeOK BY TypeInit
<1>2. ASSUME NEW s \in Sessions PROVE SessionInv(s)
  BY DEF Init, SessionInv, KnownAt, AnswersAt, StoredAt, WokenAt, EarlyEnough, Fresh, InPostgres
<1> QED BY <1>1, <1>2, BySession

LEMMA InvStep ==
  ASSUME FinalizationAssumption, FinalizationInv, [Next]_vars PROVE FinalizationInv'
<1>1. TypeOK /\ \A s \in Sessions : SessionInv(s) BY BySession
<1>2. TypeOK' BY <1>1, TypeStep
<1>3. ASSUME NEW t \in Sessions PROVE SessionInv(t)'
  <2>1. CASE Tick BY <1>1, <2>1, TickKeeps
  <2>2. ASSUME NEW s \in Sessions, Object(s) \/ Database(s) \/ Redrive(s) PROVE SessionInv(t)'
    BY <1>1, <2>2, Others, ObjectKeeps, DatabaseKeeps, RedriveKeeps
  <2>3. CASE \/ SweepStarts \/ SweepStops \/ UNCHANGED vars
             \/ \E s \in Sessions : RedriveFails(s)
    <3>1. UNCHANGED <<known, host, outbox, alarm, handler, postgres>>
      BY <2>3 DEF SweepStarts, SweepStops, RedriveFails, vars
    <3> QED BY <1>1, <3>1 DEF SessionInv, KnownAt, AnswersAt, StoredAt, WokenAt, EarlyEnough,
                              InPostgres, outbox, postgres
  <2> QED BY <2>1, <2>2, <2>3 DEF Next, Sweep
<1> QED BY <1>2, <1>3
        DEF FinalizationInv, SessionInv, OnlyKnown, AnswersAreInPostgres, StoredIsInPostgres,
            WokenInTime, KnownAt, AnswersAt, StoredAt, WokenAt, EarlyEnough

(* The object's axes, its alarm, its handler and its calls agree with the   *)
(* rows of Postgres in every reachable state: answers report rows that are  *)
(* there, stored axes have theirs, and a pending axis is woken in time.     *)
THEOREM FinalizationInvHolds == ASSUME FinalizationAssumption PROVE Spec => []FinalizationInv
BY InvInit, InvStep, PTL DEF Spec

(* An axis the object counts as stored has its row in Postgres, for every   *)
(* order of timeouts, late commits, crashes and redrives.                   *)
THEOREM StoredCorrect == ASSUME FinalizationAssumption PROVE Spec => []StoredIsInPostgres
<1>1. FinalizationInv => StoredIsInPostgres BY DEF FinalizationInv
<1> QED BY <1>1, FinalizationInvHolds, PTL

(* An object with a pending axis is never left asleep.                      *)
THEOREM PendingWakes == ASSUME FinalizationAssumption PROVE Spec => []PendingHasAlarm
<1>1. FinalizationInv => PendingHasAlarm
  <2> SUFFICES ASSUME FinalizationInv, NEW s \in Sessions,
                      reason[s] # "none", Pending(s), handler[s] = "idle"
               PROVE  /\ alarm[s] # Never
                      /\ \A a \in Axes : axis[s][a].state = "pending" => alarm[s] <= axis[s][a].wait
    BY DEF PendingHasAlarm
  <2>1. TypeOK BY DEF FinalizationInv
  <2>2. \A a \in Axes : axis[s][a].state = "pending" => alarm[s] <= axis[s][a].wait
    BY DEF FinalizationInv, WokenInTime
  <2>3. \A a \in Axes : axis[s][a].wait < Never /\ axis[s][a].wait \in Nat
    BY <2>1, SessionTyped, AxisFields, Times
  <2>4. Never \in Nat BY Times
  <2> QED BY <2>2, <2>3, <2>4 DEF Pending
<1> QED BY <1>1, FinalizationInvHolds, PTL

(* The reason an object gave first is the one Postgres records, for good.   *)
THEOREM FirstReasonWins == ASSUME FinalizationAssumption PROVE Spec => AttemptKeepsTheReason
<1>1. FinalizationInv /\ FinalizationInv' /\ [Next]_vars => KeepsTheReason
  <2> SUFFICES ASSUME FinalizationInv, FinalizationInv', [Next]_vars PROVE KeepsTheReason
    OBVIOUS
  <2>1. ASSUME NEW s \in Sessions PROVE attempt'[s] \in {"none", reason'[s]}
    BY DEF FinalizationInv, AnswersAreInPostgres
  <2>2. ASSUME NEW s \in Sessions, reason[s] # "none" PROVE reason'[s] = reason[s]
    <3>1. CASE reason' = reason BY <3>1
    <3>2. ASSUME NEW t \in Sessions, NEW r \in Reasons, HostEnds(t, r)
          PROVE  reason'[s] = reason[s]
      BY <2>2, <3>2 DEF HostEnds, FirstReason, FinalizationInv, TypeOK
    <3>3. ASSUME NEW t \in Sessions, AlarmFires(t) PROVE reason'[s] = reason[s]
      BY <2>2, <3>3 DEF AlarmFires, FinalizationInv, TypeOK
    <3>4. ASSUME NEW t \in Sessions, Object(t) \/ Database(t),
                 ~AlarmFires(t), ~HostEnds(t, "completed"), ~HostEnds(t, "failed")
          PROVE  reason' = reason
      BY <3>4 DEF Object, Database, Initialize, HostReturns, ArchiveFinished, Crash,
                  Acknowledged, Unanswered, Refused, Continue, FinalizeAttempt,
                  ReconcileRecording, Revoke, outbox, postgres
    <3>5. CASE Tick \/ Sweep \/ UNCHANGED vars
      BY <3>5 DEF Tick, Sweep, SweepStarts, SweepStops, Redrive, RedriveFails, vars, outbox
    <3> QED BY <3>1, <3>2, <3>3, <3>4, <3>5 DEF Next, Reasons
  <2> QED BY <2>1, <2>2 DEF KeepsTheReason
<1> QED BY <1>1, FinalizationInvHolds, PTL DEF Spec, AttemptKeepsTheReason
-----------------------------------------------------------------------------
(* KaraokeFinalization implements SessionOutcome.                           *)
(*                                                                          *)
(* A failure writes its axis back as pending or exhausted, whatever it was: *)
(* that it takes back nothing needs that the axis the handler works on is   *)
(* pending still.  The score is due (WokenAt); the recording was when the   *)
(* handler began, and only the handler itself changes a pending axis.       *)
InHand(s) ==
  (handler[s] = "score" /\ archive[s]) \/ handler[s] \in {"archiving", "recording"} =>
    axis[s]["recording"].state = "pending"

RefineInv == FinalizationInv /\ \A s \in Sessions : InHand(s)

LEMMA ContinueInHand ==
  ASSUME TypeOK, NEW s \in Sessions, InHand(s), NEW a \in Axes, At(s, a), NEW x \in Axis,
         Continue(s, a, x)
  PROVE  InHand(s)'
<1>1. CASE a = "score" /\ archive[s]
  <2>1. axis[s]["recording"].state = "pending"  BY <1>1 DEF InHand, At
  <2>2. axis'[s]["recording"] = axis[s]["recording"]
    BY <1>1, SessionTyped DEF Continue, TypeOK, Axes
  <2> QED BY <2>1, <2>2 DEF InHand
<1>2. CASE ~(a = "score" /\ archive[s])
  <2>1. handler'[s] = "idle"  BY <1>2 DEF Continue, Leave, TypeOK
  <2> QED BY <2>1 DEF InHand
<1> QED BY <1>1, <1>2

LEMMA ObjectInHand ==
  ASSUME FinalizationAssumption, TypeOK, NEW s \in Sessions, SessionInv(s), InHand(s), Object(s)
  PROVE  InHand(s)'
<1>1. CASE \/ Initialize(s) \/ HostReturns(s) \/ HostEnds(s, "completed") \/ HostEnds(s, "failed")
  BY <1>1 DEF Initialize, HostReturns, HostEnds, InHand, outbox
<1>2. CASE AlarmFires(s)
  <2>1. axis' = axis /\ handler[s] = "idle"  BY <1>2 DEF AlarmFires
  <2>2. CASE reason'[s] = "none"
    <3>1. handler' = handler  BY <1>2, <2>2 DEF AlarmFires
    <3> QED BY <2>1, <3>1 DEF InHand
  <2>3. CASE reason'[s] # "none"
    <3>1. archive' = [archive EXCEPT ![s] = Due(axis[s]["recording"])]
      BY <1>2, <2>3 DEF AlarmFires
    <3>2. archive'[s] = Due(axis[s]["recording"])  BY <3>1 DEF TypeOK
    <3>3. handler'[s] \in {"score", "idle"} \/ (handler'[s] = "archiving" /\ archive'[s])
      BY <1>2, <2>3 DEF AlarmFires, Leave, TypeOK
    <3> QED BY <2>1, <3>2, <3>3 DEF InHand, Due
  <2> QED BY <2>2, <2>3
<1>3. CASE ArchiveFinished(s)  BY <1>3 DEF ArchiveFinished, InHand, TypeOK, outbox
<1>4. CASE Crash(s)
  <2>1. handler'[s] = "idle"  BY <1>4 DEF Crash, TypeOK
  <2> QED BY <2>1 DEF InHand
<1>5. ASSUME NEW a \in Axes, Acknowledged(s, a) PROVE InHand(s)'
  BY <1>5, ContinueInHand, StoredAxis, SessionTyped DEF Acknowledged, At
<1>6. ASSUME NEW a \in Axes, Unanswered(s, a) PROVE InHand(s)'
  BY <1>6, ContinueInHand, FailedAxis, SessionTyped DEF Unanswered
<1>7. ASSUME NEW a \in Axes, Refused(s, a) PROVE InHand(s)'
  BY <1>7, ContinueInHand, FailedAxis, SessionTyped DEF Refused, At
<1> QED BY <1>1, <1>2, <1>3, <1>4, <1>5, <1>6, <1>7 DEF Object

(* What a step of one session leaves alone in the others. *)
LEMMA OthersInHand ==
  ASSUME TypeOK, NEW s \in Sessions, NEW t \in Sessions, t # s,
         Object(s) \/ Database(s) \/ Redrive(s), InHand(t)
  PROVE  InHand(t)'
<1>1. ASSUME NEW a \in Axes, NEW x, Continue(s, a, x) PROVE InHand(t)'
  <2>1. axis'[t] = axis[t] /\ handler'[t] = handler[t] /\ archive'[t] = archive[t]
    BY <1>1 DEF Continue, Leave, TypeOK
  <2> QED BY <2>1 DEF InHand
<1>2. CASE \/ Initialize(s) \/ HostReturns(s) \/ HostEnds(s, "completed") \/ HostEnds(s, "failed")
           \/ AlarmFires(s) \/ ArchiveFinished(s) \/ Crash(s) \/ Database(s) \/ Redrive(s)
  <2>1. axis'[t] = axis[t] /\ handler'[t] = handler[t] /\ archive'[t] = archive[t]
    BY <1>2 DEF TypeOK, Initialize, HostReturns, HostEnds, AlarmFires, Leave, ArchiveFinished,
                Crash, Database, FinalizeAttempt, ReconcileRecording, Revoke, Redrive,
                outbox, postgres
  <2> QED BY <2>1 DEF InHand
<1> QED BY <1>1, <1>2 DEF Object, Acknowledged, Unanswered, Refused

LEMMA RefineInvStep ==
  ASSUME FinalizationAssumption, RefineInv, [Next]_vars  PROVE RefineInv'
<1>1. TypeOK /\ \A s \in Sessions : SessionInv(s) /\ InHand(s)  BY BySession DEF RefineInv
<1>2. FinalizationInv'  BY InvStep DEF RefineInv
<1>3. ASSUME NEW t \in Sessions PROVE InHand(t)'
  <2>1. CASE Tick
    <3>1. axis'[t]["recording"].state = axis[t]["recording"].state  BY <2>1 DEF Tick, Axes
    <3> QED BY <1>1, <2>1, <3>1 DEF Tick, InHand
  <2>2. ASSUME NEW s \in Sessions, Object(s) \/ Database(s) \/ Redrive(s), s # t PROVE InHand(t)'
    BY <1>1, <2>2, OthersInHand
  <2>3. CASE Object(t)  BY <1>1, <2>3, ObjectInHand
  <2>4. CASE Database(t)
    BY <1>1, <2>4 DEF Database, FinalizeAttempt, ReconcileRecording, Revoke, InHand, outbox
  <2>5. CASE Redrive(t)
    <3>1. axis' = [axis EXCEPT ![t] = [a \in Axes |-> Rearmed(axis[t][a])]]
      BY <2>5 DEF Redrive
    <3>2. axis'[t]["recording"] = Rearmed(axis[t]["recording"])
      BY <1>1, <3>1 DEF TypeOK, Axes
    <3>3. axis[t]["recording"] \in Axis  BY <1>1, SessionTyped DEF Axes
    <3> QED BY <1>1, <2>5, <3>2, <3>3, RearmedAxis DEF Redrive, InHand
  <2>6. CASE \/ SweepStarts \/ SweepStops \/ UNCHANGED vars
             \/ \E s \in Sessions : RedriveFails(s)
    BY <1>1, <2>6 DEF SweepStarts, SweepStops, RedriveFails, vars, outbox, InHand
  <2> QED BY <2>1, <2>2, <2>3, <2>4, <2>5, <2>6 DEF Next, Sweep
<1> QED BY <1>2, <1>3 DEF RefineInv

LEMMA AlwaysRefines == ASSUME FinalizationAssumption PROVE Spec => []RefineInv
<1>1. Init => RefineInv
  <2>1. Init => \A s \in Sessions : InHand(s)  BY DEF Init, InHand
  <2> QED BY <2>1, InvInit DEF RefineInv
<1> QED BY <1>1, RefineInvStep, PTL DEF Spec

-----------------------------------------------------------------------------
(* The steps.  The mapped sets are named, and a step that changes neither   *)
(* them nor the reasons is a stutter.                                       *)
Reconciled == {s \in Sessions : recording[s] = "reconciled"}
Believed   == {p \in Sessions \X Axes : axis[p[1]][p[2]].state = "stored"}

LEMMA OutcomeStutters ==
  ASSUME reason' = reason, attempt' = attempt, Reconciled' = Reconciled, Believed' = Believed
  PROVE  UNCHANGED Outcome!vars
BY DEF Outcome!vars, Reconciled, Believed

LEMMA SameStates ==
  ASSUME \A s \in Sessions : \A a \in Axes :
           (axis'[s][a].state = "stored") <=> (axis[s][a].state = "stored")
  PROVE  Believed' = Believed
BY DEF Believed

(* An axis in hand becomes x, and no other axis changes. *)
LEMMA ContinueMoves ==
  ASSUME TypeOK, NEW s \in Sessions, NEW a \in Axes, NEW x \in Axis, Continue(s, a, x)
  PROVE  /\ reason' = reason /\ attempt' = attempt /\ Reconciled' = Reconciled
         /\ axis'[s][a] = x
         /\ \A t \in Sessions : \A b \in Axes : t # s \/ b # a => axis'[t][b] = axis[t][b]
<1>1. axis' = [axis EXCEPT ![s] = [axis[s] EXCEPT ![a] = x]]  BY DEF Continue
<1>2. axis'[s] = [axis[s] EXCEPT ![a] = x] /\ axis[s] \in [Axes -> Axis]  BY <1>1 DEF TypeOK
<1>3. \A t \in Sessions : t # s => axis'[t] = axis[t]  BY <1>1 DEF TypeOK
<1> QED BY <1>2, <1>3 DEF Continue, Reconciled

LEMMA FailureStutters ==
  ASSUME FinalizationAssumption, TypeOK, NEW s \in Sessions, SessionInv(s), InHand(s),
         NEW a \in Axes, At(s, a), NEW retain \in BOOLEAN,
         Continue(s, a, Failed(axis[s][a], retain))
  PROVE  UNCHANGED Outcome!vars
<1>1. axis[s][a] \in Axis  BY SessionTyped
<1>2. axis[s][a].state # "stored"
  BY DEF SessionInv, WokenAt, InHand, At, Due, Axes
<1>3. Failed(axis[s][a], retain) \in Axis /\ Failed(axis[s][a], retain).state # "stored"
  BY <1>1, FailedAxis
<1>4. /\ reason' = reason /\ attempt' = attempt /\ Reconciled' = Reconciled
      /\ axis'[s][a] = Failed(axis[s][a], retain)
      /\ \A t \in Sessions : \A b \in Axes : t # s \/ b # a => axis'[t][b] = axis[t][b]
  BY <1>3, ContinueMoves
<1>5. Believed' = Believed  BY <1>2, <1>3, <1>4, SameStates
<1> QED BY <1>4, <1>5, OutcomeStutters

LEMMA AcknowledgedBelieves ==
  ASSUME TypeOK, NEW s \in Sessions, SessionInv(s), NEW a \in Axes, Acknowledged(s, a)
  PROVE  Outcome!Believe(s, a)
<1>1. axis[s][a] \in Axis  BY SessionTyped
<1>2. Stored(axis[s][a]) \in Axis /\ Stored(axis[s][a]).state = "stored"  BY <1>1, StoredAxis
<1>3. /\ reason' = reason /\ attempt' = attempt /\ Reconciled' = Reconciled
      /\ axis'[s][a] = Stored(axis[s][a])
      /\ \A t \in Sessions : \A b \in Axes : t # s \/ b # a => axis'[t][b] = axis[t][b]
  BY <1>2, ContinueMoves DEF Acknowledged
<1>4. Believed' = Believed \cup {<<s, a>>}
  <2>1. ASSUME NEW p \in Sessions \X Axes
        PROVE  p \in Believed' <=> p \in Believed \/ p = <<s, a>>
    <3>1. p[1] \in Sessions /\ p[2] \in Axes /\ p = <<p[1], p[2]>>  OBVIOUS
    <3>2. CASE p[1] = s /\ p[2] = a  BY <1>2, <1>3, <3>1, <3>2 DEF Believed
    <3>3. CASE p[1] # s \/ p[2] # a
      <4>1. axis'[p[1]][p[2]] = axis[p[1]][p[2]]  BY <1>3, <3>1, <3>3
      <4>2. p # <<s, a>>  BY <3>3
      <4> QED BY <4>1, <4>2 DEF Believed
    <3> QED BY <3>2, <3>3
  <2>2. Believed \subseteq Sessions \X Axes /\ Believed' \subseteq Sessions \X Axes
    BY DEF Believed
  <2>3. <<s, a>> \in Sessions \X Axes  OBVIOUS
  <2> QED BY <2>1, <2>2, <2>3
<1>5. InPostgres(s, a)  BY DEF Acknowledged, SessionInv, AnswersAt
<1>6. IF a = "score" THEN attempt[s] # "none" ELSE s \in Reconciled
  BY <1>5 DEF InPostgres, Reconciled, TypeOK
<1> QED BY <1>3, <1>4, <1>6 DEF Outcome!Believe, Reconciled, Believed

LEMMA ObjectRefines ==
  ASSUME FinalizationAssumption, TypeOK, NEW s \in Sessions, SessionInv(s), InHand(s), Object(s)
  PROVE  [Outcome!Next]_(Outcome!vars)
<1>1. CASE Initialize(s) \/ HostReturns(s) \/ ArchiveFinished(s) \/ Crash(s)
  BY <1>1, OutcomeStutters
     DEF Initialize, HostReturns, ArchiveFinished, Crash, outbox, postgres, Reconciled, Believed
<1>2. ASSUME axis' = axis, attempt' = attempt, recording' = recording, NEW r \in Reasons,
             reason' = reason \/ (reason[s] = "none" /\ reason' = [reason EXCEPT ![s] = r])
      PROVE  [Outcome!Next]_(Outcome!vars)
  <2>1. Reconciled' = Reconciled /\ Believed' = Believed  BY <1>2 DEF Reconciled, Believed
  <2>2. CASE reason' = reason  BY <1>2, <2>1, <2>2, OutcomeStutters
  <2>3. CASE reason' # reason
    <3>1. Outcome!End(s, r)  BY <1>2, <2>1, <2>3 DEF Outcome!End, Reconciled, Believed
    <3> QED BY <3>1 DEF Outcome!Next
  <2> QED BY <2>2, <2>3
<1>3. ASSUME NEW r \in Reasons, HostEnds(s, r) PROVE [Outcome!Next]_(Outcome!vars)
  <2>1. axis' = axis /\ attempt' = attempt /\ recording' = recording
    BY <1>3 DEF HostEnds, postgres
  <2>2. reason' = reason \/ (reason[s] = "none" /\ reason' = [reason EXCEPT ![s] = r])
    BY <1>3 DEF HostEnds, FirstReason, TypeOK
  <2> QED BY <1>2, <2>1, <2>2
<1>4. CASE AlarmFires(s)
  <2>1. axis' = axis /\ attempt' = attempt /\ recording' = recording
    BY <1>4 DEF AlarmFires
  <2>2. \/ reason' = reason
        \/ reason[s] = "none" /\ reason' = [reason EXCEPT ![s] = "abandoned"]
    BY <1>4 DEF AlarmFires, TypeOK
  <2> QED BY <1>2, <2>1, <2>2 DEF Reasons
<1>5. ASSUME NEW a \in Axes, Acknowledged(s, a) PROVE Outcome!Next
  <2>1. Outcome!Believe(s, a)  BY <1>5, AcknowledgedBelieves
  <2> QED BY <2>1 DEF Outcome!Next, Outcome!Halves, Axes
<1>6. ASSUME NEW a \in Axes, Unanswered(s, a) PROVE UNCHANGED Outcome!vars
  BY <1>6, FailureStutters DEF Unanswered
<1>7. ASSUME NEW a \in Axes, Refused(s, a) PROVE UNCHANGED Outcome!vars
  BY <1>7, FailureStutters DEF Refused, At
<1> QED BY <1>1, <1>3, <1>4, <1>5, <1>6, <1>7 DEF Object, Reasons

LEMMA DatabaseRefines ==
  ASSUME TypeOK, NEW s \in Sessions, SessionInv(s), Database(s)
  PROVE  [Outcome!Next]_(Outcome!vars)
<1>1. CASE FinalizeAttempt(s)
  <2>1. /\ reason' = reason /\ Reconciled' = Reconciled /\ Believed' = Believed
        /\ attempt' = [attempt EXCEPT ![s] = IF @ = "none" THEN reason[s] ELSE @]
    BY <1>1 DEF FinalizeAttempt, outbox, Reconciled, Believed
  <2>2. reason[s] # "none"  BY <1>1 DEF FinalizeAttempt, SessionInv, KnownAt, Axes
  <2>3. CASE attempt[s] = "none"
    <3>1. Outcome!Record(s)  BY <2>1, <2>2, <2>3 DEF Outcome!Record, Reconciled, Believed
    <3> QED BY <3>1 DEF Outcome!Next
  <2>4. CASE attempt[s] # "none"
    <3>1. attempt' = attempt  BY <2>1, <2>4 DEF TypeOK
    <3> QED BY <2>1, <3>1, OutcomeStutters
  <2> QED BY <2>3, <2>4
<1>2. CASE ReconcileRecording(s)
  <2>1. /\ reason' = reason /\ attempt' = attempt /\ Believed' = Believed
        /\ recording' = [recording EXCEPT ![s] = "reconciled"]
    BY <1>2 DEF ReconcileRecording, outbox, Believed
  <2>2. reason[s] # "none"  BY <1>2 DEF ReconcileRecording, SessionInv, KnownAt, Axes
  <2>3. Reconciled' = Reconciled \cup {s}  BY <2>1 DEF Reconciled, TypeOK
  <2>4. Outcome!Reconcile(s)
    BY <2>1, <2>2, <2>3 DEF Outcome!Reconcile, Reconciled, Believed
  <2> QED BY <2>4 DEF Outcome!Next
<1>3. CASE Revoke(s)
  BY <1>3, OutcomeStutters DEF Revoke, outbox, Reconciled, Believed
<1> QED BY <1>1, <1>2, <1>3 DEF Database

LEMMA RestRefines ==
  ASSUME FinalizationAssumption, TypeOK, Tick \/ Sweep \/ UNCHANGED vars
  PROVE  UNCHANGED Outcome!vars
<1>1. reason' = reason /\ attempt' = attempt /\ Reconciled' = Reconciled
  BY DEF Tick, Sweep, SweepStarts, SweepStops, Redrive, RedriveFails, vars, outbox, postgres,
         Reconciled
<1>2. CASE axis' = axis  BY <1>1, <1>2, OutcomeStutters DEF Believed
<1>3. CASE Tick
  <2>1. \A s \in Sessions : \A a \in Axes : axis'[s][a].state = axis[s][a].state
    BY <1>3 DEF Tick
  <2> QED BY <1>1, <2>1, SameStates, OutcomeStutters
<1>4. ASSUME NEW s \in Sessions, Redrive(s) PROVE UNCHANGED Outcome!vars
  <2>1. axis' = [axis EXCEPT ![s] = [a \in Axes |-> Rearmed(axis[s][a])]]
    BY <1>4 DEF Redrive
  <2>2. /\ \A a \in Axes : axis'[s][a] = Rearmed(axis[s][a])
        /\ \A t \in Sessions : t # s => axis'[t] = axis[t]
    BY <2>1 DEF TypeOK
  <2>3. \A a \in Axes : Rearmed(axis[s][a]).state = "stored" <=> axis[s][a].state = "stored"
    BY DEF Rearmed, Fresh
  <2>4. Believed' = Believed  BY <2>2, <2>3, SameStates
  <2> QED BY <1>1, <2>4, OutcomeStutters
<1> QED BY <1>2, <1>3, <1>4
        DEF Sweep, SweepStarts, SweepStops, RedriveFails, vars, outbox

(* The outbox, its alarm and retries, the two transactions and the sweep    *)
(* implement SessionOutcome, for any number of sessions, crashes, late      *)
(* commits and redrives.                                                    *)
THEOREM OutcomeIsFinal == ASSUME FinalizationAssumption PROVE Spec => ImplementsSessionOutcome
<1>1. Init => Outcome!Init
  <2>1. Init => Reconciled = {} /\ Believed = {}  BY DEF Init, Reconciled, Believed, Fresh
  <2> QED BY <2>1 DEF Init, Outcome!Init, Reconciled, Believed
<1>2. ASSUME RefineInv, [Next]_vars PROVE [Outcome!Next]_(Outcome!vars)
  <2>1. TypeOK /\ \A s \in Sessions : SessionInv(s) /\ InHand(s)
    BY <1>2, BySession DEF RefineInv
  <2>2. ASSUME NEW s \in Sessions, Object(s) PROVE [Outcome!Next]_(Outcome!vars)
    BY <2>1, <2>2, ObjectRefines
  <2>3. ASSUME NEW s \in Sessions, Database(s) PROVE [Outcome!Next]_(Outcome!vars)
    BY <2>1, <2>3, DatabaseRefines
  <2>4. CASE Tick \/ Sweep \/ UNCHANGED vars  BY <2>1, <2>4, RestRefines
  <2> QED BY <1>2, <2>2, <2>3, <2>4 DEF Next
<1> QED BY <1>1, <1>2, AlwaysRefines, PTL DEF Spec, Outcome!Spec, ImplementsSessionOutcome
=============================================================================
