------------------------ MODULE CapturedArchiveProofs ------------------------
(* For any number of frames, failures, batches and deletion requests:      *)
(* the archive has at most one operation at the bucket, a closed upload is *)
(* over and stays so, what the ledger calls absent is absent, and what is  *)
(* published is the whole of what was sung.                                *)
(*                                                                         *)
(* The invariant is built in layers, each kept by every step with the help *)
(* of the ones before: Typed, SavedOperation (an operation at the bucket   *)
(* is the one the journal saved), Turn (what a call may be at), Asked (who *)
(* asked for it), Locator (the journal), Ledger (Postgres), OnItsWay and   *)
(* Whole (the audio), Waiting (the calls in line).                         *)
EXTENDS CapturedArchive, FiniteSetTheorems, SequenceTheorems, TLAPS

(* Why it holds: an operation that has not taken effect is the one whose    *)
(* nonce the journal has saved, and a new one is issued only when no nonce  *)
(* is saved.                                                                *)
Saved(op) == op.nonce = journal.inFlight /\ journal.inFlight # None

SavedOperation ==
  /\ "inFlight" \in DOMAIN journal
  /\ remote = {} \/ \E op \in remote : remote = {op} /\ Saved(op)

LEMMA FreeIsQuiet == SavedOperation /\ Free => remote = {}
  BY DEF SavedOperation, Free, Saved

(* The first nonce of an empty bucket is not the one that stands for none. *)
LEMMA FirstNonce == remote = {} => Nonce # None
<1> SUFFICES ASSUME remote = {} PROVE Nonce # None
  OBVIOUS
<1>1. Cardinality(remote) = 0
  BY FS_EmptySet
<1>2. 1 \in 1..(Cardinality(remote) + 1) /\ \A op \in remote : op.nonce # 1
  BY <1>1
<1>3. Nonce \in 1..(Cardinality(remote) + 1)
  BY <1>2 DEF Nonce
<1> QED
  BY <1>1, <1>3 DEF None

LEMMA Issuing == SavedOperation /\ Free /\ Issue => SavedOperation'
<1> SUFFICES ASSUME SavedOperation, Free, Issue PROVE SavedOperation'
  OBVIOUS
<1> DEFINE new == [kind |-> task.goal, nonce |-> Nonce,
                   audio |-> CASE task.goal = "part" -> task.taken
                               [] task.goal = "complete" -> journal.parts
                               [] OTHER -> <<>>]
<1>1. remote = {}
  BY FreeIsQuiet
<1>2. remote' = {new}
  BY <1>1 DEF Issue
<1>3. journal' = [journal EXCEPT !.inFlight = Nonce]
  BY DEF Issue
<1>4. "inFlight" \in DOMAIN journal' /\ journal'.inFlight = Nonce
  BY <1>3 DEF SavedOperation
<1>5. new.nonce = Nonce
  OBVIOUS
<1>6. Nonce # None
  BY <1>1, FirstNonce
<1> HIDE DEF new
<1> QED
  BY <1>2, <1>4, <1>5, <1>6 DEF SavedOperation, Saved

(* What the steps do that issue nothing and end nothing. *)
KeepsPending == /\ remote' = remote /\ journal'.inFlight = journal.inFlight
                /\ DOMAIN journal' = DOMAIN journal

LEMMA Kept == SavedOperation /\ KeepsPending => SavedOperation'
  BY DEF SavedOperation, KeepsPending, Saved

LEMMA Effects == ASSUME SavedOperation, NEW op \in remote, TakesEffect(op)
                 PROVE  SavedOperation'
<1>1. remote' = {}
  BY DEF TakesEffect, SavedOperation
<1>2. "inFlight" \in DOMAIN journal'
  <2>1. CASE task.pc = "remote" /\ journal.inFlight = op.nonce
    BY <2>1 DEF TakesEffect, Succeeds, SavedOperation
  <2>2. CASE ~(task.pc = "remote" /\ journal.inFlight = op.nonce)
    BY <2>2 DEF TakesEffect, SavedOperation
  <2> QED
    BY <2>1, <2>2
<1> QED
  BY <1>1, <1>2 DEF SavedOperation

LEMMA InitSaved == Init => SavedOperation
  BY DEF Init, SavedOperation

LEMMA NextSaved == SavedOperation /\ [Next]_vars => SavedOperation'
<1> SUFFICES ASSUME SavedOperation, [Next]_vars PROVE SavedOperation'
  OBVIOUS
<1>1. CASE Admitted
  <2>1. CASE Free /\ Issue
    BY <2>1, Issuing
  <2>2. CASE UNCHANGED <<journal, remote>>
    BY <2>2, Kept DEF KeepsPending
  <2> QED
    BY <1>1, <2>1, <2>2 DEF Admitted
<1>2. CASE StopIssues
  <2>1. CASE Free /\ Issue
    BY <2>1, Issuing
  <2>2. CASE UNCHANGED <<journal, remote>>
    BY <2>2, Kept DEF KeepsPending
  <2> QED
    BY <1>2, <2>1, <2>2 DEF StopIssues
<1>3. CASE \E op \in remote : TakesEffect(op)
  BY <1>3, Effects
<1>4. CASE Frame \/ SessionEnds \/ CallFinish \/ Begin \/ Reclaim \/ Cancel \/ Allow \/ Note
           \/ GivesUp \/ SettleUnsure \/ SettleStored \/ StopClaims \/ SettleAbsent
           \/ CallFails \/ Reconcile \/ Crash
  <2> UNCHANGED <<journal, remote>>
    BY <1>4 DEF Frame, SessionEnds, CallFinish, Begin, Reclaim, Cancel, Allow, Note, GivesUp,
                SettleUnsure, SettleStored, StopClaims, SettleAbsent, CallFails, Reconcile,
                Crash, bucket, host
  <2> QED
    BY Kept DEF KeepsPending
<1>5. CASE CallStop \/ Claim \/ Get
  <2> KeepsPending
    <3>1. CASE CallStop
      BY <3>1 DEF CallStop, KeepsPending, bucket, SavedOperation
    <3>2. CASE Claim
      BY <3>2 DEF Claim, KeepsPending, bucket, SavedOperation
    <3>3. CASE Get
      BY <3>3 DEF Get, KeepsPending, bucket, SavedOperation
    <3> QED
      BY <1>5, <3>1, <3>2, <3>3
  <2> QED
    BY Kept
<1>6. CASE \E d \in Deleters : Deletion(d)
  <2> UNCHANGED <<journal, remote>>
    BY <1>6 DEF Deletion, Prepare, DeleteObjects, DeleterStops, Confirm, host, bucket
  <2> QED
    BY Kept DEF KeepsPending
<1>7. CASE UNCHANGED vars
  BY <1>7, Kept DEF vars, host, bucket, KeepsPending
<1> QED
  BY <1>1, <1>2, <1>3, <1>4, <1>5, <1>6, <1>7 DEF Next, Host, Task

(* The archive never has two operations at the bucket, however often its    *)
(* callers give up and the object loses its memory, and whatever order the  *)
(* bucket executes what it was asked for.                                   *)
THEOREM OneOperationAtATime == Spec => []OneOperation
<1>1. SavedOperation => OneOperation
  <2>1. Cardinality({}) = 0 /\ \A op : Cardinality({op}) = 1
    BY FS_EmptySet, FS_Singleton
  <2> QED
    BY <2>1 DEF SavedOperation, OneOperation
<1> QED
  BY <1>1, InitSaved, NextSaved, PTL DEF Spec

-----------------------------------------------------------------------------
(* Types *)
Journals == [claimed : BOOLEAN, fenced : BOOLEAN, located : BOOLEAN, parts : Seq(Frames),
             inFlight : Nat, completed : BOOLEAN, result : BOOLEAN]
Turns == [kind : Calls, pc : Steps, goal : Kinds, noted : BOOLEAN, taken : Seq(Frames)]
Operations == [kind : Kinds, nonce : Nat, audio : Seq(Frames)]
Uploads == [io : {"registered", "writing", "unknown", "closed"}, located : BOOLEAN,
            disposition : {"none", "stored", "absent"}, cleanup : BOOLEAN]
Batches == [named : BOOLEAN, confirmed : BOOLEAN]
Requests == [pc : {"idle", "delete", "confirm"}, batch : 0..MaxBatches]

(* The values of the variables, but for the lengths of the audio.           *)
Typed ==
  /\ spoken \in 0..MaxFrames /\ ended \in BOOLEAN /\ settled \in BOOLEAN
  /\ journal \in Journals /\ chunks \in Seq(Frames) /\ serial \in Seq(Calls)
  /\ task = Idle \/ task \in Turns
  /\ answer \in {"none", "stored", "failed"}
  /\ remote \subseteq Operations
  /\ multipart \in {"none", "open", "gone"} /\ object \in Seq(Frames) \cup {NoAudio}
  /\ upload \in Uploads /\ recording \in {"pending", "stored", "failed", "deleted"}
  /\ command \in {"none", "pending", "completed"} /\ tombstone \in BOOLEAN
  /\ batches \in Seq(Batches) /\ Len(batches) <= MaxBatches
  /\ deleter \in [Deleters -> Requests]
  /\ failures \in 0..MaxFailures

LEMMA Bounds == /\ MaxFrames \in Nat /\ MaxFailures \in Nat
                /\ MaxBatches \in Nat \ {0} /\ PartSize \in Nat \ {0}
BY ArchiveAssumption

LEMMA TypedInit == Init => Typed
<1> SUFFICES ASSUME Init PROVE Typed  OBVIOUS
<1>1. <<>> \in Seq(Frames) /\ <<>> \in Seq(Calls) /\ <<>> \in Seq(Batches)
  OBVIOUS
<1>2. journal \in Journals
  BY <1>1 DEF Init, Journals, None
<1>3. upload \in Uploads
  BY DEF Init, Uploads
<1>4. deleter \in [Deleters -> Requests]
  BY Bounds DEF Init, Requests
<1>5. Len(batches) <= MaxBatches
  BY Bounds DEF Init
<1>6. spoken \in 0..MaxFrames /\ failures \in 0..MaxFailures
  BY Bounds DEF Init
<1> QED
  BY <1>1, <1>2, <1>3, <1>4, <1>5, <1>6 DEF Init, Typed

(* Values that only depend on the types. *)
LEMMA TurnsTyped ==
  ASSUME Typed
  PROVE  /\ \A call \in Calls, pc \in Steps : At(call, pc) \in Turns
         /\ \A call \in Calls : Uploading(call) = Idle \/ Uploading(call) \in Turns
         /\ Completing \in Turns /\ BeginUpload \in Turns \cup {Idle}
         /\ BeginFinish \in Turns \cup {Idle} /\ BeginStop \in Turns \cup {Idle}
<1>1. <<>> \in Seq(Frames)
  OBVIOUS
<1>2. \A call \in Calls, pc \in Steps : At(call, pc) \in Turns
  BY <1>1 DEF At, Turns, Kinds
<1>3. \A call \in Calls : Uploading(call) = Idle \/ Uploading(call) \in Turns
  BY DEF Typed, Uploading, Turns, Steps, Kinds, Writes
<1>4. Completing \in Turns
  BY <1>1 DEF Completing, Turns, Calls, Steps, Kinds, Writes
<1>5. BeginUpload \in Turns \cup {Idle}
  BY <1>3 DEF BeginUpload, Calls
<1>6. BeginFinish \in Turns \cup {Idle}
  BY <1>2, <1>3, <1>4 DEF BeginFinish, Calls, Steps
<1>7. BeginStop \in Turns \cup {Idle}
  BY <1>1 DEF BeginStop, At, Turns, Calls, Steps, Kinds
<1> QED BY <1>2, <1>3, <1>4, <1>5, <1>6, <1>7

LEMMA GoingTyped ==
  ASSUME Typed, task.pc # "idle"
  PROVE  /\ task \in Turns
         /\ \A pc \in Steps : Goes(pc) \in Turns
         /\ [Goes("allow") EXCEPT !.noted = TRUE] \in Turns
         /\ [Goes("note") EXCEPT !.goal = "part"] \in Turns
<1>1. task \in Turns
  BY DEF Typed, Idle
<1> QED BY <1>1 DEF Goes, Turns, Steps, Kinds, Writes

LEMMA LedgerValues ==
  ASSUME Typed
  PROVE  /\ Claimed \in Uploads /\ Unsure \in Uploads /\ Fenced \in Uploads
         /\ Closed("absent", FALSE) \in Uploads /\ Closed("absent", ~tombstone) \in Uploads
         /\ Closed("stored", upload.cleanup \/ command # "none") \in Uploads
         /\ [upload EXCEPT !.located = TRUE] \in Uploads
<1>1. upload \in Uploads /\ tombstone \in BOOLEAN
  BY DEF Typed
<1>2. /\ Closed("absent", FALSE) \in Uploads /\ Closed("absent", ~tombstone) \in Uploads
      /\ Closed("stored", upload.cleanup \/ command # "none") \in Uploads
  BY <1>1 DEF Closed, Uploads
<1>3. Claimed \in Uploads
  BY <1>1, <1>2 DEF Claimed, Uploads
<1>4. Unsure \in Uploads
  BY <1>1 DEF Unsure, Uploads
<1>5. Fenced \in Uploads
  BY <1>1 DEF Fenced, Uploads
<1>6. [upload EXCEPT !.located = TRUE] \in Uploads
  BY <1>1 DEF Uploads
<1> QED BY <1>2, <1>3, <1>4, <1>5, <1>6

LEMMA NonceTyped == remote = {} => Nonce \in Nat
<1> SUFFICES ASSUME remote = {} PROVE Nonce \in Nat
  OBVIOUS
<1>1. Cardinality(remote) = 0
  BY FS_EmptySet
<1>2. 1 \in 1..(Cardinality(remote) + 1) /\ \A op \in remote : op.nonce # 1
  BY <1>1
<1>3. Nonce \in 1..(Cardinality(remote) + 1)
  BY <1>2 DEF Nonce
<1> QED
  BY <1>1, <1>3

LEMMA IssueTyped ==
  ASSUME Typed, SavedOperation, Free, Issue, task.pc # "idle"
  PROVE  journal' \in Journals /\ remote' \subseteq Operations /\ task' \in Turns
<1>1. Nonce \in Nat
  BY FreeIsQuiet, NonceTyped
<1>2. task \in Turns /\ task' \in Turns
  BY GoingTyped DEF Issue, Steps
<1>3. journal \in Journals
  BY DEF Typed
<1>4. journal' \in Journals
  BY <1>1, <1>3 DEF Issue, Journals
<1> DEFINE audio == CASE task.goal = "part" -> task.taken
                      [] task.goal = "complete" -> journal.parts
                      [] OTHER -> <<>>
<1>5. audio \in Seq(Frames)
  <2>1. task.taken \in Seq(Frames) /\ journal.parts \in Seq(Frames) /\ <<>> \in Seq(Frames)
    BY <1>2, <1>3 DEF Turns, Journals
  <2> QED BY <2>1
<1>6. task.goal \in Kinds
  BY <1>2 DEF Turns
<1> HIDE DEF audio
<1>7. [kind |-> task.goal, nonce |-> Nonce, audio |-> audio] \in Operations
  BY <1>1, <1>5, <1>6 DEF Operations
<1>8. remote' = remote \cup {[kind |-> task.goal, nonce |-> Nonce, audio |-> audio]}
  BY DEF Issue, audio
<1> QED
  BY <1>2, <1>4, <1>7, <1>8 DEF Typed

LEMMA EffectTyped ==
  ASSUME Typed, NEW op \in remote, TakesEffect(op)  PROVE  Typed'
<1>1. /\ op.audio \in Seq(Frames)
      /\ multipart \in {"none", "open", "gone"} /\ object \in Seq(Frames) \cup {NoAudio}
  BY DEF Typed, Operations
<1>2. multipart' \in {"none", "open", "gone"} /\ object' \in Seq(Frames) \cup {NoAudio}
  <2>1. Effect(op)
    BY DEF TakesEffect
  <2>2. multipart' \in {"none", "open", "gone"}
    BY <1>1, <2>1 DEF Effect
  <2>3. object' = op.audio \/ object' = NoAudio \/ object' = object
    BY <2>1 DEF Effect
  <2> QED BY <1>1, <2>2, <2>3
<1>3. journal \in Journals /\ chunks \in Seq(Frames) /\ op.audio \in Seq(Frames)
  BY DEF Typed, Operations
<1>4. Later(op.audio) \in Seq(Frames)
  <2>1. Len(op.audio) + 1 \in Nat /\ Len(op.audio) + 1 >= 1 /\ Len(chunks) \in Nat
    BY <1>3
  <2>2. CASE Len(op.audio) + 1 <= Len(chunks)
    BY <1>3, <2>1, <2>2, SubSeqProperties DEF Later
  <2>3. CASE Len(op.audio) + 1 > Len(chunks)
    BY <1>3, <2>1, <2>3, SubSeqEmpty, EmptySeq DEF Later
  <2> QED BY <2>1, <2>2, <2>3
<1>5. journal.parts \o op.audio \in Seq(Frames)
  BY <1>3, ConcatProperties DEF Journals
<1>6. journal' \in Journals /\ chunks' \in Seq(Frames) /\ (task' = Idle \/ task' \in Turns)
  <2>1. CASE ~(task.pc = "remote" /\ journal.inFlight = op.nonce)
    BY <2>1 DEF TakesEffect, Typed
  <2>2. CASE task.pc = "remote" /\ journal.inFlight = op.nonce
    <3>1. Succeeds(op)
      BY <2>2 DEF TakesEffect
    <3>2. task.pc # "idle"
      BY <2>2
    <3>3. chunks' \in Seq(Frames)
      BY <3>1, <1>3, <1>4 DEF Succeeds
    <3>4. task' = Idle \/ task' \in Turns
      BY <3>1, <3>2, GoingTyped, TurnsTyped DEF Succeeds, Calls, Steps
    <3>5. journal' \in Journals
      <4>1. [journal EXCEPT !.inFlight = None] \in Journals
        BY <1>3 DEF Journals, None
      <4>2. \A j \in Journals : /\ [j EXCEPT !.located = TRUE] \in Journals
                                /\ [j EXCEPT !.completed = TRUE] \in Journals
                                /\ \A a \in Seq(Frames) : [j EXCEPT !.parts = a] \in Journals
        BY DEF Journals
      <4>3. [journal EXCEPT !.inFlight = None].parts = journal.parts
        BY <1>3 DEF Journals
      <4> QED
        BY <3>1, <4>1, <4>2, <4>3, <1>5 DEF Succeeds
    <3> QED BY <3>3, <3>4, <3>5
  <2> QED BY <2>1, <2>2
<1> QED
  BY <1>2, <1>6 DEF TakesEffect, Typed, ledger

LEMMA HostTyped ==
  ASSUME Typed, SavedOperation, Frame \/ SessionEnds \/ CallFinish \/ CallStop \/ Begin
                                 \/ Reconcile \/ Crash
  PROVE  Typed'
<1> USE DEF Typed, bucket, ledger, Fails
<1>1. CASE Frame
  <2>1. spoken' \in 0..MaxFrames /\ spoken' \in Frames
    BY <1>1, Bounds DEF Frame, Frames
  <2>2. chunks' \in Seq(Frames)
    BY <1>1, <2>1 DEF Frame
  <2>3. serial' \in Seq(Calls)
    BY <1>1 DEF Frame, Calls
  <2> QED
    BY <1>1, <2>1, <2>2, <2>3 DEF Frame
<1>2. CASE SessionEnds
  BY <1>2 DEF SessionEnds
<1>3. CASE CallFinish
  BY <1>3 DEF CallFinish, Calls
<1>4. CASE CallStop
  <2>1. serial' \in Seq(Calls)
    BY <1>4 DEF CallStop, Calls
  <2>2. journal' \in Journals
    BY <1>4 DEF CallStop, Journals
  <2> QED
    BY <1>4, <2>1, <2>2 DEF CallStop
<1>5. CASE Begin
  <2>1. serial' \in Seq(Calls) /\ Head(serial) \in Calls
    BY <1>5, HeadTailProperties DEF Begin
  <2>2. task' = Idle \/ task' \in Turns
    BY <1>5, <2>1, TurnsTyped DEF Begin, Calls
  <2> QED
    BY <1>5, <2>1, <2>2 DEF Begin
<1>6. CASE Reconcile
  <2>1. recording' \in {"pending", "stored", "failed", "deleted"} /\ settled' \in BOOLEAN
    BY <1>6 DEF Reconcile
  <2>2. failures' \in 0..MaxFailures
    BY <1>6, Bounds DEF Reconcile
  <2> QED
    BY <1>6, <2>1, <2>2 DEF Reconcile
<1>7. CASE Crash
  <2>1. failures' \in 0..MaxFailures
    BY <1>7, Bounds DEF Crash
  <2> QED
    BY <1>7, <2>1 DEF Crash
<1> QED BY <1>1, <1>2, <1>3, <1>4, <1>5, <1>6, <1>7

(* The steps of the task. *)
TaskStep == \/ Claim \/ Reclaim \/ Cancel \/ Allow \/ Admitted \/ Note \/ GivesUp
            \/ SettleUnsure \/ Get \/ SettleStored \/ StopIssues \/ StopClaims \/ SettleAbsent
            \/ CallFails

LEMMA FailuresTyped ==
  ASSUME Typed, Fails \/ UNCHANGED failures  PROVE failures' \in 0..MaxFailures
BY Bounds DEF Typed, Fails

LEMMA TaskTyped ==
  ASSUME Typed, SavedOperation, TaskStep  PROVE  Typed'
<1> USE DEF Typed, bucket, ledger
<1>1. task.pc # "idle"
  BY DEF TaskStep, Claim, Reclaim, Cancel, Allow, Admitted, Note, GivesUp, SettleUnsure, Get,
         SettleStored, StopIssues, StopClaims, SettleAbsent, CallFails
<1>2. /\ task \in Turns
      /\ \A pc \in Steps : Goes(pc) \in Turns
      /\ [Goes("allow") EXCEPT !.noted = TRUE] \in Turns
  BY <1>1, GoingTyped
<1>3. failures' \in 0..MaxFailures
  <2>1. Fails \/ UNCHANGED failures
    BY DEF TaskStep, Claim, Reclaim, Cancel, Allow, Admitted, Note, GivesUp, SettleUnsure, Get,
         SettleStored, StopIssues, StopClaims, SettleAbsent, CallFails, Answered
  <2> QED BY <2>1, FailuresTyped
<1>4. CASE Claim
  <2>1. journal' \in Journals
    BY <1>4 DEF Claim, Journals
  <2>2. upload' \in Uploads
    BY <1>4, LedgerValues DEF Claim
  <2>3. task' = Idle \/ task' \in Turns
    BY <1>2, <1>4 DEF Claim, Steps
  <2> QED BY <1>3, <1>4, <2>1, <2>2, <2>3 DEF Claim
<1>5. CASE Reclaim
  <2>1. upload' \in Uploads
    BY <1>5, LedgerValues DEF Reclaim
  <2>2. task' = Idle \/ task' \in Turns
    BY <1>2, <1>5 DEF Reclaim, Answered, Steps
  <2>3. answer' \in {"none", "stored", "failed"}
    BY <1>5 DEF Reclaim
  <2> QED BY <1>3, <1>5, <2>1, <2>2, <2>3 DEF Reclaim
<1>6. CASE Cancel
  <2>1. upload' \in Uploads
    BY <1>6, LedgerValues DEF Cancel
  <2>2. answer' \in {"none", "stored", "failed"} /\ task' = Idle
    BY <1>6 DEF Cancel
  <2> QED BY <1>3, <1>6, <2>1, <2>2 DEF Cancel
<1>7. CASE Allow
  BY <1>2, <1>3, <1>7 DEF Allow, Steps
<1>8. CASE Admitted \/ StopIssues
  <2>1. CASE Free /\ Issue
    BY <1>1, <1>3, <1>8, <2>1, IssueTyped DEF Admitted, StopIssues
  <2>2. CASE UNCHANGED <<journal, remote>> /\ (task' = Idle \/ task' = Goes("note"))
    BY <1>2, <1>3, <1>8, <2>2 DEF Admitted, StopIssues, Steps
  <2> QED BY <1>8, <2>1, <2>2 DEF Admitted, StopIssues
<1>9. CASE Note
  <2>1. upload' \in Uploads
    BY <1>9, LedgerValues DEF Note
  <2>2. task' = Idle \/ task' \in Turns
    BY <1>2, <1>9 DEF Note, Answered
  <2> QED BY <1>3, <1>9, <2>1, <2>2 DEF Note
<1>10. CASE GivesUp \/ CallFails
  BY <1>2, <1>3, <1>10 DEF GivesUp, CallFails, Steps
<1>11. CASE SettleUnsure
  BY <1>2, <1>3, <1>11, LedgerValues DEF SettleUnsure
<1>12. CASE Get
  <2>1. journal' \in Journals
    BY <1>12 DEF Get, Journals
  <2> QED BY <1>2, <1>3, <1>12, <2>1 DEF Get, Steps
<1>13. CASE SettleStored
  <2>1. upload' \in Uploads
    BY <1>13, LedgerValues DEF SettleStored
  <2>2. tombstone' \in BOOLEAN /\ answer' \in {"none", "stored", "failed"} /\ task' = Idle
    BY <1>13 DEF SettleStored
  <2> QED BY <1>3, <1>13, <2>1, <2>2 DEF SettleStored
<1>14. CASE StopClaims \/ SettleAbsent
  <2>1. upload' \in Uploads
    BY <1>14, LedgerValues DEF StopClaims, SettleAbsent
  <2>2. chunks' \in Seq(Frames)
    <3>1. chunks' = <<>> \/ chunks' = chunks
      BY <1>14 DEF StopClaims, SettleAbsent
    <3> QED BY <3>1, EmptySeq
  <2>3. task' = Idle \/ task' \in Turns
    BY <1>2, <1>14 DEF StopClaims, SettleAbsent, Answered, Steps
  <2> QED BY <1>3, <1>14, <2>1, <2>2, <2>3 DEF StopClaims, SettleAbsent
<1> QED
  BY <1>4, <1>5, <1>6, <1>7, <1>8, <1>9, <1>10, <1>11, <1>12, <1>13, <1>14 DEF TaskStep

LEMMA FunctionIsSeq ==
  ASSUME NEW S, NEW n \in Nat, NEW f \in [1..n -> S]  PROVE  f \in Seq(S) /\ Len(f) = n
<1>1. f \in Seq(S)
  BY SeqDef
<1> QED BY <1>1, LenProperties

LEMMA DeletionTyped ==
  ASSUME Typed, NEW d \in Deleters, Deletion(d)  PROVE  Typed'
<1> USE DEF Typed, host, bucket, ledger
<1>1. \A pc \in {"idle", "delete", "confirm"}, b \in 0..MaxBatches :
         [deleter EXCEPT ![d] = [pc |-> pc, batch |-> b]] \in [Deleters -> Requests]
  BY DEF Requests
<1>2. 0 \in 0..MaxBatches
  BY Bounds
<1>3. CASE Prepare(d)
  <2>1. upload' \in Uploads
    BY <1>3, LedgerValues DEF Prepare
  <2>2. /\ batches' \in Seq(Batches) /\ Len(batches') <= MaxBatches
        /\ deleter' \in [Deleters -> Requests]
    <3>1. CASE batches' = Append(batches, [named |-> ~tombstone, confirmed |-> FALSE])
               /\ Len(batches) < MaxBatches
               /\ deleter' = [deleter EXCEPT ![d] = [pc |-> "delete", batch |-> Len(batches')]]
      <4>1. [named |-> ~tombstone, confirmed |-> FALSE] \in Batches
        BY DEF Batches
      <4>2. batches' \in Seq(Batches) /\ Len(batches') = Len(batches) + 1
        BY <3>1, <4>1
      <4>3. Len(batches') \in 0..MaxBatches
        BY <3>1, <4>2, Bounds
      <4> QED BY <1>1, <3>1, <4>2, <4>3
    <3>2. ASSUME NEW b \in Unconfirmed,
                 deleter' = [deleter EXCEPT ![d] = [pc |-> "delete", batch |-> b]],
                 UNCHANGED batches
          PROVE  /\ batches' \in Seq(Batches) /\ Len(batches') <= MaxBatches
                 /\ deleter' \in [Deleters -> Requests]
      <4>1. b \in 0..MaxBatches
        BY Bounds DEF Unconfirmed
      <4> QED BY <1>1, <3>2, <4>1
    <3> QED BY <1>3, <3>1, <3>2 DEF Prepare
  <2> QED BY <1>3, <2>1, <2>2 DEF Prepare
<1>4. CASE DeleteObjects(d)
  <2>1. deleter' \in [Deleters -> Requests]
    BY <1>4 DEF DeleteObjects, Requests
  <2> QED BY <1>4, <2>1 DEF DeleteObjects, Emptied
<1>5. CASE DeleterStops(d)
  <2>1. deleter' \in [Deleters -> Requests]
    BY <1>1, <1>2, <1>5 DEF DeleterStops
  <2> QED BY <1>5, <2>1 DEF DeleterStops, Emptied
<1>6. CASE Confirm(d)
  <2>1. deleter' \in [Deleters -> Requests]
    BY <1>1, <1>2, <1>6 DEF Confirm
  <2>2. /\ recording' \in {"pending", "stored", "failed", "deleted"}
        /\ command' \in {"none", "pending", "completed"} /\ tombstone' \in BOOLEAN
    BY <1>6 DEF Confirm
  <2>4. upload' \in Uploads
    <3>1. ASSUME NEW clean PROVE [upload EXCEPT !.cleanup = @ /\ ~clean] \in Uploads
      BY DEF Uploads
    <3> QED BY <1>6, <3>1 DEF Confirm
  <2>3. batches' \in Seq(Batches) /\ Len(batches') <= MaxBatches
    <3>1. ASSUME NEW b, batches' = [batches EXCEPT ![b].confirmed = TRUE]
          PROVE  batches' \in Seq(Batches) /\ Len(batches') <= MaxBatches
      <4>1. batches \in [1..Len(batches) -> Batches] /\ Len(batches) \in Nat
        OBVIOUS
      <4>2. batches' \in [1..Len(batches) -> Batches]
        BY <3>1, <4>1 DEF Batches
      <4>3. batches' \in Seq(Batches) /\ Len(batches') = Len(batches)
        BY <4>1, <4>2, FunctionIsSeq
      <4> QED BY <4>3
    <3> QED BY <1>6, <3>1 DEF Confirm
  <2> QED BY <1>6, <2>1, <2>2, <2>3, <2>4 DEF Confirm
<1> QED BY <1>3, <1>4, <1>5, <1>6 DEF Deletion

LEMMA TypedKept == ASSUME Typed, SavedOperation, [Next]_vars PROVE Typed'
<1>1. CASE UNCHANGED vars
  BY <1>1 DEF vars, host, bucket, ledger, Typed
<1> QED
  BY <1>1, HostTyped, TaskTyped, EffectTyped, DeletionTyped DEF Next, Host, Task, TaskStep

-----------------------------------------------------------------------------
(* The turn of a call: what it is at, and the operation it waits for.  A    *)
(* step that only talks to Postgres or reads has no operation pending, and  *)
(* a turn that waits, waits for the operation it issued.                    *)
UploadSteps == {"claim", "allow", "admitted", "note"}
FinishSteps == {"reclaim", "cancel", "get", "settle"}
StopSteps == {"delete", "deleted", "absent"}
BucketSteps == {"remote", "unsure"}

Turn ==
  /\ task.pc \in UploadSteps => task.goal \in Writes
  /\ task.pc \in FinishSteps => task.kind = "finish"
  /\ task.pc \in StopSteps => task.kind = "stop"
  /\ task.kind = "stop" => task.goal \in {"abort", "delete"}
  /\ task.pc \in BucketSteps /\ task.kind # "stop" => task.goal \in Writes
  /\ task.goal = "complete" => task.kind = "finish"
  /\ task.pc \in {"deleted", "absent"} => task.goal = "delete"
  /\ task.pc \in FinishSteps \cup StopSteps => Free
  /\ task.pc = "remote" => remote # {}
  /\ task.pc \in BucketSteps => \A op \in remote : op.kind = task.goal

SameTurn == task' = task /\ remote' = remote /\ journal'.inFlight = journal.inFlight

LEMMA TurnIdle == task' = Idle => Turn'
BY DEF Turn, Idle, UploadSteps, FinishSteps, StopSteps, BucketSteps, Writes

LEMMA TurnSame == Turn /\ SameTurn => Turn'
BY DEF Turn, SameTurn, Free

LEMMA TurnBegins == ASSUME Typed, Begin PROVE Turn'
<1> USE DEF Turn, Idle, UploadSteps, FinishSteps, StopSteps, BucketSteps, Writes
<1>1. Free' = Free
  BY DEF Begin, Free
<1>2. \/ task' = Idle
      \/ task' \in {Uploading("upload"), Uploading("finish"), Completing}
      \/ Free /\ task' \in {At("finish", "reclaim"), At("finish", "get"), At("finish", "cancel")}
      \/ Free /\ task' = BeginStop
  <2>1. Head(serial) \in Calls
    BY HeadTailProperties DEF Begin, Typed
  <2>2. CASE Head(serial) = "upload"
    BY <2>2 DEF Begin, BeginUpload
  <2>3. CASE Head(serial) = "finish"
    BY <2>3 DEF Begin, BeginFinish
  <2>4. CASE Head(serial) = "stop"
    BY <2>4 DEF Begin, BeginStop
  <2> QED BY <2>1, <2>2, <2>3, <2>4 DEF Calls
<1>3. CASE task' \in {Uploading("upload"), Uploading("finish"), Completing}
  BY <1>3 DEF Uploading, Completing
<1>4. CASE Free /\ task' \in {At("finish", "reclaim"), At("finish", "get"), At("finish", "cancel")}
  BY <1>1, <1>4 DEF At
<1>5. CASE Free /\ task' = BeginStop
  BY <1>1, <1>5 DEF BeginStop, At
<1> QED BY <1>2, <1>3, <1>4, <1>5, TurnIdle

LEMMA TurnIssues ==
  ASSUME Typed, SavedOperation, Turn, Free, Issue, task.pc \in {"admitted", "delete"}
  PROVE  Turn'
<1>1. task \in Turns
  BY DEF Typed, Idle
<1>2. task' = [task EXCEPT !.pc = "remote"] /\ task'.pc = "remote" /\ task'.goal = task.goal
      /\ task'.kind = task.kind
  BY <1>1 DEF Issue, Goes, Turns
<1>3. \E op : op.kind = task.goal /\ remote' = remote \cup {op}
  <2> DEFINE new == [kind |-> task.goal, nonce |-> Nonce,
                     audio |-> CASE task.goal = "part" -> task.taken
                                 [] task.goal = "complete" -> journal.parts
                                 [] OTHER -> <<>>]
  <2>1. new.kind = task.goal
    OBVIOUS
  <2>2. remote' = remote \cup {new}
    BY DEF Issue
  <2> QED BY <2>1, <2>2
<1>4. PICK op : op.kind = task.goal /\ remote' = {op}
  BY <1>3, FreeIsQuiet
<1> QED
  BY <1>2, <1>4
  DEF Turn, UploadSteps, FinishSteps, StopSteps, BucketSteps, Writes

(* Steps that go on with the same turn. *)
LEMMA TurnGoes ==
  ASSUME Typed, Turn, UNCHANGED remote, task.pc # "idle",
         \/ /\ task.pc \in UploadSteps /\ task'.pc \in UploadSteps
            /\ task'.goal = task.goal
         \/ /\ task.pc \in FinishSteps /\ task'.pc \in FinishSteps
            /\ task'.goal = task.goal
         \/ /\ task.pc = "deleted" /\ task'.pc = "absent"
            /\ task'.goal = task.goal
         \/ task.pc = "remote" /\ task'.pc = "unsure" /\ task'.goal = task.goal,
         task'.kind = task.kind,
         journal'.inFlight = journal.inFlight
  PROVE  Turn'
BY DEF Turn, UploadSteps, FinishSteps, StopSteps, BucketSteps, Free

LEMMA GoesOn ==
  ASSUME Typed, task.pc # "idle"
  PROVE  /\ \A pc : /\ Goes(pc).pc = pc /\ Goes(pc).kind = task.kind
                    /\ Goes(pc).goal = task.goal /\ Goes(pc).noted = task.noted
                    /\ Goes(pc).taken = task.taken
         /\ LET noting == [Goes("allow") EXCEPT !.noted = TRUE]
            IN  /\ noting.pc = "allow" /\ noting.kind = task.kind /\ noting.goal = task.goal
                /\ noting.noted = TRUE /\ noting.taken = task.taken
         /\ LET creating == [Goes("note") EXCEPT !.goal = "part"]
            IN  /\ creating.pc = "note" /\ creating.kind = task.kind /\ creating.goal = "part"
                /\ creating.noted = task.noted /\ creating.taken = task.taken
<1>1. task \in Turns
  BY DEF Typed, Idle
<1> QED BY <1>1 DEF Goes, Turns

LEMMA TurnEffect ==
  ASSUME Typed, SavedOperation, Turn, NEW op \in remote, TakesEffect(op)
  PROVE  Turn'
<1> USE DEF UploadSteps, FinishSteps, StopSteps, BucketSteps, Writes
<1>1. remote = {op} /\ remote' = {} /\ journal.inFlight = op.nonce /\ ~Free
      /\ journal \in Journals /\ op.kind \in Kinds
  BY DEF SavedOperation, TakesEffect, Saved, Free, Typed, Operations
<1>2. CASE task.pc # "remote"
  <2>1. UNCHANGED <<journal, task>>
    BY <1>2 DEF TakesEffect
  <2> QED BY <1>1, <1>2, <2>1 DEF Turn, Free
<1>3. CASE task.pc = "remote"
  <2>1. Succeeds(op)
    BY <1>1, <1>3 DEF TakesEffect
  <2>2. op.kind = task.goal /\ task.pc # "idle"
    BY <1>3 DEF Turn
  <2>3. Free'
    BY <1>1, <2>1 DEF Succeeds, Free, Journals
  <2>4. CASE op.kind = "create"
    <3>1. task' = [Goes("note") EXCEPT !.goal = "part"]
      BY <2>1, <2>4 DEF Succeeds
    <3>2. task'.pc = "note" /\ task'.goal = "part" /\ task'.kind = task.kind
      BY <2>2, <3>1, GoesOn
    <3> QED BY <2>2, <2>4, <3>2 DEF Turn
  <2>5. CASE op.kind = "part"
    BY <1>1, <1>3, <2>1, <2>2, <2>5, TurnIdle DEF Succeeds, Turn, Completing
  <2>6. CASE op.kind = "complete"
    BY <2>1, <2>3, <2>6 DEF Succeeds, Turn, At
  <2>7. CASE op.kind \in {"abort", "delete"}
    BY <2>1, <2>3, <2>7 DEF Succeeds, Turn, At
  <2> QED BY <1>1, <2>4, <2>5, <2>6, <2>7 DEF Kinds
<1> QED BY <1>2, <1>3

LEMMA TurnKept == ASSUME Typed, SavedOperation, Turn, [Next]_vars PROVE Turn'
<1> USE DEF UploadSteps, FinishSteps, StopSteps
<1>1. CASE Frame \/ SessionEnds \/ CallFinish \/ Reconcile \/ (\E d \in Deleters : Deletion(d))
           \/ UNCHANGED vars
  BY <1>1, TurnSame DEF Frame, SessionEnds, CallFinish, Reconcile, Deletion, Prepare,
     DeleteObjects, DeleterStops, Confirm, vars, host, bucket, SameTurn
<1>2. CASE CallStop
  BY <1>2, TurnSame DEF CallStop, bucket, SameTurn, SavedOperation
<1>3. CASE Crash \/ Cancel \/ SettleUnsure \/ SettleStored \/ CallFails
  BY <1>3, TurnIdle DEF Crash, Cancel, SettleUnsure, SettleStored, CallFails
<1>4. CASE Begin
  BY <1>4, TurnBegins
<1>5. CASE Claim
  <2>1. journal'.inFlight = journal.inFlight
    BY <1>5 DEF Claim, SavedOperation
  <2> QED BY <1>5, <2>1, TurnIdle, TurnGoes, GoesOn DEF Claim, bucket
<1>6. CASE Reclaim \/ StopClaims \/ SettleAbsent \/ Note \/ GivesUp \/ Allow
  <2>1. remote' = remote /\ journal' = journal /\ task.pc # "idle"
    BY <1>6 DEF Reclaim, StopClaims, SettleAbsent, Note, GivesUp, Allow, bucket
  <2>2. CASE task' = Idle
    BY <2>2, TurnIdle
  <2>3. CASE task' # Idle
    <3>1. CASE Reclaim \/ StopClaims \/ SettleAbsent
      BY <2>1, <2>3, <3>1, TurnGoes, GoesOn DEF Reclaim, StopClaims, SettleAbsent, Answered
    <3>2. CASE GivesUp \/ Allow
      BY <2>1, <2>3, <3>2, TurnGoes, GoesOn DEF GivesUp, Allow
    <3>3. CASE Note
      <4>1. task' = [Goes("allow") EXCEPT !.noted = TRUE] /\ task.pc = "note"
        BY <2>3, <3>3 DEF Note, Answered
      <4> QED BY <2>1, <4>1, TurnGoes, GoesOn
    <3> QED BY <1>6, <3>1, <3>2, <3>3
  <2> QED BY <2>2, <2>3
<1>7. CASE Get
  <2>1. journal'.inFlight = journal.inFlight
    BY <1>7 DEF Get, SavedOperation
  <2> QED BY <1>7, <2>1, TurnIdle, TurnGoes, GoesOn DEF Get, bucket
<1>8. CASE Admitted
  BY <1>8, TurnIdle, TurnGoes, GoesOn, TurnIssues DEF Admitted
<1>9. CASE StopIssues
  BY <1>9, TurnIdle, TurnIssues DEF StopIssues
<1> QED
  BY <1>1, <1>2, <1>3, <1>4, <1>5, <1>6, <1>7, <1>8, <1>9, TurnEffect DEF Next, Host, Task

-----------------------------------------------------------------------------
(* What the steps do to the bucket and to the turn, for the invariants that *)
(* follow. *)
Sent == CASE task.goal = "part" -> task.taken
          [] task.goal = "complete" -> journal.parts
          [] OTHER -> <<>>

Issued ==
  /\ Free /\ remote = {} /\ Issue
  /\ \/ /\ task.pc = "admitted" /\ (task.goal = "create" \/ task.noted)
        /\ task.goal = "complete" => journal.parts # <<>>
     \/ task.pc = "delete"
  /\ UNCHANGED <<spoken, ended, chunks, serial, answer, settled, multipart, object, ledger,
                 deleter, failures>>

(* Every step but an issue and an effect leaves the bucket's operations. *)
LEMMA Issuers ==
  ASSUME Typed, SavedOperation, [Next]_vars
  PROVE  \/ Issued \/ (\E op \in remote : TakesEffect(op))
         \/ UNCHANGED <<remote, multipart>>
<1>1. CASE Frame \/ SessionEnds \/ CallFinish \/ CallStop \/ Begin \/ Reconcile \/ Crash
  BY <1>1 DEF Frame, SessionEnds, CallFinish, CallStop, Begin, Reconcile, Crash, bucket
<1>2. CASE Claim \/ Reclaim \/ Cancel \/ Allow \/ Note \/ GivesUp \/ SettleUnsure \/ Get
           \/ SettleStored \/ StopClaims \/ SettleAbsent \/ CallFails
  BY <1>2 DEF Claim, Reclaim, Cancel, Allow, Note, GivesUp, SettleUnsure, Get,
              SettleStored, StopClaims, SettleAbsent, CallFails, bucket
<1>3. CASE Admitted
  BY <1>3, FreeIsQuiet DEF Admitted, Issued
<1>4. CASE StopIssues
  BY <1>4, FreeIsQuiet DEF StopIssues, Issued
<1>5. CASE (\E d \in Deleters : Deletion(d)) \/ UNCHANGED vars
  BY <1>5 DEF Deletion, Prepare, DeleteObjects, DeleterStops, Confirm, vars, bucket
<1> QED
  BY <1>1, <1>2, <1>3, <1>4, <1>5 DEF Next, Host, Task

LEMMA IssuedOperation ==
  ASSUME Typed, Issued
  PROVE  /\ \E op : remote' = {op} /\ op.kind = task.goal /\ op.audio = Sent
         /\ task \in Turns /\ task' = Goes("remote") /\ task.pc # "idle"
         /\ journal' = [journal EXCEPT !.inFlight = Nonce]
<1> DEFINE new == [kind |-> task.goal, nonce |-> Nonce, audio |-> Sent]
<1>1. new.kind = task.goal /\ new.audio = Sent
  OBVIOUS
<1>2. remote' = {new}
  BY DEF Issued, Issue, Sent
<1>3. task \in Turns /\ task.pc # "idle"
  BY DEF Issued, Typed, Idle
<1>4. \E op : remote' = {op} /\ op.kind = task.goal /\ op.audio = Sent
  <2> HIDE DEF new
  <2> QED BY <1>1, <1>2
<1> QED
  BY <1>3, <1>4 DEF Issued, Issue

(* The calls that start a turn. *)
Started ==
  \/ task' = Idle
  \/ /\ Head(serial) \in {"upload", "finish"} /\ task' = Uploading(Head(serial))
     /\ chunks # <<>>
  \/ /\ Head(serial) = "finish"
     /\ \/ task' = Completing /\ Free /\ chunks = <<>> /\ (journal.claimed \/ journal.located)
        \/ task' = At("finish", "reclaim") /\ Free /\ journal.result
        \/ task' = At("finish", "get") /\ Free /\ journal.completed
        \/ task' = At("finish", "cancel") /\ Free
  \/ Head(serial) = "stop" /\ task' = BeginStop /\ Free

LEMMA Starts == ASSUME Typed, Begin PROVE Started /\ task = Idle
<1>1. Head(serial) \in Calls
  BY HeadTailProperties DEF Begin, Typed
<1>2. CASE Head(serial) = "upload"
  <2>1. Len(chunks) < PartSize \/ chunks # <<>>
    BY Bounds DEF Typed
  <2> QED BY <1>2, <2>1 DEF Begin, BeginUpload, Started
<1>3. CASE Head(serial) = "finish"
  BY <1>3 DEF Begin, BeginFinish, Started
<1>4. CASE Head(serial) = "stop"
  BY <1>4 DEF Begin, BeginStop, Started
<1> QED BY <1>1, <1>2, <1>3, <1>4 DEF Calls, Begin

(* Every other step ends the turn or goes on with it. *)
LEMMA SameCall ==
  ASSUME Typed, SavedOperation, Turn, [Next]_vars, ~Begin
  PROVE  task' = Idle \/ task'.kind = task.kind
<1>1. CASE Frame \/ SessionEnds \/ CallFinish \/ CallStop \/ Reconcile \/ Crash
           \/ (\E d \in Deleters : Deletion(d)) \/ UNCHANGED vars
  BY <1>1 DEF Frame, SessionEnds, CallFinish, CallStop, Reconcile, Crash, Deletion, Prepare,
     DeleteObjects, DeleterStops, Confirm, vars, host
<1>2. CASE Claim \/ Reclaim \/ Cancel \/ Allow \/ SettleUnsure \/ Get
           \/ SettleStored \/ StopClaims \/ SettleAbsent \/ CallFails \/ GivesUp
  <2>1. \/ task' = Idle
        \/ /\ task.pc # "idle"
           /\ \E pc \in {"allow", "get", "admitted", "settle", "absent", "unsure"} : task' = Goes(pc)
    <3>1. CASE Claim \/ Reclaim \/ Cancel \/ Allow
      BY <3>1 DEF Claim, Reclaim, Cancel, Allow, Answered
    <3>2. CASE GivesUp \/ SettleUnsure \/ Get \/ SettleStored
      BY <3>2 DEF GivesUp, SettleUnsure, Get, SettleStored
    <3>3. CASE StopClaims \/ SettleAbsent \/ CallFails
      BY <3>3 DEF StopClaims, SettleAbsent, CallFails, Answered
    <3> QED BY <1>2, <3>1, <3>2, <3>3
  <2> QED BY <2>1, GoesOn
<1>3. CASE Note
  <2>1. task' = Idle \/ task' = [Goes("allow") EXCEPT !.noted = TRUE]
    BY <1>3 DEF Note, Answered
  <2> QED BY <1>3, <2>1, GoesOn DEF Note
<1>4. CASE Admitted \/ StopIssues
  BY <1>4, GoesOn DEF Admitted, StopIssues, Issue
<1>5. ASSUME NEW op \in remote, TakesEffect(op)
      PROVE  task' = Idle \/ task'.kind = task.kind
  <2>1. CASE task.pc # "remote"
    BY <1>5, <2>1 DEF TakesEffect
  <2>2. CASE task.pc = "remote"
    <3>1. Succeeds(op) \/ UNCHANGED task
      BY <1>5 DEF TakesEffect
    <3>2. op.kind = task.goal /\ task \in Turns
      BY <2>2 DEF Turn, BucketSteps, Typed, Idle
    <3>3. CASE op.kind = "create"
      BY <2>2, <3>1, <3>3, GoesOn DEF Succeeds
    <3>4. CASE op.kind = "part"
      BY <2>2, <3>1, <3>2, <3>4 DEF Succeeds, Turn, Turns, Calls, Completing
    <3>5. CASE op.kind = "complete"
      BY <3>1, <3>2, <3>5 DEF Succeeds, Turn, At
    <3>6. CASE op.kind \notin {"create", "part", "complete"}
      BY <2>2, <3>1, <3>2, <3>6 DEF Succeeds, Turn, At, Writes, Turns, Kinds, BucketSteps
    <3> QED BY <3>3, <3>4, <3>5, <3>6
  <2> QED BY <2>1, <2>2
<1> QED
  BY <1>1, <1>2, <1>3, <1>4, <1>5 DEF Next, Host, Task

(* What no step takes back. *)
LEMMA NothingForgotten ==
  ASSUME Typed, [Next]_vars
  PROVE  /\ ended => ended' /\ spoken' = spoken
         /\ command # "none" => command' # "none"
<1>1. CASE Frame \/ SessionEnds \/ CallFinish \/ CallStop \/ Begin \/ Reconcile \/ Crash
  BY <1>1 DEF Frame, SessionEnds, CallFinish, CallStop, Begin, Reconcile, Crash, ledger
<1>2. CASE Claim \/ Reclaim \/ Cancel \/ Allow \/ Note \/ GivesUp \/ SettleUnsure \/ Get
           \/ SettleStored \/ StopClaims \/ SettleAbsent \/ CallFails \/ Admitted \/ StopIssues
  <2>1. CASE Claim \/ Allow \/ Note
    BY <2>1 DEF Claim, Allow, Note, ledger
  <2>4. CASE Reclaim
    BY <2>4 DEF Reclaim
  <2>5. CASE Cancel
    BY <2>5 DEF Cancel
  <2>2. CASE GivesUp \/ SettleUnsure \/ Get \/ SettleStored \/ StopClaims
    BY <2>2 DEF GivesUp, SettleUnsure, Get, SettleStored, StopClaims, ledger
  <2>3. CASE SettleAbsent \/ CallFails \/ Admitted \/ StopIssues
    BY <2>3 DEF SettleAbsent, CallFails, Admitted, StopIssues, ledger
  <2> QED BY <1>2, <2>1, <2>2, <2>3, <2>4, <2>5
<1>3. CASE (\E op \in remote : TakesEffect(op)) \/ UNCHANGED vars
  BY <1>3 DEF TakesEffect, vars, host, ledger
<1>4. CASE \E d \in Deleters : Deletion(d)
  BY <1>4 DEF Deletion, Prepare, DeleteObjects, DeleterStops, Confirm, host, ledger
<1> QED
  BY <1>1, <1>2, <1>3, <1>4 DEF Next, Host, Task

-----------------------------------------------------------------------------
(* Who asked for it: a finish comes after the session's end, and stops,     *)
(* deletes and aborts after the account's command.                          *)
Asked ==
  /\ task.kind = "finish" => ended
  /\ \A i \in DOMAIN serial : serial[i] = "finish" => ended
  /\ task.kind = "stop" => command # "none"
  /\ \A i \in DOMAIN serial : serial[i] = "stop" => command # "none"
  /\ \A op \in remote : op.kind \in {"abort", "delete"} => command # "none"
  /\ \A op \in remote : op.kind = "complete" => ended
  /\ \A d \in Deleters : deleter[d].pc # "idle" => command # "none"

LEMMA AskedKept ==
  ASSUME Typed, SavedOperation, Turn, Asked, [Next]_vars  PROVE  Asked'
<1>1. /\ ended => ended'
      /\ command # "none" => command' # "none"
  BY NothingForgotten
<1>2. /\ task'.kind = "finish" => ended'
      /\ task'.kind = "stop" => command' # "none"
  <2>1. CASE Begin
    <3>1. Started /\ serial # <<>> /\ serial \in Seq(Calls)
      BY <2>1, Starts DEF Begin, Typed
    <3>2. 1 \in DOMAIN serial /\ Head(serial) = serial[1]
      BY <3>1
    <3>3. task'.kind \in {"none", Head(serial)}
      BY <3>1 DEF Started, Idle, Uploading, Completing, At, BeginStop
    <3> QED BY <1>1, <3>2, <3>3 DEF Asked
  <2>2. CASE ~Begin
    BY <1>1, <2>2, SameCall DEF Asked, Idle
  <2> QED BY <2>1, <2>2
<1>3. \A i \in DOMAIN serial' : /\ serial'[i] = "finish" => ended'
                                /\ serial'[i] = "stop" => command' # "none"
  <2>1. CASE serial' = serial
    BY <1>1, <2>1 DEF Asked
  <2>2. CASE serial' = <<>>
    BY <2>2
  <2>3. CASE serial' = Tail(serial) /\ serial # <<>>
    <3>1. \A i \in DOMAIN serial' : i + 1 \in DOMAIN serial /\ serial'[i] = serial[i + 1]
      BY <2>3 DEF Typed
    <3> QED BY <1>1, <3>1 DEF Asked
  <2>4. ASSUME NEW call \in Calls, serial' = Append(serial, call),
               call = "finish" => ended', call = "stop" => command' # "none"
        PROVE  \A i \in DOMAIN serial' : /\ serial'[i] = "finish" => ended'
                                         /\ serial'[i] = "stop" => command' # "none"
    <3>1. \A i \in DOMAIN serial' : (i \in DOMAIN serial /\ serial'[i] = serial[i])
                                     \/ serial'[i] = call
      BY <2>4 DEF Typed
    <3> QED BY <1>1, <2>4, <3>1 DEF Asked
  <2>5. CASE Frame
    BY <2>1, <2>4, <2>5 DEF Frame, Calls
  <2>6. CASE CallFinish
    BY <2>4, <2>6 DEF CallFinish, Calls
  <2>7. CASE CallStop
    BY <2>4, <2>7 DEF CallStop, ledger, Calls
  <2>8. CASE Begin
    BY <2>3, <2>8 DEF Begin
  <2>9. CASE SessionEnds \/ Reconcile \/ Crash \/ (\E op \in remote : TakesEffect(op))
             \/ (\E d \in Deleters : Deletion(d)) \/ UNCHANGED vars
    BY <2>1, <2>2, <2>9 DEF SessionEnds, Reconcile, Crash, TakesEffect, Deletion, Prepare,
       DeleteObjects, DeleterStops, Confirm, vars, host
  <2>10. CASE TaskStep
    BY <2>1, <2>10 DEF TaskStep, Claim, Reclaim, Cancel, Allow, Admitted, Note, GivesUp,
       SettleUnsure, Get, SettleStored, StopIssues, StopClaims, SettleAbsent, CallFails
  <2> QED
    BY <2>5, <2>6, <2>7, <2>8, <2>9, <2>10 DEF Next, Host, Task, TaskStep
<1>4. \A op \in remote' : /\ op.kind \in {"abort", "delete"} => command' # "none"
                          /\ op.kind = "complete" => ended'
  <2>1. CASE Issued
    <3>1. \A op \in remote' : op.kind = task.goal
      BY <2>1, IssuedOperation
    <3>2. task.goal \in {"abort", "delete"} => task.kind = "stop"
      BY <2>1 DEF Issued, Turn, UploadSteps, StopSteps, Writes
    <3> QED BY <1>1, <3>1, <3>2 DEF Asked, Turn
  <2>2. CASE remote' \subseteq remote
    BY <1>1, <2>2 DEF Asked
  <2> QED BY <2>1, <2>2, Issuers DEF TakesEffect
<1>5. ASSUME NEW d \in Deleters PROVE deleter'[d].pc # "idle" => command' # "none"
  <2>1. CASE deleter' = deleter
    BY <1>1, <2>1 DEF Asked
  <2>2. ASSUME NEW e \in Deleters, Prepare(e) PROVE command' # "none"
    BY <2>2 DEF Prepare
  <2>3. ASSUME NEW e \in Deleters, DeleteObjects(e) PROVE command' # "none"
    BY <1>1, <2>3 DEF DeleteObjects, Asked
  <2>4. ASSUME NEW e \in Deleters, DeleterStops(e) \/ Confirm(e) PROVE command' # "none"
    BY <1>1, <2>4 DEF DeleterStops, Confirm, Asked
  <2>5. deleter' = deleter \/ \E e \in Deleters : Deletion(e)
    BY DEF Next, Host, Task, Frame, SessionEnds, CallFinish, CallStop, Begin, Reconcile, Crash,
       Claim, Reclaim, Cancel, Allow, Admitted, Note, GivesUp, SettleUnsure, Get, SettleStored,
       StopIssues, StopClaims, SettleAbsent, CallFails, TakesEffect, vars
  <2> QED BY <2>1, <2>2, <2>3, <2>4, <2>5 DEF Deletion
<1> QED BY <1>2, <1>3, <1>4, <1>5 DEF Asked

-----------------------------------------------------------------------------
(* What the journal knows of the multipart upload.  A create is issued only *)
(* without a locator, so a lost one leaves its operation pending for ever,  *)
(* and there is never a second multipart upload.                            *)
Locator ==
  /\ journal.result => journal.completed
  /\ journal.completed => journal.located /\ multipart = "gone"
  /\ journal.parts # <<>> => journal.located
  /\ task.goal = "create" => ~journal.located
  /\ task.goal \in {"part", "abort"} => journal.located
  /\ task.pc \in {"reclaim", "get", "settle"} => journal.completed
  /\ task.kind = "stop" /\ task.goal = "delete" => multipart # "open"
  /\ \A op \in remote : /\ op.kind = "create" => ~journal.located
                        /\ op.kind \in {"part", "complete", "abort"} => journal.located
  /\ ~journal.located => \/ multipart = "none"
                         \/ ~Free /\ remote = {} /\ task.pc # "remote"

LocatorInv == Typed /\ SavedOperation /\ Turn /\ Locator

SameJournal == /\ journal'.located = journal.located /\ journal'.completed = journal.completed
               /\ journal'.result = journal.result /\ journal'.parts = journal.parts
               /\ journal'.inFlight = journal.inFlight

LEMMA LocatorSame ==
  ASSUME LocatorInv, SameJournal, UNCHANGED <<remote, multipart>>, task' \in {task, Idle}
  PROVE  Locator'
BY DEF LocatorInv, Locator, SameJournal, Idle, Free

LEMMA LocatorGoes ==
  ASSUME LocatorInv, SameJournal, UNCHANGED <<remote, multipart>>,
         task'.goal = task.goal, task'.kind = task.kind, task'.pc # "remote",
         task'.pc \in {"get", "settle"} => task.pc \in {"reclaim", "get"},
         task'.pc # "reclaim"
  PROVE  Locator'
BY DEF LocatorInv, Locator, SameJournal, Free

LEMMA LocatorBegins ==
  ASSUME LocatorInv, Begin  PROVE Locator'
<1>1. /\ UNCHANGED <<journal, remote, multipart>>
      /\ Started
  BY Starts DEF Begin, bucket, LocatorInv
<1> USE DEF LocatorInv, Locator, Free
<1>2. CASE task' = Idle
  BY <1>1, <1>2, LocatorSame DEF SameJournal
<1>3. ASSUME NEW call \in {"upload", "finish"}, task' = Uploading(call)  PROVE Locator'
  BY <1>1, <1>3 DEF Uploading, Idle
<1>4. CASE task' = Completing
  BY <1>1, <1>4 DEF Completing
<1>5. CASE task' = At("finish", "cancel")
  BY <1>1, <1>5 DEF At
<1>6. CASE task' = At("finish", "reclaim") /\ journal.result
  BY <1>1, <1>6 DEF At
<1>7. CASE task' = At("finish", "get") /\ journal.completed
  BY <1>1, <1>7 DEF At
<1>8. CASE task' = BeginStop /\ Free
  <2>1. /\ task'.pc = "delete"
        /\ task'.goal = IF journal.located /\ ~journal.completed THEN "abort" ELSE "delete"
    BY <1>8 DEF BeginStop, At
  <2> QED BY <1>1, <1>8, <2>1
<1> QED BY <1>1, <1>2, <1>3, <1>4, <1>5, <1>6, <1>7, <1>8 DEF Started

LEMMA LocatorIssued ==
  ASSUME LocatorInv, Issued  PROVE Locator'
<1> USE DEF LocatorInv
<1>1. PICK op : remote' = {op} /\ op.kind = task.goal
  BY IssuedOperation
<1>2. /\ task'.goal = task.goal /\ task'.kind = task.kind /\ task'.pc = "remote"
      /\ multipart' = multipart
  BY IssuedOperation, GoesOn DEF Issued
<1>3. /\ journal'.located = journal.located /\ journal'.completed = journal.completed
      /\ journal'.result = journal.result /\ journal'.parts = journal.parts
  BY IssuedOperation DEF Typed, Journals
<1>4. Free /\ remote = {}
  BY DEF Issued
<1>5. task.goal = "complete" => journal.parts # <<>>
  BY DEF Issued, Turn, StopSteps
<1> QED BY <1>1, <1>2, <1>3, <1>4, <1>5 DEF Locator

LEMMA LocatorEffect ==
  ASSUME LocatorInv, NEW op \in remote, TakesEffect(op)  PROVE Locator'
<1> USE DEF LocatorInv
<1>1. remote = {op} /\ remote' = {} /\ journal.inFlight = op.nonce /\ ~Free /\ op.kind \in Kinds
  BY DEF SavedOperation, TakesEffect, Saved, Free, Typed, Operations
<1>2. multipart' = CASE op.kind = "create" -> "open"
                     [] op.kind \in {"complete", "abort"} -> "gone"
                     [] OTHER -> multipart
  BY DEF TakesEffect, Effect
<1>3. CASE task.pc # "remote"
  <2>1. UNCHANGED <<journal, task>>
    BY <1>3 DEF TakesEffect
  <2>2. task.kind = "stop" => task.pc = "unsure" /\ op.kind = task.goal
    BY <1>1, <1>3 DEF Turn, Typed, Idle, Turns, Steps, UploadSteps, FinishSteps, StopSteps,
                      BucketSteps, Writes
  <2> QED BY <1>1, <1>2, <1>3, <2>1, <2>2 DEF Locator, Free, Kinds, Writes
<1>4. CASE task.pc = "remote"
  <2>1. Succeeds(op) /\ op.kind = task.goal /\ journal \in Journals
    BY <1>1, <1>4 DEF TakesEffect, Turn, BucketSteps, Typed
  <2>2. CASE op.kind = "create"
    <3>1. task' = [Goes("note") EXCEPT !.goal = "part"]
      BY <2>1, <2>2 DEF Succeeds
    <3>2. task'.pc = "note" /\ task'.goal = "part"
      BY <1>4, <3>1, GoesOn
    <3>3. /\ journal'.located = TRUE /\ journal'.completed = journal.completed
          /\ journal'.result = journal.result
      BY <2>1, <2>2 DEF Succeeds, Journals
    <3> QED BY <1>1, <1>2, <2>2, <3>2, <3>3 DEF Locator
  <2>3. CASE op.kind = "part"
    <3>1. task' = Idle \/ task' = Completing
      BY <2>1, <2>3 DEF Succeeds
    <3>2. /\ journal'.located = journal.located /\ journal'.completed = journal.completed
          /\ journal'.result = journal.result
      BY <2>1, <2>3 DEF Succeeds, Journals
    <3> QED BY <1>1, <1>2, <2>3, <3>1, <3>2 DEF Locator, Idle, Completing
  <2>4. CASE op.kind = "complete"
    <3>1. task' = At("finish", "get")
      BY <2>1, <2>4 DEF Succeeds
    <3>2. journal'.located = journal.located /\ journal'.completed = TRUE
      BY <2>1, <2>4 DEF Succeeds, Journals
    <3> QED BY <1>1, <1>2, <2>4, <3>1, <3>2 DEF Locator, At
  <2>5. CASE op.kind \in {"abort", "delete"}
    <3>1. task' = At("stop", IF op.kind = "abort" THEN "delete" ELSE "deleted")
      BY <2>1, <2>5 DEF Succeeds
    <3>2. /\ journal'.located = journal.located /\ journal'.completed = journal.completed
          /\ journal'.result = journal.result /\ journal'.parts = journal.parts
      BY <2>1, <2>5 DEF Succeeds, Journals
    <3>3. task.kind = "stop"
      BY <1>4, <2>1, <2>5 DEF Turn, BucketSteps, Writes
    <3> QED BY <1>1, <1>2, <2>1, <2>5, <3>1, <3>2, <3>3 DEF Locator, At
  <2> QED BY <1>1, <2>2, <2>3, <2>4, <2>5 DEF Kinds, Writes
<1> QED BY <1>3, <1>4

LEMMA LocatorKept == ASSUME LocatorInv, [Next]_vars PROVE Locator'
<1> USE DEF SameJournal
<1>1. CASE Frame \/ SessionEnds \/ CallFinish \/ Reconcile \/ Crash
           \/ (\E d \in Deleters : Deletion(d)) \/ UNCHANGED vars
  BY <1>1, LocatorSame DEF Frame, SessionEnds, CallFinish, Reconcile, Crash, Deletion, Prepare,
     DeleteObjects, DeleterStops, Confirm, vars, host, bucket
<1>2. CASE CallStop
  <2>1. SameJournal
    BY <1>2 DEF CallStop, LocatorInv, Typed, Journals
  <2> QED BY <1>2, <2>1, LocatorSame DEF CallStop, bucket
<1>3. CASE Cancel \/ SettleUnsure \/ SettleStored \/ CallFails
  BY <1>3, LocatorSame DEF Cancel, SettleUnsure, SettleStored, CallFails, bucket
<1>4. CASE Claim
  <2>1. SameJournal /\ (task' = Idle \/ task' = Goes("allow"))
    BY <1>4 DEF Claim, LocatorInv, Typed, Journals
  <2> QED BY <1>4, <2>1, LocatorSame, LocatorGoes, GoesOn DEF Claim, bucket, LocatorInv
<1>5. CASE Get
  <2>1. /\ task.pc = "get" /\ task' \in {Idle, Goes("settle")}
        /\ UNCHANGED <<remote, multipart>>
    BY <1>5 DEF Get, bucket
  <2>2. /\ journal'.located = journal.located /\ journal'.completed = journal.completed
        /\ journal'.parts = journal.parts /\ journal'.inFlight = journal.inFlight
        /\ journal'.result = journal.result \/ journal.completed
    BY <1>5 DEF Get, LocatorInv, Typed, Journals, Locator
  <2>3. task' = Idle \/ (task'.goal = task.goal /\ task'.kind = task.kind /\ task'.pc = "settle")
    BY <2>1, GoesOn DEF LocatorInv
  <2> QED BY <2>1, <2>2, <2>3 DEF LocatorInv, Locator, Idle, Free
<1>6. CASE Allow \/ GivesUp
  BY <1>6, LocatorSame, LocatorGoes, GoesOn DEF Allow, GivesUp, bucket, LocatorInv
<1>7. CASE Reclaim \/ StopClaims \/ SettleAbsent
  BY <1>7, LocatorSame, LocatorGoes, GoesOn
  DEF Reclaim, StopClaims, SettleAbsent, bucket, LocatorInv, Answered
<1>8. CASE Note
  <2>1. task' = Idle \/ task' = [Goes("allow") EXCEPT !.noted = TRUE]
    BY <1>8 DEF Note, Answered
  <2> QED BY <1>8, <2>1, LocatorSame, LocatorGoes, GoesOn DEF Note, bucket, LocatorInv
<1>9. CASE Admitted
  <2>1. Issued \/ (UNCHANGED <<journal, remote, multipart>> /\ task' \in {Idle, Goes("note")})
    BY <1>9, FreeIsQuiet DEF Admitted, Issued, LocatorInv
  <2> QED BY <1>9, <2>1, LocatorSame, LocatorGoes, GoesOn, LocatorIssued DEF Admitted, LocatorInv
<1>10. CASE StopIssues
  <2>1. Issued \/ (UNCHANGED <<journal, remote, multipart>> /\ task' = Idle)
    BY <1>10, FreeIsQuiet DEF StopIssues, Issued, LocatorInv
  <2> QED BY <2>1, LocatorSame, LocatorIssued
<1> QED
  BY <1>1, <1>2, <1>3, <1>4, <1>5, <1>6, <1>7, <1>8, <1>9, <1>10, LocatorBegins, LocatorEffect
  DEF Next, Host, Task

-----------------------------------------------------------------------------
(* What the ledger knows.  A registered upload has not begun; a closed one  *)
(* has nothing to come and never opens again; a call that was let through   *)
(* finds its upload still writing, since no deletion closes one that is.    *)
Ledger ==
  /\ upload.io = "registered" =>
       /\ multipart = "none" /\ object = NoAudio /\ ~journal.claimed /\ ~journal.located
       /\ task.goal \in Writes => task.pc = "claim"
       /\ \A op \in remote : op.kind \notin Writes
  /\ task.pc = "admitted" => upload.io = "writing"
  /\ upload.disposition # "none" <=> upload.io = "closed"
  /\ upload.disposition = "absent" => object = NoAudio
  /\ recording = "stored" => upload.disposition = "stored"
  /\ recording = "failed" => upload.disposition = "absent"
  /\ task.pc \in {"deleted", "absent"} => object = NoAudio
  /\ command = "completed" => upload.io = "closed"
  /\ task.noted => upload.located
  /\ ClosedIsOver
  /\ PartsAreLocated

LedgerInv == Typed /\ SavedOperation /\ Turn /\ Locator /\ Ledger

(* How the upload may move, when the bucket stands still. *)
Closes ==
  /\ upload.io # "closed" /\ upload'.io = "closed" /\ upload'.disposition \in {"stored", "absent"}
  /\ multipart # "open" /\ \A op \in remote : op.kind \notin Writes
  /\ upload'.disposition = "absent" => object = NoAudio

UploadMoves ==
  /\ upload.located => upload'.located
  /\ \/ upload'.io = upload.io /\ upload'.disposition = upload.disposition
     \/ /\ upload.io # "closed" /\ upload'.io \in {"writing", "unknown"}
        /\ upload'.disposition = upload.disposition
     \/ Closes

(* Which turn goes with which upload. *)
TurnFits ==
  /\ task'.goal \in Writes /\ upload'.io = "registered" => task'.pc = "claim"
  /\ task'.pc = "admitted" => upload'.io = "writing"
  /\ task'.pc \in {"deleted", "absent"} => object = NoAudio
  /\ task'.noted => upload'.located

LEMMA LedgerMoves ==
  ASSUME LedgerInv, UNCHANGED <<remote, multipart, object>>, UploadMoves, TurnFits,
         journal'.located = journal.located,
         journal'.claimed => journal.claimed \/ upload'.io # "registered",
         \/ recording' = recording
         \/ recording' = "stored" /\ upload'.disposition = "stored"
         \/ recording' = "failed" /\ upload'.disposition = "absent"
         \/ recording' = "deleted",
         command' = "completed" => command = "completed" \/ upload'.io = "closed"
  PROVE  Ledger'
<1> USE DEF LedgerInv, Ledger, UploadMoves, TurnFits, ClosedIsOver, PartsAreLocated, Closes
<1>1. /\ upload'.io = "registered" => upload.io = "registered"
      /\ upload.io = "closed" => upload'.io = "closed" /\ upload'.disposition = upload.disposition
      /\ upload'.disposition # "none" <=> upload'.io = "closed"
  BY DEF Typed, Uploads
<1>2. upload'.io = "registered" =>
       /\ multipart' = "none" /\ object' = NoAudio /\ ~journal'.claimed /\ ~journal'.located
       /\ task'.goal \in Writes => task'.pc = "claim"
       /\ \A op \in remote' : op.kind \notin Writes
  BY <1>1
<1>3. upload'.disposition = "absent" => object' = NoAudio
  BY <1>1
<1>4. /\ recording' = "stored" => upload'.disposition = "stored"
      /\ recording' = "failed" => upload'.disposition = "absent"
  BY <1>1
<1>5. command' = "completed" => upload'.io = "closed"
  BY <1>1
<1>6. ClosedIsOver' /\ PartsAreLocated'
  BY <1>1
<1> QED BY <1>1, <1>2, <1>3, <1>4, <1>5, <1>6

LEMMA TurnStays ==
  ASSUME LedgerInv, UploadMoves, task' \in {task, Idle},
         task' = task => task.pc # "admitted" \/ upload'.io = "writing"
  PROVE  TurnFits
BY DEF LedgerInv, Ledger, UploadMoves, TurnFits, Closes, Idle, Typed, Uploads, Writes

LEMMA UploadStays == UNCHANGED upload => UploadMoves
BY DEF UploadMoves

(* The steps that leave the ledger and the object in the bucket.            *)
LEMMA LedgerStays ==
  ASSUME LedgerInv, UNCHANGED <<remote, multipart, object, upload, recording, command>>,
         journal'.located = journal.located, journal'.claimed = journal.claimed,
         task' \in {task, Idle} \/ TurnFits
  PROVE  Ledger'
<1>1. UploadMoves
  BY UploadStays
<1>2. TurnFits
  BY <1>1, TurnStays DEF LedgerInv, Ledger
<1> QED BY <1>1, <1>2, LedgerMoves

LEMMA LedgerBegins == ASSUME LedgerInv, Begin PROVE Ledger'
<1>1. Started /\ UNCHANGED <<journal, remote, multipart, object, upload, recording, command>>
  BY Starts DEF Begin, bucket, ledger, LedgerInv
<1>2. task' = Idle \/ TurnFits
  BY <1>1 DEF Started, TurnFits, LedgerInv, Ledger, Uploading, Completing, At, BeginStop, Writes
<1> QED BY <1>1, <1>2, LedgerStays

LEMMA LedgerIssued == ASSUME LedgerInv, Issued PROVE Ledger'
<1> USE DEF LedgerInv
<1>1. PICK op : remote' = {op} /\ op.kind = task.goal
  BY IssuedOperation
<1>2. /\ task'.goal = task.goal /\ task'.noted = task.noted /\ task'.pc = "remote"
      /\ UNCHANGED <<multipart, object, upload, recording, command>>
  BY IssuedOperation, GoesOn DEF Issued, ledger
<1>3. journal'.located = journal.located /\ journal'.claimed = journal.claimed
  BY IssuedOperation DEF Typed, Journals
<1>4. task.goal \in Writes => upload.io = "writing"
  BY DEF Issued, Turn, Ledger, StopSteps, Writes
<1>5. task.goal \in {"part", "complete"} => upload.located
  BY DEF Issued, Turn, Ledger, StopSteps
<1> QED
  BY <1>1, <1>2, <1>3, <1>4, <1>5 DEF Ledger, ClosedIsOver, PartsAreLocated

LEMMA LedgerEffect ==
  ASSUME LedgerInv, NEW op \in remote, TakesEffect(op)  PROVE Ledger'
<1> USE DEF LedgerInv
<1>1. remote = {op} /\ remote' = {} /\ journal.inFlight = op.nonce /\ ~Free /\ op.kind \in Kinds
      /\ UNCHANGED <<upload, recording, command>>
  BY DEF SavedOperation, TakesEffect, Saved, Free, Typed, Operations, ledger
<1>2. /\ multipart' = CASE op.kind = "create" -> "open"
                        [] op.kind \in {"complete", "abort"} -> "gone"
                        [] OTHER -> multipart
      /\ object' = CASE op.kind = "complete" /\ multipart = "open" -> op.audio
                     [] op.kind = "delete" -> NoAudio
                     [] OTHER -> object
  BY DEF TakesEffect, Effect
<1>3. /\ upload.io = "registered" => op.kind = "delete"
      /\ upload.io = "closed" => op.kind \in {"abort", "delete"}
  BY <1>1 DEF Ledger, ClosedIsOver, Kinds, Writes, Locator
<1>4. /\ upload.io \in {"registered", "closed"} =>
            multipart' # "open" /\ (object = NoAudio => object' = NoAudio)
      /\ upload.io = "registered" => multipart' = "none"
  BY <1>2, <1>3 DEF Ledger, ClosedIsOver
<1>5. CASE task.pc # "remote"
  <2>1. UNCHANGED <<journal, task>>
    BY <1>5 DEF TakesEffect
  <2>2. task.pc \notin {"deleted", "absent"}
    BY <1>1 DEF Turn, StopSteps
  <2> QED BY <1>1, <1>4, <2>1, <2>2 DEF Ledger, ClosedIsOver, PartsAreLocated
<1>6. CASE task.pc = "remote"
  <2>1. Succeeds(op) /\ op.kind = task.goal /\ journal \in Journals
    BY <1>1, <1>6 DEF TakesEffect, Turn, BucketSteps, Typed
  <2>2. journal'.claimed = journal.claimed
    BY <2>1 DEF Succeeds, Journals
  <2>3. op.kind \notin Writes => journal'.located = journal.located
    BY <2>1 DEF Succeeds, Journals, Writes
  <2>4. /\ task'.pc # "admitted"
        /\ task'.pc \in {"deleted", "absent"} => object' = NoAudio
        /\ task'.noted => task.noted
        /\ upload.io = "registered" => task'.goal \notin Writes
    <3>1. CASE op.kind = "create"
      <4>1. task' = [Goes("note") EXCEPT !.goal = "part"]
        BY <2>1, <3>1 DEF Succeeds
      <4>2. task'.pc = "note" /\ task'.noted = task.noted
        BY <1>6, <4>1, GoesOn
      <4> QED BY <1>3, <3>1, <4>2
    <3>2. CASE op.kind = "part"
      BY <1>3, <2>1, <3>2 DEF Succeeds, Idle, Completing
    <3>3. CASE op.kind = "complete"
      BY <2>1, <3>3 DEF Succeeds, At, Writes
    <3>4. CASE op.kind = "abort"
      BY <2>1, <3>4 DEF Succeeds, At, Writes
    <3>5. CASE op.kind = "delete"
      BY <1>2, <2>1, <3>5 DEF Succeeds, At, Writes
    <3> QED BY <1>1, <3>1, <3>2, <3>3, <3>4, <3>5 DEF Kinds, Writes
  <2> QED BY <1>1, <1>3, <1>4, <2>2, <2>3, <2>4 DEF Ledger, ClosedIsOver, PartsAreLocated, Writes
<1> QED BY <1>5, <1>6

(* Claiming an upload closes it when the account has asked for deletion. *)
LEMMA ClaimMoves ==
  ASSUME LedgerInv, upload' = Claimed  PROVE UploadMoves
<1>1. upload \in Uploads
  BY DEF LedgerInv, Typed
<1>2. CASE upload.io # "registered"
  BY <1>2, UploadStays DEF Claimed
<1>3. CASE upload.io = "registered" /\ command = "none"
  BY <1>1, <1>3 DEF Claimed, UploadMoves, Uploads
<1>4. CASE upload.io = "registered" /\ command # "none"
  BY <1>1, <1>4 DEF Claimed, Closed, UploadMoves, Closes, Uploads, LedgerInv, Ledger
<1> QED BY <1>2, <1>3, <1>4

LEMMA ClaimedIsNotRegistered ==
  ASSUME Typed, upload' = Claimed
  PROVE  upload'.io # "registered" /\ (upload.io # "registered" => upload' = upload)
BY DEF Typed, Claimed, Closed, Uploads

LEMMA LedgerClaims ==
  ASSUME LedgerInv, Claim \/ Reclaim \/ StopClaims  PROVE Ledger'
<1> USE DEF LedgerInv
<1>1. UploadMoves /\ upload'.io # "registered"
  BY ClaimMoves, ClaimedIsNotRegistered DEF Claim, Reclaim, StopClaims
<1>2. UNCHANGED <<remote, multipart, object, recording, command>>
  BY DEF Claim, Reclaim, StopClaims, bucket
<1>3. journal'.located = journal.located
  BY DEF Claim, Reclaim, StopClaims, Typed, Journals
<1>4. task' = Idle \/ (task'.noted = task.noted /\ task'.pc \in {"allow", "get", "absent"}
                        /\ (task'.pc = "absent" => task.pc = "deleted"))
  <2>1. CASE Claim
    BY <2>1, GoesOn DEF Claim
  <2>2. CASE Reclaim
    BY <2>2, GoesOn DEF Reclaim, Answered
  <2>3. CASE StopClaims
    BY <2>3, GoesOn DEF StopClaims, Answered
  <2> QED BY <2>1, <2>2, <2>3
<1>5. TurnFits
  BY <1>1, <1>4 DEF TurnFits, Idle, UploadMoves, Ledger
<1> QED BY <1>1, <1>2, <1>3, <1>5, LedgerMoves

LEMMA LedgerSettles ==
  ASSUME LedgerInv, Cancel \/ Note \/ SettleUnsure \/ SettleStored \/ SettleAbsent
  PROVE  Ledger'
<1> USE DEF LedgerInv
<1>1. UNCHANGED <<remote, multipart, object, recording, command, journal>>
  BY DEF Cancel, Note, SettleUnsure, SettleStored, SettleAbsent, bucket
<1>2. upload \in Uploads
  BY DEF Typed
<1>3. UploadMoves
  <2>1. CASE Cancel
    BY <1>2, <2>1, UploadStays DEF Cancel, Closed, UploadMoves, Closes, Uploads, Ledger
  <2>2. CASE Note
    BY <1>2, <2>2, UploadStays DEF Note, UploadMoves, Uploads
  <2>3. CASE SettleUnsure
    BY <1>2, <2>3, UploadStays DEF SettleUnsure, Unsure, UploadMoves, Uploads
  <2>4. CASE SettleStored
    <3>1. remote = {} /\ multipart # "open"
      BY <2>4, FreeIsQuiet DEF SettleStored, Turn, FinishSteps, Locator
    <3> QED BY <1>2, <2>4, <3>1, UploadStays
            DEF SettleStored, Closed, UploadMoves, Closes, Uploads
  <2>5. CASE SettleAbsent
    <3>1. remote = {} /\ multipart # "open" /\ object = NoAudio
      BY <2>5, FreeIsQuiet DEF SettleAbsent, Turn, StopSteps, Locator, Ledger
    <3> QED BY <1>2, <2>5, <3>1, UploadStays
            DEF SettleAbsent, Closed, UploadMoves, Closes, Uploads
  <2> QED BY <2>1, <2>2, <2>3, <2>4, <2>5
<1>4. TurnFits
  <2>1. CASE task' = Idle
    BY <1>3, <2>1, TurnStays DEF Idle
  <2>2. CASE Note /\ task' = [Goes("allow") EXCEPT !.noted = TRUE] /\ upload'.located
    <3>1. task'.pc = "allow" /\ task'.goal = task.goal
      BY <2>2, GoesOn DEF Note
    <3>2. upload'.io # "registered"
      BY <1>2, <2>2 DEF Note, Uploads, Ledger, Turn, UploadSteps
    <3> QED BY <2>2, <3>1, <3>2 DEF TurnFits
  <2>3. Note => \/ task' = Idle
                \/ task' = [Goes("allow") EXCEPT !.noted = TRUE] /\ upload'.located
    BY <1>2 DEF Note, Answered, Uploads
  <2> QED BY <2>1, <2>2, <2>3 DEF Cancel, SettleUnsure, SettleStored, SettleAbsent, Answered
<1> QED BY <1>1, <1>3, <1>4, LedgerMoves

LEMMA LedgerReconciles == ASSUME LedgerInv, Reconcile PROVE Ledger'
<1>1. UNCHANGED <<remote, multipart, object, upload, command, journal, task>>
  BY DEF Reconcile, bucket
<1>2. \/ recording' = recording
      \/ recording' = "stored" /\ upload.disposition = "stored"
      \/ recording' = "failed" /\ upload.disposition = "absent"
  BY DEF Reconcile, MayPublish, LedgerInv, Typed
<1>3. UploadMoves /\ TurnFits
  BY <1>1, UploadStays, TurnStays DEF LedgerInv, Ledger
<1> QED BY <1>1, <1>2, <1>3, LedgerMoves

LEMMA LedgerDeletes ==
  ASSUME LedgerInv, NEW d \in Deleters, Deletion(d)  PROVE Ledger'
<1> USE DEF LedgerInv
<1>1. upload \in Uploads /\ UNCHANGED <<remote, multipart, journal, task>>
  BY DEF Typed, Deletion, Prepare, DeleteObjects, DeleterStops, Confirm, bucket, host
<1>2. CASE DeleteObjects(d) \/ DeleterStops(d)
  <2>1. object' \in {object, NoAudio} /\ UNCHANGED <<upload, recording, command>>
    BY <1>2 DEF DeleteObjects, DeleterStops, Emptied, ledger
  <2> QED BY <1>1, <2>1 DEF Ledger, ClosedIsOver, PartsAreLocated
<1>3. CASE Prepare(d)
  <2>1. UNCHANGED <<object, recording>> /\ command' = "pending" /\ upload' \in {upload, Fenced}
    BY <1>3 DEF Prepare, bucket
  <2>2. UploadMoves
    BY <1>1, <2>1, UploadStays DEF Fenced, UploadMoves, Closes, Uploads, Ledger
  <2>3. TurnFits
    <3>1. upload.io = "writing" => upload'.io = "writing"
      BY <1>1, <2>1 DEF Fenced, Uploads
    <3> QED BY <1>1, <2>2, <3>1, TurnStays DEF Ledger
  <2> QED BY <1>1, <2>1, <2>2, <2>3, LedgerMoves
<1>4. CASE Confirm(d)
  <2>1. /\ UNCHANGED object /\ recording' \in {recording, "deleted"}
        /\ upload'.io = upload.io /\ upload'.disposition = upload.disposition
        /\ upload'.located = upload.located
        /\ command' = "completed" => command = "completed" \/ upload.io = "closed"
    BY <1>1, <1>4 DEF Confirm, bucket, ledger, Uploads
  <2>2. UploadMoves /\ TurnFits
    BY <1>1, <2>1, TurnStays DEF UploadMoves, Ledger
  <2> QED BY <1>1, <2>1, <2>2, LedgerMoves
<1> QED BY <1>2, <1>3, <1>4 DEF Deletion

LEMMA LedgerKept == ASSUME LedgerInv, [Next]_vars PROVE Ledger'
<1> USE DEF LedgerInv
<1>1. CASE Frame \/ SessionEnds \/ CallFinish \/ Crash \/ UNCHANGED vars
  BY <1>1, LedgerStays DEF Frame, SessionEnds, CallFinish, Crash, vars, host, bucket, ledger
<1>2. CASE CallStop
  <2>1. journal'.located = journal.located /\ journal'.claimed = journal.claimed
    BY <1>2 DEF CallStop, Typed, Journals
  <2> QED BY <1>2, <2>1, LedgerStays DEF CallStop, bucket, ledger
<1>3. CASE Get
  <2>1. journal'.located = journal.located /\ journal'.claimed = journal.claimed
    BY <1>3 DEF Get, Typed, Journals
  <2>2. task' = Idle \/ TurnFits
    <3>1. task' = Idle \/ (task' = Goes("settle") /\ task.pc = "get" /\ upload' = upload)
      BY <1>3 DEF Get, ledger
    <3>2. task.pc = "get" => task.kind = "finish" /\ journal.completed
      BY DEF Turn, FinishSteps, Locator
    <3>3. task' = Idle \/ (task'.pc = "settle" /\ task'.goal = task.goal
                            /\ task'.noted = task.noted /\ upload' = upload)
      BY <3>1, GoesOn
    <3> QED BY <3>1, <3>2, <3>3 DEF TurnFits, Ledger, Locator
  <2> QED BY <1>3, <2>1, <2>2, LedgerStays DEF Get, bucket, ledger
<1>4. CASE Allow
  <2>1. task' = Idle \/ (task' = Goes("admitted") /\ upload.io = "writing" /\ task.pc = "allow")
    BY <1>4 DEF Allow, MayContinue
  <2>2. task' = Idle \/ TurnFits
    BY <1>4, <2>1, GoesOn DEF Allow, ledger, TurnFits, Ledger
  <2> QED BY <1>4, <2>2, LedgerStays DEF Allow, bucket, ledger
<1>5. CASE GivesUp
  <2>1. task' = Goes("unsure") /\ task.pc = "remote" /\ UNCHANGED upload
    BY <1>5 DEF GivesUp, ledger
  <2>2. TurnFits
    BY <2>1, GoesOn DEF TurnFits, Ledger
  <2> QED BY <1>5, <2>2, LedgerStays DEF GivesUp, bucket, ledger
<1>6. CASE CallFails
  BY <1>6, LedgerStays DEF CallFails, bucket, ledger
<1>7. CASE Admitted
  <2>1. \/ Issued
        \/ /\ UNCHANGED <<journal, remote, multipart, object, upload, recording, command>>
           /\ task' = Idle \/ (task' = Goes("note") /\ task.pc = "admitted")
    BY <1>7, FreeIsQuiet DEF Admitted, Issued, ledger
  <2>2. task' = Goes("note") /\ task.pc = "admitted" /\ UNCHANGED upload => TurnFits
    BY GoesOn DEF TurnFits, Ledger
  <2> QED BY <2>1, <2>2, LedgerStays, LedgerIssued
<1>8. CASE StopIssues
  <2>1. \/ Issued
        \/ /\ UNCHANGED <<journal, remote, multipart, object, upload, recording, command>>
           /\ task' = Idle
    BY <1>8, FreeIsQuiet DEF StopIssues, Issued, ledger
  <2> QED BY <2>1, LedgerStays, LedgerIssued
<1> QED
  BY <1>1, <1>2, <1>3, <1>4, <1>5, <1>6, <1>7, <1>8, LedgerBegins, LedgerEffect, LedgerClaims,
     LedgerSettles, LedgerReconciles, LedgerDeletes
  DEF Next, Host, Task

-----------------------------------------------------------------------------
(* The audio on its way.  What a turn took is the head of what is not yet   *)
(* in a part: only that turn removes chunks, and frames come behind them.   *)
(* A finish took all of them, since no frame comes after the session's end. *)
OnItsWay ==
  /\ task.goal \in {"create", "part"} => Len(task.taken) > 0
  /\ Len(task.taken) <= Len(chunks) /\ \A i \in 1..Len(task.taken) : task.taken[i] = chunks[i]
  /\ task.kind = "finish" /\ task.goal \in {"create", "part"} => Len(task.taken) = Len(chunks)
  /\ task.goal = "complete" => chunks = <<>>
  /\ task.pc \in BucketSteps => \A op \in remote : op.kind = "part" => op.audio = task.taken
  /\ \A op \in remote : op.kind = "complete" => op.audio = journal.parts /\ chunks = <<>>
  /\ \A op \in remote : Len(op.audio) <= MaxFrames
  /\ Len(journal.parts) + Len(chunks) <= spoken

(* The audio in the bucket, and where all of it is while nobody deletes.    *)
Upto(n, sequence) == \A i \in 1..Len(sequence) : sequence[i] = n + i

Whole ==
  /\ object # NoAudio => ended /\ chunks = <<>> /\ Len(object) <= MaxFrames
  /\ command = "none" =>
       /\ Upto(0, journal.parts) /\ Upto(Len(journal.parts), chunks)
       /\ Len(journal.parts) + Len(chunks) = spoken
       /\ object \in {NoAudio, journal.parts}
       /\ task.pc = "settle" \/ upload.disposition = "stored" => object # NoAudio

AudioInv == LedgerInv /\ Asked /\ OnItsWay /\ Whole

LEMMA AudioTypes ==
  ASSUME Typed
  PROVE  /\ chunks \in Seq(Frames) /\ Len(chunks) \in Nat
         /\ journal \in Journals /\ journal.parts \in Seq(Frames) /\ Len(journal.parts) \in Nat
         /\ task.taken \in Seq(Frames) /\ Len(task.taken) \in Nat
         /\ spoken \in Nat /\ spoken <= MaxFrames /\ MaxFrames \in Nat
         /\ \A op \in remote : op.audio \in Seq(Frames) /\ Len(op.audio) \in Nat
<1>1. <<>> \in Seq(Frames)
  OBVIOUS
<1>2. task.taken \in Seq(Frames)
  <2>1. CASE task = Idle
    BY <1>1, <2>1 DEF Idle
  <2>2. CASE task \in Turns
    BY <2>2 DEF Turns
  <2> QED BY <2>1, <2>2 DEF Typed
<1>3. /\ chunks \in Seq(Frames) /\ journal \in Journals /\ journal.parts \in Seq(Frames)
      /\ \A op \in remote : op.audio \in Seq(Frames)
  BY DEF Typed, Journals, Operations
<1>4. \A s \in Seq(Frames) : Len(s) \in Nat
  OBVIOUS
<1>5. spoken \in Nat /\ spoken <= MaxFrames /\ MaxFrames \in Nat
  BY Bounds DEF Typed
<1> QED BY <1>2, <1>3, <1>4, <1>5

(* A turn that ends, or goes on with what it took. *)
TurnOn == \/ task' = Idle
          \/ /\ task'.goal = task.goal /\ task'.kind = task.kind /\ task'.taken = task.taken
             /\ task'.pc \in BucketSteps => task.pc \in BucketSteps

LEMMA TurnsOn ==
  ASSUME Typed, TaskStep, SavedOperation
  PROVE  Issued \/ TurnOn
<1> USE DEF TurnOn, BucketSteps
<1>1. task.pc # "idle"
  BY DEF TaskStep, Claim, Reclaim, Cancel, Allow, Admitted, Note, GivesUp, SettleUnsure, Get,
         SettleStored, StopIssues, StopClaims, SettleAbsent, CallFails
<1>2. CASE Claim \/ Reclaim \/ Allow \/ Get
  <2>1. task' = Idle \/ \E pc \in {"allow", "get", "admitted", "settle"} : task' = Goes(pc)
    BY <1>2 DEF Claim, Reclaim, Allow, Get, Answered
  <2> QED BY <1>1, <2>1, GoesOn
<1>3. CASE GivesUp
  BY <1>3, GoesOn DEF GivesUp
<1>4. CASE StopClaims
  BY <1>4, GoesOn DEF StopClaims, Answered
<1>5. CASE Note
  <2>1. task' = Idle \/ task' = [Goes("allow") EXCEPT !.noted = TRUE]
    BY <1>5 DEF Note, Answered
  <2> QED BY <1>1, <2>1, GoesOn
<1>6. CASE Cancel \/ SettleUnsure \/ SettleStored \/ SettleAbsent \/ CallFails
  BY <1>6 DEF Cancel, SettleUnsure, SettleStored, SettleAbsent, CallFails, Answered
<1>7. CASE Admitted
  <2>1. Issued \/ task' = Idle \/ task' = Goes("note")
    BY <1>7, FreeIsQuiet DEF Admitted, Issued
  <2> QED BY <1>1, <2>1, GoesOn
<1>8. CASE StopIssues
  BY <1>8, FreeIsQuiet DEF StopIssues, Issued
<1> QED BY <1>2, <1>3, <1>4, <1>5, <1>6, <1>7, <1>8 DEF TaskStep

(* Steps that touch no audio. *)
SameAudio == /\ UNCHANGED <<spoken, ended, chunks, remote>> /\ journal'.parts = journal.parts
             /\ TurnOn

LEMMA OnItsWaySame == ASSUME AudioInv, SameAudio PROVE OnItsWay'
<1>1. CASE task' = Idle
  <2>1. task'.taken = <<>> /\ task'.goal = "none" /\ task'.kind = "none" /\ task'.pc = "idle"
    BY <1>1 DEF Idle
  <2>2. Len(<<>>) = 0 /\ Len(chunks) >= 0
    BY AudioTypes DEF AudioInv, LedgerInv
  <2> QED BY <2>1, <2>2 DEF AudioInv, OnItsWay, SameAudio, BucketSteps
<1>2. CASE /\ task'.goal = task.goal /\ task'.kind = task.kind /\ task'.taken = task.taken
           /\ task'.pc \in BucketSteps => task.pc \in BucketSteps
  BY <1>2 DEF AudioInv, OnItsWay, SameAudio
<1> QED BY <1>1, <1>2 DEF SameAudio, TurnOn

LEMMA WholeSame ==
  ASSUME AudioInv, UNCHANGED <<spoken, ended, chunks>>, journal'.parts = journal.parts,
         object' = object \/ (object' = NoAudio /\ command # "none"),
         command # "none" => command' # "none",
         task'.pc = "settle" => task.pc = "settle" \/ object # NoAudio,
         upload'.disposition = "stored" => upload.disposition = "stored" \/ task.pc = "settle"
  PROVE  Whole'
BY DEF AudioInv, Whole, Upto

(* The deletion ends what was on its way. *)
LEMMA AudioDropped ==
  ASSUME AudioInv, command # "none", command' # "none", chunks' = <<>>, task' = Idle,
         UNCHANGED <<spoken, ended, remote, object, journal>>
  PROVE  OnItsWay' /\ Whole'
<1>1. Len(<<>>) = 0 /\ Len(journal.parts) <= spoken
  BY AudioTypes DEF AudioInv, LedgerInv, OnItsWay
<1>2. task'.taken = <<>> /\ task'.goal = "none" /\ task'.kind = "none" /\ task'.pc = "idle"
  BY DEF Idle
<1> QED BY <1>1, <1>2, AudioTypes DEF AudioInv, LedgerInv, OnItsWay, Whole, BucketSteps

LEMMA AudioFrame == ASSUME AudioInv, Frame PROVE OnItsWay' /\ Whole'
<1> USE DEF AudioInv, LedgerInv
<1>0. /\ chunks \in Seq(Frames) /\ Len(chunks) \in Nat
      /\ Len(journal.parts) \in Nat /\ Len(task.taken) \in Nat
      /\ spoken \in Nat /\ spoken <= MaxFrames /\ MaxFrames \in Nat
  BY AudioTypes
<1>1. /\ ~ended /\ spoken < MaxFrames /\ spoken' = spoken + 1 /\ chunks' = Append(chunks, spoken')
      /\ UNCHANGED <<ended, journal, task, remote, object, command, upload>>
  BY DEF Frame, bucket, ledger
<1>2. spoken' \in Frames
  BY <1>0, <1>1 DEF Frames
<1>3. /\ Len(chunks') = Len(chunks) + 1 /\ chunks'[Len(chunks) + 1] = spoken'
      /\ \A i \in 1..Len(chunks) : chunks'[i] = chunks[i]
  BY <1>0, <1>1, <1>2
<1> DEFINE parts == Len(journal.parts)
           sung == Len(chunks)
<1>10. /\ parts \in Nat /\ sung \in Nat /\ spoken \in Nat
       /\ spoken' = spoken + 1 /\ Len(chunks') = sung + 1 /\ Len(journal'.parts) = parts
  BY <1>0, <1>1, <1>3
<1>4. task.kind # "finish" /\ task.goal # "complete" /\ \A op \in remote : op.kind # "complete"
  BY <1>1 DEF Asked, Turn
<1>5. object = NoAudio
  BY <1>1 DEF Whole
<1>6. OnItsWay'
  <2>1. Len(task.taken) <= Len(chunks') /\ \A i \in 1..Len(task.taken) : task.taken[i] = chunks'[i]
    BY <1>0, <1>3 DEF OnItsWay
  <2>2. Len(journal'.parts) + Len(chunks') <= spoken'
    <3>1. parts + sung <= spoken
      BY DEF OnItsWay
    <3> HIDE DEF AudioInv, LedgerInv, parts, sung
    <3> QED BY <1>10, <3>1
  <2>3. task.kind # "finish" /\ \A op \in remote : op.kind # "complete"
    BY <1>4
  <2> HIDE DEF LedgerInv
  <2> QED BY <1>1, <1>4, <2>1, <2>2, <2>3 DEF AudioInv, OnItsWay
<1>7. Whole'
  <2>1. ASSUME command = "none"
        PROVE  Upto(Len(journal.parts), chunks') /\ Len(journal.parts) + Len(chunks') = spoken'
    <3>1. Len(journal.parts) + Len(chunks) = spoken /\ Upto(Len(journal.parts), chunks)
      BY <2>1 DEF Whole
    <3>2. ASSUME NEW i \in 1..Len(chunks') PROVE chunks'[i] = Len(journal.parts) + i
      <4>1. CASE i \in 1..Len(chunks)
        BY <1>3, <3>1, <4>1 DEF Upto
      <4>2. CASE i = Len(chunks) + 1
        <5>1. spoken' = parts + (sung + 1)
          <6> parts + sung = spoken
            BY <3>1
          <6> HIDE DEF AudioInv, LedgerInv, parts, sung
          <6> QED BY <1>10
        <5> QED BY <1>3, <4>2, <5>1
      <4> HIDE DEF AudioInv, LedgerInv
      <4> QED BY <1>0, <1>3, <4>1, <4>2
    <3>3. Len(journal.parts) + Len(chunks') = spoken'
      <4> parts + sung = spoken
        BY <3>1
      <4>1. parts + Len(chunks') = spoken'
        <5> HIDE DEF AudioInv, LedgerInv, parts, sung
        <5> QED BY <1>10
      <4> QED BY <4>1
    <3>4. journal'.parts = journal.parts
      BY <1>1
    <3> QED BY <3>2, <3>3 DEF Upto
  <2> HIDE DEF LedgerInv
  <2> QED BY <1>1, <1>5, <2>1 DEF Whole, Upto
<1> QED BY <1>6, <1>7

LEMMA AudioBegins == ASSUME AudioInv, Begin PROVE OnItsWay' /\ Whole'
<1> USE DEF AudioInv, LedgerInv
<1>1. /\ Started /\ serial # <<>>
      /\ UNCHANGED <<spoken, ended, chunks, journal, remote, object, upload, command>>
  BY Starts DEF Begin, bucket, ledger
<1>2. CASE task' = Idle
  BY <1>1, <1>2, OnItsWaySame, WholeSame DEF SameAudio, TurnOn, Idle
<1>3. ASSUME NEW call \in Calls, task' = Uploading(call), chunks # <<>>
      PROVE  OnItsWay' /\ Whole'
  <2>1. CASE task' # Idle
    <3>1. task'.kind = call /\ task'.taken = chunks /\ task'.goal \in {"create", "part"}
          /\ task'.pc \in UploadSteps
      BY <1>3, <2>1 DEF Uploading, UploadSteps
    <3>2. Len(chunks) > 0
      BY <1>3, AudioTypes, EmptySeq
    <3> QED
      BY <1>1, <3>1, <3>2, AudioTypes DEF OnItsWay, Whole, Upto, UploadSteps, BucketSteps
  <2> QED BY <1>2, <2>1
<1>4. CASE task' = Completing /\ chunks = <<>>
  <2>1. Len(<<>>) = 0
    OBVIOUS
  <2>2. task'.kind = "finish" /\ task'.taken = <<>> /\ task'.goal = "complete" /\ task'.pc = "allow"
    BY <1>4 DEF Completing
  <2> QED BY <1>1, <1>4, <2>1, <2>2 DEF OnItsWay, Whole, Upto, BucketSteps
<1>5. ASSUME NEW pc \in {"reclaim", "get", "cancel"}, task' = At("finish", pc)
      PROVE  OnItsWay' /\ Whole'
  <2>1. task'.taken = <<>> /\ task'.goal = "delete" /\ task'.pc = pc
    BY <1>5 DEF At
  <2>2. Len(<<>>) = 0 /\ Len(chunks) >= 0
    BY AudioTypes
  <2> QED BY <1>1, <2>1, <2>2 DEF OnItsWay, Whole, Upto, BucketSteps
<1>6. CASE task' = BeginStop /\ Free
  <2>1. task'.taken = <<>> /\ task'.goal \in {"abort", "delete"} /\ task'.pc = "delete"
    BY <1>6 DEF BeginStop, At
  <2>2. Len(<<>>) = 0 /\ Len(chunks) >= 0
    BY AudioTypes
  <2> QED BY <1>1, <2>1, <2>2 DEF OnItsWay, Whole, Upto, BucketSteps
<1> QED BY <1>1, <1>2, <1>3, <1>4, <1>5, <1>6 DEF Started, Calls

LEMMA AudioIssued == ASSUME AudioInv, Issued PROVE OnItsWay' /\ Whole'
<1> USE DEF AudioInv, LedgerInv
<1>1. PICK op : remote' = {op} /\ op.kind = task.goal /\ op.audio = Sent
  BY IssuedOperation
<1>2. /\ task'.goal = task.goal /\ task'.kind = task.kind /\ task'.taken = task.taken
      /\ task'.pc = "remote"
      /\ UNCHANGED <<spoken, ended, chunks, object, upload, command>>
  BY IssuedOperation, GoesOn DEF Issued, ledger
<1>3. journal'.parts = journal.parts
  BY IssuedOperation DEF Typed, Journals
<1>4. Len(Sent) <= MaxFrames
  <2>1. Len(task.taken) <= MaxFrames /\ Len(journal.parts) <= MaxFrames /\ Len(<<>>) <= MaxFrames
    BY AudioTypes DEF OnItsWay
  <2> QED BY <2>1 DEF Sent
<1>5. /\ op.kind = "part" => op.audio = task.taken
      /\ op.kind = "complete" => op.audio = journal.parts
  BY <1>1 DEF Sent
<1>6. OnItsWay'
  BY <1>1, <1>2, <1>3, <1>4, <1>5 DEF OnItsWay
<1>7. Whole'
  BY <1>2, <1>3, WholeSame
<1> QED BY <1>6, <1>7

(* The chunks of a part become parts. *)
Rest(all, head) == SubSeq(all, Len(head) + 1, Len(all))

LEMMA PartMoves ==
  ASSUME NEW parts \in Seq(Frames), NEW all \in Seq(Frames), NEW head \in Seq(Frames),
         Len(head) <= Len(all), \A i \in 1..Len(head) : head[i] = all[i]
  PROVE  /\ Len(parts \o head) + Len(Rest(all, head)) = Len(parts) + Len(all)
         /\ Upto(0, parts) /\ Upto(Len(parts), all) =>
              Upto(0, parts \o head) /\ Upto(Len(parts \o head), Rest(all, head))
         /\ Len(head) = Len(all) => Rest(all, head) = <<>>
<1> DEFINE rest == Rest(all, head)
<1>0. rest = SubSeq(all, Len(head) + 1, Len(all))
  BY DEF Rest
<1> HIDE DEF rest
<1> DEFINE p == Len(parts)
           a == Len(all)
           h == Len(head)
<1>1. p \in Nat /\ a \in Nat /\ h \in Nat /\ h <= a
  OBVIOUS
<1>2. /\ Len(parts \o head) = p + h
      /\ \A i \in 1..p : (parts \o head)[i] = parts[i]
      /\ \A i \in 1..h : (parts \o head)[p + i] = head[i]
  BY ConcatProperties
<1>3. Len(rest) = a - h /\ \A i \in 1..(a - h) : rest[i] = all[h + i]
  <2>1. CASE h < a
    <3>1. h + 1 \in 1..a /\ a \in (h + 1)..a
      BY <1>1, <2>1
    <3>2. Len(rest) = a - (h + 1) + 1
          /\ \A i \in 1..(a - (h + 1) + 1) : rest[i] = all[h + 1 + i - 1]
      BY <1>0, <1>1, <2>1, <3>1, SubSeqProperties
    <3>3. a - (h + 1) + 1 = a - h
      BY <1>1
    <3>4. \A i \in 1..(a - h) : h + 1 + i - 1 = h + i
      BY <1>1
    <3> HIDE DEF a, h
    <3> QED BY <3>2, <3>3, <3>4
  <2>2. CASE h = a
    <3>1. rest = <<>>
      BY <1>0, <1>1, <2>2, SubSeqEmpty
    <3> QED BY <1>1, <2>2, <3>1
  <2> QED BY <1>1, <2>1, <2>2
<1>4. Len(parts \o head) + Len(rest) = Len(parts) + Len(all)
  <2> HIDE DEF p, a, h
  <2>1. (p + h) + (a - h) = p + a
    BY <1>1
  <2> QED BY <1>2, <1>3, <2>1 DEF p, a
<1>5. ASSUME Upto(0, parts), Upto(Len(parts), all)
      PROVE  Upto(0, parts \o head) /\ Upto(Len(parts \o head), rest)
  <2>1. \A i \in 1..p : (parts \o head)[i] = i
    BY <1>2, <1>5 DEF Upto
  <2>2. \A i \in 1..h : (parts \o head)[p + i] = p + i
    BY <1>1, <1>2, <1>5 DEF Upto
  <2>3. \A i \in 1..(p + h) : (parts \o head)[i] = i
    <3> SUFFICES ASSUME NEW i \in 1..(p + h), i \notin 1..p PROVE (parts \o head)[i] = i
      BY <2>1
    <3>1. i - p \in 1..h /\ p + (i - p) = i
      BY <1>1
    <3> QED BY <2>2, <3>1
  <2>4. \A i \in 1..(a - h) : rest[i] = p + h + i
    <3> SUFFICES ASSUME NEW i \in 1..(a - h) PROVE rest[i] = p + h + i
      OBVIOUS
    <3>1. h + i \in 1..a /\ p + (h + i) = p + h + i
      BY <1>1
    <3> QED BY <1>3, <1>5, <3>1 DEF Upto
  <2>5. Upto(0, parts \o head)
    <3>1. \A i \in 1..(p + h) : i = 0 + i
      OBVIOUS
    <3> QED BY <1>2, <2>3, <3>1 DEF Upto
  <2>6. Upto(Len(parts \o head), rest)
    BY <1>2, <1>3, <2>4 DEF Upto
  <2> QED BY <2>5, <2>6
<1>6. Len(head) = Len(all) => rest = <<>>
  BY <1>0, <1>1, SubSeqEmpty
<1> QED BY <1>4, <1>5, <1>6 DEF rest

LEMMA NoAudioIsNone == \A audio \in Seq(Frames) : audio # NoAudio
<1> SUFFICES ASSUME NEW audio \in Seq(Frames), audio = NoAudio PROVE FALSE
  OBVIOUS
<1>1. Len(audio) = 1 /\ audio[1] = 0
  BY DEF NoAudio
<1>2. 1 \in 1..Len(audio)
  BY <1>1
<1>3. audio[1] \in Frames
  BY <1>2, ElementOfSeq
<1>4. 0 \notin Frames
  BY Bounds DEF Frames
<1> QED BY <1>1, <1>3, <1>4

LEMMA AudioEffect ==
  ASSUME AudioInv, NEW op \in remote, TakesEffect(op)  PROVE OnItsWay' /\ Whole'
<1> USE DEF AudioInv, LedgerInv
<1>1. /\ remote = {op} /\ remote' = {} /\ journal.inFlight = op.nonce /\ op.kind \in Kinds
      /\ UNCHANGED <<spoken, ended, upload, command>>
  BY DEF SavedOperation, TakesEffect, Saved, Typed, Operations, ledger
<1>2. object' = CASE op.kind = "complete" /\ multipart = "open" -> op.audio
                  [] op.kind = "delete" -> NoAudio
                  [] OTHER -> object
  BY DEF TakesEffect, Effect
<1>3. /\ op.kind = "delete" => command # "none"
      /\ op.kind = "complete" => /\ ended /\ chunks = <<>> /\ op.audio = journal.parts
                                 /\ Len(op.audio) <= MaxFrames
  BY <1>1 DEF Asked, OnItsWay
<1>4. object' # NoAudio => ended /\ chunks = <<>> /\ Len(object') <= MaxFrames
  <2>1. CASE op.kind = "complete" /\ multipart = "open"
    BY <1>2, <1>3, <2>1
  <2>2. CASE object' \in {object, NoAudio}
    BY <2>2 DEF Whole
  <2> QED BY <1>2, <2>1, <2>2
<1>5. command = "none" => /\ object' \in {NoAudio, journal.parts}
                          /\ object # NoAudio => object' # NoAudio
  <2>1. journal.parts # NoAudio
    BY AudioTypes, NoAudioIsNone
  <2>2. CASE op.kind = "complete" /\ multipart = "open"
    BY <1>2, <1>3, <2>1, <2>2
  <2>3. CASE op.kind = "delete"
    BY <1>3, <2>3
  <2>4. CASE object' = object
    BY <2>4 DEF Whole
  <2> QED BY <1>2, <2>2, <2>3, <2>4
<1>6. CASE task.pc # "remote"
  <2>1. UNCHANGED <<journal, chunks, task>>
    BY <1>6 DEF TakesEffect
  <2>2. OnItsWay'
    BY <1>1, <2>1 DEF OnItsWay
  <2>3. Whole'
    BY <1>1, <1>4, <1>5, <2>1 DEF Whole, Upto
  <2> QED BY <2>2, <2>3
<1>7. CASE task.pc = "remote"
  <2>1. Succeeds(op) /\ op.kind = task.goal /\ journal \in Journals
    BY <1>1, <1>7 DEF TakesEffect, Turn, BucketSteps, Typed
  <2>2. CASE op.kind = "part"
    <3>1. /\ op.audio = task.taken /\ chunks' = SubSeq(chunks, Len(task.taken) + 1, Len(chunks))
          /\ task' = IF task.kind = "upload" THEN Idle ELSE Completing
          /\ journal'.parts = journal.parts \o task.taken
      BY <1>1, <1>7, <2>1, <2>2 DEF OnItsWay, BucketSteps, Succeeds, Later, Journals
    <3>2. Len(task.taken) <= Len(chunks) /\ \A i \in 1..Len(task.taken) : task.taken[i] = chunks[i]
      BY DEF OnItsWay
    <3>3. journal.parts \in Seq(Frames) /\ chunks \in Seq(Frames) /\ task.taken \in Seq(Frames)
      BY AudioTypes
    <3>4. /\ Len(journal'.parts) + Len(chunks') = Len(journal.parts) + Len(chunks)
          /\ Upto(0, journal.parts) /\ Upto(Len(journal.parts), chunks) =>
               Upto(0, journal'.parts) /\ Upto(Len(journal'.parts), chunks')
          /\ Len(task.taken) = Len(chunks) => chunks' = <<>>
      <4>1. chunks' = Rest(chunks, task.taken)
        BY <3>1 DEF Rest
      <4>2. journal'.parts = journal.parts \o task.taken
        BY <3>1
      <4>3. /\ Len(journal.parts \o task.taken) + Len(Rest(chunks, task.taken))
                 = Len(journal.parts) + Len(chunks)
            /\ Upto(0, journal.parts) /\ Upto(Len(journal.parts), chunks) =>
                 /\ Upto(0, journal.parts \o task.taken)
                 /\ Upto(Len(journal.parts \o task.taken), Rest(chunks, task.taken))
            /\ Len(task.taken) = Len(chunks) => Rest(chunks, task.taken) = <<>>
        BY <3>2, <3>3, PartMoves
      <4> QED BY <4>1, <4>2, <4>3
    <3>5. object = NoAudio /\ object' = NoAudio
      <4>1. Len(task.taken) > 0 /\ chunks # <<>>
        <5>1. Len(task.taken) > 0
          BY <2>1, <2>2 DEF OnItsWay
        <5>2. Len(<<>>) = 0 /\ Len(task.taken) \in Nat /\ Len(chunks) \in Nat
          BY AudioTypes
        <5> QED BY <3>2, <5>1, <5>2
      <4> QED BY <1>2, <2>2, <4>1 DEF Whole
    <3>6. task' = Idle \/ (task' = Completing /\ chunks' = <<>>)
      <4>1. task.kind \in {"upload", "finish"}
        <5>1. task \in Turns
          BY <1>7 DEF Typed, Idle
        <5> QED BY <2>1, <2>2, <5>1 DEF Turn, Turns, Calls
      <4>2. task.kind = "finish" => Len(task.taken) = Len(chunks)
        BY <2>1, <2>2 DEF OnItsWay
      <4> QED BY <3>1, <3>4, <4>1, <4>2
    <3>7. /\ task'.taken = <<>> /\ task'.goal \notin {"create", "part"}
          /\ task'.pc \in {"idle", "allow"} /\ (task'.goal = "complete" => chunks' = <<>>)
      BY <3>6 DEF Idle, Completing
    <3>8. Len(<<>>) = 0 /\ Len(chunks') \in Nat
      BY EffectTyped, AudioTypes DEF Typed
    <3>9. OnItsWay'
      BY <1>1, <3>4, <3>7, <3>8 DEF OnItsWay, BucketSteps
    <3>10. Whole'
      BY <1>1, <3>4, <3>5, <3>7 DEF Whole
    <3> QED BY <3>9, <3>10
  <2>3. CASE op.kind = "create"
    <3>1. task' = [Goes("note") EXCEPT !.goal = "part"] /\ chunks' = chunks
          /\ journal'.parts = journal.parts
      BY <2>1, <2>3 DEF Succeeds, Journals
    <3>2. task'.pc = "note" /\ task'.goal = "part" /\ task'.kind = task.kind
          /\ task'.taken = task.taken
      BY <1>7, <3>1, GoesOn
    <3>3. OnItsWay'
      BY <1>1, <2>1, <2>3, <3>1, <3>2 DEF OnItsWay, BucketSteps
    <3>4. Whole'
      BY <1>1, <1>4, <1>5, <3>1, <3>2 DEF Whole, Upto
    <3> QED BY <3>3, <3>4
  <2>4. CASE op.kind \in {"complete", "abort", "delete"}
    <3>1. /\ task'.pc \in {"get", "delete", "deleted"} /\ task'.taken = <<>>
          /\ task'.goal = "delete" /\ chunks' = chunks
      BY <2>1, <2>4 DEF Succeeds, At
    <3>5. journal'.parts = journal.parts
      BY <2>1, <2>4 DEF Succeeds, Journals
    <3>2. Len(<<>>) = 0 /\ Len(chunks) >= 0
      BY AudioTypes
    <3>3. OnItsWay'
      BY <1>1, <3>1, <3>2, <3>5 DEF OnItsWay, BucketSteps
    <3>4. Whole'
      BY <1>1, <1>4, <1>5, <3>1, <3>5 DEF Whole, Upto
    <3> QED BY <3>3, <3>4
  <2> QED BY <1>1, <2>2, <2>3, <2>4 DEF Kinds, Writes
<1> QED BY <1>6, <1>7

LEMMA AudioHost ==
  ASSUME AudioInv, SessionEnds \/ CallFinish \/ CallStop \/ Reconcile \/ Crash \/ UNCHANGED vars
  PROVE  OnItsWay' /\ Whole'
<1>1. /\ UNCHANGED <<spoken, chunks, remote, object, upload, command>> /\ task' \in {task, Idle}
      /\ ended => ended'
  BY DEF SessionEnds, CallFinish, CallStop, Reconcile, Crash, vars, host, bucket, ledger
<1>2. journal'.parts = journal.parts
  BY DEF SessionEnds, CallFinish, CallStop, Reconcile, Crash, vars, host, AudioInv, LedgerInv,
         Typed, Journals
<1>3. CASE ended' = ended
  <2>1. SameAudio
    BY <1>1, <1>2, <1>3 DEF SameAudio, TurnOn
  <2>2. task'.pc = "settle" => task.pc = "settle"
    BY <1>1 DEF Idle
  <2> QED BY <1>1, <1>2, <1>3, <2>1, <2>2, OnItsWaySame, WholeSame
<1>4. CASE SessionEnds
  <2>1. UNCHANGED <<task, journal>>
    BY <1>4 DEF SessionEnds
  <2> QED BY <1>1, <2>1 DEF AudioInv, OnItsWay, Whole, Upto
<1> QED BY <1>3, <1>4 DEF CallFinish, CallStop, Reconcile, Crash, vars, host

LEMMA TasksIssue == ASSUME Typed, SavedOperation, TaskStep, ~Issued PROVE UNCHANGED remote
<1>1. CASE Claim \/ Reclaim \/ Cancel \/ Allow \/ Note \/ GivesUp \/ SettleUnsure \/ Get
           \/ SettleStored \/ StopClaims \/ SettleAbsent \/ CallFails
  BY <1>1 DEF Claim, Reclaim, Cancel, Allow, Note, GivesUp, SettleUnsure, Get,
              SettleStored, StopClaims, SettleAbsent, CallFails, bucket
<1>2. CASE Admitted
  BY <1>2, FreeIsQuiet DEF Admitted, Issued
<1>3. CASE StopIssues
  BY <1>3, FreeIsQuiet DEF StopIssues, Issued
<1> QED BY <1>1, <1>2, <1>3 DEF TaskStep

LEMMA TaskParts == ASSUME Typed, TaskStep PROVE journal'.parts = journal.parts
<1> USE DEF Typed, Journals
<1>1. CASE Claim \/ Get
  BY <1>1 DEF Claim, Get
<1>2. CASE Admitted \/ StopIssues
  BY <1>2 DEF Admitted, StopIssues, Issue
<1>3. CASE Reclaim \/ Cancel \/ Allow \/ Note \/ GivesUp \/ SettleUnsure
           \/ SettleStored \/ StopClaims \/ SettleAbsent \/ CallFails
  BY <1>3 DEF Reclaim, Cancel, Allow, Note, GivesUp, SettleUnsure,
              SettleStored, StopClaims, SettleAbsent, CallFails
<1> QED BY <1>1, <1>2, <1>3 DEF TaskStep

(* A turn comes to its settlement only when the object was read. *)
LEMMA TaskSettles ==
  ASSUME Typed, TaskStep, task'.pc = "settle"  PROVE task.pc = "settle" \/ object # NoAudio
<1>1. task.pc # "idle" /\ \A pc : Goes(pc).pc = pc
  <2>1. task.pc # "idle"
    BY DEF TaskStep, Claim, Reclaim, Cancel, Allow, Admitted, Note, GivesUp, SettleUnsure, Get,
         SettleStored, StopIssues, StopClaims, SettleAbsent, CallFails
  <2> QED BY <2>1, GoesOn
<1>2. CASE Claim \/ Reclaim \/ Allow \/ GivesUp \/ StopClaims
  <2>1. \/ task' = Idle
        \/ \E pc \in {"allow", "get", "admitted", "unsure", "absent"} : task' = Goes(pc)
    BY <1>2 DEF Claim, Reclaim, Allow, GivesUp, StopClaims, Answered
  <2> QED BY <1>1, <2>1 DEF Idle
<1>3. CASE Note
  <2>1. task' = Idle \/ task' = [Goes("allow") EXCEPT !.noted = TRUE]
    BY <1>3 DEF Note, Answered
  <2>2. CASE task' = [Goes("allow") EXCEPT !.noted = TRUE]
    <3>1. task'.pc = "allow"
      BY <1>1, <2>2, GoesOn
    <3> QED BY <3>1
  <2>3. CASE task' = Idle
    BY <2>3 DEF Idle
  <2> QED BY <2>1, <2>2, <2>3
<1>4. CASE Cancel \/ SettleUnsure \/ SettleStored \/ SettleAbsent \/ CallFails
  <2>1. task' = Idle
    BY <1>4 DEF Cancel, SettleUnsure, SettleStored, SettleAbsent, CallFails, Answered
  <2> QED BY <2>1 DEF Idle
<1>5. CASE Admitted \/ StopIssues
  <2>1. task' = Idle \/ \E pc \in {"remote", "note"} : task' = Goes(pc)
    BY <1>5 DEF Admitted, StopIssues, Issue
  <2> QED BY <1>1, <2>1 DEF Idle
<1>6. CASE Get
  BY <1>6 DEF Get, Idle
<1> QED BY <1>2, <1>3, <1>4, <1>5, <1>6 DEF TaskStep

(* Only the end of finish calls an upload stored. *)
LEMMA TaskStores ==
  ASSUME Typed, TaskStep, upload'.disposition = "stored"
  PROVE  upload.disposition = "stored" \/ task.pc = "settle"
<1>1. upload \in Uploads
  BY DEF Typed
<1>2. CASE Claim \/ Reclaim \/ StopClaims
  <2>1. upload' = Claimed
    BY <1>2 DEF Claim, Reclaim, StopClaims
  <2> QED BY <1>1, <2>1 DEF Claimed, Closed, Uploads
<1>3. CASE Cancel \/ SettleAbsent
  BY <1>1, <1>3 DEF Cancel, SettleAbsent, Closed, Uploads
<1>4. CASE Note \/ SettleUnsure
  BY <1>1, <1>4 DEF Note, SettleUnsure, Unsure, Uploads
<1>5. CASE SettleStored
  BY <1>5 DEF SettleStored
<1>6. CASE Allow \/ Admitted \/ GivesUp \/ Get \/ StopIssues \/ CallFails
  BY <1>6 DEF Allow, Admitted, GivesUp, Get, StopIssues, CallFails, ledger
<1> QED BY <1>2, <1>3, <1>4, <1>5, <1>6 DEF TaskStep

LEMMA AudioTask == ASSUME AudioInv, TaskStep PROVE OnItsWay' /\ Whole'
<1> USE DEF AudioInv, LedgerInv
<1>1. CASE Issued
  BY <1>1, AudioIssued
<1>2. CASE (StopClaims \/ SettleAbsent) /\ chunks' # chunks
  <2>1. /\ chunks' = <<>> /\ task' = Idle /\ task.pc \in {"deleted", "absent"}
        /\ UNCHANGED <<spoken, ended, remote, object, journal, command>>
    BY <1>2 DEF StopClaims, SettleAbsent, Answered, Fails, bucket
  <2>2. command # "none"
    BY <2>1 DEF Asked, Turn, StopSteps
  <2> QED BY <2>1, <2>2, AudioDropped
<1>3. CASE ~Issued /\ ~((StopClaims \/ SettleAbsent) /\ chunks' # chunks)
  <2>1. UNCHANGED <<spoken, ended, chunks, object, command>>
    <3>1. CASE StopClaims \/ SettleAbsent
      BY <1>3, <3>1 DEF StopClaims, SettleAbsent, bucket
    <3>2. CASE Claim \/ Reclaim \/ Allow \/ Note \/ GivesUp \/ CallFails
      BY <3>2 DEF Claim, Reclaim, Allow, Note, GivesUp, CallFails, bucket, ledger
    <3>3. CASE Cancel \/ SettleUnsure \/ SettleStored \/ Get
      BY <3>3 DEF Cancel, SettleUnsure, SettleStored, Get, bucket, ledger
    <3>4. CASE Admitted \/ StopIssues
      BY <3>4 DEF Admitted, StopIssues, ledger
    <3> QED BY <3>1, <3>2, <3>3, <3>4 DEF TaskStep
  <2>2. UNCHANGED remote
    BY <1>3, TasksIssue
  <2>3. journal'.parts = journal.parts
    BY TaskParts
  <2>4. TurnOn
    BY <1>3, TurnsOn
  <2>5. task'.pc = "settle" => task.pc = "settle" \/ object # NoAudio
    BY TaskSettles
  <2>6. upload'.disposition = "stored" => upload.disposition = "stored" \/ task.pc = "settle"
    BY TaskStores
  <2>7. SameAudio
    BY <2>1, <2>2, <2>3, <2>4 DEF SameAudio
  <2> QED BY <2>1, <2>3, <2>5, <2>6, <2>7, OnItsWaySame, WholeSame
<1> QED BY <1>1, <1>2, <1>3

LEMMA AudioDeletes == ASSUME AudioInv, NEW d \in Deleters, Deletion(d) PROVE OnItsWay' /\ Whole'
<1> USE DEF AudioInv, LedgerInv
<1>1. UNCHANGED <<spoken, ended, chunks, journal, task, remote>>
  BY DEF Deletion, Prepare, DeleteObjects, DeleterStops, Confirm, host, bucket
<1>2. object' = object \/ (object' = NoAudio /\ command # "none")
  BY DEF Deletion, Prepare, DeleteObjects, DeleterStops, Confirm, Emptied, bucket, Asked
<1>3. command # "none" => command' # "none"
  BY DEF Deletion, Prepare, DeleteObjects, DeleterStops, Confirm, ledger
<1>4. upload'.disposition = "stored" => upload.disposition = "stored"
  <2>1. upload \in Uploads
    BY DEF Typed
  <2>2. CASE Prepare(d)
    BY <2>1, <2>2 DEF Prepare, Fenced, Uploads
  <2>3. CASE DeleteObjects(d) \/ DeleterStops(d) \/ Confirm(d)
    BY <2>1, <2>3 DEF DeleteObjects, DeleterStops, Confirm, ledger, Uploads
  <2> QED BY <2>2, <2>3 DEF Deletion
<1>5. SameAudio
  BY <1>1 DEF SameAudio, TurnOn
<1> QED BY <1>1, <1>2, <1>3, <1>4, <1>5, OnItsWaySame, WholeSame

LEMMA AudioKept == ASSUME AudioInv, [Next]_vars PROVE OnItsWay' /\ Whole'
BY AudioFrame, AudioBegins, AudioEffect, AudioHost, AudioTask, AudioDeletes
DEF Next, Host, Task, TaskStep

-----------------------------------------------------------------------------
(* The calls that wait: one finish and one stop at most, and no more        *)
(* uploads than frames were sung.                                           *)
Waits(call) == \E i \in DOMAIN serial : serial[i] = call

One(call) == IF Waits(call) THEN 1 ELSE 0

Waiting ==
  /\ \A call \in {"finish", "stop"} :
       /\ \A i, j \in DOMAIN serial : serial[i] = call /\ serial[j] = call => i = j
       /\ task.kind = call => ~Waits(call)
  /\ Len(serial) <= spoken + One("finish") + One("stop")

LEMMA WaitingGrows ==
  ASSUME Typed, NEW call \in Calls, serial' = Append(serial, call)
  PROVE  /\ Len(serial') = Len(serial) + 1
         /\ \A c \in Calls : Waits(c)' <=> Waits(c) \/ c = call
         /\ \A c \in Calls :
              /\ \A i, j \in DOMAIN serial : serial[i] = c /\ serial[j] = c => i = j
              /\ c = call => ~Waits(c)
              => \A i, j \in DOMAIN serial' : serial'[i] = c /\ serial'[j] = c => i = j
<1> DEFINE n == Len(serial)
<1>1. /\ n \in Nat /\ Len(serial') = n + 1 /\ serial'[n + 1] = call
      /\ \A i \in 1..n : serial'[i] = serial[i]
  BY DEF Typed
<1>2. DOMAIN serial' = 1..(n + 1) /\ DOMAIN serial = 1..n
  BY DEF Typed
<1>3. \A c \in Calls : Waits(c)' <=> Waits(c) \/ c = call
  BY <1>1, <1>2 DEF Waits
<1>4. ASSUME NEW c \in Calls,
             \A i, j \in DOMAIN serial : serial[i] = c /\ serial[j] = c => i = j,
             c = call => ~Waits(c)
      PROVE  \A i, j \in DOMAIN serial' : serial'[i] = c /\ serial'[j] = c => i = j
  BY <1>1, <1>2, <1>4 DEF Waits
<1> QED BY <1>1, <1>3, <1>4

LEMMA WaitingShrinks ==
  ASSUME Typed, serial # <<>>, serial' = Tail(serial)
  PROVE  /\ Len(serial') = Len(serial) - 1 /\ Len(serial) \in Nat /\ Head(serial) \in Calls
         /\ \A c \in Calls : Waits(c) <=> Waits(c)' \/ c = Head(serial)
         /\ \A c \in Calls :
              (\A i, j \in DOMAIN serial : serial[i] = c /\ serial[j] = c => i = j)
              => /\ \A i, j \in DOMAIN serial' : serial'[i] = c /\ serial'[j] = c => i = j
                 /\ c = Head(serial) => ~Waits(c)'
<1> DEFINE n == Len(serial)
<1>1. /\ n \in Nat /\ n >= 1 /\ Len(serial') = n - 1 /\ Head(serial) = serial[1]
      /\ Head(serial) \in Calls /\ \A i \in 1..(n - 1) : serial'[i] = serial[i + 1]
  BY HeadTailProperties, EmptySeq DEF Typed
<1>2. DOMAIN serial' = 1..(n - 1) /\ DOMAIN serial = 1..n
  BY HeadTailProperties DEF Typed
<1>3. \A c \in Calls : Waits(c) <=> Waits(c)' \/ c = Head(serial)
  <2> SUFFICES ASSUME NEW c \in Calls PROVE Waits(c) <=> Waits(c)' \/ c = Head(serial)
    OBVIOUS
  <2>1. ASSUME NEW i \in 1..n, serial[i] = c PROVE Waits(c)' \/ c = Head(serial)
    <3>1. CASE i = 1
      BY <1>1, <2>1, <3>1
    <3>2. CASE i # 1
      <4>1. i - 1 \in 1..(n - 1) /\ (i - 1) + 1 = i
        BY <1>1, <3>2
      <4> QED BY <1>1, <1>2, <2>1, <4>1 DEF Waits
    <3> QED BY <3>1, <3>2
  <2>2. ASSUME NEW i \in 1..(n - 1), serial'[i] = c PROVE Waits(c)
    <3>1. i + 1 \in 1..n
      BY <1>1
    <3> QED BY <1>1, <1>2, <2>2, <3>1 DEF Waits
  <2>3. c = Head(serial) => Waits(c)
    <3>1. 1 \in 1..n
      BY <1>1
    <3> QED BY <1>1, <1>2, <3>1 DEF Waits
  <2> QED BY <1>2, <2>1, <2>2, <2>3 DEF Waits
<1>4. ASSUME NEW c \in Calls,
             \A i, j \in DOMAIN serial : serial[i] = c /\ serial[j] = c => i = j
      PROVE  /\ \A i, j \in DOMAIN serial' : serial'[i] = c /\ serial'[j] = c => i = j
             /\ c = Head(serial) => ~Waits(c)'
  <2>1. \A i \in 1..(n - 1) : i + 1 \in 1..n /\ i + 1 # 1
    BY <1>1
  <2>2. ASSUME NEW i \in 1..(n - 1), NEW j \in 1..(n - 1), serial'[i] = c, serial'[j] = c
        PROVE  i = j
    <3>1. i + 1 = j + 1
      BY <1>1, <1>2, <1>4, <2>1, <2>2
    <3> QED BY <3>1
  <2>3. c = Head(serial) => ~Waits(c)'
    <3>1. 1 \in 1..n
      BY <1>1
    <3> QED BY <1>1, <1>2, <1>4, <2>1, <3>1 DEF Waits
  <2> QED BY <1>2, <2>2, <2>3
<1> QED BY <1>1, <1>3, <1>4

LEMMA WaitingSame ==
  ASSUME Typed, Waiting, UNCHANGED <<serial, spoken>>, task' = Idle \/ task'.kind = task.kind
  PROVE  Waiting'
BY DEF Waiting, Waits, One, Idle

LEMMA WaitingBegins == ASSUME Typed, Waiting, Begin PROVE Waiting'
<1>1. Started /\ serial # <<>> /\ serial' = Tail(serial) /\ UNCHANGED spoken
  BY Starts DEF Begin
<1>2. task'.kind \in {"none", Head(serial)}
  BY <1>1 DEF Started, Idle, Uploading, Completing, At, BeginStop
<1>3. /\ Len(serial') = Len(serial) - 1 /\ Len(serial) \in Nat /\ Head(serial) \in Calls
      /\ \A c \in Calls : Waits(c) <=> Waits(c)' \/ c = Head(serial)
  BY <1>1, WaitingShrinks
<1>4. \A c \in {"finish", "stop"} :
        /\ \A i, j \in DOMAIN serial' : serial'[i] = c /\ serial'[j] = c => i = j
        /\ c = Head(serial) => ~Waits(c)'
  BY <1>1, WaitingShrinks DEF Waiting, Calls
<1>5. \A c \in {"finish", "stop"} : task'.kind = c => ~Waits(c)'
  BY <1>2, <1>4
<1>6. Len(serial') <= spoken' + One("finish")' + One("stop")'
  <2>1. \/ One("finish")' = One("finish") /\ One("stop")' = One("stop")
        \/ One("finish")' = One("finish") /\ One("stop")' + 1 = One("stop")
        \/ One("finish")' + 1 = One("finish") /\ One("stop")' = One("stop")
    BY <1>3, <1>4 DEF One, Calls
  <2>2. One("finish")' \in {0, 1} /\ One("stop")' \in {0, 1} /\ spoken \in Nat /\ spoken' = spoken
    BY <1>1, Bounds DEF One, Typed
  <2>3. One("finish") \in {0, 1} /\ One("stop") \in {0, 1}
    BY DEF One
  <2>4. Len(serial) <= spoken + One("finish") + One("stop")
    BY DEF Waiting
  <2> QED BY <1>3, <2>1, <2>2, <2>3, <2>4
<1> QED BY <1>4, <1>5, <1>6 DEF Waiting

LEMMA WaitingCalled ==
  ASSUME Typed, Waiting, NEW call \in Calls, serial' = Append(serial, call), task' = task,
         \/ call \in {"finish", "stop"} /\ ~Queued(call) /\ spoken' = spoken
         \/ call = "upload" /\ spoken' = spoken + 1
  PROVE  Waiting'
<1>1. Len(serial') = Len(serial) + 1 /\ \A c \in Calls : Waits(c)' <=> Waits(c) \/ c = call
  BY WaitingGrows
<1>2. call \in {"finish", "stop"} => ~Waits(call) /\ task.kind # call
  BY DEF Queued, Waits
<1>3. \A c \in {"finish", "stop"} :
        \A i, j \in DOMAIN serial' : serial'[i] = c /\ serial'[j] = c => i = j
  BY <1>2, WaitingGrows DEF Waiting, Calls
<1>4. \A c \in {"finish", "stop"} : task'.kind = c => ~Waits(c)'
  BY <1>1, <1>2 DEF Waiting, Calls
<1>5. Len(serial') <= spoken' + One("finish")' + One("stop")'
  <2>1. \/ spoken' = spoken + 1 /\ One("finish")' = One("finish") /\ One("stop")' = One("stop")
        \/ spoken' = spoken /\ One("finish")' = One("finish") /\ One("stop")' = One("stop") + 1
        \/ spoken' = spoken /\ One("finish")' = One("finish") + 1 /\ One("stop")' = One("stop")
    BY <1>1, <1>2 DEF One, Calls
  <2>2. /\ One("finish") \in {0, 1} /\ One("stop") \in {0, 1} /\ spoken \in Nat
        /\ Len(serial) \in Nat
    BY Bounds DEF One, Typed
  <2>3. Len(serial) <= spoken + One("finish") + One("stop")
    BY DEF Waiting
  <2> QED BY <1>1, <2>1, <2>2, <2>3
<1> QED BY <1>3, <1>4, <1>5 DEF Waiting

LEMMA WaitingKept ==
  ASSUME Typed, SavedOperation, Turn, Waiting, [Next]_vars  PROVE Waiting'
<1>1. ~Begin => task' = Idle \/ task'.kind = task.kind
  BY SameCall
<1>2. CASE Frame
  <2>1. /\ task' = task /\ spoken' = spoken + 1
        /\ serial' = serial \/ serial' = Append(serial, "upload")
    BY <1>2 DEF Frame
  <2>2. CASE serial' = serial
    <3>1. /\ spoken \in Nat /\ One("finish") \in Nat /\ One("stop") \in Nat
          /\ Len(serial) \in Nat
      BY Bounds DEF Typed, One
    <3>2. One("finish")' = One("finish") /\ One("stop")' = One("stop")
      BY <2>2 DEF One, Waits
    <3>3. Len(serial') <= spoken' + One("finish")' + One("stop")'
      BY <2>1, <2>2, <3>1, <3>2 DEF Waiting
    <3> QED BY <2>1, <2>2, <3>3 DEF Waiting, Waits
  <2> QED BY <2>1, <2>2, WaitingCalled DEF Calls
<1>3. CASE CallFinish
  BY <1>3, WaitingCalled DEF CallFinish, Calls
<1>4. CASE CallStop
  BY <1>4, WaitingCalled DEF CallStop, Calls
<1>5. CASE Begin
  BY <1>5, WaitingBegins
<1>6. CASE Crash
  <2>1. serial' = <<>> /\ task'.kind = "none" /\ spoken' = spoken
    BY <1>6 DEF Crash, Idle
  <2>2. Len(serial') = 0 /\ DOMAIN serial' = {} /\ One("finish")' = 0 /\ One("stop")' = 0
    BY <2>1 DEF One, Waits
  <2>3. Len(serial') <= spoken' + One("finish")' + One("stop")'
    BY <2>1, <2>2, Bounds DEF Typed
  <2> QED BY <2>1, <2>2, <2>3 DEF Waiting
<1>7. CASE SessionEnds \/ Reconcile \/ (\E op \in remote : TakesEffect(op)) \/ TaskStep
           \/ (\E d \in Deleters : Deletion(d)) \/ UNCHANGED vars
  <2>1. UNCHANGED <<serial, spoken>>
    <3>1. CASE SessionEnds \/ Reconcile \/ (\E op \in remote : TakesEffect(op)) \/ UNCHANGED vars
      BY <3>1 DEF SessionEnds, Reconcile, TakesEffect, vars, host
    <3>2. CASE TaskStep
      BY <3>2 DEF TaskStep, Claim, Reclaim, Cancel, Allow, Admitted, Note, GivesUp,
         SettleUnsure, Get, SettleStored, StopIssues, StopClaims, SettleAbsent, CallFails
    <3>3. CASE \E d \in Deleters : Deletion(d)
      BY <3>3 DEF Deletion, Prepare, DeleteObjects, DeleterStops, Confirm, host
    <3> QED BY <1>7, <3>1, <3>2, <3>3
  <2> QED BY <1>1, <1>5, <2>1, WaitingSame
<1> QED BY <1>2, <1>3, <1>4, <1>5, <1>6, <1>7 DEF Next, Host, Task, TaskStep

-----------------------------------------------------------------------------
(* The inductive invariant of the archive. *)
ArchiveInv == /\ Typed /\ SavedOperation /\ Turn /\ Asked /\ Locator /\ Ledger
              /\ OnItsWay /\ Whole /\ Waiting

LEMMA ArchiveInit == Init => ArchiveInv
<1> SUFFICES ASSUME Init PROVE ArchiveInv  OBVIOUS
<1>1. Typed /\ SavedOperation
  BY TypedInit, InitSaved
<1>2. task.kind = "none" /\ task.pc = "idle" /\ task.goal = "none" /\ task.taken = <<>>
      /\ task.noted = FALSE
  BY DEF Init, Idle
<1>3. /\ remote = {} /\ serial = <<>> /\ chunks = <<>> /\ journal.parts = <<>>
      /\ ~journal.claimed /\ ~journal.located /\ ~journal.completed /\ ~journal.result
      /\ multipart = "none" /\ object = NoAudio /\ recording = "pending" /\ command = "none"
      /\ upload.io = "registered" /\ upload.disposition = "none" /\ spoken = 0
  BY DEF Init
<1>4. Turn
  BY <1>2 DEF Turn, UploadSteps, FinishSteps, StopSteps, BucketSteps
<1>5. Asked
  BY <1>2, <1>3 DEF Asked, Init
<1>6. Locator
  BY <1>2, <1>3 DEF Locator
<1>7. Ledger
  BY <1>2, <1>3 DEF Ledger, ClosedIsOver, PartsAreLocated, Writes
<1>8. OnItsWay /\ Whole
  BY <1>2, <1>3 DEF OnItsWay, Whole, Upto, BucketSteps
<1>9. Waiting
  <2>1. Len(serial) = 0 /\ DOMAIN serial = {} /\ One("finish") = 0 /\ One("stop") = 0
    BY <1>3 DEF One, Waits
  <2>2. Len(serial) <= spoken + One("finish") + One("stop")
    BY <1>3, <2>1
  <2>3. \A call \in {"finish", "stop"} : task.kind # call
    BY <1>2
  <2> QED BY <2>1, <2>2, <2>3 DEF Waiting
<1> QED BY <1>1, <1>4, <1>5, <1>6, <1>7, <1>8, <1>9 DEF ArchiveInv

LEMMA ArchiveNext == ArchiveInv /\ [Next]_vars => ArchiveInv'
BY NextSaved, TypedKept, TurnKept, AskedKept, LocatorKept, LedgerKept, AudioKept, WaitingKept
DEF ArchiveInv, LocatorInv, LedgerInv, AudioInv

LEMMA ArchiveHolds == Spec => []ArchiveInv
BY ArchiveInit, ArchiveNext, PTL DEF Spec

LEMMA ShortAudio == \A audio \in Seq(Frames) : Len(audio) <= MaxFrames => audio \in Audio
<1> SUFFICES ASSUME NEW audio \in Seq(Frames), Len(audio) <= MaxFrames PROVE audio \in Audio
  OBVIOUS
<1>1. audio \in [1..Len(audio) -> Frames] /\ Len(audio) \in 0..MaxFrames
  BY Bounds
<1> QED BY <1>1 DEF Audio

LEMMA TypesFollow == ArchiveInv => TypeOK
<1> SUFFICES ASSUME ArchiveInv PROVE TypeOK  OBVIOUS
<1> USE DEF ArchiveInv
<1>1. chunks \in Audio /\ journal.parts \in Audio /\ task.taken \in Audio
  BY AudioTypes, ShortAudio DEF OnItsWay
<1>2. journal \in [claimed : BOOLEAN, fenced : BOOLEAN, located : BOOLEAN, parts : Audio,
                   inFlight : Nat, completed : BOOLEAN, result : BOOLEAN]
  BY <1>1 DEF Typed, Journals
<1>3. Len(serial) <= MaxFrames + 2
  <2>1. Len(serial) \in Nat /\ spoken \in Nat /\ spoken <= MaxFrames /\ MaxFrames \in Nat
    BY AudioTypes DEF Typed
  <2>2. One("finish") \in {0, 1} /\ One("stop") \in {0, 1}
    BY DEF One
  <2> QED BY <2>1, <2>2 DEF Waiting
<1>4. task \in {Idle} \cup [kind : Calls, pc : Steps, goal : Kinds, noted : BOOLEAN,
                            taken : Audio]
  BY <1>1 DEF Typed, Turns
<1>5. remote \subseteq [kind : Kinds, nonce : Nat, audio : Audio]
  <2> SUFFICES ASSUME NEW op \in remote PROVE op \in [kind : Kinds, nonce : Nat, audio : Audio]
    OBVIOUS
  <2>1. op \in Operations /\ op.audio \in Audio
    BY AudioTypes, ShortAudio DEF Typed, OnItsWay
  <2> QED BY <2>1 DEF Operations
<1>6. object \in Audio \cup {NoAudio}
  BY ShortAudio DEF Typed, Whole
<1>7. /\ upload \in [io : {"registered", "writing", "unknown", "closed"}, located : BOOLEAN,
                     disposition : {"none", "stored", "absent"}, cleanup : BOOLEAN]
      /\ batches \in Seq([named : BOOLEAN, confirmed : BOOLEAN])
      /\ deleter \in [Deleters -> [pc : {"idle", "delete", "confirm"}, batch : 0..MaxBatches]]
  BY DEF Typed, Uploads, Batches, Requests
<1> QED BY <1>1, <1>2, <1>3, <1>4, <1>5, <1>6, <1>7 DEF Typed, TypeOK

(* The variables keep their types: no audio is longer than what was sung,   *)
(* also where parts are put together, and the queue of calls stays bounded. *)
THEOREM TypeCorrect == Spec => []TypeOK
BY ArchiveHolds, TypesFollow, PTL

(* A closed upload is over, whatever the stop, the finish, the retries and  *)
(* the deletion did before it was closed: Postgres closes it only when the  *)
(* journal has nothing in flight (settle_learner_audio_upload) or never had *)
(* (claim_learner_audio_upload and the fence of a new command).             *)
THEOREM ClosedUploadsAreOver == Spec => []ClosedIsOver
BY ArchiveHolds, PTL DEF ArchiveInv, Ledger

(* An upload the ledger calls absent, and a recording it calls failed, have *)
(* no audio in the bucket: cancel, stopForDeletion and reconcileRecording.  *)
THEOREM AbsentAudioIsAbsent == Spec => []AbsentIsAbsent
<1>1. ArchiveInv => AbsentIsAbsent
  BY DEF ArchiveInv, Ledger, AbsentIsAbsent
<1> QED BY <1>1, ArchiveHolds, PTL

(* Parts and completions go only to an upload whose locator is noted.       *)
THEOREM PartsGoWhereTheyAreFound == Spec => []PartsAreLocated
BY ArchiveHolds, PTL DEF ArchiveInv, Ledger

(* What is published is the whole recording, in order: no frame is lost,    *)
(* doubled or reordered between the frames, the chunks, the parts and the   *)
(* object, by any interleaving of uploads, retries and losses of memory.    *)
THEOREM PublishedAudioIsWhole == Spec => []PublishedIsWhole
<1>1. ASSUME ArchiveInv, recording = "stored", command = "none"
      PROVE  object = [n \in 1..spoken |-> n]
  <2>1. object = journal.parts /\ chunks = <<>> /\ Upto(0, journal.parts)
        /\ Len(journal.parts) + Len(chunks) = spoken
    BY <1>1 DEF ArchiveInv, Ledger, Whole
  <2>2. journal.parts \in Seq(Frames) /\ Len(journal.parts) \in Nat /\ Len(<<>>) = 0
    BY <1>1, AudioTypes DEF ArchiveInv
  <2>3. Len(journal.parts) = spoken
    BY <2>1, <2>2
  <2>4. journal.parts = [n \in 1..spoken |-> journal.parts[n]]
    BY <2>2, <2>3
  <2>5. \A n \in 1..spoken : journal.parts[n] = n
    BY <2>1, <2>3 DEF Upto
  <2> QED BY <2>1, <2>4, <2>5
<1> QED BY <1>1, ArchiveHolds, PTL DEF PublishedIsWhole

(* A completed deletion is not undone: a completed command finds the upload *)
(* closed, and a closed upload has no operation left that stores audio.     *)
THEOREM DeletionIsFinal == Spec => DeletedStaysDeleted
<1>1. ASSUME ArchiveInv, [Next]_vars, command = "completed", object = NoAudio
      PROVE  object' = NoAudio
  <2>1. \A op \in remote : op.kind \notin Writes
    BY <1>1 DEF ArchiveInv, Ledger, ClosedIsOver
  <2>2. ASSUME NEW op \in remote, TakesEffect(op) PROVE object' = NoAudio
    BY <1>1, <2>1, <2>2 DEF TakesEffect, Effect, Writes
  <2>3. ASSUME NEW d \in Deleters, Deletion(d) PROVE object' = NoAudio
    BY <1>1, <2>3 DEF Deletion, Prepare, DeleteObjects, DeleterStops, Confirm, Emptied, bucket
  <2>4. CASE Frame \/ SessionEnds \/ CallFinish \/ CallStop \/ Begin \/ Reconcile \/ Crash
             \/ UNCHANGED vars
    BY <1>1, <2>4 DEF Frame, SessionEnds, CallFinish, CallStop, Begin, Reconcile, Crash,
       vars, bucket
  <2>5. CASE TaskStep
    BY <1>1, <2>5 DEF TaskStep, Claim, Reclaim, Cancel, Allow, Admitted, Note, GivesUp,
       SettleUnsure, Get, SettleStored, StopIssues, StopClaims, SettleAbsent, CallFails, bucket
  <2> QED BY <1>1, <2>2, <2>3, <2>4, <2>5 DEF Next, Host, Task, TaskStep
<1>2. ArchiveInv /\ [Next]_vars =>
        [command = "completed" /\ object = NoAudio => object' = NoAudio]_vars
  BY <1>1
<1> QED BY <1>2, ArchiveHolds, PTL DEF DeletedStaysDeleted, Spec

=============================================================================
