--------------------------- MODULE CapturedArchive ---------------------------
(***************************************************************************)
(* The audio of one karaoke session on its way to the bucket, and its      *)
(* deletion on behalf of the account.                                      *)
(*                                                                         *)
(* The session's Durable Object keeps the frames and the journal of a      *)
(* multipart upload in SQLite and runs the upload, its finish and its stop *)
(* one after the other (captured-karaoke-multipart.ts and                  *)
(* captured-karaoke-sqlite-journal.ts).  Postgres keeps the ledger of the  *)
(* upload and the deletion command of the account (learner-audio-          *)
(* producer-store.ts; migrations 0253, 0262, 0264, 0265).  A deletion      *)
(* request prepares a batch there, deletes the objects, confirms the batch *)
(* (owner-audio-deletion-io.ts).                                           *)
(*                                                                         *)
(* A call of Postgres is one step: it is executed and answered, executed   *)
(* and its answer lost, or not executed.  A call of the bucket is issued,  *)
(* and takes effect at any later time, also after its caller gave up or    *)
(* lost its memory, or never.  The producer fence of an operator's reset   *)
(* (assertProducerOpen) stays open.                                        *)
(***************************************************************************)
EXTENDS Naturals, Sequences, FiniteSets

CONSTANTS
  MaxFrames,    \* bound: frames the learner sings
  PartSize,     \* R2_PART_BYTES, in frames
  Deleters,     \* concurrent requests to delete the account's audio
  MaxBatches,   \* bound: batches of the deletion command
  StopIsCalled, \* is stopCapturedAudioForDeletion ever called?
  OtherAudio,   \* has the account other recordings, of other sessions?
  MaxFailures   \* bound: lost answers, failed calls, losses of memory

ASSUME ArchiveAssumption ==
  /\ {MaxFrames, MaxFailures} \subseteq Nat
  /\ {PartSize, MaxBatches} \subseteq Nat \ {0}
  /\ {StopIsCalled, OtherAudio} \subseteq BOOLEAN

Writes == {"create", "part", "complete"}
Kinds  == Writes \cup {"abort", "delete"}
Frames == 1..MaxFrames

(* No operation in flight; audio that is not there *)
None   == 0
NoAudio == <<0>>

VARIABLES
  spoken,    \* frames the learner has sung
  ended,     \* has the session its outbox row?
  journal,   \* the journal of the archive, in SQLite
  chunks,    \* frames not yet in a part, in SQLite
  serial,    \* calls that wait for their turn
  task,      \* the call whose turn it is
  answer,    \* result of finish on its way to reconcileRecording
  settled,   \* is the recording axis of the outbox stored?
  remote,    \* operations issued to the bucket that have not taken effect
  multipart, \* the multipart upload in the bucket
  object,    \* the object in the bucket, or NoAudio
  upload,    \* learner_audio_upload_attempts
  recording, \* state of the karaoke_recordings row
  command,   \* the deletion command of the account
  batches,   \* its batches
  tombstone, \* is the object in learner_audio_deleted_objects?
  deleter,   \* what the deletion requests do
  failures

host   == <<spoken, ended, journal, chunks, serial, task, answer, settled>>
bucket == <<remote, multipart, object>>
ledger == <<upload, recording, command, batches, tombstone>>
vars   == <<host, bucket, ledger, deleter, failures>>

Audio == UNION {[1..n -> Frames] : n \in 0..MaxFrames}
Calls == {"upload", "finish", "stop"}
Steps == {"claim", "reclaim", "cancel", "allow", "admitted", "note", "remote",
          "unsure", "get", "settle", "delete", "deleted", "absent"}
Idle  == [kind |-> "none", pc |-> "idle", goal |-> "none", noted |-> FALSE, taken |-> <<>>]

TypeOK ==
  /\ spoken \in 0..MaxFrames /\ {ended, settled, tombstone} \subseteq BOOLEAN
  /\ journal \in [claimed : BOOLEAN, fenced : BOOLEAN, located : BOOLEAN, parts : Audio,
                  inFlight : Nat, completed : BOOLEAN, result : BOOLEAN]
  /\ chunks \in Audio
  /\ serial \in Seq(Calls) /\ Len(serial) <= MaxFrames + 2
  /\ task \in {Idle} \cup [kind : Calls, pc : Steps, goal : Kinds, noted : BOOLEAN,
                           taken : Audio]
  /\ answer \in {"none", "stored", "failed"}
  /\ remote \subseteq [kind : Kinds, nonce : Nat, audio : Audio]
  /\ multipart \in {"none", "open", "gone"} /\ object \in Audio \cup {NoAudio}
  /\ upload \in [io : {"registered", "writing", "unknown", "closed"}, located : BOOLEAN,
                 disposition : {"none", "stored", "absent"}, cleanup : BOOLEAN]
  /\ recording \in {"pending", "stored", "failed", "deleted"}
  /\ command \in {"none", "pending", "completed"}
  /\ batches \in Seq([named : BOOLEAN, confirmed : BOOLEAN]) /\ Len(batches) <= MaxBatches
  /\ deleter \in [Deleters -> [pc : {"idle", "delete", "confirm"}, batch : 0..MaxBatches]]
  /\ failures \in 0..MaxFailures

Init ==
  /\ spoken = 0 /\ ended = FALSE
  /\ journal = [claimed |-> FALSE, fenced |-> FALSE, located |-> FALSE, parts |-> <<>>,
                inFlight |-> None, completed |-> FALSE, result |-> FALSE]
  /\ chunks = <<>> /\ serial = <<>> /\ task = Idle /\ answer = "none" /\ settled = FALSE
  /\ remote = {} /\ multipart = "none" /\ object = NoAudio
  /\ upload = [io |-> "registered", located |-> FALSE, disposition |-> "none",
               cleanup |-> FALSE]
  /\ recording = "pending" /\ command = "none" /\ batches = <<>> /\ tombstone = FALSE
  /\ deleter = [d \in Deleters |-> [pc |-> "idle", batch |-> 0]]
  /\ failures = 0

-----------------------------------------------------------------------------
(* The session's Durable Object *)
Fails == failures < MaxFailures /\ failures' = failures + 1

(* archiveFrame: no frame is taken once the session ended or the archive    *)
(* has its result.                                                          *)
Frame ==
  /\ ~ended /\ spoken < MaxFrames /\ ~journal.result
  /\ spoken' = spoken + 1
  /\ chunks' = Append(chunks, spoken')
  /\ serial' = IF Len(chunks') >= PartSize THEN Append(serial, "upload") ELSE serial
  /\ UNCHANGED <<ended, journal, task, answer, settled, bucket, ledger, deleter, failures>>

SessionEnds ==
  /\ ~ended /\ ended' = TRUE
  /\ UNCHANGED <<spoken, journal, chunks, serial, task, answer, settled, bucket, ledger,
                 deleter, failures>>

Queued(call) == task.kind = call \/ \E i \in DOMAIN serial : serial[i] = call

(* finishArchive, called by one flush of the outbox at a time *)
CallFinish ==
  /\ ended /\ ~settled /\ answer = "none" /\ ~Queued("finish")
  /\ serial' = Append(serial, "finish")
  /\ UNCHANGED <<spoken, ended, journal, chunks, task, answer, settled, bucket, ledger,
                 deleter, failures>>

(* stopForDeletion up to its turn: the fence is saved at once. *)
CallStop ==
  /\ StopIsCalled /\ command = "pending" /\ ~Queued("stop")
  /\ journal' = [journal EXCEPT !.fenced = TRUE]
  /\ serial' = Append(serial, "stop")
  /\ UNCHANGED <<spoken, ended, chunks, task, answer, settled, bucket, ledger, deleter,
                 failures>>

(* Mutant: the pending operation does not hold back the next one. *)
Free_Always == TRUE

Free == journal.inFlight = None

At(call, pc) == [kind |-> call, pc |-> pc, goal |-> "delete", noted |-> FALSE, taken |-> <<>>]

(* uploadPendingActive with the chunks it found, up to its first await *)
Uploading(call) ==
  IF ~journal.claimed /\ ~Free THEN Idle
  ELSE [kind |-> call, pc |-> IF journal.claimed THEN "allow" ELSE "claim",
        goal |-> IF journal.located THEN "part" ELSE "create",
        noted |-> FALSE, taken |-> chunks]

Completing == [kind |-> "finish", pc |-> "allow", goal |-> "complete", noted |-> FALSE,
               taken |-> <<>>]

BeginUpload == IF Len(chunks) < PartSize THEN Idle ELSE Uploading("upload")

BeginFinish ==
  CASE ~Free                     -> Idle
    [] Free /\ journal.result    -> At("finish", "reclaim")
    [] Free /\ journal.completed /\ ~journal.result -> At("finish", "get")
    [] Free /\ ~journal.completed /\ chunks # <<>>  -> Uploading("finish")
    [] OTHER -> IF journal.claimed \/ journal.located THEN Completing
                ELSE At("finish", "cancel")

BeginStop ==
  IF ~Free THEN Idle
  ELSE [At("stop", "delete") EXCEPT
          !.goal = IF journal.located /\ ~journal.completed THEN "abort" ELSE "delete"]

(* enqueue: the next call takes its turn. *)
Begin ==
  /\ task = Idle /\ serial # <<>>
  /\ serial' = Tail(serial)
  /\ task' = CASE Head(serial) = "upload" -> BeginUpload
               [] Head(serial) = "finish" -> BeginFinish
               [] Head(serial) = "stop"   -> BeginStop
  /\ UNCHANGED <<spoken, ended, journal, chunks, answer, settled, bucket, ledger, deleter,
                 failures>>

(* Mutant: the pending operation is forgotten with the object's memory. *)
Crash_Forgets ==
  /\ task # Idle \/ serial # <<>> \/ answer # "none"
  /\ Fails
  /\ journal' = [journal EXCEPT !.inFlight = None]
  /\ task' = Idle /\ serial' = <<>> /\ answer' \in {answer, "none"}
  /\ UNCHANGED <<spoken, ended, chunks, settled, bucket, ledger, deleter>>

(* The object loses its memory; a transaction it sent may still commit. *)
Crash ==
  /\ task # Idle \/ serial # <<>> \/ answer # "none"
  /\ Fails
  /\ task' = Idle /\ serial' = <<>> /\ answer' \in {answer, "none"}
  /\ UNCHANGED <<spoken, ended, journal, chunks, settled, bucket, ledger, deleter>>

-----------------------------------------------------------------------------
(* The ledger of the upload, in Postgres *)
MayContinue == upload.io = "writing" /\ command = "none"
MayPublish  == /\ upload.io = "closed" /\ upload.disposition = "stored"
               /\ ~upload.cleanup /\ command = "none"

Closed(disposition, cleanup) ==
  [upload EXCEPT !.io = "closed", !.disposition = disposition, !.cleanup = cleanup]

(* claim_learner_audio_upload *)
Claimed ==
  IF upload.io # "registered" THEN upload
  ELSE IF command = "none" THEN [upload EXCEPT !.io = "writing"]
  ELSE Closed("absent", ~tombstone)

(* Mutant: a call that gave up settles the upload as over. *)
Unsure_Over == IF upload.io = "closed" THEN upload ELSE Closed("absent", command # "none")

(* settle_learner_audio_upload, when the upload may have I/O to come *)
Unsure ==
  IF upload.io = "closed" THEN upload
  ELSE [upload EXCEPT !.io = "unknown", !.cleanup = @ \/ command # "none"]

(* A step of the task, its turn with Postgres executed: it goes on with     *)
(* the step next, or its answer is lost and the call throws.                *)
Answered(next) ==
  \/ task' = next /\ UNCHANGED failures
  \/ task' = Idle /\ Fails

Goes(pc) == [task EXCEPT !.pc = pc]

Claim ==
  /\ task.pc = "claim"
  /\ upload' = Claimed
  /\ \/ /\ upload.io = "registered" /\ command = "none"
        /\ journal' = [journal EXCEPT !.claimed = TRUE]
        /\ task' = Goes("allow") /\ UNCHANGED failures
     \/ /\ upload.io # "registered" \/ command # "none"
        /\ task' = Idle /\ UNCHANGED <<journal, failures>>
     \/ task' = Idle /\ Fails /\ UNCHANGED journal
  /\ UNCHANGED <<spoken, ended, chunks, serial, answer, settled, bucket, recording, command,
                 batches, tombstone, deleter>>

(* finish with the result of an earlier finish *)
Reclaim ==
  /\ task.pc = "reclaim"
  /\ upload' = Claimed
  /\ \/ /\ MayPublish /\ answer' = "stored" /\ task' = Idle /\ UNCHANGED failures
     \/ /\ ~MayPublish /\ UNCHANGED answer
        /\ Answered(IF upload.io = "closed" THEN Idle ELSE Goes("get"))
  /\ UNCHANGED <<spoken, ended, journal, chunks, serial, settled, bucket, recording, command,
                 batches, tombstone, deleter>>

(* finish of a session without audio *)
Cancel ==
  /\ task.pc = "cancel"
  /\ upload' = IF upload.io = "registered" THEN Closed("absent", FALSE) ELSE upload
  /\ task' = Idle
  /\ \/ UNCHANGED failures /\ answer' = IF upload.io = "registered" THEN "failed" ELSE answer
     \/ Fails /\ UNCHANGED answer
  /\ UNCHANGED <<spoken, ended, journal, chunks, serial, settled, bucket, recording, command,
                 batches, tombstone, deleter>>

(* allowed, up to the answer of mayContinue *)
Allow ==
  /\ task.pc = "allow"
  /\ task' = IF MayContinue THEN Goes("admitted") ELSE Idle
  /\ UNCHANGED <<spoken, ended, journal, chunks, serial, answer, settled, bucket, ledger,
                 deleter, failures>>

(* noteMultipartId; uploadPendingActive calls it twice after a create. *)
Note ==
  /\ task.pc = "note"
  /\ IF upload.io \in {"writing", "unknown"}
     THEN /\ upload' = [upload EXCEPT !.located = TRUE]
          /\ Answered([Goes("allow") EXCEPT !.noted = TRUE])
     ELSE task' = Idle /\ UNCHANGED <<upload, failures>>
  /\ UNCHANGED <<spoken, ended, journal, chunks, serial, answer, settled, bucket, recording,
                 command, batches, tombstone, deleter>>

(* The catch of invoke: the operation may still take effect. *)
SettleUnsure ==
  /\ task.pc = "unsure"
  /\ upload' = Unsure
  /\ task' = Idle
  /\ UNCHANGED <<spoken, ended, journal, chunks, serial, answer, settled, bucket, recording,
                 command, batches, tombstone, deleter, failures>>

(* The end of finish: the object was read and its result is saved. *)
SettleStored ==
  /\ task.pc = "settle"
  /\ IF upload.io = "closed" THEN UNCHANGED <<upload, tombstone>>
     ELSE /\ upload' = Closed("stored", upload.cleanup \/ command # "none")
          /\ tombstone' = (tombstone /\ command = "none")
  /\ LET published == IF upload.io = "closed" THEN MayPublish ELSE command = "none"
     IN \/ answer' = (IF published THEN "stored" ELSE answer) /\ UNCHANGED failures
        \/ UNCHANGED answer /\ Fails
  /\ task' = Idle
  /\ UNCHANGED <<spoken, ended, journal, chunks, serial, settled, bucket, recording, command,
                 batches, deleter>>

(* stopForDeletion after the delete *)
StopClaims ==
  /\ task.pc = "deleted"
  /\ upload' = Claimed
  /\ IF upload.io \in {"writing", "unknown"}
     THEN Answered(Goes("absent")) /\ UNCHANGED chunks
     ELSE Answered(Idle) /\ chunks' = IF failures' = failures THEN <<>> ELSE chunks
  /\ UNCHANGED <<spoken, ended, journal, serial, answer, settled, bucket, recording, command,
                 batches, tombstone, deleter>>

SettleAbsent ==
  /\ task.pc = "absent"
  /\ upload' = IF upload.io = "closed" THEN upload ELSE Closed("absent", ~tombstone)
  /\ Answered(Idle)
  /\ chunks' = IF failures' = failures /\ upload'.disposition = "absent" THEN <<>> ELSE chunks
  /\ UNCHANGED <<spoken, ended, journal, serial, answer, settled, bucket, recording, command,
                 batches, tombstone, deleter>>

(* A call of Postgres is not executed, or the bucket cannot be read. *)
CallFails ==
  /\ task.pc \notin {"idle", "admitted", "delete", "remote"}
  /\ Fails /\ task' = Idle
  /\ UNCHANGED <<spoken, ended, journal, chunks, serial, answer, settled, bucket, ledger,
                 deleter>>

-----------------------------------------------------------------------------
(* Operations of the bucket *)
Nonce == CHOOSE n \in 1..(Cardinality(remote) + 1) : \A op \in remote : op.nonce # n

(* invoke, up to its await *)
Issue ==
  /\ remote' = remote \cup
       {[kind |-> task.goal, nonce |-> Nonce,
         audio |-> CASE task.goal = "part" -> task.taken
                     [] task.goal = "complete" -> journal.parts
                     [] OTHER -> <<>>]}
  /\ journal' = [journal EXCEPT !.inFlight = Nonce]
  /\ task' = Goes("remote")

(* Mutant: a part or the completion goes out before its locator is noted. *)
Admitted_Unnoted ==
  /\ task.pc = "admitted"
  /\ \/ /\ journal.fenced \/ ~Free \/ (task.goal = "complete" /\ journal.parts = <<>>)
        /\ task' = Idle /\ UNCHANGED <<journal, remote>>
     \/ /\ ~journal.fenced /\ Free /\ (task.goal = "complete" => journal.parts # <<>>)
        /\ Issue
  /\ UNCHANGED <<spoken, ended, chunks, serial, answer, settled, multipart, object, ledger,
                 deleter, failures>>

(* allowed after its answer, and what follows up to the next await *)
Admitted ==
  /\ task.pc = "admitted"
  /\ \/ /\ journal.fenced \/ ~Free \/ (task.goal = "complete" /\ journal.parts = <<>>)
        /\ task' = Idle /\ UNCHANGED <<journal, remote>>
     \/ /\ ~journal.fenced /\ Free /\ (task.goal = "complete" => journal.parts # <<>>)
        /\ IF task.goal = "create" \/ task.noted THEN Issue
           ELSE task' = Goes("note") /\ UNCHANGED <<journal, remote>>
  /\ UNCHANGED <<spoken, ended, chunks, serial, answer, settled, multipart, object, ledger,
                 deleter, failures>>

(* stopForDeletion issues its abort or its delete. *)
StopIssues ==
  /\ task.pc = "delete"
  /\ IF Free THEN Issue ELSE task' = Idle /\ UNCHANGED <<journal, remote>>
  /\ UNCHANGED <<spoken, ended, chunks, serial, answer, settled, multipart, object, ledger,
                 deleter, failures>>

Effect(op) ==
  /\ multipart' = CASE op.kind = "create" -> "open"
                    [] op.kind \in {"complete", "abort"} -> "gone"
                    [] OTHER -> multipart
  /\ object' = CASE op.kind = "complete" /\ multipart = "open" -> op.audio
                 [] op.kind = "delete" -> NoAudio
                 [] OTHER -> object

(* Mutant: the uploaded chunks stay. *)
Later_All(audio) == chunks

(* Mutant: the chunks that came during the upload go with it. *)
Later_Nothing(audio) == <<>>

Later(audio) == SubSeq(chunks, Len(audio) + 1, Len(chunks))

(* invoke after its await, and what follows up to the next one; removing    *)
(* the uploaded chunks leaves those that came meanwhile.                    *)
Succeeds(op) ==
  LET saved == [journal EXCEPT !.inFlight = None] IN
  CASE op.kind = "create" ->
         /\ journal' = [saved EXCEPT !.located = TRUE]
         /\ task' = [Goes("note") EXCEPT !.goal = "part"] /\ UNCHANGED chunks
    [] op.kind = "part" ->
         /\ journal' = [saved EXCEPT !.parts = @ \o op.audio]
         /\ chunks' = Later(op.audio)
         /\ task' = IF task.kind = "upload" THEN Idle ELSE Completing
    [] op.kind = "complete" ->
         /\ journal' = [saved EXCEPT !.completed = TRUE]
         /\ task' = At("finish", "get") /\ UNCHANGED chunks
    [] op.kind = "abort" ->
         journal' = saved /\ task' = At("stop", "delete") /\ UNCHANGED chunks
    [] OTHER ->  \* "delete"
         journal' = saved /\ task' = At("stop", "deleted") /\ UNCHANGED chunks

(* An operation takes effect; invoke learns it if it still waits for it. *)
TakesEffect(op) ==
  /\ op \in remote
  /\ remote' = remote \ {op}
  /\ Effect(op)
  /\ IF task.pc = "remote" /\ journal.inFlight = op.nonce THEN Succeeds(op)
     ELSE UNCHANGED <<journal, chunks, task>>
  /\ UNCHANGED <<spoken, ended, serial, answer, settled, ledger, deleter, failures>>

GivesUp ==
  /\ task.pc = "remote" /\ Fails
  /\ task' = Goes("unsure")
  /\ UNCHANGED <<spoken, ended, journal, chunks, serial, answer, settled, bucket, ledger,
                 deleter>>

(* finish reads the object and saves its result. *)
Get ==
  /\ task.pc = "get"
  /\ IF object = NoAudio THEN task' = Idle /\ UNCHANGED journal
     ELSE task' = Goes("settle") /\ journal' = [journal EXCEPT !.result = TRUE]
  /\ UNCHANGED <<spoken, ended, chunks, serial, answer, settled, bucket, ledger, deleter,
                 failures>>

-----------------------------------------------------------------------------
(* reconcileRecording with the result of finish *)
Reconcile ==
  /\ answer # "none" /\ answer' = "none"
  /\ IF (answer = "stored" /\ MayPublish)
          \/ (answer = "failed" /\ upload.io = "closed" /\ upload.disposition = "absent")
     THEN /\ recording' = IF recording = "pending" THEN answer ELSE recording
          /\ \/ settled' = TRUE /\ UNCHANGED failures
             \/ UNCHANGED settled /\ Fails
     ELSE UNCHANGED <<recording, settled, failures>>
  /\ UNCHANGED <<spoken, ended, journal, chunks, serial, task, bucket, upload, command, batches,
                 tombstone, deleter>>

-----------------------------------------------------------------------------
(* Deletion of the account's audio: makeAccountLearnerAudioDeletionIo *)
Unconfirmed == {b \in DOMAIN batches : ~batches[b].confirmed}

(* Mutant: it closes an upload that is writing as well. *)
Fenced_Writing ==
  [upload EXCEPT !.cleanup = @ \/ upload.io # "closed" \/ ~tombstone, !.io = "closed",
                 !.disposition = IF @ = "none" THEN "absent" ELSE @]

(* The fence of a new command closes an upload that was never claimed. *)
Fenced ==
  LET doomed == [upload EXCEPT !.cleanup = @ \/ upload.io # "closed" \/ ~tombstone] IN
  IF upload.io = "registered"
  THEN [doomed EXCEPT !.io = "closed", !.disposition = "absent"]
  ELSE doomed

(* prepare: the unconfirmed batch, or a new one with the objects that are   *)
(* not known to be deleted.  One command of the account is followed.        *)
Prepare(d) ==
  /\ deleter[d].pc = "idle" /\ command # "completed"
  /\ command' = "pending"
  /\ upload' = IF command = "none" THEN Fenced ELSE upload
  /\ \/ /\ Unconfirmed = {} /\ Len(batches) < MaxBatches
        /\ batches' = Append(batches, [named |-> ~tombstone, confirmed |-> FALSE])
        /\ deleter' = [deleter EXCEPT ![d] = [pc |-> "delete", batch |-> Len(batches')]]
     \/ \E b \in Unconfirmed :
          /\ deleter' = [deleter EXCEPT ![d] = [pc |-> "delete", batch |-> b]]
          /\ UNCHANGED batches
  /\ UNCHANGED <<host, bucket, recording, tombstone, failures>>

Emptied(d) == IF batches[deleter[d].batch].named THEN NoAudio ELSE object

DeleteObjects(d) ==
  /\ deleter[d].pc = "delete"
  /\ object' = Emptied(d)
  /\ deleter' = [deleter EXCEPT ![d].pc = "confirm"]
  /\ UNCHANGED <<host, remote, multipart, ledger, failures>>

(* The delete fails, though it may have been executed, or the request ends. *)
DeleterStops(d) ==
  /\ deleter[d].pc # "idle"
  /\ deleter' = [deleter EXCEPT ![d] = [pc |-> "idle", batch |-> 0]]
  /\ object' \in IF deleter[d].pc = "delete" THEN {object, Emptied(d)} ELSE {object}
  /\ UNCHANGED <<host, remote, multipart, ledger, failures>>

(* confirm: a batch is confirmed once.  A confirmation that neither         *)
(* completes the command nor deletes a recording is rolled back (GA001);    *)
(* other audio of the account may hold the command open, or be deleted by   *)
(* this confirmation.                                                       *)
Confirm(d) ==
  /\ deleter[d].pc = "confirm"
  /\ deleter' = [deleter EXCEPT ![d] = [pc |-> "idle", batch |-> 0]]
  /\ LET b      == deleter[d].batch
         absent == ~batches[b].confirmed /\ batches[b].named
         clean  == upload.io = "closed" /\ (absent \/ ~upload.cleanup)
         gone   == clean /\ (absent \/ tombstone)
     IN \/ /\ command = "pending"
           /\ (gone /\ recording # "deleted") \/ (gone /\ ~OtherAudio) \/ OtherAudio
           /\ batches' = [batches EXCEPT ![b].confirmed = TRUE]
           /\ tombstone' = (absent \/ tombstone)
           /\ upload' = [upload EXCEPT !.cleanup = @ /\ ~clean]
           /\ recording' = IF gone THEN "deleted" ELSE recording
           /\ command' \in IF ~gone THEN {"pending"} ELSE IF OtherAudio THEN {"pending", "completed"}
                           ELSE {"completed"}
        \/ /\ command = "completed" \/ ~gone \/ (OtherAudio /\ recording = "deleted")
           /\ UNCHANGED ledger
  /\ UNCHANGED <<host, bucket, failures>>

-----------------------------------------------------------------------------
Task == \/ Begin \/ Claim \/ Reclaim \/ Cancel \/ Allow \/ Admitted \/ Note \/ GivesUp
        \/ SettleUnsure \/ Get \/ SettleStored \/ StopIssues \/ StopClaims \/ SettleAbsent
        \/ CallFails

Host == Frame \/ SessionEnds \/ CallFinish \/ CallStop \/ Task \/ Reconcile \/ Crash

Deletion(d) == Prepare(d) \/ DeleteObjects(d) \/ DeleterStops(d) \/ Confirm(d)

Next == Host \/ (\E op \in remote : TakesEffect(op)) \/ \E d \in Deleters : Deletion(d)

Spec == Init /\ [][Next]_vars

-----------------------------------------------------------------------------
(* The archive never has two operations at the bucket, whatever call issued *)
(* them: a pending nonce outlives its caller and the object's memory, so a  *)
(* part is not uploaded twice and no delete overtakes a complete.           *)
OneOperation == Cardinality(remote) <= 1

(* A closed upload is over: nothing it issued can still reach the bucket,   *)
(* and no multipart upload with the learner's audio is left open.           *)
(* A confirmed deletion relies on it.                                       *)
ClosedIsOver ==
  upload.io = "closed" => /\ \A op \in remote : op.kind \notin Writes
                          /\ multipart # "open"

(* What the ledger calls absent, and a recording it calls failed, has no    *)
(* audio in the bucket.                                                     *)
AbsentIsAbsent ==
  upload.disposition = "absent" \/ recording = "failed" => object = NoAudio

(* Every part goes to a multipart upload whose locator Postgres knows, so   *)
(* audio is never in an upload that only a lost journal can name.           *)
PartsAreLocated == \A op \in remote : op.kind \in {"part", "complete"} => upload.located

(* A recording published as stored is the whole of what was sung, in order, *)
(* through part boundaries, retries and losses of memory, as long as the    *)
(* account does not delete it.                                              *)
PublishedIsWhole ==
  recording = "stored" /\ command = "none" => object = [n \in 1..spoken |-> n]

(* Once the account was told that its audio is deleted, audio that is gone  *)
(* from the bucket does not come back.                                      *)
DeletedStaysDeleted ==
  [][command = "completed" /\ object = NoAudio => object' = NoAudio]_vars

(* "A later stored object invalidates earlier absence/deletion evidence for *)
(* the same key. Its old command stays pending until another exact          *)
(* deletion." (migration 0264)                                              *)
CompletedIsAbsent == command = "completed" => object = NoAudio
=============================================================================
