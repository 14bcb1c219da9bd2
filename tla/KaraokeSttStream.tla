--------------------------- MODULE KaraokeSttStream ---------------------------
(***************************************************************************)
(* The memory of the speech-to-text adapter                                *)
(* (platform-cf/src/elevenlabs-karaoke-stt.ts) as a record, and what each  *)
(* of its methods does to it.  The generation of a stream (a fresh UUID)   *)
(* and the identity of its socket are the number of the dial that made     *)
(* them, 0 standing for null.  One audio frame is abstracted to a chunk    *)
(* that lifts the uncommitted audio over the commit floor.                 *)
(***************************************************************************)
EXTENDS KaraokeReducer

Streams ==
  [gen      : Nat,       \* streamGeneration
   sock     : Nat,       \* the dial whose socket the adapter holds
   closed   : BOOLEAN,
   closing  : BOOLEAN,
   emitting : BOOLEAN,   \* emitter # null
   inFlight : [id : Nat, gen : Nat, frontier : Nat, lines : {{}}],
   audio    : BOOLEAN,   \* uncommittedBytes reach SAFE_COMMIT_FLOOR_MS
   frontier : Nat,       \* submittedSongFrontierMs
   seq      : Nat]       \* the emitter's sequence

NewAdapter ==
  [gen |-> 0, sock |-> 0, closed |-> FALSE, closing |-> FALSE, emitting |-> FALSE,
   inFlight |-> NoCommit, audio |-> FALSE, frontier |-> 0, seq |-> 0]

(* start() up to the connect: the socket of the previous stream stays *)
Fresh(a, gen, seq) ==
  [NewAdapter EXCEPT !.gen = gen, !.sock = a.sock, !.emitting = TRUE, !.seq = seq]

(* sendPcm16 counts the frame before it looks whether there is a socket *)
Heard(a, t) == [a EXCEPT !.audio = TRUE, !.frontier = Later(@, t)]

CanCommit_TwoInFlight(a) == a.sock # 0 /\ ~a.closed /\ a.gen # 0 /\ a.audio

CanCommit(a) == /\ a.sock # 0
                /\ ~a.closed
                /\ a.inFlight = NoCommit
                /\ a.gen # 0
                /\ a.audio

Handle(a, id) == [id |-> id, gen |-> a.gen, frontier |-> a.frontier, lines |-> {}]

Committed(a, id) == [a EXCEPT !.inFlight = Handle(a, id), !.audio = FALSE]

(* handleMessage of a committed transcript: the commit it is taken for *)
TakenFor(a) == IF a.gen = 0 THEN NoCommit ELSE a.inFlight
Answered(a) == [a EXCEPT !.inFlight = NoCommit, !.seq = @ + 1]

(* close(): a commit in flight is given time to be answered first *)
MustDrain(a) == a.inFlight # NoCommit /\ ~a.closed
Draining(a)  == [a EXCEPT !.closing = TRUE]
Shut(a) == [a EXCEPT !.closing = TRUE, !.closed = TRUE, !.sock = 0,
                     !.emitting = FALSE, !.gen = 0]

(* socketDropped() and terminate() *)
Drops(a)      == ~a.closing /\ ~a.closed
Dropped(a)    == IF Drops(a) THEN [a EXCEPT !.closed = TRUE] ELSE a
Terminated(a) == [a EXCEPT !.closed = TRUE, !.sock = 0]
=============================================================================
