------------------------ MODULE MCKaraokeFinalization ------------------------
(* Instances of KaraokeFinalization: one session, and two that were         *)
(* reserved together.                                                       *)
EXTENDS KaraokeFinalization

One   == {1}
Two   == {1, 2}
First == {1}
Nobody == {}
=============================================================================
