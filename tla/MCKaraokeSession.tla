--------------------------- MODULE MCKaraokeSession ---------------------------
(* Songs of one and of two lines for TLC. *)
EXTENDS KaraokeSession

OneLine  == {1}
TwoLines == {1, 2}
=============================================================================
