-------------------------- MODULE MCCapturedArchive --------------------------
(* Instances of CapturedArchive: two deletion requests, or one. *)
EXTENDS CapturedArchive

One == {"d1"}
Two == {"d1", "d2"}
=============================================================================
