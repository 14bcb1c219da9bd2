---------------------------- MODULE MCLaneLease ----------------------------
(* Small instances of LaneLease.  Times are in units of RenewInterval.     *)
EXTENDS LaneLease, TLC

Ticks == Permutations(Runners)
=============================================================================
