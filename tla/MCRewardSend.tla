---------------------------- MODULE MCRewardSend ----------------------------
EXTENDS RewardSend, TLC
CONSTANTS p1, p2, q1, w1, w2, f1, f2
MCSymmetry == Permutations({w1, w2}) \cup Permutations({f1, f2})
=============================================================================
