--------------------------- MODULE MCMediaWorkflow ---------------------------
EXTENDS MediaWorkflow, TLC
CONSTANTS c1, c2
MCSymmetry == Permutations({c1, c2})
==============================================================================
