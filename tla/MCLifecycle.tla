---------------------------- MODULE MCLifecycle ----------------------------
EXTENDS Lifecycle, TLC

CONSTANTS o1, o2, r1, r2, r3, collection, analysis

MCSymmetry == Permutations(Owners) \cup Permutations(Runs)
=============================================================================
