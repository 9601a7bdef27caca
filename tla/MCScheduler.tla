---------------------------- MODULE MCScheduler ----------------------------
EXTENDS Scheduler, TLC

CONSTANTS loop, t1, t2, c1, c2

\* One collector at the ticker's period, one at three times that.
MCInterval == [c \in Collectors |-> IF c = c1 THEN 2 ELSE 6]
MCSymmetry == Permutations(Triggers)
=============================================================================
