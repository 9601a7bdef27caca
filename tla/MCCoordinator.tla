--------------------------- MODULE MCCoordinator ---------------------------
EXTENDS Coordinator, TLC

CONSTANTS p1, p2, c1, c2

\* One collector every cycle, one every second unit of time.
MCInterval == [c \in Collectors |-> IF c = c1 THEN 1 ELSE 2]
MCSymmetry == Permutations(Callers)
=============================================================================
