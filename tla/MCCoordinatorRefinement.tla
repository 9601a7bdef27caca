---------------------- MODULE MCCoordinatorRefinement ----------------------
EXTENDS CoordinatorRefinement

CONSTANTS p1, p2, c1, c2

MCInterval == [c \in Collectors |-> IF c = c1 THEN 1 ELSE 2]
=============================================================================
