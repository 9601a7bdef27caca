SPECIFICATION Spec
CONSTANTS
  p1 = p1
  p2 = p2
  c1 = c1
  c2 = c2
  Callers = {p1, p2}
  Collectors = {c2}
  MultiTx = {c2}
  Interval <- MCInterval
  Window = 2
  Ops = {"collect", "all"}
  Faults = {"cancel", "crash", "record"}
  Never = Never
  MaxTime = 2
  MaxSnapshots = 2
SYMMETRY MCSymmetry
INVARIANTS
  CycleExclusive
  CoverageHonest
  SkippedIsCovered
  SnapshotSpacing
