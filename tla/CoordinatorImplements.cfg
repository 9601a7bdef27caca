SPECIFICATION FairSpec
CONSTANTS
  p1 = p1
  p2 = p2
  c1 = c1
  c2 = c2
  Callers = {p1, p2}
  Collectors = {c1, c2}
  MultiTx = {}
  Interval <- MCInterval
  Window = 2
  Ops = {"collect", "all", "one"}
  Faults = {"cancel"}
  Never = Never
  MaxTime = 1
  MaxSnapshots = 1
INVARIANT
  CleanResultCovered
PROPERTIES
  ImplementsCycle
  CallReturns
