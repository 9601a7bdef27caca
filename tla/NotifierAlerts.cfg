SPECIFICATION FairSpec
CONSTANTS
  k1 = k1
  Keys = {k1}
  Severities = {1, 2, 3}
  None = None
  MinRank = 2
  Grace = 1
  Renotify = 2
  NotifyResolved = TRUE
  Faults = {"read", "deliver", "record", "crash"}
  MaxFaults = 2
INVARIANTS
  LedgerIsTold
  NothingTooEarly
PROPERTY
  IssueIsTold
