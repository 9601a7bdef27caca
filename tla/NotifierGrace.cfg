SPECIFICATION Spec
CONSTANTS
  k1 = k1
  Keys = {k1}
  Severities = {1, 2, 3}
  None = None
  MinRank = 2
  Grace = 1
  Renotify = 2
  NotifyResolved = TRUE
  Faults = {"deliver"}
  MaxFaults = 1
INVARIANT
  AnnouncedAfterGrace
