SPECIFICATION FairSpec
CONSTANTS
  loop = loop
  t1 = t1
  t2 = t2
  c1 = c1
  c2 = c2
  Loop = loop
  Triggers = {t1, t2}
  Callers = {loop, t1, t2}
  Collectors = {c1}
  Interval <- MCInterval
  Faults = {"cancel", "fail"}
  CycleTime = 1
  Never = Never
  MaxTime = 2
INVARIANTS
  SuccessIsFresh
  OneManualTrigger
PROPERTY
  CallersReturn
