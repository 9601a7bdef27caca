SPECIFICATION PromptSpec
CONSTANTS
  loop = loop
  t1 = t1
  t2 = t2
  c1 = c1
  c2 = c2
  Loop = loop
  Triggers = {}
  Callers = {loop}
  Collectors = {c1, c2}
  Interval <- MCInterval
  Faults = {"fail"}
  CycleTime = 1
  Never = Never
  MaxTime = 14
INVARIANTS
  RunsWithinTwoIntervals
PROPERTY
  HealthIsTrue
\* The loop stops when it is told to.
CHECK_DEADLOCK FALSE
