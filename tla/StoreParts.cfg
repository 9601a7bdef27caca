SPECIFICATION Spec
CONSTANTS
  p1 = p1
  p2 = p2
  r1 = r1
  r2 = r2
  q1 = q1
  q2 = q2
  None = None
  Entries = 2
  Costs = {1, 9}
  Window = 1
  MinAfterSpan = 1
  MinCalls = 2
  BaselineLeadIn = 1
  HistoryLimit = 3
  QueryRetention = 2
  SnapshotRetention = 2
  MaxHour = 3
  MaxRuns = 3
  MaxResets = 1
  MaxMissed = 1
  Collectors <- MCCollectors
  Batches <- MCBatches
  ViewFaults = {"fetch", "save", "current", "record", "crash"}
  MaxSnapshots = 2
  MaxCollects = 3
  MaxViewFaults = 1
  Processes = {p1, p2}
  Latest = 3
  Backfill = 2
  OpenFaults = {"io", "stop"}
  MaxSamples = 2
  MaxOpenFaults = 2
  MaxRollbacks = 1
  NoTime = NoTime
  Day = 2
  StaleAfter = 2
  RenotifyAfter = 2
  DigestFaults = {"deliver", "record", "crash"}
  MaxClock = 6
  MaxDigestFaults = 2
  NoReport = NoReport
  Requests = {r1, r2}
  Checks = 2
  TTL = 2
  MaxMinute = 3
  MaxRequests = 3
  MaxOutages = 2
  NoPlans = NoPlans
  Queries = {q1, q2}
  Filtered = {q1, q2}
  MaxQueries = 2
  ReplanAfter = 2
  PlanFaults = {"run", "previous", "explain", "table", "validate", "unused"}
  MaxHours = 2
  MaxPlanFaults = 1
  MaxServerChanges = 1
INVARIANTS
  PeriodsAreReal
  WindowsAreReal
  RunsAreWhole
  PagesAreFresh
  OpeningIsSafe
  HistoryHasEachOnce
  DigestsCover
  BuiltIsNotProposed
  ReuseLosesNothing
PROPERTIES
  VerdictSettles
  HealthMessagesAreTrue
  ReportsAreRecent
\* Each part ends: its time, its faults and its requests are bounded.
CHECK_DEADLOCK FALSE
