----------------------------- MODULE Thresholds -----------------------------
(***************************************************************************)
(* The thresholds the analyzer and the rules work with, from the           *)
(* configuration file.  Ratios are in thousandths, times in seconds,       *)
(* sizes in megabytes but for minTableSizeForIndex, a number of bytes to   *)
(* the rules and of rows to the analyzer.                                  *)
(***************************************************************************)
EXTENDS Integers

CONSTANTS Configured, \* the thresholds section of the configuration
          None        \* a value that is missing

AtLeast(x, y) == IF x >= y THEN x ELSE y
AtMost(x, y)  == IF x <= y THEN x ELSE y

\* validateThresholds: the sections that pass.
ValidThresholds(t) ==
  /\ t.slowQueryMs > 0 /\ t.slowQueryWindow >= 3600
  /\ t.cacheHitRatioWarning \in 0..1000
  /\ t.bloatPercentWarning \in 0..100
  /\ t.unusedIndexDays > 0
  /\ t.seqScanRatioWarning \in 0..1000
  /\ t.minTableSizeForIndex > 0
  /\ t.diskCapacityMB >= 0 /\ t.serverMemoryMB >= 0

ThresholdsConfig ==
  [slowQueryMs : Int, slowQueryWindow : Int, cacheHitRatioWarning : Int, bloatPercentWarning : Int,
   unusedIndexDays : Int, seqScanRatioWarning : Int, minTableSizeForIndex : Int,
   diskCapacityMB : Int, serverMemoryMB : Int]

ASSUME ConfiguredAssumption == Configured \in ThresholdsConfig /\ ValidThresholds(Configured)

\* analyzer.ConfigFromThresholds: a zero is taken as it is.
AnalyzerConfig(t) ==
  [slowQueryMs |-> t.slowQueryMs, slowQueryWindow |-> t.slowQueryWindow,
   cacheHitRatioWarning |-> t.cacheHitRatioWarning,
   bloatPercentWarning |-> t.bloatPercentWarning,
   unusedIndexDays |-> t.unusedIndexDays,
   seqScanRatioWarning |-> t.seqScanRatioWarning,
   minTableSizeForIndex |-> t.minTableSizeForIndex,
   vacuumStaleDays |-> 7, analyzeStaleDays |-> 7]

\* suggester.DefaultConfig.
DefaultConfig ==
  [slowQueryMs |-> 1000, slowQueryCriticalMs |-> 5000,
   cacheHitRatioWarning |-> 950, cacheHitRatioCritical |-> 900,
   bloatPercentWarning |-> 20, bloatPercentCritical |-> 50,
   unusedIndexDays |-> 30,
   seqScanRatioWarning |-> 500, seqScanRatioCritical |-> 800,
   minTableSizeForIndex |-> 10000,
   longRunningQuerySeconds |-> 60, longRunningCriticalSeconds |-> 300,
   idleInTxSeconds |-> 60, idleInTxCriticalSeconds |-> 300,
   blockedQuerySeconds |-> 10, blockedQueryCriticalSeconds |-> 60,
   tempWarning |-> 1024, tempCritical |-> 10240, deadlocksWarning |-> 1,
   connectionUtilizationWarning |-> 800, connectionUtilizationCritical |-> 950,
   xidAgeWarning |-> 500000000, xidAgeCritical |-> 1000000000,
   freezeMaxAgeFactor |-> <<3, 2>>,
   slotRetainedWarning |-> 1024, slotRetainedCritical |-> 10240,
   replicaLagWarningSeconds |-> 300,
   sequenceUsageWarning |-> 750, sequenceUsageCritical |-> 900,
   preparedXactWarning |-> 3600, preparedXactCritical |-> 86400,
   diskCapacity |-> 0, diskFullWarningDays |-> 30, diskFullCriticalDays |-> 7,
   serverMemory |-> 0, statStatementsFullFraction |-> 900]

\* suggester.ConfigFromThresholds: a zero leaves the default, and a fixed
\* critical level never is laxer than the configured warning level.
ConfigFromThresholds(t) ==
  LET d == DefaultConfig
      Or(x, default) == IF x > 0 THEN x ELSE default
      slow  == Or(t.slowQueryMs, d.slowQueryMs)
      cache == Or(t.cacheHitRatioWarning, d.cacheHitRatioWarning)
      bloat == Or(t.bloatPercentWarning, d.bloatPercentWarning)
      scans == Or(t.seqScanRatioWarning, d.seqScanRatioWarning)
  IN [d EXCEPT
        !.slowQueryMs = slow,
        !.slowQueryCriticalMs = IF @ < slow THEN 5 * slow ELSE @,
        !.cacheHitRatioWarning = cache, !.cacheHitRatioCritical = AtMost(@, cache),
        !.bloatPercentWarning = bloat,  !.bloatPercentCritical = AtLeast(@, bloat),
        !.unusedIndexDays = Or(t.unusedIndexDays, @),
        !.seqScanRatioWarning = scans,  !.seqScanRatioCritical = AtLeast(@, scans),
        !.minTableSizeForIndex = Or(t.minTableSizeForIndex, @),
        !.diskCapacity = t.diskCapacityMB, !.serverMemory = t.serverMemoryMB]

\* The configurations of the analyzer and of the rules, from the same section.
A == AnalyzerConfig(Configured)
C == ConfigFromThresholds(Configured)

\* One suggestion.  A target is a pair of what it is and its name, and a prefix
\* of targets as rules list them is a pair or just the first half.
Finding(rule, target, severity) == [rule |-> rule, target |-> target, severity |-> severity]

\* The usual grading of a measured value: nothing below the warning level.
Graded(rule, target, value, warning, critical) ==
  IF value < warning THEN {}
  ELSE {Finding(rule, target, IF value >= critical THEN "critical" ELSE "warning")}
=============================================================================
