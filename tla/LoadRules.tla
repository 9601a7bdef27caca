------------------------------ MODULE LoadRules ------------------------------
(***************************************************************************)
(* The rules on what the server is doing: slow_query, cache,               *)
(* connection_saturation, long_running_query, idle_in_transaction,         *)
(* lock_contention, high_temp_usage and high_deadlocks, with the part of   *)
(* the analysis each reads.  w is the observed sample of one family.       *)
(***************************************************************************)
EXTENDS Thresholds, FiniteSets

\* Slow queries: the mean over the window of queries that ran in it, or, when no
\* snapshot that old covers the queries, the mean since the statistics were reset.
SlowMeans(w, gap) ==
  IF "baseline" \in gap
  THEN {m \in {w.mean} : m >= A.slowQueryMs}
  ELSE IF w.deltaCalls = 0 THEN {} ELSE {m \in {w.deltaMean} : m >= A.slowQueryMs}

SlowQueryRule(w, gap) ==
  UNION {Graded("slow_query", <<"queryid", "q">>, m, 0, C.slowQueryCriticalMs) : m \in SlowMeans(w, gap)}

\* AnalyzeOverall flags what is below the configured ratio.
BelowThreshold(ratio) == ratio < A.cacheHitRatioWarning

CacheRule(w) ==
  IF ~BelowThreshold(w.ratio) THEN {}
  ELSE {Finding("cache", <<"database", "">>,
                IF w.ratio < C.cacheHitRatioCritical THEN "critical" ELSE "warning")}

-----------------------------------------------------------------------------
\* Connections: the sample, or the busiest one of the last 24 hours when there
\* is one and it was busier.
Busier(p, q) == p.total * AtLeast(q.max, 1) > q.total * p.max

Peak(w, gap) == IF "peak" \in gap THEN None ELSE w.peak

JudgedSample(w, gap) ==
  LET p == Peak(w, gap)
  IN IF p # None /\ p.max > 0 /\ Busier(p, w.now) THEN p ELSE w.now

ConnectionSaturationRule(w, gap) ==
  LET s == JudgedSample(w, gap)
  IN IF s.max <= 0 THEN {}
     ELSE Graded("connection_saturation", <<"instance", "connections">>, 1000 * s.total,
                 C.connectionUtilizationWarning * s.max, C.connectionUtilizationCritical * s.max)

\* The longest statement and the longest idle transaction of two sessions, and
\* the longest wait; 0 when there is none.
LongRunningQueryRule(w) ==
  Graded("long_running_query", <<"pid", 1>>, w.running,
         C.longRunningQuerySeconds, C.longRunningCriticalSeconds)

IdleInTransactionRule(w) ==
  Graded("idle_in_transaction", <<"pid", 2>>, w.idle, C.idleInTxSeconds, C.idleInTxCriticalSeconds)

LockContentionRule(w) ==
  Graded("lock_contention", <<"blocked_pid", 1>>, w.wait,
         C.blockedQuerySeconds, C.blockedQueryCriticalSeconds)

\* Counters of pg_stat_database, as they stand.
HighTempUsageRule(w) ==
  Graded("high_temp_usage", <<"database", "temp_usage">>, w.temp, C.tempWarning, C.tempCritical)

HighDeadlocksRule(w) ==
  Graded("high_deadlocks", <<"database", "deadlocks">>, w.deadlocks, C.deadlocksWarning, 5)
=============================================================================
