------------------------------ MODULE RiskRules ------------------------------
(***************************************************************************)
(* The outage risks: wraparound, replication slots and lag, sequences,     *)
(* prepared transactions and disk growth.  The checks behind them are      *)
(* independent (postgres/risk.go): one that failed is in gap, leaves its   *)
(* part of the document empty, and hides the targets built from it.        *)
(***************************************************************************)
EXTENDS Thresholds, FiniteSets

\* Mutant: every target of a check that may fail counts as unobserved.
AllTargets(gap, prefixByCheck) == {prefixByCheck[check] : check \in DOMAIN prefixByCheck}

\* unobservedTargets: the prefixes hidden by the failed checks a rule reads.
UnobservedTargets(gap, prefixByCheck) ==
  {prefixByCheck[check] : check \in DOMAIN prefixByCheck \cap gap}

\* The rows of a check, none when it failed.
RowsRead(check, gap, rows) == IF check \in gap THEN {} ELSE rows

\* The configured age, or earlier past the age at which autovacuum freezes.
WarnAt(freezeMax) ==
  IF freezeMax > 0
  THEN AtMost(C.xidAgeWarning, (freezeMax * C.freezeMaxAgeFactor[1]) \div C.freezeMaxAgeFactor[2])
  ELSE C.xidAgeWarning

\* Transaction and multixact ages of a database, each against its own limit.
WraparoundRule(w, gap) ==
  UNION {Graded("xid_wraparound", <<"database", "d">>, d.xid, WarnAt(d.freezeMax), C.xidAgeCritical)
         \cup Graded("multixact_wraparound", <<"database", "d">>, d.mxid,
                     WarnAt(d.multixactFreezeMax), C.xidAgeCritical)
         : d \in RowsRead("wraparound", gap, {w})}

WraparoundUnobserved(gap) == UnobservedTargets(gap, [wraparound |-> <<"database">>])

-----------------------------------------------------------------------------
\* evaluateSlot: each condition raises the severity, and a slot whose WAL is
\* already gone is only a warning unless something else is critical.
SlotSeverities(s) ==
  (IF s.wal = "unreserved" THEN {"critical"} ELSE {})
  \cup (IF s.wal = "lost" THEN {"warning"} ELSE {})
  \cup (IF s.retained >= C.slotRetainedCritical THEN {"critical"} ELSE {})
  \cup (IF ~s.active /\ s.retained >= C.slotRetainedWarning THEN {"warning"} ELSE {})
  \cup (IF s.xmin >= C.xidAgeWarning THEN {"critical"} ELSE {})

Worst(severities) == IF "critical" \in severities THEN "critical" ELSE "warning"

\* evaluateReplica: lag alone, and only when it is known.
ReplicationSlotRule(w, gap) ==
  {Finding("replication_slot", <<"slot", "s">>, Worst(SlotSeverities(s)))
     : s \in {s \in RowsRead("replication_slots", gap, {w}) : SlotSeverities(s) # {}}}
  \cup {Finding("replication_slot", <<"replica", "r">>, "warning")
     : r \in {r \in RowsRead("replication", gap, {w}) :
                r.lag # None /\ r.lag >= C.replicaLagWarningSeconds}}

ReplicationUnobserved(gap) ==
  UnobservedTargets(gap, [replication_slots |-> <<"slot">>, replication |-> <<"replica">>])

SequenceExhaustionRule(w, gap) ==
  UNION {Graded("sequence_exhaustion", <<"sequence", "s">>, s.used,
                C.sequenceUsageWarning, C.sequenceUsageCritical)
         : s \in RowsRead("sequences", gap, {w})}

SequenceUnobserved(gap) == UnobservedTargets(gap, [sequences |-> <<"sequence">>])

PreparedTransactionRule(w, gap) ==
  UNION {Graded("prepared_transaction", <<"prepared", "p">>, p.prepared,
                C.preparedXactWarning, C.preparedXactCritical)
         : p \in RowsRead("prepared_xacts", gap, {w})}

PreparedUnobserved(gap) == UnobservedTargets(gap, [prepared_xacts |-> <<"prepared">>])

-----------------------------------------------------------------------------
\* analyzeRisk: the trend is fitted to the size history, sampled by an hourly
\* collector; it takes samples that span a day.
SizeTrend(w, gap) == IF "history" \in gap THEN None ELSE [growth |-> w.growth, current |-> w.current]

\* A forecast when the size of the disk is known (days to full against the
\* thresholds), and a note on databases that double within 90 days otherwise.
Forecast(trend, capacity) ==
  LET free == AtLeast(capacity - trend.current, 0)
  IN CASE free < C.diskFullCriticalDays * trend.growth -> {"critical"}
       [] free < C.diskFullWarningDays * trend.growth
          /\ free >= C.diskFullCriticalDays * trend.growth -> {"warning"}
       [] OTHER -> {}

DiskGrowthRule(w, gap, capacity) ==
  LET trend == SizeTrend(w, gap)
  IN IF trend = None \/ trend.growth <= 0 THEN {}
     ELSE {Finding("disk_growth", <<"instance", "disk">>, s) : s \in
             IF capacity > 0 THEN Forecast(trend, capacity)
             ELSE IF trend.growth * 90 >= trend.current THEN {"info"} ELSE {}}

DiskUnobserved(gap) == UnobservedTargets(gap, [size |-> <<"instance", "disk">>])
=============================================================================
