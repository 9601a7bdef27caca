------------------------- MODULE ConfigurationRules -------------------------
(***************************************************************************)
(* The review of the server's settings and of pg_stat_statements.  The     *)
(* three checks behind them fail independently (postgres/settings.go); the *)
(* activity and outage_risk domains refine some findings without being     *)
(* required.  A setting that was not read, or does not exist, is None;     *)
(* memory amounts are in megabytes, 0 when the server's memory is unknown. *)
(***************************************************************************)
EXTENDS Thresholds, FiniteSets, RiskRules

Get(w, gap, name) == IF "settings" \in gap THEN None ELSE w[name]

Note(name, severity) == {Finding("configuration", <<"setting", name>>, severity)}

\* Either switch turns autovacuum off.
Autovacuum(w, gap) ==
  IF \E name \in {"autovacuum", "trackCounts"} : Get(w, gap, name) = "off"
  THEN Note("autovacuum", "critical") ELSE {}

LargeAutovacuumDisabledTable == 1024

\* The tables on which autovacuum is disabled, by size.
AutovacuumDisabled(w, gap) ==
  {Finding("configuration", <<"autovacuum_disabled", "t">>,
           IF size >= LargeAutovacuumDisabledTable THEN "critical" ELSE "warning")
     : size \in RowsRead("autovacuum_disabled", gap, {w.disabledTable} \ {None})}

\* A timeout of 0 is no timeout; idle sessions seen make it a warning.
IdleInTransactionTimeout(w, gap) ==
  IF Get(w, gap, "idleTimeout") # 0 THEN {}
  ELSE Note("idle_in_transaction_session_timeout",
            IF "activity" \notin gap /\ w.idleSessions > 0 THEN "warning" ELSE "info")

StatementTimeout(w, gap) ==
  IF Get(w, gap, "statementTimeout") = 0 THEN Note("statement_timeout", "info") ELSE {}

\* One note for all the diagnostics that are off.
Observability(w, gap) ==
  IF \E name \in {"logMinDuration", "logLockWaits", "logTempFiles", "trackIoTiming"} :
       Get(w, gap, name) = "off"
  THEN Note("observability", "info") ELSE {}

InitdbSharedBuffers == 128
UntunedClusterSize  == 2048

\* The size of the databases, 0 when the risk check or its domain failed.
ClusterSize(w, gap) ==
  IF gap \cap {"outage_risk", "size"} # {} THEN 0 ELSE w.cluster

\* Against the memory when it is known, else only the default on a large cluster.
SharedBuffers(w, gap, memory) ==
  LET sb == Get(w, gap, "sharedBuffers")
  IN IF /\ sb # None
        /\ IF memory > 0
           THEN sb * 100 < 15 * memory \/ sb * 100 > 40 * memory
           ELSE sb = InitdbSharedBuffers /\ ClusterSize(w, gap) >= UntunedClusterSize
     THEN Note("shared_buffers", "warning") ELSE {}

WorkMem(w, gap, memory) ==
  LET workMem == Get(w, gap, "workMem")
      conns   == Get(w, gap, "maxConnections")
      sb      == Get(w, gap, "sharedBuffers")
  IN IF /\ memory > 0 /\ None \notin {workMem, conns, sb}
        /\ conns * workMem + sb > memory
     THEN Note("work_mem", "warning") ELSE {}

RandomPageCost(w, gap) ==
  LET cost == Get(w, gap, "randomPageCost")
  IN IF cost # None /\ cost >= 4 THEN Note("random_page_cost", "info") ELSE {}

PendingRestart(w, gap) ==
  IF Get(w, gap, "pendingRestart") = "on" THEN Note("pending_restart", "info") ELSE {}

\* Evaluate: every review, in families of settings that concern each other.
AutovacuumReview(w, gap) == Autovacuum(w, gap) \cup AutovacuumDisabled(w, gap)
HygieneReview(w, gap) ==
  IdleInTransactionTimeout(w, gap) \cup StatementTimeout(w, gap) \cup Observability(w, gap)
  \cup RandomPageCost(w, gap) \cup PendingRestart(w, gap)
MemoryReview(w, gap, memory) == SharedBuffers(w, gap, memory) \cup WorkMem(w, gap, memory)

\* Mutant: only the failed checks of this rule's own domain count.
OwnChecksOnly(gap, memory) ==
  UnobservedTargets(gap, [settings |-> <<"setting">>,
                          autovacuum_disabled |-> <<"autovacuum_disabled">>])

\* UnobservedTargets: also the default of shared_buffers without usable risk data.
ConfigurationUnobserved(gap, memory) ==
  UnobservedTargets(gap, [settings |-> <<"setting">>,
                          autovacuum_disabled |-> <<"autovacuum_disabled">>])
  \cup (IF memory <= 0 /\ "outage_risk" \in gap THEN {<<"setting", "shared_buffers">>} ELSE {})

-----------------------------------------------------------------------------
\* analyzeSettings: entries evicted since a snapshot a day old, unknown without
\* one, after a reset or when that snapshot lacks the check.
Evictions(w, gap) == IF "baseline" \in gap THEN 0 ELSE w.evicted

Filling(w) == w.entries * 1000 >= C.statStatementsFullFraction * w.max

StatStatementsRule(w, gap) ==
  (IF Get(w, gap, "track") = "none"
   THEN {Finding("stat_statements_capacity", <<"setting", "pg_stat_statements.track">>, "warning")}
   ELSE {})
  \cup {Finding("stat_statements_capacity", <<"setting", "pg_stat_statements.max">>, "warning")
          : u \in {u \in RowsRead("stat_statements", gap, {w}) :
                     u.max > 0 /\ (Filling(u) \/ Evictions(u, gap) # 0)}}

StatStatementsUnobserved(gap) ==
  UnobservedTargets(gap, [settings |-> <<"setting">>,
                          stat_statements |-> <<"setting", "pg_stat_statements.max">>])
=============================================================================
