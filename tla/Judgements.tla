----------------------------- MODULE Judgements -----------------------------
(***************************************************************************)
(* The rules over a server that changes and an analysis that may not see   *)
(* all of it.  A behaviour follows one family of measurements (the rules   *)
(* that share them) and the suggestions open on it.  What is at stake is   *)
(* that a suggestion only ends because the issue did, and that what the    *)
(* rules say together makes sense.                                         *)
(***************************************************************************)
EXTENDS TableRules, IndexRules, LoadRules, ConfigurationRules

CONSTANTS
  Scales, \* Scales[f][x]: the values of measurement x of family f, from good to bad if Ordered
  Gaps    \* Gaps[f]: what an analysis of f may lack: domains, checks, baselines, plans

\* What there is to measure, and the values it may have.
Maybe(S) == S \cup {None}
Percent == 0..100
Switch == {"on", "off"}

Scanned ==
  [query : STRING, read : STRING, columns : Seq(STRING), share : Percent, skipped : BOOLEAN]

TableMeasures ==
  [live |-> Nat, dead |-> Nat, vacuum |-> Maybe(Nat), autovacuum |-> Maybe(Nat),
   analyze |-> Maybe(Nat), seq |-> Nat, idx |-> Nat, size |-> Nat, bloat |-> Maybe(Percent),
   scans |-> Seq(Scanned)]

Indexes ==
  [name : Nat, method : STRING, keys : Seq(STRING \X STRING), include : SUBSET STRING, expr : STRING,
   predicate : STRING, unique : BOOLEAN, backsForeignKey : BOOLEAN, scans : Nat, size : Nat,
   counted : Maybe(Nat)]

Samples == [total : Nat, max : Nat]

Measures ==
  [table |-> TableMeasures, scanning |-> TableMeasures,
   indexes |-> [i1 |-> Indexes, i2 |-> Indexes, i3 |-> Indexes],
   queries |-> [mean |-> Nat, deltaCalls |-> Nat, deltaMean |-> Nat],
   sessions |-> [now |-> Samples, peak |-> Maybe(Samples), running |-> Nat, idle |-> Nat],
   database |-> [ratio |-> 0..1000, temp |-> Nat, deadlocks |-> Nat, wait |-> Nat],
   freezing |-> [xid |-> Nat, mxid |-> Nat, freezeMax |-> Nat, multixactFreezeMax |-> Nat],
   slots |-> [retained |-> Nat, active |-> BOOLEAN, wal |-> STRING, xmin |-> Nat,
              lag |-> Maybe(Nat)],
   limits |-> [used |-> Nat, prepared |-> Nat],
   disk |-> [growth |-> Int, current |-> Nat, capacity |-> Nat],
   vacuuming |-> [autovacuum |-> Maybe(Switch), trackCounts |-> Maybe(Switch),
                  disabledTable |-> Maybe(Nat)],
   hygiene |-> [idleTimeout |-> Maybe(Nat), idleSessions |-> Nat, statementTimeout |-> Maybe(Nat),
                logMinDuration |-> Maybe(Switch), logLockWaits |-> Maybe(Switch),
                logTempFiles |-> Maybe(Switch), trackIoTiming |-> Maybe(Switch),
                randomPageCost |-> Maybe(Nat), pendingRestart |-> Maybe(Switch)],
   memory |-> [sharedBuffers |-> Maybe(Nat), workMem |-> Maybe(Nat), maxConnections |-> Maybe(Nat),
               cluster |-> Nat, memory |-> Nat],
   tracking |-> [track |-> Maybe(STRING), entries |-> Nat, max |-> Nat, evicted |-> Nat]]

\* The measurements that can only get better or worse.
Ordered ==
  [table |-> {"live", "dead", "vacuum", "autovacuum", "bloat"}, scanning |-> {"live", "seq", "size"},
   indexes |-> {}, queries |-> {"mean", "deltaCalls", "deltaMean"},
   sessions |-> {"running", "idle"}, database |-> {"ratio", "temp", "deadlocks", "wait"},
   freezing |-> {"xid", "mxid"}, slots |-> {"retained", "active", "xmin", "lag"},
   limits |-> {"used", "prepared"}, disk |-> {"growth"},
   vacuuming |-> {"autovacuum", "trackCounts", "disabledTable"},
   hygiene |-> {"idleTimeout", "idleSessions", "statementTimeout", "logMinDuration", "logLockWaits",
                "logTempFiles", "trackIoTiming", "randomPageCost", "pendingRestart"},
   memory |-> {"workMem", "maxConnections", "cluster"}, tracking |-> {"track", "entries", "evicted"}]

\* Of something bad nothing is best; a vacuum that never was is the oldest one.
Higher(a, b) == a = None \/ (b # None /\ a <= b)
Older(a, b)  == b = None \/ (a # None /\ a <= b)

\* Value b of measurement x is no better than a.
NoBetter(f, x, a, b) ==
  CASE f = "table" /\ x \in {"vacuum", "autovacuum"} -> Older(a, b)
    [] x = "ratio" -> b <= a
    [] x = "active" -> b => a
    [] x = "track" -> a = "none" => b = "none"
    [] f = "vacuuming" /\ x # "disabledTable" -> a = "off" => b = "off"
    [] x \in {"logMinDuration", "logLockWaits", "logTempFiles", "trackIoTiming"} -> a = "off" => b = "off"
    [] x = "pendingRestart" -> a = "on" => b = "on"
    [] x \in {"idleTimeout", "statementTimeout"} -> a = 0 => b = 0
    [] OTHER -> Higher(a, b)

ASSUME ScalesAssumption ==
  /\ DOMAIN Scales \subseteq DOMAIN Measures
  /\ \A f \in DOMAIN Scales :
       /\ DOMAIN Scales[f] = DOMAIN Measures[f]
       /\ \A x \in DOMAIN Scales[f] :
            Scales[f][x] \in Seq(Measures[f][x]) /\ Scales[f][x] # <<>>
       /\ \A x \in Ordered[f] : \A i, j \in DOMAIN Scales[f][x] :
            i < j => NoBetter(f, x, Scales[f][x][i], Scales[f][x][j])
  /\ \A f \in DOMAIN Scales \cap {"table", "scanning"} :
       \A i \in DOMAIN Scales[f].scans :
         \A k \in DOMAIN Scales[f].scans[i] :
           Len(Scales[f].scans[i][k].columns) <= MaxIndexColumns
  /\ None \notin Int \cup {{}} \cup [growth : Int, current : Int]

VARIABLES
  family,  \* what this behaviour is about
  level,   \* level[x]: position of measurement x in its scale
  gap,     \* what the last analysis lacked, None when the server changed since
  open     \* the open suggestions, <<rule, target>>

vars == <<family, level, gap, open>>

Families == DOMAIN Scales

\* The measurements themselves.
Observe(f, at) == [x \in DOMAIN Scales[f] |-> Scales[f][x][at[x]]]
World == Observe(family, level)

RequiredDomains(rule) ==
  CASE rule \in {"bloat"} -> {"table_stats", "bloat"}
    [] rule \in {"vacuum", "missing_index"} -> {"table_stats"}
    [] rule \in {"index_recommendation"} -> {"query_plans"}
    [] rule \in {"unused_index", "duplicate_index"} -> {"index_stats"}
    [] rule = "slow_query" -> {"query_stats"}
    [] rule \in {"cache", "high_temp_usage", "high_deadlocks"} -> {"database_stats"}
    [] rule \in {"connection_saturation", "long_running_query", "idle_in_transaction"} -> {"activity"}
    [] rule = "lock_contention" -> {"locks"}
    [] rule \in {"configuration", "stat_statements_capacity"} -> {"server_settings"}
    [] OTHER -> {"outage_risk"}

Evaluated(rule, g) == RequiredDomains(rule) \cap g = {}

\* The plans, when they may be used.
UsablePlans(w, g) ==
  IF "query_plans" \in g THEN <<>> ELSE RecommendIndexes(Planned(w.scans, g))

IndexName == [i1 |-> 1, i2 |-> 2, i3 |-> 3]

IndexSet(w) == {[w[x] EXCEPT !.name = IndexName[x]] : x \in DOMAIN IndexName}

\* What the rules of family f say of w when g is missing.
Judged(f, w, g) ==
  CASE f \in {"table", "scanning"} ->
                     BloatRule(w, w.bloat) \cup VacuumRule(w, w.bloat)
                     \cup MissingIndexRule(w, w.bloat, UsablePlans(w, g))
                     \cup IndexRecommendationRule(RecommendIndexes(Planned(w.scans, g)))
    [] f = "indexes"   -> UnusedIndexRule(IndexSet(w)) \cup DuplicateIndexRule(IndexSet(w))
    [] f = "queries"   -> SlowQueryRule(w, g)
    [] f = "sessions"  -> ConnectionSaturationRule(w, g)
                          \cup LongRunningQueryRule(w) \cup IdleInTransactionRule(w)
    [] f = "database"  -> CacheRule(w) \cup HighTempUsageRule(w) \cup HighDeadlocksRule(w)
                          \cup LockContentionRule(w)
    [] f = "freezing"  -> WraparoundRule(w, g)
    [] f = "slots"     -> ReplicationSlotRule(w, g)
    [] f = "limits"    -> SequenceExhaustionRule(w, g) \cup PreparedTransactionRule(w, g)
    [] f = "disk"      -> DiskGrowthRule(w, g, w.capacity)
    [] f = "vacuuming" -> AutovacuumReview(w, g)
    [] f = "hygiene"   -> HygieneReview(w, g)
    [] f = "memory"    -> MemoryReview(w, g, w.memory)
    [] f = "tracking"  -> StatStatementsRule(w, g)

\* Only the rules whose domains were all analyzed are evaluated.
Report(f, w, g) == {s \in Judged(f, w, g) : Evaluated(s.rule, g)}

\* UnobservedTargets of the rule, for the rules that have it.
Unobserved(rule, f, w, g) ==
  CASE rule \in {"xid_wraparound", "multixact_wraparound"} -> WraparoundUnobserved(g)
    [] rule = "replication_slot"         -> ReplicationUnobserved(g)
    [] rule = "sequence_exhaustion"      -> SequenceUnobserved(g)
    [] rule = "prepared_transaction"     -> PreparedUnobserved(g)
    [] rule = "disk_growth"              -> DiskUnobserved(g)
    [] rule = "configuration"            -> ConfigurationUnobserved(g, IF f = "memory" THEN w.memory ELSE 0)
    [] rule = "stat_statements_capacity" -> StatStatementsUnobserved(g)
    [] OTHER -> {}

Subjects(findings) == {<<s.rule, s.target>> : s \in findings}

Findings(f, w) == Report(f, w, {})

Init ==
  /\ family \in Families
  /\ level = [x \in DOMAIN Scales[family] |-> 1]
  /\ gap = None
  /\ open = {}

\* The server changes in one measurement.
Change(x) ==
  /\ \E v \in DOMAIN Scales[family][x] \ {level[x]} : level' = [level EXCEPT ![x] = v]
  /\ gap' = None
  /\ UNCHANGED <<family, open>>

\* The suggestions an analysis leaves alone: of rules it did not evaluate, and
\* those their rule did not observe.
Kept(g) ==
  {o \in open : \/ ~Evaluated(o[1], g)
               \/ \E prefix \in Unobserved(o[1], family, World, g) : IsPrefix(prefix, o[2])}

\* An analysis without g and the suggestions it leaves open (suggester.go).
Analyze(g) ==
  /\ gap' = g
  /\ open' = Subjects(Report(family, World, g)) \cup Kept(g)
  /\ UNCHANGED <<family, level>>

Next ==
  \/ \E x \in DOMAIN level : Change(x)
  \/ \E g \in SUBSET Gaps[family] : Analyze(g)

Spec == Init /\ [][Next]_vars

-----------------------------------------------------------------------------
\* Where the code itself takes what it did not see for what is not there.
Unprotected(o, w, g) ==
  \/ o[1] = "slow_query" /\ "baseline" \in g
  \/ /\ o[1] = "index_recommendation"
     /\ \A i \in DOMAIN w.scans :
          Proposed(w.scans[i]) /\ o[2] = <<"index", w.scans[i].columns>> => Unread(w.scans[i], g)
  \/ o[1] = "connection_saturation" /\ "peak" \in g
  \/ o[1] = "disk_growth" /\ "history" \in g
  \/ o = <<"stat_statements_capacity", <<"setting", "pg_stat_statements.max">>>> /\ "baseline" \in g
  \/ o = <<"configuration", <<"setting", "shared_buffers">>>> /\ "size" \in g

\* An analysis that lacks data resolves nothing that a complete one would still
\* report (rule.go: "not seeing them is not the same as them being gone"), but
\* for the six cases of Unprotected; a recommended index is only lost with all
\* proposals of its very columns.
GapIsNotRecovery ==
  [][gap' # None /\ open \ open' # {} =>
       \A o \in (open \ open') \cap Subjects(Findings(family, World)) : Unprotected(o, World, gap')]_vars

\* A complete analysis leaves exactly what it finds open: nothing that was once
\* reported stays because of a prefix that protects too much, and no finding
\* overwrites another of the same rule and target.
CompleteAnalysisResolves ==
  gap = {} =>
    LET findings == Findings(family, World)
    IN open = Subjects(findings) /\ Cardinality(open) = Cardinality(findings)

Rank(severity) == CASE severity = "info" -> 1 [] severity = "warning" -> 2 [] severity = "critical" -> 3

\* A server that gets worse in one measurement is not judged better.
WorseIsNoBetter ==
  [][(\E x \in Ordered[family] : level'[x] > level[x]) =>
       LET after == Findings(family, World')
       IN \A s \in Findings(family, World) : \E t \in after :
          s.rule = t.rule /\ s.target = t.target /\ Rank(s.severity) <= Rank(t.severity)]_vars

\* What one index can do for the queries another serves.
Serves(j, i) ==
  /\ j # i /\ SameShape(i, j)
  /\ i.keys = j.keys \/ (i.method = "btree" /\ i.expr = "" /\ IsPrefix(i.keys, j.keys))
  /\ i.include \subseteq Columns(j)

\* After all duplicates are dropped, the index each was said to duplicate is left
\* and does what it did, and no constraint is lost.  This is about duplicates
\* among themselves (indexes.go: "the suggestions never reference an index another
\* suggestion drops" is said of them): unused_index knows nothing of duplicates
\* and may propose to drop an index that a duplicate was told to rely on.
DropsLeaveCover ==
  family = "indexes" =>
    LET duplicates == Duplicates(IndexSet(World))
    IN \A d \in duplicates :
         /\ ~d.candidate.unique /\ Serves(d.retained, d.candidate)
         /\ \A e \in duplicates : d.retained # e.candidate

\* Every scan worth an index is served by a recommended one, and no recommended
\* index is a prefix of another.
RecommendationsServe ==
  family = "scanning" =>
    LET recs == RecommendIndexes(World.scans)
    IN /\ \A i \in DOMAIN World.scans :
            LET p == World.scans[i]
            IN p.columns # <<>> /\ ~p.skipped =>
                 \E k \in DOMAIN recs : IsPrefix(p.columns, recs[k].columns) /\ p.query \in recs[k].queries
       /\ \A k, l \in DOMAIN recs : k # l => ~IsPrefix(recs[k].columns, recs[l].columns)

\* Whoever drops all duplicates at once loses no access path to them, and whoever
\* creates all recommended indexes gets each one that was found missing, with no
\* index more than needed.
AdviceServes == DropsLeaveCover /\ RecommendationsServe
=============================================================================
