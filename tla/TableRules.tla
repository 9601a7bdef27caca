----------------------------- MODULE TableRules -----------------------------
(***************************************************************************)
(* What the analysis makes of one table's statistics, its bloat and the    *)
(* plans of the busiest queries, and the rules that report it: bloat,      *)
(* vacuum, missing_index and index_recommendation.                         *)
(*                                                                         *)
(* s is a row of table_stats: live and dead tuples, seq and idx scans, the *)
(* size in bytes and the days since the last manual and automatic vacuum   *)
(* and the last analyze, None when there was none; bloat is the percentage *)
(* of its row in the bloat snapshot, None without one.                     *)
(***************************************************************************)
EXTENDS Thresholds, Sequences, FiniteSets, SequencesExt

Table == <<"table", "t">>

HighBloat(bloat) == bloat # None /\ bloat >= A.bloatPercentWarning

\* Days since the later of the two vacuums.
LastVacuum(s) ==
  IF s.vacuum = None THEN s.autovacuum
  ELSE IF s.autovacuum = None THEN s.vacuum
  ELSE AtMost(s.vacuum, s.autovacuum)

\* Mutant: a table that was never vacuumed counts as fresh.
StaleVacuumOnceDone(s) ==
  /\ s.live >= 1000 /\ s.dead > 1000
  /\ LastVacuum(s) # None /\ LastVacuum(s) > A.vacuumStaleDays

\* checkStaleVacuum: never vacuumed, or longer ago than vacuumStaleDays.
StaleVacuum(s) ==
  /\ s.live >= 1000 /\ s.dead > 1000
  /\ LastVacuum(s) = None \/ LastVacuum(s) > A.vacuumStaleDays

\* checkStaleAnalyze: shown on the tables page only, no rule reads it.
StaleAnalyze(s) == s.live >= 1000 /\ (s.analyze = None \/ s.analyze > A.analyzeStaleDays)

\* checkMissingIndex: mostly read from end to end, and often.
ScannedAtRatio(s, ratio) == s.seq * 1000 >= ratio * (s.seq + s.idx)

MissingIndex(s) ==
  /\ s.live >= A.minTableSizeForIndex
  /\ s.seq + s.idx > 0 /\ s.seq >= 100
  /\ ScannedAtRatio(s, A.seqScanRatioWarning)

\* AnalyzeSnapshots.
TableIssues(s, bloat) ==
  {i \in {"high_bloat", "stale_vacuum", "stale_analyze", "missing_index"} :
     CASE i = "high_bloat"    -> HighBloat(bloat)
       [] i = "stale_vacuum"  -> StaleVacuum(s)
       [] i = "stale_analyze" -> StaleAnalyze(s)
       [] OTHER               -> MissingIndex(s)}

-----------------------------------------------------------------------------
\* Plans: the sequential scans of a table the planner showed, busiest query
\* first, each with the columns it filters on, the query's share of the
\* execution time in percent, the read of the table's indexes its proposal was
\* checked with and whether the proposal was skipped.

\* A query whose plan failed, or a table that could not be read: the proposal
\* is skipped with the error as the reason, the report is saved all the same.
Unread(p, gap) == {p.query, p.read} \cap gap # {}

Planned(scans, gap) ==
  [i \in DOMAIN scans |->
     IF Unread(scans[i], gap) THEN [scans[i] EXCEPT !.skipped = TRUE] ELSE scans[i]]

\* Proposals take their place in the longest recommendation they are a prefix of.
Absorb(recs, p) ==
  LET covering == {i \in DOMAIN recs : IsPrefix(p.columns, recs[i].columns)}
      target   == CHOOSE i \in covering : \A j \in covering : i <= j
  IN IF covering = {}
     THEN Append(recs, [columns |-> p.columns, queries |-> {p.query}, share |-> p.share])
     ELSE IF p.query \in recs[target].queries THEN recs
     ELSE [recs EXCEPT ![target].queries = @ \cup {p.query}, ![target].share = @ + p.share]

Proposed(p) == p.columns # <<>> /\ ~p.skipped

\* The proposals of n columns, the busiest query first.
OfLength(recs, scans, n) ==
  LET after[i \in 0..Len(scans)] ==
        IF i = 0 THEN recs
        ELSE IF Proposed(scans[i]) /\ Len(scans[i].columns) = n
             THEN Absorb(after[i - 1], scans[i])
             ELSE after[i - 1]
  IN after[Len(scans)]

\* A filter gives up to three columns compared for equality and one for a range.
MaxIndexColumns == 4

\* recommendIndexes on one table: longest first, so shorter ones find what covers them.
RecommendIndexes(scans) ==
  LET recs[n \in 1..MaxIndexColumns + 1] ==
        IF n > MaxIndexColumns THEN <<>> ELSE OfLength(recs[n + 1], scans, n)
  IN recs[1]

-----------------------------------------------------------------------------
\* The rules.  They only see what the analysis flagged.
BloatRule(s, bloat) ==
  IF "high_bloat" \in TableIssues(s, bloat)
  THEN Graded("bloat", Table, bloat, 0, C.bloatPercentCritical) ELSE {}

VacuumRule(s, bloat) ==
  IF "stale_vacuum" \in TableIssues(s, bloat)
  THEN {Finding("vacuum", Table, "warning")} ELSE {}

\* Left to index_recommendation when usable plans recommend an index there.
MissingIndexRule(s, bloat, recs) ==
  IF /\ "missing_index" \in TableIssues(s, bloat)
     /\ recs = <<>>
     /\ s.size >= C.minTableSizeForIndex
  THEN {Finding("missing_index", Table,
                IF ScannedAtRatio(s, C.seqScanRatioCritical) THEN "warning" ELSE "info")}
  ELSE {}

\* warningTimeShare, in percent.
WarningShare == 5

IndexRecommendationRule(recs) ==
  {Finding("index_recommendation", <<"index", recs[i].columns>>,
           IF recs[i].share >= WarningShare THEN "warning" ELSE "info") : i \in DOMAIN recs}
=============================================================================
