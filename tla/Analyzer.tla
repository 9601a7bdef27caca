------------------------------ MODULE Analyzer ------------------------------
(***************************************************************************)
(* An analysis (internal/analyzer) reads each data domain from the latest  *)
(* snapshot that covers it.  Nothing keeps the store still meanwhile: a    *)
(* collection cycle may be writing to the very snapshot that is read, and  *)
(* the daily maintenance may purge it.  What is at stake is the conclusion *)
(* that an issue is gone, which resolves its suggestion.                   *)
(***************************************************************************)
EXTENDS Naturals, Sequences, FiniteSets

CONSTANTS
  QueryStats, DatabaseStats, TableStats, Bloat, IndexStats,
  RowDomains,    \* the domains kept as one row per snapshot, in read order
  WithLists,     \* those of them whose row has lists that are read after it
  Observed,      \* sets of domains whose collectors work, one set per behaviour
  Budget,        \* Budget[d]: StalenessBudget, 0 when d is never stale
  Retention,     \* how long a snapshot is kept
  CycleSpan,     \* how long after its capture a snapshot may be written to
  AnalysisSpan,  \* the longest an analysis takes
  MaxSnapshots, MaxTime,
  MaxRuns,       \* collector runs in a behaviour
  MaxErrors,     \* failed reads in an analysis
  None

ASSUME AnalyzerAssumption ==
  /\ None \notin Nat
  /\ Retention \in Nat /\ CycleSpan \in Nat /\ AnalysisSpan \in Nat
  /\ MaxSnapshots \in Nat /\ MaxTime \in Nat
  /\ MaxRuns \in Nat /\ MaxErrors \in Nat

\* The domains in the order resolveDomains takes them and the reads in Analyze's.
ListDomains == <<QueryStats, TableStats, IndexStats, Bloat>>
AllDomains == ListDomains \o RowDomains
Domains == {AllDomains[i] : i \in 1..Len(AllDomains)}
Reads == <<QueryStats, DatabaseStats, TableStats, IndexStats>> \o RowDomains
Rows == {RowDomains[i] : i \in 1..Len(RowDomains)}
Snapshots == 1..MaxSnapshots

\* The single rows are read after the lists, database_stats a second time then.
ASSUME DomainsAssumption ==
  /\ RowDomains \in Seq(Rows)
  /\ DatabaseStats \in Rows /\ WithLists \subseteq Rows \ {DatabaseStats}
  /\ {QueryStats, TableStats, IndexStats, Bloat} \cap Rows = {}
  /\ QueryStats \notin {TableStats, IndexStats, Bloat}
  /\ TableStats \notin {IndexStats, Bloat} /\ IndexStats # Bloat
  /\ \A ds \in Observed : ds \subseteq Domains /\ ds # {}

\* A list that is gone reads as empty, so its snapshot must outlive its use.
\* The configuration only asks for a positive retention; the default is a week.
ASSUME BudgetAssumption ==
  /\ Budget \in [Domains -> Nat]
  /\ \A d \in {QueryStats, TableStats, IndexStats, Bloat} \cup WithLists :
       /\ Budget[d] > 0
       /\ Budget[d] + CycleSpan + AnalysisSpan <= Retention

VARIABLES
  clock,
  working,   \* the domains whose collectors succeed in this behaviour
  next,      \* the id of the next snapshot
  captured,  \* captured[s]: when s was taken, None when it is not stored
  data,      \* data[s][d]: when the stored rows of d were collected, or None
  outcome,   \* outcome[s][d]: the row of snapshot_collectors
  runs,      \* collector runs so far
  saved,     \* collectors that stored their rows and not their outcome
  stage,     \* where the analysis is
  step,      \* position in AllDomains or in Reads
  found,     \* the snapshot found for the domain being resolved
  anchor,    \* captured_at of the snapshot under analysis
  coverage,  \* AnalysisResult.Coverage
  seen,      \* seen[d]: what the analysis read of d
  resolvedAt,\* when the analysis began
  errors     \* failed reads so far, bounded by MaxErrors

store    == <<captured, data, outcome>>
analysis == <<stage, step, found, anchor, coverage, seen, resolvedAt, errors>>
world    == <<clock, working, next, runs, saved, store>>
vars     == <<world, analysis>>

NotRun == [status |-> "none", at |-> 0]
Uncovered == [snap |-> 0, at |-> 0, stale |-> FALSE]

\* Values have their types; rows belong to a stored snapshot, and what was read
\* to a snapshot that was found.
AnalyzerTypeOK ==
  /\ clock \in Nat
  /\ working \subseteq Domains
  /\ next \in Nat
  /\ captured \in [Snapshots -> Nat \cup {None}]
  /\ data \in [Snapshots -> [Domains -> Nat \cup {None}]]
  /\ outcome \in [Snapshots -> [Domains -> [status : {"none", "success", "error"}, at : Nat]]]
  /\ runs \in 0..MaxRuns
  /\ saved \subseteq Snapshots \X Domains
  /\ stage \in {"idle", "find", "lookup", "read", "retry", "lists", "done", "dead"}
  /\ step \in Nat
  /\ found \in Snapshots \cup {0}
  /\ anchor \in Nat
  /\ coverage \in [Domains -> [snap : Snapshots \cup {0}, at : Nat, stale : BOOLEAN]]
  /\ seen \in [Domains -> Nat \cup {None}]
  /\ resolvedAt \in Nat
  /\ errors \in 0..MaxErrors
  /\ \A s \in Snapshots, d \in Domains :
       captured[s] = None => data[s][d] = None /\ outcome[s][d] = NotRun
  /\ \A d \in Domains : seen[d] # None => coverage[d].snap # 0

Init ==
  /\ clock = 0
  /\ working \in Observed
  /\ next = 1
  /\ captured = [s \in Snapshots |-> None]
  /\ data = [s \in Snapshots |-> [d \in Domains |-> None]]
  /\ outcome = [s \in Snapshots |-> [d \in Domains |-> NotRun]]
  /\ runs = 0 /\ saved = {}
  /\ stage = "idle" /\ step = 1 /\ found = 0 /\ anchor = 0
  /\ coverage = [d \in Domains |-> Uncovered]
  /\ seen = [d \in Domains |-> None]
  /\ resolvedAt = 0 /\ errors = 0

Stored(s) == captured[s] # None
Running == stage \notin {"idle", "done", "dead"}

-----------------------------------------------------------------------------
\* Collection: a snapshot is cut, collectors store rows and then their outcome.
CreateSnapshot ==
  /\ next \in Snapshots
  /\ captured' = [captured EXCEPT ![next] = clock]
  /\ next' = next + 1
  /\ UNCHANGED <<clock, working, runs, saved, data, outcome, analysis>>

\* The snapshot the cycles write to: the newest, for CycleSpan.
Writable(s) == s = next - 1 /\ Stored(s) /\ clock <= captured[s] + CycleSpan

SaveRows(s, d) ==
  /\ Writable(s) /\ d \in working /\ <<s, d>> \notin saved
  /\ runs < MaxRuns /\ runs' = runs + 1
  /\ data' = [data EXCEPT ![s][d] = clock]
  /\ saved' = saved \cup {<<s, d>>}
  /\ UNCHANGED <<clock, working, next, captured, outcome, analysis>>

RecordRun(s, d, run) ==
  /\ Stored(s)
  /\ outcome' = [outcome EXCEPT ![s][d] = run]
  /\ saved' = saved \ {<<s, d>>}
  /\ UNCHANGED <<clock, working, next, captured, data, analysis>>

RecordSuccess(s, d) == 
  /\ <<s, d>> \in saved
  /\ RecordRun(s, d, [status |-> "success", at |-> clock])
  /\ UNCHANGED runs

\* The collector failed, before or after it stored rows.  Nobody reads when.
RecordError(s, d) ==
  /\ Writable(s) /\ d \in working
  /\ \/ <<s, d>> \in saved /\ UNCHANGED runs
     \/ <<s, d>> \notin saved /\ runs < MaxRuns /\ runs' = runs + 1
  /\ RecordRun(s, d, [status |-> "error", at |-> 0])

Forget(S) ==
  /\ captured' = [s \in Snapshots |-> IF s \in S THEN None ELSE captured[s]]
  /\ data' = [s \in Snapshots |-> IF s \in S THEN [d \in Domains |-> None] ELSE data[s]]
  /\ outcome' = [s \in Snapshots |-> IF s \in S THEN [d \in Domains |-> NotRun] ELSE outcome[s]]
  /\ saved' = {x \in saved : x[1] \notin S}

\* Related rows are deleted with their snapshot.
PurgeOldSnapshots ==
  LET old == {s \in Snapshots : Stored(s) /\ captured[s] + Retention < clock}
  IN old # {} /\ Forget(old) /\ UNCHANGED <<clock, working, next, runs, analysis>>

\* Cycles and analyses end in time: see CycleSpan and AnalysisSpan.
Tick ==
  /\ clock < MaxTime
  /\ \A x \in saved : clock < captured[x[1]] + CycleSpan
  /\ Running => clock < resolvedAt + AnalysisSpan
  /\ clock' = clock + 1
  /\ UNCHANGED <<working, next, runs, saved, store, analysis>>

-----------------------------------------------------------------------------
\* The search for a domain that no collector serves finds nothing, and nothing
\* is read of a domain without a snapshot: neither is a step.
Lookups(i) == {j \in i..Len(AllDomains) : AllDomains[j] \in working}
Pending(c, i) == {j \in i..Len(Reads) : c[Reads[j]].snap # 0}
First(S) == CHOOSE i \in S : \A j \in S : i <= j

\* Analysis.  A scheduled one starts from the newest snapshot, a triggered one
\* from its own, which a later cycle may have superseded.
StartAnalysis(s) ==
  /\ stage = "idle" /\ Stored(s)
  /\ stage' = "find" /\ step' = First(Lookups(1)) /\ anchor' = captured[s]
  /\ resolvedAt' = clock
  /\ UNCHANGED <<world, found, coverage, seen, errors>>

\* Mutant: the anchor does not bound the search.
LatestAtAll(d, bound) ==
  LET covering == {s \in Snapshots : Stored(s) /\ outcome[s][d].status = "success"}
  IN {s \in covering : \A t \in covering : captured[t] <= captured[s]}

\* The newest snapshot not after bound that the collector of d succeeded in.
GetLatestSnapshotWithCollector(d, bound) ==
  LET covering == {s \in Snapshots :
                     Stored(s) /\ captured[s] <= bound /\ outcome[s][d].status = "success"}
  IN {s \in covering : \A t \in covering : captured[t] <= captured[s]}

IsStale(d, at) == Budget[d] > 0 /\ resolvedAt > at + Budget[d]

ProceedToRead(c, i) ==
  IF Pending(c, i) # {} THEN stage' = "read" /\ step' = First(Pending(c, i))
                        ELSE stage' = "done" /\ step' = 1

NextDomain(c) ==
  /\ coverage' = c
  /\ found' = 0
  /\ IF Lookups(step + 1) # {} THEN stage' = "find" /\ step' = First(Lookups(step + 1))
                              ELSE ProceedToRead(c, 1)

\* resolveDomains: the snapshot of one domain, or no coverage at all.
FindSnapshot ==
  LET candidates == GetLatestSnapshotWithCollector(AllDomains[step], anchor)
  IN /\ stage = "find"
     /\ \/ /\ found' \in candidates
           /\ stage' = "lookup" /\ UNCHANGED <<step, coverage, errors>>
        \/ candidates = {} /\ NextDomain(coverage) /\ UNCHANGED errors
        \/ errors < MaxErrors /\ errors' = errors + 1 /\ NextDomain(coverage)
     /\ UNCHANGED <<world, anchor, seen, resolvedAt>>

\* When it was collected: read separately, so the outcome may have changed.
LookupRun ==
  LET d == AllDomains[step]
      r == outcome[found][d]
      covered == [snap |-> found, at |-> r.at, stale |-> IsStale(d, r.at)]
  IN /\ stage = "lookup"
     /\ \/ r.status = "success" /\ NextDomain([coverage EXCEPT ![d] = covered]) /\ UNCHANGED errors
        \/ r.status # "success" /\ NextDomain(coverage) /\ UNCHANGED errors
        \/ errors < MaxErrors /\ errors' = errors + 1 /\ NextDomain(coverage)
     /\ UNCHANGED <<world, anchor, seen, resolvedAt>>

-----------------------------------------------------------------------------
Usable(d) == coverage[d].snap # 0 /\ ~coverage[d].stale

\* What the store holds of d for this analysis.
RowsOf(d) == data[coverage[d].snap][d]

Invalidate(d) == coverage' = [coverage EXCEPT ![d].stale = TRUE]

NextRead == ProceedToRead(coverage, step + 1)

Reading(d) == stage = "read" /\ Reads[step] = d

AnalysisStep == UNCHANGED <<world, found, anchor, resolvedAt>>

\* Lists: rows that are gone read as no rows at all.
ReadList(d) ==
  /\ step <= 4 /\ d \in {QueryStats, IndexStats} /\ Reading(d)
  /\ seen' = [seen EXCEPT ![d] = RowsOf(d)]
  /\ UNCHANGED <<coverage, errors>> /\ AnalysisStep
  /\ NextRead

\* A failed read of d, unless the tables are at stake.
ReadFails(d) ==
  /\ d # TableStats /\ Reading(d)
  /\ errors < MaxErrors /\ errors' = errors + 1
  /\ Invalidate(d)
  /\ NextRead
  /\ UNCHANGED seen /\ AnalysisStep

\* AnalyzeOverall, then AddQueryStats on its result.  A purged snapshot has no
\* overall result, and AddQueryStats writes to it all the same.
ReadCache ==
  LET queries == Usable(QueryStats)
      gone    == ~Stored(coverage[DatabaseStats].snap)
  IN /\ step = 2 /\ Reading(DatabaseStats)
     /\ \/ /\ ~gone
           /\ seen' = [seen EXCEPT ![DatabaseStats] = RowsOf(DatabaseStats)]
           /\ NextRead /\ UNCHANGED <<coverage, errors>>
        \/ /\ gone /\ ~queries
           /\ NextRead /\ UNCHANGED <<coverage, errors, seen>>
        \/ /\ gone /\ queries
           /\ stage' = "dead" /\ UNCHANGED <<step, coverage, errors, seen>>
        \/ /\ queries /\ errors < MaxErrors /\ errors' = errors + 1
           /\ Invalidate(QueryStats)
           /\ seen' = [seen EXCEPT ![DatabaseStats] = RowsOf(DatabaseStats)]
           /\ NextRead
     /\ AnalysisStep

\* AnalyzeSnapshots with the bloat snapshot, when there is one.
ReadTables ==
  /\ Reading(TableStats)
  /\ \/ /\ seen' = [seen EXCEPT ![TableStats] = RowsOf(TableStats),
                                ![Bloat] = IF coverage[Bloat].snap = 0 THEN None ELSE RowsOf(Bloat)]
        /\ NextRead /\ UNCHANGED <<coverage, errors>>
     \/ /\ errors < MaxErrors /\ errors' = errors + 1
        /\ Invalidate(Bloat)
        /\ stage' = "retry" /\ UNCHANGED <<step, seen>>
  /\ AnalysisStep

\* The second attempt leaves bloat out.
RetryTables ==
  /\ stage = "retry"
  /\ \/ seen' = [seen EXCEPT ![TableStats] = RowsOf(TableStats)] /\ UNCHANGED <<coverage, errors>>
     \/ /\ errors < MaxErrors /\ errors' = errors + 1
        /\ Invalidate(TableStats) /\ UNCHANGED seen
  /\ NextRead
  /\ AnalysisStep

\* Mutant: a missing row is taken for a read that found nothing.
TakeRow(d) == seen' = [seen EXCEPT ![d] = RowsOf(d)] /\ UNCHANGED coverage

\* A domain kept as one row: no row means that it was not observed.
UseRow(d) ==
  IF RowsOf(d) = None THEN Invalidate(d) /\ UNCHANGED seen
                       ELSE seen' = [seen EXCEPT ![d] = RowsOf(d)] /\ UNCHANGED coverage

ReadRow(d) ==
  /\ step > 4 /\ Reading(d)
  /\ UseRow(d)
  /\ IF d \in WithLists /\ RowsOf(d) # None
     THEN stage' = "lists" /\ UNCHANGED step
     ELSE NextRead
  /\ UNCHANGED errors /\ AnalysisStep

\* The lists of activity and locks: what is gone reads as empty, what was written
\* over meanwhile is newer than the row.
ReadLists(d) ==
  /\ stage = "lists" /\ Reads[step] = d
  /\ \/ /\ \E rows \in {seen[d], RowsOf(d)} : seen' = [seen EXCEPT ![d] = rows]
        /\ UNCHANGED <<coverage, errors>>
     \/ /\ errors < MaxErrors /\ errors' = errors + 1
        /\ Invalidate(d) /\ UNCHANGED seen
  /\ NextRead
  /\ AnalysisStep

\* The result is handed to the suggester; the next analysis starts afresh.
Deliver ==
  /\ stage = "done"
  /\ stage' = "idle" /\ step' = 1 /\ anchor' = 0 /\ resolvedAt' = 0 /\ errors' = 0
  /\ coverage' = [d \in Domains |-> Uncovered]
  /\ seen' = [d \in Domains |-> None]
  /\ UNCHANGED <<world, found>>

\* The process ends and a new one starts on the same store.
Restart ==
  /\ saved' = {}
  /\ stage' = "idle" /\ step' = 1 /\ found' = 0 /\ anchor' = 0 /\ resolvedAt' = 0 /\ errors' = 0
  /\ coverage' = [d \in Domains |-> Uncovered]
  /\ seen' = [d \in Domains |-> None]
  /\ UNCHANGED <<clock, working, next, runs, store>>

Collecting ==
  \/ CreateSnapshot
  \/ \E s \in Snapshots, d \in Domains :
       SaveRows(s, d) \/ RecordSuccess(s, d) \/ RecordError(s, d)

Analyzing ==
  \/ FindSnapshot \/ LookupRun
  \/ ReadCache \/ ReadTables \/ RetryTables
  \/ \E d \in Domains : ReadList(d) \/ ReadRow(d) \/ ReadLists(d) \/ ReadFails(d)
  \/ Deliver

Next ==
  \/ Collecting
  \/ PurgeOldSnapshots
  \/ Tick
  \/ \E s \in Snapshots : StartAnalysis(s)
  \/ Analyzing
  \/ Restart

Spec == Init /\ [][Next]_vars

-----------------------------------------------------------------------------
\* RequiredDomains of the rules: bloat is only looked for in known tables.
Required == {{d} : d \in Domains \ {Bloat}} \cup {{TableStats, Bloat}}

\* Rules that need ds are evaluated, and resolve what they do not find again.
Resolves(ds) == stage = "done" /\ \A d \in ds : Usable(d)

\* A rule only resolves suggestions after all its data was there to be read, and
\* was collected no longer ago than the budget of its domain and a cycle
\* (resolveDomains: "suggestions get resolved on missing data rather than on
\* recovery" is what must not happen).
RecoveryWasObserved ==
  \A ds \in Required : Resolves(ds) =>
    \A d \in ds :
      /\ seen[d] # None
      /\ Budget[d] > 0 => resolvedAt <= seen[d] + Budget[d] + CycleSpan

\* Nothing collected after the anchor's own cycle reaches an analysis of the
\* past (resolveDomains: "so historical analysis stays historical").
HistoryStaysHistorical ==
  \A d \in Domains : seen[d] # None => seen[d] <= anchor + CycleSpan

\* "if one analyzer fails, others will still run" (Analyze).
AnalysisSurvives == stage # "dead"
=============================================================================
